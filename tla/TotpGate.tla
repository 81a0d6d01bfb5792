------------------------------ MODULE TotpGate ------------------------------
(***************************************************************************)
(* The second factor in front of every depositor command: enrolment, code  *)
(* window with its replay counter, failure window and lockout, unlocked    *)
(* sessions, /resettotp and restarts (src/src/vault/commands.ts,           *)
(* enrollment.ts, totp.ts, rateLimiter.ts, operatorCommands.ts).           *)
(*                                                                         *)
(* The handlers are operators here; Chat delivers the messages that start  *)
(* them. Time is counted in TOTP steps. A code is the counter it was made  *)
(* for, with the user's current secret; codes of other secrets, other      *)
(* texts and wrong digits are NoCode. What a guarded command does once it  *)
(* is let through is the subject of VaultRequests.                         *)
(***************************************************************************)
EXTENDS Integers, FiniteSets

CONSTANTS
  Users,
  Threshold,      \* failures that lock (5)
  FailureWindow,  \* windowMs (15 minutes)
  Lockout,        \* lockoutMs (15 minutes)
  Unlock,         \* TOTP_UNLOCK_MS (5 minutes)
  SetupMax,       \* TOTP_SETUP_MAX_FAILURES (5)
  MaxTime,        \* bound: the clock
  MayCrash        \* may the process die?

ASSUME TotpGateAssumption ==
  /\ Threshold \in Nat \ {0} /\ FailureWindow \in Nat /\ SetupMax \in Nat
  /\ Lockout \in Nat /\ FailureWindow <= Lockout
  /\ Unlock \in Nat \ {0} /\ MaxTime \in Nat \ {0}
  /\ MayCrash \in BOOLEAN

NoCode    == -2   \* a text that is no valid code
NoCounter == -1   \* totp_last_used_counter IS NULL
Never     == -1   \* no code accepted since the restart

Counters == 0..(MaxTime + 1)

VARIABLES
  now,            \* nowMs() and currentCounter()
  (* SQLite: vault_users *)
  known,          \* users with a row
  secret,         \* users whose totp_secret_enc is not NULL
  enrolled,       \* users with totp_enrolled_at > 0
  last,           \* per user: totp_last_used_counter
  (* volatile *)
  pending,        \* per user: what the next message answers
  setupFails,     \* per user: totpSetupFailures
  failures,       \* per user: the limiter's failure times, with their places in the list
  lockedUntil,    \* per user: the limiter's lockout, 0 when absent
  unlockedUntil,  \* per user: end of the unlocked session, 0 when absent
  (* history *)
  spare,          \* per user and code of the current secret: how often it may still count
  misses,         \* per user: refused codes since the last success or restart
  proved,         \* per user: time of the last accepted code since the restart
  unproved        \* users for whom a guarded command ran without a fresh code

db      == <<known, secret, enrolled, last>>
limiter == <<failures, lockedUntil>>
mem     == <<pending, setupFails, limiter, unlockedUntil>>
history == <<spare, misses, proved, unproved>>
gate    == <<now, db, mem, history>>

GateInit ==
  /\ now = 1
  /\ known \in SUBSET Users
  /\ enrolled = known
  /\ secret = known
  /\ last = [u \in Users |-> NoCounter]
  /\ pending = [u \in Users |-> "none"]
  /\ setupFails = [u \in Users |-> 0]
  /\ failures = [u \in Users |-> {}]
  /\ lockedUntil = [u \in Users |-> 0]
  /\ unlockedUntil = [u \in Users |-> 0]
  /\ spare = [u \in Users |-> [c \in Counters |-> 1]]
  /\ misses = [u \in Users |-> {}]
  /\ proved = [u \in Users |-> Never]
  /\ unproved = {}

Ask(u, k) == pending' = [pending EXCEPT ![u] = k]
Forget(u) == Ask(u, "none")

-----------------------------------------------------------------------------
(* rateLimiter.ts *)

\* isLockedOut; that it also drops an expired entry is not observable.
Locked(u) == lockedUntil[u] > now

\* The list is filtered, extended and measured: a set of times, each with the
\* place it was pushed to, which tells equal times apart.
Push(list) == list \cup {<<now, Cardinality(list) + 1>>}

RecentFailures(u) == {f \in failures[u] : now - f[1] <= FailureWindow}

\* History of a refused code; what has left the window does not count again.
Missed(u) ==
  misses' = [misses EXCEPT ![u] = Push({m \in @ : m[1] > now - FailureWindow})]

RecordFailureForgetful(u) ==   \* every failure starts the list anew
  /\ failures' = [failures EXCEPT ![u] = Push({})]
  /\ lockedUntil' = IF Threshold = 1
                    THEN [lockedUntil EXCEPT ![u] = now + Lockout] ELSE lockedUntil
  /\ Missed(u)

\* recordFailure, after a refused code.
RecordFailure(u) ==
  LET recent == Push(RecentFailures(u)) IN
    /\ \/ /\ Cardinality(recent) >= Threshold
          /\ lockedUntil' = [lockedUntil EXCEPT ![u] = now + Lockout]
          /\ failures' = [failures EXCEPT ![u] = {}]
       \/ /\ Cardinality(recent) < Threshold
          /\ failures' = [failures EXCEPT ![u] = recent]
          /\ UNCHANGED lockedUntil
    /\ Missed(u)

RecordSuccess(u) ==
  /\ failures' = [failures EXCEPT ![u] = {}]
  /\ lockedUntil' = [lockedUntil EXCEPT ![u] = 0]
  /\ misses' = [misses EXCEPT ![u] = {}]

-----------------------------------------------------------------------------
(* totp.ts, and the sessions *)

InWindow(c) == c \in (now - 1)..(now + 1) /\ c \in Counters

VerifyCodeLoose(c, lastUsed, slip) ==   \* a code may be used again in its own step
  InWindow(c) /\ (lastUsed = NoCounter \/ c + slip >= lastUsed)

\* verifyCode: the code's step is found from one clock read, the counter to
\* record from a second one; slip is 1 if a step begins in between.
VerifyCode(c, lastUsed, slip) ==
  InWindow(c) /\ (lastUsed = NoCounter \/ c + slip > lastUsed)

IsUnlockedLate(u) == unlockedUntil[u] >= now   \* the session includes its end

IsUnlocked(u) == unlockedUntil[u] > now

\* The step that begins between the two reads is over when time is read again.
ClockAfter(slip) == now + slip <= MaxTime /\ now' = now + slip

\* History of an acceptance, with n more reasons why the code may come again.
Accepted(u, c, n) == spare' = [spare EXCEPT ![u][c] = @ - 1 + n]

\* A guarded command runs at time t; the last proof was given at time p.
Acts(u, t, p) ==
  unproved' = IF p # Never /\ t < p + Unlock THEN unproved ELSE unproved \cup {u}

-----------------------------------------------------------------------------
(* Enrolment. *)

\* beginTotpEnrollment: a new secret, with codes of its own, not yet confirmed.
BeginTotpEnrollment(u) ==
  /\ secret' = secret \cup {u}
  /\ enrolled' = enrolled \ {u}
  /\ spare' = [spare EXCEPT ![u] = [c \in Counters |-> 1]]
  /\ Ask(u, "setup")

\* /account and the nav:create_account button.
HandleAccount(u) ==
  /\ \/ /\ u \notin known
        /\ Ask(u, "disclaimer")
        /\ UNCHANGED <<secret, enrolled, spare>>
     \/ u \in known \ enrolled /\ BeginTotpEnrollment(u)
     \/ u \in enrolled /\ UNCHANGED <<secret, enrolled, pending, spare>>
  /\ UNCHANGED <<now, known, last, setupFails, limiter, unlockedUntil,
                 misses, proved, unproved>>

\* /accept and enr:accept: the row, then, after an await, the secret.
HandleAccept(u) ==
  /\ \/ /\ pending[u] = "disclaimer"
        /\ known' = known \cup {u}
        /\ BeginTotpEnrollment(u)
        /\ setupFails' = [setupFails EXCEPT ![u] = 0]
     \/ /\ pending[u] # "disclaimer"
        /\ UNCHANGED <<known, secret, enrolled, spare, pending, setupFails>>
  /\ UNCHANGED <<now, last, limiter, unlockedUntil, misses, proved, unproved>>

\* Death in that await: a row without a secret.
DiesInAccept(u) ==
  /\ MayCrash /\ pending[u] = "disclaimer"
  /\ known' = known \cup {u}
  /\ UNCHANGED <<now, secret, enrolled, last, spare, unproved>>

\* /decline and enr:decline
HandleDecline(u) ==
  /\ Forget(u)
  /\ setupFails' = [setupFails EXCEPT ![u] = 0]
  /\ UNCHANGED <<now, db, limiter, unlockedUntil, history>>

\* respondTotpSetupConfirm with a right code: setTotp, then setTotpLastCounter.
SetupConfirmed(u, c, slip) ==
  /\ u \in secret /\ VerifyCode(c, NoCounter, slip)
  /\ ClockAfter(slip)
  /\ enrolled' = enrolled \cup {u}
  /\ last' = [last EXCEPT ![u] = c + slip]
  /\ Accepted(u, c, slip)
  /\ RecordSuccess(u)
  /\ Forget(u)
  /\ setupFails' = [setupFails EXCEPT ![u] = 0]
  /\ UNCHANGED <<known, secret, unlockedUntil, proved, unproved>>

\* The second write throws: enrolled, the counter unrecorded, the prompt open.
SetupTorn(u, c) ==
  /\ u \in secret /\ VerifyCode(c, NoCounter, 0)
  /\ enrolled' = enrolled \cup {u}
  /\ Accepted(u, c, 1)
  /\ UNCHANGED <<now, known, secret, last, mem, misses, proved, unproved>>

\* A wrong one: the prompt stays, unless a limit is reached.
SetupFailed(u, c) ==
  /\ ~(u \in secret /\ VerifyCode(c, NoCounter, 0))
  /\ RecordFailure(u)
  /\ \/ /\ lockedUntil' # lockedUntil \/ setupFails[u] + 1 >= SetupMax
        /\ Forget(u)
        /\ setupFails' = [setupFails EXCEPT ![u] = 0]
     \/ /\ lockedUntil' = lockedUntil /\ setupFails[u] + 1 < SetupMax
        /\ setupFails' = [setupFails EXCEPT ![u] = @ + 1]
        /\ UNCHANGED pending
  /\ UNCHANGED <<now, db, unlockedUntil, spare, proved, unproved>>

-----------------------------------------------------------------------------
(* Guarded commands. *)

\* /deposit, /balance, /withdraw, /setwhitelist, /cancelwhitelist and their
\* buttons.
HandleGuarded(u) ==
  /\ u \in enrolled /\ ~Locked(u)
  /\ \/ IsUnlocked(u) /\ Acts(u, now, proved[u]) /\ UNCHANGED pending
     \/ ~IsUnlocked(u) /\ Ask(u, "code") /\ UNCHANGED unproved
  /\ UNCHANGED <<now, db, setupFails, limiter, unlockedUntil,
                 spare, misses, proved>>

RefuseGuarded(u) ==
  /\ u \notin enrolled \/ Locked(u)
  /\ UNCHANGED gate

\* wd:custom and wl:set set a prompt for anybody, at any time; cancel clears it.
PromptButton(u, k) ==
  /\ Ask(u, k)
  /\ UNCHANGED <<now, db, setupFails, limiter, unlockedUntil, history>>

\* respondWithdrawAmountEntry, respondSetWhitelistAddressEntry: the amount
\* prompt does not ask whether the user is enrolled.
EntryAnswered(u) ==
  /\ \/ IsUnlocked(u) /\ Acts(u, now, proved[u]) /\ Forget(u)
     \/ ~IsUnlocked(u) /\ Ask(u, "code") /\ UNCHANGED unproved
  /\ UNCHANGED <<now, db, setupFails, limiter, unlockedUntil,
                 spare, misses, proved>>

\* verifyTotpGated, code right: counter, limiter, session, command.
GateOpens(u, c, slip) ==
  /\ u \in enrolled /\ VerifyCode(c, last[u], slip)
  /\ ClockAfter(slip)
  /\ last' = [last EXCEPT ![u] = c + slip]
  /\ Accepted(u, c, slip)
  /\ RecordSuccess(u)
  /\ unlockedUntil' = [unlockedUntil EXCEPT ![u] = now + slip + Unlock]
  /\ Forget(u)
  /\ proved' = [proved EXCEPT ![u] = now + slip]
  /\ Acts(u, now + slip, now + slip)
  /\ UNCHANGED <<known, secret, enrolled, setupFails>>

\* verifyTotpGated, code wrong, or the user is not enrolled any more.
GateRefuses(u, c) ==
  /\ ~(u \in enrolled /\ VerifyCode(c, last[u], 0))
  /\ RecordFailure(u)
  /\ Forget(u)
  /\ UNCHANGED <<now, db, setupFails, unlockedUntil, spare, proved, unproved>>

\* The prompt is used up for nothing: the counter of a right code cannot be
\* written, an entered amount or address is unusable.
PromptDropped(u, c) ==
  /\ \/ pending[u] = "code" /\ u \in enrolled /\ VerifyCode(c, last[u], 0)
     \/ pending[u] = "entry"
  /\ Forget(u)
  /\ UNCHANGED <<now, db, setupFails, limiter, unlockedUntil, history>>

\* handleMessage reaches the pending action: Telegram users without a row are
\* not dispatched, locked ones keep their prompt.
Preflight(u) == u \in known /\ pending[u] # "none" /\ ~Locked(u)

HandleMessage(u, c) ==
  \/ /\ Preflight(u)
     /\ \/ /\ pending[u] = "setup"
           /\ \/ \E slip \in 0..1 : SetupConfirmed(u, c, slip)
              \/ SetupTorn(u, c) \/ SetupFailed(u, c)
              \/ UNCHANGED gate   \* neither enrolled nor, as the audit throws, counted
        \/ /\ pending[u] = "code"
           /\ (\E slip \in 0..1 : GateOpens(u, c, slip)) \/ GateRefuses(u, c)
        \/ pending[u] = "entry" /\ EntryAnswered(u)
        \/ PromptDropped(u, c)
        \/ pending[u] = "disclaimer" /\ UNCHANGED gate
  \/ ~Preflight(u) /\ UNCHANGED gate

HandleResetTotpHalf(u) ==   \* totp_enrolled_at is left as it is
  /\ secret' = secret \ {u}
  /\ last' = [last EXCEPT ![u] = NoCounter]
  /\ UNCHANGED <<now, known, enrolled, mem, history>>

\* /resettotp: prompt, session and limiter of the user stay as they are. A
\* user without a row has nothing to clear.
HandleResetTotp(u) ==
  /\ secret' = secret \ {u}
  /\ enrolled' = enrolled \ {u}
  /\ last' = [last EXCEPT ![u] = NoCounter]
  /\ UNCHANGED <<now, known, mem, history>>

-----------------------------------------------------------------------------
\* Everything that is not in the database is gone.
MemoryLost ==
  /\ pending' = [u \in Users |-> "none"]
  /\ setupFails' = [u \in Users |-> 0]
  /\ failures' = [u \in Users |-> {}]
  /\ lockedUntil' = [u \in Users |-> 0]
  /\ unlockedUntil' = [u \in Users |-> 0]
  /\ misses' = [u \in Users |-> {}]
  /\ proved' = [u \in Users |-> Never]

Restart == MemoryLost /\ UNCHANGED <<now, db, spare, unproved>>

Tick ==
  /\ now < MaxTime
  /\ now' = now + 1
  /\ UNCHANGED <<db, mem, history>>

-----------------------------------------------------------------------------
(* Properties. *)

\* Every variable of the gate has its type; a prompt for a set-up code
\* belongs to a user with a row.
GateTypeOK ==
  /\ now \in 0..MaxTime
  /\ known \subseteq Users
  /\ secret \subseteq known /\ enrolled \subseteq secret
  /\ last \in [Users -> {NoCounter} \cup 0..(MaxTime + 2)]
  /\ pending \in [Users -> {"none", "disclaimer", "setup", "code", "entry"}]
  /\ \A u \in Users : pending[u] = "setup" => u \in known
  /\ setupFails \in [Users -> 0..SetupMax]
  /\ failures \in [Users -> SUBSET ((0..MaxTime) \X Nat)]
  /\ lockedUntil \in [Users -> 0..(MaxTime + Lockout)]
  /\ unlockedUntil \in [Users -> 0..(MaxTime + Unlock)]
  /\ spare \in [Users -> [Counters -> Int]]

\* "Replay-protected (counter must strictly advance)": a code of a secret is
\* accepted once, by enrolment and gate together, over redelivered messages,
\* restarts and resets; once more only where the counter recorded for it was
\* the next one (a step began between two clock reads) or none (the write
\* after the enrolment was lost).
CodeCountsOnce == \A u \in Users, c \in Counters : spare[u][c] >= 0

\* "Five failed 2FA attempts within 15 minutes": between restarts, and until
\* a right code comes, no window holds more refused codes than the threshold,
\* set-up and guarded prompts, resets and expiring lockouts taken together. A
\* wrong set-up code whose audit cannot be written is not counted, as in the code.
GuessesBounded ==
  \A u \in Users :
    Cardinality({m \in misses[u] : m[1] > now - FailureWindow}) <= Threshold

\* A guarded command runs only within the unlock time of a code the gate
\* accepted since the last restart, however prompts, buttons, resets and
\* re-enrolments are interleaved; confirming the enrolment does not count.
ActsAreProved == unproved = {}
=============================================================================
