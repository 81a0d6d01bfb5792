---------------------------- MODULE VaultRequests ----------------------------
(***************************************************************************)
(* What a depositor asks of the vault: /withdraw with its caps and its     *)
(* amount prompt, /setwhitelist and /cancelwhitelist with their cooldown   *)
(* (src/src/vault/commands.ts, uiCallbacks.ts, cooldowns.ts), against the  *)
(* tick, which settles queued withdrawals and activates matured whitelist  *)
(* changes while a handler awaits the NAV.                                 *)
(*                                                                         *)
(* Telegram handlers run one after the other; a handler gives way to the   *)
(* tick only where it awaits getNav(). Abstracted: one share is one dollar *)
(* and the fee is left out; a 2FA code is right or wrong (enrolment, codes *)
(* and lockout are the subject of TotpGate); a row the executor has taken  *)
(* counts as queued, as it does for the caps; users are enrolled.          *)
(***************************************************************************)
EXTENDS Integers, FiniteSets, FiniteSetsExt

CONSTANTS
  Users,          \* enrolled depositors
  Addresses,      \* withdrawal destinations
  Amounts,        \* dollar amounts a request can name; 0 stands for 100%
  InitialShares,  \* every user's shares at the start
  MinAmount,      \* minWithdrawalUsd
  DailyCount,     \* maxDailyWithdrawalsPerUser
  DailyUsd,       \* maxDailyWithdrawalUsdPerUser
  QueueMax,       \* maxPendingWithdrawals
  Day,            \* 24 hours
  Cooldown,       \* whitelist cooldown
  MaxTime,        \* bound: the clock
  MaxRows,        \* bound: withdrawals ever queued
  MaxChanges,     \* bound: whitelist changes ever requested
  MayCrash        \* may the process die?

NoAddress == "no address"
NoUser    == "nobody"

ASSUME VaultRequestsAssumption ==
  /\ NoAddress \notin Addresses /\ NoUser \notin Users
  /\ Amounts \subseteq Nat
  /\ InitialShares \in Nat /\ MinAmount \in Nat \ {0}
  /\ DailyCount \in Nat /\ DailyUsd \in Nat /\ QueueMax \in Nat
  /\ Day \in Nat /\ Cooldown \in Nat /\ MaxTime \in Nat
  /\ MaxRows \in Nat /\ MaxChanges \in Nat
  /\ MayCrash \in BOOLEAN

RowIds    == 1..MaxRows
ChangeIds == 1..MaxChanges

VARIABLES
  now,            \* nowMs()
  (* SQLite *)
  shares,         \* per user: vault_shares.shares
  whitelist,      \* per user: vault_users.whitelist_address
  changes,        \* vault_pending_whitelist_changes, by id
  rows,           \* vault_withdrawals, by id
  (* volatile *)
  pending,        \* per user: the PendingAction the next message answers
  unlocked,       \* users within TOTP_UNLOCK_MS of a right code
  call            \* the handler that awaits getNav()

db   == <<shares, whitelist, changes, rows>>
mem  == <<pending, unlocked, call>>
vars == <<now, shares, whitelist, changes, rows, pending, unlocked, call>>

NoRow    == [user |-> NoUser, dest |-> NoAddress, amount |-> 0, at |-> 0, status |-> "none"]
NoChange == [user |-> NoUser, addr |-> NoAddress, at |-> 0, due |-> 0, status |-> "none"]

Prompt(k, a, d) == [kind |-> k, amount |-> a, addr |-> d]
NoPrompt == Prompt("none", 0, NoAddress)

Call(l, u, a, d) == [pc |-> l, user |-> u, amount |-> a, dest |-> d]
NoCall == Call("idle", NoUser, 0, NoAddress)

Init ==
  /\ now = 0
  /\ shares = [u \in Users |-> InitialShares]
  /\ whitelist = [u \in Users |-> NoAddress]
  /\ changes = [c \in ChangeIds |-> NoChange]
  /\ rows = [r \in RowIds |-> NoRow]
  /\ pending = [u \in Users |-> NoPrompt]
  /\ unlocked = {}
  /\ call = NoCall

Idle == call.pc = "idle"

Ask(u, p)    == pending' = [pending EXCEPT ![u] = p]
Forget(u)    == Ask(u, NoPrompt)

\* The first unused id of an AUTOINCREMENT table.
NextId(table, id) == /\ table[id].status = "none"
                     /\ \A j \in DOMAIN table : j < id => table[j].status # "none"

-----------------------------------------------------------------------------
(* cooldowns.ts *)

InsertChange(u, a, due, s) ==
  \E c \in ChangeIds :
    /\ NextId(changes, c)
    /\ changes' = [changes EXCEPT ![c] =
         [user |-> u, addr |-> a, at |-> now, due |-> due, status |-> s]]

RequestChangeWhenQuiet(u, a) ==   \* immediate whenever nothing is pending
  IF ~\E c \in ChangeIds : changes[c].user = u /\ changes[c].status = "pending"
  THEN InsertChange(u, a, now, "activated") /\ whitelist' = [whitelist EXCEPT ![u] = a]
  ELSE InsertChange(u, a, now + Cooldown, "pending") /\ UNCHANGED whitelist

\* requestChange: the first address counts at once, any other after Cooldown.
RequestChange(u, a) ==
  \/ /\ whitelist[u] = NoAddress
     /\ InsertChange(u, a, now, "activated")
     /\ whitelist' = [whitelist EXCEPT ![u] = a]
  \/ /\ whitelist[u] # NoAddress
     /\ InsertChange(u, a, now + Cooldown, "pending")
     /\ UNCHANGED whitelist

PendingChanges(u) == {c \in ChangeIds : changes[c].user = u /\ changes[c].status = "pending"}

\* cancelPending: the most recent pending change; ids follow requested_at.
CancelPending(u) ==
  \/ PendingChanges(u) = {} /\ UNCHANGED changes
  \/ /\ PendingChanges(u) # {}
     /\ changes' = [changes EXCEPT ![Max(PendingChanges(u))].status = "cancelled"]

DueChanges(u) == {c \in PendingChanges(u) : changes[c].due <= now}

-----------------------------------------------------------------------------
(* The caps, and the commands. *)

\* Withdrawals of the last 24 hours that have not failed.
Recent(u) == {r \in RowIds :
  /\ rows[r].user = u
  /\ rows[r].status \in {"queued", "completed"}
  /\ rows[r].at >= now - Day}

\* countUserWithdrawalsLast24h, sumUserWithdrawalUsdLast24h
CountRecent(u) == Cardinality(Recent(u))
SumRecent(u)   == MapThenSumSet(LAMBDA r : rows[r].amount, Recent(u))

\* countPendingWithdrawals
QueueLength == Cardinality({r \in RowIds : rows[r].status = "queued"})

\* A percentage is taken of the balance after the NAV has arrived.
Usd(u, a) == IF a = 0 THEN shares[u] ELSE a

WithinBalance(u, usd) == MinAmount <= usd /\ usd <= shares[u]

WithinCaps(u, usd) ==
  /\ CountRecent(u) < DailyCount
  /\ SumRecent(u) + usd <= DailyUsd
  /\ QueueLength < QueueMax

\* /withdraw <amount> up to its await.
HandleWithdraw(u, a) ==
  /\ Idle /\ whitelist[u] # NoAddress
  /\ call' = Call("check", u, a, NoAddress)
  /\ UNCHANGED <<now, db, pending, unlocked>>

\* /withdraw without an amount, or the wd:custom button.
AskAmount(u) ==
  /\ Idle
  /\ Ask(u, Prompt("amount", 0, NoAddress))
  /\ UNCHANGED <<now, db, unlocked, call>>

\* respondWithdrawAmountEntry up to its await: a number, no percentage.
EnterAmount(u, a) ==
  /\ Idle /\ pending[u].kind = "amount" /\ a > 0
  /\ Forget(u)
  /\ call' = IF whitelist[u] = NoAddress THEN NoCall ELSE Call("entry", u, a, NoAddress)
  /\ UNCHANGED <<now, db, unlocked>>

\* _doWithdraw up to its await: the destination is read here.
DoWithdraw(u, usd) ==
  call' = IF whitelist[u] = NoAddress THEN NoCall ELSE Call("enqueue", u, usd, whitelist[u])

\* The request stands: at once in an unlocked session, else after a code.
Accept(u, usd) ==
  \/ u \in unlocked /\ DoWithdraw(u, usd) /\ UNCHANGED pending
  \/ u \notin unlocked /\ call' = NoCall /\ Ask(u, Prompt("withdraw", usd, NoAddress))

\* The NAV is there: handleWithdraw checks balance and caps, the amount
\* prompt the balance alone.
CheckRequest ==
  /\ call.pc \in {"check", "entry"}
  /\ LET u == call.user  usd == Usd(call.user, call.amount) IN
       /\ WithinBalance(u, usd)
       /\ call.pc = "check" => WithinCaps(u, usd)
       /\ Accept(u, usd)
  /\ UNCHANGED <<now, db, unlocked>>

\* No NAV, or a check fails: a reply, and nothing else.
RefuseRequest ==
  /\ call.pc \in {"check", "entry", "enqueue"}
  /\ call' = NoCall
  /\ UNCHANGED <<now, db, pending, unlocked>>

EnqueueToRequested ==   \* the address of the user's newest change
  /\ call.pc = "enqueue"
  /\ \E r \in RowIds, c \in ChangeIds :
       /\ NextId(rows, r)
       /\ changes[c].user = call.user
       /\ \A d \in ChangeIds : changes[d].user = call.user => d <= c
       /\ rows' = [rows EXCEPT ![r] =
            [user |-> call.user, dest |-> changes[c].addr, amount |-> call.amount,
             at |-> now, status |-> "queued"]]
  /\ call' = NoCall
  /\ UNCHANGED <<now, shares, whitelist, changes, pending, unlocked>>

\* _doWithdraw after its await: enqueueWithdrawal.
Enqueue ==
  /\ call.pc = "enqueue"
  /\ \E r \in RowIds :
       /\ NextId(rows, r)
       /\ rows' = [rows EXCEPT ![r] =
            [user |-> call.user, dest |-> call.dest, amount |-> call.amount,
             at |-> now, status |-> "queued"]]
  /\ call' = NoCall
  /\ UNCHANGED <<now, shares, whitelist, changes, pending, unlocked>>

HandleSetWhitelistForgets(u, a) ==   \* the prompt does not keep the address
  /\ Idle
  /\ \/ u \in unlocked /\ RequestChange(u, a) /\ UNCHANGED pending
     \/ /\ u \notin unlocked
        /\ Ask(u, Prompt("whitelist", 0, NoAddress)) /\ UNCHANGED <<whitelist, changes>>
  /\ UNCHANGED <<now, shares, rows, unlocked, call>>

\* /setwhitelist <address>
HandleSetWhitelist(u, a) ==
  /\ Idle
  /\ \/ u \in unlocked /\ RequestChange(u, a) /\ UNCHANGED pending
     \/ /\ u \notin unlocked
        /\ Ask(u, Prompt("whitelist", 0, a)) /\ UNCHANGED <<whitelist, changes>>
  /\ UNCHANGED <<now, shares, rows, unlocked, call>>

\* The wl:set button, and the address sent after it.
AskAddress(u) ==
  /\ Idle
  /\ Ask(u, Prompt("address", 0, NoAddress))
  /\ UNCHANGED <<now, db, unlocked, call>>

EnterAddress(u, a) ==
  /\ Idle /\ pending[u].kind = "address"
  /\ \/ u \in unlocked /\ RequestChange(u, a) /\ Forget(u)
     \/ /\ u \notin unlocked
        /\ Ask(u, Prompt("whitelist", 0, a)) /\ UNCHANGED <<whitelist, changes>>
  /\ UNCHANGED <<now, shares, rows, unlocked, call>>

HandleCancelWhitelist(u) ==
  /\ Idle
  /\ \/ u \in unlocked /\ CancelPending(u) /\ UNCHANGED pending
     \/ /\ u \notin unlocked
        /\ Ask(u, Prompt("cancel", 0, NoAddress)) /\ UNCHANGED changes
  /\ UNCHANGED <<now, shares, whitelist, rows, unlocked, call>>

\* /deposit and /balance prompt for a code as well.
HandleReveal(u) ==
  /\ Idle /\ u \notin unlocked
  /\ Ask(u, Prompt("reveal", 0, NoAddress))
  /\ UNCHANGED <<now, db, unlocked, call>>

AwaitsCode(u) == pending[u].kind \in {"withdraw", "whitelist", "cancel", "reveal"}

\* handleMessage with a right code: the session is unlocked, the prompted
\* action is carried out.
RightCode(u) ==
  /\ Idle /\ AwaitsCode(u)
  /\ Forget(u)
  /\ unlocked' = unlocked \cup {u}
  /\ \/ /\ pending[u].kind = "withdraw"
        /\ DoWithdraw(u, pending[u].amount)
        /\ UNCHANGED <<whitelist, changes>>
     \/ /\ pending[u].kind = "whitelist"
        /\ RequestChange(u, pending[u].addr)
        /\ UNCHANGED call
     \/ pending[u].kind = "cancel" /\ CancelPending(u) /\ UNCHANGED <<whitelist, call>>
     \/ pending[u].kind = "reveal" /\ UNCHANGED <<whitelist, changes, call>>
  /\ UNCHANGED <<now, shares, rows>>

\* A wrong code, an unusable amount or address, the cancel button.
DropPrompt(u) ==
  /\ Idle /\ pending[u] # NoPrompt
  /\ Forget(u)
  /\ UNCHANGED <<now, db, unlocked, call>>

\* /forceprocess
HandleForceProcess(r) ==
  /\ Idle /\ rows[r].status = "failed"
  /\ rows' = [rows EXCEPT ![r].status = "queued"]
  /\ UNCHANGED <<now, shares, whitelist, changes, mem>>

-----------------------------------------------------------------------------
(* The tick, time, and the death of the process. *)

\* drain(): a payout and its burn, or a failure.
Settle(r) ==
  /\ rows[r].status = "queued"
  /\ \/ /\ rows' = [rows EXCEPT ![r].status = "completed"]
        /\ shares' = [shares EXCEPT ![rows[r].user] = @ - rows[r].amount]
     \/ rows' = [rows EXCEPT ![r].status = "failed"] /\ UNCHANGED shares
  /\ UNCHANGED <<now, whitelist, changes, mem>>

ActivateDueNewestFirst ==   \* ORDER BY activates_at DESC
  /\ \E u \in Users : DueChanges(u) # {}
  /\ whitelist' = [u \in Users |->
       IF DueChanges(u) = {} THEN whitelist[u] ELSE changes[Min(DueChanges(u))].addr]
  /\ changes' = [c \in ChangeIds |->
       IF \E u \in Users : c \in DueChanges(u)
       THEN [changes[c] EXCEPT !.status = "activated"] ELSE changes[c]]
  /\ UNCHANGED <<now, shares, rows, mem>>

\* activateDue: every matured change, oldest first, so the newest one stays.
ActivateDue ==
  /\ \E u \in Users : DueChanges(u) # {}
  /\ whitelist' = [u \in Users |->
       IF DueChanges(u) = {} THEN whitelist[u] ELSE changes[Max(DueChanges(u))].addr]
  /\ changes' = [c \in ChangeIds |->
       IF \E u \in Users : c \in DueChanges(u)
       THEN [changes[c] EXCEPT !.status = "activated"] ELSE changes[c]]
  /\ UNCHANGED <<now, shares, rows, mem>>

Advance ==
  /\ now < MaxTime
  /\ now' = now + 1
  /\ UNCHANGED <<db, mem>>

\* TOTP_UNLOCK_MS have passed.
SessionEnds(u) ==
  /\ u \in unlocked
  /\ unlocked' = unlocked \ {u}
  /\ UNCHANGED <<now, db, pending, call>>

Crash ==
  /\ MayCrash
  /\ pending' = [u \in Users |-> NoPrompt] /\ unlocked' = {} /\ call' = NoCall
  /\ UNCHANGED <<now, db>>

-----------------------------------------------------------------------------
HandlerStep ==
  \/ \E u \in Users :
       \/ \E a \in Amounts : HandleWithdraw(u, a) \/ EnterAmount(u, a)
       \/ \E a \in Addresses : HandleSetWhitelist(u, a) \/ EnterAddress(u, a)
       \/ AskAmount(u) \/ AskAddress(u) \/ HandleCancelWhitelist(u) \/ HandleReveal(u)
       \/ RightCode(u) \/ DropPrompt(u)
  \/ \E r \in RowIds : HandleForceProcess(r)
  \/ CheckRequest \/ RefuseRequest \/ Enqueue

TickStep == (\E r \in RowIds : Settle(r)) \/ ActivateDue

Next == HandlerStep \/ TickStep \/ Advance \/ (\E u \in Users : SessionEnds(u)) \/ Crash

Spec == Init /\ [][Next]_vars

-----------------------------------------------------------------------------
(* Properties. *)

RowType == [user : Users \cup {NoUser}, dest : Addresses \cup {NoAddress}, amount : Nat,
            at : Nat, status : {"none", "queued", "completed", "failed"}]

ChangeType == [user : Users \cup {NoUser}, addr : Addresses \cup {NoAddress}, at : Nat,
               due : Nat, status : {"none", "pending", "activated", "cancelled"}]

PromptType == [kind : {"none", "amount", "address", "withdraw", "whitelist", "cancel", "reveal"},
               amount : Nat, addr : Addresses \cup {NoAddress}]

CallType == [pc : {"idle", "check", "entry", "enqueue"}, user : Users \cup {NoUser},
             amount : Nat, dest : Addresses \cup {NoAddress}]

\* Every variable has its type; a waiting handler has a user and a prompted
\* change an address.
TypeOK ==
  /\ now \in Nat
  /\ shares \in [Users -> Int]
  /\ whitelist \in [Users -> Addresses \cup {NoAddress}]
  /\ changes \in [ChangeIds -> ChangeType]
  /\ rows \in [RowIds -> RowType]
  /\ pending \in [Users -> PromptType]
  /\ unlocked \subseteq Users
  /\ call \in CallType
  /\ call.pc # "idle" => call.user \in Users
  /\ \A u \in Users : pending[u].kind = "whitelist" => pending[u].addr \in Addresses

\* Change c made address a the active one of user u, by time t.
Matured(c, u, a, t) ==
  /\ changes[c].user = u /\ changes[c].addr = a
  /\ changes[c].status = "activated" /\ changes[c].due <= t

\* "destination = current whitelist snapshot": whatever the tick activates
\* while a request waits for its code or for the NAV, a withdrawal goes only
\* to an address whose change had matured when the row was queued; never to
\* a pending or cancelled one.
DestinationMatured ==
  \A r \in RowIds : rows[r].status # "none" =>
    \E c \in ChangeIds : Matured(c, rows[r].user, rows[r].dest, rows[r].at)

\* The active address is the one of the newest activated change: several
\* changes of one user that mature together, or around a cancellation, never
\* leave an older address behind.
NewestChangeCounts ==
  \A u \in Users : whitelist[u] # NoAddress =>
    \E c \in ChangeIds :
      /\ Matured(c, u, whitelist[u], now)
      /\ \A d \in ChangeIds :
           changes[d].user = u /\ changes[d].status = "activated" => d <= c

WaitedCooldown ==
  \A u \in Users : whitelist[u] # NoAddress /\ whitelist'[u] # whitelist[u] =>
    \E c \in ChangeIds :
      /\ changes[c].user = u /\ changes[c].addr = whitelist'[u]
      /\ changes[c].status = "pending" /\ changes[c].at + Cooldown <= now

\* "First-set immediate; subsequent change requires 24h cooldown": an address
\* is replaced only by a change that was requested a cooldown ago and has not
\* been cancelled, over prompts, unlocked sessions and restarts.
ReplacedAfterCooldown == [][WaitedCooldown]_vars

\* "Checks (fail-closed)", "Amount exceeds your balance": no withdrawal burns
\* more shares than its user has.
NoOverdraw == \A u \in Users : shares[u] >= 0
=============================================================================
