----------------------------- MODULE Rebalancer -----------------------------
(***************************************************************************)
(* The market-making side: the tick of src/src/main.ts with strategy.ts,   *)
(* executeRebalance (rebalancer.ts), the position row, rebalance log and   *)
(* degraded flag of stateStore.ts, startup reconciliation (reconciler.ts), *)
(* and the operator's command line (src/src/cli), which runs as a second   *)
(* process on the same database and wallet, without any lock.              *)
(*                                                                         *)
(* Abstracted: prices, ranges, history and cooldown of decide() are a      *)
(* nondeterministic answer; amounts and the swap are left out; the retries *)
(* of the submitter (Jito, then three RPC attempts) may end after any      *)
(* attempt. dryRun, which sends and stores nothing, is not modelled.       *)
(***************************************************************************)
EXTENDS Integers, FiniteSets

CONSTANTS
  Procs,          \* running processes: {"bot"} or {"bot", "cli"}
  Commands,       \* the commands the operator uses
  MaxMints,       \* bound: positions ever opened
  MaxDays,        \* bound: UTC days
  DailyMax,       \* maxRebalancesPerDay
  LostAnswers,    \* may a submit throw although its transaction is alive?
  DbFaults,       \* may an SQLite write throw?
  MayCrash        \* may a process die?

ASSUME RebalancerAssumption ==
  /\ "bot" \in Procs /\ Procs \subseteq {"bot", "cli"}
  /\ Commands \subseteq {"force", "exit", "reconcile", "orphan", "clear", "pause"}
  /\ MaxMints \in Nat /\ MaxDays \in Nat \ {0} /\ DailyMax \in Nat \ {0}
  /\ LostAnswers \in BOOLEAN /\ DbFaults \in BOOLEAN /\ MayCrash \in BOOLEAN

Mints == 1..MaxMints
Days  == 1..MaxDays

\* No position: no row in position_state, or currentPosition = null.
NoMint == 0

VARIABLES
  (* SQLite and the configuration *)
  stored,         \* position_state: the mint of the current position
  zeroed,         \* its stored price bounds are zero
  logged,         \* per day: rows of rebalance_log
  degraded,       \* the degraded flag
  kill,           \* the kill-switch file exists, or enabled: false
  (* Solana *)
  live,           \* positions that exist
  opened,         \* positions that ever existed
  lastMint,       \* position keys generated so far
  late,           \* transactions in flight that nobody waits for
  today,          \* the UTC day
  (* volatile *)
  job             \* per process: pc, the position held, the new one, its
                  \* awaited transaction, the day on which the tick or
                  \* executeRebalance began, the tick's sample of kill

db    == <<stored, zeroed, logged, degraded, kill>>
chain == <<live, opened, lastMint, late, today>>
vars  == <<stored, zeroed, logged, degraded, kill,
           live, opened, lastMint, late, today, job>>

\* A process at label l with position h, begun on day d.
Job(l, h, d, k) ==
  [pc |-> l, held |-> h, new |-> NoMint, out |-> "none", day |-> d, killed |-> k]

\* ... with nothing at hand.
At(l) == Job(l, NoMint, 1, FALSE)

pc(p) == job[p].pc

Init ==
  /\ stored = NoMint /\ zeroed = FALSE
  /\ logged = [d \in Days |-> 0]
  /\ degraded = FALSE /\ kill = FALSE
  /\ live = {} /\ opened = {} /\ lastMint = 0 /\ late = {} /\ today = 1
  /\ job = [p \in Procs |-> IF p = "bot" THEN At("down") ELSE At("idle")]

Set(p, j) == job' = [job EXCEPT ![p] = j]

\* The command is over; the bot sleeps until the next tick.
Return(p) == Set(p, At("idle"))

Goto(p, l) == Set(p, [job[p] EXCEPT !.pc = l])

\* state.setDegraded(true, ...)
Degrade == \/ degraded' = TRUE
           \/ DbFaults /\ UNCHANGED degraded

-----------------------------------------------------------------------------
(* Transactions. An open creates its position once; a close needs it there. *)

Applicable(tx) == IF tx[1] = "open" THEN tx[2] \notin opened ELSE tx[2] \in live

Execute(tx) ==
  /\ Applicable(tx)
  /\ \/ tx[1] = "open" /\ live' = live \cup {tx[2]} /\ opened' = opened \cup {tx[2]}
     \/ tx[1] = "close" /\ live' = live \ {tx[2]} /\ UNCHANGED opened

\* The transaction p waits for.
Awaited(p) ==
  IF pc(p) = "opening" THEN <<"open", job[p].new>>
  ELSE IF pc(p) = "rolling" THEN <<"close", job[p].new>>
  ELSE <<"close", job[p].held>>

\* build...Tx has succeeded: sign and send.
Send(p, l) == Set(p, [job[p] EXCEPT !.pc = l, !.out = "pending"])

Land(p) ==
  /\ job[p].out = "pending"
  /\ Execute(Awaited(p))
  /\ Set(p, [job[p] EXCEPT !.out = "landed"])
  /\ UNCHANGED <<db, lastMint, late, today>>

Drop(p) ==
  /\ job[p].out = "pending"
  /\ Set(p, [job[p] EXCEPT !.out = "dead"])
  /\ UNCHANGED <<db, chain>>

LateLand(tx) ==
  /\ tx \in late
  /\ Execute(tx)
  /\ late' = late \ {tx}
  /\ UNCHANGED <<db, lastMint, today, job>>

LateDrop(tx) ==
  /\ tx \in late
  /\ late' = late \ {tx}
  /\ UNCHANGED <<db, live, opened, lastMint, today, job>>

\* The attempt is rejected: the transaction died, or its answer was lost.
Threw(p) == job[p].out = "dead" \/ (LostAnswers /\ job[p].out # "none")

Abandon(p) ==
  late' = IF job[p].out = "pending" THEN late \cup {Awaited(p)} ELSE late

\* TxSubmitter: Jito falls back to RPC, RPC retries.
Resend(p) ==
  /\ Threw(p)
  /\ Abandon(p)
  /\ Set(p, [job[p] EXCEPT !.out = "pending"])
  /\ UNCHANGED <<db, live, opened, lastMint, today>>

\* The submit has rejected for good / has resolved.
Rejects(p) == Threw(p) /\ Abandon(p) /\ UNCHANGED <<live, opened, lastMint, today>>
Resolves(p) == job[p].out = "landed" /\ UNCHANGED chain

-----------------------------------------------------------------------------
(* The tick. *)

\* Sample the kill switch, read the stored position, ask for it on chain.
StartTick ==
  /\ pc("bot") = "idle"
  /\ Set("bot", Job("look", stored, today, kill))
  /\ UNCHANGED <<db, chain>>

\* RPC_FAILED, no price, HOLD, PAUSE or ALERT_ONLY.
TickEnds ==
  /\ pc("bot") = "look"
  /\ Return("bot")
  /\ UNCHANGED <<db, chain>>

CapReachedLate(d) == logged[d] > DailyMax   \* off by one

\* getRebalancesToday(...) >= maxRebalancesPerDay.
CapReached(d) == logged[d] >= DailyMax

\* executeRebalance up to its first await: with a position the close is
\* simulated, without one only the daily cap is checked.
Begin(p, old) ==
  IF old # NoMint
  THEN Set(p, Job("simulate", old, today, FALSE))
  ELSE IF CapReached(today)
  THEN Return(p)
  ELSE Set(p, Job("swap", NoMint, today, FALSE))

OpenInitialOnNull ==   \* a failed getPosition reads as "no position"
  /\ pc("bot") = "look"
  /\ ~job["bot"].killed /\ ~degraded
  /\ Begin("bot", NoMint)
  /\ UNCHANGED <<db, chain>>

OpenInitialCoolsDown ==   \* a null lastRebalanceAt counts as too recent
  /\ pc("bot") = "look"
  /\ job["bot"].held = NoMint
  /\ ~job["bot"].killed /\ ~degraded
  /\ \E d \in Days : logged[d] > 0
  /\ Begin("bot", NoMint)
  /\ UNCHANGED <<db, chain>>

OpenInitial ==
  /\ pc("bot") = "look"
  /\ job["bot"].held = NoMint
  /\ ~job["bot"].killed /\ ~degraded
  /\ Begin("bot", NoMint)
  /\ UNCHANGED <<db, chain>>

\* decide() answers REBALANCE for the position found on chain; its daily cap
\* is the one of the day the tick began.
DecideRebalance ==
  /\ pc("bot") = "look"
  /\ job["bot"].held \in live
  /\ ~job["bot"].killed /\ ~degraded
  /\ ~CapReached(job["bot"].day)
  /\ Begin("bot", job["bot"].held)
  /\ UNCHANGED <<db, chain>>

-----------------------------------------------------------------------------
(* executeRebalance, run by the bot or by the command line. *)

\* Steps 1 and 2: drawdown breaker, simulateClose threw, cap reached, or on.
Simulate(p) ==
  /\ pc(p) = "simulate"
  /\ \/ Degrade /\ Return(p)
     \/ UNCHANGED degraded /\ Return(p)
     \/ ~CapReached(job[p].day) /\ Goto(p, "close") /\ UNCHANGED degraded
  /\ UNCHANGED <<stored, zeroed, logged, kill, chain>>

\* Step 3. A failed build returns FAILED; so does a failed submit.
SubmitClose(p) ==
  /\ pc(p) = "close"
  /\ \/ Return(p)
     \/ job[p].held \in live /\ Send(p, "closing")
  /\ UNCHANGED <<db, chain>>

CloseFails(p) ==
  /\ pc(p) = "closing"
  /\ Rejects(p) /\ Return(p)
  /\ UNCHANGED db

CloseConfirmedOnThrow(p) ==   \* a rejected close is taken for a close
  /\ pc(p) = "closing"
  /\ (Rejects(p) \/ Resolves(p))
  /\ Set(p, [job[p] EXCEPT !.pc = "swap", !.out = "none"])
  /\ UNCHANGED db

CloseConfirmed(p) ==
  /\ pc(p) = "closing"
  /\ Resolves(p)
  /\ Set(p, [job[p] EXCEPT !.pc = "swap", !.out = "none"])
  /\ UNCHANGED db

\* Steps 4 to 7: a swap that fails is skipped, unreadable balances degrade.
Swap(p) ==
  /\ pc(p) = "swap"
  /\ \/ Goto(p, "open") /\ UNCHANGED degraded
     \/ Degrade /\ Return(p)
  /\ UNCHANGED <<stored, zeroed, logged, kill, chain>>

\* Step 8.
SubmitOpen(p) ==
  /\ pc(p) = "open"
  /\ \/ Degrade /\ Return(p) /\ UNCHANGED lastMint
     \/ /\ lastMint < MaxMints
        /\ lastMint' = lastMint + 1
        /\ Set(p, [job[p] EXCEPT !.pc = "opening", !.new = lastMint + 1, !.out = "pending"])
        /\ UNCHANGED degraded
  /\ UNCHANGED <<stored, zeroed, logged, kill, live, opened, late, today>>

OpenFails(p) ==
  /\ pc(p) = "opening"
  /\ Rejects(p) /\ Degrade /\ Return(p)
  /\ UNCHANGED <<stored, zeroed, logged, kill>>

OpenConfirmedOnSend(p) ==   \* the signature is taken for a confirmation
  /\ pc(p) = "opening"
  /\ Abandon(p) /\ UNCHANGED <<live, opened, lastMint, today>>
  /\ Set(p, [job[p] EXCEPT !.pc = "persist", !.out = "none"])
  /\ UNCHANGED db

OpenConfirmed(p) ==
  /\ pc(p) = "opening"
  /\ Resolves(p)
  /\ Set(p, [job[p] EXCEPT !.pc = "persist", !.out = "none"])
  /\ UNCHANGED db

PersistIgnored(p) ==   \* INSERT OR IGNORE instead of an upsert
  /\ pc(p) = "persist"
  /\ stored' = IF stored = NoMint THEN job[p].new ELSE stored
  /\ zeroed' = FALSE /\ Goto(p, "record")
  /\ UNCHANGED <<logged, degraded, kill, chain>>

\* Step 9: two writes, in no transaction; either may throw.
Persist(p) ==
  /\ pc(p) = "persist"
  /\ \/ stored' = job[p].new /\ zeroed' = FALSE /\ Goto(p, "record")
     \/ DbFaults /\ Goto(p, "rollback") /\ UNCHANGED <<stored, zeroed>>
  /\ UNCHANGED <<logged, degraded, kill, chain>>

Record(p) ==
  /\ pc(p) = "record"
  /\ \/ logged' = [logged EXCEPT ![job[p].day] = @ + 1] /\ Return(p)
     \/ DbFaults /\ Goto(p, "rollback") /\ UNCHANGED logged
  /\ UNCHANGED <<stored, zeroed, degraded, kill, chain>>

\* The catch: close the position just opened, then degrade.
SubmitRollback(p) ==
  /\ pc(p) = "rollback"
  /\ \/ Degrade /\ Return(p)
     \/ job[p].new \in live /\ Send(p, "rolling") /\ UNCHANGED degraded
  /\ UNCHANGED <<stored, zeroed, logged, kill, chain>>

RollbackEnds(p) ==
  /\ pc(p) = "rolling"
  /\ (Rejects(p) \/ Resolves(p))
  /\ Degrade /\ Return(p)
  /\ UNCHANGED <<stored, zeroed, logged, kill>>

RebalanceStep(p) ==
  \/ Simulate(p) \/ SubmitClose(p) \/ CloseFails(p) \/ CloseConfirmed(p) \/ Swap(p)
  \/ SubmitOpen(p) \/ OpenFails(p) \/ OpenConfirmed(p)
  \/ Persist(p) \/ Record(p) \/ SubmitRollback(p) \/ RollbackEnds(p)

-----------------------------------------------------------------------------
(* The command line. *)

\* getPosition(held): the position, or null.
Found(p) == IF job[p].held \in live THEN job[p].held ELSE NoMint

\* Each command reads position_state, then asks the chain.
CliReads(l) ==
  /\ pc("cli") = "idle"
  /\ Set("cli", Job(l, stored, 1, FALSE))
  /\ UNCHANGED <<db, chain>>

\* rebalance --force, collect-fees: no kill-switch, no degraded check.
ForceRebalance ==
  /\ pc("cli") = "force"
  /\ \/ Return("cli")
     \/ Begin("cli", Found("cli"))
  /\ UNCHANGED <<db, chain>>

EmergencyExit ==
  /\ pc("cli") = "exit"
  /\ \/ Return("cli")
     \/ job["cli"].held \in live /\ Send("cli", "exiting")
  /\ UNCHANGED <<db, chain>>

ExitEnds ==
  /\ pc("cli") = "exiting"
  /\ \/ Rejects("cli") /\ UNCHANGED <<stored, zeroed>>
     \/ Resolves("cli") /\ stored' = NoMint /\ zeroed' = FALSE
     \/ Resolves("cli") /\ DbFaults /\ UNCHANGED <<stored, zeroed>>
  /\ Return("cli")
  /\ UNCHANGED <<logged, degraded, kill>>

\* close-orphan --nft n leaves position_state alone.
CloseOrphan(n) ==
  /\ pc("cli") = "idle" /\ "orphan" \in Commands /\ n \in live
  /\ Set("cli", [Job("orphan", n, 1, FALSE) EXCEPT !.out = "pending"])
  /\ UNCHANGED <<db, chain>>

OrphanEnds ==
  /\ pc("cli") = "orphan"
  /\ (Rejects("cli") \/ Resolves("cli"))
  /\ Return("cli")
  /\ UNCHANGED db

ClearDegraded ==
  /\ pc("cli") = "idle" /\ "clear" \in Commands /\ degraded
  /\ degraded' = FALSE
  /\ UNCHANGED <<stored, zeroed, logged, kill, chain, job>>

\* reconcile asks the chain with a SOL price of zero, so a position it finds
\* has zero bounds: consistent only with zero bounds in state.db. Otherwise
\* the answer waits for the operator's YES.
ReconcileAsk ==
  /\ pc("cli") = "reconcile"
  /\ \/ Return("cli")
     \/ /\ job["cli"].held # NoMint
        /\ ~(job["cli"].held = stored /\ stored \in live /\ zeroed)
        /\ Set("cli", [job["cli"] EXCEPT !.pc = "asked", !.new = Found("cli")])
  /\ UNCHANGED <<db, chain>>

ReconcileCommit ==
  /\ pc("cli") = "asked"
  /\ \/ stored' = job["cli"].new /\ zeroed' = (job["cli"].new # NoMint)
     \/ UNCHANGED <<stored, zeroed>>
  /\ Return("cli")
  /\ UNCHANGED <<logged, degraded, kill, chain>>

CliStep ==
  \/ \E l \in Commands \cap {"force", "exit", "reconcile"} : CliReads(l)
  \/ ForceRebalance \/ EmergencyExit \/ ExitEnds
  \/ \E n \in Mints : CloseOrphan(n)
  \/ OrphanEnds \/ ClearDegraded \/ ReconcileAsk \/ ReconcileCommit

-----------------------------------------------------------------------------
(* Surroundings. *)

\* pause, resume, touch KILLSWITCH, rm KILLSWITCH.
ToggleKill ==
  /\ "pause" \in Commands
  /\ kill' = ~kill
  /\ UNCHANGED <<stored, zeroed, logged, degraded, chain, job>>

NewDay ==
  /\ today < MaxDays
  /\ today' = today + 1
  /\ UNCHANGED <<db, live, opened, lastMint, late, job>>

Crash(p) ==
  /\ MayCrash
  /\ Abandon(p)
  /\ Set(p, At(IF p = "bot" THEN "down" ELSE "idle"))
  /\ UNCHANGED <<db, live, opened, lastMint, today>>

\* reconcile(stored, onchain), where only the stored mint is looked up.
BootAccepts == stored = NoMint \/ (stored \in live /\ ~zeroed)

\* systemd starts the bot again and again; a MISMATCH makes it exit.
Boot ==
  /\ pc("bot") = "down"
  /\ BootAccepts
  /\ Return("bot")
  /\ UNCHANGED <<db, chain>>

-----------------------------------------------------------------------------
BotStep == StartTick \/ TickEnds \/ OpenInitial \/ DecideRebalance \/ Boot

ChainStep ==
  \/ \E p \in Procs : Land(p) \/ Drop(p)
  \/ \E tx \in late : LateLand(tx) \/ LateDrop(tx)

Next ==
  \/ BotStep
  \/ \E p \in Procs : RebalanceStep(p) \/ Resend(p) \/ Crash(p)
  \/ ("cli" \in Procs /\ CliStep)
  \/ ChainStep \/ ToggleKill \/ NewDay

Spec == Init /\ [][Next]_vars

\* The bot keeps ticking and its promises settle; a price arrives again and
\* again, and the network does not fail the same step for ever.
FairSpec ==
  /\ Spec
  /\ WF_vars(BotStep) /\ SF_vars(RebalanceStep("bot")) /\ WF_vars(ChainStep)
  /\ SF_vars(OpenInitial)

-----------------------------------------------------------------------------
(* Properties. *)

Labels == {"down", "idle", "look", "simulate", "close", "closing", "swap", "open",
           "opening", "persist", "record", "rollback", "rolling",
           "force", "exit", "exiting", "orphan", "reconcile", "asked"}

Sending == {"closing", "opening", "rolling", "exiting", "orphan"}

JobType == [pc : Labels, held : Mints \cup {NoMint}, new : Mints \cup {NoMint},
            out : {"none", "pending", "landed", "dead"}, day : Days, killed : BOOLEAN]

\* Every variable has its type, and a transaction is awaited exactly at the
\* labels where a submit is running.
TypeOK ==
  /\ stored \in Mints \cup {NoMint}
  /\ zeroed \in BOOLEAN
  /\ logged \in [Days -> Nat]
  /\ degraded \in BOOLEAN /\ kill \in BOOLEAN
  /\ live \subseteq Mints /\ opened \subseteq Mints
  /\ lastMint \in 0..MaxMints
  /\ late \subseteq {"open", "close"} \X Mints
  /\ today \in Days
  /\ job \in [Procs -> JobType]
  /\ \A p \in Procs : (job[p].out # "none") = (pc(p) \in Sending)

\* "do NOT open a new one", "avoid duplicate open": without faults, and beside
\* every command but rebalance --force and reconcile, the bot never has two
\* positions, whatever the chain answers.
AtMostOnePosition == Cardinality(live) <= 1

\* ... and a position that exists is the stored one or the one being opened.
NothingOrphaned ==
  \A n \in live : n = stored \/ \E p \in Procs : job[p].new = n

\* A rebalance replaces: from the swap on, the position it was given is gone,
\* under every fault and with the command line running beside the bot.
ReplacesNotAdds ==
  \A p \in Procs :
    pc(p) \in {"swap", "open", "opening", "persist", "record", "rollback", "rolling"}
      => job[p].held \notin live

\* state.db never names a position that was not confirmed on chain.
StoredWasOpened == stored # NoMint => stored \in opened

\* "maxRebalancesPerDay enforced in both strategy.decide and the rebalancer":
\* over midnight, failed writes and crashes, the bot's log of a day never
\* exceeds the cap; a forced rebalance beside it may exceed it by one.
DailyCap ==
  \A d \in Days : logged[d] <= DailyMax + (IF "force" \in Commands THEN 1 ELSE 0)

\* Without kill switch and degraded flag, and within the daily cap, the bot
\* does not stay without a position for ever.
OpensEventually == ~<>[](stored = NoMint /\ ~kill /\ ~degraded /\ ~CapReached(today))
=============================================================================
