-------------------------- MODULE RebalancerProofs --------------------------
(***************************************************************************)
(* Proofs about module Rebalancer, for every value of its constants: with  *)
(* any faults, and with the command line running beside the bot.           *)
(*                                                                         *)
(* SafeInv follows a position key through a process: what is held, or is   *)
(* about to be stored, was confirmed on chain; what a rebalance has closed *)
(* stays closed, because a key is opened only once.                        *)
(***************************************************************************)
EXTENDS Rebalancer, FiniteSetTheorems, TLAPS

\* The state outside the processes.
DbTyped ==
  /\ stored \in Mints \cup {NoMint} /\ zeroed \in BOOLEAN /\ logged \in [Days -> Nat]
  /\ degraded \in BOOLEAN /\ kill \in BOOLEAN
  /\ live \subseteq Mints /\ opened \subseteq Mints /\ lastMint \in 0..MaxMints
  /\ late \subseteq {"open", "close"} \X Mints /\ today \in Days

Known == live \subseteq opened /\ StoredWasOpened

Replacing == {"swap", "open", "opening", "persist", "record", "rollback", "rolling"}

\* A process in state j, when the positions in L exist and those in O ever did.
Fits(j, L, O) ==
  /\ (j.out # "none") = (j.pc \in Sending)
  /\ j.pc \in {"opening", "rolling"} => j.new \in Mints
  /\ j.pc \in {"closing", "exiting", "orphan"} => j.held \in Mints
  /\ j.held # NoMint => j.held \in O
  /\ j.pc \in {"persist", "record", "rollback", "rolling", "asked"} /\ j.new # NoMint => j.new \in O
  /\ j.pc = "opening" /\ j.out = "landed" => j.new \in O
  /\ j.pc \in Replacing => j.held \notin L
  /\ j.pc = "closing" /\ j.out = "landed" => j.held \notin L

SafeInv ==
  /\ DbTyped /\ Known
  /\ job \in [Procs -> JobType]
  /\ \A p \in Procs : Fits(job[p], live, opened)

\* Positions that existed once do not come back.
NoneReturns == opened \subseteq opened' /\ live' \cap opened \subseteq live

\* A step in which process p becomes r, and no position returns.
LEMMA OneJob ==
  ASSUME SafeInv, DbTyped', Known', NoneReturns, NEW p \in Procs, NEW r \in JobType,
         Fits(r, live', opened'), Set(p, r)
  PROVE  SafeInv'
<1>1. job' \in [Procs -> JobType]
  BY DEF SafeInv, Set
<1>2. ASSUME NEW q \in Procs PROVE Fits(job'[q], live', opened')
  <2>1. CASE q = p
    BY <2>1 DEF SafeInv, Set
  <2>2. CASE q # p
    <3>1. job'[q] = job[q] /\ Fits(job[q], live, opened) /\ job[q] \in JobType
      BY <2>2 DEF SafeInv, Set
    <3>2. Fits(job[q], live', opened')
      BY <3>1 DEF Fits, NoneReturns, JobType, NoMint, Mints, SafeInv, Known, DbTyped
    <3> QED
      BY <3>1, <3>2
  <2> QED
    BY <2>1, <2>2
<1> QED
  BY <1>1, <1>2 DEF SafeInv

\* A step in which no process moves.
LEMMA NoJob ==
  ASSUME SafeInv, DbTyped', Known', NoneReturns, UNCHANGED job
  PROVE  SafeInv'
<1>1. ASSUME NEW q \in Procs PROVE Fits(job'[q], live', opened')
  <2>1. job'[q] = job[q] /\ Fits(job[q], live, opened) /\ job[q] \in JobType
    BY DEF SafeInv
  <2>2. Fits(job[q], live', opened')
    BY <2>1 DEF Fits, NoneReturns, JobType, NoMint, Mints, SafeInv, Known, DbTyped
  <2> QED
    BY <2>1, <2>2
<1> QED
  BY <1>1 DEF SafeInv

\* A process with nothing at hand fits any state, and so does one that looks
\* at a position that was opened.
LEMMA Fresh ==
  ASSUME NEW l \in Labels \ Sending, NEW h \in Mints \cup {NoMint}, NEW d \in Days,
         NEW k \in BOOLEAN, NEW L, NEW O, h # NoMint => h \in O, l \in Replacing => h \notin L
  PROVE  Job(l, h, d, k) \in JobType /\ Fits(Job(l, h, d, k), L, O)
<1> DEFINE r == Job(l, h, d, k)
<1>1. r \in JobType
  BY DEF JobType, Job
<1>2. /\ r.pc = l /\ r.held = h /\ r.new = NoMint /\ r.out = "none"
  BY DEF Job
<1>3. Fits(r, L, O)
  BY <1>2 DEF Fits, Sending, Replacing, NoMint
<1> QED
  BY <1>1, <1>3

\* The same for a process without a position.
LEMMA Idle ==
  ASSUME NEW l \in Labels \ (Sending \cup Replacing), NEW L, NEW O
  PROVE  At(l) \in JobType /\ Fits(At(l), L, O)
<1>1. 1 \in Days
  BY RebalancerAssumption DEF Days
<1> QED
  BY <1>1 DEF At, Job, JobType, Fits, Sending, Replacing, Labels, NoMint

\* A command, a tick or a rebalance ends.
LEMMA Returns ==
  ASSUME SafeInv, DbTyped', Known', NoneReturns, NEW p \in Procs, Return(p)
  PROVE  SafeInv'
<1>1. "idle" \in Labels \ (Sending \cup Replacing)
  BY DEF Labels, Sending, Replacing
<1>2. At("idle") \in JobType /\ Fits(At("idle"), live', opened')
  BY <1>1, Idle
<1> QED
  BY <1>2, OneJob DEF Return

\* The start of executeRebalance.
LEMMA Begins ==
  ASSUME SafeInv, UNCHANGED <<db, chain>>, NEW p \in Procs, NEW h \in Mints \cup {NoMint},
         h # NoMint => h \in opened, Begin(p, h)
  PROVE  SafeInv'
<1>1. DbTyped' /\ Known' /\ NoneReturns
  BY DEF SafeInv, DbTyped, Known, StoredWasOpened, NoneReturns, db, chain
<1>2. 1 \in Days /\ today \in Days
  BY RebalancerAssumption DEF Days, SafeInv, DbTyped
<1>3. CASE Return(p)
  BY <1>1, <1>3, Returns
<1>4. CASE Set(p, Job("simulate", h, today, FALSE))
  <2>2. "simulate" \in Labels \ Sending /\ "simulate" \notin Replacing /\ opened' = opened
    BY DEF Labels, Sending, Replacing, chain
  <2>3. Job("simulate", h, today, FALSE) \in JobType /\ Fits(Job("simulate", h, today, FALSE), live', opened')
    BY <1>2, <2>2, Fresh
  <2> QED
    BY <1>1, <1>4, <2>3, OneJob
<1>5. CASE Set(p, Job("swap", NoMint, today, FALSE))
  <2>1. NoMint \notin live'
    BY <1>1 DEF DbTyped, NoMint, Mints
  <2>3. "swap" \in Labels \ Sending /\ NoMint \in Mints \cup {NoMint}
    BY DEF Labels, Sending
  <2>4. Job("swap", NoMint, today, FALSE) \in JobType /\ Fits(Job("swap", NoMint, today, FALSE), live', opened')
    BY <1>2, <2>1, <2>3, Fresh
  <2> QED
    BY <1>1, <1>5, <2>4, OneJob
<1> QED
  BY <1>3, <1>4, <1>5 DEF Begin

\* Giving up an awaited transaction leaves a well-formed one in flight.
LEMMA AbandonTyped ==
  ASSUME SafeInv, NEW p \in Procs, Abandon(p)
  PROVE  late' \subseteq {"open", "close"} \X Mints
<1>1. job[p] \in JobType /\ Fits(job[p], live, opened) /\ late \subseteq {"open", "close"} \X Mints
  BY DEF SafeInv, DbTyped
<1>2. job[p].out = "pending" => Awaited(p) \in {"open", "close"} \X Mints
  BY <1>1 DEF JobType, Fits, Sending, Awaited, pc
<1> QED
  BY <1>1, <1>2 DEF Abandon

\* The initial state satisfies the invariant.
LEMMA SafeInit == Init => SafeInv
<1> SUFFICES ASSUME Init PROVE SafeInv
  OBVIOUS
<1>1. MaxMints \in Nat /\ MaxDays \in Nat \ {0}
  BY RebalancerAssumption
<1>2. DbTyped /\ Known
  <2>1. 0 \in 0..MaxMints /\ 1 \in Days
    BY <1>1 DEF Days
  <2>2. logged \in [Days -> Nat] /\ late \subseteq {"open", "close"} \X Mints
    BY DEF Init
  <2> QED
    BY <2>1, <2>2 DEF Init, DbTyped, Known, StoredWasOpened
<1>3. {"down", "idle"} \subseteq Labels \ (Sending \cup Replacing)
  BY DEF Labels, Sending, Replacing
<1>4. \A l \in {"down", "idle"} : At(l) \in JobType /\ Fits(At(l), live, opened)
  BY <1>3, Idle
<1>5. job = [p \in Procs |-> IF p = "bot" THEN At("down") ELSE At("idle")]
  BY DEF Init
<1>6. \A p \in Procs : job[p] \in JobType /\ Fits(job[p], live, opened)
  BY <1>4, <1>5
<1>7. job \in [Procs -> JobType]
  BY <1>4, <1>5
<1> QED
  BY <1>2, <1>6, <1>7 DEF SafeInv

\* Every step of the system, or a stuttering step, preserves the invariant.
LEMMA SafeStep == SafeInv /\ [Next]_vars => SafeInv'
<1> SUFFICES ASSUME SafeInv, [Next]_vars PROVE SafeInv'
  OBVIOUS
<1> USE DEF db, chain
<1>z. "bot" \in Procs /\ NoMint \notin Mints /\ 1 \in Days /\ MaxMints \in Nat /\ MaxDays \in Nat
  BY RebalancerAssumption DEF Mints, Days, NoMint
<1>1. ASSUME NEW p \in Procs, Land(p) PROVE SafeInv'
  <2>1. DbTyped' /\ Known' /\ NoneReturns
    BY <1>z, <1>1 DEF Land, Execute, Applicable, Awaited, pc, SafeInv, Fits, JobType, DbTyped,
       Known, StoredWasOpened, NoneReturns
  <2>2. CASE Set(p, [job[p] EXCEPT !.out = "landed"])
    <3>1. job[p] \in JobType /\ Fits(job[p], live, opened)
      BY <1>z, <1>1 DEF SafeInv
    <3>2. [job[p] EXCEPT !.out = "landed"] \in JobType
      BY <1>1, <1>z, <2>2, <3>1 DEF Land, JobType, Labels
    <3>3. Fits([job[p] EXCEPT !.out = "landed"], live', opened')
      BY <1>1, <1>z, <2>1, <2>2, <3>1 DEF Land, Execute, Applicable, Awaited, pc, Fits,
         JobType, Sending, Replacing, NoMint, SafeInv, DbTyped, Known, NoneReturns
    <3> QED
      BY <1>1, <1>z, <2>1, <2>2, <3>2, <3>3, OneJob
  <2> QED
    BY <1>1, <2>2 DEF Land
<1>2. ASSUME NEW p \in Procs, Drop(p) PROVE SafeInv'
  <2>1. DbTyped' /\ Known' /\ NoneReturns
    BY <1>z, <1>2 DEF Drop, SafeInv, DbTyped, Known, StoredWasOpened, NoneReturns
  <2>2. CASE Set(p, [job[p] EXCEPT !.out = "dead"])
    <3>1. job[p] \in JobType /\ Fits(job[p], live, opened)
      BY <1>z, <1>2 DEF SafeInv
    <3>2. [job[p] EXCEPT !.out = "dead"] \in JobType
      BY <1>2, <1>z, <2>2, <3>1 DEF Drop, JobType, Labels
    <3>3. Fits([job[p] EXCEPT !.out = "dead"], live', opened')
      BY <1>2, <1>z, <2>1, <2>2, <3>1 DEF Drop, Fits, JobType, Sending, Replacing, NoMint,
         SafeInv, DbTyped, Known, NoneReturns
    <3> QED
      BY <1>2, <1>z, <2>1, <2>2, <3>2, <3>3, OneJob
  <2> QED
    BY <1>2, <2>2 DEF Drop
<1>3. ASSUME NEW p \in Procs, Resend(p) PROVE SafeInv'
  <2>0. late' \subseteq {"open", "close"} \X Mints
    BY <1>3, <1>z, AbandonTyped DEF Resend
  <2>1. DbTyped' /\ Known' /\ NoneReturns
    BY <1>z, <1>3, <2>0 DEF Resend, SafeInv, DbTyped, Known, StoredWasOpened, NoneReturns
  <2>2. CASE Set(p, [job[p] EXCEPT !.out = "pending"])
    <3>1. job[p] \in JobType /\ Fits(job[p], live, opened)
      BY <1>z, <1>3 DEF SafeInv
    <3>2. [job[p] EXCEPT !.out = "pending"] \in JobType
      BY <1>3, <1>z, <2>2, <3>1 DEF Resend, JobType, Labels
    <3>3. Fits([job[p] EXCEPT !.out = "pending"], live', opened')
      BY <1>3, <1>z, <2>1, <2>2, <3>1 DEF Resend, Threw, Fits, JobType, Sending, Replacing,
         NoMint, SafeInv, DbTyped, Known, NoneReturns
    <3> QED
      BY <1>3, <1>z, <2>1, <2>2, <3>2, <3>3, OneJob
  <2> QED
    BY <1>3, <2>2 DEF Resend
<1>4. ASSUME NEW p \in Procs, Simulate(p) PROVE SafeInv'
  <2>1. DbTyped' /\ Known' /\ NoneReturns
    BY <1>z, <1>4 DEF Simulate, Degrade, SafeInv, DbTyped, Known, StoredWasOpened, NoneReturns
  <2>2. CASE Return(p)
    BY <1>4, <1>z, <2>1, <2>2, Returns
  <2>3. CASE Set(p, [job[p] EXCEPT !.pc = "close"])
    <3>1. job[p] \in JobType /\ Fits(job[p], live, opened)
      BY <1>z, <1>4 DEF SafeInv
    <3>2. [job[p] EXCEPT !.pc = "close"] \in JobType
      BY <1>4, <1>z, <2>3, <3>1 DEF Simulate, JobType, Labels
    <3>3. Fits([job[p] EXCEPT !.pc = "close"], live', opened')
      BY <1>4, <1>z, <2>1, <2>3, <3>1 DEF Simulate, pc, Fits, JobType, Sending, Replacing,
         NoMint, SafeInv, DbTyped, Known, NoneReturns
    <3> QED
      BY <1>4, <1>z, <2>1, <2>3, <3>2, <3>3, OneJob
  <2> QED
    BY <1>4, <2>2, <2>3 DEF Simulate, Goto
<1>5. ASSUME NEW p \in Procs, SubmitClose(p) PROVE SafeInv'
  <2>1. DbTyped' /\ Known' /\ NoneReturns
    BY <1>z, <1>5 DEF SubmitClose, SafeInv, DbTyped, Known, StoredWasOpened, NoneReturns
  <2>2. CASE Return(p)
    BY <1>5, <1>z, <2>1, <2>2, Returns
  <2>3. CASE job[p].held \in live /\ Set(p, [job[p] EXCEPT !.pc = "closing", !.out = "pending"])
    <3>1. job[p] \in JobType /\ Fits(job[p], live, opened)
      BY <1>z, <1>5 DEF SafeInv
    <3>2. [job[p] EXCEPT !.pc = "closing", !.out = "pending"] \in JobType
      BY <1>5, <1>z, <2>3, <3>1 DEF SubmitClose, JobType, Labels
    <3>3. Fits([job[p] EXCEPT !.pc = "closing", !.out = "pending"], live', opened')
      BY <1>5, <1>z, <2>1, <2>3, <3>1 DEF SubmitClose, pc, Fits, JobType, Sending, Replacing,
         NoMint, SafeInv, DbTyped, Known, NoneReturns
    <3> QED
      BY <1>5, <1>z, <2>1, <2>3, <3>2, <3>3, OneJob
  <2> QED
    BY <1>5, <2>2, <2>3 DEF SubmitClose, Send
<1>6. ASSUME NEW p \in Procs, CloseFails(p) PROVE SafeInv'
  <2>0. late' \subseteq {"open", "close"} \X Mints
    BY <1>6, <1>z, AbandonTyped DEF CloseFails, Rejects
  <2>1. DbTyped' /\ Known' /\ NoneReturns
    BY <1>z, <1>6, <2>0 DEF CloseFails, Rejects, SafeInv, DbTyped, Known, StoredWasOpened,
       NoneReturns
  <2>2. CASE Return(p)
    BY <1>6, <1>z, <2>1, <2>2, Returns
  <2> QED
    BY <1>6, <2>2 DEF CloseFails
<1>7. ASSUME NEW p \in Procs, CloseConfirmed(p) PROVE SafeInv'
  <2>1. DbTyped' /\ Known' /\ NoneReturns
    BY <1>z, <1>7 DEF CloseConfirmed, Resolves, SafeInv, DbTyped, Known, StoredWasOpened,
       NoneReturns
  <2>2. CASE Set(p, [job[p] EXCEPT !.pc = "swap", !.out = "none"])
    <3>1. job[p] \in JobType /\ Fits(job[p], live, opened)
      BY <1>z, <1>7 DEF SafeInv
    <3>2. [job[p] EXCEPT !.pc = "swap", !.out = "none"] \in JobType
      BY <1>7, <1>z, <2>2, <3>1 DEF CloseConfirmed, JobType, Labels
    <3>3. Fits([job[p] EXCEPT !.pc = "swap", !.out = "none"], live', opened')
      BY <1>7, <1>z, <2>1, <2>2, <3>1 DEF CloseConfirmed, Resolves, pc, Fits, JobType, Sending,
         Replacing, NoMint, SafeInv, DbTyped, Known, NoneReturns
    <3> QED
      BY <1>7, <1>z, <2>1, <2>2, <3>2, <3>3, OneJob
  <2> QED
    BY <1>7, <2>2 DEF CloseConfirmed
<1>8. ASSUME NEW p \in Procs, Swap(p) PROVE SafeInv'
  <2>1. DbTyped' /\ Known' /\ NoneReturns
    BY <1>z, <1>8 DEF Swap, Degrade, SafeInv, DbTyped, Known, StoredWasOpened, NoneReturns
  <2>2. CASE Return(p)
    BY <1>8, <1>z, <2>1, <2>2, Returns
  <2>3. CASE Set(p, [job[p] EXCEPT !.pc = "open"])
    <3>1. job[p] \in JobType /\ Fits(job[p], live, opened)
      BY <1>z, <1>8 DEF SafeInv
    <3>2. [job[p] EXCEPT !.pc = "open"] \in JobType
      BY <1>8, <1>z, <2>3, <3>1 DEF Swap, JobType, Labels
    <3>3. Fits([job[p] EXCEPT !.pc = "open"], live', opened')
      BY <1>8, <1>z, <2>1, <2>3, <3>1 DEF Swap, pc, Fits, JobType, Sending, Replacing, NoMint,
         SafeInv, DbTyped, Known, NoneReturns
    <3> QED
      BY <1>8, <1>z, <2>1, <2>3, <3>2, <3>3, OneJob
  <2> QED
    BY <1>8, <2>2, <2>3 DEF Swap, Goto
<1>9. ASSUME NEW p \in Procs, SubmitOpen(p) PROVE SafeInv'
  <2>1. DbTyped' /\ Known' /\ NoneReturns
    <3>0. lastMint \in 0..MaxMints /\ (lastMint' = lastMint \/ (lastMint < MaxMints /\ lastMint' = lastMint + 1))
      BY <1>9 DEF SubmitOpen, SafeInv, DbTyped
    <3>1. lastMint' \in 0..MaxMints
      BY <1>z, <3>0
    <3>2. degraded' \in BOOLEAN
      BY <1>9 DEF SubmitOpen, Degrade, SafeInv, DbTyped
    <3> QED
      BY <1>9, <3>1, <3>2 DEF SubmitOpen, SafeInv, DbTyped, Known, StoredWasOpened, NoneReturns
  <2>2. CASE Return(p)
    BY <1>9, <1>z, <2>1, <2>2, Returns
  <2>3. CASE lastMint < MaxMints /\ Set(p, [job[p] EXCEPT !.pc = "opening", !.new = lastMint + 1, !.out = "pending"])
    <3>1. job[p] \in JobType /\ Fits(job[p], live, opened)
      BY <1>z, <1>9 DEF SafeInv
    <3>m. lastMint + 1 \in Mints
      BY <1>z, <2>3 DEF SafeInv, DbTyped, Mints
    <3>2. [job[p] EXCEPT !.pc = "opening", !.new = lastMint + 1, !.out = "pending"] \in JobType
      BY <1>9, <1>z, <2>3, <3>1, <3>m DEF SubmitOpen, JobType, Labels
    <3>3. Fits([job[p] EXCEPT !.pc = "opening", !.new = lastMint + 1, !.out = "pending"], live', opened')
      BY <1>9, <1>z, <2>1, <2>3, <3>1, <3>m DEF SubmitOpen, pc, Mints, Fits, JobType, Sending,
         Replacing, NoMint, SafeInv, DbTyped, Known, NoneReturns
    <3> QED
      BY <1>9, <1>z, <2>1, <2>3, <3>2, <3>3, OneJob
  <2> QED
    BY <1>9, <2>2, <2>3 DEF SubmitOpen
<1>10. ASSUME NEW p \in Procs, OpenFails(p) PROVE SafeInv'
  <2>0. late' \subseteq {"open", "close"} \X Mints
    BY <1>10, <1>z, AbandonTyped DEF OpenFails, Rejects, Degrade
  <2>1. DbTyped' /\ Known' /\ NoneReturns
    BY <1>z, <1>10, <2>0 DEF OpenFails, Rejects, Degrade, SafeInv, DbTyped, Known,
       StoredWasOpened, NoneReturns
  <2>2. CASE Return(p)
    BY <1>10, <1>z, <2>1, <2>2, Returns
  <2> QED
    BY <1>10, <2>2 DEF OpenFails
<1>11. ASSUME NEW p \in Procs, OpenConfirmed(p) PROVE SafeInv'
  <2>1. DbTyped' /\ Known' /\ NoneReturns
    BY <1>z, <1>11 DEF OpenConfirmed, Resolves, SafeInv, DbTyped, Known, StoredWasOpened,
       NoneReturns
  <2>2. CASE Set(p, [job[p] EXCEPT !.pc = "persist", !.out = "none"])
    <3>1. job[p] \in JobType /\ Fits(job[p], live, opened)
      BY <1>z, <1>11 DEF SafeInv
    <3>2. [job[p] EXCEPT !.pc = "persist", !.out = "none"] \in JobType
      BY <1>11, <1>z, <2>2, <3>1 DEF OpenConfirmed, JobType, Labels
    <3>3. Fits([job[p] EXCEPT !.pc = "persist", !.out = "none"], live', opened')
      BY <1>11, <1>z, <2>1, <2>2, <3>1 DEF OpenConfirmed, Resolves, pc, Fits, JobType, Sending,
         Replacing, NoMint, SafeInv, DbTyped, Known, NoneReturns
    <3> QED
      BY <1>11, <1>z, <2>1, <2>2, <3>2, <3>3, OneJob
  <2> QED
    BY <1>11, <2>2 DEF OpenConfirmed
<1>12. ASSUME NEW p \in Procs, Persist(p) PROVE SafeInv'
  <2>1. DbTyped' /\ Known' /\ NoneReturns
    BY <1>z, <1>12 DEF Persist, SafeInv, Fits, JobType, pc, DbTyped, Known, StoredWasOpened,
       NoneReturns
  <2>2. CASE Set(p, [job[p] EXCEPT !.pc = "record"])
    <3>1. job[p] \in JobType /\ Fits(job[p], live, opened)
      BY <1>z, <1>12 DEF SafeInv
    <3>2. [job[p] EXCEPT !.pc = "record"] \in JobType
      BY <1>12, <1>z, <2>2, <3>1 DEF Persist, JobType, Labels
    <3>3. Fits([job[p] EXCEPT !.pc = "record"], live', opened')
      BY <1>12, <1>z, <2>1, <2>2, <3>1 DEF Persist, pc, Fits, JobType, Sending, Replacing,
         NoMint, SafeInv, DbTyped, Known, NoneReturns
    <3> QED
      BY <1>12, <1>z, <2>1, <2>2, <3>2, <3>3, OneJob
  <2>3. CASE Set(p, [job[p] EXCEPT !.pc = "rollback"])
    <3>1. job[p] \in JobType /\ Fits(job[p], live, opened)
      BY <1>z, <1>12 DEF SafeInv
    <3>2. [job[p] EXCEPT !.pc = "rollback"] \in JobType
      BY <1>12, <1>z, <2>3, <3>1 DEF Persist, JobType, Labels
    <3>3. Fits([job[p] EXCEPT !.pc = "rollback"], live', opened')
      BY <1>12, <1>z, <2>1, <2>3, <3>1 DEF Persist, pc, Fits, JobType, Sending, Replacing,
         NoMint, SafeInv, DbTyped, Known, NoneReturns
    <3> QED
      BY <1>12, <1>z, <2>1, <2>3, <3>2, <3>3, OneJob
  <2> QED
    BY <1>12, <2>2, <2>3 DEF Persist, Goto
<1>13. ASSUME NEW p \in Procs, Record(p) PROVE SafeInv'
  <2>1. DbTyped' /\ Known' /\ NoneReturns
    BY <1>z, <1>13 DEF Record, SafeInv, JobType, DbTyped, Known, StoredWasOpened, NoneReturns
  <2>2. CASE Return(p)
    BY <1>13, <1>z, <2>1, <2>2, Returns
  <2>3. CASE Set(p, [job[p] EXCEPT !.pc = "rollback"])
    <3>1. job[p] \in JobType /\ Fits(job[p], live, opened)
      BY <1>z, <1>13 DEF SafeInv
    <3>2. [job[p] EXCEPT !.pc = "rollback"] \in JobType
      BY <1>13, <1>z, <2>3, <3>1 DEF Record, JobType, Labels
    <3>3. Fits([job[p] EXCEPT !.pc = "rollback"], live', opened')
      BY <1>13, <1>z, <2>1, <2>3, <3>1 DEF Record, pc, Fits, JobType, Sending, Replacing,
         NoMint, SafeInv, DbTyped, Known, NoneReturns
    <3> QED
      BY <1>13, <1>z, <2>1, <2>3, <3>2, <3>3, OneJob
  <2> QED
    BY <1>13, <2>2, <2>3 DEF Record, Goto
<1>14. ASSUME NEW p \in Procs, SubmitRollback(p) PROVE SafeInv'
  <2>1. DbTyped' /\ Known' /\ NoneReturns
    BY <1>z, <1>14 DEF SubmitRollback, Degrade, SafeInv, DbTyped, Known, StoredWasOpened,
       NoneReturns
  <2>2. CASE Return(p)
    BY <1>14, <1>z, <2>1, <2>2, Returns
  <2>3. CASE job[p].new \in live /\ Set(p, [job[p] EXCEPT !.pc = "rolling", !.out = "pending"])
    <3>1. job[p] \in JobType /\ Fits(job[p], live, opened)
      BY <1>z, <1>14 DEF SafeInv
    <3>2. [job[p] EXCEPT !.pc = "rolling", !.out = "pending"] \in JobType
      BY <1>14, <1>z, <2>3, <3>1 DEF SubmitRollback, JobType, Labels
    <3>3. Fits([job[p] EXCEPT !.pc = "rolling", !.out = "pending"], live', opened')
      BY <1>14, <1>z, <2>1, <2>3, <3>1 DEF SubmitRollback, pc, Fits, JobType, Sending,
         Replacing, NoMint, SafeInv, DbTyped, Known, NoneReturns
    <3> QED
      BY <1>14, <1>z, <2>1, <2>3, <3>2, <3>3, OneJob
  <2> QED
    BY <1>14, <2>2, <2>3 DEF SubmitRollback, Send
<1>15. ASSUME NEW p \in Procs, RollbackEnds(p) PROVE SafeInv'
  <2>0. late' \subseteq {"open", "close"} \X Mints
    BY <1>15, <1>z, AbandonTyped DEF RollbackEnds, Rejects, Resolves, Degrade, SafeInv, DbTyped
  <2>1. DbTyped' /\ Known' /\ NoneReturns
    BY <1>z, <1>15, <2>0 DEF RollbackEnds, Rejects, Resolves, Degrade, SafeInv, DbTyped, Known,
       StoredWasOpened, NoneReturns
  <2>2. CASE Return(p)
    BY <1>15, <1>z, <2>1, <2>2, Returns
  <2> QED
    BY <1>15, <2>2 DEF RollbackEnds
<1>16. ASSUME NEW p \in Procs, Crash(p) PROVE SafeInv'
  <2>0. late' \subseteq {"open", "close"} \X Mints
    BY <1>16, <1>z, AbandonTyped DEF Crash
  <2>1. DbTyped' /\ Known' /\ NoneReturns
    BY <1>z, <1>16, <2>0 DEF Crash, SafeInv, DbTyped, Known, StoredWasOpened, NoneReturns
  <2>2. {"down", "idle"} \subseteq Labels \ (Sending \cup Replacing)
    BY DEF Labels, Sending, Replacing
  <2>3. \A l \in {"down", "idle"} : At(l) \in JobType /\ Fits(At(l), live', opened')
    BY <2>2, Idle
  <2> QED
    BY <1>16, <2>1, <2>3, OneJob DEF Crash
<1>17. ASSUME StartTick PROVE SafeInv'
  <2>1. DbTyped' /\ Known' /\ NoneReturns
    BY <1>z, <1>17 DEF StartTick, SafeInv, DbTyped, Known, StoredWasOpened, NoneReturns
  <2>3. /\ "look" \in Labels \ Sending /\ "look" \notin Replacing
        /\ stored \in Mints \cup {NoMint} /\ today \in Days /\ kill \in BOOLEAN
        /\ stored # NoMint => stored \in opened'
    BY <1>17 DEF StartTick, Labels, Sending, Replacing, SafeInv, DbTyped, Known, StoredWasOpened
  <2>4. Job("look", stored, today, kill) \in JobType /\ Fits(Job("look", stored, today, kill), live', opened')
    BY <2>3, Fresh
  <2> QED
    BY <1>17, <1>z, <2>1, <2>4, OneJob DEF StartTick
<1>18. ASSUME TickEnds PROVE SafeInv'
  <2>1. DbTyped' /\ Known' /\ NoneReturns
    BY <1>z, <1>18 DEF TickEnds, SafeInv, DbTyped, Known, StoredWasOpened, NoneReturns
  <2>2. CASE Return("bot")
    BY <1>18, <1>z, <2>1, <2>2, Returns
  <2> QED
    BY <1>18, <2>2 DEF TickEnds
<1>19. ASSUME OpenInitial PROVE SafeInv'
  BY <1>19, <1>z, Begins DEF OpenInitial
<1>20. ASSUME DecideRebalance PROVE SafeInv'
  <2>1. job["bot"].held \in Mints /\ job["bot"].held \in opened
    BY <1>20, <1>z DEF DecideRebalance, SafeInv, DbTyped, Known
  <2> QED
    BY <1>20, <1>z, <2>1, Begins DEF DecideRebalance
<1>21. ASSUME Boot PROVE SafeInv'
  <2>1. DbTyped' /\ Known' /\ NoneReturns
    BY <1>z, <1>21 DEF Boot, SafeInv, DbTyped, Known, StoredWasOpened, NoneReturns
  <2>2. CASE Return("bot")
    BY <1>21, <1>z, <2>1, <2>2, Returns
  <2> QED
    BY <1>21, <2>2 DEF Boot
<1>22. ASSUME "cli" \in Procs, NEW l \in Commands \cap {"force", "exit", "reconcile"}, CliReads(l) PROVE SafeInv'
  <2>1. DbTyped' /\ Known' /\ NoneReturns
    BY <1>z, <1>22 DEF CliReads, SafeInv, DbTyped, Known, StoredWasOpened, NoneReturns
  <2>3. /\ l \in Labels \ Sending /\ l \notin Replacing
        /\ stored \in Mints \cup {NoMint}
        /\ stored # NoMint => stored \in opened'
    BY <1>22 DEF CliReads, Labels, Sending, Replacing, SafeInv, DbTyped, Known, StoredWasOpened
  <2>4. Job(l, stored, 1, FALSE) \in JobType /\ Fits(Job(l, stored, 1, FALSE), live', opened')
    BY <1>z, <2>3, Fresh
  <2> QED
    BY <1>22, <2>1, <2>4, OneJob DEF CliReads
<1>23. ASSUME "cli" \in Procs, ForceRebalance PROVE SafeInv'
  <2>1. DbTyped' /\ Known' /\ NoneReturns
    BY <1>z, <1>23 DEF ForceRebalance, SafeInv, DbTyped, Known, StoredWasOpened, NoneReturns
  <2>2. CASE Return("cli")
    BY <1>23, <1>z, <2>1, <2>2, Returns
  <2>3. CASE Begin("cli", Found("cli"))
    <3>1. Found("cli") \in Mints \cup {NoMint} /\ (Found("cli") # NoMint => Found("cli") \in opened)
      BY DEF Found, SafeInv, DbTyped, Known
    <3>2. UNCHANGED <<db, chain>>
      BY <1>23 DEF ForceRebalance
    <3> QED
      BY <1>23, <2>3, <3>1, <3>2, Begins
  <2> QED
    BY <1>23, <2>2, <2>3 DEF ForceRebalance
<1>24. ASSUME "cli" \in Procs, EmergencyExit PROVE SafeInv'
  <2>1. DbTyped' /\ Known' /\ NoneReturns
    BY <1>z, <1>24 DEF EmergencyExit, SafeInv, DbTyped, Known, StoredWasOpened, NoneReturns
  <2>2. CASE Return("cli")
    BY <1>24, <1>z, <2>1, <2>2, Returns
  <2>3. CASE job["cli"].held \in live /\ Set("cli", [job["cli"] EXCEPT !.pc = "exiting", !.out = "pending"])
    <3>1. job["cli"] \in JobType /\ Fits(job["cli"], live, opened)
      BY <1>z, <1>24 DEF SafeInv
    <3>2. [job["cli"] EXCEPT !.pc = "exiting", !.out = "pending"] \in JobType
      BY <1>24, <1>z, <2>3, <3>1 DEF EmergencyExit, JobType, Labels
    <3>3. Fits([job["cli"] EXCEPT !.pc = "exiting", !.out = "pending"], live', opened')
      BY <1>24, <1>z, <2>1, <2>3, <3>1 DEF EmergencyExit, pc, Fits, JobType, Sending,
         Replacing, NoMint, SafeInv, DbTyped, Known, NoneReturns
    <3> QED
      BY <1>24, <1>z, <2>1, <2>3, <3>2, <3>3, OneJob
  <2> QED
    BY <1>24, <2>2, <2>3 DEF EmergencyExit, Send
<1>25. ASSUME "cli" \in Procs, ExitEnds PROVE SafeInv'
  <2>0. late' \subseteq {"open", "close"} \X Mints
    BY <1>25, <1>z, AbandonTyped DEF ExitEnds, Rejects, Resolves, NoMint, SafeInv, DbTyped
  <2>1. DbTyped' /\ Known' /\ NoneReturns
    BY <1>z, <1>25, <2>0 DEF ExitEnds, Rejects, Resolves, NoMint, SafeInv, DbTyped, Known,
       StoredWasOpened, NoneReturns
  <2>2. CASE Return("cli")
    BY <1>25, <1>z, <2>1, <2>2, Returns
  <2> QED
    BY <1>25, <2>2 DEF ExitEnds
<1>26. ASSUME "cli" \in Procs, NEW n \in Mints, CloseOrphan(n) PROVE SafeInv'
  <2>1. DbTyped' /\ Known' /\ NoneReturns
    BY <1>z, <1>26 DEF CloseOrphan, SafeInv, DbTyped, Known, StoredWasOpened, NoneReturns
  <2>2. CASE Set("cli", [Job("orphan", n, 1, FALSE) EXCEPT !.out = "pending"])
    <3>2. [Job("orphan", n, 1, FALSE) EXCEPT !.out = "pending"] \in JobType
      BY <1>26, <1>z, <2>2 DEF CloseOrphan, JobType, Labels, Job
    <3>3. Fits([Job("orphan", n, 1, FALSE) EXCEPT !.out = "pending"], live', opened')
      BY <1>26, <1>z, <2>1, <2>2 DEF CloseOrphan, Job, Fits, JobType, Sending, Replacing,
         NoMint, SafeInv, DbTyped, Known, NoneReturns
    <3> QED
      BY <1>26, <1>z, <2>1, <2>2, <3>2, <3>3, OneJob
  <2> QED
    BY <1>26, <2>2 DEF CloseOrphan
<1>27. ASSUME "cli" \in Procs, OrphanEnds PROVE SafeInv'
  <2>0. late' \subseteq {"open", "close"} \X Mints
    BY <1>27, <1>z, AbandonTyped DEF OrphanEnds, Rejects, Resolves, SafeInv, DbTyped
  <2>1. DbTyped' /\ Known' /\ NoneReturns
    BY <1>z, <1>27, <2>0 DEF OrphanEnds, Rejects, Resolves, SafeInv, DbTyped, Known,
       StoredWasOpened, NoneReturns
  <2>2. CASE Return("cli")
    BY <1>27, <1>z, <2>1, <2>2, Returns
  <2> QED
    BY <1>27, <2>2 DEF OrphanEnds
<1>28. ASSUME "cli" \in Procs, ClearDegraded PROVE SafeInv'
  <2>1. DbTyped' /\ Known' /\ NoneReturns
    BY <1>z, <1>28 DEF ClearDegraded, SafeInv, DbTyped, Known, StoredWasOpened, NoneReturns
  <2> QED
    BY <1>28, <2>1, NoJob DEF ClearDegraded
<1>29. ASSUME "cli" \in Procs, ReconcileAsk PROVE SafeInv'
  <2>1. DbTyped' /\ Known' /\ NoneReturns
    BY <1>z, <1>29 DEF ReconcileAsk, SafeInv, DbTyped, Known, StoredWasOpened, NoneReturns
  <2>2. CASE Return("cli")
    BY <1>29, <1>z, <2>1, <2>2, Returns
  <2>3. CASE Set("cli", [job["cli"] EXCEPT !.pc = "asked", !.new = Found("cli")])
    <3>1. job["cli"] \in JobType /\ Fits(job["cli"], live, opened)
      BY <1>z, <1>29 DEF SafeInv
    <3>2. [job["cli"] EXCEPT !.pc = "asked", !.new = Found("cli")] \in JobType
      BY <1>29, <1>z, <2>3, <3>1 DEF ReconcileAsk, JobType, Labels, Found
    <3>3. Fits([job["cli"] EXCEPT !.pc = "asked", !.new = Found("cli")], live', opened')
      BY <1>29, <1>z, <2>1, <2>3, <3>1 DEF ReconcileAsk, pc, Found, Fits, JobType, Sending,
         Replacing, NoMint, SafeInv, DbTyped, Known, NoneReturns
    <3> QED
      BY <1>29, <1>z, <2>1, <2>3, <3>2, <3>3, OneJob
  <2> QED
    BY <1>29, <2>2, <2>3 DEF ReconcileAsk
<1>30. ASSUME "cli" \in Procs, ReconcileCommit PROVE SafeInv'
  <2>1. DbTyped' /\ Known' /\ NoneReturns
    BY <1>z, <1>30 DEF ReconcileCommit, SafeInv, Fits, JobType, pc, NoMint, DbTyped, Known,
       StoredWasOpened, NoneReturns
  <2>2. CASE Return("cli")
    BY <1>30, <1>z, <2>1, <2>2, Returns
  <2> QED
    BY <1>30, <2>2 DEF ReconcileCommit
<1>31. ASSUME NEW tx \in late, LateLand(tx) PROVE SafeInv'
  <2>1. DbTyped' /\ Known' /\ NoneReturns
    BY <1>z, <1>31 DEF LateLand, Execute, Applicable, SafeInv, DbTyped, Known, StoredWasOpened,
       NoneReturns
  <2> QED
    BY <1>31, <2>1, NoJob DEF LateLand
<1>32. ASSUME NEW tx \in late, LateDrop(tx) PROVE SafeInv'
  <2>1. DbTyped' /\ Known' /\ NoneReturns
    BY <1>z, <1>32 DEF LateDrop, SafeInv, DbTyped, Known, StoredWasOpened, NoneReturns
  <2> QED
    BY <1>32, <2>1, NoJob DEF LateDrop
<1>33. ASSUME ToggleKill PROVE SafeInv'
  <2>1. DbTyped' /\ Known' /\ NoneReturns
    BY <1>z, <1>33 DEF ToggleKill, SafeInv, DbTyped, Known, StoredWasOpened, NoneReturns
  <2> QED
    BY <1>33, <2>1, NoJob DEF ToggleKill
<1>34. ASSUME NewDay PROVE SafeInv'
  <2>1. DbTyped' /\ Known' /\ NoneReturns
    <3>1. today' \in Days
      BY <1>34, <1>z DEF NewDay, Days, SafeInv, DbTyped
    <3> QED
      BY <1>34, <3>1 DEF NewDay, SafeInv, DbTyped, Known, StoredWasOpened, NoneReturns
  <2> QED
    BY <1>34, <2>1, NoJob DEF NewDay
<1>35. CASE UNCHANGED vars
  <2>1. DbTyped' /\ Known' /\ NoneReturns /\ UNCHANGED job
    BY <1>35 DEF vars, SafeInv, DbTyped, Known, StoredWasOpened, NoneReturns
  <2> QED
    BY <2>1, NoJob
<1> QED
  BY <1>1, <1>2, <1>3, <1>4, <1>5, <1>6, <1>7, <1>8, <1>9, <1>10, <1>11, <1>12, <1>13, <1>14,
     <1>15, <1>16, <1>17, <1>18, <1>19, <1>20, <1>21, <1>22, <1>23, <1>24, <1>25, <1>26, <1>27,
     <1>28, <1>29, <1>30, <1>31, <1>32, <1>33, <1>34, <1>35
     DEF Next, BotStep, RebalanceStep, CliStep, ChainStep

LEMMA SafeAlways == Spec => []SafeInv
  BY SafeInit, SafeStep, PTL DEF Spec

\* Bot, command line, chain and crashes keep the types.
THEOREM TypeCorrect == Spec => []TypeOK
<1>1. SafeInv => TypeOK
  <2>1. SafeInv => \A p \in Procs : (job[p].out # "none") = (pc(p) \in Sending)
    BY DEF SafeInv, Fits, pc
  <2> QED
    BY <2>1 DEF SafeInv, DbTyped, TypeOK
<1> QED
  BY <1>1, SafeAlways, PTL

\* state.db never names a position that was not confirmed on chain, whatever
\* faults occur, with bot and command line side by side.
THEOREM StoredPositionIsReal == Spec => []StoredWasOpened
<1>1. SafeInv => StoredWasOpened
  BY DEF SafeInv, Known, StoredWasOpened
<1> QED
  BY <1>1, SafeAlways, PTL

\* Rebalancer.execute never opens while the position it replaces exists: a
\* close that throws, or whose answer is lost, ends the rebalance.
THEOREM ReplacesNeverAdds == Spec => []ReplacesNotAdds
<1>1. SafeInv => ReplacesNotAdds
  BY DEF SafeInv, Fits, Replacing, ReplacesNotAdds, pc
<1> QED
  BY <1>1, SafeAlways, PTL

-----------------------------------------------------------------------------
(* The daily cap. A rebalance past its cap check has taken one of the day's *)
(* slots and still has to log it; only a forced one may find none left.     *)

Flying == {"close", "closing", "swap", "open", "opening", "persist", "record"}

Slot(p, d) == IF p \in Procs /\ job[p].pc \in Flying /\ job[p].day = d THEN 1 ELSE 0

Spare == IF "force" \in Commands THEN 1 ELSE 0

\* The command line rebalances only when the operator forces it.
CliForces ==
  "cli" \in Procs /\ job["cli"].pc \in Flying \cup {"force", "simulate"} => "force" \in Commands

CapInv ==
  /\ CliForces
  /\ \A d \in Days : logged[d] + Slot("bot", d) + Slot("cli", d) <= DailyMax + Spare

\* No process takes a slot.
Calm ==
  /\ UNCHANGED logged
  /\ \A q \in Procs :
       /\ job'[q].pc \in Flying => job[q].pc \in Flying /\ job'[q].day = job[q].day
       /\ q = "cli" /\ job'[q].pc \in {"force", "simulate"} => "force" \in Commands

\* A step that takes no slot.
LEMMA CalmStep ==
  ASSUME SafeInv, CapInv, Calm
  PROVE  CapInv'
<1>1. CliForces'
  BY DEF CapInv, CliForces, Calm
<1>2. ASSUME NEW d \in Days PROVE logged'[d] + Slot("bot", d)' + Slot("cli", d)' <= DailyMax + Spare
  <2>1. logged'[d] = logged[d] /\ logged[d] \in Nat
    BY DEF Calm, SafeInv, DbTyped
  <2>2. ASSUME NEW q PROVE Slot(q, d)' <= Slot(q, d)
    BY DEF Slot, Calm
  <2>3. \A q : Slot(q, d) \in {0, 1} /\ Slot(q, d)' \in {0, 1}
    BY DEF Slot
  <2>4. DailyMax \in Nat /\ Spare \in Nat
    BY RebalancerAssumption DEF Spare
  <2>5. Slot("bot", d)' <= Slot("bot", d) /\ Slot("cli", d)' <= Slot("cli", d)
    BY <2>2
  <2>6. logged[d] + Slot("bot", d) + Slot("cli", d) <= DailyMax + Spare
    BY DEF CapInv
  <2> QED
    BY <2>1, <2>3, <2>4, <2>5, <2>6
<1> QED
  BY <1>1, <1>2 DEF CapInv, Spare

\* A step in which process p takes a slot that its check has found free.
LEMMA TakeStep ==
  ASSUME SafeInv, CapInv, UNCHANGED logged, NEW p \in Procs, NEW r \in JobType, Set(p, r),
         ~CapReached(r.day), p = "cli" => "force" \in Commands
  PROVE  CapInv'
<1>0. Procs \subseteq {"bot", "cli"} /\ DailyMax \in Nat /\ Spare \in {0, 1}
  BY RebalancerAssumption DEF Spare
<1>1. \A q \in Procs : job'[q] = IF q = p THEN r ELSE job[q]
  BY DEF Set, SafeInv
<1>2. CliForces'
  BY <1>1 DEF CapInv, CliForces
<1>3. ASSUME NEW d \in Days PROVE logged'[d] + Slot("bot", d)' + Slot("cli", d)' <= DailyMax + Spare
  <2>1. logged'[d] = logged[d] /\ logged[d] \in Nat
    BY DEF SafeInv, DbTyped
  <2>2. \A q : Slot(q, d) \in {0, 1} /\ Slot(q, d)' \in {0, 1}
    BY DEF Slot
  <2>3. \A q : q # p => Slot(q, d)' = Slot(q, d)
    BY <1>1 DEF Slot
  <2>4. logged[d] + Slot("bot", d) + Slot("cli", d) <= DailyMax + Spare
    BY DEF CapInv
  <2>5. CASE d # r.day
    <3>1. Slot(p, d)' = 0
      BY <1>1, <2>5 DEF Slot
    <3> QED
      BY <1>0, <2>1, <2>2, <2>3, <2>4, <3>1
  <2>6. CASE d = r.day
    <3>1. logged[d] < DailyMax
      BY <2>6, <2>1, <1>0 DEF CapReached
    <3>2. Spare = 0 => p = "bot" /\ Slot("cli", d) = 0
      BY <1>0 DEF Spare, CapInv, CliForces, Slot
    <3>3. Spare = 0 => Slot("cli", d)' = 0
      BY <3>2, <2>3
    <3> QED
      BY <1>0, <2>1, <2>2, <3>1, <3>3
  <2> QED
    BY <2>5, <2>6
<1> QED
  BY <1>2, <1>3 DEF CapInv, Spare

\* recordRebalance gives the slot back for a row of the log.
LEMMA LogStep ==
  ASSUME SafeInv, CapInv, NEW p \in Procs, job[p].pc = "record", Return(p),
         logged' = [logged EXCEPT ![job[p].day] = @ + 1]
  PROVE  CapInv'
<1>0. Procs \subseteq {"bot", "cli"} /\ DailyMax \in Nat /\ Spare \in {0, 1}
  BY RebalancerAssumption DEF Spare
<1>1. \A q \in Procs : job'[q] = IF q = p THEN At("idle") ELSE job[q]
  BY DEF Return, Set, SafeInv
<1>2. At("idle").pc = "idle" /\ "idle" \notin Flying \cup {"force", "simulate"}
  BY DEF At, Job, Flying
<1>3. CliForces'
  BY <1>1, <1>2 DEF CapInv, CliForces
<1>4. ASSUME NEW d \in Days PROVE logged'[d] + Slot("bot", d)' + Slot("cli", d)' <= DailyMax + Spare
  <2>1. logged[d] \in Nat /\ logged'[d] = IF d = job[p].day THEN logged[d] + 1 ELSE logged[d]
    BY DEF SafeInv, DbTyped
  <2>2. \A q : Slot(q, d) \in {0, 1} /\ Slot(q, d)' \in {0, 1}
    BY DEF Slot
  <2>3. \A q : q # p => Slot(q, d)' = Slot(q, d)
    BY <1>1 DEF Slot
  <2>4. logged[d] + Slot("bot", d) + Slot("cli", d) <= DailyMax + Spare
    BY DEF CapInv
  <2>5. Slot(p, d)' = 0
    BY <1>1, <1>2 DEF Slot
  <2>6. d = job[p].day => Slot(p, d) = 1
    BY DEF Slot, Flying
  <2>7. p = "bot" \/ p = "cli"
    BY <1>0
  <2> QED
    BY <1>0, <2>1, <2>2, <2>3, <2>4, <2>5, <2>6, <2>7
<1> QED
  BY <1>3, <1>4 DEF CapInv, Spare

\* The start of executeRebalance.
LEMMA CapBegins ==
  ASSUME SafeInv, CapInv, UNCHANGED logged, NEW p \in Procs, NEW h, Begin(p, h),
         p = "cli" => "force" \in Commands
  PROVE  CapInv'
<1>1. CASE Return(p)
  <2>1. Calm
    BY <1>1 DEF Calm, Return, Set, SafeInv, At, Job, Flying, CapInv, CliForces
  <2> QED
    BY <2>1, CalmStep
<1>2. CASE Set(p, Job("simulate", h, today, FALSE))
  <2>1. Calm
    BY <1>2 DEF Calm, Set, SafeInv, Job, Flying, CapInv, CliForces
  <2> QED
    BY <2>1, CalmStep
<1>3. CASE ~CapReached(today) /\ Set(p, Job("swap", NoMint, today, FALSE))
  <2>1. Job("swap", NoMint, today, FALSE) \in JobType /\ Job("swap", NoMint, today, FALSE).day = today
    BY DEF Job, JobType, Labels, SafeInv, DbTyped
  <2> QED
    BY <1>3, <2>1, TakeStep
<1> QED
  BY <1>1, <1>2, <1>3 DEF Begin

\* Every step of the system, or a stuttering step, preserves the cap.
LEMMA CapStep == SafeInv /\ CapInv /\ [Next]_vars => CapInv'
<1> SUFFICES ASSUME SafeInv, CapInv, [Next]_vars PROVE CapInv'
  OBVIOUS
<1> USE DEF db, chain
<1>z. "bot" \in Procs
  BY RebalancerAssumption
<1>1. ASSUME NEW p \in Procs, Land(p) PROVE CapInv'
  <2>1. Calm
    BY <1>1, <1>z DEF Land, Calm, Set, SafeInv, JobType, At, Job, Flying, pc, CapInv, CliForces
  <2> QED
    BY <2>1, CalmStep
<1>2. ASSUME NEW p \in Procs, Drop(p) PROVE CapInv'
  <2>1. Calm
    BY <1>2, <1>z DEF Drop, Calm, Set, SafeInv, JobType, At, Job, Flying, pc, CapInv, CliForces
  <2> QED
    BY <2>1, CalmStep
<1>3. ASSUME NEW p \in Procs, Resend(p) PROVE CapInv'
  <2>1. Calm
    BY <1>3, <1>z DEF Resend, Calm, Set, SafeInv, JobType, At, Job, Flying, pc, CapInv, CliForces
  <2> QED
    BY <2>1, CalmStep
<1>4. ASSUME NEW p \in Procs, Simulate(p) PROVE CapInv'
  <2>1. CASE Return(p)
    <3>1. Calm
      BY <1>4, <2>1 DEF Simulate, Calm, Return, Set, SafeInv, At, Job, Flying, CapInv, CliForces
    <3> QED
      BY <3>1, CalmStep
  <2>2. CASE ~CapReached(job[p].day) /\ Goto(p, "close")
    <3>1. /\ [job[p] EXCEPT !.pc = "close"] \in JobType
          /\ [job[p] EXCEPT !.pc = "close"].day = job[p].day
      BY DEF SafeInv, JobType, Labels
    <3>2. p = "cli" => "force" \in Commands
      BY <1>4 DEF Simulate, pc, CapInv, CliForces
    <3> QED
      BY <1>4, <2>2, <3>1, <3>2, TakeStep DEF Simulate, Goto
  <2> QED
    BY <1>4, <2>1, <2>2 DEF Simulate
<1>5. ASSUME NEW p \in Procs, SubmitClose(p) PROVE CapInv'
  <2>1. ASSUME Return(p) PROVE Calm
    BY <1>5, <2>1 DEF SubmitClose, Calm, Return, Set, SafeInv, At, Job, Flying, CapInv, CliForces
  <2>2. ASSUME Set(p, [job[p] EXCEPT !.pc = "closing", !.out = "pending"]) PROVE Calm
    BY <1>5, <2>2 DEF SubmitClose, Calm, Set, SafeInv, JobType, Flying, pc, CapInv, CliForces
  <2>3. Calm
    BY <1>5, <2>1, <2>2 DEF SubmitClose, Send
  <2> QED
    BY <2>3, CalmStep
<1>6. ASSUME NEW p \in Procs, CloseFails(p) PROVE CapInv'
  <2>1. Calm
    BY <1>6, <1>z DEF CloseFails, Return, Calm, Set, SafeInv, JobType, At, Job, Flying, pc,
       CapInv, CliForces
  <2> QED
    BY <2>1, CalmStep
<1>7. ASSUME NEW p \in Procs, CloseConfirmed(p) PROVE CapInv'
  <2>1. Calm
    BY <1>7, <1>z DEF CloseConfirmed, Calm, Set, SafeInv, JobType, At, Job, Flying, pc, CapInv,
       CliForces
  <2> QED
    BY <2>1, CalmStep
<1>8. ASSUME NEW p \in Procs, Swap(p) PROVE CapInv'
  <2>1. Calm
    BY <1>8, <1>z DEF Swap, Return, Goto, Send, Calm, Set, SafeInv, JobType, At, Job, Flying,
       pc, CapInv, CliForces
  <2> QED
    BY <2>1, CalmStep
<1>9. ASSUME NEW p \in Procs, SubmitOpen(p) PROVE CapInv'
  <2>1. ASSUME Return(p) PROVE Calm
    BY <1>9, <2>1 DEF SubmitOpen, Calm, Return, Set, SafeInv, At, Job, Flying, CapInv, CliForces
  <2>2. ASSUME Set(p, [job[p] EXCEPT !.pc = "opening", !.new = lastMint + 1, !.out = "pending"]) PROVE Calm
    BY <1>9, <2>2 DEF SubmitOpen, Calm, Set, SafeInv, JobType, Flying, pc, CapInv, CliForces
  <2>3. Calm
    BY <1>9, <2>1, <2>2 DEF SubmitOpen, Send
  <2> QED
    BY <2>3, CalmStep
<1>10. ASSUME NEW p \in Procs, OpenFails(p) PROVE CapInv'
  <2>1. Calm
    BY <1>10, <1>z DEF OpenFails, Return, Calm, Set, SafeInv, JobType, At, Job, Flying, pc,
       CapInv, CliForces
  <2> QED
    BY <2>1, CalmStep
<1>11. ASSUME NEW p \in Procs, OpenConfirmed(p) PROVE CapInv'
  <2>1. Calm
    BY <1>11, <1>z DEF OpenConfirmed, Calm, Set, SafeInv, JobType, At, Job, Flying, pc, CapInv,
       CliForces
  <2> QED
    BY <2>1, CalmStep
<1>12. ASSUME NEW p \in Procs, Persist(p) PROVE CapInv'
  <2>1. Calm
    BY <1>12, <1>z DEF Persist, Goto, Send, Calm, Set, SafeInv, JobType, At, Job, Flying, pc,
       CapInv, CliForces
  <2> QED
    BY <2>1, CalmStep
<1>13. ASSUME NEW p \in Procs, Record(p) PROVE CapInv'
  <2>1. CASE Return(p) /\ logged' = [logged EXCEPT ![job[p].day] = @ + 1]
    BY <1>13, <2>1, LogStep DEF Record, pc
  <2>2. CASE Goto(p, "rollback") /\ UNCHANGED logged
    <3>1. Calm
      BY <2>2 DEF Calm, Goto, Set, SafeInv, JobType, Flying, CapInv, CliForces
    <3> QED
      BY <3>1, CalmStep
  <2> QED
    BY <1>13, <2>1, <2>2 DEF Record
<1>14. ASSUME NEW p \in Procs, SubmitRollback(p) PROVE CapInv'
  <2>1. ASSUME Return(p) PROVE Calm
    BY <1>14, <2>1 DEF SubmitRollback, Calm, Return, Set, SafeInv, At, Job, Flying, CapInv, CliForces
  <2>2. ASSUME Set(p, [job[p] EXCEPT !.pc = "rolling", !.out = "pending"]) PROVE Calm
    BY <1>14, <2>2 DEF SubmitRollback, Calm, Set, SafeInv, JobType, Flying, pc, CapInv, CliForces
  <2>3. Calm
    BY <1>14, <2>1, <2>2 DEF SubmitRollback, Send
  <2> QED
    BY <2>3, CalmStep
<1>15. ASSUME NEW p \in Procs, RollbackEnds(p) PROVE CapInv'
  <2>1. Calm
    BY <1>15, <1>z DEF RollbackEnds, Return, Calm, Set, SafeInv, JobType, At, Job, Flying, pc,
       CapInv, CliForces
  <2> QED
    BY <2>1, CalmStep
<1>16. ASSUME NEW p \in Procs, Crash(p) PROVE CapInv'
  <2>1. Calm
    BY <1>16, <1>z DEF Crash, Calm, Set, SafeInv, JobType, At, Job, Flying, pc, CapInv, CliForces
  <2> QED
    BY <2>1, CalmStep
<1>17. ASSUME StartTick PROVE CapInv'
  <2>1. Calm
    BY <1>17, <1>z DEF StartTick, Calm, Set, SafeInv, JobType, At, Job, Flying, pc, CapInv,
       CliForces
  <2> QED
    BY <2>1, CalmStep
<1>18. ASSUME TickEnds PROVE CapInv'
  <2>1. Calm
    BY <1>18, <1>z DEF TickEnds, Return, Calm, Set, SafeInv, JobType, At, Job, Flying, pc,
       CapInv, CliForces
  <2> QED
    BY <2>1, CalmStep
<1>19. ASSUME OpenInitial PROVE CapInv'
  BY <1>19, <1>z, CapBegins DEF OpenInitial
<1>20. ASSUME DecideRebalance PROVE CapInv'
  BY <1>20, <1>z, CapBegins DEF DecideRebalance
<1>21. ASSUME Boot PROVE CapInv'
  <2>1. Calm
    BY <1>21, <1>z DEF Boot, Return, Calm, Set, SafeInv, JobType, At, Job, Flying, pc, CapInv,
       CliForces
  <2> QED
    BY <2>1, CalmStep
<1>22. ASSUME "cli" \in Procs, NEW l \in Commands \cap {"force", "exit", "reconcile"}, CliReads(l) PROVE CapInv'
  <2>1. Calm
    BY <1>22, <1>z DEF CliReads, Calm, Set, SafeInv, JobType, At, Job, Flying, pc, CapInv, CliForces
  <2> QED
    BY <2>1, CalmStep
<1>23. ASSUME "cli" \in Procs, ForceRebalance PROVE CapInv'
  <2>1. "force" \in Commands
    BY <1>23 DEF ForceRebalance, pc, CapInv, CliForces
  <2>2. CASE Return("cli")
    <3>1. Calm
      BY <1>23, <2>2 DEF ForceRebalance, Calm, Return, Set, SafeInv, At, Job, Flying, CapInv, CliForces
    <3> QED
      BY <3>1, CalmStep
  <2>3. CASE Begin("cli", Found("cli"))
    BY <1>23, <2>1, <2>3, CapBegins DEF ForceRebalance
  <2> QED
    BY <1>23, <2>2, <2>3 DEF ForceRebalance
<1>24. ASSUME "cli" \in Procs, EmergencyExit PROVE CapInv'
  <2>1. ASSUME Return("cli") PROVE Calm
    BY <1>24, <2>1 DEF EmergencyExit, Calm, Return, Set, SafeInv, At, Job, Flying, CapInv, CliForces
  <2>2. ASSUME Set("cli", [job["cli"] EXCEPT !.pc = "exiting", !.out = "pending"]) PROVE Calm
    BY <1>24, <2>2 DEF EmergencyExit, Calm, Set, SafeInv, JobType, Flying, pc, CapInv, CliForces
  <2>3. Calm
    BY <1>24, <2>1, <2>2 DEF EmergencyExit, Send
  <2> QED
    BY <2>3, CalmStep
<1>25. ASSUME "cli" \in Procs, ExitEnds PROVE CapInv'
  <2>1. Calm
    BY <1>25, <1>z DEF ExitEnds, Return, Calm, Set, SafeInv, JobType, At, Job, Flying, pc,
       CapInv, CliForces
  <2> QED
    BY <2>1, CalmStep
<1>26. ASSUME "cli" \in Procs, NEW n \in Mints, CloseOrphan(n) PROVE CapInv'
  <2>1. Calm
    BY <1>26, <1>z DEF CloseOrphan, Calm, Set, SafeInv, JobType, At, Job, Flying, pc, CapInv,
       CliForces
  <2> QED
    BY <2>1, CalmStep
<1>27. ASSUME "cli" \in Procs, OrphanEnds PROVE CapInv'
  <2>1. Calm
    BY <1>27, <1>z DEF OrphanEnds, Return, Calm, Set, SafeInv, JobType, At, Job, Flying, pc,
       CapInv, CliForces
  <2> QED
    BY <2>1, CalmStep
<1>28. ASSUME "cli" \in Procs, ClearDegraded PROVE CapInv'
  <2>1. Calm
    BY <1>28, <1>z DEF ClearDegraded, Calm, Set, SafeInv, JobType, At, Job, Flying, pc, CapInv,
       CliForces
  <2> QED
    BY <2>1, CalmStep
<1>29. ASSUME "cli" \in Procs, ReconcileAsk PROVE CapInv'
  <2>1. ASSUME Return("cli") PROVE Calm
    BY <1>29, <2>1 DEF ReconcileAsk, Calm, Return, Set, SafeInv, At, Job, Flying, CapInv, CliForces
  <2>2. ASSUME Set("cli", [job["cli"] EXCEPT !.pc = "asked", !.new = Found("cli")]) PROVE Calm
    BY <1>29, <2>2 DEF ReconcileAsk, Calm, Set, SafeInv, JobType, Flying, pc, CapInv, CliForces
  <2>3. Calm
    BY <1>29, <2>1, <2>2 DEF ReconcileAsk, Send
  <2> QED
    BY <2>3, CalmStep
<1>30. ASSUME "cli" \in Procs, ReconcileCommit PROVE CapInv'
  <2>1. Calm
    BY <1>30, <1>z DEF ReconcileCommit, Return, Calm, Set, SafeInv, JobType, At, Job, Flying,
       pc, CapInv, CliForces
  <2> QED
    BY <2>1, CalmStep
<1>31. ASSUME NEW tx \in late, LateLand(tx) PROVE CapInv'
  <2>1. Calm
    BY <1>31, <1>z DEF LateLand, Calm, Set, SafeInv, JobType, At, Job, Flying, pc, CapInv, CliForces
  <2> QED
    BY <2>1, CalmStep
<1>32. ASSUME NEW tx \in late, LateDrop(tx) PROVE CapInv'
  <2>1. Calm
    BY <1>32, <1>z DEF LateDrop, Calm, Set, SafeInv, JobType, At, Job, Flying, pc, CapInv, CliForces
  <2> QED
    BY <2>1, CalmStep
<1>33. ASSUME ToggleKill PROVE CapInv'
  <2>1. Calm
    BY <1>33, <1>z DEF ToggleKill, Calm, Set, SafeInv, JobType, At, Job, Flying, pc, CapInv,
       CliForces
  <2> QED
    BY <2>1, CalmStep
<1>34. ASSUME NewDay PROVE CapInv'
  <2>1. Calm
    BY <1>34, <1>z DEF NewDay, Calm, Set, SafeInv, JobType, At, Job, Flying, pc, CapInv, CliForces
  <2> QED
    BY <2>1, CalmStep
<1>35. CASE UNCHANGED vars
  <2>1. Calm
    BY <1>35 DEF vars, Calm, CapInv, CliForces
  <2> QED
    BY <2>1, CalmStep
<1> QED
  BY <1>1, <1>2, <1>3, <1>4, <1>5, <1>6, <1>7, <1>8, <1>9, <1>10, <1>11, <1>12, <1>13, <1>14,
     <1>15, <1>16, <1>17, <1>18, <1>19, <1>20, <1>21, <1>22, <1>23, <1>24, <1>25, <1>26, <1>27,
     <1>28, <1>29, <1>30, <1>31, <1>32, <1>33, <1>34, <1>35
     DEF Next, BotStep, RebalanceStep, CliStep, ChainStep

\* maxRebalancesPerDay, with any faults and with the command line beside the
\* bot: the day's log stays within the cap, or one above it when the operator
\* forces rebalances.
THEOREM DailyCapHolds == Spec => []DailyCap
<1>1. Init => CapInv
  <2> SUFFICES ASSUME Init PROVE CapInv
    OBVIOUS
  <2>1. \A p \in Procs : job[p].pc \in {"down", "idle"}
    BY DEF Init, At, Job
  <2>2. CliForces /\ \A q, d : Slot(q, d) = 0
    BY <2>1 DEF CliForces, Slot, Flying
  <2>3. DailyMax + Spare >= 0
    BY RebalancerAssumption DEF Spare
  <2>4. \A d \in Days : logged[d] = 0
    BY DEF Init
  <2> QED
    BY <2>2, <2>3, <2>4 DEF CapInv
<1>2. SafeInv /\ CapInv => DailyCap
  <2> SUFFICES ASSUME SafeInv, CapInv, NEW d \in Days PROVE logged[d] <= DailyMax + Spare
    BY DEF DailyCap, Spare
  <2>1. logged[d] \in Nat /\ Slot("bot", d) \in {0, 1} /\ Slot("cli", d) \in {0, 1}
    BY DEF SafeInv, DbTyped, Slot
  <2>2. DailyMax + Spare \in Nat
    BY RebalancerAssumption DEF Spare
  <2> QED
    BY <2>1, <2>2 DEF CapInv
<1> QED
  BY SafeInit, SafeStep, CapStep, <1>1, <1>2, PTL DEF Spec

-----------------------------------------------------------------------------
(* One position. Without faults, and beside every command but a forced      *)
(* rebalance and reconcile, the positions that exist are known to whoever   *)
(* may act on them: the stored one, the one the bot holds, or the one it    *)
(* opens.                                                                   *)

Undisturbed ==
  /\ LostAnswers = FALSE /\ DbFaults = FALSE /\ MayCrash = FALSE
  /\ "force" \notin Commands /\ "reconcile" \notin Commands

Watching == {"look", "simulate", "close", "closing"}
Opening  == {"swap", "open", "opening", "persist"}

\* The bot in state b, when the positions in L exist and s is stored.
BotFits(b, L, s) ==
  /\ b.pc \in Watching \cup Opening \cup {"down", "idle", "record"}
  /\ b.pc \in {"swap", "open"} => L = {}
  /\ b.pc \in {"opening", "persist"} => L \subseteq {b.new} /\ b.new # s
  /\ b.pc = "opening" /\ b.out # "landed" => L = {}
  /\ b.pc \in Watching => L \subseteq {b.held}
  /\ b.pc \notin Opening => L \subseteq {s}

\* The command line in state c beside it: an emergency exit never takes the
\* position the bot is opening, and while its confirmed close is not yet
\* written the bot opens nothing.
CliFits(c, b, L, s) ==
  /\ c.pc \in {"idle", "exit", "exiting", "orphan"}
  /\ c.pc \in {"exit", "exiting"} /\ b.pc \in {"opening", "persist"} => c.held # b.new
  /\ c.pc = "exiting" /\ c.out = "landed" =>
       /\ L = {} /\ s = c.held /\ s # NoMint
       /\ b.pc \notin Opening
       /\ b.pc \in Watching => b.held # NoMint
       /\ ~(b.pc = "closing" /\ b.out = "landed")

OneInv ==
  /\ late = {} /\ opened \subseteq 1..lastMint
  /\ job["bot"].pc = "opening" => job["bot"].new <= lastMint
  /\ BotFits(job["bot"], live, stored)
  /\ "cli" \in Procs => CliFits(job["cli"], job["bot"], live, stored)

\* A step of the bot, which becomes r.
LEMMA BotMoves ==
  ASSUME SafeInv, NEW r, Set("bot", r), late' = {}, opened' \subseteq 1..lastMint',
         r.pc = "opening" => r.new <= lastMint',
         BotFits(r, live', stored'), "cli" \in Procs => CliFits(job["cli"], r, live', stored')
  PROVE  OneInv'
<1>1. job'["bot"] = r /\ ("cli" \in Procs => job'["cli"] = job["cli"])
  BY RebalancerAssumption DEF Set, SafeInv
<1> QED
  BY <1>1 DEF OneInv

\* A step of the command line, which becomes r.
LEMMA CliMoves ==
  ASSUME SafeInv, OneInv, "cli" \in Procs, NEW r, Set("cli", r), late' = {},
         opened' \subseteq 1..lastMint', lastMint' = lastMint,
         BotFits(job["bot"], live', stored'), CliFits(r, job["bot"], live', stored')
  PROVE  OneInv'
<1>1. job'["bot"] = job["bot"] /\ job'["cli"] = r
  BY RebalancerAssumption DEF Set, SafeInv
<1> QED
  BY <1>1 DEF OneInv

\* The bot goes to sleep.
LEMMA BotReturns ==
  ASSUME SafeInv, OneInv, Return("bot"), UNCHANGED <<stored, live, opened, lastMint, late>>,
         live \subseteq {stored}
  PROVE  OneInv'
<1> DEFINE r == At("idle")
<1>1. r.pc = "idle"
  BY DEF At, Job
<1>2. Set("bot", r)
  BY DEF Return
<1> HIDE DEF r
<1>3. BotFits(r, live', stored')
  BY <1>1 DEF BotFits, Watching, Opening
<1>4. "cli" \in Procs => CliFits(job["cli"], r, live', stored')
  BY <1>1 DEF OneInv, CliFits, Watching, Opening
<1> QED
  BY <1>1, <1>2, <1>3, <1>4, BotMoves DEF OneInv

\* The command is over.
LEMMA CliReturns ==
  ASSUME SafeInv, OneInv, "cli" \in Procs, Return("cli"),
         UNCHANGED <<live, opened, lastMint, late>>, BotFits(job["bot"], live, stored')
  PROVE  OneInv'
<1>1. At("idle").pc = "idle"
  BY DEF At, Job
<1>2. CliFits(At("idle"), job["bot"], live', stored')
  BY <1>1 DEF CliFits
<1> QED
  BY <1>2, CliMoves DEF OneInv, Return

\* Only the bot rebalances, an attempt is rejected only when its transaction is
\* dead, and so no transaction is left in flight.
LEMMA NoneLate ==
  ASSUME Undisturbed, SafeInv, OneInv
  PROVE  /\ \A p \in Procs : pc(p) \in Flying \cup {"simulate", "rollback", "rolling"} => p = "bot"
         /\ pc("bot") \notin {"rollback", "rolling"}
         /\ \A p \in Procs : Threw(p) => job[p].out = "dead"
         /\ \A p \in Procs : Threw(p) /\ Abandon(p) => late' = {}
<1>1. \A p \in Procs : pc(p) \in Flying \cup {"simulate", "rollback", "rolling"} => p = "bot"
  BY RebalancerAssumption DEF OneInv, CliFits, Flying, pc
<1>2. pc("bot") \notin {"rollback", "rolling"}
  BY DEF OneInv, BotFits, Watching, Opening, pc
<1>3. \A p \in Procs : Threw(p) => job[p].out = "dead"
  BY DEF Threw, Undisturbed
<1>4. \A p \in Procs : Threw(p) /\ Abandon(p) => late' = {}
  BY <1>3 DEF Abandon, OneInv
<1> QED
  BY <1>1, <1>2, <1>3, <1>4

\* The bot's own steps.
LEMMA OneBot ==
  ASSUME Undisturbed, SafeInv, OneInv, BotStep \/ RebalanceStep("bot")
  PROVE  OneInv'
<1> USE DEF db, chain, pc
<1>b. /\ "bot" \in Procs /\ job["bot"] \in JobType /\ Fits(job["bot"], live, opened)
      /\ BotFits(job["bot"], live, stored)
      /\ "cli" \in Procs => job["cli"] \in JobType /\ Fits(job["cli"], live, opened)
                            /\ CliFits(job["cli"], job["bot"], live, stored)
      /\ late = {} /\ opened \subseteq 1..lastMint
  BY RebalancerAssumption DEF SafeInv, OneInv
<1>s. /\ live \subseteq opened /\ opened \subseteq Mints /\ NoMint \notin Mints
      /\ stored # NoMint => stored \in opened
      /\ stored \in Mints \cup {NoMint} /\ lastMint \in 0..MaxMints
  BY DEF SafeInv, DbTyped, Known, StoredWasOpened, NoMint, Mints
<1>t. /\ Threw("bot") => job["bot"].out = "dead"
      /\ Threw("bot") /\ Abandon("bot") => late' = {}
  BY <1>b, NoneLate
<1>i. ASSUME Return("bot"), UNCHANGED <<stored, live, opened, lastMint, late>>, live \subseteq {stored}
      PROVE OneInv'
  BY <1>i, BotReturns
<1>m. ASSUME NEW r, Set("bot", r), r.pc # "opening",
             UNCHANGED <<stored, live, opened, lastMint, late>>, BotFits(r, live, stored),
             "cli" \in Procs => CliFits(job["cli"], r, live, stored)
      PROVE  OneInv'
  BY <1>b, <1>m, BotMoves
<1>1. ASSUME StartTick PROVE OneInv'
  <2> DEFINE r == Job("look", stored, today, kill)
  <2>1. Set("bot", r) /\ r.pc = "look" /\ r.held = stored
    BY <1>1 DEF StartTick, Job
  <2> HIDE DEF r
  <2>2. BotFits(r, live, stored) /\ ("cli" \in Procs => CliFits(job["cli"], r, live, stored))
    BY <1>1, <1>b, <2>1 DEF StartTick, BotFits, CliFits, Watching, Opening
  <2> QED
    BY <1>1, <1>m, <2>1, <2>2 DEF StartTick
<1>2. ASSUME TickEnds PROVE OneInv'
  BY <1>2, <1>b, <1>i DEF TickEnds, BotFits, Opening
<1>3. ASSUME OpenInitial PROVE OneInv'
  <2>1. job["bot"].pc = "look" /\ live = {}
    BY <1>3, <1>b, <1>s DEF OpenInitial, BotFits, Watching
  <2>2. CASE Return("bot")
    BY <1>3, <1>i, <2>1, <2>2 DEF OpenInitial
  <2>3. CASE Set("bot", Job("swap", NoMint, today, FALSE))
    <3> DEFINE r == Job("swap", NoMint, today, FALSE)
    <3>1. r.pc = "swap"
      BY DEF Job
    <3> HIDE DEF r
    <3>2. BotFits(r, live, stored)
      BY <2>1, <3>1 DEF BotFits, Watching, Opening
    <3>3. "cli" \in Procs => CliFits(job["cli"], r, live, stored)
      BY <1>3, <1>b, <2>1, <3>1 DEF OpenInitial, CliFits, Watching, Opening
    <3> QED
      BY <1>3, <1>m, <2>3, <3>1, <3>2, <3>3 DEF OpenInitial, r
  <2> QED
    BY <1>3, <2>2, <2>3 DEF OpenInitial, Begin
<1>4. ASSUME DecideRebalance PROVE OneInv'
  <2> DEFINE r == Job("simulate", job["bot"].held, today, FALSE)
  <2>1. r.pc = "simulate" /\ r.held = job["bot"].held
    BY DEF Job
  <2>2. Set("bot", r) /\ job["bot"].pc = "look"
    BY <1>4, <1>s DEF DecideRebalance, Begin
  <2> HIDE DEF r
  <2>3. BotFits(r, live, stored) /\ ("cli" \in Procs => CliFits(job["cli"], r, live, stored))
    BY <1>b, <2>1, <2>2 DEF BotFits, CliFits, Watching, Opening
  <2> QED
    BY <1>4, <1>m, <2>1, <2>2, <2>3 DEF DecideRebalance
<1>5. ASSUME Boot PROVE OneInv'
  BY <1>5, <1>b, <1>i DEF Boot, BotFits, Opening
<1>6. ASSUME Simulate("bot") PROVE OneInv'
  <2>1. CASE Return("bot")
    BY <1>6, <1>b, <1>i, <2>1 DEF Simulate, BotFits, Opening
  <2>2. CASE Goto("bot", "close")
    <3> DEFINE r == [job["bot"] EXCEPT !.pc = "close"]
    <3>1. r.pc = "close" /\ r.held = job["bot"].held
      BY <1>b DEF JobType
    <3>2. Set("bot", r)
      BY <2>2 DEF Goto
    <3> HIDE DEF r
    <3>3. BotFits(r, live, stored) /\ ("cli" \in Procs => CliFits(job["cli"], r, live, stored))
      BY <1>6, <1>b, <3>1 DEF Simulate, BotFits, CliFits, Watching, Opening
    <3> QED
      BY <1>6, <1>m, <3>1, <3>2, <3>3 DEF Simulate
  <2> QED
    BY <1>6, <2>1, <2>2 DEF Simulate
<1>7. ASSUME SubmitClose("bot") PROVE OneInv'
  <2>1. CASE Return("bot")
    BY <1>7, <1>b, <1>i, <2>1 DEF SubmitClose, BotFits, Opening
  <2>2. CASE Send("bot", "closing")
    <3> DEFINE r == [job["bot"] EXCEPT !.pc = "closing", !.out = "pending"]
    <3>1. r.pc = "closing" /\ r.held = job["bot"].held /\ r.out = "pending"
      BY <1>b DEF JobType
    <3>2. Set("bot", r)
      BY <2>2 DEF Send
    <3> HIDE DEF r
    <3>3. BotFits(r, live, stored) /\ ("cli" \in Procs => CliFits(job["cli"], r, live, stored))
      BY <1>7, <1>b, <3>1 DEF SubmitClose, BotFits, CliFits, Watching, Opening
    <3> QED
      BY <1>7, <1>m, <3>1, <3>2, <3>3 DEF SubmitClose
  <2> QED
    BY <1>7, <2>1, <2>2 DEF SubmitClose
<1>8. ASSUME CloseFails("bot") PROVE OneInv'
  <2>1. late' = late
    BY <1>8, <1>b, <1>t DEF CloseFails, Rejects
  <2> QED
    BY <1>8, <1>b, <1>i, <2>1 DEF CloseFails, Rejects, BotFits, Opening
<1>9. ASSUME CloseConfirmed("bot") PROVE OneInv'
  <2> DEFINE r == [job["bot"] EXCEPT !.pc = "swap", !.out = "none"]
  <2>1. r.pc = "swap"
    BY <1>b DEF JobType
  <2>2. Set("bot", r) /\ job["bot"].pc = "closing" /\ job["bot"].out = "landed"
    BY <1>9 DEF CloseConfirmed, Resolves
  <2>3. live = {}
    BY <1>b, <2>2 DEF BotFits, Fits, Watching
  <2> HIDE DEF r
  <2>4. BotFits(r, live, stored) /\ ("cli" \in Procs => CliFits(job["cli"], r, live, stored))
    BY <1>b, <2>1, <2>2, <2>3 DEF BotFits, CliFits, Watching, Opening
  <2> QED
    BY <1>9, <1>m, <2>1, <2>2, <2>4 DEF CloseConfirmed, Resolves
<1>10. ASSUME Swap("bot") PROVE OneInv'
  <2>1. live = {} /\ job["bot"].pc = "swap"
    BY <1>10, <1>b DEF Swap, BotFits
  <2>2. CASE Return("bot")
    BY <1>10, <1>i, <2>1, <2>2 DEF Swap
  <2>3. CASE Goto("bot", "open")
    <3> DEFINE r == [job["bot"] EXCEPT !.pc = "open"]
    <3>1. r.pc = "open"
      BY <1>b DEF JobType
    <3>2. Set("bot", r)
      BY <2>3 DEF Goto
    <3> HIDE DEF r
    <3>3. BotFits(r, live, stored) /\ ("cli" \in Procs => CliFits(job["cli"], r, live, stored))
      BY <1>b, <2>1, <3>1 DEF BotFits, CliFits, Watching, Opening
    <3> QED
      BY <1>10, <1>m, <3>1, <3>2, <3>3 DEF Swap
  <2> QED
    BY <1>10, <2>2, <2>3 DEF Swap
<1>11. ASSUME SubmitOpen("bot") PROVE OneInv'
  <2>1. live = {} /\ job["bot"].pc = "open"
    BY <1>11, <1>b DEF SubmitOpen, BotFits
  <2>2. CASE Return("bot") /\ UNCHANGED lastMint
    BY <1>11, <1>i, <2>1, <2>2 DEF SubmitOpen
  <2>3. CASE /\ lastMint' = lastMint + 1
             /\ Set("bot", [job["bot"] EXCEPT !.pc = "opening", !.new = lastMint + 1, !.out = "pending"])
    <3> DEFINE r == [job["bot"] EXCEPT !.pc = "opening", !.new = lastMint + 1, !.out = "pending"]
    <3>1. r.pc = "opening" /\ r.new = lastMint + 1 /\ r.out = "pending"
      BY <1>b DEF JobType
    <3>2. lastMint + 1 \notin opened /\ lastMint + 1 # NoMint /\ opened \subseteq 1..(lastMint + 1)
      BY <1>b, <1>s DEF NoMint
    <3>3. lastMint + 1 # stored /\ ("cli" \in Procs => job["cli"].held # lastMint + 1)
      BY <1>b, <1>s, <3>2 DEF Fits
    <3> HIDE DEF r
    <3>4. BotFits(r, live, stored) /\ ("cli" \in Procs => CliFits(job["cli"], r, live, stored))
      BY <1>b, <2>1, <3>1, <3>3 DEF BotFits, CliFits, Watching, Opening
    <3>5. /\ Set("bot", r) /\ UNCHANGED <<stored, live, opened, late>>
          /\ lastMint' = lastMint + 1
      BY <1>11, <2>3 DEF SubmitOpen, r
    <3>6. r.new <= lastMint' /\ opened' \subseteq 1..lastMint' /\ late' = {}
      BY <1>b, <1>s, <3>1, <3>2, <3>5
    <3> QED
      BY <3>4, <3>5, <3>6, BotMoves
  <2> QED
    BY <1>11, <2>2, <2>3 DEF SubmitOpen
<1>12. ASSUME OpenFails("bot") PROVE OneInv'
  <2>1. late' = late /\ job["bot"].out = "dead"
    BY <1>12, <1>b, <1>t DEF OpenFails, Rejects
  <2>2. live = {}
    BY <1>12, <1>b, <2>1 DEF OpenFails, BotFits
  <2> QED
    BY <1>12, <1>i, <2>1, <2>2 DEF OpenFails, Rejects
<1>13. ASSUME OpenConfirmed("bot") PROVE OneInv'
  <2> DEFINE r == [job["bot"] EXCEPT !.pc = "persist", !.out = "none"]
  <2>1. r.pc = "persist" /\ r.new = job["bot"].new
    BY <1>b DEF JobType
  <2>2. Set("bot", r) /\ job["bot"].pc = "opening"
    BY <1>13 DEF OpenConfirmed
  <2> HIDE DEF r
  <2>3. BotFits(r, live, stored) /\ ("cli" \in Procs => CliFits(job["cli"], r, live, stored))
    BY <1>b, <2>1, <2>2 DEF BotFits, CliFits, Watching, Opening
  <2> QED
    BY <1>13, <1>m, <2>1, <2>2, <2>3 DEF OpenConfirmed, Resolves
<1>14. ASSUME Persist("bot") PROVE OneInv'
  <2> DEFINE r == [job["bot"] EXCEPT !.pc = "record"]
  <2>1. r.pc = "record"
    BY <1>b DEF JobType
  <2>2. Set("bot", r) /\ stored' = job["bot"].new /\ job["bot"].pc = "persist"
    BY <1>14 DEF Persist, Goto, Undisturbed
  <2> HIDE DEF r
  <2>3. BotFits(r, live, stored') /\ ("cli" \in Procs => CliFits(job["cli"], r, live, stored'))
    BY <1>b, <2>1, <2>2 DEF BotFits, CliFits, Watching, Opening
  <2>4. UNCHANGED <<live, opened, lastMint, late>>
    BY <1>14 DEF Persist
  <2> QED
    BY <1>b, <2>1, <2>2, <2>3, <2>4, BotMoves
<1>15. ASSUME Record("bot") PROVE OneInv'
  BY <1>15, <1>b, <1>i DEF Record, BotFits, Opening, Undisturbed
<1>16. ASSUME SubmitRollback("bot") \/ RollbackEnds("bot") PROVE OneInv'
  BY <1>16, <1>b DEF SubmitRollback, RollbackEnds, BotFits, Watching, Opening
<1> QED
  BY <1>1, <1>2, <1>3, <1>4, <1>5, <1>6, <1>7, <1>8, <1>9, <1>10, <1>11, <1>12, <1>13, <1>14,
     <1>15, <1>16 DEF BotStep, RebalanceStep

\* The steps of the command line.
LEMMA OneCli ==
  ASSUME Undisturbed, SafeInv, OneInv, "cli" \in Procs, CliStep
  PROVE  OneInv'
<1> USE DEF db, chain, pc
<1>b. /\ "bot" \in Procs /\ job["bot"] \in JobType /\ Fits(job["bot"], live, opened)
      /\ BotFits(job["bot"], live, stored)
      /\ job["cli"] \in JobType /\ Fits(job["cli"], live, opened)
      /\ CliFits(job["cli"], job["bot"], live, stored)
      /\ late = {} /\ opened \subseteq 1..lastMint
  BY RebalancerAssumption DEF SafeInv, OneInv
<1>t. Threw("cli") /\ Abandon("cli") => late' = {}
  BY NoneLate
<1>i. ASSUME Return("cli"), UNCHANGED <<stored, live, opened, lastMint, late>> PROVE OneInv'
  BY <1>b, <1>i, CliReturns
<1>m. ASSUME NEW r, Set("cli", r), UNCHANGED <<stored, live, opened, lastMint, late>>,
             CliFits(r, job["bot"], live, stored)
      PROVE  OneInv'
  BY <1>b, <1>m, CliMoves
<1>1. ASSUME NEW l \in Commands \cap {"force", "exit", "reconcile"}, CliReads(l) PROVE OneInv'
  <2> DEFINE r == Job("exit", stored, 1, FALSE)
  <2>1. r.pc = "exit" /\ r.held = stored
    BY DEF Job
  <2>2. Set("cli", r)
    BY <1>1 DEF CliReads, Undisturbed
  <2> HIDE DEF r
  <2>3. CliFits(r, job["bot"], live, stored)
    BY <1>b, <2>1 DEF CliFits, BotFits
  <2> QED
    BY <1>1, <1>m, <2>2, <2>3 DEF CliReads
<1>2. ASSUME ForceRebalance \/ ReconcileAsk \/ ReconcileCommit PROVE OneInv'
  BY <1>2, <1>b DEF ForceRebalance, ReconcileAsk, ReconcileCommit, CliFits
<1>3. ASSUME EmergencyExit PROVE OneInv'
  <2>1. CASE Return("cli")
    BY <1>3, <1>i, <2>1 DEF EmergencyExit
  <2>2. CASE Send("cli", "exiting")
    <3> DEFINE r == [job["cli"] EXCEPT !.pc = "exiting", !.out = "pending"]
    <3>1. r.pc = "exiting" /\ r.out = "pending" /\ r.held = job["cli"].held
      BY <1>b DEF JobType
    <3>2. Set("cli", r) /\ job["cli"].pc = "exit"
      BY <1>3, <2>2 DEF Send, EmergencyExit
    <3> HIDE DEF r
    <3>3. CliFits(r, job["bot"], live, stored)
      BY <1>b, <3>1, <3>2 DEF CliFits
    <3> QED
      BY <1>3, <1>m, <3>2, <3>3 DEF EmergencyExit
  <2> QED
    BY <1>3, <2>1, <2>2 DEF EmergencyExit
<1>4. ASSUME ExitEnds PROVE OneInv'
  <2>1. CASE Rejects("cli") /\ UNCHANGED <<stored, zeroed>>
    <3>1. late' = late
      BY <1>b, <1>t, <2>1 DEF Rejects
    <3> QED
      BY <1>4, <1>i, <2>1, <3>1 DEF ExitEnds, Rejects
  <2>2. CASE Resolves("cli") /\ stored' = NoMint
    <3>1. job["cli"].pc = "exiting" /\ job["cli"].out = "landed"
      BY <1>4, <2>2 DEF ExitEnds, Resolves
    <3>2. live = {} /\ job["bot"].pc \notin Opening
      BY <1>b, <3>1 DEF CliFits
    <3>3. BotFits(job["bot"], live, stored')
      BY <1>b, <3>2 DEF BotFits, Opening
    <3> QED
      BY <1>4, <2>2, <3>3, CliReturns DEF ExitEnds, Resolves
  <2> QED
    BY <1>4, <2>1, <2>2 DEF ExitEnds, Undisturbed
<1>5. ASSUME NEW n \in Mints, CloseOrphan(n) PROVE OneInv'
  <2> DEFINE r == [Job("orphan", n, 1, FALSE) EXCEPT !.out = "pending"]
  <2>1. r.pc = "orphan"
    BY DEF Job
  <2>2. Set("cli", r)
    BY <1>5 DEF CloseOrphan
  <2> HIDE DEF r
  <2>3. CliFits(r, job["bot"], live, stored)
    BY <2>1 DEF CliFits
  <2> QED
    BY <1>5, <1>m, <2>2, <2>3 DEF CloseOrphan
<1>6. ASSUME OrphanEnds PROVE OneInv'
  <2>1. UNCHANGED <<stored, live, opened, lastMint, late>>
    BY <1>6, <1>b, <1>t DEF OrphanEnds, Rejects, Resolves
  <2> QED
    BY <1>6, <1>i, <2>1 DEF OrphanEnds
<1>7. ASSUME ClearDegraded PROVE OneInv'
  BY <1>7 DEF ClearDegraded, OneInv
<1> QED
  BY <1>1, <1>2, <1>3, <1>4, <1>5, <1>6, <1>7 DEF CliStep

\* What the chain answers, and the submitter's retries.
LEMMA OneChain ==
  ASSUME Undisturbed, SafeInv, OneInv, NEW p \in Procs, Land(p) \/ Drop(p) \/ Resend(p)
  PROVE  OneInv'
<1> USE DEF db, chain, pc
<1>b. /\ "bot" \in Procs /\ job["bot"] \in JobType /\ Fits(job["bot"], live, opened)
      /\ BotFits(job["bot"], live, stored)
      /\ "cli" \in Procs => job["cli"] \in JobType /\ Fits(job["cli"], live, opened)
                            /\ CliFits(job["cli"], job["bot"], live, stored)
      /\ late = {} /\ opened \subseteq 1..lastMint /\ Procs \subseteq {"bot", "cli"}
      /\ job["bot"].pc = "opening" => job["bot"].new <= lastMint
  BY RebalancerAssumption DEF SafeInv, OneInv
<1>s. live \subseteq opened /\ opened \subseteq Mints /\ NoMint \notin Mints /\ lastMint \in Nat
  BY DEF SafeInv, DbTyped, Known, NoMint, Mints
\* An attempt that did not land changes nothing the invariant sees.
<1>1. ASSUME NEW o \in {"pending", "dead"}, Set(p, [job[p] EXCEPT !.out = o]),
             job[p].out # "landed", UNCHANGED <<stored, live, opened, lastMint>>, late' = {}
      PROVE  OneInv'
  <2> DEFINE r == [job[p] EXCEPT !.out = o]
  <2>1. /\ r.pc = job[p].pc /\ r.held = job[p].held /\ r.new = job[p].new
        /\ r.out # "landed" /\ Set(p, r)
    BY <1>1, <1>b DEF JobType
  <2> HIDE DEF r
  <2>2. CASE p = "bot"
    <3>1. BotFits(r, live, stored) /\ ("cli" \in Procs => CliFits(job["cli"], r, live, stored))
      BY <1>1, <1>b, <2>1, <2>2 DEF BotFits, CliFits
    <3> QED
      BY <1>1, <1>b, <2>1, <2>2, <3>1, BotMoves
  <2>3. CASE p = "cli"
    <3>1. CliFits(r, job["bot"], live, stored)
      BY <1>1, <1>b, <2>1, <2>3 DEF CliFits
    <3> QED
      BY <1>1, <1>b, <2>1, <2>3, <3>1, CliMoves
  <2> QED
    BY <1>b, <2>2, <2>3
<1>2. CASE Drop(p)
  BY <1>1, <1>2, <1>b DEF Drop
<1>3. CASE Resend(p)
  <2>1. late' = {} /\ job[p].out = "dead"
    BY <1>3, NoneLate DEF Resend
  <2> QED
    BY <1>1, <1>3, <2>1 DEF Resend
<1>4. CASE Land(p)
  <2> DEFINE r == [job[p] EXCEPT !.out = "landed"]
  <2>1. /\ r.pc = job[p].pc /\ r.held = job[p].held /\ r.new = job[p].new
        /\ r.out = "landed" /\ Set(p, r)
    BY <1>4, <1>b DEF Land, JobType
  <2> HIDE DEF r
  <2>2. UNCHANGED <<stored, lastMint, late>> /\ job[p].out = "pending" /\ Execute(Awaited(p))
    BY <1>4 DEF Land
  <2>3. job[p].pc \in Sending
    BY <1>b, <2>2 DEF Fits
  <2>4. CASE p = "bot"
    <3>1. job["bot"].pc \in {"closing", "opening"}
      BY <1>b, <2>3, <2>4 DEF BotFits, Sending, Watching, Opening
    <3>2. CASE job["bot"].pc = "closing"
      <4>1. job["bot"].held \in live /\ live' = live \ {job["bot"].held} /\ opened' = opened
        BY <2>2, <2>4, <3>2 DEF Execute, Awaited, Applicable
      <4>2. BotFits(r, live', stored) /\ ("cli" \in Procs => CliFits(job["cli"], r, live', stored))
        BY <1>b, <2>1, <2>4, <3>2, <4>1 DEF BotFits, CliFits, Watching, Opening
      <4> QED
        BY <1>b, <2>1, <2>2, <2>4, <3>2, <4>1, <4>2, BotMoves
    <3>3. CASE job["bot"].pc = "opening"
      <4>1. live' = live \cup {job["bot"].new} /\ opened' = opened \cup {job["bot"].new}
        BY <2>2, <2>4, <3>3 DEF Execute, Awaited, Applicable
      <4>2. live = {} /\ job["bot"].new \in Mints /\ job["bot"].new <= lastMint
        BY <1>b, <2>2, <2>4, <3>3 DEF BotFits, Fits
      <4>3. job["bot"].new \in 1..lastMint
        BY <1>s, <4>2, RebalancerAssumption DEF Mints
      <4>4. opened' \subseteq 1..lastMint
        BY <1>b, <4>1, <4>3
      <4>5. BotFits(r, live', stored) /\ ("cli" \in Procs => CliFits(job["cli"], r, live', stored))
        BY <1>b, <2>1, <2>4, <3>3, <4>1, <4>2 DEF BotFits, CliFits, Watching, Opening
      <4> QED
        BY <1>b, <2>1, <2>2, <2>4, <4>2, <4>4, <4>5, BotMoves
    <3> QED
      BY <3>1, <3>2, <3>3
  <2>5. CASE p = "cli"
    <3>0. job["cli"].pc \in {"exiting", "orphan"}
      BY <1>b, <2>3, <2>5 DEF CliFits, Sending
    <3>1. job["cli"].held \in live /\ live' = live \ {job["cli"].held} /\ opened' = opened
      BY <2>2, <2>5, <3>0 DEF Execute, Awaited, Applicable
    <3>2. BotFits(job["bot"], live', stored)
      BY <1>b, <3>1 DEF BotFits
    <3>3. CliFits(r, job["bot"], live', stored)
      <4>1. CASE job["cli"].pc = "orphan"
        BY <2>1, <2>5, <4>1 DEF CliFits
      <4>2. CASE job["cli"].pc = "exiting"
        <5>1. job["bot"].pc \notin Opening
          BY <1>b, <2>5, <3>1, <4>2 DEF BotFits, CliFits, Opening
        <5>2. stored = job["cli"].held /\ live' = {} /\ stored # NoMint
          BY <1>b, <1>s, <3>1, <5>1 DEF BotFits
        <5>3. job["bot"].pc \in Watching => job["bot"].held = stored
          BY <1>b, <3>1, <5>2 DEF BotFits
        <5>4. ~(job["bot"].pc = "closing" /\ job["bot"].out = "landed")
          BY <1>b, <3>1, <5>2, <5>3 DEF Fits, Watching
        <5> QED
          BY <1>b, <2>1, <2>5, <4>2, <5>1, <5>2, <5>3, <5>4 DEF CliFits, Opening
      <4> QED
        BY <3>0, <4>1, <4>2
    <3> QED
      BY <1>b, <2>1, <2>2, <2>5, <3>1, <3>2, <3>3, CliMoves
  <2> QED
    BY <1>b, <2>4, <2>5
<1> QED
  BY <1>2, <1>3, <1>4

LEMMA OneStep == Undisturbed /\ SafeInv /\ OneInv /\ [Next]_vars => OneInv'
<1> SUFFICES ASSUME Undisturbed, SafeInv, OneInv, [Next]_vars PROVE OneInv'
  OBVIOUS
<1> USE DEF db, chain
<1>1. CASE BotStep
  BY <1>1, OneBot
<1>2. ASSUME NEW p \in Procs, RebalanceStep(p) PROVE OneInv'
  <2>1. p = "bot"
    BY <1>2, NoneLate DEF RebalanceStep, Simulate, SubmitClose, CloseFails, CloseConfirmed, Swap,
       SubmitOpen, OpenFails, OpenConfirmed, Persist, Record, SubmitRollback, RollbackEnds, Flying
  <2> QED
    BY <1>2, <2>1, OneBot
<1>3. ASSUME NEW p \in Procs, Resend(p) \/ Land(p) \/ Drop(p) PROVE OneInv'
  BY <1>3, OneChain
<1>4. ASSUME NEW p \in Procs, Crash(p) PROVE OneInv'
  BY <1>4 DEF Crash, Undisturbed
<1>5. CASE "cli" \in Procs /\ CliStep
  BY <1>5, OneCli
<1>6. ASSUME NEW tx \in late PROVE FALSE
  BY <1>6 DEF OneInv
<1>7. CASE ToggleKill \/ NewDay \/ UNCHANGED vars
  BY <1>7 DEF ToggleKill, NewDay, vars, OneInv
<1> QED
  BY <1>1, <1>2, <1>3, <1>4, <1>5, <1>6, <1>7 DEF Next, ChainStep

LEMMA OneInit == Init => OneInv
<1> SUFFICES ASSUME Init PROVE OneInv
  OBVIOUS
<1>1. job["bot"].pc = "down" /\ ("cli" \in Procs => job["cli"].pc = "idle")
  BY RebalancerAssumption DEF Init, At, Job
<1>2. live = {} /\ late = {} /\ opened = {}
  BY DEF Init
<1> QED
  BY <1>1, <1>2 DEF OneInv, BotFits, CliFits, Watching, Opening

LEMMA OneAlways == Undisturbed => (Spec => []OneInv)
<1> SUFFICES ASSUME Undisturbed PROVE Spec => []OneInv
  OBVIOUS
<1>1. SafeInv /\ OneInv /\ [Next]_vars => OneInv'
  BY OneStep
<1> QED
  BY <1>1, OneInit, SafeAlways, PTL DEF Spec

\* Without faults the bot never has two positions, whatever the chain answers
\* and however its ticks interleave with emergency-exit, close-orphan,
\* clear-degraded and the kill switch.
THEOREM OnePosition == Undisturbed => (Spec => []AtMostOnePosition)
<1> SUFFICES ASSUME Undisturbed PROVE Spec => []AtMostOnePosition
  OBVIOUS
<1>1. SafeInv /\ OneInv => AtMostOnePosition
  <2> SUFFICES ASSUME SafeInv, OneInv PROVE AtMostOnePosition
    OBVIOUS
  <2>1. \E n : live \subseteq {n}
    BY DEF OneInv, BotFits, Opening
  <2>2. PICK n : live = {} \/ live = {n}
    BY <2>1
  <2>3. Cardinality({}) = 0 /\ Cardinality({n}) = 1
    BY FS_EmptySet, FS_Singleton
  <2> QED
    BY <2>2, <2>3 DEF AtMostOnePosition
<1>2. Spec => []OneInv
  BY OneAlways
<1> QED
  BY <1>1, <1>2, SafeAlways, PTL

\* Under the same conditions every position that exists is the one in state.db
\* or the one executeRebalance is about to store.
THEOREM NoOrphans == Undisturbed => (Spec => []NothingOrphaned)
<1> SUFFICES ASSUME Undisturbed PROVE Spec => []NothingOrphaned
  OBVIOUS
<1>1. OneInv => NothingOrphaned
  BY RebalancerAssumption DEF OneInv, BotFits, Opening, NothingOrphaned
<1>2. Spec => []OneInv
  BY OneAlways
<1> QED
  BY <1>1, <1>2, PTL
=============================================================================
