------------------------------ MODULE Deposits ------------------------------
(***************************************************************************)
(* The deposit side of the vault: the watcher that polls each user's       *)
(* deposit address (src/src/vault/depositWatcher.ts), the pipeline that    *)
(* sweeps an inflow into the pool wallet and credits it                    *)
(* (depositPipeline.ts, sweeper.ts, creditEngine.ts), the operator's       *)
(* /recreditdeposit (operatorCommands.ts), and process death.              *)
(*                                                                         *)
(* Abstracted: one token; one share per unit (NAV is the subject of a      *)
(* module of its own); the audit log is the two sets of deposits whose     *)
(* deposit_detected and deposit_swept rows exist, the rows the operator    *)
(* command reads.                                                          *)
(***************************************************************************)
EXTENDS Integers, FiniteSets, Functions

CONSTANTS
  Users,          \* enrolled users, one deposit address each
  Inflows,        \* inbound transactions that may ever be made
  Amounts,        \* what an inbound transaction can carry
  Reserve,        \* rentReserveLamports: left at the address by each sweep
  Window,         \* getSignaturesForAddress limit (10 in the code)
  MaxLate,        \* bound: abandoned sweeps of a deposit still in flight
  LostAnswers,    \* may a submit throw although its transaction is alive?
  DbFaults,       \* may an SQLite write throw?
  MayCrash        \* may the process die?

Nobody == "nobody"
None   == "none"

ASSUME DepositsAssumption ==
  /\ Nobody \notin Users /\ None \notin Inflows
  /\ IsFiniteSet(Inflows)
  /\ Amounts \subseteq Nat \ {0}
  /\ Reserve \in Nat
  /\ Window \in Nat \ {0}
  /\ MaxLate \in Nat
  /\ LostAnswers \in BOOLEAN /\ DbFaults \in BOOLEAN /\ MayCrash \in BOOLEAN

VARIABLES
  (* Solana *)
  owner,          \* per inflow: whose address it went to (Nobody: not made)
  amount,         \* per inflow: what it carried
  newer,          \* per inflow: later transactions of its address (to Window)
  balance,        \* per user: what the deposit address holds
  pool,           \* what sweeps have brought into the pool wallet
  landed,         \* per inflow: sweeps made for it that landed
  late,           \* per inflow: sweeps in flight that nobody waits for
  (* SQLite *)
  credited,       \* vault_deposits, by inbound_tx_sig
  shares,         \* per user: vault_shares.shares
  detected,       \* deposit_detected audit rows, by inbound_tx_sig
  swept,          \* deposit_swept audit rows, by inbound_tx_sig
  (* volatile *)
  pc,             \* where pollAddress() / onInflow() stands
  todo,           \* signatures of the poll still to be looked at
  cur,            \* the inflow onInflow() works on
  out,            \* its sweep: "none", "pending", "landed" or "dead"
  recredit,       \* the inflow a running /recreditdeposit has checked
  oracle          \* getMid() answers

chain == <<owner, amount, newer, balance, pool, landed, late>>
db    == <<credited, shares, detected, swept>>
proc  == <<pc, todo, cur, out, recredit, oracle>>
vars  == <<owner, amount, newer, balance, pool, landed, late,
           credited, shares, detected, swept, pc, todo, cur, out, recredit, oracle>>

Init ==
  /\ owner = [d \in Inflows |-> Nobody]
  /\ amount = [d \in Inflows |-> 0]
  /\ newer = [d \in Inflows |-> 0]
  /\ balance = [u \in Users |-> 0]
  /\ pool = 0
  /\ landed = [d \in Inflows |-> 0]
  /\ late = [d \in Inflows |-> 0]
  /\ credited = {} /\ detected = {} /\ swept = {}
  /\ shares = [u \in Users |-> 0]
  /\ pc = "idle" /\ todo = {} /\ cur = None /\ out = "none"
  /\ recredit = None /\ oracle = FALSE

-----------------------------------------------------------------------------
(* The chain. *)

\* Every transaction of an address pushes the older ones down its history.
Push(u) ==
  newer' = [d \in Inflows |->
    IF owner[d] = u /\ newer[d] < Window THEN newer[d] + 1 ELSE newer[d]]

\* A user sends a to the deposit address.
Arrive(d, u, a) ==
  /\ owner[d] = Nobody
  /\ owner' = [owner EXCEPT ![d] = u]
  /\ amount' = [amount EXCEPT ![d] = a]
  /\ balance' = [balance EXCEPT ![u] = @ + a]
  /\ Push(u)
  /\ UNCHANGED <<pool, landed, late, db, proc>>

SweepAmountWhole(d) == balance[owner[d]]   \* whatever the address holds

\* buildSweepInstructions: the event's amount minus the reserve.
SweepAmount(d) == amount[d] - Reserve

\* A sweep of d executes on chain: the address must hold what it moves.
SweepLands(d) ==
  /\ balance[owner[d]] >= SweepAmount(d)
  /\ balance' = [balance EXCEPT ![owner[d]] = @ - SweepAmount(d)]
  /\ pool' = pool + SweepAmount(d)
  /\ landed' = [landed EXCEPT ![d] = @ + 1]
  /\ Push(owner[d])

Land ==
  /\ out = "pending"
  /\ SweepLands(cur)
  /\ out' = "landed"
  /\ UNCHANGED <<owner, amount, late, db, pc, todo, cur, recredit, oracle>>

\* Blockhash expired, or the transfer failed for lack of funds.
Drop ==
  /\ out = "pending"
  /\ out' = "dead"
  /\ UNCHANGED <<chain, db, pc, todo, cur, recredit, oracle>>

LateLand(d) ==
  /\ late[d] > 0
  /\ SweepLands(d)
  /\ late' = [late EXCEPT ![d] = @ - 1]
  /\ UNCHANGED <<owner, amount, db, proc>>

LateDrop(d) ==
  /\ late[d] > 0
  /\ late' = [late EXCEPT ![d] = @ - 1]
  /\ UNCHANGED <<owner, amount, newer, balance, pool, landed, db, proc>>

-----------------------------------------------------------------------------
(* The watcher and the pipeline. *)

PriceArrives ==
  /\ pc = "idle" /\ ~oracle
  /\ oracle' = TRUE
  /\ UNCHANGED <<chain, db, pc, todo, cur, out, recredit>>

\* pollAddress: the last Window signatures of the address, from one RPC call.
StartPoll(u) ==
  /\ pc = "idle"
  /\ todo' = {d \in Inflows : owner[d] = u /\ newer[d] < Window}
  /\ pc' = "scan"
  /\ UNCHANGED <<chain, db, cur, out, recredit, oracle>>

EndPoll ==
  /\ pc = "scan" /\ todo = {}
  /\ pc' = "idle"
  /\ UNCHANGED <<chain, db, todo, cur, out, recredit, oracle>>

\* onInflow() has returned: the loop goes on to the next signature.
Scanning == pc' = "scan" /\ cur' = None /\ out' = "none" /\ UNCHANGED <<todo, recredit, oracle>>

\* An exception that leaves pollAddress(); the tick goes on to the next user.
AbortPoll == pc' = "idle" /\ todo' = {} /\ cur' = None /\ out' = "none" /\ UNCHANGED <<recredit, oracle>>

NextSigUnchecked ==   \* no isAlreadyCredited test
  /\ pc = "scan"
  /\ \E d \in todo :
       /\ \A e \in todo : newer[d] <= newer[e]
       /\ todo' = todo \ {d} /\ pc' = "fetched" /\ cur' = d
  /\ UNCHANGED <<chain, db, out, recredit, oracle>>

NextSigSkipsDetected ==   \* a detected deposit counts as done
  /\ pc = "scan"
  /\ \E d \in todo :
       /\ \A e \in todo : newer[d] <= newer[e]
       /\ todo' = todo \ {d}
       /\ \/ d \in detected /\ UNCHANGED <<pc, cur>>
          \/ d \notin detected /\ pc' = "fetched" /\ cur' = d
  /\ UNCHANGED <<chain, db, out, recredit, oracle>>

\* Newest first: a credited signature is skipped, any other is fetched.
NextSig ==
  /\ pc = "scan"
  /\ \E d \in todo :
       /\ \A e \in todo : newer[d] <= newer[e]
       /\ todo' = todo \ {d}
       /\ \/ d \in credited /\ UNCHANGED <<pc, cur>>
          \/ d \notin credited /\ pc' = "fetched" /\ cur' = d
  /\ UNCHANGED <<chain, db, out, recredit, oracle>>

\* getParsedTransaction does not know the transaction, or throws; or the audit
\* of the detection throws, or after it getLatestBlockhash or another audit.
FetchFails ==
  /\ pc = "fetched"
  /\ \/ (Scanning \/ AbortPoll) /\ UNCHANGED detected
     \/ /\ DbFaults \/ (oracle /\ SweepAmount(cur) > 0)
        /\ detected' = detected \cup {cur}
        /\ AbortPoll
  /\ UNCHANGED <<chain, credited, shares, swept>>

\* onInflow: audit the detection; without a price the sweep is deferred, an
\* amount within the reserve cannot be swept, else the sweep is submitted.
OnInflow ==
  /\ pc = "fetched"
  /\ detected' = detected \cup {cur}
  /\ \/ ~oracle /\ Scanning
     \/ oracle /\ SweepAmount(cur) <= 0 /\ Scanning
     \/ /\ oracle /\ SweepAmount(cur) > 0
        /\ pc' = "confirming" /\ out' = "pending"
        /\ UNCHANGED <<todo, cur, recredit, oracle>>
  /\ UNCHANGED <<chain, credited, shares, swept>>

\* A sweep that is still in flight when its sender stops waiting for it.
Abandon ==
  IF out = "pending"
  THEN late[cur] < MaxLate /\ late' = [late EXCEPT ![cur] = @ + 1]
  ELSE UNCHANGED late

\* submitTx rejects: the failure is audited, if it can be written, and the next
\* poll will retry.
SweepThrows ==
  /\ pc = "confirming"
  /\ LostAnswers \/ out = "dead"
  /\ Abandon
  /\ Scanning \/ (DbFaults /\ AbortPoll)
  /\ UNCHANGED <<owner, amount, newer, balance, pool, landed, db>>

\* submitTx resolves; deposit_swept is audited before anything else.
SweepConfirmed ==
  /\ pc = "confirming" /\ out = "landed"
  /\ \/ /\ swept' = swept \cup {cur}
        /\ pc' = "credit" /\ UNCHANGED <<todo, cur, out, recredit, oracle>>
     \/ DbFaults /\ AbortPoll /\ UNCHANGED swept
  /\ UNCHANGED <<chain, credited, shares, detected>>

CreditDepositNotUnique(d) ==   \* vault_deposits without UNIQUE(inbound_tx_sig)
  /\ credited' = credited \cup {d}
  /\ shares' = [shares EXCEPT ![owner[d]] = @ + amount[d]]

\* CreditEngine.credit: one transaction, refused by UNIQUE(inbound_tx_sig).
CreditDeposit(d) ==
  /\ d \notin credited
  /\ credited' = credited \cup {d}
  /\ shares' = [shares EXCEPT ![owner[d]] = @ + amount[d]]

CreditRefused(d) ==
  /\ d \in credited \/ DbFaults
  /\ UNCHANGED <<credited, shares>>

\* The end of onInflow: the credit, or the audit of its failure.
Credit ==
  /\ pc = "credit"
  /\ \/ CreditDeposit(cur) /\ Scanning
     \/ CreditRefused(cur) /\ Scanning
     \/ DbFaults /\ UNCHANGED <<credited, shares>> /\ AbortPoll
  /\ UNCHANGED <<chain, detected, swept>>

-----------------------------------------------------------------------------
(* /recreditdeposit, and the death of the process. *)

RecreditableUnswept(d) ==   \* a deposit_detected row alone is enough
  d \notin credited /\ d \in detected

\* Not credited yet, and both audit rows are found.
Recreditable(d) == d \notin credited /\ d \in detected \cap swept

\* The command up to its await of getMid().
RecreditCheck(d) ==
  /\ recredit = None
  /\ Recreditable(d)
  /\ recredit' = d
  /\ UNCHANGED <<chain, db, pc, todo, cur, out, oracle>>

\* ... and after it: no price, the credit, or "already credited (race)".
RecreditCommit ==
  /\ recredit # None
  /\ \/ ~oracle /\ UNCHANGED <<credited, shares>>
     \/ oracle /\ CreditDeposit(recredit)
     \/ oracle /\ CreditRefused(recredit)
  /\ recredit' = None
  /\ UNCHANGED <<chain, detected, swept, pc, todo, cur, out, oracle>>

Crash ==
  /\ MayCrash
  /\ Abandon
  /\ pc' = "idle" /\ todo' = {} /\ cur' = None /\ out' = "none"
  /\ recredit' = None /\ oracle' = FALSE
  /\ UNCHANGED <<owner, amount, newer, balance, pool, landed, db>>

-----------------------------------------------------------------------------
PipelineStep ==
  EndPoll \/ NextSig \/ OnInflow \/ SweepThrows \/ SweepConfirmed \/ Credit

ChainStep == Land \/ Drop \/ \E d \in Inflows : LateLand(d) \/ LateDrop(d)

Next ==
  \/ \E d \in Inflows, u \in Users, a \in Amounts : Arrive(d, u, a)
  \/ \E u \in Users : StartPoll(u)
  \/ \E d \in Inflows : RecreditCheck(d)
  \/ RecreditCommit \/ PipelineStep \/ FetchFails
  \/ ChainStep \/ PriceArrives \/ Crash

Spec == Init /\ [][Next]_vars

\* Every tick polls every user; a price arrives some day; the RPC node neither
\* refuses the same fetch nor loses the same sweep for ever; and from some time
\* on the process stays up.
FairSpec ==
  /\ Spec
  /\ WF_vars(PipelineStep) /\ WF_vars(RecreditCommit) /\ WF_vars(ChainStep)
  /\ SF_vars(PriceArrives)
  /\ \A u \in Users : SF_vars(StartPoll(u))
  /\ \A d \in Inflows : SF_vars(OnInflow /\ cur = d) /\ SF_vars(Land /\ cur = d)
  /\ <>[][~Crash]_vars

-----------------------------------------------------------------------------
(* Properties. *)

Made(d) == owner[d] # Nobody

\* Every variable has its type; an inflow is at hand exactly while it is worked on.
TypeOK ==
  /\ owner \in [Inflows -> Users \cup {Nobody}]
  /\ amount \in [Inflows -> Amounts \cup {0}]
  /\ newer \in [Inflows -> 0..Window]
  /\ balance \in [Users -> Nat]
  /\ pool \in Nat
  /\ landed \in [Inflows -> Nat]
  /\ late \in [Inflows -> Nat]
  /\ credited \subseteq Inflows /\ detected \subseteq Inflows /\ swept \subseteq Inflows
  /\ shares \in [Users -> Nat]
  /\ pc \in {"idle", "scan", "fetched", "confirming", "credit"}
  /\ todo \subseteq Inflows
  /\ cur \in Inflows \cup {None}
  /\ out \in {"none", "pending", "landed", "dead"}
  /\ recredit \in Inflows \cup {None}
  /\ oracle \in BOOLEAN
  /\ (cur # None) = (pc \in {"fetched", "confirming", "credit"})
  /\ (out # "none") = (pc \in {"confirming", "credit"})

\* "happens only after sweep confirmation": shares are minted only for a
\* deposit whose own sweep has brought the funds into the pool, whichever of
\* the pipeline and /recreditdeposit mints them and whatever failed before.
CreditedIsSwept == \A d \in credited : landed[d] > 0

\* Without faults, no deposit is swept twice, so no sweep takes the funds of
\* another deposit of the same user.
SweptOnce == \A d \in Inflows : landed[d] <= 1

CreditedOf(u) == {d \in credited : owner[d] = u}

\* Each deposit is minted exactly once, at its full amount: a balance is the
\* sum of the user's vault_deposits rows, whatever races and retries happened.
MintedOnce ==
  \A u \in Users : shares[u] = SumFunctionOnSet(amount, CreditedOf(u))

UnsweptOf(u) == {d \in Inflows : owner[d] = u /\ landed[d] = 0}

\* Without faults, what has not been swept is still there: a deposit address
\* holds at least its unswept inflows.
UnsweptIsThere ==
  \A u \in Users : balance[u] >= SumFunctionOnSet(amount, UnsweptOf(u))

\* "deposit re-seen on next poll -> retried": a deposit that can be swept at
\* all is eventually credited.
SweepableIsCredited ==
  \A d \in Inflows : (Made(d) /\ SweepAmount(d) > 0) ~> (d \in credited)
=============================================================================
