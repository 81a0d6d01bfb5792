-------------------------- MODULE WithdrawalsProofs --------------------------
(***************************************************************************)
(* Proofs about module Withdrawals, for every value of its constants.      *)
(*                                                                         *)
(* SafeInv is inductive whatever faults occur.  ExactInv is the part that  *)
(* needs truthful answers and a working database; it carries the           *)
(* double-pay guard.                                                       *)
(***************************************************************************)
EXTENDS Withdrawals, Arithmetic, TLAPS

\* A transaction's signature is one of the numbers handed out for its row, and
\* a landed transaction is no longer pending.
SigsAreSent ==
  /\ \A tx \in mempool \cup landed : tx[2] \in 1..sends[tx[1]]
  /\ mempool \cap landed = {}

\* Where processOne() has not reached markWithdrawalSent, tx_sig is NULL; past
\* the confirmation the transaction it remembers is on chain.
SigFollowsChain ==
  /\ \A id \in Ids : txSig[id] # NoSig => status[id] \in {"processing", "completed"}
  /\ pc \in {"priced", "funding", "closing", "sending", "confirming", "mark"}
       => txSig[cur] = NoSig
  /\ pc \in {"mark", "complete"} => <<cur, sends[cur]>> \in landed
  /\ pc = "complete" => txSig[cur] = sends[cur]

\* TxSubmitter.submit starts every executeTransfer with a full retry budget.
RetryBudget ==
  /\ pc \notin {"sending", "confirming"} => tries = 0
  /\ pc = "sending" => tries < SubmitRetries

SafeInv ==
  /\ TypeOK
  /\ RetryBudget
  /\ RowIsOurs
  /\ SigsAreSent
  /\ SigFollowsChain
  /\ CompletedIsPaid

USE DEF Ids, Statuses, NoSig, NoOwner

\* A burn leaves integer balances (addShares has no floor at zero).
LEMMA BurnTyped ==
  ASSUME NEW S, NEW f \in [S -> Int], NEW o, NEW b \in Int
  PROVE  [f EXCEPT ![o] = @ - b] \in [S -> Int]
<1>1. CASE o \in S
  <2>1. f[o] - b \in Int
    BY <1>1
  <2> QED
    BY <2>1
<1>2. CASE o \notin S
  <2>1. [f EXCEPT ![o] = @ - b] = f
    BY <1>2
  <2> QED
    BY <2>1
<1> QED
  BY <1>1, <1>2

\* The initial state satisfies the invariant.
LEMMA SafeInit == Init => SafeInv
<1> SUFFICES ASSUME Init PROVE SafeInv
  OBVIOUS
<1> USE DEF Init
<1>1. TypeOK
  <2>1. 0 \in 0..SubmitRetries /\ InitialShares \in Int
    BY WithdrawalsAssumption
  <2>2. /\ shares \in [Users -> Int] /\ tries \in 0..SubmitRetries
        /\ burned \in [Ids -> Amounts \cup {0}]
    BY <2>1
  <2>3. oracle \in BOOLEAN
    BY Zenon
  <2> QED
    BY <2>2, <2>3 DEF TypeOK, Busy
<1>2. RetryBudget /\ RowIsOurs /\ SigsAreSent /\ SigFollowsChain /\ CompletedIsPaid
  BY DEF RetryBudget, RowIsOurs, SigsAreSent, SigFollowsChain, CompletedIsPaid, Busy
<1> QED
  BY <1>1, <1>2 DEF SafeInv

\* The handlers touch only rows that processOne() is not working on.
LEMMA SafeHandler == SafeInv /\ HandlerStep => SafeInv'
<1> SUFFICES ASSUME SafeInv, HandlerStep PROVE SafeInv'
  OBVIOUS
<1> USE WithdrawalsAssumption DEF SafeInv, store, wire, exec
<1>1. ASSUME NEW u \in Users, NEW a \in Amounts, DoWithdraw(u, a)
      PROVE SafeInv'
  <2>1. PICK id \in Ids :
          /\ status[id] = "none"
          /\ status' = [status EXCEPT ![id] = "queued"]
          /\ owner' = [owner EXCEPT ![id] = u]
          /\ burned' = [burned EXCEPT ![id] = a]
    BY <1>1 DEF DoWithdraw, SetStatus
  <2>2. UNCHANGED <<txSig, shares, stops, sends, mempool, landed, pc, batch, cur, tries, oracle>>
    BY <1>1 DEF DoWithdraw
  <2>3. TypeOK'
    BY <2>1, <2>2 DEF TypeOK, Busy
  <2>4. RetryBudget' /\ RowIsOurs' /\ SigsAreSent' /\ SigFollowsChain' /\ CompletedIsPaid'
    BY <2>1, <2>2 DEF TypeOK, RetryBudget, RowIsOurs, SigsAreSent, SigFollowsChain, CompletedIsPaid, Busy
  <2> QED
    BY <2>3, <2>4
<1>2. ASSUME NEW id \in Ids, HandleForceProcess(id)
      PROVE SafeInv'
  <2>1. /\ status[id] = "failed" /\ txSig[id] = NoSig
        /\ status' = [status EXCEPT ![id] = "queued"]
        /\ UNCHANGED <<owner, burned, txSig, shares, stops, sends, mempool, landed,
                       pc, batch, cur, tries, oracle>>
    BY <1>2 DEF HandleForceProcess, Requeueable, SetStatus
  <2>2. TypeOK'
    BY <2>1 DEF TypeOK, Busy
  <2>3. RetryBudget' /\ RowIsOurs' /\ SigsAreSent' /\ SigFollowsChain' /\ CompletedIsPaid'
    BY <2>1 DEF TypeOK, RetryBudget, RowIsOurs, SigsAreSent, SigFollowsChain, CompletedIsPaid, Busy
  <2> QED
    BY <2>2, <2>3
<1>3. ASSUME NEW f \in StopFlags, RaiseStop(f) \/ ClearStop(f)
      PROVE SafeInv'
  BY <1>3 DEF RaiseStop, ClearStop, TypeOK, RetryBudget, RowIsOurs, SigsAreSent, SigFollowsChain,
              CompletedIsPaid, Busy
<1> QED
  BY <1>1, <1>2, <1>3 DEF HandlerStep

\* Landing and expiring move transactions, never rows.
LEMMA SafeChain == SafeInv /\ ChainStep => SafeInv'
<1> SUFFICES ASSUME SafeInv, NEW tx \in mempool, Land(tx) \/ Expire(tx) PROVE SafeInv'
  BY DEF ChainStep
<1> USE DEF SafeInv, store, exec
<1>1. /\ mempool' \subseteq mempool
      /\ landed \subseteq landed' /\ landed' \subseteq landed \cup {tx}
      /\ UNCHANGED <<status, owner, burned, txSig, shares, stops, sends, pc, batch, cur, tries, oracle>>
  BY DEF Land, Expire
<1>2. TypeOK'
  BY <1>1 DEF TypeOK, Busy
<1>3. RetryBudget' /\ RowIsOurs' /\ SigFollowsChain' /\ CompletedIsPaid'
  BY <1>1 DEF RetryBudget, RowIsOurs, SigFollowsChain, CompletedIsPaid, Busy
<1>4. SigsAreSent'
  BY <1>1 DEF SigsAreSent, Land, Expire
<1> QED
  BY <1>2, <1>3, <1>4

\* Every step of drain() and processOne() preserves the invariant.
LEMMA SafeExecutor == SafeInv /\ ExecutorStep => SafeInv'
<1> SUFFICES ASSUME SafeInv, ExecutorStep PROVE SafeInv'
  OBVIOUS
<1> USE DEF SafeInv, store, wire
<1> DEFINE Rest == RetryBudget /\ RowIsOurs /\ SigsAreSent /\ SigFollowsChain /\ CompletedIsPaid
<1>0. ASSUME TypeOK', Rest' PROVE SafeInv'
  BY <1>0
<1>z. SubmitRetries \in Nat /\ 0 < SubmitRetries /\ 0 \in 0..SubmitRetries
  BY WithdrawalsAssumption
<1>1. CASE StartDrain
  <2>1. TypeOK'
    BY <1>1 DEF StartDrain, InStatus, TypeOK, Busy
  <2>2. Rest'
    BY <1>1 DEF StartDrain, InStatus, RetryBudget, RowIsOurs, SigsAreSent, SigFollowsChain,
                CompletedIsPaid, Busy
  <2> QED
    BY <2>1, <2>2
<1>2. CASE EndDrain
  <2>1. TypeOK'
    BY <1>2, <1>z DEF EndDrain, TypeOK, Busy
  <2>2. Rest'
    BY <1>2, <1>z DEF EndDrain, RetryBudget, RowIsOurs, SigsAreSent, SigFollowsChain, CompletedIsPaid, Busy
  <2> QED
    BY <2>1, <2>2
<1>3. CASE TakeNext
  <2>0. PICK id \in batch :
          \/ /\ SetWithdrawalProcessing(id)
             /\ pc' = "priced" /\ batch' = batch \ {id} /\ cur' = id
             /\ UNCHANGED <<tries, oracle>>
          \/ AbortDrain /\ UNCHANGED status
    BY <1>3 DEF TakeNext
  <2>u. UNCHANGED <<owner, burned, txSig, shares, stops, sends, mempool, landed>>
    BY <1>3 DEF TakeNext
  <2>q. id \in Ids /\ status[id] = "queued" /\ txSig[id] = NoSig
    BY DEF TypeOK, RowIsOurs, SigFollowsChain
  <2>1. CASE AbortDrain /\ UNCHANGED status
    <3>1. TypeOK'
      BY <2>1, <2>u, <1>z DEF AbortDrain, TypeOK, Busy
    <3>2. Rest'
      BY <2>1, <2>u, <1>z DEF AbortDrain, RetryBudget, RowIsOurs, SigsAreSent, SigFollowsChain, CompletedIsPaid, Busy
    <3> QED
      BY <3>1, <3>2
  <2>2. CASE /\ SetWithdrawalProcessing(id)
             /\ pc' = "priced" /\ batch' = batch \ {id} /\ cur' = id
             /\ UNCHANGED <<tries, oracle>>
    <3>1. TypeOK'
      BY <2>2, <2>u, <2>q DEF SetWithdrawalProcessing, TypeOK, Busy
    <3>2. /\ \A j \in Ids : j # id => status'[j] = status[j]
          /\ status'[id] = "processing"
      BY <2>2, <2>q DEF SetWithdrawalProcessing, TypeOK
    <3>3. RowIsOurs'
      BY <2>2, <2>q, <3>2 DEF RowIsOurs, TypeOK
    <3>4. RetryBudget' /\ SigsAreSent'
      BY <1>3, <2>2, <2>u DEF TakeNext, RetryBudget, SigsAreSent
    <3>5. SigFollowsChain' /\ CompletedIsPaid'
      BY <2>2, <2>u, <2>q, <3>2 DEF SigFollowsChain, CompletedIsPaid
    <3> QED
      BY <3>1, <3>3, <3>4, <3>5
  <2> QED
    BY <2>0, <2>1, <2>2
<1>f. ASSUME Busy, txSig[cur] = NoSig, FailAndReturn, tries' = 0, UNCHANGED wire
      PROVE  SafeInv'
  <2>1. /\ \/ status' = [status EXCEPT ![cur] = "failed"] /\ pc' = "next"
           \/ UNCHANGED status /\ pc' = "catch"
        /\ UNCHANGED <<owner, burned, txSig, shares, stops, batch, cur, oracle,
                       sends, mempool, landed>>
    BY <1>f DEF FailAndReturn, FailWithdrawal, SetStatus
  <2>2. cur \in Ids /\ status[cur] = "processing"
    BY <1>f DEF TypeOK, RowIsOurs
  <2>3. TypeOK'
    BY <1>f, <1>z, <2>1, <2>2 DEF TypeOK, Busy
  <2>4. Rest'
    BY <1>f, <2>1, <2>2 DEF TypeOK, RetryBudget, RowIsOurs, SigsAreSent, SigFollowsChain,
                            CompletedIsPaid, Busy
  <2> QED
    BY <2>3, <2>4
<1>m. ASSUME Busy, UNCHANGED <<store, wire, batch, cur, oracle>>, txSig[cur] = NoSig,
             \/ pc' \in {"funding", "closing", "catch"} /\ tries' = 0
             \/ pc' = "sending" /\ tries' \in 0..SubmitRetries /\ tries' < SubmitRetries
      PROVE  SafeInv'
  <2>1. TypeOK'
    BY <1>m, <1>z DEF TypeOK, Busy
  <2>2. Rest'
    BY <1>m DEF TypeOK, RetryBudget, RowIsOurs, SigsAreSent, SigFollowsChain, CompletedIsPaid, Busy
  <2> QED
    BY <2>1, <2>2
<1>4. CASE CheckMid
  <2>1. Busy /\ txSig[cur] = NoSig /\ tries' = 0
    BY <1>4 DEF CheckMid, Busy, SigFollowsChain, RetryBudget
  <2>2. CASE FailAndReturn
    BY <1>4, <2>1, <2>2, <1>f DEF CheckMid
  <2>3. CASE pc' = "funding" /\ UNCHANGED <<store, batch, cur, tries, oracle>>
    BY <1>4, <2>1, <2>3, <1>m DEF CheckMid
  <2> QED
    BY <1>4, <2>2, <2>3 DEF CheckMid
<1>5. CASE ReadBalances
  <2>1. Busy /\ txSig[cur] = NoSig /\ tries' = 0
    BY <1>5 DEF ReadBalances, Busy, SigFollowsChain, RetryBudget
  <2> QED
    BY <1>5, <1>z, <2>1, <1>m DEF ReadBalances
<1>6. CASE PartialClose
  <2>1. Busy /\ txSig[cur] = NoSig /\ tries' = 0
    BY <1>6 DEF PartialClose, Busy, SigFollowsChain, RetryBudget
  <2>2. CASE FailAndReturn
    BY <1>6, <2>1, <2>2, <1>f DEF PartialClose
  <2>3. CASE pc' \in {"sending", "catch"} /\ UNCHANGED <<store, batch, cur, oracle>>
    BY <1>6, <1>z, <2>1, <2>3, <1>m DEF PartialClose
  <2> QED
    BY <1>6, <2>2, <2>3 DEF PartialClose
<1>7. CASE SendTransfer
  <2> DEFINE n == sends[cur] + 1
  <2>1. /\ pc = "sending" /\ pc' = "confirming" /\ tries' = tries + 1
        /\ sends' = [sends EXCEPT ![cur] = n]
        /\ mempool' = mempool \cup {<<cur, n>>}
        /\ UNCHANGED <<status, owner, burned, txSig, shares, stops, landed, batch, cur, oracle>>
    BY <1>7 DEF SendTransfer
  <2>2. /\ cur \in Ids /\ sends[cur] \in Nat /\ txSig[cur] = NoSig
        /\ tries \in 0..SubmitRetries /\ tries < SubmitRetries
    BY <2>1 DEF TypeOK, Busy, SigFollowsChain, RetryBudget
  <2>3. TypeOK'
    BY <1>z, <2>1, <2>2 DEF TypeOK, Busy
  <2>4. SigsAreSent'
    BY <2>1, <2>2 DEF SigsAreSent, TypeOK
  <2>5. RetryBudget' /\ RowIsOurs' /\ SigFollowsChain' /\ CompletedIsPaid'
    BY <2>1, <2>2 DEF RetryBudget, RowIsOurs, SigFollowsChain, CompletedIsPaid, Busy
  <2> QED
    BY <2>3, <2>4, <2>5
<1>8. CASE TransferConfirmed
  <2>1. TypeOK'
    BY <1>8, <1>z DEF TransferConfirmed, TypeOK, Busy
  <2>2. Rest'
    BY <1>8 DEF TransferConfirmed, RetryBudget, RowIsOurs, SigsAreSent, SigFollowsChain,
                CompletedIsPaid, Busy
  <2> QED
    BY <2>1, <2>2
<1>9. CASE AttemptThrows
  <2>1. Busy /\ txSig[cur] = NoSig /\ tries \in 0..SubmitRetries
    BY <1>9 DEF AttemptThrows, Busy, SigFollowsChain, TypeOK
  <2>2. CASE tries' = 0 /\ FailAndReturn
    BY <1>9, <2>1, <2>2, <1>f DEF AttemptThrows
  <2>3. CASE /\ tries < SubmitRetries
             /\ pc' = "sending"
             /\ UNCHANGED <<store, batch, cur, tries, oracle>>
    BY <1>9, <2>1, <2>3, <1>m DEF AttemptThrows
  <2> QED
    BY <1>9, <2>2, <2>3 DEF AttemptThrows
<1>10. CASE RecordSig
  <2>1. /\ pc = "mark" /\ cur \in Ids /\ txSig[cur] = NoSig
        /\ status[cur] = "processing" /\ sends[cur] \in Nat
    BY <1>10 DEF RecordSig, TypeOK, Busy, RowIsOurs, SigFollowsChain
  <2>2. /\ \/ txSig' = [txSig EXCEPT ![cur] = sends[cur]] /\ pc' = "complete"
           \/ UNCHANGED txSig /\ pc' \in {"next", "catch"}
        /\ UNCHANGED <<status, owner, burned, shares, stops, sends, mempool, landed,
                       batch, cur, tries, oracle>>
    BY <1>10 DEF RecordSig, MarkWithdrawalSent
  <2>3. TypeOK'
    BY <2>1, <2>2 DEF TypeOK, Busy
  <2>4. Rest'
    BY <2>1, <2>2 DEF TypeOK, RetryBudget, RowIsOurs, SigsAreSent, SigFollowsChain,
                      CompletedIsPaid, Busy
  <2> QED
    BY <2>3, <2>4
<1>11. CASE CommitBurn
  <2>1. /\ pc = "complete" /\ cur \in Ids /\ txSig[cur] = sends[cur]
        /\ status[cur] = "processing" /\ <<cur, sends[cur]>> \in landed
    BY <1>11 DEF CommitBurn, TypeOK, Busy, RowIsOurs, SigFollowsChain
  <2>2. /\ \/ /\ status' = [status EXCEPT ![cur] = "completed"]
              /\ shares' = [shares EXCEPT ![owner[cur]] = @ - burned[cur]]
              /\ pc' = "next"
           \/ UNCHANGED <<status, shares>> /\ pc' = "catch"
        /\ txSig' = txSig
        /\ UNCHANGED <<owner, burned, stops, sends, mempool, landed, batch, cur, tries, oracle>>
    <3>1. [txSig EXCEPT ![cur] = sends[cur]] = txSig
      BY <2>1 DEF TypeOK
    <3> QED
      BY <1>11, <3>1 DEF CommitBurn, CompleteWithdrawal, SetStatus
  <2>3. shares' \in [Users -> Int]
    <3>1. \A a \in Amounts : a \in Int
      BY WithdrawalsAssumption
    <3>2. burned[cur] \in Int
      <4>1. burned[cur] \in Amounts \cup {0}
        BY <2>1 DEF TypeOK
      <4>2. CASE burned[cur] = 0
        BY <4>2
      <4>3. CASE burned[cur] \in Amounts
        BY <3>1, <4>3
      <4> QED
        BY <4>1, <4>2, <4>3
    <3>3. shares \in [Users -> Int]
      BY DEF TypeOK
    <3>4. [shares EXCEPT ![owner[cur]] = @ - burned[cur]] \in [Users -> Int]
      BY <3>2, <3>3, BurnTyped
    <3> QED
      BY <2>2, <3>3, <3>4
  <2>4. TypeOK'
    BY <2>1, <2>2, <2>3 DEF TypeOK, Busy
  <2>5. Rest'
    BY <2>1, <2>2 DEF TypeOK, RetryBudget, RowIsOurs, SigsAreSent, SigFollowsChain,
                      CompletedIsPaid, Busy
  <2> QED
    BY <2>4, <2>5
<1>12. CASE DrainCatch
  <2>1. cur \in Ids /\ status[cur] = "processing" /\ tries = 0 /\ pc = "catch"
    BY <1>12 DEF DrainCatch, TypeOK, Busy, RowIsOurs, RetryBudget
  <2>2. UNCHANGED <<owner, burned, txSig, shares, stops, sends, mempool, landed>>
    BY <1>12 DEF DrainCatch
  <2>3. \/ /\ \/ UNCHANGED status
              \/ txSig[cur] = NoSig /\ status' = [status EXCEPT ![cur] = "failed"]
           /\ pc' = "next" /\ UNCHANGED <<batch, cur, tries, oracle>>
        \/ AbortDrain /\ UNCHANGED status
    BY <1>12 DEF DrainCatch, FailWithdrawal, SetStatus
  <2>4. TypeOK'
    BY <1>z, <2>1, <2>2, <2>3 DEF TypeOK, Busy, AbortDrain
  <2>5. Rest'
    BY <2>1, <2>2, <2>3 DEF TypeOK, RetryBudget, RowIsOurs, SigsAreSent, SigFollowsChain,
                            CompletedIsPaid, Busy, AbortDrain
  <2> QED
    BY <2>4, <2>5
<1> QED
  BY <1>1, <1>2, <1>3, <1>4, <1>5, <1>6, <1>7, <1>8, <1>9, <1>10, <1>11, <1>12
     DEF ExecutorStep

\* A step of the whole system, or a stuttering step, preserves the invariant.
LEMMA SafeStep == SafeInv /\ [Next]_vars => SafeInv'
<1> SUFFICES ASSUME SafeInv, [Next]_vars PROVE SafeInv'
  OBVIOUS
<1>1. CASE ExecutorStep
  BY <1>1, SafeExecutor
<1>2. CASE HandlerStep
  BY <1>2, SafeHandler
<1>3. CASE ChainStep
  BY <1>3, SafeChain
<1>4. CASE PriceArrives
  BY <1>4 DEF PriceArrives, store, wire, SafeInv, TypeOK, RetryBudget, RowIsOurs, SigsAreSent,
              SigFollowsChain, CompletedIsPaid, Busy
<1>5. CASE Crash
  <2>1. 0 \in 0..SubmitRetries
    BY WithdrawalsAssumption
  <2> QED
    BY <1>5, <2>1 DEF Crash, store, wire, SafeInv, TypeOK, RetryBudget, RowIsOurs, SigsAreSent,
                      SigFollowsChain, CompletedIsPaid, Busy
<1>6. CASE UNCHANGED vars
  BY <1>6 DEF vars, SafeInv, TypeOK, RetryBudget, RowIsOurs, SigsAreSent, SigFollowsChain,
              CompletedIsPaid, Busy
<1> QED
  BY <1>1, <1>2, <1>3, <1>4, <1>5, <1>6 DEF Next

LEMMA SafeAlways == Spec => []SafeInv
  BY SafeInit, SafeStep, PTL DEF Spec

\* Every handler, step of drain(), crash and fault keeps the types.
THEOREM TypeCorrect == Spec => []TypeOK
<1>1. SafeInv => TypeOK
  BY DEF SafeInv
<1> QED
  BY <1>1, SafeAlways, PTL

\* processOne() never loses its row: between taking it and settling it nothing
\* else -- /forceprocess, a second drain, a restart -- settles or requeues it.
THEOREM ExecutorKeepsItsRow == Spec => []RowIsOurs
<1>1. SafeInv => RowIsOurs
  BY DEF SafeInv
<1> QED
  BY <1>1, SafeAlways, PTL

\* Under every fault -- lost answers, failing writes, crashes -- a row that
\* markWithdrawalCompleted has closed is paid on chain.
THEOREM CompletedWasPaid == Spec => []CompletedIsPaid
<1>1. SafeInv => CompletedIsPaid
  BY DEF SafeInv
<1> QED
  BY <1>1, SafeAlways, PTL

-----------------------------------------------------------------------------
\* A recorded tx_sig freezes its row: markWithdrawalSent's guard, the catch of
\* drain() and the guard of /forceprocess together, under every fault.
THEOREM SentRowsAreFrozen == Spec => SentIsFrozen
<1>1. ASSUME SafeInv, [Next]_vars
      PROVE  [FreezeSent]_vars
  <2> SUFFICES ASSUME Next PROVE FreezeSent
    BY <1>1
  <2> USE <1>1 DEF SafeInv, store, wire, exec, FreezeSent
  <2>1. CASE HandlerStep
    <3>1. CASE \E u \in Users, a \in Amounts : DoWithdraw(u, a)
      BY <3>1 DEF DoWithdraw, SetStatus, TypeOK, SigFollowsChain
    <3>2. CASE \E id \in Ids : HandleForceProcess(id)
      BY <3>2 DEF HandleForceProcess, Requeueable, SetStatus, TypeOK
    <3>3. CASE \E f \in StopFlags : RaiseStop(f) \/ ClearStop(f)
      BY <3>3 DEF RaiseStop, ClearStop
    <3> QED
      BY <2>1, <3>1, <3>2, <3>3 DEF HandlerStep
  <2>2. CASE ChainStep \/ PriceArrives \/ Crash
    BY <2>2 DEF ChainStep, Land, Expire, PriceArrives, Crash
  <2>3. CASE ExecutorStep
    <3>1. CASE StartDrain \/ EndDrain \/ ReadBalances \/ TransferConfirmed
      BY <3>1 DEF StartDrain, EndDrain, ReadBalances, TransferConfirmed
    <3>2. CASE TakeNext
      BY <3>2 DEF TakeNext, SetWithdrawalProcessing, AbortDrain, TypeOK, RowIsOurs, SigFollowsChain
    <3>3. CASE CheckMid \/ PartialClose \/ AttemptThrows
      BY <3>3 DEF CheckMid, PartialClose, AttemptThrows, FailAndReturn, FailWithdrawal, SetStatus,
                  TypeOK, SigFollowsChain
    <3>4. CASE SendTransfer
      BY <3>4 DEF SendTransfer, TypeOK, SigFollowsChain
    <3>5. CASE RecordSig
      BY <3>5 DEF RecordSig, MarkWithdrawalSent, TypeOK
    <3>6. CASE CommitBurn
      BY <3>6 DEF CommitBurn, CompleteWithdrawal, SetStatus, TypeOK, SigFollowsChain
    <3>7. CASE DrainCatch
      BY <3>7 DEF DrainCatch, FailWithdrawal, SetStatus, AbortDrain, TypeOK
    <3> QED
      BY <2>3, <3>1, <3>2, <3>3, <3>4, <3>5, <3>6, <3>7 DEF ExecutorStep
  <2> QED
    BY <2>1, <2>2, <2>3 DEF Next
<1> QED
  BY <1>1, SafeInit, SafeStep, PTL DEF Spec, SentIsFrozen

-----------------------------------------------------------------------------
(* Conservation of shares. Only the completion transaction touches closed   *)
(* rows or balances, and what it burns is what its row adds to the sum.     *)

ClosedKept ==
  /\ shares' = shares
  /\ \A id \in Ids :
       /\ status'[id] = "completed" <=> status[id] = "completed"
       /\ status[id] = "completed" => owner'[id] = owner[id] /\ burned'[id] = burned[id]

RowCloses ==
  /\ CompleteWithdrawal(cur, sends[cur]) /\ UNCHANGED <<owner, burned>>
  /\ cur \in Ids /\ status[cur] = "processing"

LEMMA ClosedOrCloses == SafeInv /\ [Next]_vars => ClosedKept \/ RowCloses
<1> SUFFICES ASSUME SafeInv, [Next]_vars PROVE ClosedKept \/ RowCloses
  OBVIOUS
<1> USE DEF SafeInv, store, ClosedKept
<1>1. CASE HandlerStep
  <2>1. CASE \E u \in Users, a \in Amounts : DoWithdraw(u, a)
    BY <2>1 DEF DoWithdraw, SetStatus, TypeOK
  <2>2. CASE \E id \in Ids : HandleForceProcess(id)
    BY <2>2 DEF HandleForceProcess, Requeueable, SetStatus, TypeOK
  <2>3. CASE \E f \in StopFlags : RaiseStop(f) \/ ClearStop(f)
    BY <2>3 DEF RaiseStop, ClearStop
  <2> QED
    BY <1>1, <2>1, <2>2, <2>3 DEF HandlerStep
<1>2. CASE ChainStep \/ PriceArrives \/ Crash \/ UNCHANGED vars
  BY <1>2 DEF ChainStep, Land, Expire, PriceArrives, Crash, vars
<1>3. CASE ExecutorStep
  <2>1. CASE StartDrain \/ EndDrain \/ ReadBalances \/ TransferConfirmed \/ SendTransfer \/ RecordSig
    BY <2>1 DEF StartDrain, EndDrain, ReadBalances, TransferConfirmed, SendTransfer, RecordSig
  <2>2. CASE TakeNext
    BY <2>2 DEF TakeNext, SetWithdrawalProcessing, TypeOK
  <2>3. CASE CheckMid \/ PartialClose \/ AttemptThrows
    BY <2>3 DEF CheckMid, PartialClose, AttemptThrows, FailAndReturn, FailWithdrawal, SetStatus,
                TypeOK, RowIsOurs, Busy
  <2>4. CASE CommitBurn
    BY <2>4 DEF CommitBurn, RowCloses, TypeOK, RowIsOurs, Busy
  <2>5. CASE DrainCatch
    BY <2>5 DEF DrainCatch, FailWithdrawal, SetStatus, TypeOK, RowIsOurs, Busy
  <2> QED
    BY <1>3, <2>1, <2>2, <2>3, <2>4, <2>5 DEF ExecutorStep
<1> QED
  BY <1>1, <1>2, <1>3 DEF Next

LEMMA CompletedSum ==
  ASSUME TypeOK, NEW u
  PROVE  /\ IsFiniteSet(CompletedOf(u)) /\ CompletedOf(u) \subseteq Ids
         /\ \A id \in Ids : burned[id] \in Int
         /\ SumFunctionOnSet(burned, CompletedOf(u)) \in Int
<1>1. IsFiniteSet(Ids)
  BY WithdrawalsAssumption, FS_Interval
<1>2. CompletedOf(u) \subseteq Ids
  BY DEF CompletedOf
<1>3. IsFiniteSet(CompletedOf(u))
  BY <1>1, <1>2, FS_Subset
<1>4. \A id \in Ids : burned[id] \in Int
  <2>1. \A a \in Amounts \cup {0} : a \in Int
    BY WithdrawalsAssumption
  <2> QED
    BY <2>1 DEF TypeOK
<1>5. \A id \in CompletedOf(u) : burned[id] \in Int
  BY <1>2, <1>4
<1>6. SumFunctionOnSet(burned, CompletedOf(u)) \in Int
  BY <1>3, <1>5, SumIsNumber
<1> QED
  BY <1>2, <1>3, <1>4, <1>6

LEMMA SharesStep == SafeInv /\ SharesMatchCompleted /\ [Next]_vars => SharesMatchCompleted'
<1> SUFFICES ASSUME SafeInv, SharesMatchCompleted, [Next]_vars, NEW u \in Users
             PROVE  shares'[u] = InitialShares - SumFunctionOnSet(burned', CompletedOf(u)')
  BY DEF SharesMatchCompleted
<1>0. shares[u] = InitialShares - SumFunctionOnSet(burned, CompletedOf(u))
  BY DEF SharesMatchCompleted
<1>1. TypeOK
  BY DEF SafeInv
<1>2. CASE ClosedKept
  <2>1. CompletedOf(u)' = CompletedOf(u)
    BY <1>2 DEF ClosedKept, CompletedOf
  <2>2. \A id \in CompletedOf(u) : burned[id] = burned'[id]
    BY <1>2 DEF ClosedKept, CompletedOf
  <2>3. SumFunctionOnSet(burned, CompletedOf(u)) = SumFunctionOnSet(burned', CompletedOf(u))
    BY <1>1, <2>2, CompletedSum, SumDepends
  <2> QED
    BY <1>0, <1>2, <2>1, <2>3 DEF ClosedKept
<1>3. CASE RowCloses
  <2>1. /\ burned' = burned /\ owner' = owner /\ cur \in Ids /\ burned[cur] \in Int
        /\ cur \notin CompletedOf(u)
    BY <1>1, <1>3, CompletedSum DEF RowCloses, CompletedOf
  <2>2. CASE owner[cur] = u
    <3>1. CompletedOf(u)' = CompletedOf(u) \cup {cur}
      BY <1>1, <1>3, <2>1, <2>2 DEF RowCloses, CompleteWithdrawal, SetStatus, CompletedOf, TypeOK
    <3>2. shares'[u] = shares[u] - burned[cur]
      BY <1>1, <1>3, <2>2 DEF RowCloses, CompleteWithdrawal, TypeOK
    <3>3. \A id \in CompletedOf(u) \cup {cur} : burned[id] \in Int
      BY <1>1, <2>1, CompletedSum
    <3>4. SumFunctionOnSet(burned, CompletedOf(u) \cup {cur})
            = SumFunctionOnSet(burned, CompletedOf(u)) + burned[cur]
      BY <1>1, <2>1, <3>3, CompletedSum, SumAdds
    <3>5. SumFunctionOnSet(burned, CompletedOf(u)) \in Int
      BY <1>1, CompletedSum
    <3> QED
      BY <1>0, <2>1, <3>1, <3>2, <3>4, <3>5, WithdrawalsAssumption
  <2>3. CASE owner[cur] # u
    <3>1. CompletedOf(u)' = CompletedOf(u)
      BY <1>1, <1>3, <2>1, <2>3 DEF RowCloses, CompleteWithdrawal, SetStatus, CompletedOf, TypeOK
    <3>2. shares'[u] = shares[u]
      BY <1>1, <1>3, <2>3 DEF RowCloses, CompleteWithdrawal, TypeOK
    <3> QED
      BY <1>0, <2>1, <3>1, <3>2
  <2> QED
    BY <2>2, <2>3
<1> QED
  BY <1>2, <1>3, ClosedOrCloses

LEMMA SharesInit == Init => SharesMatchCompleted
<1> SUFFICES ASSUME Init, NEW u \in Users
             PROVE  shares[u] = InitialShares - SumFunctionOnSet(burned, CompletedOf(u))
  BY DEF SharesMatchCompleted
<1>1. CompletedOf(u) = {}
  BY DEF Init, CompletedOf
<1>2. shares[u] = InitialShares
  BY DEF Init
<1> QED
  BY <1>1, <1>2, SumOfNone, WithdrawalsAssumption

\* Under every fault a balance is what the user started with minus what his
\* completed rows burn: no crash, failed write or retry burns twice, burns for
\* a row that stays open, or completes a row without its burn.
THEOREM SharesConserved == Spec => []SharesMatchCompleted
  BY SharesInit, SharesStep, SafeInit, SafeStep, PTL DEF Spec

-----------------------------------------------------------------------------
(* Truthful answers and a working database. *)

Exact == ~LostAnswers /\ ~DbFaults

\* Before its transfer is sent, and when drain() catches an exception, the row
\* at hand has no transaction; while it is confirmed, only the latest one.
OnlyLatestAlive ==
  /\ pc \in {"priced", "funding", "closing", "sending", "catch"} => Alive(cur) = {}
  /\ pc = "confirming" => Alive(cur) \subseteq {<<cur, sends[cur]>>}

\* No row ever has two transactions that are, or may come, on chain.
OneAlive ==
  \A t1, t2 \in mempool \cup landed : t1[1] = t2[1] => t1 = t2

ExactInv == FailedIsUnpaid /\ OnlyLatestAlive /\ OneAlive

\* Every step preserves ExactInv when Exact holds.
LEMMA ExactStep == Exact /\ SafeInv /\ ExactInv /\ [Next]_vars => ExactInv'
<1> SUFFICES ASSUME Exact, SafeInv, ExactInv, [Next]_vars PROVE ExactInv'
  OBVIOUS
<1> USE DEF SafeInv, ExactInv, store, wire, exec
\* A step that adds no transaction and moves no row to an unpaid status.
<1>q. ASSUME mempool' \cup landed' \subseteq mempool \cup landed,
             UNCHANGED sends,
             \A id \in Ids : status'[id] \in {"none", "queued", "failed"} => Alive(id) = {},
             \/ UNCHANGED <<pc, cur>>
             \/ pc' \in {"idle", "next", "mark", "complete"}
             \/ Alive(cur') = {}
      PROVE  ExactInv'
  BY <1>q DEF FailedIsUnpaid, OnlyLatestAlive, OneAlive, Alive
<1>1. CASE HandlerStep
  <2>1. /\ UNCHANGED <<sends, mempool, landed, pc, cur>>
        /\ \A id \in Ids : status'[id] \in {"none", "queued", "failed"} =>
              status[id] \in {"none", "queued", "failed"}
    BY <1>1 DEF HandlerStep, DoWithdraw, HandleForceProcess, Requeueable, RaiseStop, ClearStop,
                SetStatus, TypeOK
  <2> QED
    BY <1>q, <2>1 DEF FailedIsUnpaid
<1>2. CASE ChainStep
  BY <1>2, <1>q DEF ChainStep, Land, Expire, FailedIsUnpaid
<1>3. CASE PriceArrives \/ Crash \/ UNCHANGED vars
  BY <1>3, <1>q DEF PriceArrives, Crash, vars, FailedIsUnpaid
<1>4. CASE ExecutorStep
  <2>f. ASSUME FailAndReturn, Busy, Alive(cur) = {}, UNCHANGED wire
        PROVE  ExactInv'
    <3>1. status' = [status EXCEPT ![cur] = "failed"] /\ pc' = "next"
      BY <2>f DEF FailAndReturn, FailWithdrawal, SetStatus, Exact
    <3>2. \A id \in Ids : status'[id] \in {"none", "queued", "failed"} => Alive(id) = {}
      BY <2>f, <3>1 DEF FailedIsUnpaid, TypeOK
    <3> QED
      BY <1>q, <2>f, <3>1, <3>2
  <2>1. CASE StartDrain \/ EndDrain
    BY <2>1, <1>q DEF StartDrain, EndDrain, FailedIsUnpaid
  <2>2. CASE TakeNext
    <3>1. PICK id \in batch :
            /\ SetWithdrawalProcessing(id)
            /\ pc' = "priced" /\ batch' = batch \ {id} /\ cur' = id
      BY <2>2 DEF TakeNext, Exact
    <3>2. id \in Ids /\ Alive(id) = {}
      BY DEF TypeOK, RowIsOurs, FailedIsUnpaid
    <3>3. \A j \in Ids : status'[j] \in {"none", "queued", "failed"} =>
             status[j] \in {"none", "queued", "failed"}
      BY <3>1, <3>2 DEF SetWithdrawalProcessing, TypeOK
    <3> QED
      BY <2>2, <1>q, <3>1, <3>2, <3>3 DEF TakeNext, FailedIsUnpaid
  <2>3. CASE CheckMid
    <3>1. Busy /\ Alive(cur) = {}
      BY <2>3 DEF CheckMid, Busy, OnlyLatestAlive
    <3> QED
      BY <2>3, <3>1, <2>f, <1>q DEF CheckMid, FailedIsUnpaid
  <2>4. CASE ReadBalances
    <3>1. Alive(cur) = {}
      BY <2>4 DEF ReadBalances, OnlyLatestAlive
    <3> QED
      BY <2>4, <3>1, <1>q DEF ReadBalances, FailedIsUnpaid
  <2>5. CASE PartialClose
    <3>1. Busy /\ Alive(cur) = {}
      BY <2>5 DEF PartialClose, Busy, OnlyLatestAlive
    <3> QED
      BY <2>5, <3>1, <2>f, <1>q DEF PartialClose, FailedIsUnpaid
  <2>6. CASE SendTransfer
    <3> DEFINE t == <<cur, sends[cur] + 1>>
    <3>1. /\ pc = "sending" /\ pc' = "confirming"
          /\ mempool' = mempool \cup {t}
          /\ sends' = [sends EXCEPT ![cur] = sends[cur] + 1]
          /\ UNCHANGED <<landed, status, cur>>
      BY <2>6 DEF SendTransfer
    <3>2. cur \in Ids /\ Alive(cur) = {} /\ status[cur] = "processing"
      BY <3>1 DEF TypeOK, Busy, OnlyLatestAlive, RowIsOurs
    <3>3. t[1] = cur /\ sends'[cur] = sends[cur] + 1
      BY <3>1, <3>2 DEF TypeOK
    <3>4. FailedIsUnpaid'
      BY <3>1, <3>2, <3>3 DEF FailedIsUnpaid, Alive
    <3>5. OnlyLatestAlive'
      BY <3>1, <3>2, <3>3 DEF OnlyLatestAlive, Alive
    <3>6. OneAlive'
      BY <3>1, <3>2, <3>3 DEF OneAlive, Alive
    <3> QED
      BY <3>4, <3>5, <3>6
  <2>7. CASE TransferConfirmed
    BY <2>7, <1>q DEF TransferConfirmed, FailedIsUnpaid
  <2>8. CASE AttemptThrows
    <3>1. Busy /\ Alive(cur) = {}
      BY <2>8 DEF AttemptThrows, Busy, OnlyLatestAlive, Alive, Exact
    <3> QED
      BY <2>8, <3>1, <2>f, <1>q DEF AttemptThrows, FailedIsUnpaid
  <2>9. CASE RecordSig
    BY <2>9, <1>q DEF RecordSig, FailedIsUnpaid, Exact
  <2>10. CASE CommitBurn
    <3>1. status' = [status EXCEPT ![cur] = "completed"] /\ pc' = "next" /\ UNCHANGED wire
      BY <2>10 DEF CommitBurn, CompleteWithdrawal, SetStatus, Exact
    <3> QED
      BY <3>1, <1>q DEF FailedIsUnpaid, TypeOK
  <2>11. CASE DrainCatch
    <3>1. cur \in Ids /\ Alive(cur) = {}
      BY <2>11 DEF DrainCatch, OnlyLatestAlive, TypeOK, Busy
    <3>2. /\ UNCHANGED wire /\ pc' = "next"
          /\ \A id \in Ids : status'[id] \in {"none", "queued", "failed"} => Alive(id) = {}
      BY <2>11, <3>1 DEF DrainCatch, Exact, FailWithdrawal, SetStatus, FailedIsUnpaid, TypeOK
    <3> QED
      BY <3>2, <1>q
  <2> QED
    BY <1>4, <2>1, <2>2, <2>3, <2>4, <2>5, <2>6, <2>7, <2>8, <2>9, <2>10, <2>11
       DEF ExecutorStep
<1> QED
  BY <1>1, <1>2, <1>3, <1>4 DEF Next

\* Nothing has been requested or sent in the initial state.
LEMMA ExactInit == Init => ExactInv
BY DEF Init, ExactInv, FailedIsUnpaid, OnlyLatestAlive, OneAlive, Alive

LEMMA ExactAlways == Exact => (Spec => []ExactInv)
<1> SUFFICES ASSUME Exact PROVE Spec => []ExactInv
  OBVIOUS
<1>1. SafeInv /\ ExactInv /\ [Next]_vars => ExactInv'
  BY ExactStep
<1> QED
  BY <1>1, SafeAlways, ExactInit, PTL DEF Spec

\* The double-pay guard: with truthful answers and a working database, no
\* interleaving of drains, /forceprocess and crashes pays a withdrawal twice.
THEOREM DoublePayGuard == Exact => (Spec => []PaidAtMostOnce)
<1> SUFFICES ASSUME Exact PROVE Spec => []PaidAtMostOnce
  OBVIOUS
<1>1. ExactInv => PaidAtMostOnce
  BY DEF ExactInv, OneAlive, PaidAtMostOnce
<1>2. Spec => []ExactInv
  BY ExactAlways
<1> QED
  BY <1>1, <1>2, PTL

\* Under the same conditions a row that is queued or failed, which
\* /forceprocess or the next drain() may send again, has not been paid.
THEOREM FailedWasNotPaid == Exact => (Spec => []FailedIsUnpaid)
<1> SUFFICES ASSUME Exact PROVE Spec => []FailedIsUnpaid
  OBVIOUS
<1>1. ExactInv => FailedIsUnpaid
  BY DEF ExactInv
<1>2. Spec => []ExactInv
  BY ExactAlways
<1> QED
  BY <1>1, <1>2, PTL

-----------------------------------------------------------------------------
(* The queue implements PayoutLedger. *)

\* A step that keeps the transfers, the request data and the balances, and moves
\* rows only among queued, processing and failed, is invisible in the ledger.
LEMMA LedgerStutter ==
  ASSUME TypeOK, TypeOK', UNCHANGED <<landed, owner, burned, shares>>,
         \A id \in Ids : \/ status'[id] = status[id]
                         \/ /\ status[id] \in {"queued", "processing", "failed"}
                            /\ status'[id] \in {"queued", "processing", "failed"}
  PROVE  UNCHANGED Ledger!vars
<1>1. Phase' = Phase
  BY DEF Phase, Paid, TypeOK
<1> QED
  BY <1>1 DEF Ledger!vars

\* Each step of the queue is a step of the ledger or leaves it unchanged.
LEMMA LedgerStep ==
  ASSUME Exact, SafeInv, SafeInv', ExactInv, [Next]_vars
  PROVE  [Ledger!Next]_(Ledger!vars)
<1> USE DEF SafeInv, ExactInv, store, wire, exec
<1>1. ASSUME NEW u \in Users, NEW a \in Amounts, DoWithdraw(u, a)
      PROVE  Ledger!Next
  <2>1. PICK id \in Ids :
          /\ status[id] = "none"
          /\ status' = [status EXCEPT ![id] = "queued"]
          /\ owner' = [owner EXCEPT ![id] = u]
          /\ burned' = [burned EXCEPT ![id] = a]
    BY <1>1 DEF DoWithdraw, SetStatus
  <2>2. UNCHANGED <<landed, shares>>
    BY <1>1 DEF DoWithdraw
  <2>3. ~Paid(id)
    BY <2>1 DEF FailedIsUnpaid, Alive, Paid
  <2>s. /\ status'[id] = "queued"
        /\ \A j \in Ids : j # id => status'[j] = status[j]
    BY <2>1 DEF TypeOK
  <2>p. \A j \in Ids : Paid(j)' = Paid(j)
    BY <2>2 DEF Paid
  <2>4. Phase[id] = "absent" /\ Phase' = [Phase EXCEPT ![id] = "open"]
    BY <2>1, <2>s, <2>p, <2>3 DEF Phase
  <2>5. Ledger!Request(id, u, a)
    BY <2>1, <2>2, <2>4 DEF Ledger!Request
  <2> QED
    BY <2>5 DEF Ledger!Next
<1>2. ASSUME NEW tx \in mempool, Land(tx)
      PROVE  Ledger!Next
  <2> DEFINE id == tx[1]
  <2>1. id \in Ids /\ tx \notin landed
    BY DEF TypeOK, SigsAreSent
  <2>2. landed' = landed \cup {tx} /\ UNCHANGED <<status, owner, burned, shares>>
    BY <1>2 DEF Land
  <2>3. ~Paid(id)
    BY <2>1 DEF Paid, OneAlive
  <2>4. status[id] # "none" /\ status[id] # "completed"
    <3>1. tx \in Alive(id)
      BY DEF Alive
    <3>2. status[id] # "none"
      BY <2>1, <3>1 DEF FailedIsUnpaid
    <3>3. status[id] # "completed"
      BY <2>1, <2>3 DEF CompletedIsPaid, Paid
    <3> QED
      BY <3>2, <3>3
  <2>5. Phase[id] = "open" /\ Phase' = [Phase EXCEPT ![id] = "paid"]
    BY <2>1, <2>2, <2>3, <2>4 DEF Phase, Paid
  <2>6. Ledger!Pay(id)
    BY <2>2, <2>5 DEF Ledger!Pay
  <2> QED
    BY <2>1, <2>6 DEF Ledger!Next
<1>3. ASSUME CommitBurn
      PROVE  Ledger!Next
  <2>1. /\ status' = [status EXCEPT ![cur] = "completed"]
        /\ shares' = [shares EXCEPT ![owner[cur]] = @ - burned[cur]]
        /\ UNCHANGED <<owner, burned, landed>>
    BY <1>3 DEF CommitBurn, CompleteWithdrawal, SetStatus, Exact
  <2>2. cur \in Ids /\ status[cur] = "processing" /\ <<cur, sends[cur]>> \in landed
    BY <1>3 DEF CommitBurn, TypeOK, Busy, RowIsOurs, SigFollowsChain
  <2>3. Paid(cur)
    BY <2>2 DEF Paid
  <2>4. Phase[cur] = "paid" /\ Phase' = [Phase EXCEPT ![cur] = "settled"]
    BY <2>1, <2>2, <2>3 DEF Phase, Paid, TypeOK
  <2>5. Ledger!Settle(cur)
    BY <2>1, <2>4 DEF Ledger!Settle
  <2> QED
    BY <2>2, <2>5 DEF Ledger!Next
<1>4. CASE \E id \in Ids : HandleForceProcess(id)
  BY <1>4, LedgerStutter DEF HandleForceProcess, Requeueable, SetStatus, TypeOK
<1>5. CASE \/ \E f \in StopFlags : RaiseStop(f) \/ ClearStop(f)
           \/ \E tx \in mempool : Expire(tx)
           \/ PriceArrives \/ Crash \/ UNCHANGED vars
  BY <1>5, LedgerStutter DEF RaiseStop, ClearStop, Expire, PriceArrives, Crash, vars
<1>6. CASE StartDrain \/ EndDrain \/ ReadBalances \/ SendTransfer \/ TransferConfirmed \/ RecordSig
  BY <1>6, LedgerStutter DEF StartDrain, EndDrain, ReadBalances, SendTransfer, TransferConfirmed,
                             RecordSig
<1>7. CASE TakeNext
  BY <1>7, LedgerStutter DEF TakeNext, SetWithdrawalProcessing, Exact, TypeOK
<1>8. CASE CheckMid \/ PartialClose \/ AttemptThrows \/ DrainCatch
  <2>1. cur \in Ids /\ status[cur] = "processing"
    BY <1>8 DEF CheckMid, PartialClose, AttemptThrows, DrainCatch, Busy, TypeOK, RowIsOurs
  <2>2. /\ UNCHANGED <<landed, owner, burned, shares>>
        /\ UNCHANGED status \/ status' = [status EXCEPT ![cur] = "failed"]
    BY <1>8 DEF CheckMid, PartialClose, AttemptThrows, DrainCatch, FailAndReturn, FailWithdrawal,
                SetStatus
  <2> QED
    BY <2>1, <2>2, LedgerStutter DEF TypeOK
<1> QED
  BY <1>1, <1>2, <1>3, <1>4, <1>5, <1>6, <1>7, <1>8 DEF Next, HandlerStep, ChainStep, ExecutorStep

\* With truthful answers and a working database, the queue, the executor and
\* the operator commands implement the payout ledger.
THEOREM LedgerRefinement == Exact => (Spec => ImplementsLedger)
<1> SUFFICES ASSUME Exact PROVE Spec => Ledger!Spec
  BY DEF ImplementsLedger
<1>1. Init => Ledger!Init
  <2> SUFFICES ASSUME Init PROVE Ledger!Init
    OBVIOUS
  <2>0. InitialShares \in Nat
    BY WithdrawalsAssumption
  <2>1. shares \in [Users -> Nat]
    BY <2>0 DEF Init
  <2>2. Phase = [id \in Ids |-> "absent"] /\ landed = {}
    BY DEF Init, Phase
  <2> QED
    BY <2>1, <2>2 DEF Ledger!Init
<1>2. SafeInv /\ ExactInv /\ [Next]_vars => ExactInv'
  BY ExactStep
<1>3. SafeInv /\ SafeInv' /\ ExactInv /\ [Next]_vars => [Ledger!Next]_(Ledger!vars)
  BY LedgerStep
<1> QED
  BY <1>1, <1>2, <1>3, SafeInit, SafeStep, ExactInit, PTL DEF Spec, Ledger!Spec
=============================================================================
