--------------------------- MODULE DepositsProofs ---------------------------
(***************************************************************************)
(* Proofs about module Deposits, for every value of its constants.         *)
(*                                                                         *)
(* SafeInv is inductive whatever faults occur: it follows an inflow from   *)
(* the poll that lists it to the credit.  ExactInv needs a fault-free run  *)
(* and says that only the inflow at hand can be swept and uncredited.      *)
(***************************************************************************)
EXTENDS Deposits, Arithmetic, TLAPS

\* What the watcher, the pipeline and the chain refer to was really sent, and
\* a sweep in flight moves a positive amount.
RefersToMade ==
  /\ \A d \in todo : owner[d] \in Users
  /\ cur # None => owner[cur] \in Users
  /\ out = "pending" => SweepAmount(cur) > 0
  /\ \A d \in Inflows : late[d] > 0 => owner[d] \in Users /\ SweepAmount(d) > 0
  /\ \A d \in Inflows : landed[d] > 0 => owner[d] \in Users

\* deposit_swept is written for, and a credit is attempted for, a deposit whose
\* sweep is on chain.
SweptIsLanded ==
  /\ out = "landed" => landed[cur] > 0
  /\ pc = "credit" => out = "landed"
  /\ \A d \in swept : landed[d] > 0
  /\ recredit # None => recredit \in swept

SafeInv == TypeOK /\ RefersToMade /\ SweptIsLanded /\ CreditedIsSwept

\* The initial state satisfies the invariant.
LEMMA SafeInit == Init => SafeInv
<1> SUFFICES ASSUME Init PROVE SafeInv
  OBVIOUS
<1> USE DEF Init
<1>1. oracle \in BOOLEAN
  BY Zenon
<1>2. Window \in Nat
  BY DepositsAssumption
<1>3. TypeOK
  BY <1>1, <1>2 DEF TypeOK
<1>4. RefersToMade /\ SweptIsLanded /\ CreditedIsSwept
  BY DEF RefersToMade, SweptIsLanded, CreditedIsSwept, None
<1> QED
  BY <1>3, <1>4 DEF SafeInv

\* An inflow carries a natural amount.
LEMMA AmountTyped ==
  ASSUME TypeOK, NEW d \in Inflows
  PROVE  amount[d] \in Nat
<1>1. amount[d] \in Amounts \/ amount[d] = 0
  BY DEF TypeOK
<1>2. \A a \in Amounts : a \in Nat
  BY DepositsAssumption
<1> QED
  BY <1>1, <1>2

\* The sweep of d, when it executes, keeps balances natural and only adds to
\* what has landed.
LEMMA SweepLandsTyped ==
  ASSUME TypeOK, NEW d \in Inflows, owner[d] \in Users, SweepAmount(d) > 0, SweepLands(d)
  PROVE  /\ balance' \in [Users -> Nat] /\ pool' \in Nat /\ newer' \in [Inflows -> 0..Window]
         /\ landed' \in [Inflows -> Nat]
         /\ \A e \in Inflows : landed'[e] = IF e = d THEN landed[e] + 1 ELSE landed[e]
<1>1. Amounts \subseteq Nat /\ Reserve \in Nat /\ Window \in Nat
  BY DepositsAssumption
<1>2. SweepAmount(d) \in Nat
  <2>1. amount[d] \in Nat
    BY AmountTyped
  <2> QED
    BY <2>1, <1>1 DEF SweepAmount
<1> DEFINE a == SweepAmount(d)
<1> HIDE DEF a
<1>3. a \in Nat /\ balance[owner[d]] >= a
  BY <1>2 DEF SweepLands, a
<1>4. balance' = [balance EXCEPT ![owner[d]] = @ - a] /\ pool' = pool + a
  BY DEF SweepLands, a
<1>5. balance[owner[d]] - a \in Nat
  BY <1>3 DEF TypeOK
<1>6. balance' \in [Users -> Nat]
  BY <1>4, <1>5 DEF TypeOK
<1>7. pool' \in Nat
  BY <1>3, <1>4 DEF TypeOK
<1>8. newer' \in [Inflows -> 0..Window]
  BY <1>1 DEF TypeOK, SweepLands, Push
<1>9. landed' = [landed EXCEPT ![d] = @ + 1]
  BY DEF SweepLands
<1> QED
  BY <1>6, <1>7, <1>8, <1>9 DEF TypeOK

\* Abandoning a sweep only counts it as late.
LEMMA AbandonTyped ==
  ASSUME TypeOK, RefersToMade, out = "pending" => cur \in Inflows, Abandon
  PROVE  /\ late' \in [Inflows -> Nat]
         /\ \A d \in Inflows : late'[d] > 0 =>
              \/ late[d] > 0
              \/ d = cur /\ out = "pending"
BY DEF TypeOK, Abandon

\* Every step of the system, or a stuttering step, preserves the invariant.
LEMMA SafeStep == SafeInv /\ [Next]_vars => SafeInv'
<1> SUFFICES ASSUME SafeInv, [Next]_vars PROVE SafeInv'
  OBVIOUS
<1> USE DEF SafeInv, chain, db, proc
<1> DEFINE Rest == RefersToMade /\ SweptIsLanded /\ CreditedIsSwept
<1>0. ASSUME TypeOK', Rest' PROVE SafeInv'
  BY <1>0
<1>z. /\ Amounts \subseteq Nat /\ Reserve \in Nat /\ Window \in Nat
      /\ None \notin Inflows /\ Nobody \notin Users
  BY DepositsAssumption
<1>1. ASSUME NEW d \in Inflows, NEW u \in Users, NEW a \in Amounts, Arrive(d, u, a)
      PROVE SafeInv'
  <2>1. /\ owner[d] \notin Users
        /\ owner' = [owner EXCEPT ![d] = u] /\ amount' = [amount EXCEPT ![d] = a]
        /\ balance' = [balance EXCEPT ![u] = @ + a]
        /\ UNCHANGED <<pool, landed, late, credited, shares, detected, swept,
                       pc, todo, cur, out, recredit, oracle>>
    BY <1>1, <1>z DEF Arrive
  <2>2. balance[u] + a \in Nat
    BY <1>z DEF TypeOK
  <2>3. newer' \in [Inflows -> 0..Window]
    BY <1>1, <1>z DEF Arrive, Push, TypeOK
  <2>4. TypeOK'
    BY <2>1, <2>2, <2>3 DEF TypeOK
  <2>5. \A e \in Inflows : owner[e] \in Users => owner'[e] = owner[e] /\ amount'[e] = amount[e]
    BY <2>1 DEF TypeOK
  <2>6. \A e \in Inflows : owner[e] \in Users => owner'[e] \in Users /\ SweepAmount(e)' = SweepAmount(e)
    BY <2>5 DEF SweepAmount
  <2>c. out = "pending" => cur \in Inflows /\ cur # None
    BY DEF TypeOK
  <2>7. RefersToMade'
    BY <2>1, <2>6, <2>c DEF RefersToMade, TypeOK
  <2>8. SweptIsLanded' /\ CreditedIsSwept'
    BY <2>1 DEF SweptIsLanded, CreditedIsSwept
  <2> QED
    BY <2>4, <2>7, <2>8
<1>2. ASSUME NEW u \in Users, StartPoll(u) PROVE SafeInv'
  <2>1. TypeOK'
    BY <1>2 DEF StartPoll, TypeOK
  <2>2. Rest'
    BY <1>2 DEF StartPoll, RefersToMade, SweptIsLanded, CreditedIsSwept, SweepAmount
  <2> QED
    BY <2>1, <2>2
<1>3. ASSUME NEW d \in Inflows, RecreditCheck(d) PROVE SafeInv'
  <2>1. TypeOK'
    BY <1>3 DEF RecreditCheck, TypeOK
  <2>2. Rest'
    BY <1>3 DEF RecreditCheck, Recreditable, RefersToMade, SweptIsLanded, CreditedIsSwept, SweepAmount
  <2> QED
    BY <2>1, <2>2
<1>m. ASSUME NEW d \in Inflows, landed[d] > 0, CreditDeposit(d) \/ CreditRefused(d)
      PROVE  /\ credited' \subseteq Inflows /\ shares' \in [Users -> Nat]
             /\ \A e \in credited' : e \in credited \/ e = d
  <2>1. owner[d] \in Users
    BY <1>m DEF RefersToMade
  <2>2. amount[d] \in Nat
    BY AmountTyped
  <2>3. shares[owner[d]] + amount[d] \in Nat
    BY <2>1, <2>2 DEF TypeOK
  <2> QED
    BY <1>m, <2>3 DEF CreditDeposit, CreditRefused, TypeOK
<1>4. CASE RecreditCommit
  <2>1. recredit \in Inflows /\ landed[recredit] > 0
    BY <1>4 DEF RecreditCommit, SweptIsLanded, TypeOK
  <2>2. /\ credited' \subseteq Inflows /\ shares' \in [Users -> Nat]
        /\ \A e \in credited' : e \in credited \/ e = recredit
    BY <1>4, <1>m, <2>1 DEF RecreditCommit, TypeOK
  <2>3. TypeOK'
    BY <1>4, <2>2 DEF RecreditCommit, TypeOK
  <2>4. Rest'
    BY <1>4, <2>1, <2>2 DEF RecreditCommit, RefersToMade, SweptIsLanded, CreditedIsSwept, SweepAmount
  <2> QED
    BY <2>3, <2>4
<1>5. CASE EndPoll
  <2>1. TypeOK'
    BY <1>5 DEF EndPoll, TypeOK
  <2>2. Rest'
    BY <1>5 DEF EndPoll, RefersToMade, SweptIsLanded, CreditedIsSwept, SweepAmount
  <2> QED
    BY <2>1, <2>2
<1>6. CASE NextSig
  <2>1. PICK d \in todo :
          /\ todo' = todo \ {d}
          /\ \/ UNCHANGED <<pc, cur>>
             \/ pc' = "fetched" /\ cur' = d
    BY <1>6 DEF NextSig
  <2>2. pc = "scan" /\ UNCHANGED <<chain, db, out, recredit, oracle>>
    BY <1>6 DEF NextSig
  <2>3. d \in Inflows /\ d # None /\ owner[d] \in Users /\ cur = None /\ out = "none"
    BY <2>2, <1>z DEF TypeOK, RefersToMade
  <2>4. TypeOK'
    BY <2>1, <2>2, <2>3 DEF TypeOK
  <2>5. Rest'
    BY <2>1, <2>2, <2>3 DEF RefersToMade, SweptIsLanded, CreditedIsSwept, SweepAmount
  <2> QED
    BY <2>4, <2>5
<1>7. CASE FetchFails
  <2>1. TypeOK'
    BY <1>7 DEF FetchFails, AbortPoll, Scanning, TypeOK
  <2>2. Rest'
    BY <1>7 DEF FetchFails, AbortPoll, Scanning, RefersToMade, SweptIsLanded, CreditedIsSwept, SweepAmount
  <2> QED
    BY <2>1, <2>2
<1>8. CASE OnInflow
  <2>1. cur \in Inflows /\ cur # None
    BY <1>8 DEF OnInflow, TypeOK
  <2>2. TypeOK'
    BY <1>8, <2>1 DEF OnInflow, Scanning, TypeOK
  <2>3. Rest'
    BY <1>8, <2>1 DEF OnInflow, Scanning, RefersToMade, SweptIsLanded, CreditedIsSwept, SweepAmount
  <2> QED
    BY <2>2, <2>3
<1>9. CASE SweepThrows
  <2>1. cur \in Inflows /\ cur # None
    BY <1>9 DEF SweepThrows, TypeOK
  <2>2. /\ late' \in [Inflows -> Nat]
        /\ \A d \in Inflows : late'[d] > 0 => late[d] > 0 \/ (d = cur /\ out = "pending")
    BY <1>9, <2>1, AbandonTyped DEF SweepThrows
  <2>3. TypeOK'
    BY <1>9, <2>2 DEF SweepThrows, Scanning, AbortPoll, TypeOK
  <2>4. Rest'
    BY <1>9, <2>1, <2>2 DEF SweepThrows, Scanning, AbortPoll, RefersToMade, SweptIsLanded, CreditedIsSwept, SweepAmount
  <2> QED
    BY <2>3, <2>4
<1>10. CASE SweepConfirmed
  <2>1. cur \in Inflows /\ cur # None
    BY <1>10 DEF SweepConfirmed, TypeOK
  <2>2. TypeOK'
    BY <1>10, <2>1 DEF SweepConfirmed, AbortPoll, TypeOK
  <2>3. Rest'
    BY <1>10, <2>1 DEF SweepConfirmed, AbortPoll, RefersToMade, SweptIsLanded, CreditedIsSwept, SweepAmount
  <2> QED
    BY <2>2, <2>3
<1>11. CASE Credit
  <2>1. cur \in Inflows /\ cur # None /\ landed[cur] > 0
    BY <1>11 DEF Credit, SweptIsLanded, TypeOK
  <2>2. /\ credited' \subseteq Inflows /\ shares' \in [Users -> Nat]
        /\ \A e \in credited' : e \in credited \/ e = cur
    BY <1>11, <1>m, <2>1 DEF Credit, TypeOK
  <2>3. TypeOK'
    BY <1>11, <2>2 DEF Credit, Scanning, AbortPoll, TypeOK
  <2>4. Rest'
    BY <1>11, <2>1, <2>2 DEF Credit, Scanning, AbortPoll, RefersToMade, SweptIsLanded, CreditedIsSwept, SweepAmount
  <2> QED
    BY <2>3, <2>4
<1>12. CASE Land
  <2>1. cur \in Inflows /\ cur # None /\ owner[cur] \in Users /\ SweepAmount(cur) > 0 /\ SweepLands(cur)
    BY <1>12 DEF Land, TypeOK, RefersToMade
  <2>2. /\ balance' \in [Users -> Nat] /\ pool' \in Nat /\ newer' \in [Inflows -> 0..Window]
        /\ landed' \in [Inflows -> Nat]
        /\ \A e \in Inflows : landed'[e] = IF e = cur THEN landed[e] + 1 ELSE landed[e]
    BY <2>1, SweepLandsTyped
  <2>3. TypeOK'
    BY <1>12, <2>2 DEF Land, TypeOK
  <2>4. \A e \in Inflows : landed[e] > 0 => landed'[e] > 0
    BY <2>2 DEF TypeOK
  <2>5. landed'[cur] > 0
    BY <2>1, <2>2 DEF TypeOK
  <2>6. RefersToMade'
    BY <1>12, <2>1, <2>2 DEF Land, RefersToMade, SweepAmount
  <2>7. SweptIsLanded' /\ CreditedIsSwept'
    BY <1>12, <2>4, <2>5 DEF Land, SweptIsLanded, CreditedIsSwept, TypeOK
  <2> QED
    BY <2>3, <2>6, <2>7
<1>13. CASE Drop
  <2>1. TypeOK'
    BY <1>13 DEF Drop, TypeOK
  <2>2. Rest'
    BY <1>13 DEF Drop, RefersToMade, SweptIsLanded, CreditedIsSwept, SweepAmount, TypeOK
  <2> QED
    BY <2>1, <2>2
<1>14. ASSUME NEW d \in Inflows, LateLand(d) PROVE SafeInv'
  <2>1. owner[d] \in Users /\ SweepAmount(d) > 0 /\ SweepLands(d)
    BY <1>14 DEF LateLand, RefersToMade
  <2>2. /\ balance' \in [Users -> Nat] /\ pool' \in Nat /\ newer' \in [Inflows -> 0..Window]
        /\ landed' \in [Inflows -> Nat]
        /\ \A e \in Inflows : landed'[e] = IF e = d THEN landed[e] + 1 ELSE landed[e]
    BY <2>1, SweepLandsTyped
  <2>3. /\ late' \in [Inflows -> Nat]
        /\ \A e \in Inflows : late'[e] > 0 => late[e] > 0
    BY <1>14 DEF LateLand, TypeOK
  <2>4. TypeOK'
    BY <1>14, <2>2, <2>3 DEF LateLand, TypeOK
  <2>5. \A e \in Inflows : landed[e] > 0 => landed'[e] > 0
    BY <2>2 DEF TypeOK
  <2>6. RefersToMade'
    BY <1>14, <2>1, <2>2, <2>3 DEF LateLand, RefersToMade, SweepAmount
  <2>7. out = "landed" => cur \in Inflows
    BY DEF TypeOK
  <2>8. SweptIsLanded' /\ CreditedIsSwept'
    BY <1>14, <2>5, <2>7 DEF LateLand, SweptIsLanded, CreditedIsSwept, TypeOK
  <2> QED
    BY <2>4, <2>6, <2>8
<1>15. ASSUME NEW d \in Inflows, LateDrop(d) PROVE SafeInv'
  <2>1. /\ late' \in [Inflows -> Nat]
        /\ \A e \in Inflows : late'[e] > 0 => late[e] > 0
    BY <1>15 DEF LateDrop, TypeOK
  <2>2. TypeOK'
    BY <1>15, <2>1 DEF LateDrop, TypeOK
  <2>3. Rest'
    BY <1>15, <2>1 DEF LateDrop, RefersToMade, SweptIsLanded, CreditedIsSwept, SweepAmount
  <2> QED
    BY <2>2, <2>3
<1>16. CASE PriceArrives
  <2>1. oracle' \in BOOLEAN
    BY <1>16, Zenon DEF PriceArrives
  <2>2. TypeOK'
    BY <1>16, <2>1 DEF PriceArrives, TypeOK
  <2>3. Rest'
    BY <1>16 DEF PriceArrives, RefersToMade, SweptIsLanded, CreditedIsSwept, SweepAmount
  <2> QED
    BY <2>2, <2>3
<1>17. CASE Crash
  <2>0. oracle' \in BOOLEAN
    BY <1>17, Zenon DEF Crash
  <2>1. out = "pending" => cur \in Inflows /\ cur # None
    BY DEF TypeOK
  <2>2. /\ late' \in [Inflows -> Nat]
        /\ \A d \in Inflows : late'[d] > 0 => late[d] > 0 \/ (d = cur /\ out = "pending")
    BY <1>17, <2>1, AbandonTyped DEF Crash
  <2>3. TypeOK'
    BY <1>17, <2>0, <2>2 DEF Crash, TypeOK
  <2>4. Rest'
    BY <1>17, <2>1, <2>2 DEF Crash, RefersToMade, SweptIsLanded, CreditedIsSwept, SweepAmount
  <2> QED
    BY <2>3, <2>4
<1>18. CASE UNCHANGED vars
  BY <1>18 DEF vars, TypeOK, RefersToMade, SweptIsLanded, CreditedIsSwept, SweepAmount
<1> QED
  BY <1>1, <1>2, <1>3, <1>4, <1>5, <1>6, <1>7, <1>8, <1>9, <1>10, <1>11, <1>12, <1>13,
     <1>14, <1>15, <1>16, <1>17, <1>18
     DEF Next, PipelineStep, ChainStep

LEMMA SafeAlways == Spec => []SafeInv
  BY SafeInit, SafeStep, PTL DEF Spec

\* Watcher, pipeline, chain, operator commands and crashes keep the types.
THEOREM TypeCorrect == Spec => []TypeOK
<1>1. SafeInv => TypeOK
  BY DEF SafeInv
<1> QED
  BY <1>1, SafeAlways, PTL

\* Under lost answers, failing writes and crashes, CreditEngine mints no share
\* for a deposit whose sweep is not on chain.
THEOREM CreditedWasSwept == Spec => []CreditedIsSwept
<1>1. SafeInv => CreditedIsSwept
  BY DEF SafeInv
<1> QED
  BY <1>1, SafeAlways, PTL

-----------------------------------------------------------------------------
(* Conservation of shares. *)

RowsKept ==
  /\ UNCHANGED <<credited, shares>>
  /\ \A d \in credited : owner'[d] = owner[d] /\ amount'[d] = amount[d]

Mints(d) == CreditDeposit(d) /\ UNCHANGED <<owner, amount>>

\* A step leaves the vault_deposits rows and the balances alone, or mints one
\* deposit that was not credited; a new inflow is no credited one.
LEMMA KeptOrMints ==
  SafeInv /\ [Next]_vars => RowsKept \/ \E d \in Inflows : Mints(d)
<1> SUFFICES ASSUME SafeInv, [Next]_vars PROVE RowsKept \/ \E d \in Inflows : Mints(d)
  OBVIOUS
<1> USE DEF SafeInv, chain, db
<1>1. ASSUME NEW d \in Inflows, NEW u \in Users, NEW a \in Amounts, Arrive(d, u, a)
      PROVE  RowsKept
  <2>1. owner[d] \notin Users
    BY <1>1, DepositsAssumption DEF Arrive
  <2>2. d \notin credited
    BY <2>1 DEF CreditedIsSwept, RefersToMade
  <2> QED
    BY <1>1, <2>2 DEF Arrive, RowsKept, TypeOK
<1>2. CASE Credit
  BY <1>2 DEF Credit, CreditRefused, Mints, RowsKept, TypeOK
<1>3. CASE RecreditCommit
  BY <1>3 DEF RecreditCommit, CreditRefused, Mints, RowsKept, TypeOK
<1>4. CASE \/ \E u \in Users : StartPoll(u)
           \/ \E d \in Inflows : RecreditCheck(d) \/ LateLand(d) \/ LateDrop(d)
           \/ EndPoll \/ NextSig \/ OnInflow \/ SweepThrows \/ SweepConfirmed \/ FetchFails
           \/ Land \/ Drop \/ PriceArrives \/ Crash \/ UNCHANGED vars
  BY <1>4 DEF StartPoll, RecreditCheck, LateLand, LateDrop, EndPoll, NextSig, OnInflow, SweepThrows,
              SweepConfirmed, FetchFails, Land, Drop, PriceArrives, Crash, vars, RowsKept
<1> QED
  BY <1>1, <1>2, <1>3, <1>4 DEF Next, PipelineStep, ChainStep

\* Sums of amounts are numbers.
LEMMA AmountSum ==
  ASSUME TypeOK, NEW D, D \subseteq Inflows
  PROVE  IsFiniteSet(D) /\ (\A d \in D : amount[d] \in Int) /\ SumFunctionOnSet(amount, D) \in Int
<1>1. IsFiniteSet(D)
  BY DepositsAssumption, FS_Subset
<1>2. \A d \in D : amount[d] \in Int
  BY AmountTyped
<1>3. SumFunctionOnSet(amount, D) \in Int
  BY <1>1, <1>2, SumIsNumber
<1> QED
  BY <1>1, <1>2, <1>3

LEMMA MintStep == SafeInv /\ MintedOnce /\ [Next]_vars => MintedOnce'
<1> SUFFICES ASSUME SafeInv, MintedOnce, [Next]_vars, NEW u \in Users
             PROVE  shares'[u] = SumFunctionOnSet(amount', CreditedOf(u)')
  BY DEF MintedOnce
<1>0. shares[u] = SumFunctionOnSet(amount, CreditedOf(u))
  BY DEF MintedOnce
<1>1. TypeOK /\ CreditedOf(u) \subseteq Inflows
  BY DEF SafeInv, TypeOK, CreditedOf
<1>2. /\ IsFiniteSet(CreditedOf(u)) /\ SumFunctionOnSet(amount, CreditedOf(u)) \in Int
      /\ \A d \in CreditedOf(u) : amount[d] \in Int
  BY <1>1, AmountSum
<1>3. CASE RowsKept
  <2>1. CreditedOf(u)' = CreditedOf(u) /\ \A d \in CreditedOf(u) : amount[d] = amount'[d]
    BY <1>3 DEF RowsKept, CreditedOf
  <2>2. SumFunctionOnSet(amount, CreditedOf(u)) = SumFunctionOnSet(amount', CreditedOf(u))
    BY <1>2, <2>1, SumDepends
  <2> QED
    BY <1>0, <1>3, <2>1, <2>2 DEF RowsKept
<1>4. ASSUME NEW d \in Inflows, Mints(d)
      PROVE  shares'[u] = SumFunctionOnSet(amount', CreditedOf(u)')
  <2>1. amount' = amount /\ d \notin CreditedOf(u) /\ amount[d] \in Int
    BY <1>1, <1>4, AmountTyped DEF Mints, CreditDeposit, CreditedOf
  <2>2. CASE owner[d] = u
    <3>1. CreditedOf(u)' = CreditedOf(u) \cup {d} /\ shares'[u] = shares[u] + amount[d]
      BY <1>1, <1>4, <2>2 DEF Mints, CreditDeposit, CreditedOf, TypeOK
    <3>2. \A x \in CreditedOf(u) \cup {d} : amount[x] \in Int
      BY <1>2, <2>1
    <3>3. SumFunctionOnSet(amount, CreditedOf(u) \cup {d})
            = SumFunctionOnSet(amount, CreditedOf(u)) + amount[d]
      BY <1>2, <2>1, <3>2, SumAdds
    <3> QED
      BY <1>0, <2>1, <3>1, <3>3
  <2>3. CASE owner[d] # u
    BY <1>0, <1>1, <1>4, <2>1, <2>3 DEF Mints, CreditDeposit, CreditedOf, TypeOK
  <2> QED
    BY <2>2, <2>3
<1> QED
  BY <1>3, <1>4, KeptOrMints

LEMMA MintInit == Init => MintedOnce
<1> SUFFICES ASSUME Init, NEW u \in Users
             PROVE  shares[u] = SumFunctionOnSet(amount, CreditedOf(u))
  BY DEF MintedOnce
<1>1. CreditedOf(u) = {} /\ shares[u] = 0
  BY DEF Init, CreditedOf
<1> QED
  BY <1>1, SumOfNone

\* Whatever fails, and however the watcher and /recreditdeposit interleave,
\* shares are exactly what the credited deposits carried.
THEOREM SharesAreMinted == Spec => []MintedOnce
  BY MintInit, MintStep, SafeInit, SafeStep, PTL DEF Spec

-----------------------------------------------------------------------------
(* A fault-free run: truthful answers, a working database, no crash. *)

FaultFree == LostAnswers = FALSE /\ DbFaults = FALSE /\ MayCrash = FALSE

\* No sweep is ever given up while it can still land.
NothingLate == \A d \in Inflows : late[d] = 0

\* A deposit that is swept but not credited is the one onInflow() has at hand,
\* and its sweep is the one that landed: the watcher never lists it again.
UncreditedIsAtHand ==
  /\ \A d \in Inflows : landed[d] > 0 /\ d \notin credited => cur = d /\ out = "landed"
  /\ cur # None /\ out # "landed" => landed[cur] = 0

ExactInv == NothingLate /\ UncreditedIsAtHand /\ SweptOnce

\* Every step of a fault-free run preserves ExactInv.
LEMMA ExactStep == FaultFree /\ SafeInv /\ ExactInv /\ [Next]_vars => ExactInv'
<1> SUFFICES ASSUME FaultFree, SafeInv, ExactInv, [Next]_vars PROVE ExactInv'
  OBVIOUS
<1> USE DEF FaultFree, ExactInv, chain, db, proc
<1>t. TypeOK /\ CreditedIsSwept /\ SweptIsLanded
  BY DEF SafeInv
<1>z. None \notin Inflows
  BY DepositsAssumption
<1>1. ASSUME UNCHANGED <<landed, late, credited, cur, out>> PROVE ExactInv'
  BY <1>1 DEF NothingLate, UncreditedIsAtHand, SweptOnce
<1>2. CASE Crash \/ (\E d \in Inflows : LateLand(d) \/ LateDrop(d))
  BY <1>2, <1>t DEF Crash, LateLand, LateDrop, NothingLate, TypeOK
<1>3. CASE NextSig
  <2>1. PICK d \in todo :
          \/ UNCHANGED cur
          \/ d \notin credited /\ cur' = d
    BY <1>3 DEF NextSig
  <2>2. pc = "scan" /\ UNCHANGED <<landed, late, credited, out>>
    BY <1>3 DEF NextSig
  <2>3. cur = None /\ out = "none" /\ d \in Inflows
    BY <1>t, <2>2 DEF TypeOK
  <2>4. d \notin credited => landed[d] = 0
    BY <1>t, <1>z, <2>3 DEF UncreditedIsAtHand, TypeOK
  <2> QED
    BY <2>1, <2>2, <2>3, <2>4 DEF NothingLate, UncreditedIsAtHand, SweptOnce
<1>4. CASE FetchFails \/ OnInflow
  <2>1. /\ cur \in Inflows /\ out = "none"
        /\ UNCHANGED <<landed, late, credited>>
        /\ cur' \in {None, cur} /\ out' \in {"none", "pending"}
    BY <1>4, <1>t DEF FetchFails, OnInflow, Scanning, AbortPoll, TypeOK
  <2>2. landed[cur] = 0
    BY <2>1, <1>z DEF UncreditedIsAtHand
  <2> QED
    BY <2>1, <2>2, <1>t DEF NothingLate, UncreditedIsAtHand, SweptOnce, TypeOK
<1>5. CASE SweepThrows
  <2>1. /\ cur \in Inflows /\ out = "dead" /\ cur' = None
        /\ UNCHANGED <<landed, late, credited>>
    BY <1>5, <1>t DEF SweepThrows, Abandon, Scanning, AbortPoll, TypeOK
  <2>2. landed[cur] = 0
    BY <2>1, <1>z DEF UncreditedIsAtHand
  <2> QED
    BY <2>1, <2>2, <1>t DEF NothingLate, UncreditedIsAtHand, SweptOnce, TypeOK
<1>6. CASE SweepConfirmed
  <2>1. UNCHANGED <<landed, late, credited, cur, out>>
    BY <1>6 DEF SweepConfirmed
  <2> QED
    BY <2>1, <1>1
<1>7. CASE Credit
  <2>1. cur \in Inflows /\ cur' = None /\ credited' = credited \cup {cur} /\ UNCHANGED <<landed, late>>
    BY <1>7, <1>t DEF Credit, CreditDeposit, CreditRefused, Scanning, TypeOK
  <2> QED
    BY <2>1 DEF NothingLate, UncreditedIsAtHand, SweptOnce
<1>8. CASE RecreditCommit
  <2>1. credited \subseteq credited' /\ UNCHANGED <<landed, late, cur, out>>
    BY <1>8 DEF RecreditCommit, CreditDeposit, CreditRefused
  <2> QED
    BY <2>1 DEF NothingLate, UncreditedIsAtHand, SweptOnce
<1>9. CASE Land
  <2>1. /\ cur \in Inflows /\ out = "pending" /\ out' = "landed"
        /\ landed' = [landed EXCEPT ![cur] = @ + 1]
        /\ UNCHANGED <<late, credited, cur>>
    BY <1>9, <1>t DEF Land, SweepLands, TypeOK
  <2>2. landed[cur] = 0
    BY <2>1, <1>z DEF UncreditedIsAtHand
  <2>3. /\ landed'[cur] = 1
        /\ \A d \in Inflows : d # cur => landed'[d] = landed[d]
    BY <2>1, <2>2, <1>t DEF TypeOK
  <2> QED
    BY <2>1, <2>2, <2>3 DEF NothingLate, UncreditedIsAtHand, SweptOnce
<1>10. CASE Drop
  <2>1. out = "pending" /\ out' = "dead" /\ UNCHANGED <<landed, late, credited, cur>>
    BY <1>10 DEF Drop
  <2> QED
    BY <2>1 DEF NothingLate, UncreditedIsAtHand, SweptOnce
<1>11. CASE \/ \E d \in Inflows, u \in Users, a \in Amounts : Arrive(d, u, a)
            \/ \E u \in Users : StartPoll(u)
            \/ \E d \in Inflows : RecreditCheck(d)
            \/ EndPoll \/ PriceArrives \/ UNCHANGED vars
  BY <1>1, <1>11 DEF Arrive, StartPoll, RecreditCheck, EndPoll, PriceArrives, vars
<1> QED
  BY <1>2, <1>3, <1>4, <1>5, <1>6, <1>7, <1>8, <1>9, <1>10, <1>11
     DEF Next, PipelineStep, ChainStep

\* Nothing has been swept in the initial state.
LEMMA ExactInit == Init => ExactInv
BY DEF Init, ExactInv, NothingLate, UncreditedIsAtHand, SweptOnce

\* Without faults, polling, dropped sweeps, retries and /recreditdeposit never
\* sweep a deposit twice.
THEOREM SweptAtMostOnce == FaultFree => (Spec => []SweptOnce)
<1>1. SUFFICES ASSUME FaultFree PROVE Spec => []SweptOnce
  OBVIOUS
<1>2. SafeInv /\ ExactInv /\ [Next]_vars => SafeInv' /\ ExactInv'
  BY <1>1, SafeStep, ExactStep
<1>3. Init => SafeInv /\ ExactInv
  BY SafeInit, ExactInit
<1>4. ExactInv => SweptOnce
  BY DEF ExactInv
<1> QED
  BY <1>2, <1>3, <1>4, PTL DEF Spec

\* A sweep takes no more from its address than its deposit brought there.
LEMMA UnsweptStep ==
  FaultFree /\ SafeInv /\ ExactInv /\ UnsweptIsThere /\ [Next]_vars => UnsweptIsThere'
<1> SUFFICES ASSUME FaultFree, SafeInv, ExactInv, UnsweptIsThere, [Next]_vars, NEW u \in Users
             PROVE  balance'[u] >= SumFunctionOnSet(amount', UnsweptOf(u)')
  BY DEF UnsweptIsThere
<1> DEFINE Goal == balance'[u] >= SumFunctionOnSet(amount', UnsweptOf(u)')
<1>0. balance[u] >= SumFunctionOnSet(amount, UnsweptOf(u))
  BY DEF UnsweptIsThere
<1>1. TypeOK /\ RefersToMade /\ UnsweptOf(u) \subseteq Inflows /\ balance[u] \in Int
  BY DEF SafeInv, TypeOK, UnsweptOf
<1>2. /\ IsFiniteSet(UnsweptOf(u)) /\ SumFunctionOnSet(amount, UnsweptOf(u)) \in Int
      /\ \A d \in UnsweptOf(u) : amount[d] \in Int
  BY <1>1, AmountSum
<1>3. ASSUME UNCHANGED <<owner, amount, balance, landed>> PROVE Goal
  <2>1. UnsweptOf(u)' = UnsweptOf(u)
    BY <1>3 DEF UnsweptOf
  <2> QED
    BY <1>0, <1>3, <2>1
<1>4. ASSUME NEW d \in Inflows, NEW v \in Users, NEW a \in Amounts, Arrive(d, v, a) PROVE Goal
  <2>1. /\ owner' = [owner EXCEPT ![d] = v] /\ amount' = [amount EXCEPT ![d] = a]
        /\ balance' = [balance EXCEPT ![v] = @ + a] /\ landed' = landed
        /\ owner[d] \notin Users /\ a \in Int
    BY <1>4, DepositsAssumption DEF Arrive
  <2>2. d \notin UnsweptOf(u) /\ landed[d] = 0
    BY <1>1, <2>1 DEF UnsweptOf, RefersToMade, TypeOK
  <2>3. \A x \in UnsweptOf(u) : amount[x] = amount'[x]
    BY <1>1, <2>1, <2>2 DEF TypeOK
  <2>4. SumFunctionOnSet(amount, UnsweptOf(u)) = SumFunctionOnSet(amount', UnsweptOf(u))
    BY <1>2, <2>3, SumDepends
  <2>5. CASE v = u
    <3>1. UnsweptOf(u)' = UnsweptOf(u) \cup {d}
      BY <1>1, <2>1, <2>2, <2>5 DEF UnsweptOf, TypeOK
    <3>2. amount'[d] = a /\ balance'[u] = balance[u] + a
      BY <1>1, <2>1, <2>5 DEF TypeOK
    <3>3. \A x \in UnsweptOf(u) \cup {d} : amount'[x] \in Int
      BY <1>2, <2>1, <2>3, <3>2
    <3>4. SumFunctionOnSet(amount', UnsweptOf(u) \cup {d})
            = SumFunctionOnSet(amount', UnsweptOf(u)) + amount'[d]
      BY <1>2, <2>2, <3>3, SumAdds
    <3> QED
      BY <1>0, <1>1, <1>2, <2>1, <2>4, <3>1, <3>2, <3>4
  <2>6. CASE v # u
    <3>1. UnsweptOf(u)' = UnsweptOf(u) /\ balance'[u] = balance[u]
      BY <1>1, <2>1, <2>6 DEF UnsweptOf, TypeOK
    <3> QED
      BY <1>0, <2>4, <3>1
  <2> QED
    BY <2>5, <2>6
<1>5. ASSUME Land PROVE Goal
  <2>1. /\ cur \in Inflows /\ owner[cur] \in Users /\ landed[cur] = 0
        /\ balance' = [balance EXCEPT ![owner[cur]] = @ - (amount[cur] - Reserve)]
        /\ landed' = [landed EXCEPT ![cur] = @ + 1] /\ UNCHANGED <<owner, amount>>
    BY <1>1, <1>5 DEF Land, SweepLands, SweepAmount, TypeOK, RefersToMade, ExactInv, UncreditedIsAtHand
  <2>2. amount[cur] \in Int /\ Reserve \in Nat
    BY <1>1, <2>1, AmountTyped, DepositsAssumption
  <2>3. CASE owner[cur] = u
    <3> DEFINE R == UnsweptOf(u) \ {cur}
    <3>1. UnsweptOf(u)' = R /\ R \cup {cur} = UnsweptOf(u) /\ cur \notin R
      BY <1>1, <2>1, <2>3 DEF UnsweptOf, TypeOK
    <3>2. R \subseteq Inflows
      BY <1>1
    <3> HIDE DEF R
    <3>3. IsFiniteSet(R) /\ SumFunctionOnSet(amount, R) \in Int
      BY <1>1, <3>2, AmountSum
    <3>4. \A x \in R \cup {cur} : amount[x] \in Int
      BY <1>2, <3>1
    <3>5. SumFunctionOnSet(amount, R \cup {cur}) = SumFunctionOnSet(amount, R) + amount[cur]
      BY <3>1, <3>3, <3>4, SumAdds
    <3>6. balance'[u] = balance[u] - (amount[cur] - Reserve)
      BY <1>1, <2>1, <2>3 DEF TypeOK
    <3> QED
      BY <1>0, <1>1, <2>1, <2>2, <3>1, <3>3, <3>5, <3>6
  <2>4. CASE owner[cur] # u
    <3>1. UnsweptOf(u)' = UnsweptOf(u) /\ balance'[u] = balance[u]
      BY <1>1, <2>1, <2>4 DEF UnsweptOf, TypeOK
    <3> QED
      BY <1>0, <2>1, <3>1
  <2> QED
    BY <2>3, <2>4
<1>6. ASSUME NEW d \in Inflows, LateLand(d) PROVE Goal
  BY <1>6 DEF LateLand, ExactInv, NothingLate
<1>7. CASE \/ \E v \in Users : StartPoll(v)
           \/ \E d \in Inflows : RecreditCheck(d) \/ LateDrop(d)
           \/ EndPoll \/ NextSig \/ OnInflow \/ SweepThrows \/ SweepConfirmed \/ FetchFails
           \/ Credit \/ RecreditCommit \/ Drop \/ PriceArrives \/ Crash \/ UNCHANGED vars
  <2>1. UNCHANGED <<owner, amount, balance, landed>>
    BY <1>7 DEF StartPoll, RecreditCheck, LateDrop, EndPoll, NextSig, OnInflow, SweepThrows,
                SweepConfirmed, FetchFails, Credit, RecreditCommit, Drop, PriceArrives, Crash, vars, chain
  <2> QED
    BY <1>3, <2>1
<1> QED
  BY <1>4, <1>5, <1>6, <1>7 DEF Next, PipelineStep, ChainStep

LEMMA UnsweptInit == Init => UnsweptIsThere
<1> SUFFICES ASSUME Init, NEW u \in Users
             PROVE  balance[u] >= SumFunctionOnSet(amount, UnsweptOf(u))
  BY DEF UnsweptIsThere
<1>1. UnsweptOf(u) = {} /\ balance[u] = 0
  BY DepositsAssumption DEF Init, UnsweptOf
<1> QED
  BY <1>1, SumOfNone

\* Without faults, sweeps of one deposit never use up what another brought: an
\* address holds all that has not been swept from it.
THEOREM UnsweptStaysThere == FaultFree => (Spec => []UnsweptIsThere)
<1>1. SUFFICES ASSUME FaultFree PROVE Spec => []UnsweptIsThere
  OBVIOUS
<1>2. SafeInv /\ ExactInv /\ UnsweptIsThere /\ [Next]_vars => SafeInv' /\ ExactInv' /\ UnsweptIsThere'
  BY <1>1, SafeStep, ExactStep, UnsweptStep
<1>3. Init => SafeInv /\ ExactInv /\ UnsweptIsThere
  BY SafeInit, ExactInit, UnsweptInit
<1> QED
  BY <1>2, <1>3, PTL DEF Spec
=============================================================================
