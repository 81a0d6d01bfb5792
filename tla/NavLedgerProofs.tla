--------------------------- MODULE NavLedgerProofs ---------------------------
(***************************************************************************)
(* Proofs about module NavLedger, for every finite set of users, every fee *)
(* and split, every price and every interleaving. First the order of the   *)
(* snapshots, which is about times alone; then what they hold: the book    *)
(* accounts for every unit of the pool, a payout costs the others at most  *)
(* its part of a misjudgement, and a deposit dilutes by no more than the   *)
(* book was behind.                                                        *)
(***************************************************************************)
EXTENDS NavLedger, Arithmetic, TLAPS

\* A job has its five fields, a snapshot its two.
IsJob(j)  == \E u, a, n, o, x : j = [user |-> u, at |-> a, nav |-> n, owed |-> o, out |-> x]
IsSnap(s) == \E a, b : s = [ts |-> a, total |-> b]

\* The clock is ahead of every time that was read from it.
TimesFit ==
  /\ IsJob(job) /\ IsSnap(snap)
  /\ clock \in Nat /\ job.at \in Nat /\ snap.ts \in Nat
  /\ job.at <= clock /\ snap.ts <= clock

\* While a job is in work and nothing has been credited beside it, the
\* latest snapshot is not younger than the job.
JobIsLatest == pc # "idle" /\ clean => snap.ts <= job.at

OrderInv == TimesFit /\ JobIsLatest /\ SnapshotsInOrder

\* A snapshot with a time that was read from the clock.
LEMMA SnapshotTimes ==
  ASSUME TimesFit, NEW ts \in Nat, ts <= clock, NEW total, InsertNavSnapshot(ts, total)
  PROVE  /\ IsSnap(snap')
         /\ snap'.ts \in Nat /\ snap'.ts <= clock
<1>1. CASE ts >= snap.ts
  BY <1>1 DEF TimesFit, InsertNavSnapshot, IsSnap
<1>2. CASE ~(ts >= snap.ts)
  BY <1>2 DEF TimesFit, InsertNavSnapshot
<1> QED
  BY <1>1, <1>2

LEMMA OrderStep == OrderInv /\ [Next]_vars => OrderInv'
<1> SUFFICES ASSUME OrderInv, [Next]_vars PROVE OrderInv'
  OBVIOUS
<1> USE DEF OrderInv, SnapshotsInOrder, db, loop
<1>n. NoJob = [user |-> Operator, at |-> 0, nav |-> Zero, owed |-> Zero, out |-> 0] /\ NoJob.at = 0
  BY DEF NoJob
<1>1. ASSUME NEW u, NEW j, j = [NoJob EXCEPT !.user = u, !.at = clock],
             job' = j, UNCHANGED <<clock, snap, late>>
      PROVE  OrderInv'
  <2>1. j = [user |-> u, at |-> clock, nav |-> Zero, owed |-> Zero, out |-> 0] /\ j.at = clock
    BY <1>1, <1>n
  <2>2. IsJob(job') /\ job'.at = clock
    BY <1>1, <2>1 DEF IsJob
  <2> QED
    BY <1>1, <2>2 DEF TimesFit, JobIsLatest
<1>2. ASSUME NEW u \in Users, NEW d \in DepositUsd, NEW rent \in {0, Rent}, Sweep(u, d, rent)
      PROVE  OrderInv'
  BY <1>1, <1>2 DEF Sweep
<1>3. CASE StartWithdrawal
  BY <1>1, <1>3 DEF StartWithdrawal
<1>4. ASSUME UNCHANGED <<clock, snap, late>>, job'.at = job.at,
             IsJob(job'),
             pc # "idle", clean' => clean
      PROVE  OrderInv'
  BY <1>4 DEF TimesFit, JobIsLatest
<1>5. CASE ReadBookPrice
  <2>1. PICK u, a, n, o, x : job = [user |-> u, at |-> a, nav |-> n, owed |-> o, out |-> x]
    BY DEF TimesFit, IsJob
  <2>2. job' = [user |-> u, at |-> a, nav |-> BookPrice, owed |-> o, out |-> x]
    BY <1>5, <2>1 DEF ReadBookPrice
  <2>3. IsJob(job') /\ job'.at = job.at
    BY <2>1, <2>2 DEF IsJob
  <2> QED
    BY <1>4, <1>5, <2>3 DEF ReadBookPrice
<1>6. CASE PriceWithdrawal
  <2>1. PICK u, a, n, o, x : job = [user |-> u, at |-> a, nav |-> n, owed |-> o, out |-> x]
    BY DEF TimesFit, IsJob
  <2>2. \E n1, o1, x1 : job' = [job EXCEPT !.nav = n1, !.owed = o1, !.out = x1]
    BY <1>6 DEF PriceWithdrawal
  <2>3. PICK n1, o1, x1 : job' = [job EXCEPT !.nav = n1, !.owed = o1, !.out = x1]
    BY <2>2
  <2>4. job' = [user |-> u, at |-> a, nav |-> n1, owed |-> o1, out |-> x1]
    BY <2>1, <2>3
  <2>5. IsJob(job') /\ job'.at = job.at
    BY <2>1, <2>4 DEF IsJob
  <2> QED
    BY <1>4, <1>6, <2>5 DEF PriceWithdrawal
<1>7. ASSUME UNCHANGED <<clock, snap, late, job>>, pc' # "idle" => pc # "idle", clean' => clean
      PROVE  OrderInv'
  BY <1>7 DEF TimesFit, JobIsLatest
<1>8. CASE DoWithdraw \/ Pay
  BY <1>7, <1>8 DEF DoWithdraw, Pay
<1>9. ASSUME NEW u \in Users, NEW usd \in RequestUsd, AskWithdrawal(u, usd) PROVE OrderInv'
  BY <1>7, <1>9 DEF AskWithdrawal
<1>10. ASSUME NEW m \in Moves, Move(m) PROVE OrderInv'
  BY <1>7, <1>10 DEF Move
<1>11. CASE UNCHANGED vars
  BY <1>7, <1>11 DEF vars
<1>12. CASE Tick
  <2>1. clock' = clock + 1 /\ UNCHANGED <<snap, job, pc, clean, late>>
    BY <1>12 DEF Tick
  <2> QED
    BY <2>1 DEF TimesFit, JobIsLatest
<1>13. ASSUME UNCHANGED clock, pc' = "idle", job' = NoJob, ~late',
              \/ UNCHANGED snap
              \/ \E total : InsertNavSnapshot(job.at, total)
       PROVE  OrderInv'
  <2>1. /\ IsSnap(snap')
        /\ snap'.ts \in Nat /\ snap'.ts <= clock
    <3>1. job.at \in Nat /\ job.at <= clock
      BY DEF TimesFit
    <3>2. CASE UNCHANGED snap
      BY <3>2 DEF TimesFit
    <3>3. CASE \E total : InsertNavSnapshot(job.at, total)
      BY <3>1, <3>3, SnapshotTimes
    <3> QED
      BY <1>13, <3>2, <3>3
  <2>2. IsJob(job') /\ job'.at = 0
    BY <1>13, <1>n DEF IsJob
  <2> QED
    BY <1>13, <1>n, <2>1, <2>2 DEF TimesFit, JobIsLatest
<1>14. CASE PipelineCredits
  <2>1. pc = "credit" /\ late' = (late \/ (clean /\ job.at < snap.ts))
    BY <1>14 DEF PipelineCredits
  <2>2. clean => ~(job.at < snap.ts)
    BY <2>1 DEF JobIsLatest, TimesFit
  <2>3. \E total : InsertNavSnapshot(job.at, total)
    BY <1>14 DEF PipelineCredits, Credit
  <2> QED
    BY <1>13, <1>14, <2>1, <2>2, <2>3 DEF PipelineCredits
<1>15. CASE CommitWithdrawal
  <2>1. pc = "paid" /\ late' = (late \/ (clean /\ job.at < snap.ts))
    BY <1>15 DEF CommitWithdrawal
  <2>2. clean => ~(job.at < snap.ts)
    BY <2>1 DEF JobIsLatest, TimesFit
  <2>3. \E total : InsertNavSnapshot(job.at, total)
    BY <1>15 DEF CommitWithdrawal
  <2> QED
    BY <1>13, <1>15, <2>1, <2>2, <2>3 DEF CommitWithdrawal
<1>16. CASE GiveUp
  BY <1>13, <1>16 DEF GiveUp
<1>17. ASSUME NEW u \in Users, HandleRecreditDeposit(u) PROVE OrderInv'
  <2>1. \E total : InsertNavSnapshot(clock, total)
    BY <1>17 DEF HandleRecreditDeposit, Credit
  <2>2. /\ IsSnap(snap')
        /\ snap'.ts \in Nat /\ snap'.ts <= clock
    <3>1. clock \in Nat /\ clock <= clock
      BY DEF TimesFit
    <3> QED
      BY <2>1, <3>1, SnapshotTimes
  <2>3. UNCHANGED <<clock, job, late>> /\ clean' = FALSE
    BY <1>17 DEF HandleRecreditDeposit
  <2> QED
    BY <2>2, <2>3 DEF TimesFit, JobIsLatest
<1> QED
  BY <1>2, <1>3, <1>5, <1>6, <1>8, <1>9, <1>10, <1>11, <1>12, <1>14, <1>15, <1>16, <1>17
     DEF Next

LEMMA OrderStarts == Init => OrderInv
<1> SUFFICES ASSUME Init PROVE OrderInv
  OBVIOUS
<1>1. job = [user |-> Operator, at |-> 0, nav |-> Zero, owed |-> Zero, out |-> 0]
  BY DEF Init, NoJob
<1>2. snap = [ts |-> 0, total |-> Whole(InitialNav)] /\ clock = 0 /\ pc = "idle" /\ late = FALSE
  BY DEF Init
<1>3. IsJob(job) /\ IsSnap(snap) /\ job.at = 0 /\ snap.ts = 0
  BY <1>1, <1>2 DEF IsJob, IsSnap
<1> QED
  BY <1>2, <1>3 DEF OrderInv, TimesFit, JobIsLatest, SnapshotsInOrder

\* A snapshot's ts is read when creditEngine.ts or withdrawalExecutor.ts takes
\* up the deposit or withdrawal, long before the row is written. Deposits and
\* withdrawals share one tick loop, and so only a /recreditdeposit in between
\* can put a later row in front of it.
THEOREM SnapshotOrder == Spec => []SnapshotsInOrder
<1>1. OrderInv => SnapshotsInOrder
  BY DEF OrderInv
<1> QED
  BY <1>1, OrderStarts, OrderStep, PTL DEF Spec
-----------------------------------------------------------------------------
(* What the snapshots hold. *)

\* Shares, prices and book values are fractions in lowest terms, money is whole.
BookType ==
  /\ pool \in Nat /\ ahead \in Int /\ drift \in Lowest
  /\ shares \in [Users -> Lowest] /\ inflow \in [Users -> Nat]
  /\ snap \in [ts : Nat, total : Lowest]
  /\ row \in [st : {"none", "asked", "queued"}, user : Users, usd : Nat,
              burned : Lowest, fee : Lowest, at : Nat]
  /\ job \in [user : Users, at : Nat, nav : Lowest, owed : Lowest, out : Int]
  /\ clean \in BOOLEAN /\ skewed \in BOOLEAN

LEMMA WholeType == \A n \in Int : Whole(n) \in Lowest /\ Whole(n).num = n
BY WholeLaws

LEMMA Constants ==
  /\ IsFiniteSet(Users) /\ Operator \in Users /\ InitialNav \in Nat /\ Rent \in Nat
  /\ \A d \in DepositUsd : d \in Nat /\ d > 0 /\ d > Rent
  /\ \A usd \in RequestUsd : usd \in Nat
  /\ \A m \in Moves : m \in Int
  /\ \A e \in Misread : e \in Int
  /\ Zero \in Lowest /\ Zero.num = 0
  /\ Fee \in Lowest /\ Fee.num >= 0
  /\ \A f \in Splits : f \in Lowest
<1>1. ASSUME NEW f \in {Fee} \cup Splits PROVE f \in Lowest
  <2>1. f \in Fraction /\ f = Frac(f.num, f.den)
    BY NavAssumption
  <2>2. f.num \in Int /\ f.den \in Int /\ f.den # 0
    BY <2>1 DEF Fraction
  <2>3. lowest[<<f.num, f.den>>] \in Lowest
    BY <2>2, LowestTerms
  <2> QED
    BY <2>1, <2>3 DEF Frac
<1>2. Zero \in Lowest /\ Zero.num = 0
  BY WholeLaws DEF Zero
<1>3. Fee.num >= 0
  <2>1. ~Less(Fee, Zero)
    BY NavAssumption
  <2> QED
    BY <1>1, <2>1, AtMostIs DEF AtMost
<1>4. \A d \in DepositUsd : d \in Nat /\ d > 0 /\ d > Rent
  BY NavAssumption
<1> QED
  BY <1>1, <1>2, <1>3, <1>4, NavAssumption

LEMMA PriceFits ==
  ASSUME NEW s \in Lowest, NEW t \in Lowest, NEW p, p = ComputeNavPerShare(s, t)
  PROVE  /\ p \in Lowest
         /\ t.num > 0 => p = Over(s, t) /\ Times(t, p) = s
         /\ t.num <= 0 => p = Whole(1) /\ Times(t, p) = t
<1>1. t.num \in Int
  BY LowestType
<1>2. CASE t.num > 0
  <2>1. p = Over(s, t) /\ ~(t.num <= 0) /\ t.num # 0
    BY <1>1, <1>2 DEF ComputeNavPerShare
  <2>2. p \in Lowest
    BY <2>1, Closed
  <2>3. Times(p, t) = s
    BY <2>1, OverUndoes
  <2>4. Times(t, p) = Times(p, t)
    BY <2>2, TimesTurns
  <2> QED
    BY <2>1, <2>2, <2>3, <2>4
<1>3. CASE t.num <= 0
  <2>1. p = Whole(1) /\ ~(t.num > 0)
    BY <1>1, <1>3 DEF ComputeNavPerShare
  <2>2. p \in Lowest /\ Times(t, Whole(1)) = t
    BY <2>1, WholeLaws, TimesOne
  <2> QED
    BY <2>1, <2>2
<1> QED
  BY <1>1, <1>2, <1>3

LEMMA Supply ==
  ASSUME BookType
  PROVE  /\ TotalShares \in Lowest /\ TotalShares.num \in Int
         /\ Uncredited \in Nat /\ \A u \in Users : inflow[u] <= Uncredited
         /\ BookPrice \in Lowest
         /\ \A e \in Int : LivePrice(e) \in Lowest
<1>1. IsFiniteSet(Users)
  BY Constants
<1>2. shares \in [Users -> Lowest] /\ inflow \in [Users -> Nat] /\ snap.total \in Lowest /\ pool \in Int
  BY DEF BookType
<1>3. FractionSum(shares) \in Lowest
  BY <1>1, <1>2, FractionSumType
<1>4. TotalShares \in Lowest /\ TotalShares.num \in Int
  BY <1>3, LowestType DEF TotalShares, FractionSum
<1>5. SumFunction(inflow) \in Nat /\ \A u \in Users : inflow[u] <= SumFunction(inflow)
  BY <1>1, <1>2, SumOfPositives
<1>6. ASSUME NEW e \in Int PROVE LivePrice(e) \in Lowest
  <2>1. pool + e \in Int
    BY <1>2
  <2>2. Whole(pool + e) \in Lowest
    BY <2>1, WholeLaws
  <2> QED
    BY <1>4, <2>2, PriceFits DEF LivePrice
<1>7. BookPrice \in Lowest
  BY <1>2, <1>4, PriceFits DEF BookPrice
<1> QED
  BY <1>4, <1>5, <1>6, <1>7 DEF Uncredited

\* A credit adds the deposit to the supply's worth at its price.
LEMMA CreditAdds ==
  ASSUME NEW t \in Lowest, NEW nav \in Lowest, nav.num > 0, NEW d \in Int
  PROVE  /\ Over(Whole(d), nav) \in Lowest
         /\ Times(Plus(t, Over(Whole(d), nav)), nav) = Plus(Times(t, nav), Whole(d))
<1> DEFINE q == Over(Whole(d), nav)
<1>1. Whole(d) \in Lowest /\ nav.num # 0
  BY WholeLaws, LowestType
<1>2. q \in Lowest /\ Times(q, nav) = Whole(d)
  BY <1>1, Closed, OverUndoes
<1> HIDE DEF q
<1>3. Times(Plus(t, q), nav) = Plus(Times(t, nav), Times(q, nav))
  BY <1>2, TimesSpreads
<1> QED
  BY <1>2, <1>3 DEF q

LEMMA CreditBooks ==
  ASSUME BookType, NEW u \in Users, NEW nav \in Lowest, NEW ts \in Nat,
         Credit(u, inflow[u], nav, ts)
  PROVE  /\ inflow[u] \in Nat /\ inflow[u] > 0 /\ nav.num > 0
         /\ shares' \in [Users -> Lowest] /\ inflow' \in [Users -> Nat]
         /\ snap' \in [ts : Nat, total : Lowest]
         /\ Uncredited' = Uncredited - inflow[u]
         /\ TotalShares' = Plus(TotalShares, Over(Whole(inflow[u]), nav))
         /\ TotalShares' \in Lowest
         /\ Times(TotalShares', nav) = Plus(Times(TotalShares, nav), Whole(inflow[u]))
         /\ ts >= snap.ts => snap'.total = Times(TotalShares', nav)
<1> DEFINE d == inflow[u]
           q == Over(Whole(d), nav)
<1>1. /\ d \in Nat /\ d > 0 /\ nav.num > 0
      /\ shares' = [shares EXCEPT ![u] = Plus(@, q)]
      /\ InsertNavSnapshot(ts, Times(TotalShares', nav))
      /\ inflow' = [inflow EXCEPT ![u] = 0]
  BY DEF Credit, BookType
<1>2. shares \in [Users -> Lowest] /\ inflow \in [Users -> Nat] /\ IsFiniteSet(Users)
  BY Constants DEF BookType
<1>3. TotalShares \in Lowest
  BY Supply
<1>4. q \in Lowest /\ Times(Plus(TotalShares, q), nav) = Plus(Times(TotalShares, nav), Whole(d))
  BY <1>1, <1>3, CreditAdds
<1>5. Uncredited' = Uncredited - d
  <2>1. inflow \in [Users -> Int] /\ 0 \in Int
    BY <1>2
  <2> DEFINE g == [inflow EXCEPT ![u] = 0]
  <2>2. SumFunction(inflow) \in Int /\ SumFunction(g) = SumFunction(inflow) - inflow[u] + 0
    BY <1>2, <2>1, SumChanges
  <2>3. SumFunction(inflow') = SumFunction(inflow) - inflow[u]
    BY <1>1, <2>2
  <2> QED
    BY <2>3 DEF Uncredited
<1> HIDE DEF d, q
<1>6. Plus(shares[u], q) \in Lowest
  BY <1>2, <1>4, Closed
<1>7. shares' \in [Users -> Lowest] /\ shares'[u] = Plus(shares[u], q) /\ SameBut(shares, shares', Users, u)
  BY <1>1, <1>2, <1>6 DEF SameBut
<1>8. FractionSum(shares') = Plus(FractionSum(shares), q)
  BY <1>2, <1>4, <1>7, FractionSumGrows
<1>9. TotalShares' = Plus(TotalShares, q)
  BY <1>8 DEF TotalShares, FractionSum
<1>10. TotalShares' \in Lowest
  BY <1>3, <1>4, <1>9, Closed
<1> DEFINE t == TotalShares'
<1>11. Times(t, nav) \in Lowest
  BY <1>10, Closed
<1>12. snap' \in [ts : Nat, total : Lowest] /\ (ts >= snap.ts => snap'.total = Times(t, nav))
  <2>1. InsertNavSnapshot(ts, Times(t, nav))
    BY <1>1
  <2> HIDE DEF t
  <2>2. snap \in [ts : Nat, total : Lowest]
    BY DEF BookType
  <2>3. CASE ts >= snap.ts
    BY <1>11, <2>1, <2>3 DEF InsertNavSnapshot
  <2>4. CASE ~(ts >= snap.ts)
    BY <2>1, <2>2, <2>4 DEF InsertNavSnapshot
  <2> QED
    BY <2>3, <2>4
<1>13. inflow' \in [Users -> Nat]
  BY <1>1, <1>2
<1> QED
  BY <1>1, <1>4, <1>5, <1>7, <1>9, <1>10, <1>12, <1>13 DEF d, q
\* A credit at the book's price leaves that price where it is.
LEMMA CreditKeepsPrice ==
  ASSUME BookType, NEW u \in Users, NEW ts \in Nat, ts >= snap.ts,
         Credit(u, inflow[u], BookPrice, ts)
  PROVE  BookPrice' = BookPrice
<1> DEFINE nav == BookPrice
           t == TotalShares
           t2 == TotalShares'
           s2 == snap'.total
           q == Over(Whole(inflow[u]), nav)
<1>1. t \in Lowest /\ nav \in Lowest
  BY Supply
<1>2. /\ inflow[u] \in Nat /\ inflow[u] > 0 /\ nav.num > 0
      /\ t2 = Plus(t, q) /\ t2 \in Lowest /\ s2 = Times(t2, nav)
  BY <1>1, CreditBooks
<1>3. snap.total \in Lowest
  BY DEF BookType
<1>4. t.num <= 0 => nav = Whole(1)
  BY <1>1, <1>3, PriceFits DEF BookPrice
<1>5. BookPrice' = ComputeNavPerShare(s2, t2)
  BY DEF BookPrice
<1>6. Whole(inflow[u]) \in Lowest /\ Whole(inflow[u]).num > 0
  <2>1. \A k \in Int : k > 0 => Whole(k) \in Lowest /\ Whole(k).num > 0
    BY WholeLaws
  <2> QED
    BY <1>2, <2>1
<1>8. t.num \in Int /\ t2.num \in Int /\ nav.num # 0
  <2> HIDE DEF nav, t, t2, s2, q
  <2> QED
    BY <1>1, <1>2, LowestType
<1>7. q \in Lowest /\ q.num > 0
  <2> DEFINE w == Whole(inflow[u])
  <2> HIDE DEF nav, w
  <2>1. Over(w, nav) \in Lowest /\ Over(w, nav).num > 0
    BY <1>1, <1>2, <1>6, <1>8, Signs, Closed DEF w
  <2> QED
    BY <2>1 DEF w
<1>9. t.num > 0 => t2.num > 0
  BY <1>1, <1>2, <1>7, <1>8, Signs
<1> HIDE DEF nav, t, t2, s2, q
<1>10. s2 \in Lowest
  BY <1>1, <1>2, Closed
<1>11. CASE t2.num > 0
  <2>1. BookPrice' = Over(s2, t2)
    BY <1>2, <1>5, <1>10, <1>11, PriceFits
  <2>2. Times(t2, nav) = Times(nav, t2)
    BY <1>1, <1>2, TimesTurns
  <2>3. t2.num # 0
    BY <1>8, <1>11
  <2>4. Over(Times(nav, t2), t2) = nav
    BY <1>1, <1>2, <2>3, OverUndoes
  <2> QED
    BY <1>2, <2>1, <2>2, <2>4 DEF nav
<1>12. CASE t2.num <= 0
  <2>1. BookPrice' = Whole(1)
    BY <1>2, <1>5, <1>10, <1>12, PriceFits
  <2>2. nav = Whole(1)
    BY <1>4, <1>8, <1>9, <1>12
  <2> QED
    BY <2>1, <2>2 DEF nav
<1> QED
  BY <1>8, <1>11, <1>12

LEMMA OrphanedType == ASSUME BookType PROVE Orphaned \in Lowest
<1>1. snap.total \in Lowest /\ TotalShares \in Lowest /\ Zero \in Lowest
  BY Supply, Constants DEF BookType
<1> QED
  BY <1>1, Closed DEF Orphaned

\* Book and drift grow together by the deposit.
LEMMA CreditFollows ==
  ASSUME BookType, NEW u \in Users, NEW ts \in Nat, ts >= snap.ts,
         Credit(u, inflow[u], BookPrice, ts), drift' = Plus(drift, Orphaned),
         NEW n \in Int, Whole(n) = Plus(snap.total, drift)
  PROVE  Whole(n + inflow[u]) = Plus(snap'.total, drift')
<1> DEFINE nav == BookPrice
           t == TotalShares
           s == snap.total
           w == Whole(inflow[u])
<1>1. t \in Lowest /\ nav \in Lowest /\ s \in Lowest /\ drift \in Lowest /\ t.num \in Int
  BY Supply DEF BookType
<1>2. inflow[u] \in Int /\ snap'.total = Plus(Times(t, nav), w)
  BY <1>1, CreditBooks
<1>3. /\ t.num > 0 => Times(t, nav) = s
      /\ t.num <= 0 => Times(t, nav) = t
  BY <1>1, PriceFits DEF BookPrice
<1>4. w \in Lowest /\ Plus(Whole(n), w) = Whole(n + inflow[u])
  BY <1>2, WholeLaws
<1>5. Orphaned = IF t.num <= 0 THEN Minus(s, t) ELSE Zero
  BY DEF Orphaned
<1> HIDE DEF nav, t, s, w
<1>6. Plus(Plus(s, w), drift) = Plus(Plus(s, drift), w)
  BY <1>1, <1>4, PlusSwaps
<1>7. CASE t.num > 0
  <2>1. drift' = drift
    BY <1>1, <1>5, <1>7, PlusZero
  <2>2. snap'.total = Plus(s, w)
    BY <1>2, <1>3, <1>7
  <2> QED
    BY <1>4, <1>6, <2>1, <2>2 DEF s
<1>8. CASE t.num <= 0
  <2> DEFINE x == Minus(s, t)
  <2>1. x \in Lowest /\ Plus(x, t) = s
    BY <1>1, Closed, MinusUndoes
  <2>2. drift' = Plus(drift, x) /\ snap'.total = Plus(t, w)
    BY <1>2, <1>3, <1>5, <1>8
  <2> HIDE DEF x
  <2>3. Plus(t, w) \in Lowest /\ Plus(t, x) = Plus(x, t)
    BY <1>1, <1>4, <2>1, Closed, PlusTurns
  <2>4. Plus(drift, x) = Plus(x, drift)
    BY <1>1, <2>1, PlusTurns
  <2>5. Plus(Plus(t, w), Plus(x, drift)) = Plus(Plus(Plus(t, w), x), drift)
    BY <1>1, <2>1, <2>3, PlusGroups
  <2>6. Plus(Plus(t, w), x) = Plus(Plus(t, x), w)
    BY <1>1, <1>4, <2>1, PlusSwaps
  <2> QED
    BY <1>4, <1>6, <2>1, <2>2, <2>3, <2>4, <2>5, <2>6 DEF s
<1> QED
  BY <1>1, <1>7, <1>8

\* The payout is rounded down.
LEMMA PayoutBelow ==
  ASSUME NEW owed \in Lowest, NEW f \in Lowest
  PROVE  Payout(owed, f) \in Int /\ AtMost(Whole(Payout(owed, f)), owed)
<1> DEFINE one == Whole(1)
           a == Times(owed, f)
           b == Times(owed, Minus(one, f))
<1>1. one \in Lowest /\ Minus(one, f) \in Lowest
  BY WholeLaws, Closed
<1>2. a \in Lowest /\ b \in Lowest
  BY <1>1, Closed
<1>3. Plus(f, Minus(one, f)) = one
  <2>1. Plus(Minus(one, f), f) = one
    BY <1>1, MinusUndoes
  <2> HIDE DEF one
  <2> QED
    BY <1>1, <2>1, PlusTurns
<1>4. Plus(a, b) = owed
  <2>1. a = Times(f, owed) /\ b = Times(Minus(one, f), owed)
    BY <1>1, TimesTurns
  <2>2. Times(Plus(f, Minus(one, f)), owed) = Plus(Times(f, owed), Times(Minus(one, f), owed))
    BY <1>1, TimesSpreads
  <2>3. Times(one, owed) = owed
    BY <1>1, TimesTurns, TimesOne
  <2> QED
    BY <1>3, <2>1, <2>2, <2>3
<1>5. Payout(owed, f) = Floor(a) + Floor(b)
  BY DEF Payout
<1> HIDE DEF a, b, one
<1>6. Floor(a) \in Int /\ Floor(b) \in Int /\ AtMost(Whole(Floor(a)), a) /\ AtMost(Whole(Floor(b)), b)
  BY <1>2, FloorBelow
<1>7. /\ Whole(Floor(a)) \in Lowest /\ Whole(Floor(b)) \in Lowest
      /\ Plus(Whole(Floor(a)), Whole(Floor(b))) = Whole(Floor(a) + Floor(b))
  BY <1>6, WholeLaws
<1>8. AtMost(Whole(Floor(a) + Floor(b)), Plus(a, b))
  BY <1>2, <1>6, <1>7, AtMostPlus
<1> QED
  BY <1>4, <1>5, <1>6, <1>8
-----------------------------------------------------------------------------
(* Who holds what while a job is in work. *)

\* The row of a withdrawal in work waits for it.
RowWaits == pc \in {"started", "priced", "paid"} => row.st = "queued"

BurnsCount == row.burned.num >= 0 /\ row.fee.num >= 0

\* The price of a deposit is still the book's when it is credited: a credit
\* beside it is made at the same price, and nothing else changes the book.
CreditAtBook == pc = "credit" => job.nav = BookPrice

\* What the pool was taken for when the withdrawal in work was priced.
WorthPriced == pool - ahead + (IF pc = "paid" THEN job.out ELSE 0)

\* The payout in work is what its price gives, rounded down; undisturbed, the
\* price is that of the pool as it was taken then.
PricedLive ==
  pc \in {"priced", "paid"} =>
    /\ AtMost(Whole(job.out), job.owed)
    /\ job.owed = Times(Minus(row.burned, row.fee), job.nav)
    /\ clean => /\ Uncredited = 0 /\ WorthPriced >= 0 /\ TotalShares.num > 0
                /\ Times(TotalShares, job.nav) = Whole(WorthPriced)

BookInv ==
  /\ OrderInv /\ BookType /\ RowWaits /\ BurnsCount
  /\ CreditAtBook /\ PricedLive /\ BookFollowsMoney

\* Steps that leave alone what the invariant is about.
LEMMA BookStays ==
  ASSUME BookInv, UNCHANGED <<pool, shares, snap, inflow, ahead, drift, clean, skewed>>,
         UNCHANGED <<row, pc, job>>
  PROVE  BookType' /\ RowWaits' /\ BurnsCount' /\ CreditAtBook' /\ PricedLive' /\ BookFollowsMoney'
<1>1. /\ TotalShares' = TotalShares /\ Uncredited' = Uncredited /\ BookPrice' = BookPrice
      /\ WorthPriced' = WorthPriced
  BY DEF TotalShares, Uncredited, BookPrice, WorthPriced
<1>2. BookType' /\ RowWaits' /\ BurnsCount'
  BY DEF BookInv, BookType, RowWaits, BurnsCount
<1>3. CreditAtBook' /\ PricedLive'
  BY <1>1 DEF BookInv, CreditAtBook, PricedLive
<1>4. BookFollowsMoney'
  BY <1>1 DEF BookInv, BookFollowsMoney
<1> QED
  BY <1>2, <1>3, <1>4

\* A price the commands may see is a fraction.
LEMMA QuotedType == ASSUME BookType, NEW nav \in QuotedPrices PROVE nav \in Lowest
<1>1. \A e \in Misjudgements : e \in Int
  BY Constants DEF Misjudgements
<1> QED
  BY <1>1, Supply DEF QuotedPrices

LEMMA NoneTypes ==
  /\ NoRow \in [st : {"none", "asked", "queued"}, user : Users, usd : Nat,
                burned : Lowest, fee : Lowest, at : Nat]
  /\ NoRow.burned.num >= 0 /\ NoRow.fee.num >= 0
  /\ NoJob \in [user : Users, at : Nat, nav : Lowest, owed : Lowest, out : Int]
BY Constants DEF NoRow, NoJob

\* The commands: the row of a request.
LEMMA RequestStep ==
  ASSUME BookInv,
         \/ \E u \in Users, usd \in RequestUsd : AskWithdrawal(u, usd)
         \/ DoWithdraw
  PROVE  BookInv'
<1> DEFINE Rows == [st : {"none", "asked", "queued"}, user : Users, usd : Nat,
                    burned : Lowest, fee : Lowest, at : Nat]
<1>0. BookType /\ row \in Rows
  BY DEF BookInv, BookType
<1>1. OrderInv'
  BY OrderStep DEF BookInv, Next
<1>2. UNCHANGED <<pool, shares, snap, inflow, ahead, drift, clean, skewed, pc, job>>
  BY DEF AskWithdrawal, DoWithdraw, loop
<1>3. row.st # "queued"
  <2>1. CASE DoWithdraw
    BY <2>1 DEF DoWithdraw
  <2>2. CASE \E u \in Users, usd \in RequestUsd : AskWithdrawal(u, usd)
    <3>1. row = NoRow
      BY <2>2 DEF AskWithdrawal
    <3> QED
      BY <3>1 DEF NoRow
  <2> QED
    BY <2>1, <2>2
<1>4. pc \notin {"started", "priced", "paid"}
  BY <1>3 DEF BookInv, RowWaits
<1>5. row' \in Rows /\ row'.burned.num >= 0 /\ row'.fee.num >= 0
  <2>1. ASSUME NEW u \in Users, NEW usd \in RequestUsd, AskWithdrawal(u, usd)
        PROVE  row' \in Rows /\ row'.burned.num >= 0 /\ row'.fee.num >= 0
    <3>1. row' = [NoRow EXCEPT !.st = "asked", !.user = u, !.usd = usd]
      BY <2>1 DEF AskWithdrawal
    <3>2. usd \in Nat
      BY Constants
    <3> QED
      BY <3>1, <3>2, NoneTypes
  <2>2. CASE DoWithdraw
    <3>1. PICK nav \in QuotedPrices :
            \/ /\ nav.num > 0
               /\ row' = [row EXCEPT !.st = "queued", !.at = clock,
                                     !.burned = Over(Whole(row.usd), nav),
                                     !.fee = Times(Over(Whole(row.usd), nav), Fee)]
            \/ row' = NoRow
      BY <2>2 DEF DoWithdraw
    <3>2. CASE row' = NoRow
      BY <3>2, NoneTypes
    <3>3. CASE row' # NoRow
      <4> DEFINE b == Over(Whole(row.usd), nav)
                 f == Times(b, Fee)
      <4>0. \/ nav.num > 0 /\ row' = [row EXCEPT !.st = "queued", !.at = clock, !.burned = b, !.fee = f]
            \/ row' = NoRow
        BY <3>1, Zenon
      <4> HIDE DEF b, f
      <4>1. nav.num > 0 /\ row' = [row EXCEPT !.st = "queued", !.at = clock, !.burned = b, !.fee = f]
        BY <3>3, <4>0, Zenon
      <4>2. nav \in Lowest
        BY <1>0, QuotedType
      <4>3. row.usd \in Nat
        BY <1>0
      <4>5. Whole(row.usd) \in Lowest /\ Whole(row.usd).num >= 0
        BY <4>3, WholeType
      <4>6. nav.num # 0
        BY <4>1, <4>2, LowestType
      <4>7. b \in Lowest /\ b.num >= 0
        BY <4>1, <4>2, <4>5, <4>6, Closed, Signs DEF b
      <4>8. f \in Lowest /\ f.num >= 0
        BY <4>7, Constants, Closed, Signs DEF f
      <4>9. clock \in Nat
        BY DEF BookInv, OrderInv, TimesFit
      <4> QED
        BY <1>0, <4>1, <4>7, <4>8, <4>9
    <3> QED
      BY <3>2, <3>3
  <2> QED
    BY <2>1, <2>2
<1>6. BookType' /\ BurnsCount'
  BY <1>0, <1>2, <1>5 DEF BookType, BurnsCount
<1>7. RowWaits' /\ PricedLive'
  BY <1>2, <1>4 DEF RowWaits, PricedLive
<1>8. CreditAtBook'
  <2>1. BookPrice' = BookPrice
    BY <1>2 DEF BookPrice, TotalShares
  <2> QED
    BY <1>2, <2>1 DEF BookInv, CreditAtBook
<1>9. BookFollowsMoney'
  BY <1>2 DEF BookInv, BookFollowsMoney, Uncredited
<1> QED
  BY <1>1, <1>6, <1>7, <1>8, <1>9 DEF BookInv

\* The clock.
LEMMA TickStep == ASSUME BookInv, Tick PROVE BookInv'
<1>1. OrderInv'
  BY OrderStep DEF BookInv, Next
<1>2. /\ UNCHANGED <<pool, shares, snap, inflow, ahead, drift, clean, skewed>>
      /\ UNCHANGED <<row, pc, job>>
  BY DEF Tick, db, loop
<1> QED
  BY <1>1, <1>2, BookStays DEF BookInv
\* Money that moves is in the drift.
LEMMA DriftFollows ==
  ASSUME NEW s \in Lowest, NEW dr \in Lowest, NEW n \in Int, NEW m \in Int,
         Whole(n) = Plus(s, dr)
  PROVE  /\ Plus(s, Plus(dr, Whole(m))) = Whole(n + m)
         /\ Plus(s, Minus(dr, Whole(m))) = Whole(n - m)
<1>1. Whole(m) \in Lowest
  BY WholeType
<1>2. Plus(s, Plus(dr, Whole(m))) = Plus(Whole(n), Whole(m))
  BY <1>1, PlusGroups
<1>3. Plus(s, Minus(dr, Whole(m))) = Minus(Whole(n), Whole(m))
  BY <1>1, MinusGroups
<1> QED
  BY <1>2, <1>3, WholeLaws

LEMMA SweepStep ==
  ASSUME BookInv, NEW u \in Users, NEW d \in DepositUsd, NEW rent \in {0, Rent}, Sweep(u, d, rent)
  PROVE  BookInv'
<1>0. /\ BookType /\ d \in Nat /\ d > rent /\ rent \in Nat /\ IsFiniteSet(Users)
      /\ \A k \in Int : Whole(k) \in Lowest
  BY Constants, WholeType DEF BookInv
<1>1. OrderInv'
  BY OrderStep DEF BookInv, Next
<1>2. /\ pc = "idle" /\ inflow[u] = 0
      /\ pool' = pool + d - rent /\ inflow' = [inflow EXCEPT ![u] = d] /\ pc' = "swept"
      /\ job' = [NoJob EXCEPT !.user = u, !.at = clock]
      /\ drift' = Minus(drift, Whole(rent)) /\ clean' = TRUE
      /\ UNCHANGED <<shares, snap, row, ahead, skewed>>
  BY DEF Sweep
<1>3. BookType'
  <2>1. drift' \in Lowest
    BY <1>0, <1>2, Closed DEF BookType
  <2>2. job' \in [user : Users, at : Nat, nav : Lowest, owed : Lowest, out : Int]
    <3>1. clock \in Nat
      BY DEF BookInv, OrderInv, TimesFit
    <3> QED
      BY <1>2, <3>1, NoneTypes
  <2>3. pool' \in Nat /\ inflow' \in [Users -> Nat]
    BY <1>0, <1>2 DEF BookType
  <2>4. UNCHANGED <<shares, snap, row, ahead, skewed>> /\ clean' \in BOOLEAN
    BY <1>2
  <2> QED
    BY <1>0, <2>1, <2>2, <2>3, <2>4 DEF BookType
<1>4. RowWaits' /\ PricedLive' /\ CreditAtBook'
  BY <1>2 DEF RowWaits, PricedLive, CreditAtBook
<1>5. BurnsCount'
  BY <1>2 DEF BookInv, BurnsCount
<1>6. BookFollowsMoney'
  <2>1. Uncredited \in Int /\ Uncredited' = Uncredited + d
    <3>1. inflow \in [Users -> Int] /\ d \in Int
      BY <1>0 DEF BookType
    <3> DEFINE g == [inflow EXCEPT ![u] = d]
    <3>2. SumFunction(inflow) \in Int /\ SumFunction(g) = SumFunction(inflow) - inflow[u] + d
      BY <1>0, <3>1, SumChanges
    <3> QED
      BY <1>0, <1>2, <3>2 DEF Uncredited
  <2>2. SUFFICES ASSUME ~skewed PROVE Whole(pool' - Uncredited' + 0) = Plus(snap'.total, drift')
    BY <1>2 DEF BookFollowsMoney
  <2>3. Whole(pool - Uncredited + 0) = Plus(snap.total, drift)
    BY <1>2, <2>2 DEF BookInv, BookFollowsMoney
  <2> DEFINE n == pool - Uncredited + 0
  <2>4. n \in Int /\ pool' - Uncredited' + 0 = n - rent
    BY <1>0, <1>2, <2>1 DEF BookType
  <2>5. snap.total \in Lowest /\ drift \in Lowest
    BY <1>0 DEF BookType
  <2> HIDE DEF n
  <2>6. Plus(snap.total, Minus(drift, Whole(rent))) = Whole(n - rent)
    BY <1>0, <2>3, <2>4, <2>5, DriftFollows DEF n
  <2> QED
    BY <1>2, <2>4, <2>6
<1> QED
  BY <1>1, <1>3, <1>4, <1>5, <1>6 DEF BookInv

LEMMA MoveStep == ASSUME BookInv, NEW m \in Moves, Move(m) PROVE BookInv'
<1>0. BookType /\ m \in Int /\ Whole(m) \in Lowest
  BY Constants, WholeType DEF BookInv
<1>1. OrderInv'
  BY OrderStep DEF BookInv, Next
<1>2. /\ pool + m >= 0 /\ pool' = pool + m
      /\ drift' = Plus(drift, Whole(m))
      /\ ahead' = IF pc \in {"priced", "paid"} THEN ahead + m ELSE ahead
      /\ UNCHANGED <<shares, snap, inflow, row, pc, job, clean, skewed>>
  BY DEF Move, db, loop
<1>3. BookType'
  <2>1. drift' \in Lowest
    BY <1>0, <1>2, Closed DEF BookType
  <2> QED
    BY <1>0, <1>2, <2>1 DEF BookType
<1>4. /\ TotalShares' = TotalShares /\ Uncredited' = Uncredited /\ BookPrice' = BookPrice
  BY <1>2 DEF TotalShares, Uncredited, BookPrice
<1>5. RowWaits' /\ BurnsCount' /\ CreditAtBook'
  BY <1>2, <1>4 DEF BookInv, RowWaits, BurnsCount, CreditAtBook
<1>6. PricedLive'
  <2>1. pc \in {"priced", "paid"} => WorthPriced' = WorthPriced
    BY <1>0, <1>2 DEF WorthPriced, BookType
  <2> QED
    BY <1>2, <1>4, <2>1 DEF BookInv, PricedLive
<1>7. BookFollowsMoney'
  <2> DEFINE out == IF pc = "paid" THEN job.out ELSE 0
             n == pool - Uncredited + out
  <2>1. SUFFICES ASSUME ~skewed PROVE Whole(pool' - Uncredited' + out) = Plus(snap'.total, drift')
    BY <1>2 DEF BookFollowsMoney
  <2>2. Whole(n) = Plus(snap.total, drift)
    BY <2>1 DEF BookInv, BookFollowsMoney
  <2>3. Uncredited \in Int /\ out \in Int /\ snap.total \in Lowest /\ drift \in Lowest /\ pool \in Int
    BY <1>0, Supply DEF BookType
  <2> HIDE DEF out
  <2>4. n \in Int /\ pool' - Uncredited' + out = n + m
    BY <1>0, <1>2, <1>4, <2>3
  <2> HIDE DEF n
  <2>5. Plus(snap.total, Plus(drift, Whole(m))) = Whole(n + m)
    BY <1>0, <2>2, <2>3, <2>4, DriftFollows
  <2> QED
    BY <1>2, <2>4, <2>5
<1> QED
  BY <1>1, <1>3, <1>5, <1>6, <1>7 DEF BookInv

LEMMA ReadStep == ASSUME BookInv, ReadBookPrice PROVE BookInv'
<1>0. BookType /\ BookPrice \in Lowest
  BY Supply DEF BookInv
<1>1. OrderInv'
  BY OrderStep DEF BookInv, Next
<1>2. /\ pc = "swept" /\ pc' = "credit" /\ job' = [job EXCEPT !.nav = BookPrice]
      /\ UNCHANGED <<pool, shares, snap, inflow, row, ahead, drift, clean, skewed>>
  BY DEF ReadBookPrice, db
<1>3. BookPrice' = BookPrice /\ Uncredited' = Uncredited
  BY <1>2 DEF BookPrice, TotalShares, Uncredited
<1>4. job' \in [user : Users, at : Nat, nav : Lowest, owed : Lowest, out : Int] /\ job'.nav = BookPrice
  <2>1. job \in [user : Users, at : Nat, nav : Lowest, owed : Lowest, out : Int]
    BY <1>0 DEF BookType
  <2> QED
    BY <1>0, <1>2, <2>1
<1>5. BookType'
  BY <1>0, <1>2, <1>4 DEF BookType
<1>6. RowWaits' /\ PricedLive' /\ BurnsCount' /\ CreditAtBook'
  BY <1>2, <1>3, <1>4 DEF BookInv, RowWaits, PricedLive, BurnsCount, CreditAtBook
<1>7. BookFollowsMoney'
  BY <1>2, <1>3 DEF BookInv, BookFollowsMoney
<1> QED
  BY <1>1, <1>5, <1>6, <1>7 DEF BookInv
\* /recreditdeposit beside whatever the loop does.
LEMMA RecreditStep ==
  ASSUME BookInv, NEW u \in Users, HandleRecreditDeposit(u)
  PROVE  BookInv'
<1>0. BookType /\ BookPrice \in Lowest /\ Orphaned \in Lowest
  BY Supply, OrphanedType DEF BookInv
<1>1. OrderInv'
  BY OrderStep DEF BookInv, Next
<1>2. /\ Credit(u, inflow[u], BookPrice, clock)
      /\ drift' = Plus(drift, Orphaned) /\ clean' = FALSE
      /\ UNCHANGED <<pool, row, pc, job, ahead, skewed>>
  BY DEF HandleRecreditDeposit, loop
<1>3. clock \in Nat /\ clock >= snap.ts
  BY DEF BookInv, OrderInv, TimesFit
<1>4. /\ shares' \in [Users -> Lowest] /\ inflow' \in [Users -> Nat]
      /\ snap' \in [ts : Nat, total : Lowest] /\ Uncredited' = Uncredited - inflow[u]
      /\ inflow[u] \in Nat
  BY <1>0, <1>2, <1>3, CreditBooks
<1>5. BookType'
  <2>1. drift' \in Lowest
    BY <1>0, <1>2, Closed DEF BookType
  <2> QED
    BY <1>0, <1>2, <1>4, <2>1 DEF BookType
<1>6. RowWaits' /\ BurnsCount'
  BY <1>2 DEF BookInv, RowWaits, BurnsCount
<1>7. PricedLive'
  BY <1>2 DEF BookInv, PricedLive
<1>8. CreditAtBook'
  <2>1. BookPrice' = BookPrice
    BY <1>0, <1>2, <1>3, CreditKeepsPrice
  <2> QED
    BY <1>2, <2>1 DEF BookInv, CreditAtBook
<1>9. BookFollowsMoney'
  <2> DEFINE out == IF pc = "paid" THEN job.out ELSE 0
             n == pool - Uncredited + out
  <2>1. SUFFICES ASSUME ~skewed PROVE Whole(pool' - Uncredited' + out) = Plus(snap'.total, drift')
    BY <1>2 DEF BookFollowsMoney
  <2>2. Whole(n) = Plus(snap.total, drift)
    BY <2>1 DEF BookInv, BookFollowsMoney
  <2>3. Uncredited \in Int /\ out \in Int /\ pool \in Int
    BY <1>0, Supply DEF BookType
  <2> HIDE DEF out
  <2>4. n \in Int /\ pool' - Uncredited' + out = n + inflow[u]
    BY <1>2, <1>4, <2>3
  <2> HIDE DEF n
  <2>5. Whole(n + inflow[u]) = Plus(snap'.total, drift')
    BY <1>0, <1>2, <1>3, <2>2, <2>4, CreditFollows
  <2> QED
    BY <2>4, <2>5
<1> QED
  BY <1>1, <1>5, <1>6, <1>7, <1>8, <1>9 DEF BookInv

LEMMA PipelineStep == ASSUME BookInv, PipelineCredits PROVE BookInv'
<1> DEFINE u == job.user
<1>0. BookType /\ BookPrice \in Lowest /\ Orphaned \in Lowest
  BY Supply, OrphanedType DEF BookInv
<1>1. OrderInv'
  BY OrderStep DEF BookInv, Next
<1>2. /\ pc = "credit" /\ Credit(u, inflow[u], job.nav, job.at)
      /\ pc' = "idle" /\ job' = NoJob
      /\ drift' = Plus(drift, Orphaned) /\ skewed' = (skewed \/ job.at < snap.ts)
      /\ UNCHANGED <<pool, row, ahead, clean>>
  BY DEF PipelineCredits
<1>3. u \in Users /\ job.at \in Nat /\ job.nav = BookPrice /\ snap.ts \in Nat
  BY <1>0, <1>2 DEF BookInv, BookType, CreditAtBook
<1> HIDE DEF u
<1>4. /\ shares' \in [Users -> Lowest] /\ inflow' \in [Users -> Nat]
      /\ snap' \in [ts : Nat, total : Lowest] /\ Uncredited' = Uncredited - inflow[u]
      /\ inflow[u] \in Nat
  BY <1>0, <1>2, <1>3, CreditBooks
<1>5. BookType'
  <2>1. drift' \in Lowest
    BY <1>0, <1>2, Closed DEF BookType
  <2>2. job' \in [user : Users, at : Nat, nav : Lowest, owed : Lowest, out : Int]
    BY <1>2, NoneTypes
  <2>3. skewed' \in BOOLEAN /\ UNCHANGED <<pool, row, ahead, clean>>
    BY <1>2
  <2> QED
    BY <1>0, <1>4, <2>1, <2>2, <2>3 DEF BookType
<1>6. RowWaits' /\ BurnsCount' /\ PricedLive' /\ CreditAtBook'
  BY <1>2 DEF BookInv, RowWaits, BurnsCount, PricedLive, CreditAtBook
<1>7. BookFollowsMoney'
  <2> DEFINE n == pool - Uncredited + 0
  <2>1. SUFFICES ASSUME ~skewed, ~(job.at < snap.ts)
                 PROVE  Whole(pool' - Uncredited' + 0) = Plus(snap'.total, drift')
    BY <1>2 DEF BookFollowsMoney
  <2>2. Whole(n) = Plus(snap.total, drift)
    BY <1>2, <2>1 DEF BookInv, BookFollowsMoney
  <2>3. Uncredited \in Int /\ pool \in Int
    BY <1>0, Supply DEF BookType
  <2>4. n \in Int /\ pool' - Uncredited' + 0 = n + inflow[u]
    BY <1>2, <1>4, <2>3
  <2>5. job.at >= snap.ts
    BY <1>3, <2>1
  <2> HIDE DEF n
  <2>6. Credit(u, inflow[u], BookPrice, job.at)
    BY <1>2, <1>3
  <2>7. Whole(n + inflow[u]) = Plus(snap'.total, drift')
    BY <1>0, <1>2, <1>3, <2>2, <2>4, <2>5, <2>6, CreditFollows
  <2> QED
    BY <2>4, <2>7
<1> QED
  BY <1>1, <1>5, <1>6, <1>7 DEF BookInv

\* The steps of a withdrawal before its commit.
LEMMA StartStep == ASSUME BookInv, StartWithdrawal PROVE BookInv'
<1>0. BookType /\ clock \in Nat
  BY DEF BookInv, OrderInv, TimesFit
<1>1. OrderInv'
  BY OrderStep DEF BookInv, Next
<1>2. /\ pc = "idle" /\ row.st = "queued" /\ pc' = "started"
      /\ job' = [NoJob EXCEPT !.user = row.user, !.at = clock] /\ clean' = TRUE
      /\ UNCHANGED <<pool, shares, snap, inflow, row, ahead, drift, skewed>>
  BY DEF StartWithdrawal, db
<1>3. job' \in [user : Users, at : Nat, nav : Lowest, owed : Lowest, out : Int]
  <2>1. row.user \in Users
    BY <1>0 DEF BookType
  <2> QED
    BY <1>0, <1>2, <2>1, NoneTypes
<1>4. BookType'
  BY <1>0, <1>2, <1>3 DEF BookType
<1>5. RowWaits' /\ BurnsCount' /\ PricedLive' /\ CreditAtBook'
  BY <1>2 DEF BookInv, RowWaits, BurnsCount, PricedLive, CreditAtBook
<1>6. BookFollowsMoney'
  BY <1>2 DEF BookInv, BookFollowsMoney, Uncredited
<1> QED
  BY <1>1, <1>4, <1>5, <1>6 DEF BookInv

LEMMA PriceStep == ASSUME BookInv, PriceWithdrawal PROVE BookInv'
<1>e. PICK e \in Misjudgements, f \in Splits :
        LET owed == Times(Minus(row.burned, row.fee), LivePrice(e)) IN
          /\ job' = [job EXCEPT !.nav = LivePrice(e), !.owed = owed, !.out = Payout(owed, f)]
          /\ ahead' = -e
  BY DEF PriceWithdrawal
<1> DEFINE net == Minus(row.burned, row.fee)
           nav == LivePrice(e)
           owed == Times(net, nav)
<1>m. e \in Int /\ pool + e >= 0
  BY Constants DEF Misjudgements
<1>0. BookType /\ nav \in Lowest /\ TotalShares \in Lowest /\ pool \in Nat
  BY <1>m, Supply DEF BookInv, BookType
<1>1. OrderInv'
  BY OrderStep DEF BookInv, Next
<1>2. /\ pc = "started" /\ pc' = "priced" /\ ahead' = -e
      /\ clean' = (clean /\ Uncredited = 0 /\ TotalShares.num > 0)
      /\ UNCHANGED <<pool, shares, snap, inflow, row, drift, skewed>>
  BY <1>e DEF PriceWithdrawal, db
<1>3. job' = [job EXCEPT !.nav = nav, !.owed = owed, !.out = Payout(owed, f)]
  BY <1>e
<1>4. f \in Lowest
  BY Constants
<1>5. net \in Lowest
  BY <1>0, Closed DEF BookType
<1>6. owed \in Lowest
  BY <1>0, <1>5, Closed
<1> HIDE DEF owed
<1>7. Payout(owed, f) \in Int /\ AtMost(Whole(Payout(owed, f)), owed)
  BY <1>4, <1>6, PayoutBelow
<1> HIDE DEF nav
<1> DEFINE out == Payout(owed, f)
<1>8. out \in Int /\ AtMost(Whole(out), owed) /\ job' = [job EXCEPT !.nav = nav, !.owed = owed, !.out = out]
  BY <1>3, <1>7
<1> HIDE DEF out
<1>9. /\ job' \in [user : Users, at : Nat, nav : Lowest, owed : Lowest, out : Int]
      /\ job'.nav = nav /\ job'.owed = owed /\ job'.out = out
  <2>1. job \in [user : Users, at : Nat, nav : Lowest, owed : Lowest, out : Int]
    BY <1>0 DEF BookType
  <2> QED
    BY <1>0, <1>6, <1>8, <2>1
<1>10. clean' \in BOOLEAN /\ ahead' \in Int
  BY <1>0, <1>2, <1>m DEF BookType
<1>11. BookType'
  BY <1>0, <1>2, <1>9, <1>10 DEF BookType
<1>12. RowWaits' /\ BurnsCount' /\ CreditAtBook'
  BY <1>2 DEF BookInv, RowWaits, BurnsCount, CreditAtBook
<1>13. TotalShares' = TotalShares /\ Uncredited' = Uncredited
  BY <1>2 DEF TotalShares, Uncredited
<1>14. PricedLive'
  <2>1. WorthPriced' = pool + e /\ pool + e \in Int
    BY <1>0, <1>2, <1>m DEF WorthPriced
  <2>2. Whole(pool + e) \in Lowest
    BY <2>1, WholeType
  <2>3. TotalShares.num > 0 => Times(TotalShares, nav) = Whole(pool + e)
    BY <1>0, <2>2, PriceFits DEF nav, LivePrice
  <2>4. /\ AtMost(Whole(job'.out), job'.owed)
        /\ job'.owed = Times(Minus(row'.burned, row'.fee), job'.nav)
    BY <1>2, <1>8, <1>9 DEF owed
  <2>5. clean' => /\ Uncredited' = 0 /\ WorthPriced' >= 0 /\ TotalShares'.num > 0
                  /\ Times(TotalShares', job'.nav) = Whole(WorthPriced')
    <3>1. clean' => Uncredited = 0 /\ TotalShares.num > 0
      BY <1>2, Zenon
    <3> SUFFICES ASSUME clean'
                 PROVE  /\ Uncredited' = 0 /\ WorthPriced' >= 0 /\ TotalShares'.num > 0
                        /\ Times(TotalShares', job'.nav) = Whole(WorthPriced')
      OBVIOUS
    <3> QED
      BY <1>0, <1>m, <1>9, <1>13, <2>1, <2>3, <3>1
  <2> QED
    BY <2>4, <2>5 DEF PricedLive
<1>15. BookFollowsMoney'
  BY <1>2, <1>13 DEF BookInv, BookFollowsMoney
<1> QED
  BY <1>1, <1>11, <1>12, <1>14, <1>15 DEF BookInv

LEMMA PayStep == ASSUME BookInv, Pay PROVE BookInv'
<1>0. BookType /\ Uncredited \in Int /\ pool \in Nat /\ ahead \in Int /\ job.out \in Int
  BY Supply DEF BookInv, BookType
<1>1. OrderInv'
  BY OrderStep DEF BookInv, Next
<1>2. /\ pc = "priced" /\ job.out <= pool /\ pool' = pool - job.out /\ pc' = "paid"
      /\ UNCHANGED <<shares, snap, inflow, row, job, ahead, drift, clean, skewed>>
  BY DEF Pay, db
<1>3. BookType'
  BY <1>0, <1>2 DEF BookType
<1>4. TotalShares' = TotalShares /\ Uncredited' = Uncredited /\ WorthPriced' = WorthPriced
  BY <1>0, <1>2 DEF TotalShares, Uncredited, WorthPriced
<1>5. RowWaits' /\ BurnsCount' /\ CreditAtBook' /\ PricedLive'
  BY <1>2, <1>4 DEF BookInv, RowWaits, BurnsCount, CreditAtBook, PricedLive
<1>6. BookFollowsMoney'
  <2>1. pool' - Uncredited' + job.out = pool - Uncredited + 0
    BY <1>0, <1>2, <1>4
  <2> QED
    BY <1>2, <2>1 DEF BookInv, BookFollowsMoney
<1> QED
  BY <1>1, <1>3, <1>5, <1>6 DEF BookInv
\* What was priced, less what was owed, and what drifted meanwhile, is what
\* the pool is worth after the payment.
LEMMA CommitFollows ==
  ASSUME NEW t \in Lowest, NEW net \in Lowest, NEW nav \in Lowest, NEW owed \in Lowest,
         owed = Times(net, nav), NEW p \in Int, NEW sn \in Int, NEW out \in Int,
         Times(t, nav) = Whole(p - sn + out)
  PROVE  Plus(Times(Minus(t, net), nav), Plus(Whole(sn), Minus(owed, Whole(out)))) = Whole(p)
<1> DEFINE k == p - sn + out
           wk == Whole(k)
           ws == Whole(sn)
           wo == Whole(out)
           x == Minus(wk, owed)
<1>1. k \in Int
  OBVIOUS
<1>2. wk \in Lowest /\ ws \in Lowest /\ wo \in Lowest
  BY <1>1, WholeType
<1>3. Times(Minus(t, net), nav) = x
  BY TimesSpreads
<1>4. Plus(wk, ws) = Whole(k + sn) /\ Minus(Whole(k + sn), wo) = Whole((k + sn) - out)
  <2> HIDE DEF k
  <2>1. k + sn \in Int
    BY <1>1
  <2>2. \A n, m \in Int : Plus(Whole(n), Whole(m)) = Whole(n + m)
    BY WholeLaws
  <2>3. \A n, m \in Int : Minus(Whole(n), Whole(m)) = Whole(n - m)
    BY WholeLaws
  <2>4. Plus(Whole(k), Whole(sn)) = Whole(k + sn)
    BY <1>1, <2>2
  <2>5. Minus(Whole(k + sn), Whole(out)) = Whole((k + sn) - out)
    <3> DEFINE j == k + sn
    <3> HIDE DEF j
    <3>1. j \in Int
      BY <2>1 DEF j
    <3>2. Minus(Whole(j), Whole(out)) = Whole(j - out)
      BY <2>3, <3>1
    <3> QED
      BY <3>2 DEF j
  <2> QED
    BY <2>4, <2>5
<1>5. (k + sn) - out = p
  OBVIOUS
<1> HIDE DEF k, wk, ws, wo
<1>6. x \in Lowest /\ Plus(x, owed) = wk
  BY <1>2, Closed, MinusUndoes
<1> HIDE DEF x
<1>7. Plus(ws, owed) \in Lowest /\ Plus(ws, owed) = Plus(owed, ws)
  BY <1>2, Closed, PlusTurns
<1>8. Plus(ws, Minus(owed, wo)) = Minus(Plus(ws, owed), wo)
  BY <1>2, MinusGroups
<1>9. Plus(x, Minus(Plus(ws, owed), wo)) = Minus(Plus(x, Plus(ws, owed)), wo)
  BY <1>2, <1>6, <1>7, MinusGroups
<1>10. Plus(x, Plus(owed, ws)) = Plus(Plus(x, owed), ws)
  BY <1>2, <1>6, PlusGroups
<1> QED
  BY <1>3, <1>4, <1>5, <1>6, <1>7, <1>8, <1>9, <1>10 DEF wo, ws

LEMMA CommitStep == ASSUME BookInv, CommitWithdrawal PROVE BookInv'
<1> DEFINE net == Minus(row.burned, row.fee)
           total == Times(Minus(TotalShares, net), job.nav)
<1>0. /\ BookType /\ TotalShares \in Lowest /\ Uncredited \in Int
      /\ pool \in Nat /\ ahead \in Int /\ job.out \in Int /\ job.at \in Nat
      /\ job.nav \in Lowest /\ job.owed \in Lowest /\ row.burned \in Lowest /\ row.fee \in Lowest
      /\ row.user \in Users
  BY Supply DEF BookInv, BookType
<1>1. OrderInv'
  BY OrderStep DEF BookInv, Next
<1>2. /\ pc = "paid" /\ shares' = [shares EXCEPT ![row.user] = Minus(@, row.burned)]
      /\ InsertNavSnapshot(job.at, total)
      /\ row' = NoRow /\ pc' = "idle" /\ job' = NoJob
      /\ drift' = Plus(Whole(ahead), Minus(job.owed, Whole(job.out))) /\ ahead' = 0
      /\ skewed' = ~clean /\ UNCHANGED <<pool, inflow, clean>>
  BY DEF CommitWithdrawal
<1>3. net \in Lowest
  BY <1>0, Closed
<1>4. total \in Lowest
  <2> HIDE DEF net
  <2>1. Minus(TotalShares, net) \in Lowest
    BY <1>0, <1>3, Closed
  <2> QED
    BY <1>0, <2>1, Closed
<1>5. shares' \in [Users -> Lowest]
  <2>1. shares \in [Users -> Lowest]
    BY <1>0 DEF BookType
  <2>2. Minus(shares[row.user], row.burned) \in Lowest
    BY <1>0, <2>1, Closed
  <2> QED
    BY <1>2, <2>1, <2>2
<1>6. drift' \in Lowest
  <2>1. Whole(ahead) \in Lowest /\ Whole(job.out) \in Lowest
    BY <1>0, WholeType
  <2>2. Minus(job.owed, Whole(job.out)) \in Lowest
    BY <1>0, <2>1, Closed
  <2> QED
    BY <1>2, <2>1, <2>2, Closed
<1>7. snap' \in [ts : Nat, total : Lowest] /\ (job.at >= snap.ts => snap'.total = total)
  <2> HIDE DEF total
  <2>1. snap \in [ts : Nat, total : Lowest]
    BY <1>0 DEF BookType
  <2>2. CASE job.at >= snap.ts
    BY <1>0, <1>2, <1>4, <2>2 DEF InsertNavSnapshot
  <2>3. CASE ~(job.at >= snap.ts)
    BY <1>2, <2>1, <2>3 DEF InsertNavSnapshot
  <2> QED
    BY <2>2, <2>3
<1>8. BookType'
  <2>1. skewed' \in BOOLEAN /\ ahead' \in Int /\ UNCHANGED <<pool, inflow, clean>>
    BY <1>2
  <2> QED
    BY <1>0, <1>2, <1>5, <1>6, <1>7, <2>1, NoneTypes DEF BookType
<1>9. RowWaits' /\ BurnsCount' /\ CreditAtBook' /\ PricedLive'
  BY <1>2, NoneTypes DEF RowWaits, BurnsCount, CreditAtBook, PricedLive
<1>10. BookFollowsMoney'
  <2>1. Uncredited' = Uncredited
    BY <1>2 DEF Uncredited
  <2>2. SUFFICES ASSUME clean PROVE Whole(pool - Uncredited + 0) = Plus(snap'.total, drift')
    BY <1>2, <2>1 DEF BookFollowsMoney
  <2>3. /\ Uncredited = 0 /\ job.owed = Times(net, job.nav)
        /\ Times(TotalShares, job.nav) = Whole(pool - ahead + job.out)
    BY <1>2, <2>2 DEF BookInv, PricedLive, WorthPriced
  <2>4. job.at >= snap.ts
    BY <1>2, <2>2 DEF BookInv, OrderInv, JobIsLatest, TimesFit
  <2> HIDE DEF net
  <2>5. Plus(total, Plus(Whole(ahead), Minus(job.owed, Whole(job.out)))) = Whole(pool)
    <3> DEFINE t == TotalShares
               nav == job.nav
               owed == job.owed
               out == job.out
    <3>1. /\ t \in Lowest /\ nav \in Lowest /\ owed \in Lowest /\ owed = Times(net, nav)
          /\ pool \in Int /\ ahead \in Int /\ out \in Int
          /\ Times(t, nav) = Whole(pool - ahead + out)
      BY <1>0, <2>3
    <3> HIDE DEF t, nav, owed, out
    <3>2. Plus(Times(Minus(t, net), nav), Plus(Whole(ahead), Minus(owed, Whole(out)))) = Whole(pool)
      BY <1>3, <3>1, CommitFollows
    <3> QED
      BY <3>2 DEF t, nav, owed, out
  <2>6. pool - Uncredited + 0 = pool
    BY <1>0, <2>3
  <2> QED
    BY <1>2, <1>7, <2>4, <2>5, <2>6
<1> QED
  BY <1>1, <1>8, <1>9, <1>10 DEF BookInv

LEMMA GiveUpStep == ASSUME BookInv, GiveUp PROVE BookInv'
<1>0. BookType
  BY DEF BookInv
<1>1. OrderInv'
  BY OrderStep DEF BookInv, Next
<1>2. /\ pc' = "idle" /\ job' = NoJob
      /\ row' = IF pc \in {"started", "priced", "paid"} THEN NoRow ELSE row
      /\ skewed' = (skewed \/ pc = "paid") /\ ahead' = 0
      /\ UNCHANGED <<pool, shares, snap, inflow, drift, clean>>
  BY DEF GiveUp
<1>3. BookType' /\ BurnsCount'
  <2>1. skewed' \in BOOLEAN /\ ahead' \in Int
    BY <1>2
  <2>2. row' = NoRow \/ row' = row
    BY <1>2
  <2> QED
    BY <1>0, <1>2, <2>1, <2>2, NoneTypes DEF BookInv, BookType, BurnsCount
<1>4. RowWaits' /\ CreditAtBook' /\ PricedLive'
  BY <1>2 DEF RowWaits, CreditAtBook, PricedLive
<1>5. BookFollowsMoney'
  <2>1. Uncredited' = Uncredited
    BY <1>2 DEF Uncredited
  <2>2. SUFFICES ASSUME ~skewed, pc # "paid" PROVE Whole(pool - Uncredited + 0) = Plus(snap.total, drift)
    BY <1>2, <2>1 DEF BookFollowsMoney
  <2> QED
    BY <2>2 DEF BookInv, BookFollowsMoney
<1> QED
  BY <1>1, <1>3, <1>4, <1>5 DEF BookInv

LEMMA BookStep == BookInv /\ [Next]_vars => BookInv'
<1> SUFFICES ASSUME BookInv, [Next]_vars PROVE BookInv'
  OBVIOUS
<1>1. CASE UNCHANGED vars
  <2>1. OrderInv'
    BY OrderStep DEF BookInv
  <2>2. /\ UNCHANGED <<pool, shares, snap, inflow, ahead, drift, clean, skewed>>
        /\ UNCHANGED <<row, pc, job>>
    BY <1>1 DEF vars, db, loop
  <2> QED
    BY <2>1, <2>2, BookStays DEF BookInv
<1> QED
  BY <1>1, RequestStep, TickStep, SweepStep, MoveStep, ReadStep, RecreditStep, PipelineStep,
     StartStep, PriceStep, PayStep, CommitStep, GiveUpStep DEF Next

LEMMA BookStarts == Init => BookInv
<1> SUFFICES ASSUME Init PROVE BookInv
  OBVIOUS
<1>1. OrderInv
  BY OrderStarts
<1>2. /\ pool = InitialNav /\ shares = [u \in Users |-> IF u = Operator THEN Whole(InitialNav) ELSE Zero]
      /\ snap = [ts |-> 0, total |-> Whole(InitialNav)] /\ inflow = [u \in Users |-> 0]
      /\ row = NoRow /\ pc = "idle" /\ job = NoJob
      /\ drift = Zero /\ ahead = 0 /\ clean = TRUE /\ skewed = FALSE
  BY DEF Init
<1>3. /\ IsFiniteSet(Users) /\ InitialNav \in Nat /\ Zero \in Lowest
      /\ Whole(InitialNav) \in Lowest
  BY Constants, WholeType
<1>4. BookType
  <2>1. shares \in [Users -> Lowest] /\ inflow \in [Users -> Nat]
    BY <1>2, <1>3
  <2>2. snap \in [ts : Nat, total : Lowest]
    BY <1>2, <1>3
  <2>3. pool \in Nat /\ ahead \in Int /\ drift \in Lowest
    BY <1>2, <1>3
  <2>5. clean \in BOOLEAN /\ skewed \in BOOLEAN
    BY <1>2, Zenon
  <2>4. row = NoRow /\ job = NoJob
    BY <1>2
  <2> QED
    BY <2>1, <2>2, <2>3, <2>4, <2>5, NoneTypes DEF BookType
<1>5. RowWaits /\ BurnsCount /\ CreditAtBook /\ PricedLive
  BY <1>2, NoneTypes DEF RowWaits, BurnsCount, CreditAtBook, PricedLive
<1>6. BookFollowsMoney
  <2>1. Uncredited = 0
    BY <1>2, <1>3, SumOfZeros DEF Uncredited
  <2>2. Plus(Whole(InitialNav), Zero) = Whole(InitialNav)
    BY <1>3, PlusZero
  <2>3. pool - Uncredited + 0 = InitialNav
    BY <1>2, <1>3, <2>1
  <2> QED
    BY <1>2, <2>2, <2>3 DEF BookFollowsMoney
<1> QED
  BY <1>1, <1>4, <1>5, <1>6 DEF BookInv

\* The snapshots that creditEngine.ts and withdrawalExecutor.ts write lose no
\* money and invent none, for any fee, any split of a payout, any number of
\* depositors and any prices: only the disturbances named by skewed set the
\* book wrong, and the next undisturbed withdrawal sets it right.
THEOREM BookIsRight == Spec => []BookFollowsMoney
<1>1. BookInv => BookFollowsMoney
  BY DEF BookInv
<1> QED
  BY <1>1, BookStarts, BookStep, PTL DEF Spec
-----------------------------------------------------------------------------
(* What a payout and a deposit do to the other holders. *)

LEMMA MinusMinus ==
  ASSUME NEW a \in Lowest, NEW b \in Lowest, NEW c \in Lowest
  PROVE  Plus(Minus(a, b), c) = Minus(a, Minus(b, c))
<1> DEFINE d == Minus(b, c)
<1>1. d \in Lowest /\ Plus(d, c) = b
  BY Closed, MinusUndoes
<1> HIDE DEF d
<1>2. Minus(b, d) = c
  <2>1. Plus(c, d) = b
    BY <1>1, PlusTurns
  <2> QED
    BY <1>1, <2>1, MinusUndoes
<1>3. Plus(Minus(a, b), Minus(b, d)) = Minus(a, d)
  BY <1>1, MinusCommon
<1> QED
  BY <1>2, <1>3 DEF d

\* The others' part of the pool is what is left of it without the burned part.
LEMMA PartLeft ==
  ASSUME NEW t \in Lowest, t.num # 0, NEW b \in Lowest, NEW p \in Lowest, NEW a \in Lowest,
         NEW o \in Lowest, AtMost(Times(o, t), Times(Minus(p, a), b))
  PROVE  AtMost(Times(Plus(Over(Times(p, Minus(t, b)), t), Over(Times(a, b), t)), t),
                Times(Minus(p, o), t))
<1> DEFINE held == Minus(t, b)
           x == Over(Times(p, held), t)
           y == Over(Times(a, b), t)
           c == Times(p, t)
           pb == Times(p, b)
           ab == Times(a, b)
<1>1. held \in Lowest /\ c \in Lowest /\ pb \in Lowest /\ ab \in Lowest /\ Times(o, t) \in Lowest
  BY Closed
<1>2. Times(p, held) \in Lowest
  BY <1>1, Closed
<1>3. x \in Lowest /\ y \in Lowest /\ Times(x, t) = Times(p, held) /\ Times(y, t) = ab
  BY <1>1, <1>2, Closed, OverUndoes
<1>4. Times(Minus(p, a), b) = Minus(pb, ab) /\ Times(Minus(p, o), t) = Minus(c, Times(o, t))
  BY TimesSpreads
<1>5. Times(p, held) = Minus(c, pb)
  <2>1. Times(held, p) = Minus(Times(t, p), Times(b, p))
    BY TimesSpreads
  <2>2. Times(held, p) = Times(p, held) /\ Times(t, p) = c /\ Times(b, p) = pb
    BY <1>1, TimesTurns
  <2> QED
    BY <2>1, <2>2
<1> HIDE DEF held, c, pb, ab, x, y
<1>6. Times(Plus(x, y), t) = Plus(Times(x, t), Times(y, t))
  BY <1>3, TimesSpreads
<1>7. Times(Plus(x, y), t) = Plus(Minus(c, pb), ab)
  BY <1>3, <1>5, <1>6
<1>8. Plus(Minus(c, pb), ab) = Minus(c, Minus(pb, ab))
  BY <1>1, MinusMinus
<1>9. Minus(pb, ab) \in Lowest
  BY <1>1, Closed
<1>10. AtMost(Minus(c, Minus(pb, ab)), Minus(c, Times(o, t)))
  BY <1>1, <1>4, <1>9, AtMostMinus
<1> QED
  BY <1>4, <1>7, <1>8, <1>10 DEF x, y, ab, held

\* What is left is the others' part and the burned shares' part of what the
\* pool is ahead of its price.
LEMMA FairShare ==
  ASSUME NEW t \in Lowest, NEW nav \in Lowest, NEW burned \in Lowest, NEW fee \in Lowest,
         NEW owed \in Lowest, NEW p \in Nat, NEW a \in Int, NEW out \in Int,
         t.num > 0, burned.num >= 0, fee.num >= 0,
         owed = Times(Minus(burned, fee), nav), AtMost(Whole(out), owed),
         p - a >= 0, Times(t, nav) = Whole(p - a)
  PROVE  AtMost(Plus(Over(Times(Whole(p), Minus(t, burned)), t), Over(Times(Whole(a), burned), t)),
                Whole(p - out))
<1> DEFINE wp == Whole(p)
           wo == Whole(out)
           wa == Whole(a)
           wn == Whole(p - a)
           wr == Whole(p - out)
           net == Minus(burned, fee)
<1>1. p - a \in Int /\ p - out \in Int /\ p \in Int
  OBVIOUS
<1>2. /\ wp \in Lowest /\ wo \in Lowest /\ wn \in Lowest /\ wa \in Lowest /\ wr \in Lowest
      /\ wn.num >= 0
  BY <1>1, WholeType
<1>3. wr = Minus(wp, wo) /\ wn = Minus(wp, wa)
  BY <1>1, WholeLaws
<1>4. net \in Lowest /\ AtMost(net, burned) /\ AtMost(wo, owed)
  BY Closed, MinusShrinks
<1>5. t.num >= 0 /\ t.num # 0
  BY LowestType
<1> HIDE DEF wp, wo, wn, wa, wr, net
\* The payout is at most the burned part of what the pool was taken for.
<1>6. AtMost(Times(wo, t), Times(wn, burned))
  <2>1. AtMost(Times(wo, t), Times(owed, t))
    BY <1>2, <1>4, <1>5, AtMostTimes
  <2>2. Times(owed, t) = Times(net, wn)
    <3>1. Times(Times(net, nav), t) = Times(net, Times(nav, t))
      BY <1>4, TimesGroups
    <3>2. Times(nav, t) = Times(t, nav)
      BY TimesTurns
    <3> QED
      BY <3>1, <3>2 DEF net, wn
  <2>3. AtMost(Times(net, wn), Times(burned, wn))
    BY <1>2, <1>4, AtMostTimes
  <2>4. /\ Times(wo, t) \in Lowest /\ Times(net, wn) \in Lowest /\ Times(burned, wn) \in Lowest
        /\ Times(burned, wn) = Times(wn, burned)
    BY <1>2, <1>4, Closed, TimesTurns
  <2> QED
    BY <2>1, <2>2, <2>3, <2>4, AtMostTrans
<1> DEFINE x == Over(Times(wp, Minus(t, burned)), t)
           y == Over(Times(wa, burned), t)
<1>7. AtMost(Times(Plus(x, y), t), Times(Minus(wp, wo), t))
  BY <1>2, <1>3, <1>5, <1>6, PartLeft
<1>8. Plus(x, y) \in Lowest
  <2>1. Minus(t, burned) \in Lowest /\ Times(wa, burned) \in Lowest
    BY <1>2, Closed
  <2>2. Times(wp, Minus(t, burned)) \in Lowest
    BY <1>2, <2>1, Closed
  <2>3. x \in Lowest /\ y \in Lowest
    BY <1>5, <2>1, <2>2, Closed
  <2> HIDE DEF x, y
  <2> QED
    BY <2>3, Closed
<1> HIDE DEF x, y
<1>9. AtMost(Plus(x, y), wr)
  BY <1>2, <1>3, <1>7, <1>8, AtMostCancels
<1> QED
  BY <1>9 DEF x, y, wr, wp, wa

PaysFairly ==
  LET held   == Minus(TotalShares, row.burned)
      theirs == Over(Times(Whole(pool), held), TotalShares)
      error  == Over(Times(Whole(ahead), row.burned), TotalShares)
  IN  pc = "priced" /\ pc' = "paid" /\ clean
      => ~Less(Whole(pool'), Plus(theirs, error))

\* A payout takes from the pool at most the burned shares' part of what
\* processOne of withdrawalExecutor.ts took the pool for, whatever fee, split
\* and rounding it applies: whatever it has misjudged, the others lose at most
\* the burned shares' part of the error, and nothing if the pool was not
\* overvalued.
THEOREM PayoutsAreFair == Spec => PayoutIsFair
<1>1. BookInv /\ [Next]_vars => [PaysFairly]_vars
  <2> DEFINE t == TotalShares
             b == row.burned
             f == row.fee
             nav == job.nav
             owed == job.owed
             out == job.out
  <2> SUFFICES ASSUME BookInv, [Next]_vars, pc = "priced", pc' = "paid", clean
               PROVE  AtMost(Plus(Over(Times(Whole(pool), Minus(t, b)), t), Over(Times(Whole(ahead), b), t)),
                             Whole(pool'))
    BY DEF AtMost, PaysFairly
  <2>1. Pay
    BY DEF Next, Sweep, HandleRecreditDeposit, AskWithdrawal, ReadBookPrice, PipelineCredits,
           DoWithdraw, StartWithdrawal, PriceWithdrawal, CommitWithdrawal, GiveUp, Tick, Move, loop, vars
  <2>2. pool' = pool - job.out
    BY <2>1 DEF Pay
  <2>3. /\ t \in Lowest /\ nav \in Lowest /\ b \in Lowest /\ f \in Lowest /\ owed \in Lowest
        /\ pool \in Nat /\ ahead \in Int /\ out \in Int
    <3>1. BookType
      BY DEF BookInv
    <3> QED
      BY <3>1, Supply DEF BookType
  <2>4. b.num >= 0 /\ f.num >= 0
    BY DEF BookInv, BurnsCount
  <2>5. /\ AtMost(Whole(out), owed) /\ owed = Times(Minus(b, f), nav) /\ t.num > 0
        /\ WorthPriced >= 0 /\ Times(t, nav) = Whole(WorthPriced)
    BY DEF BookInv, PricedLive
  <2>6. WorthPriced = pool - ahead
    BY <2>3 DEF WorthPriced
  <2> HIDE DEF t, b, f, nav, owed, out
  <2>7. AtMost(Plus(Over(Times(Whole(pool), Minus(t, b)), t), Over(Times(Whole(ahead), b), t)),
               Whole(pool - out))
    BY <2>3, <2>4, <2>5, <2>6, FairShare
  <2> QED
    BY <2>2, <2>7 DEF out
<1> QED
  BY <1>1, BookStarts, BookStep, PTL DEF Spec, PayoutIsFair, PaysFairly
\* What the holders lose is the drift's part in the deposit's part of the pool.
LEMMA DilutedShare ==
  ASSUME NEW t \in Lowest, NEW nav \in Lowest, NEW s \in Lowest, NEW dr \in Lowest,
         NEW w \in Int, NEW d \in Nat, d > 0, t.num > 0, nav.num > 0,
         s = Times(t, nav), Whole(w) = Plus(s, dr), NEW t2 \in Lowest,
         t2 = Plus(t, Over(Whole(d), nav)), Times(t2, nav) = Plus(s, Whole(d)),
         NEW lost, lost = Minus(Whole(w), Over(Times(Whole(w + d), t), t2))
  PROVE  AtMost(lost, dr) \/ AtMost(lost, Zero)
<1> DEFINE ww == Whole(w)
           wd == Whole(d)
           wx == Whole(w + d)
           q == Over(wd, nav)
           after == Over(Times(wx, t), t2)
           part == Plus(s, wd)
<1>1. d \in Int /\ w + d \in Int
  OBVIOUS
<1>2. /\ ww \in Lowest /\ wd \in Lowest /\ wx \in Lowest /\ wd.num > 0 /\ wd.num >= 0
      /\ Zero \in Lowest /\ Zero.num = 0
  BY <1>1, WholeType, Constants
<1>3. wx = Plus(ww, wd)
  BY <1>1, WholeLaws
<1>4. s.num > 0 /\ nav.num # 0 /\ s.num >= 0
  <2>1. s.num > 0
    BY Signs
  <2> QED
    BY <2>1, LowestType
<1>5. lost = Minus(ww, after) /\ t2 = Plus(t, q) /\ Times(t2, nav) = part /\ ww = Plus(s, dr)
  OBVIOUS
<1> HIDE DEF ww, wd, wx
<1>6. part \in Lowest /\ part.num > 0
  BY <1>2, <1>4, Closed, Signs
<1>7. q \in Lowest /\ q.num > 0
  BY <1>2, <1>4, Closed, Signs
<1> HIDE DEF q
<1>8. t2.num > 0 /\ t2.num # 0
  <2>1. t.num >= 0
    BY LowestType
  <2>2. t2.num > 0
    BY <1>5, <1>7, <2>1, Signs
  <2> QED
    BY <2>2, LowestType
<1>9. Times(wx, t) \in Lowest
  BY <1>2, Closed
<1>10. after \in Lowest /\ Times(after, t2) = Times(wx, t)
  BY <1>8, <1>9, Closed, OverUndoes
<1> HIDE DEF after, part
<1>11. lost \in Lowest
  BY <1>2, <1>5, <1>10, Closed
<1>12. Times(after, part) = Plus(Times(ww, s), Times(wd, s))
  <2>1. Times(after, part) = Times(Times(after, t2), nav)
    BY <1>5, <1>10, TimesGroups
  <2>2. Times(Times(wx, t), nav) = Times(wx, s)
    BY <1>2, TimesGroups
  <2>3. Times(Plus(ww, wd), s) = Plus(Times(ww, s), Times(wd, s))
    BY <1>2, TimesSpreads
  <2> QED
    BY <1>3, <1>10, <2>1, <2>2, <2>3
<1>13. Times(ww, part) = Plus(Times(ww, s), Times(ww, wd))
  <2>1. Times(Plus(s, wd), ww) = Plus(Times(s, ww), Times(wd, ww))
    BY <1>2, TimesSpreads
  <2>2. Times(part, ww) = Times(ww, part) /\ Times(s, ww) = Times(ww, s) /\ Times(wd, ww) = Times(ww, wd)
    BY <1>2, <1>6, TimesTurns
  <2> QED
    BY <2>1, <2>2 DEF part
<1>14. Times(lost, part) = Times(dr, wd)
  <2> DEFINE a == Times(ww, s)
             b == Times(ww, wd)
             c == Times(wd, s)
  <2>1. a \in Lowest /\ b \in Lowest /\ c \in Lowest
    BY <1>2, Closed
  <2>2. Times(lost, part) = Minus(Times(ww, part), Times(after, part))
    BY <1>2, <1>5, <1>6, <1>10, TimesSpreads
  <2>3. Times(ww, part) = Plus(a, b) /\ Times(after, part) = Plus(a, c)
    BY <1>12, <1>13
  <2>4. c = Times(s, wd)
    BY <1>2, TimesTurns
  <2>5. Times(Minus(ww, s), wd) = Minus(b, Times(s, wd))
    BY <1>2, TimesSpreads
  <2>6. Minus(ww, s) = dr
    <3>1. ww = Plus(dr, s)
      BY <1>5, PlusTurns
    <3>2. Minus(Plus(dr, s), s) = dr
      BY MinusUndoes
    <3> QED
      BY <3>1, <3>2
  <2> HIDE DEF a, b, c
  <2>7. Minus(Plus(a, b), Plus(a, c)) = Minus(b, c)
    BY <2>1, MinusCommon
  <2> QED
    BY <2>2, <2>3, <2>4, <2>5, <2>6, <2>7
<1>15. CASE dr.num >= 0
  <2>1. AtMost(wd, part)
    <3>1. part = Plus(wd, s)
      BY <1>2, PlusTurns DEF part
    <3>2. Minus(part, s) = wd
      BY <1>2, <3>1, MinusUndoes
    <3>3. AtMost(Minus(part, s), part)
      BY <1>4, <1>6, MinusShrinks
    <3> QED
      BY <3>2, <3>3
  <2>2. AtMost(Times(wd, dr), Times(part, dr))
    BY <1>2, <1>6, <1>15, <2>1, AtMostTimes
  <2>3. Times(wd, dr) = Times(dr, wd) /\ Times(part, dr) = Times(dr, part)
    BY <1>2, <1>6, TimesTurns
  <2>4. AtMost(Times(lost, part), Times(dr, part))
    BY <1>14, <2>2, <2>3
  <2> QED
    BY <1>6, <1>11, <2>4, AtMostCancels
<1>16. CASE ~(dr.num >= 0)
  <2>1. AtMost(dr, Zero)
    <3>1. dr.num \in Int
      BY LowestType
    <3>2. Minus(dr, Zero) = dr
      BY <1>2, PlusZero, MinusUndoes
    <3>3. Less(dr, Zero)
      BY <1>16, <3>1, <3>2 DEF Less
    <3> QED
      BY <1>2, <3>3, AtMostIs
  <2>2. AtMost(Times(dr, wd), Times(Zero, wd))
    BY <1>2, <2>1, AtMostTimes
  <2>3. Times(Zero, wd) = Zero /\ Times(Zero, part) = Zero
    BY <1>2, <1>6, TimesZero
  <2>4. AtMost(Times(lost, part), Times(Zero, part))
    BY <1>14, <2>2, <2>3
  <2> QED
    BY <1>2, <1>6, <1>11, <2>4, AtMostCancels
<1> QED
  BY <1>15, <1>16

Dilutes ==
  LET worth == pool - Uncredited
      after == Over(Times(Whole(pool' - Uncredited'), TotalShares), TotalShares')
      lost  == Minus(Whole(worth), after)
  IN  Uncredited' < Uncredited /\ ~skewed /\ pc # "paid" /\ TotalShares.num > 0
      => ~Less(drift, lost) \/ ~Less(Zero, lost)

LEMMA CreditDilutes ==
  ASSUME BookInv, NEW u \in Users, NEW ts \in Nat, Credit(u, inflow[u], BookPrice, ts), pool' = pool
  PROVE  Dilutes
<1> DEFINE t == TotalShares
           nav == BookPrice
           s == snap.total
           d == inflow[u]
           w == pool - Uncredited
           t2 == TotalShares'
           lost == Minus(Whole(w), Over(Times(Whole(pool' - Uncredited'), t), t2))
<1>1. SUFFICES ASSUME ~skewed, pc # "paid", t.num > 0 PROVE AtMost(lost, drift) \/ AtMost(lost, Zero)
  BY DEF Dilutes, AtMost
<1>2. /\ BookType /\ t \in Lowest /\ nav \in Lowest /\ s \in Lowest /\ drift \in Lowest
      /\ Uncredited \in Int /\ pool \in Int
  BY Supply DEF BookInv, BookType
<1>3. /\ d \in Nat /\ d > 0 /\ nav.num > 0 /\ Uncredited' = Uncredited - d
      /\ t2 = Plus(t, Over(Whole(d), nav)) /\ t2 \in Lowest
      /\ Times(t2, nav) = Plus(Times(t, nav), Whole(d))
  BY <1>2, CreditBooks
<1>4. s = Times(t, nav)
  BY <1>1, <1>2, PriceFits DEF BookPrice
<1>5. Whole(w + 0) = Plus(s, drift)
  BY <1>1 DEF BookInv, BookFollowsMoney
<1>6. w \in Int /\ pool' - Uncredited' = w + d /\ w + 0 = w
  BY <1>2, <1>3
<1> HIDE DEF t, nav, s, d, w, t2
<1>7. lost = Minus(Whole(w), Over(Times(Whole(w + d), t), t2))
  BY <1>6
<1> HIDE DEF lost
<1>8. Whole(w) = Plus(s, drift) /\ Times(t2, nav) = Plus(s, Whole(d))
  BY <1>3, <1>4, <1>5, <1>6
<1> QED
  BY <1>1, <1>2, <1>3, <1>4, <1>6, <1>7, <1>8, DilutedShare

\* A deposit that creditEngine.ts prices with an old snapshot costs the other
\* holders at most what the snapshot has not seen, however old it is and
\* however large the deposit.
THEOREM DilutionIsBounded == Spec => DilutionBounded
<1>1. BookInv /\ [Next]_vars => [Dilutes]_vars
  <2> SUFFICES ASSUME BookInv, [Next]_vars, Uncredited' < Uncredited PROVE Dilutes
    BY DEF Dilutes
  <2>0. BookType /\ Uncredited \in Int
    BY Supply DEF BookInv
  <2>1. inflow' # inflow
    BY <2>0 DEF Uncredited
  <2>2. CASE PipelineCredits
    <3>1. job.user \in Users /\ job.at \in Nat /\ pc = "credit"
      BY <2>0, <2>2 DEF BookType, PipelineCredits
    <3>2. job.nav = BookPrice
      BY <3>1 DEF BookInv, CreditAtBook
    <3>3. Credit(job.user, inflow[job.user], BookPrice, job.at) /\ pool' = pool
      BY <2>2, <3>2 DEF PipelineCredits
    <3> QED
      BY <3>1, <3>3, CreditDilutes
  <2>3. ASSUME NEW u \in Users, HandleRecreditDeposit(u) PROVE Dilutes
    <3>1. Credit(u, inflow[u], BookPrice, clock) /\ pool' = pool /\ clock \in Nat
      BY <2>3 DEF HandleRecreditDeposit, BookInv, OrderInv, TimesFit
    <3> QED
      BY <3>1, CreditDilutes
  <2>4. ASSUME NEW u \in Users, NEW d \in DepositUsd, NEW rent \in {0, Rent}, Sweep(u, d, rent)
        PROVE  FALSE
    <3>1. /\ inflow \in [Users -> Int] /\ inflow[u] = 0 /\ d \in Int /\ d > 0 /\ IsFiniteSet(Users)
          /\ inflow' = [inflow EXCEPT ![u] = d]
      BY <2>0, <2>4, Constants DEF BookType, Sweep
    <3> DEFINE g == [inflow EXCEPT ![u] = d]
    <3>2. SumFunction(inflow) \in Int /\ SumFunction(g) = SumFunction(inflow) - inflow[u] + d
      BY <3>1, SumChanges
    <3>3. Uncredited' = Uncredited + d
      BY <3>1, <3>2 DEF Uncredited
    <3> QED
      BY <2>0, <3>1, <3>3
  <2> QED
    BY <2>1, <2>2, <2>3, <2>4
       DEF Next, AskWithdrawal, ReadBookPrice, DoWithdraw, StartWithdrawal, PriceWithdrawal, Pay,
           CommitWithdrawal, GiveUp, Tick, Move, db, vars
<1> QED
  BY <1>1, BookStarts, BookStep, PTL DEF Spec, DilutionBounded, Dilutes
=============================================================================
