----------------------------- MODULE NavLedger -----------------------------
(***************************************************************************)
(* What a share costs and what it pays: deposits are priced with the last  *)
(* NAV snapshot, withdrawals with the live value of the pool, and only     *)
(* deposits and withdrawals write snapshots (src/src/vault/creditEngine.ts, *)
(* shareMath.ts, navSnapshot.ts, withdrawalExecutor.ts, src/src/main.ts).  *)
(*                                                                         *)
(* The tick loop credits a deposit or pays a withdrawal, one at a time;    *)
(* /recreditdeposit and the depositors' requests run beside it. Money is   *)
(* counted at the prices of the oracle's last sample, in the smallest unit *)
(* a transfer can carry; a new sample moves the pool's worth. Shares,      *)
(* prices and book values are exact fractions. How a payment or a sweep    *)
(* can fail and be repeated is the subject of Withdrawals and Deposits:    *)
(* here a job that fails, or dies with the process, is given up.           *)
(***************************************************************************)
EXTENDS Fractions, Functions, FiniteSets

CONSTANTS
  Users, Operator,   \* depositors; the founding one
  InitialNav,        \* initialNavUsd of the bootstrap
  DepositUsd,        \* values a deposit may have
  Rent,              \* rentReserveLamports: credited, but left at the deposit address
  RequestUsd,        \* values a withdrawal may ask for
  Fee,               \* withdrawalFeeBps / 10000, a fraction
  Splits,            \* solFrac: the part of a payout that is made in SOL
  Misread,           \* by how much processOne or getNav may misjudge the pool
  Moves,             \* what market, swap costs and pool fees add to the pool
  MaxTime,           \* bound: the clock
  MaxOps             \* bound: deposits, requests and moves, together

ASSUME NavAssumption ==
  /\ Operator \in Users /\ IsFiniteSet(Users)
  /\ InitialNav \in Nat \ {0} /\ Rent \in Nat
  /\ \A d \in DepositUsd : d \in Nat /\ d > Rent
  /\ RequestUsd \subseteq Nat \ {0} /\ Moves \cup Misread \subseteq Int
  /\ \A f \in {Fee} \cup Splits :
       /\ f \in Fraction /\ f = Frac(f.num, f.den)
       /\ ~Less(f, Zero) /\ ~Less(Whole(1), f)
  /\ MaxTime \in Nat /\ MaxOps \in Nat

VARIABLES
  clock,     \* Date.now()
  pool,      \* worth of the main wallet, without the reserve, and the position,
             \* fees included
  (* SQLite *)
  shares,    \* per user: vault_shares
  snap,      \* the vault_nav_snapshots row with the greatest ts
  inflow,    \* per user: value of a deposit swept and not credited, 0 if none
  row,       \* the withdrawal asked for or queued
  (* the tick loop *)
  pc,        \* where it is
  job,       \* the deposit or withdrawal in work: user, start, price, payout
  (* history *)
  ops,       \* deposits, requests and moves so far
  drift,     \* what has come to the pool since the snapshot and is in no deposit
  ahead,     \* by how much the pool is worth more than the withdrawal in work was
             \* priced at: what was misjudged then, and the moves since
  clean,     \* no recredit beside the job, its price one of shares that exist
             \* and of no uncredited inflow?
  skewed,    \* did an unclean job write, or miss to write, the snapshot?
  late       \* was a clean job's snapshot written behind a later one?

db      == <<shares, snap, inflow, row>>
loop    == <<pc, job>>
vars    == <<clock, pool, db, loop, ops, drift, ahead, clean, skewed, late>>

NoRow == [st |-> "none", user |-> Operator, usd |-> 0, burned |-> Zero, fee |-> Zero, at |-> 0]
NoJob == [user |-> Operator, at |-> 0, nav |-> Zero, owed |-> Zero, out |-> 0]

\* runBootstrap, where the pool is worth what the operator says.
Init ==
  /\ clock = 0
  /\ pool = InitialNav
  /\ shares = [u \in Users |-> IF u = Operator THEN Whole(InitialNav) ELSE Zero]
  /\ snap = [ts |-> 0, total |-> Whole(InitialNav)]
  /\ inflow = [u \in Users |-> 0]
  /\ row = NoRow
  /\ pc = "idle" /\ job = NoJob
  /\ ops = 0 /\ drift = Zero /\ ahead = 0 /\ clean = TRUE /\ skewed = FALSE /\ late = FALSE

-----------------------------------------------------------------------------
(* shareMath.ts, and the two prices *)

ComputeNavPerShare(totalUsd, totalShares) ==
  IF totalShares.num <= 0 THEN Whole(1) ELSE Over(totalUsd, totalShares)

TotalShares == FoldFunction(Plus, Zero, shares)
Uncredited  == SumFunction(inflow)

\* getNavPerShare of main.ts: latest snapshot over current supply.
BookPrice == ComputeNavPerShare(snap.total, TotalShares)

\* Wallet and position are read one after the other; getPosition values the
\* position's BERT at the center of its range, and a position that is not stored
\* or not found counts as nothing.
Misjudgements == {e \in Misread : pool + e >= 0}

\* processOne: what the pool is taken for, uncollected fees left out, over current
\* supply. What was swept and not credited is in the wallet too.
LivePrice(e) == ComputeNavPerShare(Whole(pool + e), TotalShares)

\* getNav, for the commands: as LivePrice, with the uncollected fees; it falls
\* back to the snapshot.
QuotedPrices == {BookPrice} \cup {LivePrice(e) : e \in Misjudgements}

PayoutCeil(owed, f) ==   \* rounds up
  -(Floor(Minus(Zero, Times(owed, f))) + Floor(Minus(Zero, Times(owed, Minus(Whole(1), f)))))

\* splitUsdIntoTokens: each token's part is rounded down.
Payout(owed, f) == Floor(Times(owed, f)) + Floor(Times(owed, Minus(Whole(1), f)))

\* insertNavSnapshot, as latestNavSnapshot sees it: an equal ts is replaced,
\* a later one stays in front.
InsertNavSnapshot(ts, total) ==
  snap' = IF ts >= snap.ts THEN [ts |-> ts, total |-> total] ELSE snap

-----------------------------------------------------------------------------
(* Deposits. *)

\* The sweep of a deposit is confirmed; all but the rent, which a deposit of
\* BERT alone does not leave behind, is in the pool.
Sweep(u, d, rent) ==
  /\ pc = "idle" /\ inflow[u] = 0 /\ ops < MaxOps
  /\ pool' = pool + d - rent
  /\ inflow' = [inflow EXCEPT ![u] = d]
  /\ pc' = "swept"
  /\ job' = [NoJob EXCEPT !.user = u, !.at = clock]
  /\ ops' = ops + 1
  /\ drift' = Minus(drift, Whole(rent))
  /\ clean' = TRUE
  /\ UNCHANGED <<clock, shares, snap, row, ahead, skewed, late>>

\* getNavPerShare, awaited before the credit.
ReadBookPrice ==
  /\ pc = "swept"
  /\ pc' = "credit"
  /\ job' = [job EXCEPT !.nav = BookPrice]
  /\ UNCHANGED <<clock, pool, db, ops, drift, ahead, clean, skewed, late>>

CreditBefore(u, d, nav, ts) ==   \* the snapshot is computed before the mint
  /\ inflow[u] = d /\ d > 0 /\ nav.num > 0
  /\ shares' = [shares EXCEPT ![u] = Plus(@, Over(Whole(d), nav))]
  /\ InsertNavSnapshot(ts, Times(TotalShares, nav))
  /\ inflow' = [inflow EXCEPT ![u] = 0]

\* CreditEngine.credit: mint and snapshot; refuses a price of 0 and, by
\* UNIQUE(inbound_tx_sig), a deposit that is credited already.
Credit(u, d, nav, ts) ==
  /\ inflow[u] = d /\ d > 0 /\ nav.num > 0
  /\ shares' = [shares EXCEPT ![u] = Plus(@, Over(Whole(d), nav))]
  /\ InsertNavSnapshot(ts, Times(TotalShares', nav))
  /\ inflow' = [inflow EXCEPT ![u] = 0]

\* History: with no supply the price is 1, whatever the book held for it.
Orphaned == IF TotalShares.num <= 0 THEN Minus(snap.total, TotalShares) ELSE Zero

\* The end of onInflow.
PipelineCredits ==
  /\ pc = "credit"
  /\ Credit(job.user, inflow[job.user], job.nav, job.at)
  /\ pc' = "idle" /\ job' = NoJob
  /\ drift' = Plus(drift, Orphaned)
  /\ skewed' = (skewed \/ job.at < snap.ts)
  /\ late' = (late \/ (clean /\ job.at < snap.ts))
  /\ UNCHANGED <<clock, pool, row, ops, ahead, clean>>

\* /recreditdeposit: snapshot read and credit without an await between them.
HandleRecreditDeposit(u) ==
  /\ Credit(u, inflow[u], BookPrice, clock)
  /\ drift' = Plus(drift, Orphaned)
  /\ clean' = FALSE
  /\ UNCHANGED <<clock, pool, row, loop, ops, ahead, skewed, late>>

-----------------------------------------------------------------------------
(* Withdrawals. *)

\* handleWithdraw: the amount is checked against the balance.
AskWithdrawal(u, usd) ==
  /\ row = NoRow /\ ops < MaxOps
  /\ \E nav \in QuotedPrices : ~Less(Times(shares[u], nav), Whole(usd))
  /\ row' = [NoRow EXCEPT !.st = "asked", !.user = u, !.usd = usd]
  /\ ops' = ops + 1
  /\ UNCHANGED <<clock, pool, shares, snap, inflow, loop,
                 drift, ahead, clean, skewed, late>>

\* _doWithdraw, after the code was sent: the price is read again.
DoWithdraw ==
  /\ row.st = "asked"
  /\ \E nav \in QuotedPrices :
       \/ /\ nav.num > 0
          /\ LET burned == Over(Whole(row.usd), nav) IN
               row' = [row EXCEPT !.st = "queued", !.at = clock,
                                  !.burned = burned, !.fee = Times(burned, Fee)]
       \/ nav.num <= 0 /\ row' = NoRow
  /\ UNCHANGED <<clock, pool, shares, snap, inflow, loop, ops,
                 drift, ahead, clean, skewed, late>>

StartWithdrawalQueuedAt ==   \* the snapshot gets the time of the request
  /\ pc = "idle" /\ row.st = "queued"
  /\ pc' = "started"
  /\ job' = [NoJob EXCEPT !.user = row.user, !.at = row.at]
  /\ clean' = TRUE
  /\ UNCHANGED <<clock, pool, db, ops, drift, ahead, skewed, late>>

\* processOne reads the clock; oracle, balances and position are awaited.
StartWithdrawal ==
  /\ pc = "idle" /\ row.st = "queued"
  /\ pc' = "started"
  /\ job' = [NoJob EXCEPT !.user = row.user, !.at = clock]
  /\ clean' = TRUE
  /\ UNCHANGED <<clock, pool, db, ops, drift, ahead, skewed, late>>

\* processOne: price, amounts, reserves.
PriceWithdrawal ==
  /\ pc = "started"
  /\ pc' = "priced"
  /\ \E e \in Misjudgements, f \in Splits :
       LET owed == Times(Minus(row.burned, row.fee), LivePrice(e)) IN
         /\ job' = [job EXCEPT !.nav = LivePrice(e), !.owed = owed, !.out = Payout(owed, f)]
         /\ ahead' = -e
  /\ clean' = (clean /\ Uncredited = 0 /\ TotalShares.num > 0)
  /\ UNCHANGED <<clock, pool, db, ops, drift, skewed, late>>

\* executeTransfer is confirmed.
Pay ==
  /\ pc = "priced" /\ job.out <= pool
  /\ pool' = pool - job.out
  /\ pc' = "paid"
  /\ UNCHANGED <<clock, db, job, ops, drift, ahead, clean, skewed, late>>

CommitWithdrawalAllBurned ==   \* the fee's worth is taken off the pool too
  /\ pc = "paid"
  /\ shares' = [shares EXCEPT ![row.user] = Minus(@, row.burned)]
  /\ InsertNavSnapshot(job.at, Times(TotalShares', job.nav))
  /\ row' = NoRow
  /\ pc' = "idle" /\ job' = NoJob
  /\ drift' = Plus(Whole(ahead), Minus(job.owed, Whole(job.out)))
  /\ ahead' = 0
  /\ skewed' = ~clean
  /\ late' = (late \/ (clean /\ job.at < snap.ts))
  /\ UNCHANGED <<clock, pool, inflow, ops, clean>>

\* The commit: burn and snapshot. The book is what was priced, less what was
\* owed for the net shares; the fee's worth stays.
CommitWithdrawal ==
  /\ pc = "paid"
  /\ shares' = [shares EXCEPT ![row.user] = Minus(@, row.burned)]
  /\ InsertNavSnapshot(job.at,
       Times(Minus(TotalShares, Minus(row.burned, row.fee)), job.nav))
  /\ row' = NoRow
  /\ pc' = "idle" /\ job' = NoJob
  /\ drift' = Plus(Whole(ahead), Minus(job.owed, Whole(job.out)))
  /\ ahead' = 0
  /\ skewed' = ~clean
  /\ late' = (late \/ (clean /\ job.at < snap.ts))
  /\ UNCHANGED <<clock, pool, inflow, ops, clean>>

-----------------------------------------------------------------------------
\* The job fails, or the process dies in it. A swept deposit waits for
\* /recreditdeposit; a withdrawal is over, and if it was paid its shares are
\* not burned.
GiveUp ==
  /\ pc # "idle"
  /\ pc' = "idle" /\ job' = NoJob
  /\ row' = IF pc \in {"started", "priced", "paid"} THEN NoRow ELSE row
  /\ skewed' = (skewed \/ pc = "paid")
  /\ ahead' = 0
  /\ UNCHANGED <<clock, pool, shares, snap, inflow, ops, drift, clean, late>>

\* Prices move, the rebalancer pays for swaps, the position earns fees.
Move(m) ==
  /\ ops < MaxOps /\ pool + m >= 0
  /\ pool' = pool + m
  /\ ops' = ops + 1
  /\ drift' = Plus(drift, Whole(m))
  /\ ahead' = IF pc \in {"priced", "paid"} THEN ahead + m ELSE ahead
  /\ UNCHANGED <<clock, db, loop, clean, skewed, late>>

Tick ==
  /\ clock < MaxTime
  /\ clock' = clock + 1
  /\ UNCHANGED <<pool, db, loop, ops, drift, ahead, clean, skewed, late>>

Next ==
  \/ \E u \in Users :
       \/ \E d \in DepositUsd, rent \in {0, Rent} : Sweep(u, d, rent)
       \/ HandleRecreditDeposit(u)
       \/ \E usd \in RequestUsd : AskWithdrawal(u, usd)
  \/ ReadBookPrice \/ PipelineCredits
  \/ DoWithdraw \/ StartWithdrawal \/ PriceWithdrawal \/ Pay \/ CommitWithdrawal
  \/ GiveUp \/ Tick
  \/ \E m \in Moves : Move(m)

Spec == Init /\ [][Next]_vars

-----------------------------------------------------------------------------
(* Properties. *)

\* The book loses no money and invents none: the pool is worth the latest
\* snapshot, what was swept and waits for its credit, what a payment has not
\* yet booked, and what moves, rents, rounding and the misjudgement in the
\* snapshot add to that. Only a recredit beside a job, an inflow that was in a
\* withdrawal's price, overdrawn accounts that leave no supply to divide by, or a
\* paid withdrawal whose commit was lost set the book wrong, and the next
\* undisturbed withdrawal sets it right.
BookFollowsMoney ==
  ~skewed =>
    Whole(pool - Uncredited + (IF pc = "paid" THEN job.out ELSE 0)) = Plus(snap.total, drift)

\* ts is the key of the snapshots and a job's ts is read long before its
\* snapshot is written; still, only a recredit beside the job can leave the
\* job's snapshot behind a later one, where latestNavSnapshot does not see it.
SnapshotsInOrder == ~late

\* A payout leaves the others their part of the pool, but for the burned
\* shares' part of what the pool was overvalued by when it was paid: a position
\* valued at the center of its range, or prices that fell since. Neither the
\* rounding, nor an earlier payout whose commit was lost, nor a supply that an
\* overdrawn account has cut makes it cost them more.
PayoutIsFair ==
  [][LET held   == Minus(TotalShares, row.burned)
         theirs == Over(Times(Whole(pool), held), TotalShares)
         error  == Over(Times(Whole(ahead), row.burned), TotalShares)
     IN  pc = "priced" /\ pc' = "paid" /\ clean
         => ~Less(Whole(pool'), Plus(theirs, error))]_vars

\* Deposits are priced with an old snapshot. That costs the earlier holders
\* at most what the snapshot had not seen or had misjudged, and nothing if that
\* was a loss.
DilutionBounded ==
  [][LET worth == pool - Uncredited
         after == Over(Times(Whole(pool' - Uncredited'), TotalShares), TotalShares')
         lost  == Minus(Whole(worth), after)
     IN  Uncredited' < Uncredited /\ ~skewed /\ pc # "paid" /\ TotalShares.num > 0
         => ~Less(drift, lost) \/ ~Less(Zero, lost)]_vars
=============================================================================
