--------------------------- MODULE TradingProofs ---------------------------
(***************************************************************************)
(* Proofs about module Trading. First the swap, for every wallet, floor,   *)
(* cap and number of retries: what a swap that lands unseen, and is sent   *)
(* again, can do to the new position and to the SOL floor. Then the price, *)
(* for every set of sources and quotes, every window and divergence: what  *)
(* the mean of the oracle has to do with the quotes, and which samples the *)
(* strategy counts while the range moves with SOL/USD.                     *)
(***************************************************************************)
EXTENDS Trading, Arithmetic, TLAPS

Coins == [sol : Nat, bert : Nat]

LEMMA MinPair == \A a, b \in Int : Min({a, b}) = IF a <= b THEN a ELSE b
<1> SUFFICES ASSUME NEW a \in Int, NEW b \in Int
             PROVE  Min({a, b}) = IF a <= b THEN a ELSE b
  OBVIOUS
<1>1. \E x \in {a, b} : \A y \in {a, b} : x <= y
  OBVIOUS
<1>2. Min({a, b}) \in {a, b} /\ \A y \in {a, b} : Min({a, b}) <= y
  BY <1>1 DEF Min
<1> QED
  BY <1>2

LEMMA Halves == \A n \in Nat : n \div 2 \in Nat /\ 2 * (n \div 2) \in {n, n - 1}
OBVIOUS

-----------------------------------------------------------------------------
(* Swaps. *)

\* The wallet w after the swap s has landed k times.
After(w, s, k) == [sol |-> w.sol - k * s, bert |-> w.bert + k * s]

Off(w) == Abs(Usable(w) - w.bert)

\* One swap brings the wallet to 50/50, two bring it as far off as it was,
\* on the other side; neither touches the floor.
LEMMA TwiceIsNoWorse ==
  ASSUME NEW w \in Coins, NEW s \in {0, SwapToRatio(w)}, NEW k \in 0..2, After(w, s, k) \in Coins
  PROVE  /\ Off(After(w, s, k)) <= Off(w)
         /\ After(w, s, k).sol >= Min({SolFloor, w.sol})
<1> USE TradingAssumption DEF Coins
<1>1. s \in Int
  BY Halves DEF SwapToRatio, Usable, Abs
<1> DEFINE v == After(w, s, k)
<1>2. v.sol = w.sol - k * s /\ v.bert = w.bert + k * s /\ v.sol \in Nat /\ v.bert \in Nat
  BY DEF After
<1>3. \/ s = 0
      \/ Usable(w) > w.bert /\ s \in Nat /\ 2 * s \in {Usable(w) - w.bert, Usable(w) - w.bert - 1}
      \/ /\ Usable(w) <= w.bert /\ -s \in Nat
         /\ 2 * (-s) \in {w.bert - Usable(w), w.bert - Usable(w) - 1}
  BY Halves DEF SwapToRatio, Usable, Abs
<1>4. Min({SolFloor, w.sol}) = IF SolFloor <= w.sol THEN SolFloor ELSE w.sol
  BY MinPair
<1>5. \/ v.sol = w.sol /\ v.bert = w.bert
      \/ v.sol = w.sol - s /\ v.bert = w.bert + s
      \/ v.sol = w.sol - 2 * s /\ v.bert = w.bert + 2 * s
  <2>1. k = 0 \/ k = 1 \/ k = 2
    OBVIOUS
  <2> QED
    BY <1>1, <1>2, <2>1
<1>6. Usable(w) = IF w.sol > SolFloor THEN w.sol - SolFloor ELSE 0
  BY DEF Usable
<1>7. Usable(v) = IF v.sol > SolFloor THEN v.sol - SolFloor ELSE 0
  BY DEF Usable
<1> HIDE DEF v
<1>8. v.sol >= Min({SolFloor, w.sol})
  BY <1>1, <1>2, <1>3, <1>4, <1>5, <1>6
<1>9. Abs(Usable(v) - v.bert) <= Abs(Usable(w) - w.bert)
  BY <1>1, <1>2, <1>3, <1>5, <1>6, <1>7 DEF Abs
<1> QED
  BY <1>8, <1>9 DEF Off, v

-----------------------------------------------------------------------------
(* Scaling to the cap. *)

LEMMA Quotient ==
  ASSUME NEW n \in Nat, NEW t \in Nat \ {0}
  PROVE  n \div t \in Nat /\ t * (n \div t) <= n /\ n < t * (n \div t) + t
OBVIOUS

\* Scaling two amounts down brings them no further apart, and none of them up.
LEMMA ScaledFits ==
  ASSUME NEW a \in Nat, NEW b \in Nat, NEW cap \in Nat, NEW t \in Nat \ {0}, cap <= t, b <= a
  PROVE  /\ (a * cap) \div t \in Nat /\ (a * cap) \div t <= a
         /\ (b * cap) \div t <= (a * cap) \div t
         /\ (a * cap) \div t - (b * cap) \div t <= a - b
<1> DEFINE p == (a * cap) \div t
           q == (b * cap) \div t
<1>1. a * cap \in Nat /\ b * cap \in Nat /\ b * cap <= a * cap /\ a * cap <= a * t
  OBVIOUS
<1>2. (a - b) * cap <= (a - b) * t /\ (a - b) * cap = a * cap - b * cap
  OBVIOUS
<1>3. p \in Nat /\ t * p <= a * cap /\ a * cap < t * p + t
  BY <1>1, Quotient
<1>4. q \in Nat /\ t * q <= b * cap /\ b * cap < t * q + t
  BY <1>1, Quotient
<1> HIDE DEF p, q
<1>5. p <= a
  <2> SUFFICES ASSUME p >= a + 1 PROVE FALSE
    BY <1>3
  <2>1. t * p >= t * (a + 1)
    BY <1>3
  <2> QED
    BY <1>1, <1>3, <2>1
<1>6. q <= p
  <2> SUFFICES ASSUME q >= p + 1 PROVE FALSE
    BY <1>3, <1>4
  <2>1. t * q >= t * (p + 1)
    BY <1>3, <1>4
  <2> QED
    BY <1>1, <1>3, <1>4, <2>1
<1>7. p - q <= a - b
  <2> SUFFICES ASSUME p >= q + (a - b) + 1 PROVE FALSE
    BY <1>3, <1>4
  <2>1. t * p >= t * (q + (a - b) + 1)
    BY <1>3, <1>4
  <2>2. t * (q + (a - b) + 1) = t * q + t * (a - b) + t
    BY <1>4
  <2> QED
    BY <1>1, <1>2, <1>3, <1>4, <2>1, <2>2
<1> QED
  BY <1>3, <1>5, <1>6, <1>7 DEF p, q

-----------------------------------------------------------------------------
(* The invariant. *)

Before == {"fetch", "decide", "swap"}
Sized  == {"size", "open", "after"}

TradeType ==
  /\ pc \in Before \cup Sized \cup {"bundle", "rpc"}
  /\ wallet \in Coins /\ start \in Coins /\ deposit \in Coins
  /\ swap \in Int /\ cur \in {"none", "live", "landed", "dead"}
  /\ flying \in Nat /\ abandoned \in Nat /\ strayed \in BOOLEAN

\* Nothing is sent before the swap is built, and nothing after it was
\* confirmed or given up for good.
SendsFit ==
  /\ pc \in Before => /\ cur = "none" /\ flying = 0 /\ abandoned = 0 /\ ~strayed /\ swap = 0
                      /\ wallet = start
  /\ pc \in Sized => cur = "none"
  /\ strayed => pc \in {"open", "after"}
  /\ pc \notin {"open", "after"} => deposit = Empty
  /\ swap \in {0, SwapToRatio(start)}

\* Every send that landed, flies or is waited for was given up, is the one
\* that is waited for, or was the last.
Counted(k) ==
  k + flying + (IF cur = "live" THEN 1 ELSE 0) <=
    abandoned + (IF cur \in {"live", "landed"} \/ pc \in Sized THEN 1 ELSE 0)

\* Until the position is opened the wallet is the one at the start, after k
\* swaps.
WalletFits == pc # "after" => \E k \in Nat : wallet = After(start, swap, k) /\ Counted(k)

\* What the position is built with was in the wallet above the floor.
DepositFits == pc = "open" /\ ~strayed => deposit.sol <= Usable(wallet)

TradeInv == TradeType /\ SendsFit /\ WalletFits /\ DepositFits /\ SwapNoWorse /\ FloorKept

LEMMA AtMostTwo ==
  \A k, f \in Nat, a \in {0, 1} : (\E x, y \in {0, 1} : k + f + x <= a + y) => k \in 0..2
OBVIOUS

\* Two swaps at most have landed when only one send was given up.
LEMMA LandedAtMostTwice ==
  ASSUME TradeType, SendsFit, NEW k \in Nat, wallet = After(start, swap, k), Counted(k), abandoned <= 1
  PROVE  Off(wallet) <= Off(start) /\ wallet.sol >= Min({SolFloor, start.sol})
<1>1. k \in 0..2
  BY DEF Counted, TradeType
<1> QED
  BY <1>1, TwiceIsNoWorse DEF TradeType, SendsFit

\* Whoever sends, gives up or waits: the wallet stays, and so do the promises
\* about a position that is not built yet.
LEMMA WalletStays ==
  ASSUME TradeInv, TradeType', SendsFit', UNCHANGED <<wallet, start, swap, deposit>>,
         pc \notin {"open", "after"}, pc' \notin {"open", "after"},
         \A k \in Nat : Counted(k) => Counted(k)',
         abandoned' <= 1 => abandoned <= 1
  PROVE  TradeInv'
<1> USE DEF TradeInv
<1>1. WalletFits'
  <2>1. PICK k \in Nat : wallet = After(start, swap, k) /\ Counted(k)
    BY DEF WalletFits
  <2>2. wallet' = After(start, swap, k)' /\ Counted(k)'
    BY <2>1 DEF After
  <2> QED
    BY <2>2 DEF WalletFits
<1>2. DepositFits' /\ SwapNoWorse'
  BY DEF DepositFits, SwapNoWorse
<1>3. strayed = FALSE /\ strayed' = FALSE
  BY DEF TradeType, SendsFit
<1>4. FloorKept'
  BY <1>3 DEF FloorKept
<1> QED
  BY <1>1, <1>2, <1>4

\* A swap lands: the wallet after k swaps becomes the one after k + 1.
LEMMA SwapLands ==
  ASSUME TradeInv, Covered, wallet' = Swapped, TradeType', SendsFit',
         UNCHANGED <<pc, start, swap, deposit, abandoned>>,
         \A k \in Nat : Counted(k) => Counted(k + 1)',
         strayed' = (strayed \/ pc \in {"open", "after"})
  PROVE  TradeInv'
<1> USE DEF TradeInv
<1>1. ASSUME pc # "after" PROVE \E k \in Nat : (wallet = After(start, swap, k) /\ Counted(k))'
  <2>1. PICK k \in Nat : wallet = After(start, swap, k) /\ Counted(k)
    BY <1>1 DEF WalletFits
  <2>2. wallet' = After(start, swap, k + 1)
    BY <2>1 DEF After, Swapped, TradeType, Coins
  <2>3. After(start, swap, k + 1) = After(start, swap, k + 1)'
    BY DEF After
  <2> QED
    BY <2>1, <2>2, <2>3
<1>2. WalletFits'
  BY <1>1 DEF WalletFits
<1>3. DepositFits'
  BY DEF DepositFits
<1>4. SwapNoWorse'
  BY DEF SwapNoWorse
<1>5. FloorKept'
  <2> SUFFICES ASSUME abandoned' <= 1, ~strayed' PROVE wallet'.sol >= Min({SolFloor, start'.sol})
    BY DEF FloorKept
  <2>1. PICK k \in Nat : (wallet = After(start, swap, k) /\ Counted(k))'
    BY <1>1
  <2>2. wallet' = After(start', swap', k) /\ wallet' \in Coins /\ start' \in Coins
    BY <2>1 DEF TradeType, After
  <2>4. k \in 0..2
    <3>1. \E x, y \in {0, 1} : k + flying' + x <= abandoned' + y
      BY <2>1 DEF Counted
    <3>2. k \in Nat /\ flying' \in Nat /\ abandoned' \in {0, 1}
      BY <2>1 DEF TradeType
    <3> QED
      BY <3>1, <3>2, AtMostTwo, Zenon
  <2>3. swap' \in {0, SwapToRatio(start')}
    BY DEF SendsFit, SwapToRatio, Usable
  <2> QED
    BY <2>2, <2>3, <2>4, TwiceIsNoWorse
<1> QED
  BY <1>2, <1>3, <1>4, <1>5

\* Actions that leave the rebalance alone.
LEMMA TradeRests ==
  ASSUME TradeInv, UNCHANGED trade,
         pc' = pc \/ {pc, pc'} \subseteq {"fetch", "decide"}
  PROVE  TradeInv'
<1> USE DEF TradeInv, trade
<1>1. TradeType' /\ SendsFit'
  BY DEF TradeType, SendsFit, Before, Sized, SwapToRatio, Usable
<1>2. WalletFits' /\ DepositFits' /\ SwapNoWorse' /\ FloorKept'
  <2>1. \A k \in Nat : Counted(k) => Counted(k)'
    BY DEF Counted, Sized
  <2>2. pc' # "after" => pc # "after"
    OBVIOUS
  <2>3. WalletFits'
    BY <2>1, <2>2 DEF WalletFits, After
  <2> QED
    BY <2>3 DEF DepositFits, SwapNoWorse, FloorKept, Usable
<1> QED
  BY <1>1, <1>2

\* The deposit is cut from the wallet as it is.
LEMMA SizeFits ==
  ASSUME TradeType, Size
  PROVE  /\ deposit' \in Coins /\ deposit'.sol <= Usable(wallet)
         /\ Abs(deposit'.sol - deposit'.bert) <= Off(wallet)
<1> USE TradingAssumption DEF TradeType, Coins
<1> DEFINE u == Usable(wallet)
           b == wallet.bert
           t == Total(wallet)
           cap == Min({t, MaxPosition})
<1>1. u \in Nat /\ b \in Nat /\ t \in Nat /\ t = u + b
  BY DEF Total, Usable
<1>2. cap \in Nat /\ cap <= t
  BY <1>1, MinPair
<1>3. deposit' = IF t = 0 THEN Empty ELSE [sol |-> (u * cap) \div t, bert |-> (b * cap) \div t]
  BY DEF Size
<1>4. Off(wallet) = Abs(u - b)
  BY DEF Off
<1> HIDE DEF u, b, t, cap
<1>5. CASE t = 0
  BY <1>1, <1>3, <1>4, <1>5 DEF Empty, Abs, u
<1>6. CASE t # 0
  <2>0. t \in Nat \ {0}
    BY <1>1, <1>6
  <2>1. deposit'.sol = (u * cap) \div t /\ deposit'.bert = (b * cap) \div t
    BY <1>3, <1>6
  <2>2. deposit'.sol \in Nat /\ deposit'.bert \in Nat /\ deposit' \in Coins
    <3>1. t \in Nat \ {0} /\ u * cap \in Nat /\ b * cap \in Nat
      BY <1>1, <1>2, <1>6
    <3>2. deposit'.sol \in Nat /\ deposit'.bert \in Nat
      BY <2>1, <3>1, Quotient
    <3> QED
      BY <1>3, <1>6, <2>1, <3>2
  <2>3. CASE b <= u
    <3>1. /\ (u * cap) \div t <= u /\ (b * cap) \div t <= (u * cap) \div t
          /\ (u * cap) \div t - (b * cap) \div t <= u - b
      BY <1>1, <1>2, <2>0, <2>3, ScaledFits, Zenon
    <3>2. deposit'.sol <= u /\ deposit'.bert <= deposit'.sol /\ deposit'.sol - deposit'.bert <= u - b
      BY <2>1, <3>1, Zenon
    <3> QED
      BY <1>1, <1>4, <2>2, <2>3, <3>2 DEF Abs, u
  <2>4. CASE u <= b
    <3>1. /\ (u * cap) \div t <= (b * cap) \div t
          /\ (b * cap) \div t - (u * cap) \div t <= b - u
      BY <1>1, <1>2, <2>0, <2>4, ScaledFits, Zenon
    <3>2. u <= u
      BY <1>1
    <3>3. (u * cap) \div t <= u
      BY <1>1, <1>2, <2>0, <3>2, ScaledFits, Zenon
    <3>4. deposit'.sol <= u /\ deposit'.sol <= deposit'.bert /\ deposit'.bert - deposit'.sol <= b - u
      BY <2>1, <3>1, <3>3, Zenon
    <3> QED
      BY <1>1, <1>4, <2>2, <2>4, <3>4 DEF Abs, u
  <2> QED
    BY <1>1, <2>3, <2>4
<1> QED
  BY <1>5, <1>6

LEMMA TradeStep == TradeInv /\ [Next]_vars => TradeInv'
<1> SUFFICES ASSUME TradeInv, [Next]_vars PROVE TradeInv'
  OBVIOUS
<1> USE TradingAssumption DEF TradeInv, trade
<1>u. UNCHANGED start => (SwapToRatio(start))' = SwapToRatio(start)
  BY DEF SwapToRatio, Usable
<1>1. CASE Fetch \/ NothingDone \/ Pause \/ Reconcile \/ Midnight \/ Restart \/ UNCHANGED vars
  BY <1>1, TradeRests DEF Fetch, NothingDone, Pause, Reconcile, Midnight, Restart, vars, price
<1>2. CASE BeginRebalance
  <2>1. /\ pc = "decide" /\ pc' = "swap" /\ wallet' \in Coins /\ start' = wallet'
        /\ UNCHANGED <<swap, cur, tries, flying, deposit, abandoned, strayed>>
    BY <1>2 DEF BeginRebalance, Coins
  <2>2. TradeType' /\ SendsFit'
    BY <2>1 DEF TradeType, SendsFit, Before, Sized
  <2>3. Counted(0)'
    BY <2>1 DEF TradeType, SendsFit, Before, Counted
  <2>4. wallet' = After(start, swap, 0)'
    BY <2>1, <2>2 DEF After, TradeType, Coins
  <2>5. WalletFits'
    BY <2>3, <2>4 DEF WalletFits
  <2>6. FloorKept'
    BY <2>1, MinPair DEF FloorKept, Coins
  <2> QED
    BY <2>1, <2>2, <2>5, <2>6 DEF DepositFits, SwapNoWorse
<1>3. CASE BuildSwap
  <2>1. /\ pc = "swap" /\ pc' \in {"size", "bundle", "rpc"}
        /\ swap' \in {0, SwapToRatio(wallet)}
        /\ cur' = IF pc' = "bundle" THEN "live" ELSE cur
        /\ UNCHANGED <<wallet, tries, flying, deposit, start, abandoned, strayed>>
    BY <1>3 DEF BuildSwap
  <2>2. /\ wallet = start /\ cur = "none" /\ flying = 0 /\ abandoned = 0 /\ strayed = FALSE
    BY <2>1 DEF SendsFit, TradeType, Before
  <2>3. swap' \in Int
    BY <2>1, Halves DEF SwapToRatio, Usable, Abs, TradeType, Coins
  <2>4. TradeType' /\ SendsFit'
    BY <1>u, <2>1, <2>2, <2>3 DEF TradeType, SendsFit, Before, Sized
  <2>5. Counted(0)'
    BY <2>1, <2>2 DEF Counted, Sized
  <2>6. wallet' = After(start, swap, 0)'
    BY <2>1, <2>2, <2>3 DEF After, TradeType, Coins
  <2>7. WalletFits'
    BY <2>5, <2>6 DEF WalletFits
  <2> QED
    BY <2>1, <2>4, <2>7 DEF DepositFits, SwapNoWorse, FloorKept
<1>4. CASE BundleConfirmed \/ AttemptConfirmed \/ SwapFails
  <2>1. /\ pc \in {"bundle", "rpc"} /\ pc' = "size" /\ cur \in {"landed", "none"} /\ cur' = "none"
        /\ UNCHANGED <<wallet, swap, flying, deposit, start, abandoned, strayed>>
    BY <1>4 DEF BundleConfirmed, AttemptConfirmed, SwapFails
  <2>2. TradeType' /\ SendsFit'
    BY <1>u, <2>1 DEF TradeType, SendsFit, Before, Sized
  <2>3. \A k \in Nat : Counted(k) => Counted(k)'
    BY <2>1 DEF Counted, Sized, TradeType
  <2> QED
    BY <2>1, <2>2, <2>3, WalletStays
<1>5. CASE BundleGivenUp \/ AttemptThrows
  <2>1. /\ pc \in {"bundle", "rpc"} /\ pc' = "rpc" /\ GiveUp
        /\ UNCHANGED <<wallet, swap, deposit, start, strayed>>
    BY <1>5 DEF BundleGivenUp, AttemptThrows
  <2>2. /\ abandoned' = IF cur \in {"live", "landed"} THEN abandoned + 1 ELSE abandoned
        /\ flying' = IF cur = "live" THEN flying + 1 ELSE flying
        /\ cur' = "none"
    BY <2>1 DEF GiveUp
  <2>3. TradeType' /\ SendsFit'
    BY <1>u, <2>1, <2>2 DEF TradeType, SendsFit, Before, Sized
  <2>4. \A k \in Nat : Counted(k) => Counted(k)'
    BY <2>1, <2>2 DEF Counted, Sized, TradeType
  <2>5. abandoned' <= 1 => abandoned <= 1
    BY <2>2 DEF TradeType
  <2> QED
    BY <2>1, <2>3, <2>4, <2>5, WalletStays
<1>6. CASE SendAttempt \/ Expire
  <2>1. /\ UNCHANGED <<pc, wallet, swap, flying, deposit, start, abandoned, strayed>>
        /\ \/ pc = "rpc" /\ cur = "none" /\ cur' = "live"
           \/ cur = "live" /\ cur' = "dead"
    BY <1>6 DEF SendAttempt, Expire
  <2>2. pc \in {"bundle", "rpc"}
    BY <2>1 DEF TradeType, SendsFit, Sized, Before
  <2>3. TradeType' /\ SendsFit'
    BY <1>u, <2>1, <2>2 DEF TradeType, SendsFit, Before, Sized
  <2>4. \A k \in Nat : Counted(k) => Counted(k)'
    BY <2>1, <2>2 DEF Counted, Sized, TradeType
  <2> QED
    BY <2>1, <2>2, <2>3, <2>4, WalletStays
<1>7. CASE Land
  <2>1. /\ cur = "live" /\ cur' = "landed" /\ Covered /\ wallet' = Swapped
        /\ UNCHANGED <<pc, swap, flying, deposit, start, abandoned, strayed>>
    BY <1>7 DEF Land
  <2>2. pc \in {"bundle", "rpc"} /\ strayed = FALSE
    BY <2>1 DEF TradeType, SendsFit, Sized, Before
  <2>3. wallet' \in Coins
    BY <2>1 DEF Covered, Swapped, TradeType, Coins
  <2>4. TradeType' /\ SendsFit'
    BY <1>u, <2>1, <2>2, <2>3 DEF TradeType, SendsFit, Before, Sized
  <2>5. \A k \in Nat : Counted(k) => Counted(k + 1)'
    BY <2>1, <2>2 DEF Counted, Sized, TradeType
  <2> QED
    BY <2>1, <2>2, <2>4, <2>5, SwapLands
<1>8. CASE StrayLands
  <2>1. /\ flying > 0 /\ flying' = flying - 1 /\ Covered /\ wallet' = Swapped
        /\ strayed' = (strayed \/ pc \in {"open", "after"})
        /\ UNCHANGED <<pc, swap, cur, deposit, start, abandoned>>
    BY <1>8 DEF StrayLands
  <2>2. pc \notin Before
    BY <2>1 DEF SendsFit
  <2>3. wallet' \in Coins /\ flying' \in Nat
    BY <2>1 DEF Covered, Swapped, TradeType, Coins
  <2>4. TradeType' /\ SendsFit'
    BY <1>u, <2>1, <2>2, <2>3 DEF TradeType, SendsFit
  <2>5. \A k \in Nat : Counted(k) => Counted(k + 1)'
    BY <2>1, <2>3 DEF Counted, TradeType
  <2> QED
    BY <2>1, <2>4, <2>5, SwapLands
<1>9. CASE StrayExpires
  <2>1. /\ flying > 0 /\ flying' = flying - 1
        /\ UNCHANGED <<pc, wallet, swap, cur, deposit, start, abandoned, strayed>>
    BY <1>9 DEF StrayExpires
  <2>2. TradeType' /\ SendsFit'
    BY <1>u, <2>1 DEF TradeType, SendsFit, Before
  <2>3. \A k \in Nat : Counted(k) => Counted(k)'
    BY <2>1 DEF Counted, TradeType
  <2>4. WalletFits'
    BY <2>1, <2>3 DEF WalletFits, After
  <2> QED
    BY <2>1, <2>2, <2>4 DEF DepositFits, SwapNoWorse, FloorKept, Usable
<1>10. CASE Size
  <2>1. /\ pc = "size" /\ pc' = "open"
        /\ UNCHANGED <<wallet, swap, cur, flying, start, abandoned, strayed>>
    BY <1>10 DEF Size
  <2>2. /\ deposit' \in Coins /\ deposit'.sol <= Usable(wallet)
        /\ Abs(deposit'.sol - deposit'.bert) <= Off(wallet)
    BY <1>10, SizeFits
  <2>3. TradeType' /\ SendsFit'
    BY <1>u, <2>1, <2>2 DEF TradeType, SendsFit, Before, Sized
  <2>4. PICK k \in Nat : wallet = After(start, swap, k) /\ Counted(k)
    BY <2>1 DEF WalletFits
  <2>5. WalletFits'
    BY <2>1, <2>4 DEF WalletFits, After, Counted, Sized
  <2>6. DepositFits'
    BY <2>1, <2>2 DEF DepositFits, Usable
  <2>7. ASSUME abandoned <= 1 PROVE Off(wallet) <= Off(start)
    BY <2>4, <2>7, LandedAtMostTwice
  <2>8. SwapNoWorse'
    <3>1. Off(wallet) \in Int /\ Off(start) \in Int /\ Abs(deposit'.sol - deposit'.bert) \in Int
      BY <2>2 DEF Off, Abs, Usable, TradeType, Coins
    <3>2. abandoned <= 1 => Abs(deposit'.sol - deposit'.bert) <= Off(start) + 1
      BY <2>2, <2>7, <3>1
    <3> QED
      BY <2>1, <3>2 DEF SwapNoWorse, Off, Usable
  <2>9. FloorKept'
    BY <2>1 DEF FloorKept
  <2> QED
    BY <2>3, <2>5, <2>6, <2>8, <2>9
<1>11. CASE OpenPosition
  <2>1. /\ pc = "open" /\ pc' = "after"
        /\ deposit.sol <= wallet.sol /\ deposit.bert <= wallet.bert
        /\ wallet' = [sol |-> wallet.sol - deposit.sol, bert |-> wallet.bert - deposit.bert]
        /\ UNCHANGED <<swap, cur, flying, deposit, start, abandoned, strayed>>
    BY <1>11 DEF OpenPosition
  <2>2. wallet' \in Coins /\ wallet'.sol = wallet.sol - deposit.sol
    BY <2>1 DEF TradeType, Coins
  <2>3. TradeType' /\ SendsFit'
    BY <1>u, <2>1, <2>2 DEF TradeType, SendsFit, Before, Sized
  <2>4. FloorKept'
    <3> SUFFICES ASSUME abandoned <= 1, ~strayed PROVE wallet'.sol >= Min({SolFloor, start.sol})
      BY <2>1 DEF FloorKept
    <3>1. wallet.sol >= Min({SolFloor, start.sol}) /\ deposit.sol <= Usable(wallet)
      BY <2>1 DEF FloorKept, DepositFits
    <3>2. /\ wallet.sol \in Nat /\ deposit.sol \in Nat /\ start.sol \in Nat
          /\ Min({SolFloor, start.sol}) = IF SolFloor <= start.sol THEN SolFloor ELSE start.sol
      BY MinPair DEF TradeType, Coins
    <3> QED
      BY <2>2, <3>1, <3>2 DEF Usable
  <2>5. SwapNoWorse'
    BY <2>1 DEF SwapNoWorse, Usable
  <2> QED
    BY <2>1, <2>3, <2>4, <2>5 DEF WalletFits, DepositFits
<1>12. CASE OpenFails
  <2>1. pc \in {"size", "open"} /\ pc' = "after" /\ UNCHANGED trade
    BY <1>12 DEF OpenFails
  <2>2. TradeType' /\ SendsFit'
    BY <1>u, <2>1 DEF TradeType, SendsFit, Before, Sized
  <2>3. SwapNoWorse'
    <3>1. CASE pc = "open"
      BY <2>1, <3>1 DEF SwapNoWorse, Usable
    <3>2. CASE pc = "size"
      <4>1. deposit'.sol = 0 /\ deposit'.bert = 0
        BY <2>1, <3>2 DEF SendsFit, Empty
      <4>2. Usable(start') - start'.bert \in Int
        BY <2>2 DEF TradeType, Coins, Usable
      <4> QED
        BY <4>1, <4>2 DEF SwapNoWorse, Abs
    <3> QED
      BY <2>1, <3>1, <3>2
  <2> QED
    BY <2>1, <2>2, <2>3 DEF WalletFits, DepositFits, FloorKept
<1>13. CASE AllOver
  <2>1. /\ pc' = "fetch" /\ wallet' = Empty /\ swap' = 0 /\ cur' = "none" /\ flying' = 0
        /\ deposit' = Empty /\ start' = Empty /\ abandoned' = 0 /\ strayed' = FALSE
    BY <1>13 DEF AllOver
  <2>2. Empty \in Coins /\ Empty.sol = 0 /\ Min({SolFloor, 0}) = 0
    BY MinPair, TradingAssumption DEF Empty, Coins
  <2>3. TradeType' /\ SendsFit'
    <3>1. TradeType'
      <4>1. "fetch" \in Before \cup Sized \cup {"bundle", "rpc"} /\ 0 \in Int /\ 0 \in Nat
        BY DEF Before
      <4> QED
        BY <2>1, <2>2, <4>1, Zenon DEF TradeType
    <3>2. SendsFit'
      BY <2>1 DEF SendsFit, Sized
    <3> QED
      BY <3>1, <3>2
  <2>4. Counted(0)' /\ wallet' = After(start, swap, 0)'
    <3>1. Counted(0)'
      BY <2>1 DEF Counted, Sized
    <3>2. After(Empty, 0, 0) = Empty
      BY DEF After, Empty
    <3> QED
      BY <2>1, <3>1, <3>2 DEF After
  <2>5. WalletFits'
    BY <2>4 DEF WalletFits
  <2>6. FloorKept'
    BY <2>1, <2>2 DEF FloorKept
  <2> QED
    BY <2>1, <2>3, <2>5, <2>6 DEF DepositFits, SwapNoWorse
<1> QED
  BY <1>1, <1>2, <1>3, <1>4, <1>5, <1>6, <1>7, <1>8, <1>9, <1>10, <1>11, <1>12, <1>13
     DEF Next, TickStep, ChainStep

LEMMA TradeInvariant == Spec => []TradeInv
<1>1. Init => TradeInv
  <2> SUFFICES ASSUME Init PROVE TradeInv
    OBVIOUS
  <2>1. /\ pc = "fetch" /\ wallet = Empty /\ swap = 0 /\ cur = "none" /\ flying = 0
        /\ deposit = Empty /\ start = Empty /\ abandoned = 0 /\ strayed = FALSE
    BY DEF Init
  <2>2. Empty \in Coins /\ Empty.sol = 0 /\ Min({SolFloor, 0}) = 0
    BY MinPair, TradingAssumption DEF Empty, Coins
  <2>3. TradeType /\ SendsFit
    <3>1. TradeType
      <4>1. "fetch" \in Before \cup Sized \cup {"bundle", "rpc"} /\ 0 \in Int /\ 0 \in Nat
        BY DEF Before
      <4> QED
        BY <2>1, <2>2, <4>1, Zenon DEF TradeType
    <3>2. SendsFit
      BY <2>1 DEF SendsFit, Sized
    <3> QED
      BY <3>1, <3>2
  <2>4. Counted(0) /\ wallet = After(start, swap, 0)
    <3>1. Counted(0)
      BY <2>1 DEF Counted, Sized
    <3>2. After(Empty, 0, 0) = Empty
      BY DEF After, Empty
    <3> QED
      BY <2>1, <3>1, <3>2
  <2>5. FloorKept
    BY <2>1, <2>2 DEF FloorKept
  <2> QED
    BY <2>1, <2>3, <2>4, <2>5 DEF TradeInv, WalletFits, DepositFits, SwapNoWorse
<1> QED
  BY <1>1, TradeStep, PTL DEF Spec

\* executeRebalance falls back from a Jito bundle to plain sends, and from one
\* plain send to the next, without knowing that the one before is dead. As
\* long as one of them was not, the position is built from a wallet no
\* further from 50/50 than if there had been no swap: for every wallet, cap
\* and number of retries.
THEOREM SwapIsNoWorse == Spec => []SwapNoWorse
<1>1. TradeInv => SwapNoWorse
  BY DEF TradeInv
<1> QED
  BY <1>1, TradeInvariant, PTL

\* Neither does the doubled swap of txSubmitter.ts, nor the open that
\* rebalancer.ts builds after it, take the wallet below the SOL floor (or
\* below what it held, if that was less), unless a send lands after the last
\* look at the wallet.
THEOREM FloorIsKept == Spec => []FloorKept
<1>1. TradeInv => FloorKept
  BY DEF TradeInv
<1> QED
  BY <1>1, TradeInvariant, PTL
-----------------------------------------------------------------------------
(* The oracle. *)

Prices == {f \in Lowest : f.num >= 0}
Heard  == [Sources -> Quotes \cup {NoQuote}]

LEMMA Bounds ==
  /\ HalfWidth \in Lowest /\ Divergence \in Lowest
  /\ HalfWidth.num \in Int /\ HalfWidth.den \in Int /\ Divergence.num \in Int /\ Divergence.den \in Int
  /\ 0 < HalfWidth.num /\ HalfWidth.num < HalfWidth.den /\ Divergence.den > 0
  /\ Divergence.num * HalfWidth.den < HalfWidth.num * Divergence.den
<1>1. ASSUME NEW f \in {Divergence, HalfWidth} PROVE f \in Lowest
  <2>1. f \in Fraction /\ f = Frac(f.num, f.den)
    BY MarketAssumption
  <2>2. f.num \in Int /\ f.den \in Int /\ f.den # 0
    BY <2>1 DEF Fraction
  <2>3. lowest[<<f.num, f.den>>] \in Lowest
    BY <2>2, LowestTerms
  <2> QED
    BY <2>1, <2>3 DEF Frac
<1>2. /\ HalfWidth.num \in Int /\ HalfWidth.den \in Int /\ HalfWidth.den > 0
      /\ Divergence.num \in Int /\ Divergence.den \in Int /\ Divergence.den > 0
  BY <1>1, LowestType
<1>3. Is(HalfWidth, HalfWidth.num, HalfWidth.den) /\ Is(Divergence, Divergence.num, Divergence.den)
  BY <1>1, IsItself
<1>4. Divergence.num * HalfWidth.den < HalfWidth.num * Divergence.den
  <2>1. Less(Divergence, HalfWidth)
    BY MarketAssumption
  <2> QED
    BY <1>2, <1>3, <2>1, LessIs
<1>5. HalfWidth.num * 1 < 1 * HalfWidth.den
  <2>1. Less(HalfWidth, Whole(1)) /\ Is(Whole(1), 1, 1)
    BY MarketAssumption, WholeIs
  <2> QED
    BY <1>2, <1>3, <2>1, LessIs
<1>6. 0 * Divergence.den < Divergence.num * 1
  <2>1. Less(Zero, Divergence) /\ Is(Zero, 0, 1)
    BY MarketAssumption, WholeIs DEF Zero
  <2> QED
    BY <1>2, <1>3, <2>1, LessIs
<1>7. 0 < HalfWidth.num
  <2>1. Divergence.num * HalfWidth.den > 0
    BY <1>2, <1>6
  <2> QED
    BY <1>2, <1>4, <2>1
<1> QED
  BY <1>1, <1>2, <1>4, <1>5, <1>7

LEMMA CommonFactor ==
  ASSUME NEW w \in Int, NEW n \in Int, NEW m \in Int, n > 0, m > 0,
         NEW k, k = w * n, NEW f, Is(f, k, n * m)
  PROVE  Is(f, w, m)
<1>1. k \in Int /\ n * m \in Int /\ n * m # 0 /\ m # 0
  OBVIOUS
<1>2. k * m = w * (n * m)
  OBVIOUS
<1> QED
  BY <1>1, <1>2, IsMoves

\* A price x/e is in the range around S/n.
LEMMA RangeIs ==
  ASSUME NEW S \in Int, NEW n \in Int, n > 0, NEW x \in Int, NEW e \in Int, e > 0,
         NEW c, Is(c, S, n), NEW p, Is(p, x, e)
  PROVE  InBounds(p, c) <=> /\ S * (HalfWidth.den - HalfWidth.num) * e <= x * (n * HalfWidth.den)
                            /\ x * (n * HalfWidth.den) <= S * (HalfWidth.den + HalfWidth.num) * e
<1> DEFINE h == HalfWidth.num
           d == HalfWidth.den
           half == Times(c, HalfWidth)
<1>1. h \in Int /\ d \in Int /\ d > 0 /\ Is(HalfWidth, h, d)
  BY Bounds, IsItself
<1> HIDE DEF h, d
<1>2. n * d \in Int /\ n * d > 0 /\ n * (n * d) \in Int /\ n * (n * d) > 0 /\ S * h \in Int
  BY <1>1
<1>3. Is(half, S * h, n * d)
  BY <1>1, TimesIs
<1>4. Is(Minus(c, half), S * (n * d) - (S * h) * n, n * (n * d))
  BY <1>2, <1>3, MinusIs
<1>5. Is(Plus(c, half), S * (n * d) + (S * h) * n, n * (n * d))
  BY <1>2, <1>3, PlusIs
<1>6. Is(Minus(c, half), S * (d - h), n * d)
  <2>1. S * (n * d) - (S * h) * n = (S * (d - h)) * n
    BY <1>1
  <2>2. S * (d - h) \in Int
    BY <1>1
  <2> QED
    BY <1>2, <1>4, <2>1, <2>2, CommonFactor, Zenon
<1>7. Is(Plus(c, half), S * (d + h), n * d)
  <2>1. S * (n * d) + (S * h) * n = (S * (d + h)) * n
    BY <1>1
  <2>2. S * (d + h) \in Int
    BY <1>1
  <2> QED
    BY <1>2, <1>5, <2>1, <2>2, CommonFactor, Zenon
<1>8. S * (d - h) \in Int /\ S * (d + h) \in Int
  BY <1>1
<1>9. Less(p, Minus(c, half)) <=> x * (n * d) < S * (d - h) * e
  BY <1>2, <1>6, <1>8, LessIs
<1>10. Less(Plus(c, half), p) <=> S * (d + h) * e < x * (n * d)
  BY <1>2, <1>7, <1>8, LessIs
<1>11. x * (n * d) \in Int /\ S * (d - h) * e \in Int /\ S * (d + h) * e \in Int
  BY <1>2, <1>8
<1>12. InBounds(p, c) <=> ~(x * (n * d) < S * (d - h) * e) /\ ~(S * (d + h) * e < x * (n * d))
  BY <1>9, <1>10 DEF InBounds
<1> HIDE DEF half
<1>13. InBounds(p, c) <=> S * (d - h) * e <= x * (n * d) /\ x * (n * d) <= S * (d + h) * e
  BY <1>11, <1>12
<1> QED
  BY <1>13 DEF h, d

\* Bounds that move with their middle keep what moves with them.
LEMMA BoundsScale ==
  ASSUME NEW c \in Prices, NEW a \in Lowest, NEW b \in Lowest, InBounds(a, b)
  PROVE  InBounds(Times(c, a), Times(c, b))
<1> DEFINE half == Times(b, HalfWidth)
           m == Times(c, b)
<1>1. c \in Lowest /\ c.num >= 0 /\ HalfWidth \in Lowest
  BY Bounds DEF Prices
<1>2. half \in Lowest /\ m \in Lowest /\ Minus(b, half) \in Lowest /\ Plus(b, half) \in Lowest
  BY <1>1, Closed
<1>3. AtMost(Minus(b, half), a) /\ AtMost(a, Plus(b, half))
  BY DEF InBounds, AtMost
<1>4. Times(m, HalfWidth) = Times(half, c) /\ m = Times(b, c) /\ Times(c, a) = Times(a, c)
  <2>1. Times(m, HalfWidth) = Times(c, half)
    BY <1>1, TimesGroups
  <2> HIDE DEF half
  <2> QED
    BY <1>1, <1>2, <2>1, TimesTurns
<1> HIDE DEF half
<1>5. /\ Minus(m, Times(m, HalfWidth)) = Times(Minus(b, half), c)
      /\ Plus(m, Times(m, HalfWidth)) = Times(Plus(b, half), c)
  BY <1>1, <1>2, <1>4, TimesSpreads
<1>6. /\ AtMost(Times(Minus(b, half), c), Times(a, c))
      /\ AtMost(Times(a, c), Times(Plus(b, half), c))
  BY <1>1, <1>2, <1>3, AtMostTimes
<1> QED
  BY <1>4, <1>5, <1>6 DEF InBounds, AtMost

\* A SOL price turns USD into SOL and back.
LEMMA InSolUndoes ==
  ASSUME NEW m \in Prices, NEW s \in SolPrices
  PROVE  InSol(m, s) \in Prices /\ Times(InSol(m, s), Whole(s)) = m
<1>1. s \in Int /\ s > 0
  BY MarketAssumption DEF NoQuote, NoSol
<1>2. Whole(s) \in Lowest /\ Whole(s).num > 0 /\ m \in Lowest /\ m.num >= 0
  BY <1>1, WholeLaws DEF Prices
<1> DEFINE w == Whole(s)
           c == Over(m, w)
<1>3. InSol(m, s) = c
  BY DEF InSol
<1> HIDE DEF w
<1>4. w \in Lowest /\ w.num > 0 /\ w.num # 0 /\ m \in Lowest /\ m.num >= 0 /\ w.num \in Int
  BY <1>2, LowestType DEF w
<1>5. c \in Lowest
  BY <1>4, Closed
<1>6. Times(c, w) = m
  BY <1>4, OverUndoes
<1>7. c.num >= 0
  BY <1>4, Signs
<1> HIDE DEF c
<1> QED
  BY <1>3, <1>5, <1>6, <1>7 DEF Prices, w
LEMMA HeardType ==
  ASSUME NEW q \in Heard
  PROVE  /\ IsFiniteSet(Answered(q)) /\ Cardinality(Answered(q)) \in Nat
         /\ \A s \in Answered(q) : q[s] \in Int /\ q[s] > 0
<1>1. IsFiniteSet(Sources) /\ Answered(q) \subseteq Sources
  BY MarketAssumption DEF Answered
<1>2. IsFiniteSet(Answered(q))
  BY <1>1, FS_Subset
<1>3. \A s \in Answered(q) : q[s] \in Int /\ q[s] > 0
  <2> TAKE s \in Answered(q)
  <2>1. s \in Sources /\ q[s] # NoQuote
    BY DEF Answered
  <2>2. q[s] \in Quotes
    BY <2>1 DEF Heard
  <2>3. q[s] \in Nat \ {NoQuote}
    BY <2>2, MarketAssumption
  <2> QED
    BY <2>3 DEF NoQuote
<1> QED
  BY <1>2, <1>3, FS_CardinalityType

Below(q, s) == {t \in Answered(q) : q[t] < q[s]}
Upto(q, s)  == {t \in Answered(q) : q[t] <= q[s]}

\* Where the median stands: at most half of the prices are below it.
LEMMA MedianIs ==
  ASSUME NEW q \in Heard, Answered(q) # {}
  PROVE  \E m \in Answered(q) : /\ Median(q) = q[m]
                                /\ Cardinality(Below(q, m)) <= Cardinality(Answered(q)) \div 2
<1> DEFINE A == Answered(q)
           n == Cardinality(A)
           k == n \div 2
           Late == {s \in A : k < Cardinality(Upto(q, s))}
           Middle(s) == Cardinality(Below(q, s)) <= k /\ k < Cardinality(Upto(q, s))
<1>1. IsFiniteSet(A) /\ n \in Nat /\ n # 0 /\ \A s \in A : q[s] \in Int
  BY HeardType, FS_EmptySet
<1>2. k \in Nat /\ k < n
  BY <1>1
<1> HIDE DEF k
<1>3. ASSUME NEW s \in A
      PROVE  /\ IsFiniteSet(Below(q, s)) /\ Cardinality(Below(q, s)) \in Nat
             /\ Cardinality(Upto(q, s)) \in Nat
  <2>1. Below(q, s) \subseteq A /\ Upto(q, s) \subseteq A
    BY DEF Below, Upto
  <2> QED
    BY <1>1, <2>1, FS_Subset, FS_CardinalityType
<1>4. PICK top \in A : \A x \in A : q[x] <= q[top]
  BY <1>1, Highest
<1>5. Upto(q, top) = A
  BY <1>4 DEF Upto
<1>6. top \in Late
  BY <1>2, <1>5
<1>7. PICK m \in Late : \A x \in Late : q[m] <= q[x]
  <2> DEFINE f == [x \in Late |-> -q[x]]
  <2>1. IsFiniteSet(Late) /\ Late # {}
    BY <1>1, <1>6, FS_Subset
  <2>2. \A x \in Late : f[x] \in Int /\ q[x] \in Int /\ f[x] = -q[x]
    BY <1>1
  <2> HIDE DEF f, Late
  <2>3. PICK h \in Late : \A x \in Late : f[x] <= f[h]
    BY <2>1, <2>2, Highest
  <2>4. \A x \in Late : q[h] <= q[x]
    BY <2>2, <2>3
  <2> QED
    BY <2>4
<1>8. Cardinality(Below(q, m)) <= k
  <2>1. CASE Below(q, m) = {}
    BY <1>2, <2>1, FS_EmptySet
  <2>2. CASE Below(q, m) # {}
    <3>1. IsFiniteSet(Below(q, m)) /\ \A x \in Below(q, m) : q[x] \in Int
      BY <1>1, <1>3 DEF Below
    <3>2. PICK t \in Below(q, m) : \A x \in Below(q, m) : q[x] <= q[t]
      BY <2>2, <3>1, Highest
    <3>3. Upto(q, t) = Below(q, m) /\ t \in A /\ q[t] < q[m]
      <4>1. t \in A /\ q[t] < q[m] /\ q[t] \in Int /\ q[m] \in Int
        BY <1>1, <3>2 DEF Below
      <4>2. \A x \in A : q[x] <= q[t] <=> q[x] < q[m]
        <5> TAKE x \in A
        <5>1. q[x] \in Int /\ (q[x] < q[m] => q[x] <= q[t])
          BY <1>1, <3>2 DEF Below
        <5> QED
          BY <4>1, <5>1
      <4> QED
        BY <4>1, <4>2 DEF Upto, Below
    <3>4. t \notin Late
      <4> SUFFICES ASSUME t \in Late PROVE FALSE
        OBVIOUS
      <4>1. q[m] <= q[t] /\ q[m] \in Int /\ q[t] \in Int
        BY <1>1, <1>7
      <4> QED
        BY <3>3, <4>1
    <3>5. ~(k < Cardinality(Upto(q, t))) /\ Cardinality(Upto(q, t)) \in Nat
      BY <1>3, <3>3, <3>4
    <3> QED
      BY <1>2, <3>3, <3>5
  <2> QED
    BY <2>1, <2>2
<1>9. m \in A /\ Middle(m)
  BY <1>7, <1>8
<1>10. Median(q) = q[CHOOSE s \in A : Middle(s)]
  BY DEF Median, Below, Upto, k
<1> HIDE DEF Middle, A
<1>11. (CHOOSE s \in A : Middle(s)) \in A /\ Middle(CHOOSE s \in A : Middle(s))
  BY <1>9
<1> QED
  BY <1>10, <1>11 DEF Middle, A, k

\* The spread is the distance of two quotes that have all others between them.
LEMMA SpreadIs ==
  ASSUME NEW q \in Heard, Answered(q) # {}
  PROVE  \E lo, hi \in Answered(q) :
           /\ Spread(q) = q[hi] - q[lo]
           /\ \A s \in Answered(q) : q[lo] <= q[s] /\ q[s] <= q[hi]
<1> DEFINE A == Answered(q)
           P == {q[s] : s \in A}
           f == [x \in A |-> -q[x]]
<1>1. IsFiniteSet(A) /\ A # {} /\ \A s \in A : q[s] \in Int
  BY HeardType
<1>2. \A s \in A : f[s] \in Int /\ f[s] = -q[s]
  BY <1>1
<1>3. PICK hi \in A : \A x \in A : q[x] <= q[hi]
  BY <1>1, Highest
<1>4. PICK lo \in A : \A x \in A : q[lo] <= q[x]
  <2> HIDE DEF f, A
  <2>1. PICK l \in A : \A x \in A : f[x] <= f[l]
    BY <1>1, <1>2, Highest
  <2> QED
    BY <1>1, <1>2, <2>1
<1>5. Max(P) = q[hi]
  <2>1. q[hi] \in P /\ \A y \in P : q[hi] >= y /\ y \in Int
    BY <1>1, <1>3
  <2> HIDE DEF P
  <2>2. Max(P) \in P /\ \A y \in P : Max(P) >= y
    BY <2>1 DEF Max
  <2> QED
    BY <2>1, <2>2
<1>6. Min(P) = q[lo]
  <2>1. q[lo] \in P /\ \A y \in P : q[lo] <= y /\ y \in Int
    BY <1>1, <1>4
  <2> HIDE DEF P
  <2>2. Min(P) \in P /\ \A y \in P : Min(P) <= y
    BY <2>1 DEF Min
  <2> QED
    BY <2>1, <2>2
<1>7. Spread(q) = q[hi] - q[lo]
  BY <1>5, <1>6 DEF Spread
<1> QED
  BY <1>3, <1>4, <1>7
\* L is the lowest of n prices, M the highest, m their median, S their sum, and
\* r of them are below the median. If (M - L)/m <= h/d then L and M are no
\* further than S/n * h/d from the mean S/n.
LEMMA MeanIsNear ==
  ASSUME NEW L \in Int, NEW M \in Int, NEW m \in Int, NEW n \in Nat, NEW r \in Nat, NEW S \in Int,
         NEW h \in Int, NEW d \in Int, 0 < L, L <= m, m <= M, 2 * r <= n, 0 < h, h < d,
         S >= L * r + m * (n - r), S <= M * n, (M - L) * d <= h * m
  PROVE  S * (d - h) <= L * (n * d) /\ M * (n * d) <= S * (d + h)
<1>1. S * (d - h) <= L * (n * d)
  <2>1. S * (d - h) <= (M * n) * (d - h)
    OBVIOUS
  <2>2. M * (d - h) <= L * d
    <3>1. h * m <= h * M
      OBVIOUS
    <3> QED
      BY <3>1
  <2>3. n * (M * (d - h)) <= n * (L * d)
    <3>1. M * (d - h) \in Int /\ L * d \in Int
      OBVIOUS
    <3>2. \A a, b \in Int : a <= b => n * a <= n * b
      OBVIOUS
    <3> QED
      BY <2>2, <3>1, <3>2
  <2>4. (M * n) * (d - h) = n * (M * (d - h)) /\ L * (n * d) = n * (L * d)
    OBVIOUS
  <2>5. S * (d - h) \in Int /\ n * (M * (d - h)) \in Int /\ n * (L * d) \in Int
    OBVIOUS
  <2> QED
    BY <2>1, <2>3, <2>4, <2>5
<1>2. M * (n * d) <= S * (d + h)
  <2>1. 2 * S >= n * (m + L)
    <3>1. (m - L) * (2 * r) <= (m - L) * n
      OBVIOUS
    <3>2. (m - L) * (2 * r) = 2 * (m * r) - 2 * (L * r) /\ (m - L) * n = m * n - L * n
      OBVIOUS
    <3>3. m * (n - r) = m * n - m * r /\ n * (m + L) = m * n + L * n
      OBVIOUS
    <3>4. m * r \in Int /\ L * r \in Int /\ m * n \in Int /\ L * n \in Int
      OBVIOUS
    <3> QED
      BY <3>1, <3>2, <3>3, <3>4
  <2>2. (m + L) * (d + h) >= 2 * (M * d)
    <3>1. (m - L) * (d - h) >= 0
      OBVIOUS
    <3>2. (m - L) * (d - h) = m * d - m * h - L * d + L * h
      OBVIOUS
    <3>3. (m + L) * (d + h) = m * d + m * h + L * d + L * h
      OBVIOUS
    <3>4. (M - L) * d = M * d - L * d /\ h * m = m * h
      OBVIOUS
    <3>5. m * d \in Int /\ m * h \in Int /\ L * d \in Int /\ L * h \in Int /\ M * d \in Int
      OBVIOUS
    <3> QED
      BY <3>1, <3>2, <3>3, <3>4, <3>5
  <2>3. \A a, b, c \in Int : c >= 0 /\ a >= b => a * c >= b * c
    OBVIOUS
  <2>4. (2 * S) * (d + h) >= (n * (m + L)) * (d + h)
    <3>1. 2 * S \in Int /\ n * (m + L) \in Int /\ d + h \in Int /\ d + h >= 0
      OBVIOUS
    <3> QED
      BY <2>1, <2>3, <3>1
  <2>5. ((m + L) * (d + h)) * n >= (2 * (M * d)) * n
    <3>1. (m + L) * (d + h) \in Int /\ 2 * (M * d) \in Int
      OBVIOUS
    <3> QED
      BY <2>2, <2>3, <3>1
  <2>6. (n * (m + L)) * (d + h) = ((m + L) * (d + h)) * n
    <3>1. \A a, b \in Int : (n * a) * b = (a * b) * n
      OBVIOUS
    <3>2. m + L \in Int /\ d + h \in Int
      OBVIOUS
    <3> QED
      BY <3>1, <3>2
  <2>7. (2 * (M * d)) * n = 2 * (M * (n * d)) /\ (2 * S) * (d + h) = 2 * (S * (d + h))
    OBVIOUS
  <2>8. 2 * (S * (d + h)) >= 2 * (M * (n * d))
    <3>1. \A a, b, c \in Int : a >= b /\ b >= c => a >= c
      OBVIOUS
    <3>2. (2 * S) * (d + h) \in Int /\ (n * (m + L)) * (d + h) \in Int /\ (2 * (M * d)) * n \in Int
      OBVIOUS
    <3> QED
      BY <2>4, <2>5, <2>6, <2>7, <3>1, <3>2
  <2>9. S * (d + h) \in Int /\ M * (n * d) \in Int
    OBVIOUS
  <2> QED
    BY <2>8, <2>9
<1> QED
  BY <1>1, <1>2

LEMMA MidIs ==
  ASSUME NEW q \in Heard
  PROVE  /\ ComputeTrustedMid(q) \in Prices
         /\ ComputeTrustedMid(q) # NoMid =>
              /\ Cardinality(Answered(q)) >= 2 /\ ~Less(Divergence, Frac(Spread(q), Median(q)))
              /\ SumFunctionOnSet(q, Answered(q)) \in Int
              /\ Is(ComputeTrustedMid(q), SumFunctionOnSet(q, Answered(q)), Cardinality(Answered(q)))
<1> DEFINE A == Answered(q)
           n == Cardinality(A)
           S == SumFunctionOnSet(q, A)
<1>1. IsFiniteSet(A) /\ n \in Nat /\ \A s \in A : q[s] \in Int /\ q[s] > 0
  BY HeardType
<1>2. S \in Int /\ S >= 0
  <2>1. \A s \in A : q[s] \in Int
    BY <1>1
  <2>2. S \in Int
    BY <1>1, <2>1, SumIsNumber
  <2>3. S >= 0 * Cardinality(A) + 0 * Cardinality(A \ A)
    <3>1. A \in SUBSET A /\ (\A s \in A : q[s] >= 0) /\ (\A s \in A \ A : q[s] >= 0) /\ 0 \in Int
      BY <1>1
    <3> HIDE DEF A
    <3> QED
      BY <1>1, <2>1, <3>1, SumAtLeast, Zenon DEF S
  <2>4. Cardinality(A \ A) = 0
    BY FS_EmptySet
  <2> QED
    BY <1>1, <2>2, <2>3, <2>4
<1>3. NoMid \in Prices
  BY WholeLaws DEF NoMid, Prices
<1>4. ComputeTrustedMid(q) = IF n < 2 \/ Less(Divergence, Frac(Spread(q), Median(q)))
                             THEN NoMid ELSE lowest[<<S, n>>]
  BY DEF ComputeTrustedMid, Frac
<1> HIDE DEF S, n, A
<1>5. CASE n < 2 \/ Less(Divergence, Frac(Spread(q), Median(q)))
  BY <1>3, <1>4, <1>5
<1>6. CASE ~(n < 2 \/ Less(Divergence, Frac(Spread(q), Median(q))))
  <2>1. n >= 2 /\ n # 0 /\ n > 0 /\ n \in Int /\ ComputeTrustedMid(q) = lowest[<<S, n>>]
    BY <1>1, <1>4, <1>6
  <2>2. Is(ComputeTrustedMid(q), S, n)
    BY <1>2, <2>1, LowestIs
  <2>3. ComputeTrustedMid(q) \in Prices
    <3>1. ComputeTrustedMid(q) \in Lowest
      BY <2>2 DEF Is
    <3>2. ComputeTrustedMid(q).num < 0 <=> S < 0
      BY <1>2, <2>1, <2>2, SignIs
    <3> QED
      BY <1>2, <3>1, <3>2, LowestType DEF Prices
  <2> QED
    BY <1>2, <1>6, <2>1, <2>2, <2>3 DEF S, n, A
<1> QED
  BY <1>5, <1>6

\* The sources that make up a trusted price are all in the range around it.
LEMMA MidHoldsQuotes ==
  ASSUME NEW q \in Heard, ComputeTrustedMid(q) # NoMid, NEW s \in Answered(q)
  PROVE  InBounds(Whole(q[s]), ComputeTrustedMid(q))
<1> DEFINE A == Answered(q)
           n == Cardinality(A)
           S == SumFunctionOnSet(q, A)
           mid == ComputeTrustedMid(q)
           h == HalfWidth.num
           d == HalfWidth.den
<1>1. IsFiniteSet(A) /\ A # {} /\ n \in Nat /\ \A t \in A : q[t] \in Int /\ q[t] > 0
  BY HeardType
<1>2. n >= 2 /\ ~Less(Divergence, Frac(Spread(q), Median(q))) /\ S \in Int /\ Is(mid, S, n)
  BY MidIs
<1>3. PICK m \in A : Median(q) = q[m] /\ Cardinality(Below(q, m)) <= n \div 2
  BY <1>1, MedianIs
<1>4. PICK lo, hi \in A : Spread(q) = q[hi] - q[lo] /\ \A t \in A : q[lo] <= q[t] /\ q[t] <= q[hi]
  BY <1>1, SpreadIs
<1> HIDE DEF n, S, mid, h, d
<1>5. /\ q[lo] \in Int /\ q[hi] \in Int /\ q[m] \in Int /\ 0 < q[lo] /\ 0 < q[m]
      /\ q[lo] <= q[m] /\ q[m] <= q[hi]
  BY <1>1, <1>4
<1>6. h \in Int /\ d \in Int /\ 0 < h /\ h < d
  BY Bounds DEF h, d
<1>7. (q[hi] - q[lo]) * d <= h * q[m]
  <2> DEFINE e == Divergence.num
             f == Divergence.den
             w == q[hi] - q[lo]
  <2>1. e \in Int /\ f \in Int /\ f > 0 /\ e * d < h * f /\ Is(Divergence, e, f)
    BY Bounds, IsItself DEF h, d
  <2>2. w \in Int
    BY <1>5
  <2>3. Is(Frac(Spread(q), Median(q)), w, q[m])
    <3>1. q[m] # 0
      BY <1>5
    <3> QED
      BY <1>3, <1>4, <1>5, <2>2, <3>1, LowestIs DEF Frac
  <2> HIDE DEF e, f, w
  <2>4. ~(e * q[m] < w * f)
    BY <1>2, <1>5, <2>1, <2>2, <2>3, LessIs
  <2>5. (w * f) * d <= (h * f) * q[m]
    <3>1. \A a, b, c \in Int : c >= 0 /\ a <= b => a * c <= b * c
      OBVIOUS
    <3>2. w * f \in Int /\ e * q[m] \in Int /\ e * d \in Int /\ h * f \in Int
      BY <1>5, <1>6, <2>1, <2>2
    <3>3. w * f <= e * q[m] /\ e * d <= h * f
      BY <2>1, <2>4, <3>2
    <3>4. (w * f) * d <= (e * q[m]) * d
      BY <1>6, <3>1, <3>2, <3>3
    <3>5. (e * d) * q[m] <= (h * f) * q[m]
      BY <1>5, <3>1, <3>2, <3>3
    <3>6. (e * q[m]) * d = (e * d) * q[m]
      BY <1>5, <1>6, <2>1
    <3>7. (w * f) * d \in Int /\ (e * d) * q[m] \in Int /\ (h * f) * q[m] \in Int
      BY <1>5, <1>6, <3>2
    <3> QED
      BY <3>4, <3>5, <3>6, <3>7
  <2>6. (w * d) * f <= (h * q[m]) * f
    <3>1. (w * f) * d = (w * d) * f /\ (h * f) * q[m] = (h * q[m]) * f
      BY <1>5, <1>6, <2>1, <2>2
    <3> QED
      BY <2>5, <3>1
  <2>7. w * d <= h * q[m]
    <3>1. \A a, b, c \in Int : c > 0 /\ a * c <= b * c => a <= b
      OBVIOUS
    <3>2. w * d \in Int /\ h * q[m] \in Int
      BY <1>5, <1>6, <2>2
    <3> QED
      BY <2>1, <2>6, <3>1, <3>2
  <2> QED
    BY <2>7 DEF w
<1> DEFINE r == Cardinality(Below(q, m))
<1>8. r \in Nat /\ 2 * r <= n /\ S >= q[lo] * r + q[m] * (n - r)
  <2> DEFINE R == Below(q, m)
  <2>1. R \in SUBSET A /\ IsFiniteSet(R)
    <3>1. R \in SUBSET A
      BY DEF Below
    <3> QED
      BY <1>1, <3>1, FS_Subset
  <2>2. r \in Nat
    BY <2>1, FS_CardinalityType
  <2>3. Cardinality(A \ R) = n - r
    <3>1. A \cap R = R
      BY <2>1
    <3>2. Cardinality(A \ R) = Cardinality(A) - Cardinality(A \cap R)
      BY <1>1, FS_Difference, Zenon
    <3> QED
      BY <3>1, <3>2 DEF n
  <2>4. (\A t \in R : q[t] >= q[lo]) /\ (\A t \in A \ R : q[t] >= q[m])
    BY <1>1, <1>4 DEF Below
  <2>5. S >= q[lo] * Cardinality(R) + q[m] * Cardinality(A \ R)
    <3>1. \A t \in A : q[t] \in Int
      BY <1>1
    <3> HIDE DEF A, R
    <3> QED
      BY <1>1, <1>5, <2>1, <2>4, <3>1, SumAtLeast DEF S
  <2> HIDE DEF R
  <2>6. 2 * r <= n
    BY <1>1, <1>3, <2>2
  <2> QED
    BY <2>2, <2>3, <2>5, <2>6 DEF R
<1>9. S <= q[hi] * n
  <2>1. (\A t \in A : q[t] \in Int) /\ (\A t \in A : q[t] <= q[hi])
    BY <1>1, <1>4
  <2> HIDE DEF A
  <2> QED
    BY <1>1, <1>5, <2>1, SumAtMost DEF S, n
<1> HIDE DEF r
<1>10. S * (d - h) <= q[lo] * (n * d) /\ q[hi] * (n * d) <= S * (d + h)
  BY <1>1, <1>2, <1>5, <1>6, <1>7, <1>8, <1>9, MeanIsNear
<1> DEFINE x == q[s]
<1>11. x \in Int /\ q[lo] <= x /\ x <= q[hi] /\ Is(Whole(x), x, 1)
  BY <1>1, <1>4, WholeIs
<1> HIDE DEF x
<1>12. S * (d - h) * 1 <= x * (n * d) /\ x * (n * d) <= S * (d + h) * 1
  <2>1. \A a, b, c \in Int : c >= 0 /\ a <= b => a * c <= b * c
    OBVIOUS
  <2>2. n * d \in Int /\ n * d >= 0
    BY <1>1, <1>6
  <2>3. q[lo] * (n * d) <= x * (n * d) /\ x * (n * d) <= q[hi] * (n * d)
    BY <1>5, <1>11, <2>1, <2>2
  <2>4. /\ q[lo] * (n * d) \in Int /\ x * (n * d) \in Int /\ q[hi] * (n * d) \in Int
        /\ S * (d - h) \in Int /\ S * (d + h) \in Int
    BY <1>2, <1>5, <1>6, <1>11, <2>2
  <2> QED
    BY <1>10, <2>3, <2>4
<1>13. n \in Int /\ n > 0
  BY <1>1, <1>2
<1>14. InBounds(Whole(x), mid)
  BY <1>2, <1>11, <1>12, <1>13, RangeIs DEF h, d
<1> QED
  BY <1>14 DEF mid, x
-----------------------------------------------------------------------------
(* The tick. *)

\* What Push does to the history.
LEMMA PushIs ==
  ASSUME NEW h \in Seq(Prices), NEW mid \in Prices
  PROVE  /\ Push(h, mid) \in Seq(Prices)
         /\ Len(Push(h, mid)) = IF Len(h) <= Window THEN Len(h) + 1 ELSE Window + 1
         /\ Push(h, mid)[1] = mid
         /\ \A i \in 1..Len(h) : i <= Window => Push(h, mid)[i + 1] = h[i]
<1> DEFINE g == <<mid>> \o h
           l == Min({Len(g), Window + 1})
<1>1. Window \in Nat /\ Len(h) \in Nat
  BY MarketAssumption
<1>2. /\ g \in Seq(Prices) /\ Len(g) = Len(h) + 1
      /\ g[1] = mid /\ \A i \in 1..Len(h) : g[i + 1] = h[i]
  OBVIOUS
<1>3. l = IF Len(h) <= Window THEN Len(h) + 1 ELSE Window + 1
  BY <1>1, <1>2, MinPair
<1> HIDE DEF g, l
<1>4. l \in Nat /\ 1 <= l /\ l <= Len(g)
  BY <1>1, <1>2, <1>3
<1>5. Push(h, mid) = SubSeq(g, 1, l)
  BY DEF Push, g, l
<1>6. SubSeq(g, 1, l) \in Seq(Prices) /\ Len(SubSeq(g, 1, l)) = l /\ \A i \in 1..l : SubSeq(g, 1, l)[i] = g[i]
  BY <1>2, <1>4
<1>7. \A i \in 1..Len(h) : i <= Window => i + 1 \in 1..l
  BY <1>1, <1>3
<1>8. Push(h, mid) \in Seq(Prices) /\ Len(Push(h, mid)) = l /\ Push(h, mid)[1] = mid
  BY <1>2, <1>4, <1>5, <1>6
<1>9. ASSUME NEW i \in 1..Len(h), i <= Window PROVE Push(h, mid)[i + 1] = h[i]
  BY <1>2, <1>5, <1>6, <1>7, <1>9
<1> QED
  BY <1>3, <1>8, <1>9

Rebalancing == {"swap", "bundle", "rpc", "size", "open"}

TickType ==
  /\ pc \in Before \cup Sized \cup {"bundle", "rpc"}
  /\ quotes \in Heard /\ sol \in SolPrices \cup {NoSol} /\ solThen \in SolPrices \cup {NoSol}
  /\ history \in Seq(Prices) /\ Len(history) <= Window + 1
  /\ stored \in BOOLEAN /\ center \in Prices /\ lived \in 0..(Window + 1) /\ cooled \in 0..MinInterval
  /\ today \in 0..DailyMax /\ paused \in BOOLEAN

\* A tick that rebalances has a sample and a SOL price, and it stays below the
\* daily cap until the position is open.
TickFits ==
  /\ pc \in Rebalancing \cup {"decide"} => history # <<>>
  /\ pc = "decide" /\ history[1] # NoMid => sol \in SolPrices
  /\ pc \in Rebalancing => today < DailyMax /\ history[1] # NoMid /\ sol \in SolPrices

\* The newest sample is what the sources of this tick make of it.
NewestIsMid == pc = "decide" => history[1] = ComputeTrustedMid(quotes)

\* mid is the sample the open position was opened around.
OpenedAround(mid) == mid # NoMid /\ mid = Times(center, Whole(solThen))

\* That sample is as old as the position, unless it is lost or out of the window.
CenterIsSample ==
  /\ center # NoMid => stored
  /\ center # NoMid /\ lived <= Window => Len(history) <= lived \/ OpenedAround(history[lived + 1])

TickInv == TickType /\ TickFits /\ NewestIsMid /\ CenterIsSample

LEMMA TickStepKeeps == TickInv /\ [Next]_vars => TickInv'
<1> SUFFICES ASSUME TickInv, [Next]_vars PROVE TickInv'
  OBVIOUS
<1> USE DEF TickInv
<1>a. Window \in Nat /\ MinInterval \in Nat /\ DailyMax \in Nat \ {0}
  BY MarketAssumption, TradingAssumption
<1>b. Silent \in Heard
  BY DEF Silent, Heard
<1>c. NoMid \in Prices
  BY WholeLaws DEF NoMid, Prices
<1>1. CASE Fetch
  <2>1. /\ pc' = "decide" /\ quotes' \in Heard /\ history' = Push(history, ComputeTrustedMid(quotes'))
        /\ lived' = UpTo(lived, Window + 1) /\ cooled' = UpTo(cooled, MinInterval)
        /\ sol' \in IF ComputeTrustedMid(quotes') = NoMid THEN {NoSol} ELSE SolPrices
        /\ UNCHANGED <<stored, center, solThen, today, paused>>
    BY <1>1 DEF Fetch, Heard
  <2> DEFINE mid == ComputeTrustedMid(quotes')
  <2>2. mid \in Prices
    BY <2>1, MidIs
  <2> HIDE DEF mid
  <2>3. history \in Seq(Prices) /\ Len(history) \in Nat
    BY DEF TickType
  <2>4. /\ history' \in Seq(Prices)
        /\ Len(history') = IF Len(history) <= Window THEN Len(history) + 1 ELSE Window + 1
        /\ history'[1] = mid
        /\ \A i \in 1..Len(history) : i <= Window => history'[i + 1] = history[i]
    BY <2>1, <2>2, <2>3, PushIs DEF mid
  <2>5. TickType'
    <3>1. lived' \in 0..(Window + 1) /\ cooled' \in 0..MinInterval
      BY <1>a, <2>1 DEF UpTo, TickType
    <3>2. Len(history') <= Window + 1 /\ "decide" \in Before
      BY <1>a, <2>3, <2>4 DEF Before
    <3> QED
      BY <2>1, <2>4, <3>1, <3>2 DEF TickType
  <2>6. TickFits'
    <3>1. history' # <<>>
      BY <1>a, <2>3, <2>4
    <3>2. history'[1] # NoMid => sol' \in SolPrices
      BY <2>1, <2>4 DEF mid
    <3> QED
      BY <2>1, <3>1, <3>2 DEF TickFits, Rebalancing
  <2>7. NewestIsMid'
    BY <2>1, <2>4 DEF NewestIsMid, mid
  <2>8. CenterIsSample'
    <3>1. center # NoMid => stored
      BY DEF CenterIsSample
    <3>2. ASSUME center # NoMid, lived' <= Window
          PROVE  Len(history') <= lived' \/ OpenedAround(history'[lived' + 1])
      <4>1. lived \in Nat /\ lived' = lived + 1 /\ lived < Window
        BY <1>a, <2>1, <3>2 DEF UpTo, TickType
      <4>2. Len(history) <= lived \/ OpenedAround(history[lived + 1])
        BY <1>a, <3>2, <4>1 DEF CenterIsSample
      <4>3. CASE Len(history) <= lived
        BY <1>a, <2>3, <2>4, <4>1, <4>3
      <4>4. CASE ~(Len(history) <= lived) /\ OpenedAround(history[lived + 1])
        <5>1. lived + 1 \in 1..Len(history) /\ lived + 1 <= Window
          BY <1>a, <2>3, <4>1, <4>4
        <5>2. history'[(lived + 1) + 1] = history[lived + 1]
          BY <2>4, <5>1
        <5> QED
          BY <4>1, <4>4, <5>2
      <4> QED
        BY <4>2, <4>3, <4>4
    <3> QED
      BY <2>1, <3>1, <3>2 DEF CenterIsSample, OpenedAround
  <2> QED
    BY <2>5, <2>6, <2>7, <2>8
<1>2. CASE NothingDone
  <2>1. /\ pc' = "fetch" /\ quotes' = Silent
        /\ paused' \in {paused, TRUE}
        /\ UNCHANGED <<sol, history, stored, center, solThen, lived, cooled, today>>
    BY <1>2 DEF NothingDone
  <2> QED
    BY <1>b, <2>1 DEF TickType, TickFits, NewestIsMid, CenterIsSample, OpenedAround, Before, Rebalancing
<1>3. CASE BeginRebalance
  <2>1. /\ pc = "decide" /\ pc' = "swap" /\ quotes' = Silent /\ today < DailyMax
        /\ history[1] # NoMid
        /\ UNCHANGED <<sol, history, stored, center, solThen, lived, cooled, today, paused>>
    BY <1>3 DEF BeginRebalance, WantsRebalance, WantsPosition, SustainedOut
  <2>2. sol \in SolPrices
    BY <2>1 DEF TickFits
  <2> QED
    BY <1>b, <2>1, <2>2
    DEF TickType, TickFits, NewestIsMid, CenterIsSample, OpenedAround, Before, Rebalancing
<1>4. CASE \/ BuildSwap \/ BundleConfirmed \/ BundleGivenUp \/ SendAttempt \/ AttemptConfirmed
           \/ AttemptThrows \/ SwapFails \/ Size
  <2>1. pc \in Rebalancing /\ pc' \in Rebalancing /\ UNCHANGED price
    BY <1>4 DEF BuildSwap, BundleConfirmed, BundleGivenUp, SendAttempt, AttemptConfirmed,
                AttemptThrows, SwapFails, Size, Rebalancing
  <2> QED
    BY <2>1
    DEF TickType, TickFits, NewestIsMid, CenterIsSample, OpenedAround, Before, Sized, Rebalancing, price
<1>5. CASE OpenPosition
  <2>1. /\ pc = "open" /\ pc' = "after" /\ stored' = TRUE /\ lived' = 0
        /\ center' = InSol(history[1], sol) /\ solThen' = sol
        /\ \/ cooled' = 0 /\ today' = today + 1 /\ history' = history
           \/ history' = <<>> /\ UNCHANGED <<cooled, today>>
        /\ UNCHANGED <<quotes, sol, paused>>
    BY <1>5 DEF OpenPosition
  <2>2. /\ history \in Seq(Prices) /\ history # <<>> /\ today < DailyMax
        /\ history[1] # NoMid /\ sol \in SolPrices
    BY <2>1 DEF TickType, TickFits, Rebalancing
  <2>3. center' \in Prices /\ history[1] = Times(center', Whole(solThen'))
    <3>1. history[1] \in Prices
      BY <2>2
    <3> QED
      BY <2>1, <2>2, <3>1, InSolUndoes
  <2>4. TickType'
    <3>1. history' \in Seq(Prices) /\ Len(history') <= Window + 1
      <4>1. CASE history' = history
        BY <4>1 DEF TickType
      <4>2. CASE history' = <<>>
        <5>1. <<>> \in Seq(Prices) /\ Len(<<>>) = 0
          OBVIOUS
        <5>2. history' \in Seq(Prices) /\ Len(history') = 0
          BY <4>2, <5>1
        <5> QED
          BY <1>a, <5>2
      <4> QED
        BY <2>1, <4>1, <4>2
    <3>2. cooled' \in 0..MinInterval /\ today' \in 0..DailyMax /\ lived' \in 0..(Window + 1)
      BY <1>a, <2>1, <2>2 DEF TickType
    <3> QED
      BY <2>1, <2>3, <3>1, <3>2 DEF TickType, Sized
  <2>5. Len(history') <= lived' \/ OpenedAround(history[lived + 1])'
    <3>1. CASE history' = history
      <4>1. history'[lived' + 1] = history[1]
        BY <2>1, <3>1
      <4> QED
        BY <2>2, <2>3, <4>1 DEF OpenedAround
    <3>2. CASE history' = <<>>
      BY <2>1, <3>2
    <3> QED
      BY <2>1, <3>1, <3>2
  <2> QED
    BY <2>1, <2>4, <2>5 DEF TickFits, NewestIsMid, CenterIsSample, Rebalancing
<1>6. CASE OpenFails
  <2>1. /\ center' = NoMid /\ solThen' = NoSol /\ paused' = TRUE /\ pc' = "after"
        /\ stored' \in {stored, TRUE}
        /\ UNCHANGED <<quotes, sol, history, lived, cooled, today>>
    BY <1>6 DEF OpenFails
  <2> QED
    BY <1>c, <2>1 DEF TickType, TickFits, NewestIsMid, CenterIsSample, Sized, Rebalancing
<1>7. CASE AllOver
  <2>1. pc' = "fetch" /\ UNCHANGED price
    BY <1>7 DEF AllOver
  <2> QED
    BY <2>1 DEF TickType, TickFits, NewestIsMid, CenterIsSample, OpenedAround, Before, Rebalancing, price
<1>8. CASE ChainStep \/ UNCHANGED vars
  <2>1. UNCHANGED <<pc, price>>
    BY <1>8 DEF ChainStep, Land, Expire, StrayLands, StrayExpires, vars
  <2> QED
    BY <2>1 DEF TickType, TickFits, NewestIsMid, CenterIsSample, OpenedAround, price
<1>9. CASE Pause
  <2>1. /\ pc = "fetch" /\ paused' = ~paused
        /\ UNCHANGED <<pc, quotes, sol, history, stored, center, solThen, lived, cooled, today>>
    BY <1>9 DEF Pause
  <2> QED
    BY <2>1 DEF TickType, TickFits, NewestIsMid, CenterIsSample, OpenedAround, Rebalancing
<1>10. CASE Reconcile
  <2>1. /\ pc = "fetch" /\ center = NoMid /\ stored' = FALSE
        /\ UNCHANGED <<pc, quotes, sol, history, center, solThen, lived, cooled, today, paused>>
    BY <1>10 DEF Reconcile
  <2> QED
    BY <2>1 DEF TickType, TickFits, NewestIsMid, CenterIsSample, OpenedAround, Rebalancing
<1>11. CASE Midnight
  <2>1. /\ pc = "fetch" /\ today' = 0
        /\ UNCHANGED <<pc, quotes, sol, history, stored, center, solThen, lived, cooled, paused>>
    BY <1>11 DEF Midnight
  <2> QED
    BY <1>a, <2>1 DEF TickType, TickFits, NewestIsMid, CenterIsSample, OpenedAround, Rebalancing
<1>12. CASE Restart
  <2>1. /\ pc = "fetch" /\ history' = <<>>
        /\ UNCHANGED <<pc, quotes, sol, stored, center, solThen, lived, cooled, today, paused>>
    BY <1>12 DEF Restart
  <2>2. history' \in Seq(Prices) /\ Len(history') = 0 /\ lived \in Nat
    BY <2>1 DEF TickType
  <2> QED
    BY <1>a, <2>1, <2>2 DEF TickType, TickFits, NewestIsMid, CenterIsSample, Rebalancing
<1> QED
  BY <1>1, <1>2, <1>3, <1>4, <1>5, <1>6, <1>7, <1>8, <1>9, <1>10, <1>11, <1>12 DEF Next, TickStep

LEMMA TickInvariant == Spec => []TickInv
<1>1. Init => TickInv
  <2> SUFFICES ASSUME Init PROVE TickInv
    OBVIOUS
  <2>1. /\ pc = "fetch" /\ quotes = Silent /\ history = <<>> /\ stored = FALSE /\ center = NoMid
        /\ lived = 0 /\ cooled = MinInterval /\ today = 0 /\ paused = FALSE
        /\ sol = NoSol /\ solThen = NoSol
    BY DEF Init
  <2>2. Silent \in Heard /\ NoMid \in Prices
    BY WholeLaws DEF Silent, Heard, NoMid, Prices
  <2>3. Window \in Nat /\ MinInterval \in Nat /\ DailyMax \in Nat
    BY MarketAssumption, TradingAssumption
  <2>4. <<>> \in Seq(Prices) /\ Len(<<>>) = 0
    OBVIOUS
  <2>5. TickType
    <3>1. history \in Seq(Prices) /\ Len(history) = 0
      BY <2>1, <2>4
    <3>2. Len(history) <= Window + 1
      BY <2>3, <3>1
    <3>3. lived \in 0..(Window + 1) /\ cooled \in 0..MinInterval /\ today \in 0..DailyMax
      BY <2>1, <2>3
    <3> QED
      BY <2>1, <2>2, <3>1, <3>2, <3>3 DEF TickType, Before
  <2> QED
    BY <2>1, <2>5 DEF TickInv, TickFits, NewestIsMid, CenterIsSample, Rebalancing
<1> QED
  BY <1>1, TickStepKeeps, PTL DEF Spec
-----------------------------------------------------------------------------
(* Bounds on what is sent and deposited. *)

\* Two amounts scaled to the cap and rounded down do not exceed it together.
LEMMA ScaledSum ==
  ASSUME NEW u \in Nat, NEW b \in Nat, NEW t \in Nat \ {0}, t = u + b, NEW cap \in Nat
  PROVE  (u * cap) \div t + (b * cap) \div t <= cap
<1> DEFINE p == (u * cap) \div t
           q == (b * cap) \div t
<1>1. u * cap \in Nat /\ b * cap \in Nat /\ u * cap + b * cap = t * cap
  OBVIOUS
<1>2. p \in Nat /\ t * p <= u * cap /\ q \in Nat /\ t * q <= b * cap
  BY <1>1, Quotient
<1> HIDE DEF p, q
<1>3. p + q <= cap
  <2> SUFFICES ASSUME p + q >= cap + 1 PROVE FALSE
    BY <1>2
  <2>1. t * (p + q) >= t * (cap + 1)
    BY <1>2
  <2>2. t * (p + q) = t * p + t * q /\ t * (cap + 1) = t * cap + t
    BY <1>2
  <2>3. t * p \in Nat /\ t * q \in Nat /\ t * cap \in Nat
    BY <1>2
  <2> QED
    BY <1>1, <1>2, <2>1, <2>2, <2>3
<1> QED
  BY <1>3 DEF p, q

LEMMA SizeCapped ==
  ASSUME TradeType, Size
  PROVE  deposit'.sol + deposit'.bert <= MaxPosition
<1> DEFINE u == Usable(wallet)
           b == wallet.bert
           t == Total(wallet)
           cap == Min({t, MaxPosition})
<1>1. u \in Nat /\ b \in Nat /\ t \in Nat /\ t = u + b /\ MaxPosition \in Nat
  BY TradingAssumption DEF Total, Usable, TradeType, Coins
<1>2. cap \in Nat /\ cap <= MaxPosition
  BY <1>1, MinPair
<1>3. deposit' = IF t = 0 THEN Empty ELSE [sol |-> (u * cap) \div t, bert |-> (b * cap) \div t]
  BY DEF Size
<1> HIDE DEF u, b, t, cap
<1>4. CASE t = 0
  BY <1>1, <1>3, <1>4 DEF Empty
<1>5. CASE t # 0
  <2>1. t \in Nat \ {0}
    BY <1>1, <1>5
  <2>2. deposit'.sol = (u * cap) \div t /\ deposit'.bert = (b * cap) \div t
    BY <1>3, <1>5
  <2>3. (u * cap) \div t + (b * cap) \div t <= cap
    BY <1>1, <1>2, <2>1, ScaledSum
  <2>4. (u * cap) \div t \in Nat /\ (b * cap) \div t \in Nat
    BY <1>1, <1>2, <2>1, Quotient
  <2> QED
    BY <1>1, <1>2, <2>2, <2>3, <2>4
<1> QED
  BY <1>4, <1>5

SendsBounded ==
  /\ tries \in 0..SubmitRetries
  /\ flying \in Nat /\ abandoned \in 0..MaxAbandoned /\ flying <= abandoned
  /\ deposit.sol + deposit.bert <= MaxPosition

LEMMA SendsStep == TradeType /\ SendsBounded /\ [Next]_vars => SendsBounded'
<1> SUFFICES ASSUME TradeType, SendsBounded, [Next]_vars PROVE SendsBounded'
  OBVIOUS
<1>a. MaxPosition \in Nat /\ SubmitRetries \in Nat \ {0} /\ MaxAbandoned \in Nat
  BY TradingAssumption
<1>1. CASE \/ Fetch \/ NothingDone \/ BeginRebalance \/ BuildSwap \/ BundleConfirmed \/ AttemptConfirmed
           \/ SwapFails \/ OpenPosition \/ OpenFails \/ Land \/ Expire
           \/ Pause \/ Reconcile \/ Midnight \/ Restart \/ UNCHANGED vars
  <2>1. UNCHANGED <<tries, flying, abandoned, deposit>>
    BY <1>1 DEF Fetch, NothingDone, BeginRebalance, BuildSwap, BundleConfirmed, AttemptConfirmed,
                SwapFails, OpenPosition, OpenFails, Land, Expire, Pause, Reconcile, Midnight, Restart,
                vars, trade
  <2> QED
    BY <2>1 DEF SendsBounded
<1>2. CASE BundleGivenUp \/ AttemptThrows
  <2>1. GiveUp /\ UNCHANGED <<tries, deposit>>
    BY <1>2 DEF BundleGivenUp, AttemptThrows
  <2> QED
    BY <1>a, <2>1 DEF GiveUp, SendsBounded
<1>3. CASE SendAttempt
  <2>1. tries < SubmitRetries /\ tries' = tries + 1 /\ UNCHANGED <<flying, abandoned, deposit>>
    BY <1>3 DEF SendAttempt
  <2> QED
    BY <1>a, <2>1 DEF SendsBounded
<1>4. CASE StrayLands \/ StrayExpires
  <2>1. flying > 0 /\ flying' = flying - 1 /\ UNCHANGED <<tries, abandoned, deposit>>
    BY <1>4 DEF StrayLands, StrayExpires
  <2> QED
    BY <1>a, <2>1 DEF SendsBounded
<1>5. CASE Size
  <2>1. deposit'.sol + deposit'.bert <= MaxPosition /\ UNCHANGED <<tries, flying, abandoned>>
    BY <1>5, SizeCapped DEF Size
  <2> QED
    BY <2>1 DEF SendsBounded
<1>6. CASE AllOver
  <2>1. tries' = 0 /\ flying' = 0 /\ abandoned' = 0 /\ deposit'.sol = 0 /\ deposit'.bert = 0
    BY <1>6 DEF AllOver, Empty
  <2> QED
    BY <1>a, <2>1 DEF SendsBounded
<1> QED
  BY <1>1, <1>2, <1>3, <1>4, <1>5, <1>6 DEF Next, TickStep, ChainStep

\* Every variable of the tick has its type in every behaviour; at no time has
\* rebalancer.ts built a position of more than maxPositionUsd, however the
\* two floored amounts come out, and there are never more rebalances logged
\* than maxRebalancesPerDay.
THEOREM TypeCorrect == Spec => []TypeOK
<1>1. Init => SendsBounded
  <2> SUFFICES ASSUME Init PROVE SendsBounded
    OBVIOUS
  <2>1. tries = 0 /\ flying = 0 /\ abandoned = 0 /\ deposit.sol = 0 /\ deposit.bert = 0
    BY DEF Init, Empty
  <2>2. MaxPosition \in Nat /\ SubmitRetries \in Nat \ {0} /\ MaxAbandoned \in Nat
    BY TradingAssumption
  <2> QED
    BY <2>1, <2>2 DEF SendsBounded
<1>2. TradeInv => TradeType
  BY DEF TradeInv
<1>3. TradeType /\ TickInv /\ SendsBounded => TypeOK
  <2> SUFFICES ASSUME TradeType, TickInv, SendsBounded PROVE TypeOK
    OBVIOUS
  <2>1. pc \in {"fetch", "decide", "swap", "bundle", "rpc", "size", "open", "after"}
    BY DEF TradeType, Before, Sized
  <2>2. \A i \in DOMAIN history : history[i] \in Fraction
    <3>1. history \in Seq(Prices)
      BY DEF TickInv, TickType
    <3> QED
      BY <3>1 DEF Prices, Lowest
  <2>3. center \in Fraction
    BY DEF TickInv, TickType, Prices, Lowest
  <2>4. {wallet, deposit, start} \subseteq [sol : Nat, bert : Nat]
    BY DEF TradeType, Coins
  <2>5. flying \in 0..MaxAbandoned
    BY TradingAssumption DEF SendsBounded
  <2> QED
    BY <2>1, <2>2, <2>3, <2>4, <2>5 DEF TypeOK, TradeType, TickInv, TickType, SendsBounded, Heard
<1> QED
  BY <1>1, <1>2, <1>3, TradeInvariant, TickInvariant, SendsStep, PTL DEF Spec

\* computeTrustedMid (priceOracle.ts) compares the spread of the sources with
\* their median, and returns their mean. For any number of sources and any
\* quotes: as long as the divergence is below half the range's width, a
\* position opened around the mean holds every price that was quoted.
THEOREM RangesHoldQuotes == Spec => []RangeHoldsQuotes
<1>1. TickInv => RangeHoldsQuotes
  <2> SUFFICES ASSUME TickInv, pc = "decide", history[1] # NoMid, NEW s \in Answered(quotes)
               PROVE  InRange(Whole(quotes[s]), InSol(history[1], sol), sol)
    BY DEF RangeHoldsQuotes
  <2>1. quotes \in Heard /\ history[1] = ComputeTrustedMid(quotes) /\ sol \in SolPrices
    BY DEF TickInv, TickType, TickFits, NewestIsMid
  <2>2. history[1] \in Prices
    BY <2>1, MidIs
  <2>3. Times(InSol(history[1], sol), Whole(sol)) = history[1]
    BY <2>1, <2>2, InSolUndoes
  <2> QED
    BY <2>1, <2>3, MidHoldsQuotes DEF InRange
<1> QED
  BY <1>1, TickInvariant, PTL

\* decide (strategy.ts) counts the out-of-range samples of a window that may
\* reach back before the open position, and compares them with USD bounds that
\* getPosition computes anew from the SOL price of every tick. As long as
\* SOL/USD is within half the range's width of what it was when the position
\* was opened, these samples never count: the one the position was opened
\* around is in range, and while it is in the window no rebalance begins; once
\* it is not, all samples are younger, or a restart has lost them.
THEOREM OldPricesNeverCount == Spec => OldPricesDontCount
<1>1. TickInv /\ [Next]_vars =>
        [BeginRebalance /\ center # NoMid /\ InBounds(Whole(solThen), Whole(sol)) =>
           \A i \in DOMAIN history : history[i] # NoMid => i - 1 <= lived]_vars
  <2> SUFFICES ASSUME TickInv, BeginRebalance, center # NoMid, InBounds(Whole(solThen), Whole(sol)),
                      NEW i \in DOMAIN history, history[i] # NoMid, ~(i - 1 <= lived)
               PROVE  FALSE
    OBVIOUS
  <2>1. history \in Seq(Prices) /\ Len(history) <= Window + 1 /\ lived \in Nat /\ Window \in Nat
    BY MarketAssumption DEF TickInv, TickType
  <2>2. i \in Nat /\ i <= Len(history) /\ lived + 1 < i /\ Len(history) \in Nat
    BY <2>1
  <2>3. lived <= Window /\ ~(Len(history) <= lived) /\ lived + 1 \in DOMAIN history
    BY <2>1, <2>2
  <2>4. OpenedAround(history[lived + 1]) /\ stored /\ center \in Prices
    BY <2>3 DEF TickInv, TickType, CenterIsSample
  <2>5. SustainedOut(history, center, sol)
    BY <2>4 DEF BeginRebalance, WantsRebalance, WantsPosition
  <2>6. lived + 1 \in Recent(history)
    BY <2>3, <2>4 DEF Recent, OpenedAround
  <2>7. ~InRange(Times(center, Whole(solThen)), center, sol)
    BY <2>4, <2>5, <2>6 DEF SustainedOut, OpenedAround
  <2>8. Whole(solThen) \in Lowest /\ Whole(sol) \in Lowest
    <3>1. solThen \in Int /\ sol \in Int
      BY MarketAssumption DEF TickInv, TickType, NoSol, NoQuote
    <3> QED
      BY <3>1, WholeLaws
  <2> QED
    BY <2>4, <2>7, <2>8, BoundsScale DEF InRange
<1> QED
  BY <1>1, TickInvariant, PTL DEF Spec, OldPricesDontCount
=============================================================================
