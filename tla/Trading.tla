------------------------------ MODULE Trading ------------------------------
(***************************************************************************)
(* From the price to the new position: the tick that samples the oracle    *)
(* and decides (src/src/main.ts, strategy.ts), and the middle of           *)
(* executeRebalance, which swaps to 50/50 through a Jito bundle with a     *)
(* fallback to plain sends (src/src/rebalancer.ts, txSubmitter.ts,         *)
(* jitoClient.ts). Which position is open, stored and logged when a        *)
(* rebalance fails or the process dies in it is the subject of Rebalancer. *)
(*                                                                         *)
(* Time passes in polls. Holdings are counted in USD at the price of the   *)
(* tick, which the pool is taken to share; slippage, fees and tips are     *)
(* left out, and so are the vault's sweeps and payouts from the wallet.    *)
(* dryRun, which sends and stores nothing, is not modelled.                *)
(***************************************************************************)
EXTENDS Market

CONSTANTS
  MinInterval,    \* minRebalanceIntervalMin, in polls
  DailyMax,       \* maxRebalancesPerDay
  Holdings,       \* what the wallet may hold after a close: SOL and BERT
  SolFloor,       \* minSolFloorLamports
  MaxPosition,    \* maxPositionUsd
  SubmitRetries,  \* maxRetries of submit
  MaxAbandoned    \* bound: sends given up on that were not dead

ASSUME TradingAssumption ==
  /\ MinInterval \in Nat
  /\ DailyMax \in Nat \ {0} /\ SubmitRetries \in Nat \ {0} /\ MaxAbandoned \in Nat
  /\ Holdings \subseteq [sol : Nat, bert : Nat]
  /\ SolFloor \in Nat /\ MaxPosition \in Nat

VARIABLES
  pc,         \* where the tick is
  quotes,     \* what the sources said in this tick
  sol,        \* mid.solUsd of this tick
  history,    \* priceHistory
  stored,     \* is there a position row?
  center,     \* center of the open position, in SOL; NoMid if there is none
  lived,      \* polls since it was opened, up to Window + 1
  cooled,     \* polls since lastRebalanceAt, up to MinInterval
  today,      \* rebalances of the day
  paused,     \* kill switch or degraded flag
  (* a rebalance's swap *)
  wallet,     \* the main wallet
  swap,       \* SOL to sell (BERT, if negative)
  cur,        \* the send that is waited for
  tries,      \* plain sends so far
  flying,     \* sends given up on that may still land
  deposit,    \* what the open was built with
  (* history *)
  solThen,    \* SOL/USD when the position was opened
  start,      \* the wallet when the swap was computed
  abandoned,  \* sends given up on that were not dead
  strayed     \* has one of them landed after the deposit was computed?

price == <<quotes, sol, history, stored, center, solThen, lived, cooled, today, paused>>
trade == <<wallet, swap, cur, tries, flying, deposit, start, abandoned, strayed>>
vars  == <<pc, price, trade>>

Silent == [s \in Sources |-> NoQuote]
Empty  == [sol |-> 0, bert |-> 0]

Init ==
  /\ pc = "fetch" /\ quotes = Silent /\ sol = NoSol /\ history = <<>>
  /\ stored = FALSE /\ center = NoMid /\ solThen = NoSol /\ lived = 0
  /\ cooled = MinInterval /\ today = 0 /\ paused = FALSE
  /\ wallet = Empty /\ swap = 0 /\ cur = "none" /\ tries = 0 /\ flying = 0
  /\ deposit = Empty /\ start = Empty /\ abandoned = 0 /\ strayed = FALSE

UpTo(n, bound) == IF n < bound THEN n + 1 ELSE bound

-----------------------------------------------------------------------------
(* The tick. *)

\* fetchAllSources, computeTrustedMid and the history, one poll later.
Fetch ==
  /\ pc = "fetch"
  /\ quotes' \in [Sources -> Quotes \cup {NoQuote}]
  /\ LET mid == ComputeTrustedMid(quotes') IN
       /\ history' = Push(history, mid)
       /\ sol' \in IF mid = NoMid THEN {NoSol} ELSE SolPrices
  /\ lived' = UpTo(lived, Window + 1)
  /\ cooled' = UpTo(cooled, MinInterval)
  /\ pc' = "decide"
  /\ UNCHANGED <<stored, center, solThen, today, paused, trade>>

WantsRebalanceEarlyCap ==   \* the rebalance at hand is counted already
  /\ ~paused /\ center # NoMid
  /\ SustainedOut(history, center, sol)
  /\ cooled >= MinInterval
  /\ today + 1 < DailyMax

\* decide: REBALANCE.
WantsRebalance ==
  /\ ~paused /\ center # NoMid
  /\ SustainedOut(history, center, sol)
  /\ cooled >= MinInterval
  /\ today < DailyMax

\* The initial open, which does not ask the strategy. A row whose position is
\* gone prevents it.
WantsPosition == ~paused /\ ~stored /\ history[1] # NoMid /\ today < DailyMax

\* HOLD, PAUSE and ALERT_ONLY; and the ticks that end before a rebalance has
\* changed anything: getPosition or simulateClose fails, the close is not sent,
\* or the drawdown breaker trips and sets the degraded flag.
NothingDone ==
  /\ pc = "decide"
  /\ pc' = "fetch" /\ quotes' = Silent
  /\ UNCHANGED paused \/ (WantsRebalance /\ paused' = TRUE)
  /\ UNCHANGED <<sol, history, stored, center, solThen, lived, cooled, today, trade>>

\* executeRebalance has closed the position, if there was one, and reads the
\* balances.
BeginRebalance ==
  /\ pc = "decide"
  /\ WantsRebalance \/ WantsPosition
  /\ wallet' \in Holdings
  /\ start' = wallet'
  /\ pc' = "swap" /\ quotes' = Silent
  /\ UNCHANGED <<sol, history, stored, center, solThen, lived, cooled, today, paused,
                 swap, cur, tries, flying, deposit, abandoned, strayed>>

-----------------------------------------------------------------------------
(* The swap. *)

Usable(w) == IF w.sol > SolFloor THEN w.sol - SolFloor ELSE 0
Total(w)  == Usable(w) + w.bert

\* The wallet's ratio is more than 1% off.
OffRatio(w) == 50 * Abs(Usable(w) - w.bert) > Total(w)

SwapToRatioAll(w) ==   \* the floor is taken for spendable
  IF w.sol > w.bert THEN (w.sol - w.bert) \div 2 ELSE -((w.bert - w.sol) \div 2)

\* buildSwapToRatioTx of either venue: half the difference.
SwapToRatio(w) ==
  LET off == Usable(w) - w.bert IN IF off > 0 THEN off \div 2 ELSE -(Abs(off) \div 2)

\* With a bundle if mevProtection is on, else as a plain send. Building it may
\* throw, as in a pool that is empty without our position: no swap then.
BuildSwap ==
  /\ pc = "swap"
  /\ swap' \in IF OffRatio(wallet) THEN {0, SwapToRatio(wallet)} ELSE {0}
  /\ \/ swap' = 0 /\ pc' = "size" /\ UNCHANGED cur
     \/ swap' # 0 /\ pc' = "bundle" /\ cur' = "live"
     \/ swap' # 0 /\ pc' = "rpc" /\ UNCHANGED cur
  /\ UNCHANGED <<price, wallet, tries, flying, deposit, start, abandoned, strayed>>

\* The send that is waited for is given up.
GiveUp ==
  /\ cur \in {"live", "landed"} => abandoned < MaxAbandoned
  /\ abandoned' = IF cur \in {"live", "landed"} THEN abandoned + 1 ELSE abandoned
  /\ flying' = IF cur = "live" THEN flying + 1 ELSE flying
  /\ cur' = "none"

BundleConfirmedIgnored ==   \* the signature is not returned
  /\ pc = "bundle" /\ cur = "landed"
  /\ cur' = "none" /\ pc' = "rpc"
  /\ UNCHANGED <<price, wallet, swap, tries, flying, deposit, start, abandoned, strayed>>

\* getBundleStatuses says confirmed.
BundleConfirmed ==
  /\ pc = "bundle" /\ cur = "landed"
  /\ cur' = "none" /\ pc' = "size"
  /\ UNCHANGED <<price, wallet, swap, tries, flying, deposit, start, abandoned, strayed>>

\* sendBundle is not answered, or the deadline passes: fallback to submit. The
\* bundle may have landed unseen, or may land yet.
BundleGivenUp ==
  /\ pc = "bundle" /\ GiveUp /\ pc' = "rpc"
  /\ UNCHANGED <<price, wallet, swap, tries, deposit, start, strayed>>

\* submit: an attempt, with a blockhash of its own.
SendAttempt ==
  /\ pc = "rpc" /\ cur = "none" /\ tries < SubmitRetries
  /\ cur' = "live" /\ tries' = tries + 1
  /\ UNCHANGED <<pc, price, wallet, swap, flying, deposit, start, abandoned, strayed>>

AttemptConfirmed ==
  /\ pc = "rpc" /\ cur = "landed"
  /\ cur' = "none" /\ pc' = "size"
  /\ UNCHANGED <<price, wallet, swap, tries, flying, deposit, start, abandoned, strayed>>

AttemptThrows ==
  /\ pc = "rpc" /\ cur # "none" /\ GiveUp
  /\ UNCHANGED <<pc, price, wallet, swap, tries, deposit, start, strayed>>

\* The last one threw: the rebalance goes on with what the wallet holds.
SwapFails ==
  /\ pc = "rpc" /\ cur = "none" /\ tries = SubmitRetries
  /\ pc' = "size"
  /\ UNCHANGED <<price, trade>>

SizeUncapped ==   \* maxPositionUsd is not applied to the final balances
  /\ pc = "size"
  /\ deposit' = [sol |-> Usable(wallet), bert |-> wallet.bert]
  /\ pc' = "open"
  /\ UNCHANGED <<price, wallet, swap, cur, tries, flying, start, abandoned, strayed>>

\* The final balances, scaled to the cap.
Size ==
  /\ pc = "size"
  /\ LET cap == Min({Total(wallet), MaxPosition}) IN
       deposit' = IF Total(wallet) = 0 THEN Empty
                  ELSE [sol  |-> (Usable(wallet) * cap) \div Total(wallet),
                        bert |-> (wallet.bert * cap) \div Total(wallet)]
  /\ pc' = "open"
  /\ UNCHANGED <<price, wallet, swap, cur, tries, flying, start, abandoned, strayed>>

\* The position is opened around the prices of the tick, stored and logged. If
\* the process dies between the two writes it is not logged, and the price
\* history is gone.
OpenPosition ==
  /\ pc = "open"
  /\ deposit.sol <= wallet.sol /\ deposit.bert <= wallet.bert
  /\ wallet' = [sol |-> wallet.sol - deposit.sol, bert |-> wallet.bert - deposit.bert]
  /\ stored' = TRUE /\ center' = InSol(history[1], sol) /\ solThen' = sol
  /\ lived' = 0
  /\ \/ cooled' = 0 /\ today' = today + 1 /\ UNCHANGED history
     \/ history' = <<>> /\ UNCHANGED <<cooled, today>>
  /\ pc' = "after"
  /\ UNCHANGED <<quotes, sol, paused, swap, cur, tries, flying, deposit, start, abandoned, strayed>>

\* The balances cannot be read, the open fails, or it is rolled back because it
\* could not be logged: degraded, without a position. The row of the closed one
\* stays, or that of the one rolled back.
OpenFails ==
  /\ pc \in {"size", "open"}
  /\ center' = NoMid /\ solThen' = NoSol /\ paused' = TRUE
  /\ UNCHANGED stored \/ (pc = "open" /\ stored' = TRUE)
  /\ pc' = "after"
  /\ UNCHANGED <<quotes, sol, history, lived, cooled, today, trade>>

\* A blockhash lives for about a minute: what still flies is over before the
\* next rebalance reads the wallet.
AllOver ==
  /\ pc = "after" /\ flying = 0
  /\ wallet' = Empty /\ swap' = 0 /\ cur' = "none" /\ tries' = 0 /\ flying' = 0
  /\ deposit' = Empty /\ start' = Empty /\ abandoned' = 0 /\ strayed' = FALSE
  /\ pc' = "fetch"
  /\ UNCHANGED price

-----------------------------------------------------------------------------
(* Solana. *)

Covered == IF swap > 0 THEN swap <= wallet.sol ELSE -swap <= wallet.bert
Swapped == [sol |-> wallet.sol - swap, bert |-> wallet.bert + swap]

Land ==
  /\ cur = "live" /\ Covered
  /\ cur' = "landed" /\ wallet' = Swapped
  /\ UNCHANGED <<pc, price, swap, tries, flying, deposit, start, abandoned, strayed>>

Expire ==
  /\ cur = "live"
  /\ cur' = "dead"
  /\ UNCHANGED <<pc, price, wallet, swap, tries, flying, deposit, start, abandoned, strayed>>

StrayLands ==
  /\ flying > 0 /\ Covered
  /\ flying' = flying - 1 /\ wallet' = Swapped
  /\ strayed' = (strayed \/ pc \in {"open", "after"})
  /\ UNCHANGED <<pc, price, swap, cur, tries, deposit, start, abandoned>>

StrayExpires ==
  /\ flying > 0
  /\ flying' = flying - 1
  /\ UNCHANGED <<pc, price, wallet, swap, cur, tries, deposit, start, abandoned, strayed>>

(* The operator, the clock and systemd, between two ticks. *)

\* pause, resume, clear-degraded
Pause ==
  /\ pc = "fetch"
  /\ paused' = ~paused
  /\ UNCHANGED <<pc, quotes, sol, history, stored, center, solThen, lived, cooled, today, trade>>

\* The reconcile command drops the row of a position that is gone.
Reconcile ==
  /\ pc = "fetch" /\ stored /\ center = NoMid
  /\ stored' = FALSE
  /\ UNCHANGED <<pc, quotes, sol, history, center, solThen, lived, cooled, today, paused, trade>>

Midnight ==
  /\ pc = "fetch" /\ today > 0
  /\ today' = 0
  /\ UNCHANGED <<pc, quotes, sol, history, stored, center, solThen, lived, cooled, paused, trade>>

Restart ==
  /\ pc = "fetch" /\ history # <<>>
  /\ history' = <<>>
  /\ UNCHANGED <<pc, quotes, sol, stored, center, solThen, lived, cooled, today, paused, trade>>

TickStep ==
  \/ Fetch \/ NothingDone \/ BeginRebalance \/ BuildSwap
  \/ BundleConfirmed \/ BundleGivenUp
  \/ SendAttempt \/ AttemptConfirmed \/ AttemptThrows \/ SwapFails
  \/ Size \/ OpenPosition \/ OpenFails \/ AllOver

ChainStep == Land \/ Expire \/ StrayLands \/ StrayExpires

Next == TickStep \/ ChainStep \/ Pause \/ Reconcile \/ Midnight \/ Restart

Spec == Init /\ [][Next]_vars

\* The tick loop never stops by itself, a sent transaction lands or dies,
\* a close that is tried again and again is sent some day, and from some time
\* on the process stays up.
FairSpec ==
  /\ Spec
  /\ WF_vars(TickStep) /\ WF_vars(ChainStep)
  /\ SF_vars(BeginRebalance)
  /\ <>[][~Restart]_vars

-----------------------------------------------------------------------------
(* Properties. *)

\* Every variable has its type, and a position is never opened with more
\* than the cap.
TypeOK ==
  /\ pc \in {"fetch", "decide", "swap", "bundle", "rpc", "size", "open", "after"}
  /\ quotes \in [Sources -> Quotes \cup {NoQuote}] /\ {sol, solThen} \subseteq SolPrices \cup {NoSol}
  /\ Len(history) <= Window + 1 /\ \A i \in DOMAIN history : history[i] \in Fraction
  /\ stored \in BOOLEAN /\ center \in Fraction /\ lived \in 0..(Window + 1) /\ cooled \in 0..MinInterval
  /\ today \in 0..DailyMax /\ paused \in BOOLEAN
  /\ {wallet, deposit, start} \subseteq [sol : Nat, bert : Nat]
  /\ deposit.sol + deposit.bert <= MaxPosition
  /\ swap \in Int /\ cur \in {"none", "live", "landed", "dead"}
  /\ tries \in 0..SubmitRetries /\ flying \in 0..MaxAbandoned
  /\ abandoned \in 0..MaxAbandoned /\ strayed \in BOOLEAN

\* A trusted price is one that every source supports: the range that would be
\* opened around it holds what each of them quoted.
RangeHoldsQuotes ==
  pc = "decide" /\ history[1] # NoMid =>
    \A s \in Answered(quotes) : InRange(Whole(quotes[s]), InSol(history[1], sol), sol)

\* Prices from before the position was opened do not count against it, unless
\* SOL/USD has left the half width around its price at the opening: but for such
\* a move, the samples that make the strategy leave a range are as young as the
\* range, over restarts, gaps in the history, a rebalance that was not logged and
\* a cooldown shorter than the window, although the range's USD bounds move with
\* every tick.
OldPricesDontCount ==
  [][BeginRebalance /\ center # NoMid /\ InBounds(Whole(solThen), Whole(sol)) =>
       \A i \in DOMAIN history : history[i] # NoMid => i - 1 <= lived]_vars

\* A bundle that was given up on and lands all the same swaps twice. With one
\* such send the position is still built from a wallet that is no further
\* from 50/50 than it was without any swap (but for rounding).
SwapNoWorse ==
  pc \in {"open", "after"} /\ abandoned <= 1 =>
    Abs(deposit.sol - deposit.bert) <= Abs(Usable(start) - start.bert) + 1

\* Nor does it cost the SOL floor, unless it lands after the last look at the
\* wallet.
FloorKept ==
  abandoned <= 1 /\ ~strayed => wallet.sol >= Min({SolFloor, start.sol})

\* While SOL/USD stays where it is, a price cannot stay out of range for ever,
\* if the oracle, the operator and the daily cap let the bot work.
Recentred ==
  \A s \in SolPrices :
    ~<>[](/\ ~paused /\ center # NoMid /\ today < DailyMax /\ sol = s
          /\ history # <<>> /\ history[1] # NoMid /\ ~InRange(history[1], center, sol))
=============================================================================
