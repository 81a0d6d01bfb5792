------------------------------- MODULE Market -------------------------------
(***************************************************************************)
(* The price side of a tick, as pure functions: the trusted price of the   *)
(* oracle (src/src/priceOracle.ts), the range around it and the trigger of *)
(* the strategy (src/src/strategy.ts).                                     *)
(***************************************************************************)
EXTENDS Fractions, Sequences, FiniteSets, FiniteSetsExt

CONSTANTS
  Sources,      \* price sources
  Quotes,       \* BERT prices they quote
  SolPrices,    \* SOL/USD of a tick: the mean of the sources that know it, or 150
  Divergence,   \* oracleDivergenceBps / 10000
  HalfWidth,    \* rangeWidthPct / 100 / 2
  Window,       \* sustainedMinutes, in polls
  Required      \* sustainedMinutes, as the number of samples it is compared with

NoQuote == 0            \* a source that failed
NoMid   == Whole(0)     \* computeTrustedMid returned null
NoSol   == 0            \* and the tick works without a SOL price

ASSUME MarketAssumption ==
  /\ IsFiniteSet(Sources) /\ Quotes \subseteq Nat \ {NoQuote} /\ SolPrices \subseteq Nat \ {NoSol}
  /\ \A f \in {Divergence, HalfWidth} : f \in Fraction /\ f = Frac(f.num, f.den)
  /\ Less(Zero, Divergence) /\ Less(Divergence, HalfWidth) /\ Less(HalfWidth, Whole(1))
  /\ {Window, Required} \subseteq Nat

\* fetchAllSources: who answered. q gives the quote of every source.
Answered(q) == {s \in Sources : q[s] # NoQuote}

\* prices[floor(n / 2)] of the n sorted prices.
Median(q) ==
  LET A == Answered(q)
      Rank(s) == {t \in A : q[t] < q[s]}
      Upto(s) == {t \in A : q[t] <= q[s]}
      k == Cardinality(A) \div 2
  IN  q[CHOOSE s \in A : Cardinality(Rank(s)) <= k /\ k < Cardinality(Upto(s))]

Spread(q) == LET P == {q[s] : s \in Answered(q)} IN Max(P) - Min(P)

ComputeTrustedMidLoose(q) ==   \* the sources need not agree
  IF Cardinality(Answered(q)) < 2 THEN NoMid
  ELSE Frac(SumFunctionOnSet(q, Answered(q)), Cardinality(Answered(q)))

\* computeTrustedMid: at least two sources that agree, and their mean.
ComputeTrustedMid(q) ==
  IF \/ Cardinality(Answered(q)) < 2
     \/ Less(Divergence, Frac(Spread(q), Median(q)))
  THEN NoMid
  ELSE Frac(SumFunctionOnSet(q, Answered(q)), Cardinality(Answered(q)))

\* The bounds of executeRebalance around a price, both included.
InBounds(price, middle) ==
  LET half == Times(middle, HalfWidth) IN
    ~Less(price, Minus(middle, half)) /\ ~Less(Plus(middle, half), price)

\* The pool's prices are in SOL: a range is opened with the SOL/USD price of its
\* tick (_usdToBinId, _usdToTick) ...
InSol(price, sol) == Over(price, Whole(sol))

\* ... and getPosition turns its bounds into USD with that of the tick at hand.
InRange(price, center, sol) == InBounds(price, Times(center, Whole(sol)))

\* priceHistory: one entry per poll, newest first, NoMid where there is no
\* sample. What is older than the window is of no use to decide; the window is
\* taken to hold fewer than MAX_HISTORY_SAMPLES polls.
Push(history, mid) ==
  LET h == <<mid>> \o history IN SubSeq(h, 1, Min({Len(h), Window + 1}))

\* The samples decide looks at.
Recent(history) == {i \in DOMAIN history : history[i] # NoMid}

SustainedOutNow(history, center, sol) ==   \* enough samples, whatever they say
  /\ history # <<>> /\ history[1] # NoMid
  /\ ~InRange(history[1], center, sol)
  /\ Cardinality(Recent(history)) >= Required

\* The part of decide between the pauses and the limits: the price is out of
\* range now, and so is, by the bounds of now, every one of enough samples.
SustainedOut(history, center, sol) ==
  /\ history # <<>> /\ history[1] # NoMid
  /\ ~InRange(history[1], center, sol)
  /\ Cardinality(Recent(history)) >= Required
  /\ \A i \in Recent(history) : ~InRange(history[i], center, sol)
=============================================================================
