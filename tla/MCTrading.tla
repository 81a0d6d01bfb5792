----------------------------- MODULE MCTrading -----------------------------
(***************************************************************************)
(* Instances of Trading for TLC.                                           *)
(***************************************************************************)
EXTENDS Trading

Tenth    == Frac(1, 10)
Narrow   == Frac(21, 200)
SomeSol  == [sol |-> 12, bert |-> 2]
SomeBert == [sol |-> 1, bert |-> 7]
Lopsided == {SomeSol, SomeBert}
=============================================================================
