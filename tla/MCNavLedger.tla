---------------------------- MODULE MCNavLedger ----------------------------
(***************************************************************************)
(* Instances of NavLedger for TLC.                                         *)
(***************************************************************************)
EXTENDS NavLedger

Quarter  == Frac(1, 4)
InHalves == {Frac(1, 2)}
UpOrDown == {2, -1}
OffCenter == {-2, 0, 1}
=============================================================================
