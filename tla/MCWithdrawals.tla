---------------------------- MODULE MCWithdrawals ----------------------------
(***************************************************************************)
(* Instances of Withdrawals for TLC.                                       *)
(***************************************************************************)
EXTENDS Withdrawals, TLC

\* Depositors are interchangeable.
Symmetry == Permutations(Users)
=============================================================================
