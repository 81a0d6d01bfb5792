----------------------------- MODULE MCDeposits -----------------------------
(***************************************************************************)
(* Instances of Deposits for TLC.                                          *)
(***************************************************************************)
EXTENDS Deposits, TLC

\* Users and inbound transactions are interchangeable.
Symmetry == Permutations(Users) \cup Permutations(Inflows)
=============================================================================
