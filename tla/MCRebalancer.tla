---------------------------- MODULE MCRebalancer ----------------------------
(***************************************************************************)
(* Instances of Rebalancer for TLC.                                        *)
(***************************************************************************)
EXTENDS Rebalancer
=============================================================================
