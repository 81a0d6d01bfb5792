--------------------------- MODULE MCVaultRequests ---------------------------
(***************************************************************************)
(* Instances of VaultRequests for TLC.                                     *)
(***************************************************************************)
EXTENDS VaultRequests
=============================================================================
