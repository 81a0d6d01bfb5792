-------------------------------- MODULE MCChat --------------------------------
(***************************************************************************)
(* Instances of Chat for TLC.                                              *)
(***************************************************************************)
EXTENDS Chat
=============================================================================
