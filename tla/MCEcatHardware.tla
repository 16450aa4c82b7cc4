---------------------------- MODULE MCEcatHardware ----------------------------
(***************************************************************************)
(* Instance of EcatHardware for TLC.                                       *)
(***************************************************************************)
EXTENDS EcatHardware
=============================================================================
