--------------------------- MODULE MCEngineer2Modes ---------------------------
(***************************************************************************)
(* Instance of Engineer2Modes for TLC.                                     *)
(***************************************************************************)
EXTENDS Engineer2Modes
=============================================================================
