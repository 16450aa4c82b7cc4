------------------------- MODULE MCTrajectoryTeaching -------------------------
(***************************************************************************)
(* Instance of TrajectoryTeaching for TLC: two joints, recordings of at    *)
(* most two points, a file that ends in an entry that is no point, and one *)
(* that cannot be written.                                                 *)
(***************************************************************************)
EXTENDS TrajectoryTeaching

MCWritten == {<<2, 0>>}
=============================================================================
