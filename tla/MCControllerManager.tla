------------------------ MODULE MCControllerManager ------------------------
(* Model-checking instances of ControllerManager. *)
EXTENDS ControllerManager, TLC

CONSTANTS lifter, gravity, arm

\* Controllers are interchangeable: nothing in the module names one.
ControllerSymmetry == Permutations(Controllers)
=============================================================================
