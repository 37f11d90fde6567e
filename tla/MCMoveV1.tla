------------------------------ MODULE MCMoveV1 ------------------------------
(* Instances of MoveV1 for TLC: the constants are numbers and sets of      *)
(* Booleans, given in each configuration.                                  *)
EXTENDS MoveV1
=============================================================================
