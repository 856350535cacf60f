---------------------------- MODULE MCTurnStream ----------------------------
(* The instance of TurnStream that TLC checks: a preview of three characters *)
(* in two frames.                                                            *)
EXTENDS TurnStream

MCFragmentSizes == {1, 2, 4}
=============================================================================
