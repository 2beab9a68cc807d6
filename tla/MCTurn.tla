-------------------------------- MODULE MCTurn --------------------------------
(***************************************************************************)
(* TLC instances of Turn: channel capacities of one or two instead of 32,  *)
(* so that both channels fill up.                                          *)
(***************************************************************************)
EXTENDS TurnAnswer

MCStopReasons == {"max_tokens"}
MCTokenCounts == {1, 5}
=============================================================================
