---------------------------- MODULE MCTurnRoutes ----------------------------
(* Instances of TurnRoutes for TLC. *)
EXTENDS TurnRoutes
AllKinds == {"recommend", "stream", "confirm", "confirmStream"}
(* What the interrupt of human_confirmation_node carries. *)
Questions == {"questions"}
=============================================================================
