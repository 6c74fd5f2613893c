----------------------------- MODULE MCTurnTasks -----------------------------
(* TurnTasks for TLC. *)
EXTENDS TurnTasks
=============================================================================
