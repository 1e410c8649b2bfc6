--------------------------- MODULE MCCoordinator ---------------------------
(***************************************************************************)
(* The model-checking root of Coordinator: the .cfg files give the bounds, *)
(* the failures of the stages and the states in which a user interrupts.   *)
(***************************************************************************)
EXTENDS Coordinator
=============================================================================
