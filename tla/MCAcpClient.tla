---------------------------- MODULE MCAcpClient ----------------------------
(***************************************************************************)
(* The model-checking root of AcpClient: the .cfg files give the callers,  *)
(* the bounds and what may go wrong in the agent.                          *)
(***************************************************************************)
EXTENDS AcpClient, TLC

\* Callers are interchangeable: the client does not know who calls.
CallerSymmetry == Permutations(Callers)
=============================================================================
