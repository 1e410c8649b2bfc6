--------------------------- MODULE MCVoiceInput ---------------------------
(***************************************************************************)
(* The model-checking root of VoiceInput.                                  *)
(***************************************************************************)
EXTENDS VoiceInput
=============================================================================
