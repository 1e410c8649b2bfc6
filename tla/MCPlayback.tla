---------------------------- MODULE MCPlayback ----------------------------
(***************************************************************************)
(* The model-checking root of Playback.                                    *)
(***************************************************************************)
EXTENDS Playback
=============================================================================
