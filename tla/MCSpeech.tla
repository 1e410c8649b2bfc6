------------------------------ MODULE MCSpeech ------------------------------
(***************************************************************************)
(* The model-checking root of Speech.                                      *)
(***************************************************************************)
EXTENDS Speech

CallersMC == {<<"preview", 1>>, <<"final", 1>>, <<"barge", 1>>, <<"final", 2>>}
=============================================================================
