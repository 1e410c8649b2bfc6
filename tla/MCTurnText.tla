----------------------------- MODULE MCTurnText -----------------------------
(***************************************************************************)
(* The model-checking root of TurnText.                                    *)
(***************************************************************************)
EXTENDS TurnText

normalizeWordMC ==
    [w \in Words |-> IF w = "Xarlatan" THEN "xarlatan" ELSE IF w = "Para" THEN "para" ELSE w]

PhrasesMC == <<<<"xarlatan">>, <<"oye", "xarlatan">>>>
=============================================================================
