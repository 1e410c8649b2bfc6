-------------------------- MODULE MCLegacyAgent --------------------------
(***************************************************************************)
(* The model-checking root of LegacyAgent. A cost above 1 is a character   *)
(* that JSON escapes.                                                      *)
(***************************************************************************)
EXTENDS LegacyAgent

UserTextsMC == {<<>>, <<1>>, <<3>>, <<4, 4>>}
ReplyTextsMC == {<<>>, <<2, 2>>}
ToolTextsMC == {<<1>>}

Call(id, name) == [id |-> id, name |-> name]

\* No call, one, two (the first of them denied), and what a faulty stream leaves: a
\* call without an id.
CallBatchesMC ==
    {<<>>,
     <<Call("a", "web_search")>>,
     <<Call("a", "fs_write"), Call("b", "web_search")>>,
     <<Call("", "fs_read")>>}
=============================================================================
