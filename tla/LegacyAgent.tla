---------------------------- MODULE LegacyAgent ----------------------------
(***************************************************************************)
(* The local agent that newLegacyAgentRuntime composes: a session whose    *)
(* model is the llama-server the manager owns. Turns begin once WaitReady  *)
(* has returned; the assistant closes the server when no Respond is        *)
(* running any more.                                                       *)
(***************************************************************************)
EXTENDS AgentSession, ServerManager

vars == <<sessionVars, serverVars>>

Init == SessionInit /\ ServerInit

SessionMoves(A) == A /\ UNCHANGED serverVars
ServerMoves(A) == A /\ UNCHANGED sessionVars

TurnBegins ==
    /\ at = "serving"
    /\ SessionMoves(\E costs \in UserTexts : Respond(costs))

TurnCancelled == SessionMoves(CancelTurn)

\* Nobody watches the server after WaitReady: a turn finds out when it calls.
ModelReplies ==
    /\ Answers
    /\ SessionMoves(\E costs \in ReplyTexts, batch \in CallBatches : ModelAnswers(costs, batch))

TurnAdvances == SessionMoves(SessionStep)

CloseRuntime == pc = "idle" /\ ServerMoves(Close)

ManagerAdvances == ServerMoves(ManagerStep)

EnvironmentMoves == ServerMoves(ServerEnvironment)

Next ==
    \/ TurnBegins \/ TurnCancelled \/ ModelReplies \/ TurnAdvances
    \/ CloseRuntime \/ ManagerAdvances \/ EnvironmentMoves

Spec == Init /\ [][Next]_vars

\* Respond does not stay at one of its steps for ever: a request ends with the
\* timeout of the HTTP client, a tool with its own.
TurnStep == pc # "idle" /\ pc' \in ({"idle"} \cup Active) \ {pc}

\* The startup deadline stays expired, so the select of WaitReady cannot prefer the
\* ticker for ever.
FairSpec ==
    /\ Spec
    /\ WF_pc(TurnStep) /\ WF_vars(ManagerAdvances) /\ SF_vars(ServerMoves(StartupEnds))

-----------------------------------------------------------------------------
(* Properties.                                                             *)

TurnNumber(messages) == messages[1].text[1].of

Committed == {committed[i] : i \in DOMAIN committed}

\* Types; a summary never exceeds MaxSummaryBytes, however often summaries of
\* summaries are made.
LegacyTypeOK == SessionTypeOK /\ ServerTypeOK

\* MEM-001: the stored history, and the first prompt of a turn with the user's
\* text, stay within MaxHistoryBytes, whatever was escaped, truncated or evicted
\* on the way.
HistoryWithinBudget ==
    /\ Fits(mem.summary, mem.turns, <<>>)
    /\ pc = "generating" /\ toolRounds = 0 => Measure(Prompt) <= MaxHistory

\* Memory holds the latest committed turns, in order and without a gap, and no
\* text of a turn that failed or was cancelled, in the summary either: an error of
\* the agent leaves no partial turn behind.
MemoryIsRecentCommitted ==
    /\ IsSuffix([i \in DOMAIN mem.turns |-> TurnNumber(mem.turns[i])], committed)
    /\ \A i \in DOMAIN mem.summary : mem.summary[i].of \in Committed \cup {0}

Exchanges(messages) ==
    \A i \in DOMAIN messages :
        messages[i].calls # <<>> =>
            Results(messages, i) = [j \in DOMAIN messages[i].calls |-> messages[i].calls[j].id]

\* MEM-003 and AGT-005: in every prompt the model receives, and in every stored
\* turn, each tool call is answered, in the order of the calls and before anything
\* else is said; a stored turn begins with the user and ends with the assistant.
ToolExchangesComplete ==
    /\ pc = "generating" => Exchanges(Prompt)
    /\ \A i \in DOMAIN mem.turns :
          /\ Exchanges(mem.turns[i])
          /\ mem.turns[i][1].role = "user" /\ Last(mem.turns[i]).role = "assistant"

\* The manager never reports ready over an exit it has already recorded, although
\* the process may exit between a successful probe and the change of state.
ReadyNotAfterExit == state = "ready" => waiter \notin {"closing", "done"}

\* LLM-009: when the runtime is gone, by a failed start or by Close, its process has
\* been reaped, or it was killed and Stop reported that it could not be waited for.
NoServerLeft ==
    at = "down" => \/ proc \in {"none", "reaped"}
                   \/ killed /\ stopErr = "failed"

\* Every Respond returns: rounds are bounded, a request and a tool end.
TurnEnds == pc # "idle" ~> pc = "idle"

\* Startup ends in service or in a stopped server, and Close returns although the
\* server may ignore the signal.
ManagerSettles == at \notin {"serving", "down"} ~> at \in {"serving", "down"}

-----------------------------------------------------------------------------
(* A statement of the repository's documents that the code does not keep.  *)

\* docs/refactor/WI-06_SPEC.md, steps 7 to 9 of an update: the oldest turns go while
\* the budget is exceeded, and after the summary has been replaced the history is
\* fitted to the budget again. A finished turn is then refused for its size only
\* when no eviction of turns would have made it fit.
RefitsAfterSummary ==
    [][pc = "update" /\ outcome' = "budget_exceeded" =>
          LET turns == splitTurns(conversationMessages(mem, history)) IN
          \A n \in 1..Len(turns) :
              ~Fits(Summarize(mem.summary, Dropped(turns, n)), Kept(turns, n), <<>>)]_vars
=============================================================================
