--------------------------- MODULE AgentSession ---------------------------
(***************************************************************************)
(* One conversation of the local agent: Session.Respond of                 *)
(* internal/conversation, which prepares the memory, runs the model and    *)
(* tool rounds of internal/orchestrator and updates the memory with the    *)
(* finished turn. The voice coordinator has one Respond running at a time; *)
(* the context of its turn may end at any moment. What the model answers   *)
(* and what a tool returns is chosen from small sets.                      *)
(***************************************************************************)
EXTENDS Memory

CONSTANTS
    UserTexts,     \* what the user says: sequences of costs
    ReplyTexts,    \* contents of the model's messages
    ToolTexts,     \* contents of the tools' results
    CallBatches,   \* the tool calls of one message: sequences of [id, name]
    MaxToolRounds, \* config.MaxToolRounds
    ToolConfigs,   \* "none" (-no-tools), "web", "read" or "write"
    MaxTurns       \* bound: calls of Respond

ASSUME SessionAssumption ==
    /\ MaxHistory \in Nat /\ MaxSummary \in Nat /\ BudgetsValid
    /\ MaxToolRounds \in Nat \ {0} /\ MaxTurns \in Nat
    /\ ToolConfigs \subseteq {"none", "web", "read", "write"}
    /\ UserTexts \cup ReplyTexts \cup ToolTexts \subseteq Seq(Nat)
    /\ CallBatches \subseteq Seq([id : STRING, name : STRING])

VARIABLES
    tools,      \* which tools buildRegistry registered
    mem,        \* the memory manager: summary and turns
    turn,       \* number of the latest Respond
    pc,         \* where Respond is
    ctxDone,    \* the context of the turn has ended
    history,    \* result.History of the agent loop
    input,      \* the user's text, until the model has received it
    calls,      \* calls of the last assistant message that are not yet run
    toolRounds, \* rounds of tools in this turn
    committed,  \* history: the turns that memory accepted, in order
    outcome     \* history: how the latest Respond ended

sessionVars == <<tools, mem, turn, pc, ctxDone, history, input, calls, toolRounds, committed, outcome>>

Active == {"prepare", "model", "generating", "tools", "running", "update"}

SessionTypeOK ==
    /\ tools \in ToolConfigs /\ turn \in 0..MaxTurns /\ pc \in {"idle"} \cup Active
    /\ ctxDone \in BOOLEAN /\ toolRounds \in 0..MaxToolRounds
    /\ mem.summary \in Seq([of : 0..MaxTurns, cost : Nat]) /\ Len(mem.summary) <= MaxSummary
    /\ outcome \in {"none", "ok", "empty", "cancelled", "model_error", "round_limit",
                    "budget_exceeded", "invalid_history"}

SessionInit ==
    /\ tools \in ToolConfigs /\ mem = [summary |-> <<>>, turns |-> <<>>]
    /\ turn = 0 /\ pc = "idle" /\ ctxDone = FALSE /\ history = <<>> /\ input = <<>>
    /\ calls = <<>> /\ toolRounds = 0 /\ committed = <<>> /\ outcome = "none"

\* The text of this turn with the given costs.
Said(costs) == [i \in DOMAIN costs |-> Unit(turn, costs[i])]

-----------------------------------------------------------------------------
(* The tools.                                                              *)

Candidates == {"fs_read", "fs_write", "fs_list", "fs_delete", "fs_stat", "fs_mkdir", "web_search", "web_fetch"}

\* DefaultToolPolicy, widened by the filesystem section of the configuration.
Policy ==
    {"web_search", "web_fetch"}
        \cup (IF tools \in {"read", "write"} THEN {"fs_read", "fs_list", "fs_stat"} ELSE {})
        \cup (IF tools = "write" THEN {"fs_write", "fs_delete", "fs_mkdir"} ELSE {})

\* Without tools the executor has no registry and knows no tool.
Registered == IF tools = "none" THEN {} ELSE Candidates \cap Policy

-----------------------------------------------------------------------------
(* The steps of Respond.                                                   *)

\* The request history: the user's text is added by the model adapter, once.
Prompt ==
    IF input = <<>> THEN history ELSE Append(history, Message("user", input, <<>>, NoCall))

\* The turn's context ends: interruption, deadline or shutdown.
CancelTurn ==
    /\ pc # "idle" /\ ~ctxDone /\ ctxDone' = TRUE
    /\ UNCHANGED <<tools, mem, turn, pc, history, input, calls, toolRounds, committed, outcome>>

\* Respond returns: what the agent had built is dropped.
Return(how) ==
    /\ pc' = "idle" /\ outcome' = how
    /\ history' = <<>> /\ input' = <<>> /\ calls' = <<>> /\ toolRounds' = 0
    /\ UNCHANGED <<tools, turn, ctxDone>>

\* Mutant: the history of a failed turn is stored like that of a finished one.
FailKeepsPartial(code) ==
    /\ Return(IF ctxDone THEN "cancelled" ELSE code)
    /\ mem' = IF pc = "update" THEN mem ELSE Update(mem, Prompt).mem
    /\ UNCHANGED committed

\* An error of memory or agent, told as the context's when that has ended.
Fail(code) == Return(IF ctxDone THEN "cancelled" ELSE code) /\ UNCHANGED <<mem, committed>>

Respond(costs) ==
    /\ pc = "idle" /\ turn < MaxTurns
    /\ turn' = turn + 1 /\ ctxDone' = FALSE
    /\ pc' = IF costs = <<>> THEN "idle" ELSE "prepare"
    /\ outcome' = IF costs = <<>> THEN "empty" ELSE "none"
    /\ input' = [i \in DOMAIN costs |-> Unit(turn + 1, costs[i])]
    /\ UNCHANGED <<tools, mem, history, calls, toolRounds, committed>>

\* Compaction done here stays done, even if the turn fails afterwards.
PrepareMemory ==
    /\ pc = "prepare"
    /\ \E r \in {Prepare(mem, input)} :
       IF ctxDone \/ r.err # "ok"
       THEN Fail(r.err)
       ELSE /\ mem' = r.mem /\ history' = r.history /\ pc' = "model"
            /\ UNCHANGED <<tools, turn, ctxDone, input, calls, toolRounds, committed, outcome>>

CallModel ==
    /\ pc = "model"
    /\ IF ctxDone
       THEN Fail("cancelled")
       ELSE pc' = "generating" /\ UNCHANGED <<tools, mem, turn, ctxDone, history, input, calls,
                                              toolRounds, committed, outcome>>

\* Mutant: at the limit of rounds the model is asked again.
ModelAnswersRetries(costs, batch) ==
    /\ pc = "generating"
    /\ LET h == Append(Prompt, Message("assistant", Said(costs), batch, NoCall))
           again == batch # <<>> /\ toolRounds >= MaxToolRounds IN
       /\ pc' = IF again THEN "model" ELSE IF batch = <<>> THEN "update" ELSE "tools"
       /\ history' = IF again THEN history ELSE h
       /\ calls' = IF again THEN calls ELSE batch
    /\ UNCHANGED <<tools, mem, turn, ctxDone, input, toolRounds, committed, outcome>>

\* A complete answer: a reply, or tool calls that are run while rounds remain.
ModelAnswers(costs, batch) ==
    /\ pc = "generating"
    /\ LET h == Append(Prompt, Message("assistant", Said(costs), batch, NoCall)) IN
       CASE batch = <<>> ->
              /\ history' = h /\ pc' = "update"
              /\ UNCHANGED <<tools, mem, turn, ctxDone, input, calls, toolRounds, committed, outcome>>
         [] batch # <<>> /\ toolRounds >= MaxToolRounds -> Fail("round_limit")
         [] OTHER ->
              /\ history' = h /\ calls' = batch /\ pc' = "tools"
              /\ UNCHANGED <<tools, mem, turn, ctxDone, input, toolRounds, committed, outcome>>

\* The request fails, times out, breaks off or is cancelled.
ModelFails == pc = "generating" /\ Fail("model_error")

Answer(costs) == Append(history, Message("tool", Said(costs), <<>>, calls[1].id))

\* A call of a denied or unknown tool is answered at once with an error.
ToolBegins(costs) ==
    /\ pc = "tools" /\ calls # <<>> /\ ~ctxDone
    /\ IF calls[1].name \in Registered
       THEN pc' = "running" /\ UNCHANGED <<history, calls>>
       ELSE pc' = pc /\ history' = Answer(costs) /\ calls' = Tail(calls)
    /\ UNCHANGED <<tools, mem, turn, ctxDone, input, toolRounds, committed, outcome>>

ToolReturns(costs) ==
    /\ pc = "running" /\ pc' = "tools"
    /\ history' = Answer(costs) /\ calls' = Tail(calls)
    /\ UNCHANGED <<tools, mem, turn, ctxDone, input, toolRounds, committed, outcome>>

\* Mutant: the round ends with its first call.
RoundEndsEarly ==
    /\ pc = "tools"
    /\ IF ctxDone
       THEN Fail("cancelled")
       ELSE /\ pc' = "model" /\ toolRounds' = toolRounds + 1 /\ input' = <<>>
            /\ UNCHANGED <<tools, mem, turn, ctxDone, history, calls, committed, outcome>>

\* All calls are answered, or the context ended and no later one is started.
RoundEnds ==
    /\ pc = "tools" /\ (calls = <<>> \/ ctxDone)
    /\ IF ctxDone
       THEN Fail("cancelled")
       ELSE /\ pc' = "model" /\ toolRounds' = toolRounds + 1 /\ input' = <<>>
            /\ UNCHANGED <<tools, mem, turn, ctxDone, history, calls, committed, outcome>>

\* The turn is committed with its memory, or neither is.
UpdateMemory ==
    /\ pc = "update"
    /\ \E r \in {Update(mem, history)} :
       IF ctxDone \/ r.err # "ok"
       THEN Fail(r.err)
       ELSE mem' = r.mem /\ committed' = Append(committed, turn) /\ Return("ok")

SessionStep ==
    \/ PrepareMemory \/ CallModel \/ ModelFails \/ RoundEnds \/ UpdateMemory
    \/ \E costs \in ToolTexts : ToolBegins(costs) \/ ToolReturns(costs)
=============================================================================
