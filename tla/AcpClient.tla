----------------------------- MODULE AcpClient -----------------------------
(***************************************************************************)
(* The agent side of a voice turn, internal/acp: the JSON-RPC client over  *)
(* the pipes of the agent process (client.go), the goroutine with which    *)
(* RespondStream turns the end of a turn into session/cancel, and the      *)
(* ownership of the process (runtime.go). The agent itself is external: it *)
(* serves prompts one at a time, reads its input at any moment, and obeys  *)
(* a cancellation or not.                                                  *)
(*                                                                         *)
(* Texts are abstracted away. A text chunk is the prompt it belongs to and *)
(* its position in the answer; a result carries how many chunks it ends.   *)
(***************************************************************************)
EXTENDS Integers, Sequences, FiniteSets

CONSTANTS
    Callers,     \* goroutines that call RespondStream
    MaxPrompts,  \* bound: prompts written to the agent
    MaxUpdates,  \* bound: messages the agent sends before the answer of a prompt
    PipeCap,     \* messages that fit in the agent's output pipe
    AgentFaults  \* what may go wrong in the agent

ASSUME CallersAssumption == IsFiniteSet(Callers) /\ Callers # {}

ASSUME AcpBoundsAssumption ==
    MaxPrompts \in Nat /\ MaxUpdates \in Nat /\ PipeCap \in Nat \ {0}

ASSUME AgentAssumption == AgentFaults \subseteq {"crash", "error", "garbage"}

\* The requests of Initialize take the first two identifiers.
InitializeID == 1
NewSessionID == 2
RequestID == 1..(MaxPrompts + 2)

VARIABLES
    runtime,    \* where StartRuntime, and later Runtime.Close, is
    stopping,   \* the service shuts down, or its coordinator has given up
    session,    \* session/new has succeeded
    closed,     \* Client.closed: the agent's stdin is closed
    busy,       \* promptBusy
    nextID,     \* the last request identifier taken
    pc,         \* where each call of RespondStream is
    req,        \* the request of the current or latest call of each caller
    out,        \* how the latest call of each caller ended
    answer,     \* the response that the latest successful call accepted
    streamed,   \* the chunks forwarded by the current or latest call
    ctx,        \* the turn context of each prompt
    cancelled,  \* requests whose cancelled flag is set
    watcher,    \* the cancel goroutine of each prompt
    toAgent,    \* the agent's stdin
    fromAgent,  \* the agent's stdout
    agent,      \* queued prompts, what the first has said, permission asked
    child       \* the agent process

client == <<session, closed, busy, nextID>>
calls == <<pc, req, out, answer, streamed>>
contexts == <<ctx, cancelled, watcher>>
pipes == <<toAgent, fromAgent>>
vars == <<runtime, stopping, client, calls, contexts, pipes, agent, child>>

NoAnswer == [kind |-> "none", id |-> 0, n |-> 0]

Init ==
    /\ runtime = "initialize" /\ stopping = FALSE
    /\ session = FALSE /\ closed = FALSE /\ busy = FALSE /\ nextID = 0
    /\ pc = [c \in Callers |-> "idle"] /\ req = [c \in Callers |-> 0]
    /\ out = [c \in Callers |-> "none"] /\ answer = [c \in Callers |-> NoAnswer]
    /\ streamed = [c \in Callers |-> <<>>]
    /\ ctx = [i \in RequestID |-> "none"] /\ cancelled = {}
    /\ watcher = [i \in RequestID |-> "none"]
    /\ toAgent = <<>> /\ fromAgent = <<>>
    /\ agent = [queue |-> <<>>, said |-> 0, sent |-> 0, asking |-> FALSE]
    /\ child = "running"

-----------------------------------------------------------------------------
(* write and read.                                                         *)

CanWrite == ~closed /\ child = "running"

Message(k, i) == [kind |-> k, id |-> i]

\* write of a request or a reply; an error leaves the stream alone.
Write(m) == CanWrite /\ toAgent' = Append(toAgent, m)

\* A line is available, or the output has ended.
Line == fromAgent # <<>>
EOF == fromAgent = <<>> /\ child # "running"

-----------------------------------------------------------------------------
(* StartRuntime: the handshake of Initialize.                              *)

HandshakeFails == runtime' = "close" /\ UNCHANGED <<session, nextID, toAgent>>

SendInitialize ==
    /\ runtime = "initialize"
    /\ \/ stopping /\ HandshakeFails
       \/ ~CanWrite /\ HandshakeFails
       \/ /\ ~stopping /\ Write(Message("initialize", InitializeID))
          /\ nextID' = InitializeID
          /\ runtime' = "initWait" /\ UNCHANGED session
    /\ UNCHANGED fromAgent

Expected == IF runtime = "initWait" THEN InitializeID ELSE NewSessionID

\* readResponse looks at the context between two lines only, and skips what is
\* not the response it waits for.
ReadHandshake ==
    /\ runtime \in {"initWait", "newWait"}
    /\ \/ (stopping \/ EOF) /\ HandshakeFails /\ UNCHANGED fromAgent
       \/ /\ ~stopping /\ Line
          /\ fromAgent' = Tail(fromAgent)
          /\ LET m == Head(fromAgent) IN
             \/ /\ m.kind # "garbage" /\ m.id # Expected
                /\ UNCHANGED <<runtime, session, nextID, toAgent>>
             \/ m.kind = "garbage" /\ HandshakeFails
             \/ m.id = Expected /\ m.kind = "error" /\ HandshakeFails
             \/ /\ m.id = Expected /\ m.kind = "result" /\ runtime = "initWait"
                /\ nextID' = NewSessionID /\ UNCHANGED session
                /\ \/ Write(Message("new", NewSessionID)) /\ runtime' = "newWait"
                   \/ ~CanWrite /\ runtime' = "close" /\ UNCHANGED toAgent
             \/ /\ m.id = Expected /\ m.kind = "result" /\ runtime = "newWait"
                /\ session' = TRUE /\ runtime' = "ready"
                /\ UNCHANGED <<nextID, toAgent>>

HandshakeStep ==
    /\ SendInitialize \/ ReadHandshake
    /\ UNCHANGED <<stopping, closed, busy, calls, contexts, agent, child>>

-----------------------------------------------------------------------------
(* RespondStream.                                                          *)

\* The compare-and-swap on promptBusy. The coordinator's responder calls again
\* only in a later turn, and the context of the earlier one has ended by then.
Begin(c) ==
    /\ pc[c] = "idle" /\ runtime = "ready" /\ ~stopping
    /\ req[c] # 0 => ctx[req[c]] = "done"
    /\ \/ busy /\ out' = [out EXCEPT ![c] = "busy"] /\ UNCHANGED <<busy, pc, streamed>>
       \/ /\ ~busy /\ busy' = TRUE
          /\ pc' = [pc EXCEPT ![c] = "entered"]
          /\ out' = [out EXCEPT ![c] = "none"]
          /\ streamed' = [streamed EXCEPT ![c] = <<>>]
    /\ UNCHANGED <<session, closed, nextID, req, answer, contexts, pipes>>

\* Mutant: the busy flag is cleared only when the prompt succeeds or is cancelled.
ReturnKeepsBusy(c, o) ==
    /\ pc' = [pc EXCEPT ![c] = "idle"]
    /\ out' = [out EXCEPT ![c] = o]
    /\ busy' = (o = "err")

\* The deferred calls: close(cancelDone) and promptBusy.Store(false).
Return(c, o) ==
    /\ pc' = [pc EXCEPT ![c] = "idle"]
    /\ out' = [out EXCEPT ![c] = o]
    /\ busy' = FALSE

\* The turn may have ended already, the client may be closed, the write may fail.
SendPrompt(c) ==
    /\ pc[c] = "entered"
    /\ \/ /\ Return(c, "cancel")
          /\ UNCHANGED <<nextID, req, ctx, watcher, toAgent>>
       \/ /\ ~CanWrite /\ Return(c, "err")
          /\ nextID < MaxPrompts + 2 /\ nextID' = nextID + 1
          /\ UNCHANGED <<req, ctx, watcher, toAgent>>
       \/ LET i == nextID + 1 IN
          /\ i \in RequestID /\ Write(Message("prompt", i))
          /\ nextID' = i /\ req' = [req EXCEPT ![c] = i]
          /\ ctx' = [ctx EXCEPT ![i] = "live"]
          /\ watcher' = [watcher EXCEPT ![i] = "watching"]
          /\ pc' = [pc EXCEPT ![c] = "read"]
          /\ UNCHANGED <<busy, out>>
    /\ UNCHANGED <<session, closed, answer, streamed, cancelled, fromAgent>>

Skip == UNCHANGED <<busy, pc, out, answer, streamed, toAgent>>

\* An error returned while the answer of the prompt is still to come.
Abandon(c, o) ==
    /\ Return(c, o)
    /\ UNCHANGED <<answer, streamed, toAgent>>

ContextError(c) == IF ctx[req[c]] = "done" THEN "cancel" ELSE "err"

TurnOver(c) == req[c] \in cancelled \/ ctx[req[c]] = "done"

\* Mutant: thoughts and tool updates are spoken too.
ReadUpdateSpeaksAll(c, m) ==
    /\ m.kind \in {"chunk", "thought"}
    /\ \/ TurnOver(c) /\ Skip
       \/ /\ ~TurnOver(c)
          /\ streamed' = [streamed EXCEPT ![c] = Append(@, [of |-> m.id, n |-> m.n])]
          /\ pc' = [pc EXCEPT ![c] = "deliver"]
          /\ UNCHANGED <<busy, out, answer, toAgent>>

\* session/update: dropped once the turn is over; only text chunks are spoken.
ReadUpdate(c, m) ==
    /\ m.kind \in {"chunk", "thought"}
    /\ \/ (TurnOver(c) \/ m.kind = "thought") /\ Skip
       \/ /\ ~TurnOver(c) /\ m.kind = "chunk"
          /\ streamed' = [streamed EXCEPT ![c] = Append(@, [of |-> m.id, n |-> m.n])]
          /\ pc' = [pc EXCEPT ![c] = "deliver"]
          /\ UNCHANGED <<busy, out, answer, toAgent>>

\* Mutant: the request is dropped instead of rejected.
IgnorePermission(c, m) == m.kind = "permission" /\ Skip

\* rejectPermission: no permission is ever granted.
RejectPermission(c, m) ==
    /\ m.kind = "permission"
    /\ \/ /\ Write(Message("reject", m.id))
          /\ UNCHANGED <<busy, pc, out, answer, streamed>>
       \/ ~CanWrite /\ Abandon(c, "err")

\* Mutant: any response ends the call.
AcceptAnyResponse(c, m) ==
    /\ m.kind \in {"result", "error"}
    /\ \/ /\ m.kind = "error" /\ Return(c, ContextError(c)) /\ UNCHANGED answer
       \/ /\ m.kind = "result" /\ TurnOver(c)
          /\ Return(c, "cancel") /\ UNCHANGED answer
       \/ /\ m.kind = "result" /\ ~TurnOver(c)
          /\ Return(c, "ok") /\ answer' = [answer EXCEPT ![c] = m]
    /\ UNCHANGED <<streamed, toAgent>>

\* A response of another request is skipped; the own one ends the call.
ReadResponse(c, m) ==
    /\ m.kind \in {"result", "error"}
    /\ \/ m.id # req[c] /\ Skip
       \/ /\ m.id = req[c]
          /\ \/ /\ m.kind = "error" /\ Return(c, ContextError(c)) /\ UNCHANGED answer
             \/ /\ m.kind = "result" /\ TurnOver(c)
                /\ Return(c, "cancel") /\ UNCHANGED answer
             \/ /\ m.kind = "result" /\ ~TurnOver(c)
                /\ Return(c, "ok") /\ answer' = [answer EXCEPT ![c] = m]
          /\ UNCHANGED <<streamed, toAgent>>

\* One round of the read loop; a line that is not JSON, or the end of the
\* output, ends the call.
Read(c) ==
    /\ pc[c] = "read"
    /\ \/ EOF /\ Abandon(c, ContextError(c)) /\ UNCHANGED fromAgent
       \/ /\ Line /\ fromAgent' = Tail(fromAgent)
          /\ LET m == Head(fromAgent) IN
             \/ ReadUpdate(c, m) \/ RejectPermission(c, m) \/ ReadResponse(c, m)
             \/ m.kind = "garbage" /\ Abandon(c, ContextError(c))
    /\ UNCHANGED <<session, closed, nextID, req, contexts>>

\* onDelta, the coordinator's publishDelta: it fails when the turn has ended.
Deliver(c) ==
    /\ pc[c] = "deliver"
    /\ \/ /\ pc' = [pc EXCEPT ![c] = "read"]
          /\ UNCHANGED <<busy, out, answer, streamed, toAgent>>
       \/ ctx[req[c]] = "done" /\ Abandon(c, "cancel")
    /\ UNCHANGED <<session, closed, nextID, req, contexts, fromAgent>>

CallStep(c) ==
    /\ Begin(c) \/ SendPrompt(c) \/ Read(c) \/ Deliver(c)
    /\ UNCHANGED <<runtime, stopping, agent, child>>

\* The caller whose call of this request is still running.
InProgress(i) == \E c \in Callers : req[c] = i /\ pc[c] \in {"read", "deliver"}

\* The cancel goroutine: when both channels are ready it may choose either.
WatcherWakes(i) ==
    /\ watcher[i] = "watching"
    /\ \/ ~InProgress(i) /\ watcher' = [watcher EXCEPT ![i] = "gone"] /\ UNCHANGED cancelled
       \/ /\ ctx[i] = "done"
          /\ cancelled' = cancelled \cup {i}
          /\ watcher' = [watcher EXCEPT ![i] = "writing"]
    /\ UNCHANGED <<ctx, toAgent>>

WatcherWrites(i) ==
    /\ watcher[i] = "writing"
    /\ Write(Message("cancel", 0)) \/ (~CanWrite /\ UNCHANGED toAgent)
    /\ watcher' = [watcher EXCEPT ![i] = "gone"]
    /\ UNCHANGED <<ctx, cancelled>>

\* The turn of a prompt ends: interrupted, shut down, or simply over.
TurnEnds(i) ==
    /\ ctx[i] = "live"
    /\ ctx' = [ctx EXCEPT ![i] = "done"]
    /\ UNCHANGED <<cancelled, watcher, toAgent>>

TurnStep(i) ==
    /\ WatcherWakes(i) \/ WatcherWrites(i) \/ TurnEnds(i)
    /\ UNCHANGED <<runtime, stopping, client, calls, fromAgent, agent, child>>

-----------------------------------------------------------------------------
(* Runtime.Close, after the coordinator has joined its workers.            *)

Stop == ~stopping /\ stopping' = TRUE /\ UNCHANGED <<runtime, closed, child, fromAgent>>

CloseClient ==
    /\ \/ runtime = "close"
       \/ runtime = "ready" /\ stopping /\ \A c \in Callers : pc[c] = "idle"
    /\ closed' = TRUE /\ runtime' = "waitExit"
    /\ UNCHANGED <<stopping, child, fromAgent>>

\* Mutant: the timeout gives up on the child.
WaitForExitWithoutKill ==
    /\ runtime \in {"waitExit", "waitKilled"}
    /\ \/ child = "reaped" /\ runtime' = "closed" /\ UNCHANGED child
       \/ /\ child # "reaped" /\ runtime = "waitExit"
          /\ runtime' = "waitKilled" /\ UNCHANGED child
       \/ child # "reaped" /\ runtime = "waitKilled" /\ runtime' = "closed" /\ UNCHANGED child
    /\ UNCHANGED <<stopping, closed, fromAgent>>

\* waitForExit: the child has been reaped, or the timeout passes; the first
\* timeout kills the child.
WaitForExit ==
    /\ runtime \in {"waitExit", "waitKilled"}
    /\ \/ child = "reaped" /\ runtime' = "closed" /\ UNCHANGED child
       \/ /\ child # "reaped" /\ runtime = "waitExit"
          /\ runtime' = "waitKilled"
          /\ child' = "exited"
       \/ child # "reaped" /\ runtime = "waitKilled" /\ runtime' = "closed" /\ UNCHANGED child
    /\ UNCHANGED <<stopping, closed, fromAgent>>

\* The goroutine in cmd.Wait: it closes the output pipe, unread lines included.
Reap ==
    /\ child = "exited" /\ child' = "reaped" /\ fromAgent' = <<>>
    /\ UNCHANGED <<runtime, stopping, closed>>

RuntimeStep ==
    /\ Stop \/ CloseClient \/ WaitForExit \/ Reap
    /\ UNCHANGED <<session, busy, nextID, calls, contexts, toAgent, agent>>

-----------------------------------------------------------------------------
(* The agent process (external).                                           *)

Room == Len(fromAgent) < PipeCap

Say(k, i) == Room /\ fromAgent' = Append(fromAgent, [kind |-> k, id |-> i, n |-> agent.sent])

Current == Head(agent.queue)

\* Notifications and replies are read while a prompt is being served. Whether a
\* cancellation cuts an answer short is part of the free length of answers.
AgentReads ==
    /\ toAgent # <<>>
    /\ toAgent' = Tail(toAgent)
    /\ LET m == Head(toAgent) IN
       \/ /\ m.kind \in {"initialize", "new"}
          /\ \E k \in {"result"} \cup (AgentFaults \cap {"error"}) : Say(k, m.id)
          /\ UNCHANGED agent
       \/ /\ m.kind = "prompt"
          /\ agent' = [agent EXCEPT !.queue = Append(@, m.id)] /\ UNCHANGED fromAgent
       \/ /\ m.kind = "reject"
          /\ agent' = [agent EXCEPT !.asking = FALSE] /\ UNCHANGED fromAgent
       \/ m.kind = "cancel" /\ UNCHANGED <<agent, fromAgent>>

\* A text chunk, a request for permission, or, even between prompts, something
\* that is not spoken.
AgentSpeaks ==
    /\ ~agent.asking /\ agent.said < MaxUpdates
    /\ \/ /\ agent.queue # <<>> /\ Room
          /\ agent' = [agent EXCEPT !.said = @ + 1, !.sent = @ + 1]
          /\ fromAgent' = Append(fromAgent, [kind |-> "chunk", id |-> Current, n |-> agent.sent + 1])
       \/ /\ agent.queue # <<>> /\ Say("permission", 0)
          /\ agent' = [agent EXCEPT !.said = @ + 1, !.asking = TRUE]
       \/ /\ \E k \in {"thought"} \cup (AgentFaults \cap {"garbage"}) : Say(k, 0)
          /\ agent' = [agent EXCEPT !.said = @ + 1]
    /\ UNCHANGED toAgent

AgentAnswers ==
    /\ agent.queue # <<>> /\ ~agent.asking
    /\ \E k \in {"result"} \cup (AgentFaults \cap {"error"}) : Say(k, Current)
    /\ agent' = [agent EXCEPT !.queue = Tail(@), !.said = 0, !.sent = 0]
    /\ UNCHANGED toAgent

AgentStep ==
    /\ child = "running"
    /\ AgentReads \/ AgentSpeaks \/ AgentAnswers
    /\ UNCHANGED <<runtime, stopping, client, calls, contexts, child>>

\* The agent leaves when its input ends, or crashes.
AgentExits ==
    /\ child = "running"
    /\ closed \/ "crash" \in AgentFaults
    /\ child' = "exited"
    /\ UNCHANGED <<runtime, stopping, client, calls, contexts, pipes, agent>>

-----------------------------------------------------------------------------
Terminated == runtime = "closed" /\ UNCHANGED vars

Next ==
    \/ HandshakeStep
    \/ \E c \in Callers : CallStep(c)
    \/ \E i \in RequestID : TurnStep(i)
    \/ RuntimeStep
    \/ AgentStep \/ AgentExits
    \/ Terminated

Spec == Init /\ [][Next]_vars

\* A goroutine that can run does; nobody has to prompt, interrupt or stop.
CallProgress(c) == pc[c] # "idle" /\ CallStep(c)

TurnProgress(i) == (ctx[i] = "live" => stopping) /\ TurnStep(i)

RuntimeProgress == RuntimeStep /\ stopping' = stopping

ClientSpec ==
    /\ Spec
    /\ WF_vars(HandshakeStep) /\ WF_vars(RuntimeProgress)
    /\ \A c \in Callers : WF_vars(CallProgress(c))
    /\ \A i \in RequestID : WF_vars(TurnProgress(i))

\* The agent also keeps reading, and answers each prompt after finitely many updates.
FairSpec == ClientSpec /\ WF_vars(AgentStep)

-----------------------------------------------------------------------------
(* Properties.                                                             *)

Request == [kind : {"initialize", "new", "prompt", "cancel", "reject"},
            id : RequestID \cup {0}]

Reply == [kind : {"result", "error", "chunk", "thought", "permission", "garbage"},
          id : RequestID \cup {0}, n : 0..MaxUpdates]

Chunk == [of : RequestID, n : 1..MaxUpdates]

\* The type invariant; the agent's output keeps to the capacity of its pipe.
AcpTypeOK ==
    /\ runtime \in {"initialize", "initWait", "newWait", "ready", "close",
                    "waitExit", "waitKilled", "closed"}
    /\ stopping \in BOOLEAN /\ session \in BOOLEAN
    /\ closed \in BOOLEAN /\ busy \in BOOLEAN
    /\ nextID \in RequestID \cup {0}
    /\ pc \in [Callers -> {"idle", "entered", "read", "deliver"}]
    /\ req \in [Callers -> RequestID \cup {0}]
    /\ out \in [Callers -> {"none", "busy", "ok", "err", "cancel"}]
    /\ answer \in [Callers -> Reply \cup {NoAnswer}]
    /\ streamed \in [Callers -> Seq(Chunk)]
    /\ ctx \in [RequestID -> {"none", "live", "done"}]
    /\ cancelled \subseteq RequestID
    /\ watcher \in [RequestID -> {"none", "watching", "writing", "gone"}]
    /\ toAgent \in Seq(Request)
    /\ fromAgent \in Seq(Reply) /\ Len(fromAgent) <= PipeCap
    /\ agent \in [queue : Seq(RequestID), said : 0..MaxUpdates, sent : 0..MaxUpdates,
                  asking : BOOLEAN]
    /\ child \in {"running", "exited", "reaped"}

\* One reader on the stream, whoever calls and however calls end: promptBusy is
\* set exactly while some call of RespondStream runs, and that call is the only one.
OneReader ==
    /\ \A c, d \in Callers : pc[c] # "idle" /\ pc[d] # "idle" => c = d
    /\ busy <=> \E c \in Callers : pc[c] # "idle"

\* Where a call's own chunks are among the ones it forwarded.
Own(c) == {p \in DOMAIN streamed[c] : streamed[c][p].of = req[c]}

\* A reply reported as a success is the answer to the prompt of that very call,
\* although answers of abandoned prompts may still be in the pipe, and every
\* chunk the agent sent for it has been forwarded, in order: the context was
\* alive at the last check, so no chunk was dropped before.
ReplyOwnAndComplete ==
    \A c \in Callers : pc[c] = "idle" /\ out[c] = "ok" =>
        /\ answer[c].id = req[c]
        /\ {streamed[c][p].n : p \in Own(c)} = 1..answer[c].n
        /\ \A p, q \in Own(c) : p < q => streamed[c][p].n < streamed[c][q].n

\* Runtime.Close returns, and StartRuntime fails, with no agent process left
\* running, whether the agent leaves at the end of its input or has to be killed.
CloseLeavesNoChild == runtime = "closed" => child # "running"

\* If the agent keeps serving, every call of RespondStream returns: a permission
\* request never blocks the agent for good, not even one left by an abandoned
\* prompt, and neither do the agent's exit and its lost output.
PromptReturns == \A c \in Callers : pc[c] # "idle" ~> pc[c] = "idle"

-----------------------------------------------------------------------------
(* Statements of the repository's documents that the code does not keep.   *)

\* README.md: late deltas from the old turn are discarded. A call forwards only
\* chunks of its own prompt.
LateDeltasDiscarded ==
    \A c \in Callers : \A k \in DOMAIN streamed[c] : streamed[c][k].of = req[c]

\* docs/refactor/V07_AGENT_AGNOSTIC_ACP_SPEC.md: shutdown is idempotent and
\* bounded, and leaves no owned ACP child, whatever the agent does.
ShutdownBounded == stopping ~> runtime = "closed"
=============================================================================
