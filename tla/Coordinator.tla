---------------------------- MODULE Coordinator ----------------------------
(***************************************************************************)
(* The voice coordinator of internal/application/coordinator.go: one       *)
(* goroutine that walks a voice turn through its stages, five persistent   *)
(* stage workers behind unbuffered job channels, the bounded channels on   *)
(* which they answer, the user interruption of interrupt.go, the           *)
(* cancellation of the service, and the microphone gate of                 *)
(* cmd/assistant/capture_gate_observer.go.                                 *)
(*                                                                         *)
(* Audio, transcripts and replies are abstracted to the outcome of the     *)
(* stage call that produces them; a response delta is its turn and its     *)
(* position in the response.                                               *)
(***************************************************************************)
EXTENDS Integers, Sequences, PlaybackEffects

CONSTANTS
    MaxTurns,        \* bound: turns started by Run
    MaxDeltas,       \* bound: deltas of one response
    MaxPhrases,      \* bound: phrases one delta completes
    ResultCap,       \* capacity of the results and responses channels
    DeltaCap,        \* capacity of the deltas channel
    Failures,        \* failures a stage call may return while its context lives
    InterruptStates  \* lifecycle states in which the interrupt source may fire

ASSUME BoundsAssumption ==
    MaxTurns \in Nat \ {0} /\ MaxDeltas \in Nat /\ MaxPhrases \in Nat \ {0}

ASSUME CapacityAssumption == ResultCap \in Nat \ {0} /\ DeltaCap \in Nat \ {0}

Worker == {"capturer", "transcriber", "responder", "synthesizer", "player"}

Stage == {"capture", "transcribe", "respond", "synthesize",
          "play", "write", "finish", "stop"}

LifecycleState == {"idle", "listening", "transcribing", "thinking",
                   "synthesizing", "speaking", "interrupted", "stopping"}

\* "deadline" is an error that Is context.DeadlineExceeded although the turn's
\* context lives (a timeout of the client itself); "err" is any other error, a
\* buffer that fails Validate included.
Outcome == {"ok", "empty", "err", "deadline", "cancel"}

ASSUME EnvironmentAssumption ==
    Failures \subseteq {"err", "deadline"} /\ InterruptStates \subseteq LifecycleState

VARIABLES
    pc,          \* where the coordinator goroutine is
    call,        \* the submit or execute in progress: stage, phrases left to speak,
                 \* where playStreamingPhrases returns ("buffered" outside it),
                 \* and whether its context is detached from the turn
    err,         \* the error being handled
    turn,        \* TurnID of the current turn
    cause,       \* context.Cause of the turn context; "none" while it lives
    root,        \* the context of Run is done
    wdone,       \* the context of the worker set is done
    worker,      \* the five worker goroutines and their jobs
    results,     \* channel of stage results
    responses,   \* channel of responder results
    deltas,      \* channel of response deltas
    sent,        \* deltas published by the latest responder call
    turnState,   \* streamingTurnState, with the number of deltas consumed
    state,       \* last lifecycle state handed to the observer
    suppressed,  \* the recorder discards microphone audio
    player,      \* the turn whose audio the playback session holds, 0 if none
    streaming    \* supportsStreaming(), fixed by the composition

channels == <<results, responses, deltas>>
gate == <<state, suppressed>>
vars == <<pc, call, err, turn, cause, root, wdone, worker, channels, sent,
          turnState, gate, player, streaming>>

\* What a step of the coordinator goroutine leaves alone unless it says otherwise.
shared == <<turn, root, wdone, worker, sent, player, streaming>>

IdleWorker == [mode |-> "idle", turn |-> 0, stage |-> "capture", out |-> "ok"]

FirstCall == [stage |-> "capture", left |-> 0, ret |-> "buffered", detached |-> FALSE]

NewTurnState == [taken |-> 0, deltaSeen |-> FALSE, synth |-> FALSE,
                 speaking |-> FALSE, wrote |-> FALSE]

WorkerOf(s) == CASE s = "capture"    -> "capturer"
                 [] s = "transcribe" -> "transcriber"
                 [] s = "respond"    -> "responder"
                 [] s = "synthesize" -> "synthesizer"
                 [] OTHER            -> "player"

Init ==
    /\ pc = "loop" /\ call = FirstCall /\ err = "ok"
    /\ turn = 0 /\ cause = "ended" /\ root = FALSE /\ wdone = FALSE
    /\ worker = [w \in Worker |-> IdleWorker]
    /\ results = <<>> /\ responses = <<>> /\ deltas = <<>> /\ sent = 0
    /\ turnState = NewTurnState
    /\ state = "idle" /\ suppressed = FALSE
    /\ player = 0
    /\ streaming \in BOOLEAN

-----------------------------------------------------------------------------
(* The observer chain: the lifecycle state and the microphone gate.        *)

\* Mutant: the gate forgets that a turn may end idle.
EmitKeepsGateOnIdle(s) ==
    /\ state' = s
    /\ suppressed' = CASE s = "speaking" -> TRUE
                       [] s \in {"interrupted", "stopping"} -> FALSE
                       [] OTHER -> suppressed

Emit(s) ==
    /\ state' = s
    /\ suppressed' = CASE s = "speaking" -> TRUE
                       [] s \in {"idle", "interrupted", "stopping"} -> FALSE
                       [] OTHER -> suppressed

\* runTurn returns and Run goes on to next; the deferred cancel(nil) ends the
\* turn context.
EndTurn(next, s) ==
    /\ pc' = next
    /\ Emit(s)
    /\ cause' = IF cause = "none" THEN "ended" ELSE cause
    /\ UNCHANGED <<call, turnState>>

-----------------------------------------------------------------------------
(* Contexts. Cancelling one reaches its children one after the other.      *)

Shutdown == ~root /\ root' = TRUE /\ UNCHANGED <<wdone, cause>>

PropagateToWorkers == root /\ ~wdone /\ wdone' = TRUE /\ UNCHANGED <<root, cause>>

PropagateToTurn ==
    root /\ cause = "none" /\ cause' = "cancelled" /\ UNCHANGED <<root, wdone>>

\* The goroutine of watchInterrupts receives an event of this turn.
Interrupt ==
    /\ cause = "none" /\ state \in InterruptStates
    /\ cause' = "interrupted"
    /\ UNCHANGED <<root, wdone>>

TurnDone == cause # "none"

\* The contexts that the select statements of submit and await watch.
CallDone == wdone \/ (TurnDone /\ ~call.detached)

JobCtxDone(job) == job.turn # turn \/ TurnDone

-----------------------------------------------------------------------------
(* Run and the beginning of runTurn.                                       *)

NextTurn ==
    /\ pc = "loop" /\ ~root /\ turn < MaxTurns
    /\ turn' = turn + 1 /\ cause' = "none"
    /\ pc' = "enter" /\ call' = FirstCall /\ err' = "ok"
    /\ turnState' = NewTurnState
    /\ Emit("idle")
    /\ UNCHANGED <<root, wdone, worker, channels, sent, player, streaming>>

RunReturns ==
    /\ pc = "loop" /\ root
    /\ pc' = "stopping"
    /\ UNCHANGED <<call, err, cause, channels, turnState, gate>>

\* The check before listening reports any ended context as a cancellation.
EnterTurn ==
    /\ pc = "enter"
    /\ \/ TurnDone /\ err' = "cancel" /\ EndTurn("stopping", "stopping")
       \/ /\ ~TurnDone
          /\ pc' = "submit" /\ Emit("listening")
          /\ UNCHANGED <<call, err, cause, turnState>>
    /\ UNCHANGED channels

\* Mutant: wait for the workers without cancelling their context.
StopWorkersWithoutCancel == FALSE

\* workers.stop(): cancel, then wait for the five goroutines; an idle worker
\* returns as soon as it sees the cancelled context.
StopWorkers ==
    /\ pc = "stopping" /\ ~wdone
    /\ wdone' = TRUE
    /\ UNCHANGED <<pc, call, err, turn, cause, root, worker, channels, sent,
                   turnState, gate, player, streaming>>

WorkersJoined ==
    /\ pc = "stopping" /\ wdone
    /\ \A w \in Worker : worker[w].mode = "idle"
    /\ pc' = "returned"
    /\ UNCHANGED <<call, err, cause, channels, turnState, gate>>

-----------------------------------------------------------------------------
(* submit and await.                                                       *)

\* The unbuffered job channel: the worker takes the request as submit sends it.
Submit ==
    /\ pc = "submit"
    /\ worker[WorkerOf(call.stage)].mode = "idle"
    /\ worker' = [worker EXCEPT ![WorkerOf(call.stage)] =
          [mode |-> "busy", turn |-> turn, stage |-> call.stage, out |-> "ok"]]
    /\ pc' = IF call.stage = "respond" /\ streaming THEN "stream" ELSE "await"
    /\ sent' = IF call.stage = "respond" THEN 0 ELSE sent
    /\ UNCHANGED <<call, err, turn, cause, root, wdone, channels, turnState, gate,
                   player, streaming>>

Execute(s) == pc' = "submit" /\ call' = [call EXCEPT !.stage = s]

\* Mutant: a phrase that fails is skipped and the stream goes on.
UnwindSkipsPhrase ==
    /\ pc' = IF call.stage \in {"synthesize", "write"} /\ call.ret # "buffered"
             THEN call.ret ELSE "fail"
    /\ turnState' = IF call.stage = "stop"
                    THEN [turnState EXCEPT !.speaking = FALSE, !.wrote = FALSE]
                    ELSE turnState

\* Where an execute that failed returns to: a phrase of a streaming response is
\* aborted, the outcome of Stop is ignored, anything else fails the turn.
Unwind ==
    /\ pc' = IF call.stage \in {"synthesize", "write"} /\ call.ret # "buffered"
             THEN "abort" ELSE "fail"
    /\ turnState' = IF call.stage = "stop"
                    THEN [turnState EXCEPT !.speaking = FALSE, !.wrote = FALSE]
                    ELSE turnState

CallCancelled ==
    /\ pc \in {"submit", "await"} /\ CallDone
    /\ err' = IF call.stage = "stop" THEN err ELSE "cancel"
    /\ Unwind
    /\ UNCHANGED <<call, cause, channels, gate>>

\* await receives from the channel of its stage.
Inbox == IF call.stage = "respond" THEN responses ELSE results

Receive ==
    /\ pc = "await" /\ Inbox # <<>>
    /\ IF call.stage = "respond"
       THEN responses' = Tail(responses) /\ UNCHANGED results
       ELSE results' = Tail(results) /\ UNCHANGED responses
    /\ UNCHANGED deltas

\* Mutant: the TurnID of a result is not compared.
MatchesStageOnly(r) == r.stage = call.stage

\* A result of another turn or stage is stale.
Matches(r) == r.turn = turn /\ r.stage = call.stage

Answer(s, outcomes) ==
    /\ call.stage = s
    /\ Matches(Head(Inbox))
    /\ Head(Inbox).out \in outcomes

DiscardResult ==
    /\ ~Matches(Head(Inbox))
    /\ UNCHANGED <<pc, call, err, cause, turnState, gate>>

CallFailed ==
    /\ Matches(Head(Inbox)) /\ call.stage # "stop"
    /\ Head(Inbox).out \in {"err", "deadline", "cancel"}
    /\ err' = Head(Inbox).out
    /\ Unwind
    /\ UNCHANGED <<call, cause, gate>>

-----------------------------------------------------------------------------
(* The stages of a turn: what the answer of each of them leads to.         *)

\* No audio, a blank transcript or one the wake gate ignores: nothing to do.
Noop ==
    /\ \/ Answer("capture", {"empty"})
       \/ Answer("transcribe", {"ok", "empty"})
    /\ EndTurn("loop", "idle")
    /\ UNCHANGED err

AfterCapture ==
    /\ Answer("capture", {"ok"})
    /\ Emit("transcribing")
    /\ Execute("transcribe")
    /\ UNCHANGED <<err, cause, turnState>>

AfterTranscribe ==
    /\ Answer("transcribe", {"ok"})
    /\ Emit("thinking")
    /\ Execute("respond")
    /\ UNCHANGED <<err, cause, turnState>>

SynthesizeBufferedReply ==
    /\ Emit("synthesizing")
    /\ pc' = "submit"
    /\ call' = [call EXCEPT !.stage = "synthesize", !.ret = "buffered", !.left = 0]

\* completeBufferedResponse
AfterRespond ==
    /\ Answer("respond", {"ok"})
    /\ SynthesizeBufferedReply
    /\ UNCHANGED <<err, cause, turnState>>

AfterBufferedSynthesis ==
    /\ call.ret = "buffered"
    /\ \/ Answer("synthesize", {"empty"}) /\ EndTurn("loop", "idle")
       \/ /\ Answer("synthesize", {"ok"})
          /\ Emit("speaking") /\ Execute("play")
          /\ UNCHANGED <<cause, turnState>>
    /\ UNCHANGED err

\* Mutant: every phrase announces the synthesizing state.
PlayPhrasesAnnounceEach(n, r, s) ==
    IF n = 0
    THEN /\ pc' = r
         /\ call' = [call EXCEPT !.ret = r, !.left = 0]
         /\ turnState' = s
         /\ UNCHANGED gate
    ELSE /\ pc' = "submit"
         /\ call' = [call EXCEPT !.stage = "synthesize", !.ret = r, !.left = n - 1]
         /\ turnState' = [s EXCEPT !.synth = TRUE]
         /\ Emit("synthesizing")

\* playStreamingPhrases, with n phrases to go before it returns to r and the
\* streaming state s.
PlayPhrases(n, r, s) ==
    IF n = 0
    THEN /\ pc' = r
         /\ call' = [call EXCEPT !.ret = r, !.left = 0]
         /\ turnState' = s
         /\ UNCHANGED gate
    ELSE /\ pc' = "submit"
         /\ call' = [call EXCEPT !.stage = "synthesize", !.ret = r, !.left = n - 1]
         /\ turnState' = [s EXCEPT !.synth = TRUE]
         /\ IF s.synth THEN UNCHANGED gate ELSE Emit("synthesizing")

\* Mutant: the gate is closed only after the first phrase has been written.
AfterPhraseSynthesisGatesLate ==
    /\ call.ret # "buffered"
    /\ \/ /\ Answer("synthesize", {"empty"})
          /\ PlayPhrases(call.left, call.ret, turnState)
       \/ /\ Answer("synthesize", {"ok"})
          /\ turnState' = [turnState EXCEPT !.speaking = TRUE]
          /\ IF turnState.wrote /\ state # "speaking" THEN Emit("speaking") ELSE UNCHANGED gate
          /\ Execute("write")
    /\ UNCHANGED <<err, cause>>

\* A phrase without audio is skipped; the first one with audio closes the gate.
AfterPhraseSynthesis ==
    /\ call.ret # "buffered"
    /\ \/ /\ Answer("synthesize", {"empty"})
          /\ PlayPhrases(call.left, call.ret, turnState)
       \/ /\ Answer("synthesize", {"ok"})
          /\ turnState' = [turnState EXCEPT !.speaking = TRUE]
          /\ IF turnState.speaking THEN UNCHANGED gate ELSE Emit("speaking")
          /\ Execute("write")
    /\ UNCHANGED <<err, cause>>

AfterWrite ==
    /\ Answer("write", {"ok"})
    /\ PlayPhrases(call.left, call.ret, [turnState EXCEPT !.wrote = TRUE])
    /\ UNCHANGED <<err, cause>>

AfterPlayback ==
    /\ Answer("play", {"ok"}) \/ Answer("finish", {"ok"})
    /\ pc' = "done"
    /\ UNCHANGED <<call, err, cause, turnState, gate>>

AfterStop ==
    /\ Answer("stop", Outcome)
    /\ Unwind
    /\ UNCHANGED <<call, err, cause, gate>>

AwaitStep ==
    /\ Receive
    /\ \/ DiscardResult \/ CallFailed \/ Noop
       \/ AfterCapture \/ AfterTranscribe \/ AfterRespond
       \/ AfterBufferedSynthesis \/ AfterPhraseSynthesis
       \/ AfterWrite \/ AfterPlayback \/ AfterStop

\* The last context check before a turn is reported as a success.
FinishTurn ==
    /\ pc = "done"
    /\ \/ /\ TurnDone
          /\ err' = "cancel" /\ pc' = "fail"
          /\ UNCHANGED <<call, cause, turnState, gate>>
       \/ ~TurnDone /\ EndTurn("loop", "idle") /\ UNCHANGED err
    /\ UNCHANGED channels

-----------------------------------------------------------------------------
(* completeStreamingResponse: the select loop, the final drain, the flush. *)

\* Mutant: the cancelled stream fails without stopping its audio.
StreamCancelledKeepsAudio ==
    /\ pc = "stream" /\ (TurnDone \/ wdone)
    /\ err' = "cancel" /\ pc' = "fail"
    /\ UNCHANGED <<call, cause, channels, turnState, gate>>

\* Mutant: the select watches the worker set but not the turn.
StreamCancelledByWorkersOnly ==
    /\ pc = "stream" /\ wdone
    /\ err' = "cancel" /\ pc' = "abort"
    /\ UNCHANGED <<call, cause, channels, turnState, gate>>

StreamCancelled ==
    /\ pc = "stream" /\ (TurnDone \/ wdone)
    /\ err' = "cancel" /\ pc' = "abort"
    /\ UNCHANGED <<call, cause, channels, turnState, gate>>

\* A delta of another turn is dropped; one of this turn goes to the sentence buffer.
TakeDelta ==
    /\ pc \in {"stream", "drain"} /\ deltas # <<>>
    /\ deltas' = Tail(deltas)
    /\ \/ Head(deltas).turn # turn /\ UNCHANGED <<pc, call, turnState, gate>>
       \/ /\ Head(deltas).turn = turn
          /\ \E n \in 0..MaxPhrases :
                PlayPhrases(n, pc, [turnState EXCEPT !.deltaSeen = TRUE, !.taken = @ + 1])
    /\ UNCHANGED <<err, cause, results, responses>>

TakeResponse ==
    /\ pc = "stream" /\ responses # <<>>
    /\ responses' = Tail(responses)
    /\ LET r   == Head(responses)
           own == r.turn = turn /\ r.stage = "respond" IN
       \/ ~own /\ UNCHANGED <<pc, err>>
       \/ own /\ r.out # "ok" /\ err' = r.out /\ pc' = "abort"
       \/ own /\ r.out = "ok" /\ pc' = "drain" /\ UNCHANGED err
    /\ UNCHANGED <<call, cause, results, deltas, turnState, gate>>

\* Mutant: the reply is flushed while deltas are still buffered.
DeltasNotDrained ==
    /\ pc = "drain"
    /\ pc' = "flush"
    /\ UNCHANGED <<call, err, cause, channels, turnState, gate>>

DeltasDrained ==
    /\ pc = "drain" /\ deltas = <<>>
    /\ pc' = "flush"
    /\ UNCHANGED <<call, err, cause, channels, turnState, gate>>

\* Without deltas the whole reply is spoken; otherwise what is left in the
\* sentence buffer, at most one phrase.
FlushSentence ==
    /\ pc = "flush"
    /\ \/ ~turnState.deltaSeen /\ SynthesizeBufferedReply /\ UNCHANGED turnState
       \/ turnState.deltaSeen /\ \E n \in 0..1 : PlayPhrases(n, "finish", turnState)
    /\ UNCHANGED <<err, cause, channels>>

FinishPlayback ==
    /\ pc = "finish"
    /\ IF turnState.wrote THEN Execute("finish") ELSE pc' = "done" /\ UNCHANGED call
    /\ UNCHANGED <<err, cause, channels, turnState, gate>>

-----------------------------------------------------------------------------
(* abortStreamingPlayback and fail.                                        *)

\* Stop runs on the playback worker, under the turn context if that is still
\* alive at the check and detached from it otherwise.
Abort ==
    /\ pc = "abort"
    /\ \/ ~turnState.speaking /\ pc' = "fail" /\ UNCHANGED call
       \/ /\ turnState.speaking /\ ~wdone
          /\ pc' = "submit"
          /\ call' = [call EXCEPT !.stage = "stop", !.detached = TurnDone]
    /\ UNCHANGED <<err, cause, channels, turnState, gate>>

\* With the workers cancelled the coordinator calls Player.Stop itself, beside
\* the playback job that may still be in progress.
DirectStop ==
    /\ pc = "abort" /\ turnState.speaking /\ wdone
    /\ LET job == worker["player"] IN
       player' \in SessionAfterStop(IF job.mode = "busy" THEN job.stage ELSE "none", player)
    /\ turnState' = [turnState EXCEPT !.speaking = FALSE, !.wrote = FALSE]
    /\ pc' = "fail"
    /\ UNCHANGED <<call, err, turn, cause, root, wdone, worker, channels, sent, gate,
                   streaming>>

\* fail, first check: an interrupted turn is recoverable.
Fail ==
    /\ pc = "fail"
    /\ \/ cause = "interrupted" /\ EndTurn("loop", "interrupted")
       \/ /\ cause # "interrupted"
          /\ pc' = "classify"
          /\ UNCHANGED <<call, cause, turnState, gate>>
    /\ UNCHANGED <<err, channels>>

\* fail, second check: an ended context, or an error that says so, ends Run;
\* any other error is recoverable.
Classify ==
    /\ pc = "classify"
    /\ IF TurnDone \/ err \in {"cancel", "deadline"}
       THEN EndTurn("stopping", "stopping")
       ELSE EndTurn("loop", "idle")
    /\ UNCHANGED <<err, channels>>

-----------------------------------------------------------------------------
(* The stage workers.                                                      *)

\* What the dependency called for a job may return.
CallOutcomes(job) ==
    CASE job.stage = "stop" -> {"ok"}
      [] OTHER ->
         {"ok"}
         \cup {o \in {"empty"} : job.stage \in {"capture", "transcribe", "synthesize"}}
         \cup {o \in Failures : o = "deadline" => job.stage = "respond"}
         \cup {o \in {"cancel"} : JobCtxDone(job)}

\* What the call leaves in the playback session.
PlayerAfter(job, o) == SessionAfter(job.stage, o, job.turn, player)

CallReturns(w) ==
    /\ worker[w].mode = "busy"
    /\ \E o \in CallOutcomes(worker[w]) :
          /\ worker' = [worker EXCEPT ![w].mode = "publish", ![w].out = o]
          /\ player' \in PlayerAfter(worker[w], o)
    /\ UNCHANGED <<channels, sent>>

\* publish: the result is sent, or dropped once the workers are cancelled.
Publish(w) ==
    /\ worker[w].mode = "publish"
    /\ LET r == [turn |-> worker[w].turn, stage |-> worker[w].stage, out |-> worker[w].out] IN
       \/ /\ r.stage = "respond" /\ Len(responses) < ResultCap
          /\ responses' = Append(responses, r) /\ UNCHANGED results
       \/ /\ r.stage # "respond" /\ Len(results) < ResultCap
          /\ results' = Append(results, r) /\ UNCHANGED responses
       \/ wdone /\ UNCHANGED <<results, responses>>
    /\ worker' = [worker EXCEPT ![w] = IdleWorker]
    /\ UNCHANGED <<deltas, sent, player>>

\* Mutant: the callback does not wait for room in the channel.
PublishDeltaUnbounded ==
    /\ streaming /\ worker["responder"].mode = "busy"
    /\ sent < MaxDeltas
    /\ deltas' = Append(deltas, [turn |-> worker["responder"].turn, n |-> sent + 1])
    /\ sent' = sent + 1
    /\ UNCHANGED <<worker, results, responses, player>>

\* The responder's callback: publishDelta with the turn of the request.
PublishDelta ==
    /\ streaming /\ worker["responder"].mode = "busy"
    /\ Len(deltas) < DeltaCap /\ sent < MaxDeltas
    /\ deltas' = Append(deltas, [turn |-> worker["responder"].turn, n |-> sent + 1])
    /\ sent' = sent + 1
    /\ UNCHANGED <<worker, results, responses, player>>

-----------------------------------------------------------------------------
CoordinatorStep ==
    \/ NextTurn \/ StopWorkers \/ Submit \/ DirectStop
    \/ /\ \/ RunReturns \/ EnterTurn \/ WorkersJoined
          \/ CallCancelled \/ AwaitStep \/ FinishTurn
          \/ StreamCancelled \/ TakeDelta \/ TakeResponse \/ DeltasDrained
          \/ FlushSentence \/ FinishPlayback
          \/ Abort \/ Fail \/ Classify
       /\ UNCHANGED shared

WorkerStep(w) ==
    /\ CallReturns(w) \/ Publish(w) \/ (w = "responder" /\ PublishDelta)
    /\ UNCHANGED <<pc, call, err, turn, cause, root, wdone, turnState, gate, streaming>>

Propagate == PropagateToWorkers \/ PropagateToTurn

ContextStep(A) ==
    A /\ UNCHANGED <<pc, call, err, turn, worker, channels, sent, turnState, gate,
                     player, streaming>>

\* Run has returned and no goroutine is left.
Terminated == pc = "returned" /\ UNCHANGED vars

Next ==
    \/ CoordinatorStep
    \/ \E w \in Worker : WorkerStep(w)
    \/ ContextStep(Shutdown) \/ ContextStep(Propagate) \/ ContextStep(Interrupt)
    \/ Terminated

Spec == Init /\ [][Next]_vars

\* A stage call returns, except that a capture under a live context waits for
\* speech. Nobody has to speak, interrupt or stop the service.
WorkerProgress(w) ==
    /\ WorkerStep(w)
    /\ w = "capturer" /\ worker[w].mode = "busy" => JobCtxDone(worker[w])

\* Only the coordinator and the player keep going; capture, recognition, the
\* agent and synthesis may hang.
LocallyFairSpec == Spec /\ WF_vars(CoordinatorStep \/ WorkerStep("player"))

\* Every dependency answers, and a cancelled context reaches its children.
DependenciesAnswer ==
    WF_vars(ContextStep(Propagate) \/ \E w \in Worker : WorkerProgress(w))

-----------------------------------------------------------------------------
(* Properties.                                                             *)

Control == {"loop", "enter", "submit", "await", "stream", "drain", "flush",
            "finish", "done", "abort", "fail", "classify", "stopping", "returned"}

Call == [stage : Stage, left : 0..MaxPhrases, detached : BOOLEAN,
         ret : {"buffered", "stream", "drain", "finish"}]

Job == [mode : {"idle", "busy", "publish"}, turn : 0..MaxTurns,
        stage : Stage, out : Outcome]

StageResult == [turn : 0..MaxTurns, stage : Stage, out : Outcome]

Delta == [turn : 0..MaxTurns, n : 1..MaxDeltas]

TurnState == [taken : Nat, deltaSeen : BOOLEAN, synth : BOOLEAN,
              speaking : BOOLEAN, wrote : BOOLEAN]

\* The type invariant; the three channels keep to their capacity.
TypeOK ==
    /\ pc \in Control /\ call \in Call /\ err \in Outcome
    /\ turn \in 0..MaxTurns
    /\ cause \in {"none", "ended", "interrupted", "cancelled"}
    /\ root \in BOOLEAN /\ wdone \in BOOLEAN
    /\ worker \in [Worker -> Job]
    /\ results \in Seq(StageResult) /\ Len(results) <= ResultCap
    /\ responses \in Seq(StageResult) /\ Len(responses) <= ResultCap
    /\ deltas \in Seq(Delta) /\ Len(deltas) <= DeltaCap
    /\ sent \in 0..MaxDeltas
    /\ turnState \in TurnState
    /\ state \in LifecycleState /\ suppressed \in BOOLEAN
    /\ player \in 0..MaxTurns
    /\ streaming \in BOOLEAN

Pending(job) == job.mode \in {"busy", "publish"}

\* Some job or unread result carries this turn and stage.
Outstanding(t, s) ==
    \/ \E w \in Worker : Pending(worker[w]) /\ worker[w].turn = t /\ worker[w].stage = s
    \/ \E i \in DOMAIN results : results[i].turn = t /\ results[i].stage = s
    \/ \E i \in DOMAIN responses : responses[i].turn = t /\ responses[i].stage = s

\* await identifies its answer by turn and stage alone, although a streaming
\* turn calls the same stage many times and abandons calls when its context
\* ends. When submit is about to hand a job over, nothing in the workers or
\* channels carries the same turn and stage, so the answer accepted is the
\* answer of that very call.
CallsCorrelated == pc = "submit" => ~Outstanding(turn, call.stage)

\* Where the unread deltas of the turn are.
OwnDeltas == {p \in DOMAIN deltas : deltas[p].turn = turn}

\* completeStreamingResponse hands every delta of its own response to the
\* sentence buffer, in order and once, and none of an older response: while
\* streaming, the unread deltas of the turn are exactly the published but not
\* taken ones, and none is left when the reply is flushed.
ReplyDeltasIntact ==
    /\ pc \in {"stream", "drain"} =>
          /\ {deltas[p].n : p \in OwnDeltas} = (turnState.taken + 1)..sent
          /\ \A p, q \in OwnDeltas : p < q => deltas[p].n < deltas[q].n
    /\ pc \in {"flush", "finish"} => turnState.taken = sent

\* However the previous turn ended, the microphone is open again while the
\* coordinator listens: captureGateObserver saw a state that releases it.
ListeningNotDeaf ==
    pc \in {"submit", "await"} /\ call.stage = "capture" => ~suppressed

\* Run returns for the shutdown of the service, for a stage that timed out, or
\* in a turn that was itself interrupted; a cancelled call of an earlier turn
\* never reaches Run as a cancellation of the service.
ServiceEndsForAReason ==
    pc \in {"stopping", "returned"} => root \/ err = "deadline" \/ cause = "interrupted"

Rank(s) == CASE s = "idle"         -> 0
             [] s = "listening"    -> 1
             [] s = "transcribing" -> 2
             [] s = "thinking"     -> 3
             [] s = "synthesizing" -> 4
             [] s = "speaking"     -> 5
             [] OTHER              -> 6

\* Within a turn the observer sees the lifecycle states in order, whatever the
\* number of phrases: no alternation of synthesizing and speaking, nothing
\* after interrupted or stopping.
StatesAdvance ==
    [][turn' = turn => IF state' = "idle" THEN Rank(state) < 6
                                          ELSE Rank(state') > Rank(state)]_state

\* A playback session outlives neither its turn nor the microphone gate: unless
\* the user interrupts the turn or the service shuts down, its session holds
\* audio only under a suppressed microphone, also after an error of any stage.
MicGatedWhileAudible ==
    player # 0 /\ player = turn /\ cause # "interrupted" /\ ~root => suppressed

\* An interruption leaves no reply playing: when Run goes on to the next turn,
\* abortStreamingPlayback has ended the session of the interrupted one, and no
\* Write of it is left to start another. Two windows are not covered: the final
\* Finish, which is not aborted, and a Stop submitted under the turn context
\* itself because an error came before the interruption.
AbortStopsAudio ==
    /\ pc = "loop" /\ state = "interrupted" /\ ~root
    /\ call.stage # "finish" /\ (call.stage = "stop" => call.detached)
    => /\ player # turn
       /\ LET job == worker["player"] IN
          ~(job.mode = "busy" /\ job.turn = turn /\ job.stage = "write")

\* Local cancellation is authoritative: an interrupted turn comes to its end
\* even if the agent, the recognizer or the synthesizer never returns. Only the
\* playback worker has to, because abortStreamingPlayback waits for its Stop.
InterruptEndsTurn ==
    cause = "interrupted" ~> pc \in {"loop", "stopping", "returned"}

\* After the shutdown signal, or an error that ends Run, the active turn ends,
\* the five workers are cancelled and joined, and Run returns, if the calls that
\* the workers are in come back.
ServiceStops == DependenciesAnswer => (root \/ pc = "stopping" ~> pc = "returned")

-----------------------------------------------------------------------------
(* Statements of the repository's documents that the code does not keep.   *)

\* docs/refactor/WI-11B_SPEC.md: an interruption of the user is not a shutdown
\* of the service; `interrupted` only ends the active turn.
InterruptNeverStopsService ==
    pc \in {"stopping", "returned"} => root \/ err = "deadline"

\* README.md: a confirmed interruption stops local audio immediately. When Run
\* goes on to the next turn the session is gone or a playback job still owns it.
InterruptStopsAudio ==
    pc = "loop" /\ state = "interrupted" /\ ~root /\ player = turn
        => Pending(worker["player"])
=============================================================================
