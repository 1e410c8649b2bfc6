------------------------- MODULE CoordinatorProofs -------------------------
(***************************************************************************)
(* Proofs about the coordinator, for every number of turns, deltas and     *)
(* phrases, every capacity of the channels, every set of failures and of   *)
(* states in which the user interrupts.                                    *)
(*                                                                         *)
(*   TypeCorrect         the type invariant TypeOK                         *)
(*   CallsAreCorrelated  the answer await accepts is that of its own call  *)
(*   ListeningIsNotDeaf  the coordinator never listens with a closed gate  *)
(*   StatesOnlyAdvance   the lifecycle states of a turn come in order      *)
(*   EndsForAReason      no stale cancellation ends the service            *)
(*   AudibleIsGated      what sounds does so under a closed microphone     *)
(*   AbortSilences       an interrupted reply is not left playing          *)
(*   DeltasArriveIntact  every delta of the reply is spoken, once          *)
(*                                                                         *)
(* The later five are about one turn and rest on TypeInv and CallsInv.     *)
(***************************************************************************)
EXTENDS Coordinator, TLAPS

\* TypeOK alone is not inductive: AfterWrite returns to call.ret, which is a
\* control point only because a write is never part of a buffered reply.
WritesReturn == call.stage = "write" => call.ret # "buffered"

TypeInv == TypeOK /\ WritesReturn

\* A receive from a bounded channel.
LEMMA Dequeue ==
    ASSUME NEW S, NEW N \in Nat, NEW s \in Seq(S), s # <<>>, Len(s) <= N
    PROVE  Head(s) \in S /\ Tail(s) \in Seq(S) /\ Len(Tail(s)) <= N
  BY SMT

\* Where playStreamingPhrases may return to; "buffered" outside it.
ReturnPoint == {"buffered", "stream", "drain", "finish"}

\* The fields and the updates of the call in progress.
LEMMA CallTypes ==
    ASSUME NEW c \in Call
    PROVE  /\ c.stage \in Stage /\ c.left \in 0..MaxPhrases /\ c.ret \in ReturnPoint
           /\ c.detached \in BOOLEAN
           /\ \A s \in Stage : [c EXCEPT !.stage = s] \in Call
           /\ \A s \in Stage, b \in BOOLEAN : [c EXCEPT !.stage = s, !.detached = b] \in Call
           /\ \A r \in ReturnPoint, n \in 0..MaxPhrases : [c EXCEPT !.ret = r, !.left = n] \in Call
           /\ \A s \in Stage, r \in ReturnPoint, n \in 0..MaxPhrases :
                 [c EXCEPT !.stage = s, !.ret = r, !.left = n] \in Call
  BY Zenon DEF Call, ReturnPoint

\* The updates of the streaming state.
LEMMA TurnStateTypes ==
    ASSUME NEW s \in TurnState
    PROVE  /\ [s EXCEPT !.synth = TRUE] \in TurnState
           /\ [s EXCEPT !.speaking = TRUE] \in TurnState
           /\ [s EXCEPT !.wrote = TRUE] \in TurnState
           /\ [s EXCEPT !.speaking = FALSE, !.wrote = FALSE] \in TurnState
           /\ [s EXCEPT !.deltaSeen = TRUE, !.taken = @ + 1] \in TurnState
  <1>1. s.taken + 1 \in Nat
    BY DEF TurnState
  <1> QED BY <1>1, Zenon DEF TurnState

\* The fields and the updates of the workers' jobs.
LEMMA JobTypes ==
    ASSUME NEW f \in [Worker -> Job], NEW w \in Worker
    PROVE  /\ f[w].turn \in 0..MaxTurns /\ f[w].stage \in Stage /\ f[w].out \in Outcome
           /\ f[w].mode \in {"idle", "busy", "publish"}
           /\ \A j \in Job : [f EXCEPT ![w] = j] \in [Worker -> Job]
           /\ \A o \in Outcome :
                 [f EXCEPT ![w].mode = "publish", ![w].out = o] \in [Worker -> Job]
  BY Zenon DEF Job

\* The observer chain keeps its types.
LEMMA EmitType ==
    ASSUME NEW s \in LifecycleState, suppressed \in BOOLEAN, Emit(s)
    PROVE  state' \in LifecycleState /\ suppressed' \in BOOLEAN
  BY DEF Emit

\* So does the end of a turn.
LEMMA EndTurnType ==
    ASSUME TypeInv, NEW next \in {"loop", "stopping"}, NEW s \in LifecycleState, EndTurn(next, s)
    PROVE  /\ pc' \in Control /\ UNCHANGED <<call, turnState>>
           /\ cause' \in {"none", "ended", "interrupted", "cancelled"}
           /\ state' \in LifecycleState /\ suppressed' \in BOOLEAN
  BY EmitType DEF EndTurn, TypeInv, TypeOK, Control

\* playStreamingPhrases keeps types and goes on with a phrase or returns to r.
LEMMA PlayPhrasesType ==
    ASSUME TypeInv, NEW n \in 0..MaxPhrases, NEW r \in ReturnPoint \ {"buffered"},
           NEW s \in TurnState, PlayPhrases(n, r, s)
    PROVE  /\ pc' \in Control /\ call' \in Call /\ turnState' \in TurnState
           /\ state' \in LifecycleState /\ suppressed' \in BOOLEAN
           /\ WritesReturn'
  <1> USE DEF TypeInv, TypeOK
  <1>1. CASE n = 0
    <2>1. call' = [call EXCEPT !.ret = r, !.left = 0] /\ pc' = r /\ turnState' = s
      BY <1>1 DEF PlayPhrases
    <2>2a. r \in ReturnPoint /\ 0 \in 0..MaxPhrases
      BY BoundsAssumption
    <2>2. call' \in Call
      BY <2>1, <2>2a, CallTypes
    <2>3. call'.ret = r
      BY <2>1 DEF Call
    <2> QED BY <1>1, <2>1, <2>2, <2>3 DEF PlayPhrases, Control, gate, WritesReturn, ReturnPoint
  <1>2. CASE n # 0
    <2>1. /\ call' = [call EXCEPT !.stage = "synthesize", !.ret = r, !.left = n - 1]
          /\ pc' = "submit" /\ turnState' = [s EXCEPT !.synth = TRUE]
      BY <1>2 DEF PlayPhrases
    <2>2. "synthesize" \in Stage /\ n - 1 \in 0..MaxPhrases /\ "synthesizing" \in LifecycleState
      BY <1>2, BoundsAssumption DEF Stage, LifecycleState
    <2>3. call' \in Call /\ turnState' \in TurnState
      BY <2>1, <2>2, CallTypes, TurnStateTypes
    <2>4. call'.stage = "synthesize"
      BY <2>1 DEF Call
    <2>5. state' \in LifecycleState /\ suppressed' \in BOOLEAN
      BY <1>2, <2>2, EmitType DEF PlayPhrases, gate
    <2> QED BY <2>1, <2>3, <2>4, <2>5 DEF Control, WritesReturn
  <1> QED BY <1>1, <1>2

\* A failed execute returns to a control point.
LEMMA UnwindType ==
    ASSUME TypeInv, Unwind
    PROVE  pc' \in Control /\ turnState' \in TurnState
  BY TurnStateTypes DEF Unwind, TypeInv, TypeOK, Control

\* An execute starts with submit.
LEMMA ExecuteType ==
    ASSUME TypeInv, NEW s \in Stage, Execute(s), s = "write" => call.ret # "buffered"
    PROVE  pc' \in Control /\ call' \in Call /\ WritesReturn'
  <1>1. call' \in Call /\ pc' = "submit"
    BY CallTypes DEF Execute, TypeInv, TypeOK
  <1>2. call'.stage = s /\ call'.ret = call.ret
    BY DEF Execute, TypeInv, TypeOK, Call
  <1> QED BY <1>1, <1>2 DEF Control, WritesReturn

\* The buffered reply starts with the synthesis of the whole text.
LEMMA BufferedReplyType ==
    ASSUME TypeInv, SynthesizeBufferedReply
    PROVE  /\ pc' \in Control /\ call' \in Call /\ WritesReturn'
           /\ state' \in LifecycleState /\ suppressed' \in BOOLEAN
  <1> USE DEF TypeInv, TypeOK
  <1>1. /\ call' = [call EXCEPT !.stage = "synthesize", !.ret = "buffered", !.left = 0]
        /\ pc' = "submit" /\ Emit("synthesizing")
    BY DEF SynthesizeBufferedReply
  <1>2. "synthesize" \in Stage /\ 0 \in 0..MaxPhrases /\ "synthesizing" \in LifecycleState
        /\ "buffered" \in ReturnPoint
    BY BoundsAssumption DEF Stage, LifecycleState, ReturnPoint
  <1>3. call' \in Call
    BY <1>1, <1>2, CallTypes
  <1>4. call'.stage = "synthesize"
    BY <1>1 DEF Call
  <1>5. state' \in LifecycleState /\ suppressed' \in BOOLEAN
    BY <1>1, <1>2, EmitType
  <1> QED BY <1>1, <1>3, <1>4, <1>5 DEF Control, WritesReturn

\* await receives a stage result and shortens one channel.
LEMMA InboxType ==
    ASSUME TypeInv, Receive
    PROVE  /\ Head(Inbox) \in StageResult /\ Head(Inbox).out \in Outcome
           /\ results' \in Seq(StageResult) /\ Len(results') <= ResultCap
           /\ responses' \in Seq(StageResult) /\ Len(responses') <= ResultCap
           /\ deltas' = deltas
  <1>1. Head(Inbox) \in StageResult
        /\ results' \in Seq(StageResult) /\ Len(results') <= ResultCap
        /\ responses' \in Seq(StageResult) /\ Len(responses') <= ResultCap
        /\ deltas' = deltas
    <2>0. /\ results \in Seq(StageResult) /\ Len(results) <= ResultCap
          /\ responses \in Seq(StageResult) /\ Len(responses) <= ResultCap
          /\ ResultCap \in Nat
      BY CapacityAssumption DEF TypeInv, TypeOK
    <2>1. CASE call.stage = "respond"
      <3>1. Inbox = responses /\ responses # <<>> /\ responses' = Tail(responses)
            /\ results' = results /\ deltas' = deltas
        BY <2>1 DEF Receive, Inbox
      <3> QED BY <2>0, <3>1, Dequeue
    <2>2. CASE call.stage # "respond"
      <3>1. Inbox = results /\ results # <<>> /\ results' = Tail(results)
            /\ responses' = responses /\ deltas' = deltas
        BY <2>2 DEF Receive, Inbox
      <3> QED BY <2>0, <3>1, Dequeue
    <2> QED BY <2>1, <2>2
  <1>2. Head(Inbox).out \in Outcome
    BY <1>1 DEF StageResult
  <1> QED BY <1>1, <1>2

\* The initial state is well typed.
LEMMA TypeInit == Init => TypeInv
  <1> SUFFICES ASSUME Init PROVE TypeInv
    OBVIOUS
  <1>1. call \in Call /\ call.stage = "capture"
    BY BoundsAssumption DEF Init, FirstCall, Call, Stage
  <1>2. turnState \in TurnState
    BY Zenon DEF Init, NewTurnState, TurnState
  <1>3. worker \in [Worker -> Job]
    BY BoundsAssumption DEF Init, IdleWorker, Job, Stage, Outcome
  <1>4. /\ results \in Seq(StageResult) /\ Len(results) <= ResultCap
        /\ responses \in Seq(StageResult) /\ Len(responses) <= ResultCap
        /\ deltas \in Seq(Delta) /\ Len(deltas) <= DeltaCap
        /\ turn \in 0..MaxTurns /\ sent \in 0..MaxDeltas /\ player \in 0..MaxTurns
    BY BoundsAssumption, CapacityAssumption DEF Init
  <1>5. /\ root \in BOOLEAN /\ wdone \in BOOLEAN /\ suppressed \in BOOLEAN
        /\ streaming \in BOOLEAN
    BY Zenon DEF Init
  <1>6. /\ pc \in Control /\ err \in Outcome /\ state \in LifecycleState
        /\ cause \in {"none", "ended", "interrupted", "cancelled"}
    BY DEF Init, Control, Outcome, LifecycleState
  <1> QED BY <1>1, <1>2, <1>3, <1>4, <1>5, <1>6 DEF TypeInv, TypeOK, WritesReturn

\* What the steps of the coordinator goroutine leave to the other parts.
LEMMA CoordinatorFrame ==
    ASSUME TypeInv, UNCHANGED shared,
           pc' \in Control, call' \in Call, err' \in Outcome, turnState' \in TurnState,
           cause' \in {"none", "ended", "interrupted", "cancelled"},
           results' \in Seq(StageResult), Len(results') <= ResultCap,
           responses' \in Seq(StageResult), Len(responses') <= ResultCap,
           deltas' \in Seq(Delta), Len(deltas') <= DeltaCap,
           state' \in LifecycleState, suppressed' \in BOOLEAN, WritesReturn'
    PROVE  TypeInv'
  BY DEF shared, TypeInv, TypeOK

\* Every answer of a stage leads to a well-typed state.
LEMMA AwaitType ==
    ASSUME TypeInv, AwaitStep, UNCHANGED shared
    PROVE  TypeInv'
  <1> USE DEF TypeInv
  <1>1. /\ results' \in Seq(StageResult) /\ Len(results') <= ResultCap
        /\ responses' \in Seq(StageResult) /\ Len(responses') <= ResultCap
        /\ deltas' \in Seq(Delta) /\ Len(deltas') <= DeltaCap
        /\ Head(Inbox).out \in Outcome
    BY InboxType DEF AwaitStep, TypeOK
  <1>2. /\ pc \in Control /\ call \in Call /\ err \in Outcome /\ turnState \in TurnState
        /\ cause \in {"none", "ended", "interrupted", "cancelled"}
        /\ state \in LifecycleState /\ suppressed \in BOOLEAN /\ WritesReturn
    BY DEF TypeOK
  <1>3. /\ {"idle", "transcribing", "thinking", "speaking"} \subseteq LifecycleState
        /\ {"transcribe", "respond", "play", "write"} \subseteq Stage
    BY DEF LifecycleState, Stage
  <1>4. CASE DiscardResult
    BY <1>1, <1>2, <1>4, CoordinatorFrame DEF DiscardResult, gate, WritesReturn
  <1>5. CASE CallFailed
    BY <1>1, <1>2, <1>5, UnwindType, CoordinatorFrame DEF CallFailed, gate, WritesReturn
  <1>6. CASE Noop
    BY <1>1, <1>2, <1>3, <1>6, EndTurnType, CoordinatorFrame DEF Noop, WritesReturn
  <1>7. CASE AfterCapture
    BY <1>1, <1>2, <1>3, <1>7, EmitType, ExecuteType, CoordinatorFrame DEF AfterCapture
  <1>8. CASE AfterTranscribe
    BY <1>1, <1>2, <1>3, <1>8, EmitType, ExecuteType, CoordinatorFrame DEF AfterTranscribe
  <1>9. CASE AfterRespond
    BY <1>1, <1>2, <1>9, BufferedReplyType, CoordinatorFrame DEF AfterRespond
  <1>10. CASE AfterBufferedSynthesis
    <2>1. CASE EndTurn("loop", "idle")
      BY <1>1, <1>2, <1>3, <1>10, <2>1, EndTurnType, CoordinatorFrame
         DEF AfterBufferedSynthesis, WritesReturn
    <2>2. CASE Emit("speaking") /\ Execute("play") /\ UNCHANGED <<cause, turnState>>
      BY <1>1, <1>2, <1>3, <1>10, <2>2, EmitType, ExecuteType, CoordinatorFrame
         DEF AfterBufferedSynthesis
    <2> QED BY <1>10, <2>1, <2>2 DEF AfterBufferedSynthesis
  <1>11. CASE AfterPhraseSynthesis
    <2>1. call.ret \in ReturnPoint \ {"buffered"} /\ call.left \in 0..MaxPhrases
      BY <1>2, <1>11, CallTypes DEF AfterPhraseSynthesis
    <2>2. CASE PlayPhrases(call.left, call.ret, turnState)
      BY <1>1, <1>2, <1>11, <2>1, <2>2, PlayPhrasesType, CoordinatorFrame
         DEF AfterPhraseSynthesis
    <2>3. CASE /\ turnState' = [turnState EXCEPT !.speaking = TRUE]
               /\ IF turnState.speaking THEN UNCHANGED gate ELSE Emit("speaking")
               /\ Execute("write")
      <3>1. state' \in LifecycleState /\ suppressed' \in BOOLEAN
        BY <1>2, <1>3, <2>3, EmitType DEF gate
      <3>2. pc' \in Control /\ call' \in Call /\ WritesReturn'
        BY <1>3, <2>1, <2>3, ExecuteType
      <3>3. turnState' \in TurnState
        BY <1>2, <2>3, TurnStateTypes
      <3> QED BY <1>1, <1>2, <1>11, <3>1, <3>2, <3>3, CoordinatorFrame
              DEF AfterPhraseSynthesis
    <2> QED BY <1>11, <2>2, <2>3 DEF AfterPhraseSynthesis
  <1>12. CASE AfterWrite
    <2>1. /\ call.ret \in ReturnPoint \ {"buffered"} /\ call.left \in 0..MaxPhrases
          /\ [turnState EXCEPT !.wrote = TRUE] \in TurnState
      BY <1>2, <1>12, CallTypes, TurnStateTypes DEF AfterWrite, Answer, WritesReturn
    <2> QED BY <1>1, <1>2, <1>12, <2>1, PlayPhrasesType, CoordinatorFrame DEF AfterWrite
  <1>13. CASE AfterPlayback
    BY <1>1, <1>2, <1>13, CoordinatorFrame DEF AfterPlayback, gate, WritesReturn, Control
  <1>14. CASE AfterStop
    BY <1>1, <1>2, <1>14, UnwindType, CoordinatorFrame DEF AfterStop, gate, WritesReturn
  <1> QED BY <1>4, <1>5, <1>6, <1>7, <1>8, <1>9, <1>10, <1>11, <1>12, <1>13, <1>14
          DEF AwaitStep

\* What the workers and the contexts leave to the coordinator goroutine.
LEMMA WorkerFrame ==
    ASSUME TypeInv,
           UNCHANGED <<pc, call, err, turn, cause, root, wdone, turnState, gate, streaming>>,
           worker' \in [Worker -> Job], player' \in 0..MaxTurns, sent' \in 0..MaxDeltas,
           results' \in Seq(StageResult), Len(results') <= ResultCap,
           responses' \in Seq(StageResult), Len(responses') <= ResultCap,
           deltas' \in Seq(Delta), Len(deltas') <= DeltaCap
    PROVE  TypeInv'
  BY DEF TypeInv, TypeOK, gate, WritesReturn

\* A send to a bounded channel with room.
LEMMA Enqueue ==
    ASSUME NEW S, NEW N \in Nat, NEW s \in Seq(S), NEW x \in S, Len(s) < N
    PROVE  Append(s, x) \in Seq(S) /\ Len(Append(s, x)) <= N
  BY SMT

\* The workers keep types; the channels keep to their capacity.
LEMMA WorkerType ==
    ASSUME TypeInv, NEW w \in Worker, WorkerStep(w)
    PROVE  TypeInv'
  <1>1. /\ worker \in [Worker -> Job] /\ player \in 0..MaxTurns /\ sent \in 0..MaxDeltas
        /\ results \in Seq(StageResult) /\ Len(results) <= ResultCap
        /\ responses \in Seq(StageResult) /\ Len(responses) <= ResultCap
        /\ deltas \in Seq(Delta) /\ Len(deltas) <= DeltaCap
        /\ UNCHANGED <<pc, call, err, turn, cause, root, wdone, turnState, gate, streaming>>
    BY DEF TypeInv, TypeOK, WorkerStep
  <1>2. ResultCap \in Nat /\ DeltaCap \in Nat
    BY CapacityAssumption
  <1>3. CASE CallReturns(w)
    <2>1. PICK o \in CallOutcomes(worker[w]) :
             /\ worker' = [worker EXCEPT ![w].mode = "publish", ![w].out = o]
             /\ player' \in PlayerAfter(worker[w], o)
      BY <1>3 DEF CallReturns
    <2>2. o \in Outcome
      BY <2>1, EnvironmentAssumption DEF CallOutcomes, Outcome
    <2>3. worker' \in [Worker -> Job]
      BY <1>1, <2>1, <2>2, JobTypes
    <2>4. player' \in 0..MaxTurns
      <3>1. player' \in {worker[w].turn, player, 0}
        BY <2>1 DEF PlayerAfter, SessionAfter
      <3>2. worker[w].turn \in 0..MaxTurns
        BY <1>1, JobTypes
      <3> QED BY <1>1, <3>1, <3>2, BoundsAssumption
    <2> QED BY <1>1, <1>3, <2>3, <2>4, WorkerFrame DEF CallReturns, channels
  <1>4. CASE Publish(w)
    <2> DEFINE r == [turn |-> worker[w].turn, stage |-> worker[w].stage, out |-> worker[w].out]
    <2>1. r \in StageResult
      BY <1>1, JobTypes DEF StageResult
    <2>2. IdleWorker \in Job
      BY BoundsAssumption DEF IdleWorker, Job, Stage, Outcome
    <2>3. worker' \in [Worker -> Job]
      BY <1>1, <1>4, <2>2, JobTypes DEF Publish
    <2> HIDE DEF r
    <2>4. \/ /\ Len(responses) < ResultCap
             /\ responses' = Append(responses, r) /\ UNCHANGED results
          \/ /\ Len(results) < ResultCap
             /\ results' = Append(results, r) /\ UNCHANGED responses
          \/ UNCHANGED <<results, responses>>
      BY <1>4 DEF Publish, r
    <2>5. /\ results' \in Seq(StageResult) /\ Len(results') <= ResultCap
          /\ responses' \in Seq(StageResult) /\ Len(responses') <= ResultCap
      BY <1>1, <1>2, <2>1, <2>4, Enqueue
    <2> QED BY <1>1, <1>4, <2>3, <2>5, WorkerFrame DEF Publish
  <1>5. CASE w = "responder" /\ PublishDelta
    <2> DEFINE d == [turn |-> worker["responder"].turn, n |-> sent + 1]
    <2>1. sent + 1 \in 1..MaxDeltas
      BY <1>1, <1>5, BoundsAssumption DEF PublishDelta
    <2>2. d \in Delta
      BY <1>1, <1>5, <2>1, JobTypes DEF Delta
    <2>3. deltas' = Append(deltas, d) /\ Len(deltas) < DeltaCap /\ sent' = sent + 1
      BY <1>5 DEF PublishDelta
    <2> HIDE DEF d
    <2>4. deltas' \in Seq(Delta) /\ Len(deltas') <= DeltaCap
      BY <1>1, <1>2, <2>2, <2>3, Enqueue
    <2>5. sent' \in 0..MaxDeltas
      BY <2>1, <2>3, BoundsAssumption
    <2> QED BY <1>1, <1>5, <2>4, <2>5, WorkerFrame DEF PublishDelta
  <1> QED BY <1>3, <1>4, <1>5 DEF WorkerStep

\* Cancellation and interruption keep types.
LEMMA ContextType ==
    ASSUME TypeInv, ContextStep(Shutdown \/ Propagate \/ Interrupt)
    PROVE  TypeInv'
  <1>1. /\ root' \in BOOLEAN /\ wdone' \in BOOLEAN
        /\ cause' \in {"none", "ended", "interrupted", "cancelled"}
    BY Zenon DEF ContextStep, Shutdown, Propagate, PropagateToWorkers, PropagateToTurn,
                 Interrupt, TypeInv, TypeOK
  <1> QED BY <1>1 DEF ContextStep, TypeInv, TypeOK, WritesReturn, channels, gate

\* Every step of the coordinator goroutine keeps types.
LEMMA CoordinatorType ==
    ASSUME TypeInv, CoordinatorStep
    PROVE  TypeInv'
  <1>1. /\ pc \in Control /\ call \in Call /\ err \in Outcome /\ turnState \in TurnState
        /\ cause \in {"none", "ended", "interrupted", "cancelled"}
        /\ state \in LifecycleState /\ suppressed \in BOOLEAN /\ WritesReturn
        /\ results \in Seq(StageResult) /\ Len(results) <= ResultCap
        /\ responses \in Seq(StageResult) /\ Len(responses) <= ResultCap
        /\ deltas \in Seq(Delta) /\ Len(deltas) <= DeltaCap
        /\ ResultCap \in Nat /\ DeltaCap \in Nat
        /\ worker \in [Worker -> Job] /\ turn \in 0..MaxTurns
    BY CapacityAssumption DEF TypeInv, TypeOK
  <1>2. /\ {"idle", "listening", "speaking", "interrupted", "stopping"} \subseteq LifecycleState
        /\ {"cancel", "ok"} \subseteq Outcome /\ {"finish", "stop"} \subseteq Stage
    BY DEF LifecycleState, Outcome, Stage
  <1>3. CASE NextTurn
    <2>1. call' \in Call /\ call'.stage = "capture"
      BY <1>3, BoundsAssumption DEF NextTurn, FirstCall, Call, Stage
    <2>2. turnState' \in TurnState
      BY <1>3, Zenon DEF NextTurn, NewTurnState, TurnState
    <2>3. state' \in LifecycleState /\ suppressed' \in BOOLEAN
      BY <1>1, <1>2, <1>3, EmitType DEF NextTurn
    <2>4. turn' \in 0..MaxTurns
      BY <1>1, <1>3, BoundsAssumption DEF NextTurn
    <2> QED BY <1>2, <1>3, <2>1, <2>2, <2>3, <2>4
            DEF NextTurn, TypeInv, TypeOK, WritesReturn, channels, Control
  <1>4. CASE StopWorkers
    BY <1>4 DEF StopWorkers, TypeInv, TypeOK, WritesReturn, channels, gate
  <1>5. CASE Submit
    <2>1. [mode |-> "busy", turn |-> turn, stage |-> call.stage, out |-> "ok"] \in Job
      BY <1>1, CallTypes DEF Job, Outcome
    <2>2. WorkerOf(call.stage) \in Worker
      BY DEF WorkerOf, Worker
    <2>3. worker' \in [Worker -> Job]
      BY <1>1, <1>5, <2>1, <2>2, JobTypes DEF Submit
    <2>4. pc' \in Control /\ sent' \in 0..MaxDeltas
      BY <1>5, BoundsAssumption DEF Submit, Control, TypeInv, TypeOK
    <2> QED BY <1>5, <2>3, <2>4 DEF Submit, TypeInv, TypeOK, WritesReturn, channels, gate
  <1>6. CASE DirectStop
    <2>1. turnState' \in TurnState
      BY <1>1, <1>6, TurnStateTypes DEF DirectStop
    <2>2. player' \in 0..MaxTurns
      BY <1>6, BoundsAssumption DEF DirectStop, SessionAfterStop, TypeInv, TypeOK
    <2> QED BY <1>6, <2>1, <2>2
            DEF DirectStop, TypeInv, TypeOK, WritesReturn, channels, gate, Control
  <1>7. CASE RunReturns /\ UNCHANGED shared
    BY <1>1, <1>7, CoordinatorFrame DEF RunReturns, channels, gate, WritesReturn, Control
  <1>8. CASE EnterTurn /\ UNCHANGED shared
    <2>1. CASE err' = "cancel" /\ EndTurn("stopping", "stopping")
      BY <1>1, <1>2, <1>8, <2>1, EndTurnType, CoordinatorFrame
         DEF EnterTurn, channels, WritesReturn
    <2>2. CASE pc' = "submit" /\ Emit("listening") /\ UNCHANGED <<call, err, cause, turnState>>
      BY <1>1, <1>2, <1>8, <2>2, EmitType, CoordinatorFrame
         DEF EnterTurn, channels, WritesReturn, Control
    <2> QED BY <1>8, <2>1, <2>2 DEF EnterTurn
  <1>9. CASE WorkersJoined /\ UNCHANGED shared
    BY <1>1, <1>9, CoordinatorFrame DEF WorkersJoined, channels, gate, WritesReturn, Control
  <1>10. CASE CallCancelled /\ UNCHANGED shared
    BY <1>1, <1>2, <1>10, UnwindType, CoordinatorFrame
       DEF CallCancelled, channels, gate, WritesReturn
  <1>11. CASE AwaitStep /\ UNCHANGED shared
    BY <1>11, AwaitType
  <1>12. CASE FinishTurn /\ UNCHANGED shared
    <2>1. CASE /\ err' = "cancel" /\ pc' = "fail"
               /\ UNCHANGED <<call, cause, turnState, gate>>
      BY <1>1, <1>2, <1>12, <2>1, CoordinatorFrame
         DEF FinishTurn, channels, gate, WritesReturn, Control
    <2>2. CASE EndTurn("loop", "idle") /\ UNCHANGED err
      BY <1>1, <1>2, <1>12, <2>2, EndTurnType, CoordinatorFrame
         DEF FinishTurn, channels, WritesReturn
    <2> QED BY <1>12, <2>1, <2>2 DEF FinishTurn
  <1>13. CASE StreamCancelled /\ UNCHANGED shared
    BY <1>1, <1>2, <1>13, CoordinatorFrame
       DEF StreamCancelled, channels, gate, WritesReturn, Control
  <1>14. CASE TakeDelta /\ UNCHANGED shared
    <2>1. deltas' \in Seq(Delta) /\ Len(deltas') <= DeltaCap
      BY <1>1, <1>14, Dequeue DEF TakeDelta
    <2>2. CASE UNCHANGED <<pc, call, turnState, gate>>
      BY <1>1, <1>14, <2>1, <2>2, CoordinatorFrame DEF TakeDelta, gate, WritesReturn
    <2>3. ASSUME NEW n \in 0..MaxPhrases,
                 PlayPhrases(n, pc, [turnState EXCEPT !.deltaSeen = TRUE, !.taken = @ + 1])
          PROVE  TypeInv'
      <3>1. [turnState EXCEPT !.deltaSeen = TRUE, !.taken = @ + 1] \in TurnState
        BY <1>1, TurnStateTypes
      <3>2. pc \in ReturnPoint \ {"buffered"}
        BY <1>14 DEF TakeDelta, ReturnPoint
      <3> QED BY <1>1, <1>14, <2>1, <2>3, <3>1, <3>2, PlayPhrasesType, CoordinatorFrame
              DEF TakeDelta
    <2> QED BY <1>14, <2>2, <2>3 DEF TakeDelta
  <1>15. CASE TakeResponse /\ UNCHANGED shared
    <2>1. /\ responses' \in Seq(StageResult) /\ Len(responses') <= ResultCap
          /\ Head(responses) \in StageResult
      BY <1>1, <1>15, Dequeue DEF TakeResponse
    <2>2. Head(responses).out \in Outcome
      BY <2>1 DEF StageResult
    <2> QED BY <1>1, <1>15, <2>1, <2>2, CoordinatorFrame
            DEF TakeResponse, gate, WritesReturn, Control
  <1>16. CASE DeltasDrained /\ UNCHANGED shared
    BY <1>1, <1>16, CoordinatorFrame DEF DeltasDrained, channels, gate, WritesReturn, Control
  <1>17. CASE FlushSentence /\ UNCHANGED shared
    <2>1. CASE SynthesizeBufferedReply /\ UNCHANGED turnState
      BY <1>1, <1>17, <2>1, BufferedReplyType, CoordinatorFrame DEF FlushSentence, channels
    <2>2. ASSUME NEW n \in 0..1, PlayPhrases(n, "finish", turnState)
          PROVE  TypeInv'
      <3>1. n \in 0..MaxPhrases /\ "finish" \in ReturnPoint \ {"buffered"}
        BY <2>2, BoundsAssumption DEF ReturnPoint
      <3> QED BY <1>1, <1>17, <2>2, <3>1, PlayPhrasesType, CoordinatorFrame
              DEF FlushSentence, channels
    <2> QED BY <1>17, <2>1, <2>2 DEF FlushSentence
  <1>18. CASE FinishPlayback /\ UNCHANGED shared
    <2>1. CASE Execute("finish")
      BY <1>1, <1>2, <1>18, <2>1, ExecuteType, CoordinatorFrame
         DEF FinishPlayback, channels, gate
    <2>2. CASE pc' = "done" /\ UNCHANGED call
      BY <1>1, <1>18, <2>2, CoordinatorFrame
         DEF FinishPlayback, channels, gate, WritesReturn, Control
    <2> QED BY <1>18, <2>1, <2>2 DEF FinishPlayback
  <1>19. CASE Abort /\ UNCHANGED shared
    <2>1. CASE pc' = "fail" /\ UNCHANGED call
      BY <1>1, <1>19, <2>1, CoordinatorFrame DEF Abort, channels, gate, WritesReturn, Control
    <2>2. CASE pc' = "submit" /\ call' = [call EXCEPT !.stage = "stop", !.detached = TurnDone]
      <3>1. TurnDone \in BOOLEAN
        BY DEF TurnDone
      <3>2. call' \in Call
        BY <1>1, <1>2, <2>2, <3>1, CallTypes
      <3>3. call'.stage = "stop"
        BY <1>1, <2>2 DEF Call
      <3> QED BY <1>1, <1>19, <2>2, <3>2, <3>3, CoordinatorFrame
              DEF Abort, channels, gate, WritesReturn, Control
    <2> QED BY <1>19, <2>1, <2>2 DEF Abort
  <1>20. CASE Fail /\ UNCHANGED shared
    <2>1. CASE EndTurn("loop", "interrupted")
      BY <1>1, <1>2, <1>20, <2>1, EndTurnType, CoordinatorFrame DEF Fail, channels, WritesReturn
    <2>2. CASE pc' = "classify" /\ UNCHANGED <<call, cause, turnState, gate>>
      BY <1>1, <1>20, <2>2, CoordinatorFrame DEF Fail, channels, gate, WritesReturn, Control
    <2> QED BY <1>20, <2>1, <2>2 DEF Fail
  <1>21. CASE Classify /\ UNCHANGED shared
    BY <1>1, <1>2, <1>21, EndTurnType, CoordinatorFrame DEF Classify, channels, WritesReturn
  <1> QED BY <1>3, <1>4, <1>5, <1>6, <1>7, <1>8, <1>9, <1>10, <1>11, <1>12, <1>13, <1>14,
             <1>15, <1>16, <1>17, <1>18, <1>19, <1>20, <1>21 DEF CoordinatorStep

\* The strengthened type invariant is inductive.
LEMMA TypeStep == TypeInv /\ [Next]_vars => TypeInv'
  <1> SUFFICES ASSUME TypeInv, [Next]_vars PROVE TypeInv'
    OBVIOUS
  <1>1. CASE UNCHANGED vars
    BY <1>1 DEF TypeInv, TypeOK, WritesReturn, vars, channels, gate
  <1>2. CASE ContextStep(Shutdown) \/ ContextStep(Propagate) \/ ContextStep(Interrupt)
    BY <1>2, ContextType DEF ContextStep
  <1> QED BY <1>1, <1>2, CoordinatorType, WorkerType DEF Next, Terminated

\* Every reachable state of the coordinator, its five workers and its channels is
\* well typed, and the channels keep to the capacities given by newWorkerSet.
THEOREM TypeCorrect == Spec => []TypeOK
  <1>1. TypeInv => TypeOK
    BY DEF TypeInv
  <1> QED BY <1>1, TypeInit, TypeStep, PTL DEF Spec

-----------------------------------------------------------------------------
\* Whatever is at work or unread belongs to this turn or an earlier one.
NoFutureWork ==
    /\ \A w \in Worker : Pending(worker[w]) => worker[w].turn <= turn
    /\ \A i \in DOMAIN results : results[i].turn <= turn
    /\ \A i \in DOMAIN responses : responses[i].turn <= turn

\* Every stage has its worker and its channel.
WorkInPlace ==
    /\ \A w \in Worker : Pending(worker[w]) => WorkerOf(worker[w].stage) = w
    /\ \A i \in DOMAIN results : results[i].stage # "respond"
    /\ \A i \in DOMAIN responses : responses[i].stage = "respond"

\* Each call of the current turn has at most one trace: its job or its result.
OneTrace ==
    /\ \A i, j \in DOMAIN results :
          results[i].turn = turn /\ results[j].turn = turn /\ results[i].stage = results[j].stage
             => i = j
    /\ \A w \in Worker, i \in DOMAIN results :
          Pending(worker[w]) /\ worker[w].turn = turn /\ results[i].turn = turn
             => worker[w].stage # results[i].stage

\* The stages of the current turn that may have been started and not finished.
MayBeOutstanding(s) ==
    \/ pc \in {"loop", "stopping", "returned", "fail", "classify"}
    \/ pc = "abort" /\ s # "stop"
    \/ pc \in {"stream", "drain", "flush", "finish", "done"} /\ s = "respond"
    \/ pc \in {"submit", "await"} /\ call.stage = "stop" /\ s # "stop"
    \/ pc = "await" /\ s = call.stage
    \/ /\ pc \in {"submit", "await"} /\ s = "respond"
       /\ call.stage \notin {"capture", "transcribe", "respond"}

OutstandingKnown == \A s \in Stage : Outstanding(turn, s) => MayBeOutstanding(s)

\* A turn starts with its capture.
EnterCaptures == pc = "enter" => call.stage = "capture"

\* The inductive invariant behind CallsCorrelated.
CallsInv == NoFutureWork /\ WorkInPlace /\ OneTrace /\ OutstandingKnown /\ EnterCaptures

\* The entries of a channel after a receive.
LEMMA TailIndex ==
    ASSUME NEW S, NEW s \in Seq(S), s # <<>>
    PROVE  /\ 1 \in DOMAIN s /\ Head(s) = s[1]
           /\ \A i \in DOMAIN Tail(s) :
                 i \in Nat /\ i + 1 # 1 /\ i + 1 \in DOMAIN s /\ Tail(s)[i] = s[i + 1]
  BY SMT

\* The entries of a channel after a send.
LEMMA AppendIndex ==
    ASSUME NEW S, NEW s \in Seq(S), NEW x \in S
    PROVE  \A i \in DOMAIN Append(s, x) :
              \/ i \in DOMAIN s /\ Append(s, x)[i] = s[i]
              \/ i = Len(s) + 1 /\ Append(s, x)[i] = x
  BY SMT

\* Steps that hand over, finish and consume nothing.
LEMMA QuietStep ==
    ASSUME CallsInv, UNCHANGED <<turn, worker, results, responses>>,
           \A s \in Stage : MayBeOutstanding(s) => MayBeOutstanding(s)',
           EnterCaptures'
    PROVE  CallsInv'
  BY DEF CallsInv, NoFutureWork, WorkInPlace, OneTrace, OutstandingKnown, Outstanding, Pending

\* Consuming the head of a channel adds nothing.
LEMMA ShrinkResults ==
    ASSUME TypeInv, CallsInv, UNCHANGED <<turn, worker, responses>>,
           results # <<>>, results' = Tail(results)
    PROVE  /\ NoFutureWork' /\ WorkInPlace' /\ OneTrace'
           /\ \A s \in Stage : Outstanding(turn, s)' => Outstanding(turn, s)
           /\ \A s \in Stage : Head(results).turn = turn /\ Head(results).stage = s
                                  => ~Outstanding(turn, s)'
  <1>1. results \in Seq(StageResult)
    BY DEF TypeInv, TypeOK
  <1>2. /\ 1 \in DOMAIN results /\ Head(results) = results[1]
        /\ \A i \in DOMAIN results' :
              i \in Nat /\ i + 1 # 1 /\ i + 1 \in DOMAIN results /\ results'[i] = results[i + 1]
    BY <1>1, TailIndex
  <1>3. NoFutureWork' /\ WorkInPlace'
    BY <1>2 DEF CallsInv, NoFutureWork, WorkInPlace, Pending
  <1>4. OneTrace'
    <2>1. ASSUME NEW i \in DOMAIN results', NEW j \in DOMAIN results',
                 results'[i].turn = turn, results'[j].turn = turn,
                 results'[i].stage = results'[j].stage
          PROVE  i = j
      <3>1. i + 1 = j + 1
        BY <1>2, <2>1 DEF CallsInv, OneTrace
      <3> QED BY <1>2, <3>1
    <2>2. ASSUME NEW w \in Worker, NEW i \in DOMAIN results',
                 Pending(worker[w]), worker[w].turn = turn, results'[i].turn = turn
          PROVE  worker[w].stage # results'[i].stage
      BY <1>2, <2>2 DEF CallsInv, OneTrace
    <2> QED BY <2>1, <2>2 DEF OneTrace, Pending
  <1>5. \A s \in Stage : Outstanding(turn, s)' => Outstanding(turn, s)
    BY <1>2 DEF Outstanding, Pending
  <1>6. ASSUME NEW s \in Stage, results[1].turn = turn, results[1].stage = s,
               Outstanding(turn, s)'
        PROVE  FALSE
    <2>1. CASE \E w \in Worker : Pending(worker[w]) /\ worker[w].turn = turn /\ worker[w].stage = s
      BY <1>2, <1>6, <2>1 DEF CallsInv, OneTrace
    <2>2. CASE \E i \in DOMAIN results' : results'[i].turn = turn /\ results'[i].stage = s
      BY <1>2, <1>6, <2>2 DEF CallsInv, OneTrace
    <2>3. CASE \E i \in DOMAIN responses : responses[i].turn = turn /\ responses[i].stage = s
      BY <1>2, <1>6, <2>3 DEF CallsInv, WorkInPlace
    <2> QED BY <1>6, <2>1, <2>2, <2>3 DEF Outstanding, Pending
  <1> QED BY <1>2, <1>3, <1>4, <1>5, <1>6

\* The same for the responses.
LEMMA ShrinkResponses ==
    ASSUME TypeInv, CallsInv, UNCHANGED <<turn, worker, results>>,
           responses # <<>>, responses' = Tail(responses)
    PROVE  /\ NoFutureWork' /\ WorkInPlace' /\ OneTrace'
           /\ \A s \in Stage : Outstanding(turn, s)' => Outstanding(turn, s)
  <1>1. responses \in Seq(StageResult)
    BY DEF TypeInv, TypeOK
  <1>2. \A i \in DOMAIN responses' :
              i \in Nat /\ i + 1 # 1 /\ i + 1 \in DOMAIN responses /\ responses'[i] = responses[i + 1]
    BY <1>1, TailIndex
  <1>3. NoFutureWork' /\ WorkInPlace' /\ OneTrace'
    BY <1>2 DEF CallsInv, NoFutureWork, WorkInPlace, OneTrace, Pending
  <1>4. \A s \in Stage : Outstanding(turn, s)' => Outstanding(turn, s)
    BY <1>2 DEF Outstanding, Pending
  <1> QED BY <1>3, <1>4

\* Nothing is outstanding at the start.
LEMMA CallsInit == Init => CallsInv
  BY DEF Init, CallsInv, NoFutureWork, WorkInPlace, OneTrace, OutstandingKnown, Outstanding,
         Pending, IdleWorker, EnterCaptures

\* submit starts the only trace of its call.
LEMMA SubmitCalls ==
    ASSUME TypeInv, CallsInv, Submit
    PROVE  CallsInv'
  <1> DEFINE v == WorkerOf(call.stage)
  <1>1. v \in Worker /\ call.stage \in Stage /\ worker \in [Worker -> Job] /\ turn \in 0..MaxTurns
    BY CallTypes DEF WorkerOf, Worker, TypeInv, TypeOK
  <1>2. /\ pc = "submit" /\ worker[v].mode = "idle" /\ pc' \in {"stream", "await"}
        /\ pc' = "stream" => call.stage = "respond"
        /\ UNCHANGED <<call, turn, results, responses>>
    BY DEF Submit, channels
  <1>3. worker' = [worker EXCEPT ![v] =
                     [mode |-> "busy", turn |-> turn, stage |-> call.stage, out |-> "ok"]]
    BY DEF Submit
  <1>4. /\ worker'[v].turn = turn /\ worker'[v].stage = call.stage
        /\ \A w \in Worker : w # v => worker'[w] = worker[w]
    BY <1>1, <1>3
  <1>5. ~Outstanding(turn, call.stage)
    BY <1>1, <1>2 DEF CallsInv, OutstandingKnown, MayBeOutstanding
  <1> HIDE DEF v
  <1>6. NoFutureWork'
    BY <1>1, <1>2, <1>4 DEF CallsInv, NoFutureWork, Pending
  <1>7. WorkInPlace'
    BY <1>1, <1>2, <1>4 DEF CallsInv, WorkInPlace, Pending, v
  <1>8. OneTrace'
    BY <1>1, <1>2, <1>4, <1>5 DEF CallsInv, OneTrace, Outstanding, Pending
  <1>9. \A s \in Stage : Outstanding(turn, s)' => Outstanding(turn, s) \/ s = call.stage
    BY <1>1, <1>2, <1>4 DEF Outstanding, Pending
  <1>10. OutstandingKnown'
    BY <1>2, <1>9 DEF CallsInv, OutstandingKnown, MayBeOutstanding
  <1> QED BY <1>2, <1>6, <1>7, <1>8, <1>10 DEF CallsInv, EnterCaptures

\* A worker turns a job into a result: the trace moves, none is added.
LEMMA WorkerCalls ==
    ASSUME TypeInv, CallsInv, NEW w \in Worker, WorkerStep(w)
    PROVE  CallsInv'
  <1>1. UNCHANGED <<pc, call, turn>> /\ worker \in [Worker -> Job]
    BY DEF WorkerStep, TypeInv, TypeOK
  <1>2. \A s \in Stage : MayBeOutstanding(s)' <=> MayBeOutstanding(s)
    BY <1>1 DEF MayBeOutstanding
  <1>3. CASE CallReturns(w)
    <2>1. PICK o : worker' = [worker EXCEPT ![w].mode = "publish", ![w].out = o]
      BY <1>3 DEF CallReturns
    <2>2. /\ worker[w].mode = "busy" /\ UNCHANGED <<results, responses>>
          /\ worker'[w].mode = "publish"
          /\ worker'[w].turn = worker[w].turn /\ worker'[w].stage = worker[w].stage
          /\ \A u \in Worker : u # w => worker'[u] = worker[u]
      BY <1>1, <1>3, <2>1 DEF CallReturns, channels, Job
    <2>3. \A u \in Worker : /\ Pending(worker'[u]) <=> Pending(worker[u])
                            /\ worker'[u].turn = worker[u].turn
                            /\ worker'[u].stage = worker[u].stage
      BY <2>2 DEF Pending
    <2>4. NoFutureWork' /\ WorkInPlace' /\ OneTrace'
      BY <1>1, <2>2, <2>3 DEF CallsInv, NoFutureWork, WorkInPlace, OneTrace
    <2>5. OutstandingKnown'
      BY <1>1, <1>2, <2>2, <2>3 DEF CallsInv, OutstandingKnown, Outstanding
    <2> QED BY <1>1, <2>4, <2>5 DEF CallsInv, EnterCaptures
  <1>4. CASE Publish(w)
    <2> DEFINE r == [turn |-> worker[w].turn, stage |-> worker[w].stage, out |-> worker[w].out]
    <2>1. r \in StageResult /\ r.turn = worker[w].turn /\ r.stage = worker[w].stage
      BY <1>1, JobTypes DEF StageResult
    <2>2. /\ Pending(worker[w]) /\ ~Pending(worker'[w])
          /\ \A u \in Worker : u # w => worker'[u] = worker[u]
      BY <1>1, <1>4 DEF Publish, Pending, IdleWorker
    <2> HIDE DEF r
    <2>3. \/ r.stage = "respond" /\ responses' = Append(responses, r) /\ UNCHANGED results
          \/ r.stage # "respond" /\ results' = Append(results, r) /\ UNCHANGED responses
          \/ UNCHANGED <<results, responses>>
      BY <1>4 DEF Publish, r
    <2>4. results \in Seq(StageResult) /\ responses \in Seq(StageResult)
      BY DEF TypeInv, TypeOK
    <2>5. \A i \in DOMAIN results' :
             \/ i \in DOMAIN results /\ results'[i] = results[i]
             \/ i = Len(results) + 1 /\ results'[i] = r /\ r.stage # "respond"
      BY <2>1, <2>3, <2>4, AppendIndex
    <2>6. \A i \in DOMAIN responses' :
             \/ i \in DOMAIN responses /\ responses'[i] = responses[i]
             \/ i = Len(responses) + 1 /\ responses'[i] = r /\ r.stage = "respond"
      BY <2>1, <2>3, <2>4, AppendIndex
    <2>7. NoFutureWork' /\ WorkInPlace'
      BY <1>1, <2>1, <2>2, <2>5, <2>6 DEF CallsInv, NoFutureWork, WorkInPlace
    <2>8. OneTrace'
      <3>1. ASSUME NEW i \in DOMAIN results', NEW j \in DOMAIN results',
                   results'[i].turn = turn, results'[j].turn = turn,
                   results'[i].stage = results'[j].stage
            PROVE  i = j
        BY <2>1, <2>2, <2>5, <3>1 DEF CallsInv, OneTrace
      <3>2. ASSUME NEW u \in Worker, NEW i \in DOMAIN results',
                   Pending(worker'[u]), worker'[u].turn = turn, results'[i].turn = turn
            PROVE  worker'[u].stage # results'[i].stage
        <4>1. u # w /\ worker'[u] = worker[u]
          BY <2>2, <3>2
        <4>2. CASE i \in DOMAIN results /\ results'[i] = results[i]
          BY <3>2, <4>1, <4>2 DEF CallsInv, OneTrace
        <4>3. CASE results'[i] = r
          BY <2>1, <2>2, <3>2, <4>1, <4>3 DEF CallsInv, WorkInPlace
        <4> QED BY <2>5, <4>2, <4>3
      <3> QED BY <1>1, <3>1, <3>2 DEF OneTrace
    <2>9. \A s \in Stage : Outstanding(turn, s)' => Outstanding(turn, s)
      BY <1>1, <2>1, <2>2, <2>5, <2>6 DEF Outstanding
    <2>10. OutstandingKnown'
      BY <1>1, <1>2, <2>9 DEF CallsInv, OutstandingKnown
    <2> QED BY <1>1, <2>7, <2>8, <2>10 DEF CallsInv, EnterCaptures
  <1>5. CASE PublishDelta
    BY <1>1, <1>2, <1>5, QuietStep DEF PublishDelta, EnterCaptures, CallsInv
  <1> QED BY <1>3, <1>4, <1>5 DEF WorkerStep

\* Where playStreamingPhrases can leave the coordinator.
LEMMA PlayPhrasesGoes ==
    ASSUME call \in Call, NEW n, NEW r \in {"stream", "drain", "finish"}, NEW s,
           PlayPhrases(n, r, s)
    PROVE  pc' \in {"stream", "drain", "finish"} \/ (pc' = "submit" /\ call'.stage = "synthesize")
  <1>1. CASE n = 0
    BY <1>1 DEF PlayPhrases
  <1>2. CASE n # 0
    BY <1>2 DEF PlayPhrases, Call
  <1> QED BY <1>1, <1>2

\* An accepted answer removes the trace of its call, so that the next call of
\* the same stage finds none.
LEMMA AwaitCalls ==
    ASSUME TypeInv, CallsInv, AwaitStep, UNCHANGED shared
    PROVE  CallsInv'
  <1>1. /\ pc = "await" /\ Receive /\ UNCHANGED <<turn, worker>>
        /\ call \in Call /\ call.stage \in Stage
    BY CallTypes DEF AwaitStep, Receive, shared, TypeInv, TypeOK
  <1>2. /\ NoFutureWork' /\ WorkInPlace' /\ OneTrace'
        /\ \A s \in Stage : Outstanding(turn, s)' => Outstanding(turn, s)
        /\ \A s \in Stage : /\ Matches(Head(Inbox))
                            /\ s = call.stage /\ s # "respond"
                            => ~Outstanding(turn, s)'
    <2>1. CASE call.stage = "respond"
      BY <1>1, <2>1, ShrinkResponses DEF Receive, Inbox
    <2>2. CASE call.stage # "respond"
      <3>1. /\ Inbox = results /\ results # <<>> /\ results' = Tail(results)
            /\ UNCHANGED <<turn, worker, responses>>
        BY <1>1, <2>2 DEF Receive, Inbox
      <3> QED BY <3>1, ShrinkResults DEF Matches
    <2> QED BY <2>1, <2>2
  <1>3. \A s \in Stage : Outstanding(turn, s) => \/ call.stage = "stop"
                                                  \/ s = call.stage
                                                  \/ /\ s = "respond"
                                                     /\ call.stage \notin {"capture", "transcribe"}
    BY <1>1 DEF CallsInv, OutstandingKnown, MayBeOutstanding
  <1>4. ASSUME pc' \in {"fail", "loop"}
        PROVE  CallsInv'
    BY <1>2, <1>4 DEF CallsInv, OutstandingKnown, MayBeOutstanding, EnterCaptures
  <1>5. ASSUME Matches(Head(Inbox)), call.stage # "stop",
               call.stage \notin {"capture", "transcribe"},
               \/ pc' \in {"stream", "drain", "finish", "done"}
               \/ pc' = "submit" /\ call'.stage \in {"synthesize", "write", "play"}
        PROVE  CallsInv'
    <2>1. \A s \in Stage : Outstanding(turn, s)' => s = "respond"
      BY <1>2, <1>3, <1>5
    <2>2. MayBeOutstanding("respond")'
      BY <1>5 DEF MayBeOutstanding
    <2> QED BY <1>2, <1>5, <2>1, <2>2 DEF CallsInv, OutstandingKnown, EnterCaptures
  <1>6. ASSUME Matches(Head(Inbox)), call.stage \in {"capture", "transcribe"},
               pc' = "submit"
        PROVE  CallsInv'
    <2>1. \A s \in Stage : ~Outstanding(turn, s)'
      BY <1>2, <1>3, <1>6
    <2> QED BY <1>2, <1>6, <2>1 DEF CallsInv, OutstandingKnown, EnterCaptures
  <1>7. CASE DiscardResult
    BY <1>1, <1>2, <1>7
       DEF DiscardResult, CallsInv, OutstandingKnown, MayBeOutstanding, EnterCaptures
  <1>8. CASE CallFailed
    <2>1. CASE pc' = "abort" /\ call.stage \in {"synthesize", "write"} /\ UNCHANGED call
      BY <1>2, <1>3, <2>1 DEF CallsInv, OutstandingKnown, MayBeOutstanding, EnterCaptures
    <2> QED BY <1>4, <1>8, <2>1 DEF CallFailed, Unwind
  <1>9. CASE Noop
    BY <1>4, <1>9 DEF Noop, EndTurn
  <1>10. CASE AfterCapture
    BY <1>6, <1>10 DEF AfterCapture, Answer, Execute
  <1>11. CASE AfterTranscribe
    BY <1>6, <1>11 DEF AfterTranscribe, Answer, Execute
  <1>12. CASE AfterRespond
    <2>1. pc' = "submit" /\ call'.stage = "synthesize"
      BY <1>1, <1>12 DEF AfterRespond, SynthesizeBufferedReply, Call
    <2> QED BY <1>5, <1>12, <2>1 DEF AfterRespond, Answer
  <1>13. CASE AfterBufferedSynthesis
    <2>1. CASE EndTurn("loop", "idle")
      BY <1>4, <2>1 DEF EndTurn
    <2>2. CASE Answer("synthesize", {"ok"}) /\ Execute("play")
      <3>1. pc' = "submit" /\ call'.stage = "play"
        BY <1>1, <2>2 DEF Execute, Call
      <3> QED BY <1>5, <2>2, <3>1 DEF Answer
    <2> QED BY <1>13, <2>1, <2>2 DEF AfterBufferedSynthesis
  <1>14. CASE AfterPhraseSynthesis
    <2>1. Matches(Head(Inbox)) /\ call.stage = "synthesize" /\ call.ret \in {"stream", "drain", "finish"}
      BY <1>1, <1>14, CallTypes DEF AfterPhraseSynthesis, Answer, ReturnPoint
    <2>2. CASE PlayPhrases(call.left, call.ret, turnState)
      BY <1>1, <1>5, <2>1, <2>2, PlayPhrasesGoes
    <2>3. CASE Execute("write")
      <3>1. pc' = "submit" /\ call'.stage = "write"
        BY <1>1, <2>3 DEF Execute, Call
      <3> QED BY <1>5, <2>1, <3>1
    <2> QED BY <1>14, <2>2, <2>3 DEF AfterPhraseSynthesis
  <1>15. CASE AfterWrite
    <2>1. Matches(Head(Inbox)) /\ call.stage = "write" /\ call.ret \in {"stream", "drain", "finish"}
      BY <1>1, <1>15, CallTypes DEF AfterWrite, Answer, ReturnPoint, TypeInv, WritesReturn
    <2> QED BY <1>1, <1>5, <1>15, <2>1, PlayPhrasesGoes DEF AfterWrite
  <1>16. CASE AfterPlayback
    BY <1>5, <1>16 DEF AfterPlayback, Answer
  <1>17. CASE AfterStop
    BY <1>4, <1>17 DEF AfterStop, Answer, Unwind
  <1> QED BY <1>7, <1>8, <1>9, <1>10, <1>11, <1>12, <1>13, <1>14, <1>15, <1>16, <1>17
          DEF AwaitStep

\* Every step of the coordinator goroutine keeps CallsInv.
LEMMA CoordinatorCalls ==
    ASSUME TypeInv, CallsInv, CoordinatorStep
    PROVE  CallsInv'
  <1>1. call \in Call /\ turn \in 0..MaxTurns
    BY DEF TypeInv, TypeOK
  <1>2. CASE NextTurn
    <2>1. /\ turn' = turn + 1 /\ pc' = "enter" /\ call'.stage = "capture"
          /\ UNCHANGED <<worker, results, responses>>
      BY <1>2 DEF NextTurn, FirstCall, channels
    <2>2. /\ \A w \in Worker : worker[w].turn \in 0..MaxTurns
          /\ \A i \in DOMAIN results : results[i].turn \in 0..MaxTurns
          /\ \A i \in DOMAIN responses : responses[i].turn \in 0..MaxTurns
      <3>1. /\ results \in Seq(StageResult) /\ responses \in Seq(StageResult)
            /\ worker \in [Worker -> Job]
        BY DEF TypeInv, TypeOK
      <3>2. /\ \A i \in DOMAIN results : results[i] \in StageResult
            /\ \A i \in DOMAIN responses : responses[i] \in StageResult
        BY <3>1
      <3> QED BY <3>1, <3>2, JobTypes DEF StageResult
    <2>3. /\ \A w \in Worker : Pending(worker[w]) => worker[w].turn < turn'
          /\ \A i \in DOMAIN results : results[i].turn < turn'
          /\ \A i \in DOMAIN responses : responses[i].turn < turn'
      BY <1>1, <2>1, <2>2, BoundsAssumption DEF CallsInv, NoFutureWork
    <2>4. NoFutureWork' /\ WorkInPlace' /\ OneTrace'
      BY <1>1, <2>1, <2>2, <2>3, BoundsAssumption
         DEF CallsInv, NoFutureWork, WorkInPlace, OneTrace, Pending
    <2>5. OutstandingKnown'
      BY <1>1, <2>1, <2>2, <2>3, BoundsAssumption DEF OutstandingKnown, Outstanding, Pending
    <2> QED BY <2>1, <2>4, <2>5 DEF CallsInv, EnterCaptures
  <1>3. CASE StopWorkers
    BY <1>3, QuietStep DEF StopWorkers, channels, MayBeOutstanding, EnterCaptures, CallsInv
  <1>4. CASE Submit
    BY <1>4, SubmitCalls
  <1>5. CASE DirectStop
    BY <1>5, QuietStep DEF DirectStop, channels, MayBeOutstanding, EnterCaptures
  <1>6. CASE (RunReturns \/ WorkersJoined) /\ UNCHANGED shared
    BY <1>6, QuietStep
       DEF RunReturns, WorkersJoined, shared, channels, MayBeOutstanding, EnterCaptures
  <1>7. CASE EnterTurn /\ UNCHANGED shared
    BY <1>7, QuietStep DEF EnterTurn, EndTurn, shared, channels, MayBeOutstanding, EnterCaptures,
                           CallsInv
  <1>8. CASE CallCancelled /\ UNCHANGED shared
    BY <1>8, QuietStep
       DEF CallCancelled, Unwind, shared, channels, MayBeOutstanding, EnterCaptures
  <1>9. CASE AwaitStep /\ UNCHANGED shared
    BY <1>9, AwaitCalls
  <1>10. CASE (FinishTurn \/ StreamCancelled \/ DeltasDrained \/ Fail \/ Classify)
              /\ UNCHANGED shared
    BY <1>10, QuietStep
       DEF FinishTurn, StreamCancelled, DeltasDrained, Fail, Classify, EndTurn, shared,
           channels, MayBeOutstanding, EnterCaptures
  <1>11. CASE TakeDelta /\ UNCHANGED shared
    <2>1. pc \in {"stream", "drain"} /\ UNCHANGED <<turn, worker, results, responses>>
      BY <1>11 DEF TakeDelta, shared
    <2>2. CASE UNCHANGED <<pc, call>>
      BY <2>1, <2>2, QuietStep DEF MayBeOutstanding, EnterCaptures
    <2>3. ASSUME NEW n, NEW s, PlayPhrases(n, pc, s)
          PROVE  CallsInv'
      <3>1. pc' \in {"stream", "drain", "finish"} \/ (pc' = "submit" /\ call'.stage = "synthesize")
        BY <1>1, <2>1, <2>3, PlayPhrasesGoes
      <3> QED BY <2>1, <3>1, QuietStep DEF MayBeOutstanding, EnterCaptures
    <2> QED BY <1>11, <2>2, <2>3 DEF TakeDelta
  <1>12. CASE TakeResponse /\ UNCHANGED shared
    <2>1. /\ pc = "stream" /\ pc' \in {"stream", "abort", "drain"} /\ responses # <<>>
          /\ responses' = Tail(responses) /\ UNCHANGED <<call, turn, worker, results>>
      BY <1>12 DEF TakeResponse, shared
    <2>2. /\ NoFutureWork' /\ WorkInPlace' /\ OneTrace'
          /\ \A s \in Stage : Outstanding(turn, s)' => Outstanding(turn, s)
      BY <2>1, ShrinkResponses
    <2> QED BY <2>1, <2>2 DEF CallsInv, OutstandingKnown, MayBeOutstanding, EnterCaptures
  <1>13. CASE FlushSentence /\ UNCHANGED shared
    <2>1. pc = "flush" /\ UNCHANGED <<turn, worker, results, responses>>
      BY <1>13 DEF FlushSentence, shared, channels
    <2>2. CASE SynthesizeBufferedReply
      <3>1. pc' = "submit" /\ call'.stage = "synthesize"
        BY <1>1, <2>2 DEF SynthesizeBufferedReply, Call
      <3> QED BY <2>1, <3>1, QuietStep DEF MayBeOutstanding, EnterCaptures
    <2>3. ASSUME NEW n, PlayPhrases(n, "finish", turnState)
          PROVE  CallsInv'
      <3>1. pc' \in {"stream", "drain", "finish"} \/ (pc' = "submit" /\ call'.stage = "synthesize")
        BY <1>1, <2>3, PlayPhrasesGoes
      <3> QED BY <2>1, <3>1, QuietStep DEF MayBeOutstanding, EnterCaptures
    <2> QED BY <1>13, <2>2, <2>3 DEF FlushSentence
  <1>14. CASE FinishPlayback /\ UNCHANGED shared
    <2>1. pc = "finish" /\ UNCHANGED <<turn, worker, results, responses>>
      BY <1>14 DEF FinishPlayback, shared, channels
    <2>2. pc' = "done" \/ (pc' = "submit" /\ call'.stage = "finish")
      BY <1>1, <1>14 DEF FinishPlayback, Execute, Call
    <2> QED BY <2>1, <2>2, QuietStep DEF MayBeOutstanding, EnterCaptures
  <1>15. CASE Abort /\ UNCHANGED shared
    <2>1. pc = "abort" /\ UNCHANGED <<turn, worker, results, responses>>
      BY <1>15 DEF Abort, shared, channels
    <2>2. pc' = "fail" \/ (pc' = "submit" /\ call'.stage = "stop")
      BY <1>1, <1>15 DEF Abort, Call
    <2> QED BY <2>1, <2>2, QuietStep DEF MayBeOutstanding, EnterCaptures
  <1> QED BY <1>2, <1>3, <1>4, <1>5, <1>6, <1>7, <1>8, <1>9, <1>10, <1>11, <1>12, <1>13, <1>14,
             <1>15 DEF CoordinatorStep

\* CallsInv is inductive relative to the type invariant.
LEMMA CallsStep == TypeInv /\ CallsInv /\ [Next]_vars => CallsInv'
  <1> SUFFICES ASSUME TypeInv, CallsInv, [Next]_vars PROVE CallsInv'
    OBVIOUS
  <1>1. CASE UNCHANGED vars
    BY <1>1, QuietStep DEF vars, channels, MayBeOutstanding, EnterCaptures, CallsInv
  <1>2. CASE ContextStep(Shutdown) \/ ContextStep(Propagate) \/ ContextStep(Interrupt)
    BY <1>2, QuietStep DEF ContextStep, channels, MayBeOutstanding, EnterCaptures, CallsInv
  <1> QED BY <1>1, <1>2, CoordinatorCalls, WorkerCalls DEF Next, Terminated

\* When submit hands a job to a worker, no job, stage result or response of the
\* same turn and stage exists: matching TurnID and stage in await is enough to
\* pair every answer with its call.
THEOREM CallsAreCorrelated == Spec => []CallsCorrelated
  <1>1. TypeInv /\ CallsInv => CallsCorrelated
    <2> SUFFICES ASSUME TypeInv, CallsInv, pc = "submit", Outstanding(turn, call.stage)
                 PROVE  FALSE
      BY DEF CallsCorrelated
    <2>1. call.stage \in Stage
      BY CallTypes DEF TypeInv, TypeOK
    <2> QED BY <2>1 DEF CallsInv, OutstandingKnown, MayBeOutstanding
  <1> QED BY <1>1, TypeInit, TypeStep, CallsInit, CallsStep, PTL DEF Spec

-----------------------------------------------------------------------------

\* The coordinator is about to listen, or listens.
Listening == pc = "enter" \/ (pc \in {"submit", "await"} /\ call.stage = "capture")

HearingInv == Listening => ~suppressed

\* After an answer the coordinator is elsewhere, or still waits for its answer.
LEMMA AwaitLeavesCapture ==
    ASSUME TypeInv, AwaitStep
    PROVE  UNCHANGED <<pc, call, gate>> \/ ~Listening'
  <1>1. call \in Call /\ call.ret \in ReturnPoint /\ WritesReturn
    BY CallTypes DEF TypeInv, TypeOK
  <1>2. CASE DiscardResult
    BY <1>2 DEF DiscardResult
  <1>3. CASE CallFailed \/ Noop \/ AfterPlayback \/ AfterStop
    BY <1>3 DEF CallFailed, Noop, AfterPlayback, AfterStop, Unwind, EndTurn, Listening
  <1>4. CASE AfterCapture \/ AfterTranscribe \/ AfterRespond \/ AfterBufferedSynthesis
    <2>1. pc' = "loop" \/ (pc' = "submit" /\ call'.stage # "capture")
      BY <1>1, <1>4 DEF AfterCapture, AfterTranscribe, AfterRespond, AfterBufferedSynthesis,
                        Execute, SynthesizeBufferedReply, EndTurn, Call
    <2> QED BY <2>1 DEF Listening
  <1>5. CASE AfterPhraseSynthesis
    <2>1. call.ret \in {"stream", "drain", "finish"}
      BY <1>1, <1>5 DEF AfterPhraseSynthesis, ReturnPoint
    <2>2. CASE PlayPhrases(call.left, call.ret, turnState)
      BY <1>1, <2>1, <2>2, PlayPhrasesGoes DEF Listening
    <2>3. CASE Execute("write")
      BY <1>1, <2>3 DEF Execute, Call, Listening
    <2> QED BY <1>5, <2>2, <2>3 DEF AfterPhraseSynthesis
  <1>6. CASE AfterWrite
    <2>1. call.ret \in {"stream", "drain", "finish"}
      BY <1>1, <1>6 DEF AfterWrite, Answer, ReturnPoint, WritesReturn
    <2> QED BY <1>1, <1>6, <2>1, PlayPhrasesGoes DEF AfterWrite, Listening
  <1> QED BY <1>2, <1>3, <1>4, <1>5, <1>6 DEF AwaitStep

\* HearingInv is inductive relative to the type invariant.
LEMMA HearingStep == TypeInv /\ HearingInv /\ [Next]_vars => HearingInv'
  <1> SUFFICES ASSUME TypeInv, HearingInv, [Next]_vars PROVE HearingInv'
    OBVIOUS
  <1>1. call \in Call
    BY DEF TypeInv, TypeOK
  <1>2. ASSUME UNCHANGED <<pc, call, gate>> \/ ~Listening'
        PROVE  HearingInv'
    BY <1>2 DEF HearingInv, Listening, gate
  <1>3. CASE UNCHANGED vars
    BY <1>2, <1>3 DEF vars, gate
  <1>4. CASE \/ \E w \in Worker : WorkerStep(w)
             \/ ContextStep(Shutdown) \/ ContextStep(Propagate) \/ ContextStep(Interrupt)
    BY <1>2, <1>4 DEF WorkerStep, ContextStep
  <1>5. CASE NextTurn
    BY <1>5 DEF NextTurn, Emit, HearingInv
  <1>6. CASE EnterTurn
    BY <1>6 DEF EnterTurn, EndTurn, Emit, HearingInv, Listening
  <1>7. CASE Submit
    BY <1>7 DEF Submit, HearingInv, Listening, gate
  <1>8. CASE AwaitStep
    BY <1>2, <1>8, AwaitLeavesCapture
  <1>9. CASE StopWorkers \/ DirectStop \/ RunReturns \/ WorkersJoined \/ CallCancelled
             \/ FinishTurn \/ StreamCancelled \/ TakeResponse \/ DeltasDrained \/ Fail \/ Classify
    BY <1>2, <1>9 DEF StopWorkers, DirectStop, RunReturns, WorkersJoined, CallCancelled,
                      FinishTurn, StreamCancelled, TakeResponse, DeltasDrained, Fail, Classify,
                      Unwind, EndTurn, Listening
  <1>10. CASE TakeDelta
    <2>1. CASE UNCHANGED <<pc, call, turnState, gate>>
      BY <1>2, <2>1
    <2>2. ASSUME NEW n, NEW s, pc \in {"stream", "drain"}, PlayPhrases(n, pc, s)
          PROVE  ~Listening'
      BY <1>1, <2>2, PlayPhrasesGoes DEF Listening
    <2> QED BY <1>2, <1>10, <2>1, <2>2 DEF TakeDelta
  <1>11. CASE FlushSentence
    <2>1. CASE SynthesizeBufferedReply
      BY <1>1, <1>2, <2>1 DEF SynthesizeBufferedReply, Call, Listening
    <2>2. ASSUME NEW n, PlayPhrases(n, "finish", turnState)
          PROVE  ~Listening'
      BY <1>1, <2>2, PlayPhrasesGoes DEF Listening
    <2> QED BY <1>2, <1>11, <2>1, <2>2 DEF FlushSentence
  <1>12. CASE FinishPlayback \/ Abort
    <2>1. pc' \in {"done", "fail"} \/ (pc' = "submit" /\ call'.stage \in {"finish", "stop"})
      <3>1. CASE FinishPlayback
        BY <1>1, <3>1 DEF FinishPlayback, Execute, Call
      <3>2. CASE Abort
        BY <1>1, <3>2 DEF Abort, Call
      <3> QED BY <1>12, <3>1, <3>2
    <2> QED BY <1>2, <2>1 DEF Listening
  <1> QED BY <1>3, <1>4, <1>5, <1>6, <1>7, <1>8, <1>9, <1>10, <1>11, <1>12
          DEF Next, CoordinatorStep, Terminated

\* captureGateObserver has reopened the microphone whenever the coordinator
\* waits for an utterance, however the previous turn ended.
THEOREM ListeningIsNotDeaf == Spec => []ListeningNotDeaf
  <1>1. Init => HearingInv
    BY DEF Init, HearingInv, Listening
  <1>2. HearingInv => ListeningNotDeaf
    BY DEF HearingInv, Listening, ListeningNotDeaf
  <1> QED BY <1>1, <1>2, TypeInit, TypeStep, HearingStep, PTL DEF Spec

-----------------------------------------------------------------------------
(* The states that the observer sees, and why Run returns.                 *)

InTurn == pc \notin {"loop", "stopping", "returned"}

Calling(s) == pc \in {"submit", "await"} /\ call.stage = s

\* The coordinator speaks a phrase of a streaming reply, or is between two.
InPhrase == Calling("synthesize") /\ call.ret # "buffered"
Between == pc \in {"stream", "drain", "flush"}

\* Nothing of the reply has been handed to the player.
BeforeAudio ==
    \/ pc = "enter"
    \/ \E s \in {"capture", "transcribe", "respond", "play"} : Calling(s)
    \/ Calling("synthesize") /\ call.ret = "buffered"

\* What the flags of streamingTurnState say, at each point of the turn.
FlagsKnown ==
    /\ turnState.synth => turnState.deltaSeen
    /\ BeforeAudio => ~turnState.speaking
    /\ pc = "enter" \/ (\E s \in {"capture", "transcribe", "respond"} : Calling(s)) => ~turnState.synth
    /\ Calling("write") => turnState.speaking /\ turnState.synth
    /\ Calling("stop") => turnState.speaking
    /\ InPhrase => turnState.synth
    /\ (InPhrase \/ Between) /\ turnState.speaking => turnState.synth
    /\ (InPhrase \/ Between \/ pc = "finish") /\ turnState.speaking => turnState.wrote
    /\ pc = "done" /\ call.stage # "finish" => ~turnState.speaking

\* Which lifecycle state the observer has seen last, at each point of the turn.
StateKnown ==
    /\ InTurn => state \notin {"interrupted", "stopping"}
    /\ pc = "enter" => state = "idle"
    /\ Calling("capture") => state = "listening"
    /\ Calling("transcribe") => state = "transcribing"
    /\ Calling("respond") => state = "thinking"
    /\ Calling("synthesize") /\ call.ret = "buffered" => state = "synthesizing"
    /\ Between /\ ~turnState.synth => state = "thinking"
    /\ (InPhrase \/ Between) /\ turnState.synth /\ ~turnState.speaking => state = "synthesizing"
    /\ InTurn /\ turnState.speaking => suppressed
    /\ turn = 0 => ~InTurn /\ state # "interrupted"

StageInv == FlagsKnown /\ StateKnown

\* No call of this turn comes back cancelled while the turn lives.
CancelsKnown ==
    /\ \A w \in Worker : worker[w].mode = "publish" /\ worker[w].out = "cancel" /\ worker[w].turn = turn
                            => cause # "none"
    /\ \A i \in DOMAIN results : results[i].out = "cancel" /\ results[i].turn = turn => cause # "none"
    /\ \A i \in DOMAIN responses : responses[i].out = "cancel" /\ responses[i].turn = turn => cause # "none"

\* The contexts end for a reason, and so does a cancellation the coordinator handles.
ContextsKnown ==
    /\ InTurn => cause # "ended"
    /\ cause = "cancelled" => root
    /\ wdone => root \/ pc \in {"stopping", "returned"}
    /\ InTurn /\ err = "cancel" => root \/ cause # "none"

ReasonInv == ServiceEndsForAReason /\ ContextsKnown /\ CancelsKnown

-----------------------------------------------------------------------------
(* The audio of a turn.                                                    *)

\* A Write of this turn is in progress.
Writing ==
    worker["player"].mode = "busy" /\ worker["player"].turn = turn /\ worker["player"].stage = "write"

\* The session does not hold audio of this turn, and no Write is about to change that.
Silent == (player = turn => turn = 0) /\ ~Writing

\* An operation of this turn that ends the session has returned.
Ended(s) ==
    \/ worker["player"].mode = "publish" /\ worker["player"].turn = turn /\ worker["player"].stage = s
    \/ \E i \in DOMAIN results : results[i].turn = turn /\ results[i].stage = s

\* Stop has not been tried.
BeforeStop == InTurn /\ pc \notin {"fail", "classify"} /\ ~Calling("stop")

\* What the player has done to the session.
SessionKnown ==
    /\ player <= turn
    /\ \A s \in {"play", "finish", "stop"} : Ended(s) => Silent
    /\ /\ worker["player"].mode = "busy" /\ worker["player"].turn = turn
       /\ worker["player"].stage = "play"
       => player # turn

\* Where the coordinator may rely on silence.
SilenceKnown ==
    /\ BeforeStop /\ ~turnState.speaking => Silent
    /\ ~root /\ cause # "interrupted" /\ (~InTurn \/ pc \in {"done", "fail", "classify"}) => Silent
    /\ /\ ~root /\ (~InTurn \/ pc \in {"fail", "classify"})
       /\ call.stage # "finish" /\ (call.stage = "stop" => call.detached)
       => Silent

AudioInv == SessionKnown /\ SilenceKnown

-----------------------------------------------------------------------------
(* The deltas of a reply.                                                  *)

\* The deltas of turn t in the channel d are the ones after k up to m, in order.
Unread(d, t, k, m) ==
    /\ \A p \in DOMAIN d : d[p].turn = t => d[p].n \in (k + 1)..m
    /\ \A n \in (k + 1)..m : \E p \in DOMAIN d : d[p].turn = t /\ d[p].n = n
    /\ \A p, q \in DOMAIN d : p < q /\ d[p].turn = t /\ d[q].turn = t => d[p].n < d[q].n

\* Where completeStreamingResponse is, also while it speaks a phrase.
At(r) == pc = r \/ (call.ret = r /\ (Calling("synthesize") \/ Calling("write")))

Streams == At("stream") \/ At("drain")
Ends == pc = "flush" \/ At("finish")

\* The response has not been asked for.
BeforeResponse == pc = "enter" \/ Calling("capture") \/ Calling("transcribe") \/ (pc = "submit" /\ call.stage = "respond")

Answering == worker["responder"].mode = "busy"

DeltaInv ==
    /\ \A p \in DOMAIN deltas : deltas[p].turn <= turn
    /\ BeforeResponse => turnState.taken = 0 /\ \A p \in DOMAIN deltas : deltas[p].turn # turn
    /\ Calling("respond") /\ pc = "await" => ~streaming
    /\ Streams => turnState.taken <= sent /\ Unread(deltas, turn, turnState.taken, sent)
    /\ Ends => turnState.taken = sent
    /\ (Streams \/ Ends) /\ Answering => worker["responder"].turn = turn
    /\ Ends \/ At("drain") => ~Answering
    /\ \A i \in DOMAIN responses : responses[i].turn = turn => ~Answering

-----------------------------------------------------------------------------
(* Records.                                                                *)

LEMMA CallSet ==
    ASSUME NEW c \in Call
    PROVE  /\ \A s \in Stage : [c EXCEPT !.stage = s].stage = s /\ [c EXCEPT !.stage = s].ret = c.ret
           /\ \A s \in Stage, b \in BOOLEAN : /\ [c EXCEPT !.stage = s, !.detached = b].stage = s
                                              /\ [c EXCEPT !.stage = s, !.detached = b].detached = b
           /\ \A r, n : /\ [c EXCEPT !.ret = r, !.left = n].ret = r
                        /\ [c EXCEPT !.ret = r, !.left = n].stage = c.stage
           /\ \A s, r, n : /\ [c EXCEPT !.stage = s, !.ret = r, !.left = n].ret = r
                           /\ [c EXCEPT !.stage = s, !.ret = r, !.left = n].stage = s
  BY Zenon DEF Call

\* The flags of a streaming state.
LEMMA Flags ==
    ASSUME NEW s \in TurnState
    PROVE  /\ s.taken \in Nat /\ s.deltaSeen \in BOOLEAN /\ s.synth \in BOOLEAN
           /\ s.speaking \in BOOLEAN /\ s.wrote \in BOOLEAN
  BY DEF TurnState

LEMMA SetSynth ==
    ASSUME NEW s \in TurnState
    PROVE  LET u == [s EXCEPT !.synth = TRUE] IN
           /\ u.synth /\ u.taken = s.taken /\ u.deltaSeen = s.deltaSeen
           /\ u.speaking = s.speaking /\ u.wrote = s.wrote
  BY Zenon DEF TurnState

LEMMA SetSpeaking ==
    ASSUME NEW s \in TurnState
    PROVE  LET u == [s EXCEPT !.speaking = TRUE] IN
           /\ u.speaking /\ u.taken = s.taken /\ u.deltaSeen = s.deltaSeen
           /\ u.synth = s.synth /\ u.wrote = s.wrote
  BY Zenon DEF TurnState

LEMMA SetWrote ==
    ASSUME NEW s \in TurnState
    PROVE  LET u == [s EXCEPT !.wrote = TRUE] IN
           /\ u.wrote /\ u.taken = s.taken /\ u.deltaSeen = s.deltaSeen
           /\ u.synth = s.synth /\ u.speaking = s.speaking
  BY Zenon DEF TurnState

LEMMA SetTaken ==
    ASSUME NEW s \in TurnState
    PROVE  LET u == [s EXCEPT !.deltaSeen = TRUE, !.taken = @ + 1] IN
           /\ u.deltaSeen /\ u.taken = s.taken + 1
           /\ u.synth = s.synth /\ u.speaking = s.speaking /\ u.wrote = s.wrote
  BY Zenon DEF TurnState

LEMMA SetStopped ==
    ASSUME NEW s \in TurnState
    PROVE  LET u == [s EXCEPT !.speaking = FALSE, !.wrote = FALSE] IN
           /\ ~u.speaking /\ ~u.wrote /\ u.taken = s.taken /\ u.deltaSeen = s.deltaSeen
           /\ u.synth = s.synth
  BY Zenon DEF TurnState

\* What playStreamingPhrases does.
LEMMA PhrasesGoOn ==
    ASSUME call \in Call, NEW s \in TurnState, NEW n, NEW r, PlayPhrases(n, r, s)
    PROVE  \/ /\ pc' = r /\ call'.ret = r /\ call'.stage = call.stage
              /\ turnState' = s /\ UNCHANGED <<state, suppressed>>
           \/ /\ pc' = "submit" /\ call'.ret = r /\ call'.stage = "synthesize"
              /\ turnState'.synth /\ turnState'.taken = s.taken /\ turnState'.deltaSeen = s.deltaSeen
              /\ turnState'.speaking = s.speaking /\ turnState'.wrote = s.wrote
              /\ IF s.synth THEN UNCHANGED <<state, suppressed>> ELSE Emit("synthesizing")
  <1>1. CASE n = 0
    <2>1. call' = [call EXCEPT !.ret = r, !.left = 0] /\ pc' = r /\ turnState' = s
          /\ UNCHANGED <<state, suppressed>>
      BY <1>1 DEF PlayPhrases, gate
    <2> QED BY <2>1, CallSet
  <1>2. CASE n # 0
    <2>1. /\ call' = [call EXCEPT !.stage = "synthesize", !.ret = r, !.left = n - 1]
          /\ pc' = "submit" /\ turnState' = [s EXCEPT !.synth = TRUE]
          /\ IF s.synth THEN UNCHANGED <<state, suppressed>> ELSE Emit("synthesizing")
      BY <1>2 DEF PlayPhrases, gate
    <2>2. call'.ret = r /\ call'.stage = "synthesize"
      BY <2>1, CallSet
    <2>3. /\ turnState'.synth /\ turnState'.taken = s.taken /\ turnState'.deltaSeen = s.deltaSeen
          /\ turnState'.speaking = s.speaking /\ turnState'.wrote = s.wrote
      BY <2>1, SetSynth
    <2> QED BY <2>1, <2>2, <2>3
  <1> QED BY <1>1, <1>2

-----------------------------------------------------------------------------
(* The lifecycle states of a turn.                                         *)

\* Steps that move neither the coordinator nor its observer.
LEMMA StageFrame ==
    ASSUME StageInv, UNCHANGED <<pc, call, turn, turnState, state, suppressed>>
    PROVE  StageInv'
  BY DEF StageInv, FlagsKnown, StateKnown, InTurn, Calling, InPhrase, Between, BeforeAudio

\* An answer leads to the state of the next stage.
LEMMA AwaitStage ==
    ASSUME TypeInv, StageInv, AwaitStep, UNCHANGED shared
    PROVE  StageInv'
  <1>1. /\ pc = "await" /\ turn' = turn /\ call \in Call /\ turnState \in TurnState
        /\ call.ret \in ReturnPoint /\ (call.stage = "write" => call.ret # "buffered")
    BY CallTypes DEF AwaitStep, Receive, shared, TypeInv, TypeOK, WritesReturn
  <1>2. /\ {"transcribe", "respond", "synthesize", "play", "write"} \subseteq Stage
    BY DEF Stage
  <1> USE DEF StageInv, FlagsKnown, StateKnown, InTurn, Calling, InPhrase, Between, BeforeAudio
  <1>3. CASE DiscardResult
    BY <1>1, <1>3, StageFrame DEF DiscardResult, gate
  <1>4. CASE CallFailed
    BY <1>1, <1>4, SetStopped DEF CallFailed, Unwind, gate
  <1>5. CASE Noop
    BY <1>1, <1>5 DEF Noop, EndTurn, Emit
  <1>6. CASE AfterCapture
    <2>1. call'.stage = "transcribe" /\ pc' = "submit"
      BY <1>1, <1>2, <1>6, CallSet DEF AfterCapture, Execute
    <2> QED BY <1>1, <1>6, <2>1 DEF AfterCapture, Answer, Emit
  <1>7. CASE AfterTranscribe
    <2>1. call'.stage = "respond" /\ pc' = "submit"
      BY <1>1, <1>2, <1>7, CallSet DEF AfterTranscribe, Execute
    <2> QED BY <1>1, <1>7, <2>1 DEF AfterTranscribe, Answer, Emit
  <1>8. CASE AfterRespond
    <2>1. call'.stage = "synthesize" /\ call'.ret = "buffered" /\ pc' = "submit"
      BY <1>1, <1>8, CallSet DEF AfterRespond, SynthesizeBufferedReply
    <2> QED BY <1>1, <1>8, <2>1 DEF AfterRespond, Answer, Emit, SynthesizeBufferedReply
  <1>9. CASE AfterBufferedSynthesis
    <2>1. CASE EndTurn("loop", "idle")
      BY <1>1, <2>1 DEF EndTurn, Emit
    <2>2. CASE /\ call.ret = "buffered" /\ Answer("synthesize", {"ok"})
               /\ Emit("speaking") /\ Execute("play") /\ UNCHANGED turnState
      <3>1. call'.stage = "play" /\ pc' = "submit"
        BY <1>1, <1>2, <2>2, CallSet DEF Execute
      <3> QED BY <1>1, <2>2, <3>1 DEF Answer, Emit
    <2> QED BY <1>9, <2>1, <2>2 DEF AfterBufferedSynthesis
  <1>10. CASE AfterPhraseSynthesis
    <2>1. InPhrase /\ call.ret \in {"stream", "drain", "finish"} /\ call.stage = "synthesize"
      BY <1>1, <1>10 DEF AfterPhraseSynthesis, Answer, ReturnPoint
    <2>2. CASE PlayPhrases(call.left, call.ret, turnState)
      BY <1>1, <2>1, <2>2, PhrasesGoOn, Flags DEF Emit
    <2>3. CASE /\ turnState' = [turnState EXCEPT !.speaking = TRUE]
               /\ IF turnState.speaking THEN UNCHANGED gate ELSE Emit("speaking")
               /\ Execute("write")
      <3>1. call'.stage = "write" /\ call'.ret = call.ret /\ pc' = "submit"
        BY <1>1, <1>2, <2>3, CallSet DEF Execute
      <3>2. /\ turnState'.speaking /\ turnState'.deltaSeen = turnState.deltaSeen
            /\ turnState'.synth = turnState.synth /\ turnState'.wrote = turnState.wrote
        BY <1>1, <2>3, SetSpeaking
      <3> QED BY <1>1, <2>1, <2>3, <3>1, <3>2 DEF Emit, gate
    <2> QED BY <1>10, <2>2, <2>3 DEF AfterPhraseSynthesis
  <1>11. CASE AfterWrite
    <2>1. call.ret \in {"stream", "drain", "finish"} /\ Calling("write")
      BY <1>1, <1>11 DEF AfterWrite, Answer, ReturnPoint
    <2> DEFINE s == [turnState EXCEPT !.wrote = TRUE]
    <2>2. /\ s \in TurnState /\ s.wrote /\ s.taken = turnState.taken
          /\ s.deltaSeen = turnState.deltaSeen
          /\ s.synth = turnState.synth /\ s.speaking = turnState.speaking
      BY <1>1, SetWrote, TurnStateTypes
    <2>3. PlayPhrases(call.left, call.ret, s)
      BY <1>11 DEF AfterWrite
    <2> HIDE DEF s
    <2> QED BY <1>1, <2>1, <2>2, <2>3, PhrasesGoOn, Flags DEF Emit
  <1>12. CASE AfterPlayback
    BY <1>1, <1>12 DEF AfterPlayback, Answer, gate
  <1>13. CASE AfterStop
    BY <1>1, <1>13, SetStopped DEF AfterStop, Answer, Unwind, gate
  <1> QED BY <1>3, <1>4, <1>5, <1>6, <1>7, <1>8, <1>9, <1>10, <1>11, <1>12, <1>13 DEF AwaitStep

\* So do the other steps of the coordinator.
LEMMA CoordinatorStage ==
    ASSUME TypeInv, StageInv, CallsInv, CoordinatorStep
    PROVE  StageInv'
  <1>1. /\ call \in Call /\ turnState \in TurnState /\ turn \in 0..MaxTurns /\ pc \in Control
        /\ call.ret \in ReturnPoint /\ call.stage \in Stage
        /\ state \in LifecycleState
    BY CallTypes DEF TypeInv, TypeOK
  <1>2. {"finish", "stop"} \subseteq Stage
    BY DEF Stage
  <1> USE DEF StageInv, FlagsKnown, StateKnown, InTurn, Calling, InPhrase, Between, BeforeAudio
  <1>3. CASE NextTurn
    <2>1. /\ pc' = "enter" /\ turnState' = NewTurnState /\ turn' = turn + 1
          /\ state' = "idle" /\ suppressed' = FALSE
      BY <1>3 DEF NextTurn, Emit
    <2>2. ~turnState'.synth /\ ~turnState'.speaking
      BY <2>1 DEF NewTurnState
    <2>3. turn' # 0
      BY <1>1, <2>1, BoundsAssumption
    <2> QED BY <2>1, <2>2, <2>3
  <1>4. CASE StopWorkers
    BY <1>4, StageFrame DEF StopWorkers, gate
  <1>5. CASE Submit
    BY <1>1, <1>5 DEF Submit, gate
  <1>6. CASE DirectStop
    BY <1>1, <1>6, SetStopped DEF DirectStop, gate
  <1>7. CASE (RunReturns \/ WorkersJoined) /\ UNCHANGED shared
    BY <1>7 DEF RunReturns, WorkersJoined, shared, gate
  <1>8. CASE EnterTurn /\ UNCHANGED shared
    <2>1. call.stage = "capture"
      BY <1>8 DEF EnterTurn, CallsInv, EnterCaptures
    <2> QED BY <1>8, <2>1 DEF EnterTurn, EndTurn, Emit, shared
  <1>9. CASE CallCancelled /\ UNCHANGED shared
    BY <1>1, <1>9, SetStopped DEF CallCancelled, Unwind, shared, gate
  <1>10. CASE AwaitStep /\ UNCHANGED shared
    BY <1>10, AwaitStage
  <1>11. CASE (FinishTurn \/ StreamCancelled \/ DeltasDrained \/ Fail \/ Classify) /\ UNCHANGED shared
    BY <1>11 DEF FinishTurn, StreamCancelled, DeltasDrained, Fail, Classify, EndTurn, Emit, shared,
                 gate
  <1>12. CASE TakeDelta /\ UNCHANGED shared
    <2>1. pc \in {"stream", "drain"} /\ turn' = turn
      BY <1>12 DEF TakeDelta, shared
    <2>2. CASE UNCHANGED <<pc, call, turnState, gate>>
      BY <2>1, <2>2, StageFrame DEF gate
    <2> DEFINE s == [turnState EXCEPT !.deltaSeen = TRUE, !.taken = @ + 1]
    <2>3. /\ s \in TurnState /\ s.deltaSeen
          /\ s.synth = turnState.synth /\ s.speaking = turnState.speaking
          /\ s.wrote = turnState.wrote
      BY <1>1, SetTaken, TurnStateTypes
    <2> HIDE DEF s
    <2>4. ASSUME NEW n, PlayPhrases(n, pc, s)
          PROVE  StageInv'
      BY <1>1, <2>1, <2>3, <2>4, PhrasesGoOn, Flags DEF Emit
    <2> QED BY <1>12, <2>2, <2>4 DEF TakeDelta, s
  <1>13. CASE TakeResponse /\ UNCHANGED shared
    BY <1>13 DEF TakeResponse, shared, gate
  <1>14. CASE FlushSentence /\ UNCHANGED shared
    <2>1. pc = "flush" /\ turn' = turn
      BY <1>14 DEF FlushSentence, shared
    <2>2. CASE ~turnState.deltaSeen /\ SynthesizeBufferedReply /\ UNCHANGED turnState
      <3>1. call'.stage = "synthesize" /\ call'.ret = "buffered" /\ pc' = "submit"
        BY <1>1, <2>2, CallSet DEF SynthesizeBufferedReply
      <3> QED BY <1>1, <2>1, <2>2, <3>1 DEF SynthesizeBufferedReply, Emit
    <2>3. ASSUME NEW n, PlayPhrases(n, "finish", turnState), turnState.deltaSeen
          PROVE  StageInv'
      BY <1>1, <2>1, <2>3, PhrasesGoOn, Flags DEF Emit
    <2> QED BY <1>14, <2>2, <2>3 DEF FlushSentence
  <1>15. CASE FinishPlayback /\ UNCHANGED shared
    <2>1. \/ pc' = "submit" /\ call'.stage = "finish"
          \/ pc' = "done" /\ ~turnState.wrote
      <3>1. CASE turnState.wrote
        <4>1. pc' = "submit" /\ call' = [call EXCEPT !.stage = "finish"]
          BY <1>15, <3>1 DEF FinishPlayback, Execute
        <4> QED BY <1>1, <1>2, <4>1, CallSet
      <3>2. CASE ~turnState.wrote
        BY <1>15, <3>2 DEF FinishPlayback
      <3> QED BY <3>1, <3>2
    <2> QED BY <1>1, <1>15, <2>1 DEF FinishPlayback, shared, gate
  <1>16. CASE Abort /\ UNCHANGED shared
    <2>1. \/ pc' = "submit" /\ call'.stage = "stop" /\ turnState.speaking
          \/ pc' = "fail"
      <3>1. CASE turnState.speaking /\ call' = [call EXCEPT !.stage = "stop", !.detached = TurnDone]
        <4>1. TurnDone \in BOOLEAN
          BY DEF TurnDone
        <4> QED BY <1>1, <1>2, <1>16, <3>1, <4>1, CallSet DEF Abort
      <3> QED BY <1>16, <3>1 DEF Abort
    <2> QED BY <1>1, <1>16, <2>1 DEF Abort, shared, gate
  <1> QED BY <1>3, <1>4, <1>5, <1>6, <1>7, <1>8, <1>9, <1>10, <1>11, <1>12, <1>13, <1>14, <1>15,
             <1>16 DEF CoordinatorStep

\* StageInv is inductive.
LEMMA StageStep == TypeInv /\ CallsInv /\ StageInv /\ [Next]_vars => StageInv'
  <1> SUFFICES ASSUME TypeInv, CallsInv, StageInv, [Next]_vars PROVE StageInv'
    OBVIOUS
  <1>1. CASE UNCHANGED vars
    BY <1>1, StageFrame DEF vars, gate
  <1>2. CASE ContextStep(Shutdown) \/ ContextStep(Propagate) \/ ContextStep(Interrupt)
    BY <1>2, StageFrame DEF ContextStep, gate
  <1>3. CASE \E w \in Worker : WorkerStep(w)
    BY <1>3, StageFrame DEF WorkerStep, gate
  <1> QED BY <1>1, <1>2, <1>3, CoordinatorStage DEF Next, Terminated

LEMMA StageInit == Init => StageInv
  BY DEF Init, NewTurnState, FirstCall, StageInv, FlagsKnown, StateKnown, InTurn, Calling, InPhrase,
         Between, BeforeAudio

\* The observer sees the next state of the turn, the end of it, or nothing.
Advance == IF state' = "idle" THEN Rank(state) < 6 ELSE Rank(state') > Rank(state)

LEMMA AwaitAdvances ==
    ASSUME TypeInv, StageInv, AwaitStep
    PROVE  Advance \/ state' = state
  <1>1. /\ pc = "await" /\ call \in Call /\ turnState \in TurnState
        /\ call.ret \in ReturnPoint /\ (call.stage = "write" => call.ret # "buffered")
        /\ state \in LifecycleState
    BY CallTypes DEF AwaitStep, Receive, TypeInv, TypeOK, WritesReturn
  <1> USE DEF StageInv, FlagsKnown, StateKnown, InTurn, Calling, InPhrase
  <1>2. state \notin {"interrupted", "stopping"}
    BY <1>1
  <1>3. CASE DiscardResult \/ CallFailed \/ AfterPlayback \/ AfterStop
    BY <1>3 DEF DiscardResult, CallFailed, AfterPlayback, AfterStop, gate
  <1>4. ASSUME EndTurn("loop", "idle")
        PROVE  Advance
    BY <1>1, <1>2, <1>4 DEF EndTurn, Emit, Advance, Rank, LifecycleState
  <1>5. CASE AfterCapture
    BY <1>1, <1>5 DEF AfterCapture, Answer, Emit, Advance, Rank
  <1>6. CASE AfterTranscribe
    BY <1>1, <1>6 DEF AfterTranscribe, Answer, Emit, Advance, Rank
  <1>7. CASE AfterRespond
    BY <1>1, <1>7 DEF AfterRespond, SynthesizeBufferedReply, Answer, Emit, Advance, Rank
  <1>8. CASE AfterBufferedSynthesis
    <2>1. CASE call.ret = "buffered" /\ Answer("synthesize", {"ok"}) /\ Emit("speaking")
      BY <1>1, <2>1 DEF Answer, Emit, Advance, Rank
    <2> QED BY <1>4, <1>8, <2>1 DEF AfterBufferedSynthesis
  <1>9. CASE AfterPhraseSynthesis
    <2>1. Calling("synthesize") /\ call.ret # "buffered"
      BY <1>1, <1>9 DEF AfterPhraseSynthesis, Answer
    <2>2. CASE PlayPhrases(call.left, call.ret, turnState)
      BY <1>1, <2>1, <2>2, PhrasesGoOn
    <2>3. CASE IF turnState.speaking THEN UNCHANGED gate ELSE Emit("speaking")
      <3>1. turnState.speaking \/ state = "synthesizing"
        BY <2>1
      <3>2. state' = state \/ (state' = "speaking" /\ ~turnState.speaking)
        BY <2>3 DEF Emit, gate
      <3> QED BY <3>1, <3>2 DEF Advance, Rank
    <2> QED BY <1>9, <2>2, <2>3 DEF AfterPhraseSynthesis
  <1>10. CASE AfterWrite
    <2> DEFINE s == [turnState EXCEPT !.wrote = TRUE]
    <2>1. s \in TurnState /\ s.synth
      <3>1. turnState.synth
        BY <1>1, <1>10 DEF AfterWrite, Answer
      <3> QED BY <1>1, <3>1, SetWrote, TurnStateTypes
    <2>2. PlayPhrases(call.left, call.ret, s)
      BY <1>10 DEF AfterWrite
    <2> HIDE DEF s
    <2> QED BY <1>1, <2>1, <2>2, PhrasesGoOn
  <1> QED BY <1>3, <1>4, <1>5, <1>6, <1>7, <1>8, <1>9, <1>10 DEF AwaitStep, Noop

LEMMA StepAdvances ==
    ASSUME TypeInv, StageInv, [Next]_vars, turn' = turn
    PROVE  Advance \/ state' = state
  <1>1. /\ call \in Call /\ turnState \in TurnState /\ turn \in 0..MaxTurns
        /\ pc \in Control /\ call.ret \in ReturnPoint /\ state \in LifecycleState
    BY CallTypes DEF TypeInv, TypeOK
  <1> USE DEF StageInv, FlagsKnown, StateKnown, InTurn, Between
  <1>2. ASSUME NEW next, NEW s \in {"idle", "interrupted", "stopping"}, EndTurn(next, s),
               pc \notin {"loop", "stopping", "returned"}
        PROVE  Advance
    BY <1>1, <1>2 DEF EndTurn, Emit, Advance, Rank, LifecycleState
  <1>3. CASE \/ UNCHANGED vars \/ (\E w \in Worker : WorkerStep(w))
             \/ ContextStep(Shutdown) \/ ContextStep(Propagate) \/ ContextStep(Interrupt)
             \/ StopWorkers \/ Submit \/ DirectStop
             \/ RunReturns \/ WorkersJoined \/ CallCancelled \/ StreamCancelled \/ TakeResponse
             \/ DeltasDrained \/ FinishPlayback \/ Abort
    BY <1>3 DEF vars, WorkerStep, ContextStep, StopWorkers, Submit, DirectStop, RunReturns,
                WorkersJoined, CallCancelled, StreamCancelled, TakeResponse, DeltasDrained,
                FinishPlayback, Abort, gate
  <1>4. CASE NextTurn
    BY <1>1, <1>4, BoundsAssumption DEF NextTurn
  <1>5. CASE EnterTurn
    BY <1>1, <1>2, <1>5 DEF EnterTurn, Emit, Advance, Rank
  <1>6. CASE AwaitStep
    BY <1>6, AwaitAdvances
  <1>7. CASE FinishTurn \/ Fail \/ Classify
    BY <1>2, <1>7 DEF FinishTurn, Fail, Classify, gate
  <1>8. CASE TakeDelta
    <2> DEFINE s == [turnState EXCEPT !.deltaSeen = TRUE, !.taken = @ + 1]
    <2>1. s \in TurnState /\ s.synth = turnState.synth
      BY <1>1, SetTaken, TurnStateTypes
    <2>2. \/ UNCHANGED gate
          \/ \E n \in 0..MaxPhrases : PlayPhrases(n, pc, s)
      BY <1>8 DEF TakeDelta
    <2> HIDE DEF s
    <2>3. turnState.synth \/ state = "thinking"
      BY <1>8 DEF TakeDelta
    <2> QED BY <1>1, <2>1, <2>2, <2>3, PhrasesGoOn DEF Emit, Advance, Rank, gate
  <1>9. CASE FlushSentence
    <2>1. turnState.synth \/ state = "thinking"
      BY <1>9 DEF FlushSentence
    <2>2. CASE ~turnState.deltaSeen /\ SynthesizeBufferedReply
      BY <2>1, <2>2 DEF SynthesizeBufferedReply, Emit, Advance, Rank
    <2>3. CASE \E n \in 0..1 : PlayPhrases(n, "finish", turnState)
      BY <1>1, <2>1, <2>3, PhrasesGoOn DEF Emit, Advance, Rank
    <2> QED BY <1>9, <2>2, <2>3 DEF FlushSentence
  <1> QED BY <1>3, <1>4, <1>5, <1>6, <1>7, <1>8, <1>9 DEF Next, CoordinatorStep, Terminated

\* Within a turn the observer sees the lifecycle states in order, however many
\* phrases playStreamingPhrases speaks and wherever the turn fails: nothing
\* comes after interrupted or stopping.
THEOREM StatesOnlyAdvance == Spec => StatesAdvance
  <1>1. /\ TypeInv /\ StageInv /\ [Next]_vars
        => [turn' = turn => IF state' = "idle" THEN Rank(state) < 6
                                               ELSE Rank(state') > Rank(state)]_state
    BY StepAdvances DEF Advance
  <1> QED BY <1>1, TypeInit, TypeStep, CallsInit, CallsStep, StageInit, StageStep, PTL
          DEF Spec, StatesAdvance

-----------------------------------------------------------------------------
(* Why Run returns.                                                        *)

\* Steps that add no cancelled call.
LEMMA CancelsFrame ==
    ASSUME TypeInv, CancelsKnown, UNCHANGED <<turn, worker>>, cause # "none" => cause' # "none",
           results' = results \/ (results # <<>> /\ results' = Tail(results)),
           responses' = responses \/ (responses # <<>> /\ responses' = Tail(responses))
    PROVE  CancelsKnown'
  <1>1. results \in Seq(StageResult) /\ responses \in Seq(StageResult)
    BY DEF TypeInv, TypeOK
  <1>2. \A i \in DOMAIN results' : \E j \in DOMAIN results : results'[i] = results[j]
    BY <1>1, TailIndex
  <1>3. \A i \in DOMAIN responses' : \E j \in DOMAIN responses : responses'[i] = responses[j]
    BY <1>1, TailIndex
  <1> QED BY <1>2, <1>3 DEF CancelsKnown

\* await adds no cancelled call; what it receives is in its channel.
LEMMA ReceiveCancels ==
    ASSUME TypeInv, CancelsKnown, Receive, UNCHANGED <<turn, worker>>,
           cause # "none" => cause' # "none"
    PROVE  /\ CancelsKnown'
           /\ Head(Inbox).out = "cancel" /\ Head(Inbox).turn = turn => cause # "none"
  <1>1. results \in Seq(StageResult) /\ responses \in Seq(StageResult)
    BY DEF TypeInv, TypeOK
  <1>2. CASE call.stage = "respond"
    <2>1. Inbox = responses /\ responses # <<>> /\ responses' = Tail(responses) /\ results' = results
      BY <1>2 DEF Receive, Inbox
    <2>2. 1 \in DOMAIN responses /\ Head(responses) = responses[1]
      BY <1>1, <2>1, TailIndex
    <2> QED BY <2>1, <2>2, CancelsFrame DEF CancelsKnown
  <1>3. CASE call.stage # "respond"
    <2>1. Inbox = results /\ results # <<>> /\ results' = Tail(results) /\ responses' = responses
      BY <1>3 DEF Receive, Inbox
    <2>2. 1 \in DOMAIN results /\ Head(results) = results[1]
      BY <1>1, <2>1, TailIndex
    <2> QED BY <2>1, <2>2, CancelsFrame DEF CancelsKnown
  <1> QED BY <1>2, <1>3

LEMMA AwaitReason ==
    ASSUME TypeInv, ReasonInv, AwaitStep, UNCHANGED shared
    PROVE  ReasonInv'
  <1>1. /\ pc = "await" /\ Receive /\ UNCHANGED <<turn, worker, root, wdone>>
        /\ call \in Call /\ call.ret \in ReturnPoint /\ WritesReturn
    BY CallTypes DEF AwaitStep, Receive, shared, TypeInv, TypeOK
  <1>2. ASSUME NEW s, EndTurn("loop", s)
        PROVE  pc' = "loop" /\ (cause # "none" => cause' # "none")
               /\ (cause' = "cancelled" => cause = "cancelled")
    BY <1>2 DEF EndTurn
  <1>3. \/ /\ cause' = cause /\ pc' \notin {"stopping", "returned"}
           /\ \/ err' = err
              \/ Matches(Head(Inbox)) /\ err' = Head(Inbox).out
        \/ \E s : EndTurn("loop", s)
    <2>1. CASE DiscardResult \/ AfterPlayback \/ AfterStop \/ CallFailed
      BY <1>1, <2>1 DEF DiscardResult, AfterPlayback, AfterStop, CallFailed, Unwind
    <2>2. CASE Noop
      BY <2>2 DEF Noop
    <2>3. CASE AfterCapture \/ AfterTranscribe \/ AfterRespond \/ AfterBufferedSynthesis
      BY <1>1, <2>3 DEF AfterCapture, AfterTranscribe, AfterRespond, AfterBufferedSynthesis,
                        Execute, SynthesizeBufferedReply
    <2>4. CASE AfterPhraseSynthesis
      <3>1. UNCHANGED <<err, cause>> /\ call.ret \in {"stream", "drain", "finish"}
        BY <1>1, <2>4 DEF AfterPhraseSynthesis, ReturnPoint
      <3>2. pc' \notin {"stopping", "returned"}
        BY <1>1, <2>4, <3>1, PlayPhrasesGoes DEF AfterPhraseSynthesis, Execute
      <3> QED BY <3>1, <3>2
    <2>5. CASE AfterWrite
      <3>1. UNCHANGED <<err, cause>> /\ call.ret \in {"stream", "drain", "finish"}
        BY <1>1, <2>5 DEF AfterWrite, Answer, ReturnPoint, WritesReturn
      <3>2. pc' \notin {"stopping", "returned"}
        BY <1>1, <2>5, <3>1, PlayPhrasesGoes DEF AfterWrite
      <3> QED BY <3>1, <3>2
    <2> QED BY <2>1, <2>2, <2>3, <2>4, <2>5 DEF AwaitStep
  <1>4. /\ CancelsKnown'
        /\ Head(Inbox).out = "cancel" /\ Head(Inbox).turn = turn => cause # "none"
    BY <1>1, <1>2, <1>3, ReceiveCancels DEF ReasonInv
  <1>5. CASE \E s : EndTurn("loop", s)
    BY <1>1, <1>2, <1>4, <1>5 DEF ReasonInv, ContextsKnown, ServiceEndsForAReason, InTurn
  <1>6. CASE /\ cause' = cause /\ pc' \notin {"stopping", "returned"}
             /\ \/ err' = err
                \/ Matches(Head(Inbox)) /\ err' = Head(Inbox).out
    <2>1. err' = "cancel" => err = "cancel" \/ cause # "none"
      BY <1>4, <1>6 DEF Matches
    <2> QED BY <1>1, <1>4, <1>6, <2>1 DEF ReasonInv, ContextsKnown, ServiceEndsForAReason, InTurn
  <1> QED BY <1>3, <1>5, <1>6

LEMMA CoordinatorReason ==
    ASSUME TypeInv, CallsInv, ReasonInv, CoordinatorStep
    PROVE  ReasonInv'
  <1>1. /\ call \in Call /\ turn \in 0..MaxTurns
        /\ cause \in {"none", "ended", "interrupted", "cancelled"}
        /\ results \in Seq(StageResult) /\ responses \in Seq(StageResult)
        /\ worker \in [Worker -> Job]
    BY DEF TypeInv, TypeOK
  <1>2. ASSUME UNCHANGED <<turn, worker, results, responses>>, cause # "none" => cause' # "none"
        PROVE  CancelsKnown'
    BY <1>2, CancelsFrame DEF ReasonInv
  <1> USE DEF ServiceEndsForAReason, ContextsKnown, InTurn
  <1>3. CASE NextTurn
    <2>1. /\ turn' = turn + 1 /\ pc = "loop" /\ pc' = "enter" /\ ~root /\ cause' = "none" /\ err' = "ok"
          /\ UNCHANGED <<root, wdone, worker, results, responses>>
      BY <1>3 DEF NextTurn, channels
    <2>2. /\ \A i \in DOMAIN results : results[i].turn \in 0..MaxTurns
          /\ \A i \in DOMAIN responses : responses[i].turn \in 0..MaxTurns
      <3>1. /\ \A i \in DOMAIN results : results[i] \in StageResult
            /\ \A i \in DOMAIN responses : responses[i] \in StageResult
        BY <1>1
      <3> QED BY <3>1 DEF StageResult
    <2>3. \A w \in Worker : worker[w].turn \in 0..MaxTurns
      BY <1>1, JobTypes
    <2>4. /\ \A w \in Worker : worker[w].mode = "publish" => worker[w].turn # turn'
          /\ \A i \in DOMAIN results : results[i].turn # turn'
          /\ \A i \in DOMAIN responses : responses[i].turn # turn'
      BY <1>1, <2>1, <2>2, <2>3, BoundsAssumption DEF CallsInv, NoFutureWork, Pending
    <2>5. CancelsKnown'
      BY <2>1, <2>4 DEF CancelsKnown
    <2> QED BY <2>1, <2>5 DEF ReasonInv
  <1>4. CASE StopWorkers
    BY <1>2, <1>4 DEF StopWorkers, channels, ReasonInv
  <1>5. CASE Submit
    <2>1. /\ pc = "submit" /\ pc' \in {"stream", "await"}
          /\ UNCHANGED <<err, turn, cause, root, wdone, results, responses>>
      BY <1>5 DEF Submit, channels
    <2>2. \A w \in Worker : worker'[w].mode = "publish" => worker'[w] = worker[w]
      BY <1>1, <1>5 DEF Submit
    <2>3. CancelsKnown'
      BY <2>1, <2>2 DEF CancelsKnown, ReasonInv
    <2> QED BY <2>1, <2>3 DEF ReasonInv
  <1>6. CASE DirectStop
    BY <1>2, <1>6 DEF DirectStop, channels, ReasonInv
  <1>7. CASE (RunReturns \/ WorkersJoined) /\ UNCHANGED shared
    BY <1>2, <1>7 DEF RunReturns, WorkersJoined, shared, channels, ReasonInv
  <1>8. CASE EnterTurn /\ UNCHANGED shared
    BY <1>1, <1>2, <1>8 DEF EnterTurn, EndTurn, TurnDone, shared, channels, ReasonInv
  <1>9. CASE CallCancelled /\ UNCHANGED shared
    BY <1>2, <1>9 DEF CallCancelled, CallDone, TurnDone, Unwind, shared, channels, ReasonInv
  <1>10. CASE AwaitStep /\ UNCHANGED shared
    BY <1>10, AwaitReason
  <1>11. CASE (FinishTurn \/ StreamCancelled \/ DeltasDrained) /\ UNCHANGED shared
    BY <1>2, <1>11 DEF FinishTurn, StreamCancelled, DeltasDrained, EndTurn, TurnDone, shared,
                       channels, ReasonInv
  <1>12. CASE (Fail \/ Classify) /\ UNCHANGED shared
    BY <1>1, <1>2, <1>12 DEF Fail, Classify, EndTurn, TurnDone, shared, channels, ReasonInv
  <1>13. CASE TakeDelta /\ UNCHANGED shared
    <2>1. /\ pc \in {"stream", "drain"}
          /\ UNCHANGED <<turn, worker, root, wdone, err, cause, results, responses>>
      BY <1>13 DEF TakeDelta, shared
    <2>2. pc' \notin {"stopping", "returned"}
      BY <1>1, <1>13, <2>1, PlayPhrasesGoes DEF TakeDelta
    <2> QED BY <1>2, <2>1, <2>2 DEF ReasonInv
  <1>14. CASE TakeResponse /\ UNCHANGED shared
    <2>1. /\ pc = "stream" /\ pc' \in {"stream", "abort", "drain"} /\ responses # <<>>
          /\ responses' = Tail(responses) /\ UNCHANGED <<turn, worker, root, wdone, cause, results>>
          /\ err' = err \/ (Head(responses).turn = turn /\ err' = Head(responses).out)
      BY <1>14 DEF TakeResponse, shared
    <2>2. CancelsKnown'
      BY <2>1, CancelsFrame DEF ReasonInv
    <2>3. 1 \in DOMAIN responses /\ Head(responses) = responses[1]
      BY <1>1, <2>1, TailIndex
    <2>4. err' = "cancel" => err = "cancel" \/ cause # "none"
      BY <2>1, <2>3 DEF ReasonInv, CancelsKnown
    <2> QED BY <2>1, <2>2, <2>4 DEF ReasonInv
  <1>15. CASE FlushSentence /\ UNCHANGED shared
    <2>1. /\ pc = "flush"
          /\ UNCHANGED <<turn, worker, root, wdone, err, cause, results, responses>>
      BY <1>15 DEF FlushSentence, shared, channels
    <2>2. pc' \notin {"stopping", "returned"}
      BY <1>1, <1>15, PlayPhrasesGoes DEF FlushSentence, SynthesizeBufferedReply
    <2> QED BY <1>2, <2>1, <2>2 DEF ReasonInv
  <1>16. CASE (FinishPlayback \/ Abort) /\ UNCHANGED shared
    BY <1>2, <1>16 DEF FinishPlayback, Execute, Abort, shared, channels, ReasonInv
  <1> QED BY <1>3, <1>4, <1>5, <1>6, <1>7, <1>8, <1>9, <1>10, <1>11, <1>12, <1>13, <1>14, <1>15,
             <1>16 DEF CoordinatorStep

\* What a channel holds after publish, which sends to it or not.
LEMMA MaybeAppended ==
    ASSUME NEW S, NEW s \in Seq(S), NEW x \in S, NEW t, t = s \/ t = Append(s, x)
    PROVE  \A i \in DOMAIN t : (i \in DOMAIN s /\ t[i] = s[i]) \/ t[i] = x
  <1>1. CASE t = s
    BY <1>1
  <1>2. CASE t = Append(s, x)
    BY <1>2, AppendIndex
  <1> QED BY <1>1, <1>2

\* A dependency reports a cancellation only if the context of its job is done.
LEMMA WorkerReason ==
    ASSUME TypeInv, ReasonInv, NEW w \in Worker, WorkerStep(w)
    PROVE  ReasonInv'
  <1>1. /\ UNCHANGED <<pc, call, err, turn, cause, root, wdone>> /\ worker \in [Worker -> Job]
        /\ results \in Seq(StageResult) /\ responses \in Seq(StageResult)
    BY DEF WorkerStep, TypeInv, TypeOK
  <1>2. SUFFICES CancelsKnown'
    BY <1>1 DEF ReasonInv, ServiceEndsForAReason, ContextsKnown, InTurn
  <1>3. CASE CallReturns(w)
    <2>1. PICK o \in CallOutcomes(worker[w]) :
             worker' = [worker EXCEPT ![w].mode = "publish", ![w].out = o]
      BY <1>3 DEF CallReturns
    <2>2. UNCHANGED <<results, responses>>
      BY <1>3 DEF CallReturns, channels
    <2>3. /\ worker'[w].out = o /\ worker'[w].turn = worker[w].turn
          /\ \A u \in Worker : u # w => worker'[u] = worker[u]
      BY <1>1, <2>1 DEF Job
    <2>4. o = "cancel" => worker[w].turn # turn \/ cause # "none"
      BY <2>1, EnvironmentAssumption DEF CallOutcomes, JobCtxDone, TurnDone
    <2> QED BY <1>1, <2>2, <2>3, <2>4 DEF ReasonInv, CancelsKnown
  <1>4. CASE Publish(w)
    <2> DEFINE r == [turn |-> worker[w].turn, stage |-> worker[w].stage, out |-> worker[w].out]
    <2>1. r \in StageResult /\ r.turn = worker[w].turn /\ r.out = worker[w].out
      BY <1>1, JobTypes DEF StageResult
    <2> HIDE DEF r
    <2>2. /\ worker[w].mode = "publish" /\ worker'[w].mode = "idle"
          /\ \A u \in Worker : u # w => worker'[u] = worker[u]
      BY <1>1, <1>4 DEF Publish, IdleWorker
    <2>3. /\ results' = results \/ results' = Append(results, r)
          /\ responses' = responses \/ responses' = Append(responses, r)
      BY <1>4 DEF Publish, r
    <2>4. \A i \in DOMAIN results' :
             (i \in DOMAIN results /\ results'[i] = results[i]) \/ results'[i] = r
      BY <1>1, <2>1, <2>3, MaybeAppended
    <2>5. \A i \in DOMAIN responses' :
             (i \in DOMAIN responses /\ responses'[i] = responses[i]) \/ responses'[i] = r
      BY <1>1, <2>1, <2>3, MaybeAppended
    <2> QED BY <1>1, <2>1, <2>2, <2>4, <2>5 DEF ReasonInv, CancelsKnown
  <1>5. CASE PublishDelta
    BY <1>1, <1>5 DEF PublishDelta, ReasonInv, CancelsKnown
  <1> QED BY <1>3, <1>4, <1>5 DEF WorkerStep

\* ReasonInv is inductive.
LEMMA ReasonStep == TypeInv /\ CallsInv /\ ReasonInv /\ [Next]_vars => ReasonInv'
  <1> SUFFICES ASSUME TypeInv, CallsInv, ReasonInv, [Next]_vars PROVE ReasonInv'
    OBVIOUS
  <1> USE DEF ReasonInv, ServiceEndsForAReason, ContextsKnown, InTurn
  <1>1. CASE UNCHANGED vars
    BY <1>1, CancelsFrame DEF vars, channels
  <1>2. CASE ContextStep(Shutdown) \/ ContextStep(Propagate) \/ ContextStep(Interrupt)
    <2>1. /\ UNCHANGED <<pc, err, turn, worker, results, responses>>
          /\ Shutdown \/ PropagateToWorkers \/ PropagateToTurn \/ Interrupt
      BY <1>2 DEF ContextStep, Propagate, channels
    <2>2. /\ root => root'
          /\ cause' = cause \/ (cause' = "cancelled" /\ root') \/ cause' = "interrupted"
          /\ wdone' = wdone \/ root'
          /\ cause # "none" => cause' = cause
      BY <2>1 DEF Shutdown, PropagateToWorkers, PropagateToTurn, Interrupt
    <2> QED BY <2>1, <2>2, CancelsFrame
  <1> QED BY <1>1, <1>2, CoordinatorReason, WorkerReason DEF Next, Terminated

LEMMA ReasonInit == Init => ReasonInv
  BY DEF Init, IdleWorker, ReasonInv, ServiceEndsForAReason, ContextsKnown, CancelsKnown, InTurn

\* A cancelled call of an earlier turn, or one whose answer comes late, never
\* makes Run return: it returns for the shutdown of the service, for a stage that
\* timed out, or in a turn that was itself interrupted.
THEOREM EndsForAReason == Spec => []ServiceEndsForAReason
  <1>1. ReasonInv => ServiceEndsForAReason
    BY DEF ReasonInv
  <1> QED BY <1>1, TypeInit, TypeStep, CallsInit, CallsStep, ReasonInit, ReasonStep, PTL DEF Spec

-----------------------------------------------------------------------------
(* The deltas of a reply.                                                  *)

\* The responder publishes the next delta of its turn.
LEMMA UnreadAppend ==
    ASSUME NEW d \in Seq(Delta), NEW t \in Nat, NEW k \in Nat, NEW m \in Nat, k <= m,
           Unread(d, t, k, m), NEW x \in Delta, x.turn = t, x.n = m + 1
    PROVE  Unread(Append(d, x), t, k, m + 1)
  <1> DEFINE e == Append(d, x)
  <1>1. /\ Len(e) = Len(d) + 1 /\ Len(d) \in Nat /\ DOMAIN d = 1..Len(d) /\ DOMAIN e = 1..(Len(d) + 1)
        /\ \A p \in DOMAIN d : e[p] = d[p]
        /\ e[Len(d) + 1] = x
    BY SMT
  <1> HIDE DEF e
  <1>2. \A p \in DOMAIN e : (p \in DOMAIN d /\ e[p] = d[p]) \/ (p = Len(d) + 1 /\ e[p] = x)
    BY <1>1
  <1>3. \A p \in DOMAIN e : e[p].turn = t => e[p].n \in (k + 1)..(m + 1)
    BY <1>2 DEF Unread
  <1>4. ASSUME NEW n \in (k + 1)..(m + 1)
        PROVE  \E p \in DOMAIN e : e[p].turn = t /\ e[p].n = n
    <2>1. CASE n = m + 1
      BY <1>1, <2>1
    <2>2. CASE n # m + 1
      <3>1. n \in (k + 1)..m
        BY <2>2
      <3>2. PICK p \in DOMAIN d : d[p].turn = t /\ d[p].n = n
        BY <3>1 DEF Unread
      <3> QED BY <1>1, <3>2
    <2> QED BY <2>1, <2>2
  <1>5. ASSUME NEW p \in DOMAIN e, NEW q \in DOMAIN e, p < q, e[p].turn = t, e[q].turn = t
        PROVE  e[p].n < e[q].n
    <2>1. p \in DOMAIN d /\ e[p] = d[p]
      BY <1>1, <1>5
    <2>2. CASE q \in DOMAIN d /\ e[q] = d[q]
      BY <1>5, <2>1, <2>2 DEF Unread
    <2>3. CASE e[q] = x
      <3>1. d[p].n \in (k + 1)..m
        BY <1>5, <2>1 DEF Unread
      <3> QED BY <2>1, <2>3, <3>1
    <2> QED BY <1>2, <2>2, <2>3
  <1> QED BY <1>3, <1>4, <1>5 DEF Unread, e

\* completeStreamingResponse takes the delta at the head of the channel: it is
\* stale, or the next one.
LEMMA UnreadTail ==
    ASSUME NEW d \in Seq(Delta), d # <<>>, NEW t \in Nat, NEW k \in Nat, NEW m \in Nat, k <= m,
           Unread(d, t, k, m)
    PROVE  /\ Head(d).turn # t => Unread(Tail(d), t, k, m)
           /\ Head(d).turn = t => k + 1 <= m /\ Unread(Tail(d), t, k + 1, m)
  <1> DEFINE e == Tail(d)
  <1>1. /\ 1 \in DOMAIN d /\ Head(d) = d[1]
        /\ \A p \in DOMAIN e : p \in Nat /\ p + 1 # 1 /\ p + 1 \in DOMAIN d /\ e[p] = d[p + 1]
    BY TailIndex
  <1>2. /\ DOMAIN d = 1..Len(d) /\ Len(d) \in Nat
        /\ \A p \in DOMAIN d : p # 1 => p - 1 \in DOMAIN e /\ e[p - 1] = d[p]
    BY SMT
  <1> HIDE DEF e
  <1>3. \A p, q \in DOMAIN e : p < q /\ e[p].turn = t /\ e[q].turn = t => e[p].n < e[q].n
    <2> SUFFICES ASSUME NEW p \in DOMAIN e, NEW q \in DOMAIN e, p < q, e[p].turn = t, e[q].turn = t
                 PROVE  e[p].n < e[q].n
      OBVIOUS
    <2>1. p + 1 < q + 1
      BY <1>1
    <2> QED BY <1>1, <2>1 DEF Unread
  <1>4. CASE d[1].turn # t
    <2>1. \A p \in DOMAIN e : e[p].turn = t => e[p].n \in (k + 1)..m
      BY <1>1 DEF Unread
    <2>2. ASSUME NEW n \in (k + 1)..m
          PROVE  \E p \in DOMAIN e : e[p].turn = t /\ e[p].n = n
      <3>1. PICK p \in DOMAIN d : d[p].turn = t /\ d[p].n = n
        BY <2>2 DEF Unread
      <3> QED BY <1>2, <1>4, <3>1
    <2> QED BY <1>1, <1>3, <1>4, <2>1, <2>2 DEF Unread, e
  <1>5. CASE d[1].turn = t
    <2>1. d[1].n \in (k + 1)..m
      BY <1>1, <1>5 DEF Unread
    <2>2. ASSUME NEW p \in DOMAIN d, p # 1, d[p].turn = t
          PROVE  d[1].n < d[p].n
      BY <1>1, <1>2, <1>5, <2>2 DEF Unread
    <2>3. d[1].n = k + 1
      <3>1. PICK p \in DOMAIN d : d[p].turn = t /\ d[p].n = k + 1
        BY <2>1 DEF Unread
      <3> QED BY <2>1, <2>2, <3>1
    <2>4. \A p \in DOMAIN e : e[p].turn = t => e[p].n \in (k + 2)..m
      <3> SUFFICES ASSUME NEW p \in DOMAIN e, e[p].turn = t
                   PROVE  e[p].n \in (k + 2)..m
        OBVIOUS
      <3>1. d[p + 1].n \in (k + 1)..m /\ e[p] = d[p + 1]
        BY <1>1 DEF Unread
      <3>2. d[1].n < d[p + 1].n
        BY <1>1, <2>2, <3>1
      <3> QED BY <2>3, <3>1, <3>2
    <2>5. ASSUME NEW n \in (k + 2)..m
          PROVE  \E p \in DOMAIN e : e[p].turn = t /\ e[p].n = n
      <3>1. n \in (k + 1)..m /\ n # k + 1
        BY <2>5
      <3>2. PICK p \in DOMAIN d : d[p].turn = t /\ d[p].n = n
        BY <3>1 DEF Unread
      <3> QED BY <1>2, <2>3, <3>1, <3>2
    <2>6. k + 1 + 1 = k + 2 /\ k + 1 <= m
      BY <2>1
    <2> QED BY <1>1, <1>3, <1>5, <2>4, <2>5, <2>6 DEF Unread, e
  <1> QED BY <1>1, <1>4, <1>5

\* Steps that leave the deltas alone and the coordinator where it answers, or
\* take it out of the reply.
LEMMA DeltaFrame ==
    ASSUME TypeInv, DeltaInv, UNCHANGED <<turn, deltas, sent, streaming>>,
           worker'["responder"] = worker["responder"],
           responses' = responses \/ (responses # <<>> /\ responses' = Tail(responses)),
           BeforeResponse' => BeforeResponse, Streams' => Streams, Ends' => Ends,
           At("drain")' => At("drain"),
           Calling("respond")' /\ pc' = "await" => Calling("respond") /\ pc = "await",
           turnState'.taken = turnState.taken
    PROVE  DeltaInv'
  <1>1. responses \in Seq(StageResult)
    BY DEF TypeInv, TypeOK
  <1>2. \A i \in DOMAIN responses' : \E j \in DOMAIN responses : responses'[i] = responses[j]
    BY <1>1, TailIndex
  <1> QED BY <1>2 DEF DeltaInv, Answering

\* The coordinator is outside the deltas of its reply.
Elsewhere ==
    \/ pc \in {"loop", "done", "abort", "fail", "classify", "stopping", "returned"}
    \/ \E s \in {"play", "finish", "stop"} : Calling(s)
    \/ Calling("synthesize") /\ call.ret = "buffered"

\* Steps that take the coordinator out of the reply.
LEMMA DeltaLeft ==
    ASSUME TypeInv, DeltaInv, UNCHANGED <<turn, deltas, sent, streaming, worker>>,
           responses' = responses \/ (responses # <<>> /\ responses' = Tail(responses)),
           turnState'.taken = turnState.taken, Elsewhere'
    PROVE  DeltaInv'
  <1>1. /\ ~BeforeResponse' /\ ~Streams' /\ ~Ends' /\ ~At("drain")'
        /\ ~(Calling("respond")' /\ pc' = "await")
    BY DEF Elsewhere, BeforeResponse, Streams, Ends, At, Calling
  <1> QED BY <1>1, DeltaFrame

\* playStreamingPhrases stays where it is in the reply.
LEMMA PhraseAt ==
    ASSUME call \in Call, NEW s \in TurnState, NEW n, NEW r \in {"stream", "drain", "finish"},
           PlayPhrases(n, r, s), At(r)
    PROVE  /\ ~BeforeResponse' /\ (Streams' => Streams) /\ (Ends' => Ends)
           /\ At("drain")' => At("drain")
           /\ ~(Calling("respond")' /\ pc' = "await")
           /\ turnState'.taken = s.taken
  BY PhrasesGoOn DEF BeforeResponse, Streams, Ends, At, Calling

LEMMA AwaitDelta ==
    ASSUME TypeInv, DeltaInv, AwaitStep, UNCHANGED shared
    PROVE  DeltaInv'
  <1>1. /\ pc = "await" /\ UNCHANGED <<turn, deltas, sent, streaming, worker>>
        /\ responses' = responses \/ (responses # <<>> /\ responses' = Tail(responses))
        /\ call \in Call /\ turnState \in TurnState /\ call.ret \in ReturnPoint /\ WritesReturn
    BY CallTypes DEF AwaitStep, Receive, Inbox, shared, TypeInv, TypeOK
  <1>2. {"transcribe", "respond", "play", "write"} \subseteq Stage
    BY DEF Stage
  <1>3. ASSUME Elsewhere', turnState'.taken = turnState.taken
        PROVE  DeltaInv'
    BY <1>1, <1>3, DeltaLeft
  <1>4. CASE DiscardResult
    BY <1>1, <1>4, DeltaFrame DEF DiscardResult, BeforeResponse, Streams, Ends, At, Calling
  <1>5. CASE CallFailed \/ AfterStop
    <2>1. pc' \in {"abort", "fail"} /\ turnState'.taken = turnState.taken
      BY <1>1, <1>5, SetStopped DEF CallFailed, AfterStop, Unwind
    <2> QED BY <1>3, <2>1 DEF Elsewhere
  <1>6. CASE Noop \/ AfterPlayback
    BY <1>3, <1>6 DEF Noop, EndTurn, AfterPlayback, Elsewhere
  <1>7. CASE AfterCapture
    <2>1. call'.stage = "transcribe" /\ pc' = "submit" /\ turnState' = turnState /\ call.stage = "capture"
      BY <1>1, <1>2, <1>7, CallSet DEF AfterCapture, Execute, Answer
    <2> QED BY <1>1, <2>1, DeltaFrame DEF BeforeResponse, Streams, Ends, At, Calling
  <1>8. CASE AfterTranscribe
    <2>1. call'.stage = "respond" /\ pc' = "submit" /\ turnState' = turnState /\ call.stage = "transcribe"
      BY <1>1, <1>2, <1>8, CallSet DEF AfterTranscribe, Execute, Answer
    <2> QED BY <1>1, <2>1, DeltaFrame DEF BeforeResponse, Streams, Ends, At, Calling
  <1>9. CASE AfterRespond
    <2>1. call'.stage = "synthesize" /\ call'.ret = "buffered" /\ pc' = "submit" /\ turnState' = turnState
      BY <1>1, <1>9, CallSet DEF AfterRespond, SynthesizeBufferedReply
    <2> QED BY <1>3, <2>1 DEF Elsewhere, Calling
  <1>10. CASE AfterBufferedSynthesis
    <2>1. CASE EndTurn("loop", "idle")
      BY <1>3, <2>1 DEF EndTurn, Elsewhere
    <2>2. CASE Execute("play") /\ UNCHANGED turnState
      <3>1. call'.stage = "play" /\ pc' = "submit"
        BY <1>1, <1>2, <2>2, CallSet DEF Execute
      <3> QED BY <1>3, <2>2, <3>1 DEF Elsewhere, Calling
    <2> QED BY <1>10, <2>1, <2>2 DEF AfterBufferedSynthesis
  <1>11. CASE AfterPhraseSynthesis
    <2>1. call.ret \in {"stream", "drain", "finish"} /\ call.stage = "synthesize" /\ At(call.ret)
      BY <1>1, <1>11 DEF AfterPhraseSynthesis, Answer, ReturnPoint, At, Calling
    <2>2. CASE PlayPhrases(call.left, call.ret, turnState)
      BY <1>1, <2>1, <2>2, PhraseAt, DeltaFrame
    <2>3. CASE turnState' = [turnState EXCEPT !.speaking = TRUE] /\ Execute("write")
      <3>1. call'.stage = "write" /\ call'.ret = call.ret /\ pc' = "submit"
        BY <1>1, <1>2, <2>3, CallSet DEF Execute
      <3>2. turnState'.taken = turnState.taken
        BY <1>1, <2>3, SetSpeaking
      <3> QED BY <1>1, <2>1, <3>1, <3>2, DeltaFrame DEF BeforeResponse, Streams, Ends, At, Calling
    <2> QED BY <1>11, <2>2, <2>3 DEF AfterPhraseSynthesis
  <1>12. CASE AfterWrite
    <2>1. call.ret \in {"stream", "drain", "finish"} /\ At(call.ret)
      BY <1>1, <1>12 DEF AfterWrite, Answer, ReturnPoint, WritesReturn, At, Calling
    <2> DEFINE s == [turnState EXCEPT !.wrote = TRUE]
    <2>2. s \in TurnState /\ s.taken = turnState.taken
      BY <1>1, SetWrote, TurnStateTypes
    <2>3. PlayPhrases(call.left, call.ret, s)
      BY <1>12 DEF AfterWrite
    <2> HIDE DEF s
    <2> QED BY <1>1, <2>1, <2>2, <2>3, PhraseAt, DeltaFrame
  <1> QED BY <1>4, <1>5, <1>6, <1>7, <1>8, <1>9, <1>10, <1>11, <1>12 DEF AwaitStep

\* A new response starts with nothing of the turn in the channels.
LEMMA SubmitDelta ==
    ASSUME TypeInv, CallsInv, DeltaInv, Submit
    PROVE  DeltaInv'
  <1>1. /\ call \in Call /\ call.stage \in Stage /\ worker \in [Worker -> Job]
        /\ turn \in 0..MaxTurns /\ pc = "submit" /\ turnState \in TurnState
    BY CallTypes DEF TypeInv, TypeOK, Submit
  <1>2. /\ UNCHANGED <<call, turn, turnState, deltas, responses, streaming>>
        /\ worker' = [worker EXCEPT ![WorkerOf(call.stage)] =
              [mode |-> "busy", turn |-> turn, stage |-> call.stage, out |-> "ok"]]
        /\ pc' = IF call.stage = "respond" /\ streaming THEN "stream" ELSE "await"
        /\ sent' = IF call.stage = "respond" THEN 0 ELSE sent
    BY DEF Submit, channels
  <1>3. CASE call.stage # "respond"
    <2>1. WorkerOf(call.stage) # "responder" /\ "responder" \in Worker
      BY <1>1, <1>3 DEF WorkerOf, Worker
    <2>2. worker'["responder"] = worker["responder"]
      BY <1>1, <1>2, <2>1
    <2>3. sent' = sent /\ pc' = "await"
      BY <1>2, <1>3
    <2> QED BY <1>1, <1>2, <1>3, <2>2, <2>3, DeltaFrame
            DEF BeforeResponse, Streams, Ends, At, Calling
  <1>4. CASE call.stage = "respond"
    <2>1. "responder" \in Worker /\ WorkerOf(call.stage) = "responder"
      BY <1>4 DEF WorkerOf, Worker
    <2>2. worker'["responder"].turn = turn
      BY <1>1, <1>2, <2>1
    <2>3. /\ turnState.taken = 0 /\ \A p \in DOMAIN deltas : deltas[p].turn # turn
          /\ \A p \in DOMAIN deltas : deltas[p].turn <= turn
      BY <1>1, <1>4 DEF DeltaInv, BeforeResponse
    <2>4. \A i \in DOMAIN responses : responses[i].turn # turn
      <3>1. ~Outstanding(turn, "respond")
        BY <1>1, <1>4 DEF CallsInv, OutstandingKnown, MayBeOutstanding
      <3> QED BY <3>1 DEF Outstanding, CallsInv, WorkInPlace
    <2>5. sent' = 0 /\ turnState'.taken = 0
      BY <1>2, <1>4, <2>3
    <2>6. Unread(deltas, turn, 0, 0)
      <3>1. \A n \in (0 + 1)..0 : FALSE
        OBVIOUS
      <3> QED BY <2>3, <3>1 DEF Unread
    <2>7. /\ ~BeforeResponse' /\ ~Ends' /\ ~At("drain")'
          /\ Calling("respond")' /\ pc' = "await" => ~streaming'
      BY <1>2, <1>4 DEF BeforeResponse, Ends, At, Calling
    <2> QED BY <1>2, <2>2, <2>3, <2>4, <2>5, <2>6, <2>7 DEF DeltaInv
  <1> QED BY <1>3, <1>4

LEMMA TakeDeltaStep ==
    ASSUME TypeInv, DeltaInv, TakeDelta, UNCHANGED shared
    PROVE  DeltaInv'
  <1>1. /\ pc \in {"stream", "drain"} /\ deltas # <<>> /\ deltas' = Tail(deltas)
        /\ UNCHANGED <<turn, sent, streaming, worker, responses>>
        /\ deltas \in Seq(Delta) /\ call \in Call /\ turnState \in TurnState
    BY DEF TakeDelta, shared, TypeInv, TypeOK
  <1>2. turn \in Nat /\ sent \in Nat /\ turnState.taken \in Nat
    BY <1>1, Flags, BoundsAssumption DEF TypeInv, TypeOK
  <1>3. Streams /\ turnState.taken <= sent /\ Unread(deltas, turn, turnState.taken, sent)
    BY <1>1 DEF Streams, At, DeltaInv
  <1>4. /\ Head(deltas).turn # turn => Unread(Tail(deltas), turn, turnState.taken, sent)
        /\ Head(deltas).turn = turn => /\ turnState.taken + 1 <= sent
                                       /\ Unread(Tail(deltas), turn, turnState.taken + 1, sent)
    BY <1>1, <1>2, <1>3, UnreadTail
  <1>5. \A p \in DOMAIN deltas' : deltas'[p].turn <= turn
    BY <1>1, TailIndex DEF DeltaInv
  <1>6. CASE Head(deltas).turn # turn /\ UNCHANGED <<pc, call, turnState, gate>>
    <2>1. /\ (Ends' <=> Ends) /\ (At("drain")' <=> At("drain")) /\ (Streams' <=> Streams)
          /\ ~BeforeResponse' /\ ~(Calling("respond")' /\ pc' = "await")
      BY <1>1, <1>6 DEF Streams, Ends, At, BeforeResponse, Calling
    <2> QED BY <1>1, <1>3, <1>4, <1>5, <1>6, <2>1 DEF DeltaInv, Answering
  <1> DEFINE s == [turnState EXCEPT !.deltaSeen = TRUE, !.taken = @ + 1]
  <1>7. s \in TurnState /\ s.taken = turnState.taken + 1
    BY <1>1, SetTaken, TurnStateTypes
  <1> HIDE DEF s
  <1>8. ASSUME Head(deltas).turn = turn, NEW n, PlayPhrases(n, pc, s)
        PROVE  DeltaInv'
    <2>1. /\ ~BeforeResponse' /\ (Ends' => Ends) /\ (At("drain")' => At("drain"))
          /\ ~(Calling("respond")' /\ pc' = "await") /\ turnState'.taken = turnState.taken + 1
      BY <1>1, <1>7, <1>8, PhraseAt DEF At
    <2>2. ~Ends
      BY <1>1 DEF Ends, At, Calling
    <2> QED BY <1>1, <1>3, <1>4, <1>5, <1>8, <2>1, <2>2 DEF DeltaInv, Answering
  <1> QED BY <1>6, <1>8 DEF TakeDelta, s

LEMMA CoordinatorDelta ==
    ASSUME TypeInv, CallsInv, DeltaInv, CoordinatorStep
    PROVE  DeltaInv'
  <1>1. /\ call \in Call /\ turn \in 0..MaxTurns /\ turnState \in TurnState /\ deltas \in Seq(Delta)
        /\ responses \in Seq(StageResult) /\ worker \in [Worker -> Job]
    BY DEF TypeInv, TypeOK
  <1>2. {"finish", "stop"} \subseteq Stage
    BY DEF Stage
  <1>3. CASE NextTurn
    <2>1. /\ turn' = turn + 1 /\ pc' = "enter" /\ turnState' = NewTurnState
          /\ UNCHANGED <<worker, responses, deltas>>
      BY <1>3 DEF NextTurn, channels
    <2>2. turnState'.taken = 0
      BY <2>1 DEF NewTurnState
    <2>3. \A p \in DOMAIN deltas : deltas[p].turn <= turn' /\ deltas[p].turn # turn'
      <3>1. \A p \in DOMAIN deltas : deltas[p] \in Delta
        BY <1>1
      <3>2. \A p \in DOMAIN deltas : deltas[p].turn \in 0..MaxTurns
        BY <3>1 DEF Delta
      <3> QED BY <1>1, <2>1, <3>2, BoundsAssumption DEF DeltaInv
    <2>4. \A i \in DOMAIN responses : responses[i].turn # turn'
      <3>1. \A i \in DOMAIN responses : responses[i] \in StageResult
        BY <1>1
      <3>2. \A i \in DOMAIN responses : responses[i].turn \in 0..MaxTurns
        BY <3>1 DEF StageResult
      <3> QED BY <1>1, <2>1, <3>2, BoundsAssumption DEF CallsInv, NoFutureWork
    <2>5. ~Streams' /\ ~Ends' /\ ~At("drain")' /\ ~(Calling("respond")' /\ pc' = "await")
      BY <2>1 DEF Streams, Ends, At, Calling
    <2> QED BY <2>1, <2>2, <2>3, <2>4, <2>5 DEF DeltaInv
  <1>4. CASE StopWorkers
    BY <1>4, DeltaFrame DEF StopWorkers, channels, BeforeResponse, Streams, Ends, At, Calling
  <1>5. CASE Submit
    BY <1>5, SubmitDelta
  <1>6. CASE DirectStop
    BY <1>1, <1>6, SetStopped, DeltaLeft DEF DirectStop, channels, Elsewhere
  <1>7. CASE (RunReturns \/ WorkersJoined \/ FinishTurn \/ StreamCancelled \/ Fail \/ Classify)
             /\ UNCHANGED shared
    BY <1>7, DeltaLeft DEF RunReturns, WorkersJoined, FinishTurn, StreamCancelled, Fail, Classify,
                           EndTurn, shared, channels, Elsewhere
  <1>8. CASE EnterTurn /\ UNCHANGED shared
    <2>1. pc = "enter" /\ call.stage = "capture"
      BY <1>8 DEF EnterTurn, CallsInv, EnterCaptures
    <2>2. CASE TurnDone
      BY <1>8, <2>2, DeltaLeft DEF EnterTurn, EndTurn, shared, channels, Elsewhere
    <2>3. CASE ~TurnDone
      <3>1. /\ pc' = "submit" /\ UNCHANGED <<call, turnState, turn, deltas, sent, streaming, worker,
                                             responses>>
        BY <1>8, <2>3 DEF EnterTurn, shared, channels
      <3> QED BY <2>1, <3>1, DeltaFrame DEF BeforeResponse, Streams, Ends, At, Calling
    <2> QED BY <2>2, <2>3
  <1>9. CASE CallCancelled /\ UNCHANGED shared
    <2>1. /\ pc' \in {"abort", "fail"} /\ turnState'.taken = turnState.taken
          /\ UNCHANGED <<turn, deltas, sent, streaming, worker, responses>>
      BY <1>1, <1>9, SetStopped DEF CallCancelled, Unwind, shared, channels
    <2> QED BY <2>1, DeltaLeft DEF Elsewhere
  <1>10. CASE AwaitStep /\ UNCHANGED shared
    BY <1>10, AwaitDelta
  <1>11. CASE TakeDelta /\ UNCHANGED shared
    BY <1>11, TakeDeltaStep
  <1>12. CASE TakeResponse /\ UNCHANGED shared
    <2>1. /\ pc = "stream" /\ responses # <<>> /\ responses' = Tail(responses)
          /\ UNCHANGED <<call, turnState, turn, deltas, sent, streaming, worker>>
          /\ \/ pc' = "stream"
             \/ pc' = "abort"
             \/ pc' = "drain" /\ Head(responses).turn = turn
      BY <1>12 DEF TakeResponse, shared
    <2>2. CASE pc' = "stream"
      BY <2>1, <2>2, DeltaFrame DEF BeforeResponse, Streams, Ends, At, Calling
    <2>3. CASE pc' = "abort"
      BY <2>1, <2>3, DeltaLeft DEF Elsewhere
    <2>4. CASE pc' = "drain" /\ Head(responses).turn = turn
      <3>1. 1 \in DOMAIN responses /\ Head(responses) = responses[1]
        BY <1>1, <2>1, TailIndex
      <3>2. ~Answering
        BY <2>4, <3>1 DEF DeltaInv
      <3>3. \A i \in DOMAIN responses' : \E j \in DOMAIN responses : responses'[i] = responses[j]
        BY <1>1, <2>1, TailIndex
      <3>4. /\ ~BeforeResponse' /\ Streams /\ ~Ends' /\ ~(Calling("respond")' /\ pc' = "await")
        BY <2>1, <2>4 DEF BeforeResponse, Streams, Ends, At, Calling
      <3> QED BY <2>1, <3>2, <3>3, <3>4 DEF DeltaInv, Answering
    <2> QED BY <2>1, <2>2, <2>3, <2>4
  <1>13. CASE DeltasDrained /\ UNCHANGED shared
    <2>1. /\ pc = "drain" /\ pc' = "flush" /\ deltas = <<>>
          /\ UNCHANGED <<call, turnState, turn, deltas, sent, streaming, worker, responses>>
      BY <1>13 DEF DeltasDrained, shared, channels
    <2>2. turnState.taken \in Nat /\ sent \in Nat
      BY <1>1, Flags, BoundsAssumption DEF TypeInv, TypeOK
    <2>3. /\ turnState.taken <= sent /\ Unread(deltas, turn, turnState.taken, sent) /\ ~Answering
      BY <2>1 DEF DeltaInv, Streams, At
    <2>4. turnState.taken = sent
      <3>1. \A n \in (turnState.taken + 1)..sent : FALSE
        BY <2>1, <2>3 DEF Unread
      <3> QED BY <2>2, <2>3, <3>1
    <2>5. ~BeforeResponse' /\ ~Streams' /\ ~(Calling("respond")' /\ pc' = "await")
      BY <2>1 DEF BeforeResponse, Streams, At, Calling
    <2> QED BY <2>1, <2>3, <2>4, <2>5 DEF DeltaInv, Answering
  <1>14. CASE FlushSentence /\ UNCHANGED shared
    <2>1. pc = "flush" /\ UNCHANGED <<turn, deltas, sent, streaming, worker, responses>>
      BY <1>14 DEF FlushSentence, shared, channels
    <2>2. CASE SynthesizeBufferedReply /\ UNCHANGED turnState
      <3>1. call'.stage = "synthesize" /\ call'.ret = "buffered" /\ pc' = "submit"
        BY <1>1, <2>2, CallSet DEF SynthesizeBufferedReply
      <3> QED BY <2>1, <2>2, <3>1, DeltaLeft DEF Elsewhere, Calling
    <2>3. ASSUME NEW n, PlayPhrases(n, "finish", turnState)
          PROVE  DeltaInv'
      <3>1. /\ ~BeforeResponse' /\ ~Streams' /\ Ends /\ ~At("drain")'
            /\ ~(Calling("respond")' /\ pc' = "await") /\ turnState'.taken = turnState.taken
        BY <1>1, <2>1, <2>3, PhrasesGoOn DEF BeforeResponse, Streams, Ends, At, Calling
      <3> QED BY <2>1, <3>1, DeltaFrame
    <2> QED BY <1>14, <2>2, <2>3 DEF FlushSentence
  <1>15. CASE FinishPlayback /\ UNCHANGED shared
    <2>1. /\ UNCHANGED <<turnState, turn, deltas, sent, streaming, worker, responses>>
      BY <1>15 DEF FinishPlayback, shared, channels
    <2>2. CASE Execute("finish")
      <3>1. pc' = "submit" /\ call'.stage = "finish"
        BY <1>1, <1>2, <2>2, CallSet DEF Execute
      <3> QED BY <2>1, <3>1, DeltaLeft DEF Elsewhere, Calling
    <2>3. CASE pc' = "done"
      BY <2>1, <2>3, DeltaLeft DEF Elsewhere
    <2> QED BY <1>15, <2>2, <2>3 DEF FinishPlayback
  <1>16. CASE Abort /\ UNCHANGED shared
    <2>1. /\ UNCHANGED <<turnState, turn, deltas, sent, streaming, worker, responses>>
      BY <1>16 DEF Abort, shared, channels
    <2>2. CASE pc' = "submit" /\ call' = [call EXCEPT !.stage = "stop", !.detached = TurnDone]
      <3>1. TurnDone \in BOOLEAN
        BY DEF TurnDone
      <3>2. call'.stage = "stop"
        BY <1>1, <1>2, <2>2, <3>1, CallSet
      <3> QED BY <2>1, <2>2, <3>2, DeltaLeft DEF Elsewhere, Calling
    <2>3. CASE pc' = "fail"
      BY <2>1, <2>3, DeltaLeft DEF Elsewhere
    <2> QED BY <1>16, <2>2, <2>3 DEF Abort
  <1> QED BY <1>3, <1>4, <1>5, <1>6, <1>7, <1>8, <1>9, <1>10, <1>11, <1>12, <1>13, <1>14, <1>15,
             <1>16 DEF CoordinatorStep

\* The responder adds the next delta of its own turn, and answers after the last.
LEMMA WorkerDelta ==
    ASSUME TypeInv, CallsInv, DeltaInv, NEW w \in Worker, WorkerStep(w)
    PROVE  DeltaInv'
  <1>1. /\ UNCHANGED <<pc, call, turn, turnState, streaming>> /\ worker \in [Worker -> Job]
        /\ deltas \in Seq(Delta) /\ responses \in Seq(StageResult) /\ turnState \in TurnState
        /\ "responder" \in Worker
    BY DEF WorkerStep, TypeInv, TypeOK, Worker
  <1>2. /\ (BeforeResponse' <=> BeforeResponse) /\ (Streams' <=> Streams) /\ (Ends' <=> Ends)
        /\ (At("drain")' <=> At("drain")) /\ (Calling("respond")' <=> Calling("respond"))
    BY <1>1 DEF BeforeResponse, Streams, Ends, At, Calling
  <1>3. CASE CallReturns(w)
    <2>1. PICK o : worker' = [worker EXCEPT ![w].mode = "publish", ![w].out = o]
      BY <1>3 DEF CallReturns
    <2>2. /\ UNCHANGED <<deltas, responses, sent>>
          /\ worker'["responder"] = worker["responder"] \/ ~Answering'
      BY <1>1, <1>3, <2>1 DEF CallReturns, channels, Answering, Job
    <2> QED BY <1>1, <1>2, <2>2 DEF DeltaInv, Answering
  <1>4. CASE Publish(w)
    <2> DEFINE r == [turn |-> worker[w].turn, stage |-> worker[w].stage, out |-> worker[w].out]
    <2>1. /\ UNCHANGED <<deltas, sent>>
          /\ worker' = [worker EXCEPT ![w] = IdleWorker] /\ worker[w].mode = "publish"
          /\ responses' = responses \/ r.stage = "respond"
      BY <1>4 DEF Publish
    <2>2. CASE w = "responder"
      <3>1. ~Answering'
        BY <1>1, <2>1, <2>2 DEF Answering, IdleWorker
      <3> QED BY <1>1, <1>2, <2>1, <3>1 DEF DeltaInv
    <2>3. CASE w # "responder"
      <3>1. worker[w].stage # "respond"
        BY <2>1, <2>3 DEF CallsInv, WorkInPlace, Pending, WorkerOf
      <3>2. responses' = responses /\ worker'["responder"] = worker["responder"]
        BY <1>1, <2>1, <2>3, <3>1
      <3> QED BY <1>1, <1>2, <2>1, <3>2, DeltaFrame
    <2> QED BY <2>2, <2>3
  <1>5. CASE PublishDelta
    <2> DEFINE x == [turn |-> worker["responder"].turn, n |-> sent + 1]
    <2>1. /\ Answering /\ streaming /\ sent < MaxDeltas /\ deltas' = Append(deltas, x) /\ sent' = sent + 1
          /\ UNCHANGED <<worker, responses>>
      BY <1>5 DEF PublishDelta, Answering
    <2>2. /\ worker["responder"].turn \in 0..MaxTurns /\ sent \in Nat /\ turn \in Nat
          /\ turnState.taken \in Nat
      <3>1. worker["responder"].turn \in 0..MaxTurns /\ turnState.taken \in Nat
        BY <1>1, JobTypes, Flags
      <3>2. sent \in 0..MaxDeltas /\ turn \in 0..MaxTurns
        BY DEF TypeInv, TypeOK
      <3> QED BY <3>1, <3>2, BoundsAssumption
    <2>3. x \in Delta /\ x.turn = worker["responder"].turn /\ x.n = sent + 1
      BY <2>1, <2>2, BoundsAssumption DEF Delta
    <2> HIDE DEF x
    <2>4. /\ \A p \in DOMAIN deltas' : (p \in DOMAIN deltas /\ deltas'[p] = deltas[p]) \/ deltas'[p] = x
      BY <1>1, <2>1, <2>3, AppendIndex
    <2>5. /\ worker["responder"].turn <= turn
          /\ worker["responder"].stage = "respond"
      BY <1>1, <2>1, JobTypes DEF CallsInv, NoFutureWork, WorkInPlace, Pending, Answering, WorkerOf, Stage
    <2>6. \A p \in DOMAIN deltas' : deltas'[p].turn <= turn
      BY <2>3, <2>4, <2>5 DEF DeltaInv
    <2>7. BeforeResponse => worker["responder"].turn # turn
      <3> SUFFICES ASSUME BeforeResponse, worker["responder"].turn = turn PROVE FALSE
        OBVIOUS
      <3>1. Outstanding(turn, "respond") /\ "respond" \in Stage
        BY <1>1, <2>1, <2>5 DEF Outstanding, Pending, Answering, Stage
      <3>2. MayBeOutstanding("respond")
        BY <3>1 DEF CallsInv, OutstandingKnown
      <3> QED BY <3>2 DEF MayBeOutstanding, BeforeResponse, Calling
    <2>8. BeforeResponse => \A p \in DOMAIN deltas' : deltas'[p].turn # turn
      BY <2>3, <2>4, <2>7 DEF DeltaInv
    <2>9. Streams => turnState.taken <= sent + 1 /\ Unread(deltas', turn, turnState.taken, sent + 1)
      BY <1>1, <2>1, <2>2, <2>3, UnreadAppend DEF DeltaInv
    <2> QED BY <1>1, <1>2, <2>1, <2>6, <2>8, <2>9 DEF DeltaInv, Answering
  <1> QED BY <1>3, <1>4, <1>5 DEF WorkerStep

\* DeltaInv is inductive.
LEMMA DeltaStep == TypeInv /\ CallsInv /\ DeltaInv /\ [Next]_vars => DeltaInv'
  <1> SUFFICES ASSUME TypeInv, CallsInv, DeltaInv, [Next]_vars PROVE DeltaInv'
    OBVIOUS
  <1>1. CASE UNCHANGED vars
    BY <1>1, DeltaFrame DEF vars, channels, BeforeResponse, Streams, Ends, At, Calling
  <1>2. CASE ContextStep(Shutdown) \/ ContextStep(Propagate) \/ ContextStep(Interrupt)
    BY <1>2, DeltaFrame DEF ContextStep, channels, BeforeResponse, Streams, Ends, At, Calling
  <1> QED BY <1>1, <1>2, CoordinatorDelta, WorkerDelta DEF Next, Terminated

LEMMA DeltaInit == Init => DeltaInv
  BY DEF Init, DeltaInv, BeforeResponse, Streams, Ends, At, Calling, NewTurnState, FirstCall

\* Every delta that the responder publishes for a turn reaches the sentence
\* buffer of completeStreamingResponse, once and in order, and none of an older
\* response does.
THEOREM DeltasArriveIntact == Spec => []ReplyDeltasIntact
  <1>1. DeltaInv /\ TypeInv => ReplyDeltasIntact
    <2> SUFFICES ASSUME DeltaInv, TypeInv PROVE ReplyDeltasIntact
      OBVIOUS
    <2>1. ASSUME pc \in {"stream", "drain"}
          PROVE  /\ {deltas[p].n : p \in OwnDeltas} = (turnState.taken + 1)..sent
                 /\ \A p, q \in OwnDeltas : p < q => deltas[p].n < deltas[q].n
      <3>1. Unread(deltas, turn, turnState.taken, sent)
        BY <2>1 DEF DeltaInv, Streams, At
      <3> QED BY <3>1 DEF Unread, OwnDeltas
    <2>2. pc \in {"flush", "finish"} => turnState.taken = sent
      BY DEF DeltaInv, Ends, At
    <2> QED BY <2>1, <2>2 DEF ReplyDeltasIntact
  <1> QED BY <1>1, TypeInit, TypeStep, CallsInit, CallsStep, DeltaInit, DeltaStep, PTL DEF Spec

-----------------------------------------------------------------------------
(* The audio of a turn.                                                    *)

\* Steps that leave the player alone.
LEMMA SessionFrame ==
    ASSUME TypeInv, SessionKnown, UNCHANGED <<turn, player, worker>>,
           results' = results \/ (results # <<>> /\ results' = Tail(results))
    PROVE  SessionKnown' /\ (Silent' <=> Silent)
  <1>1. results \in Seq(StageResult)
    BY DEF TypeInv, TypeOK
  <1>2. \A i \in DOMAIN results' : \E j \in DOMAIN results : results'[i] = results[j]
    BY <1>1, TailIndex
  <1>3. Silent' <=> Silent
    BY DEF Silent, Writing
  <1>4. \A s \in {"play", "finish", "stop"} : Ended(s)' => Ended(s)
    BY <1>2 DEF Ended
  <1> QED BY <1>3, <1>4 DEF SessionKnown

\* The reply goes on, and so does what is known of its audio.
LEMMA ReplyGoesOn ==
    ASSUME SilenceKnown, Silent' <=> Silent, BeforeStop, InTurn', pc' \notin {"done", "fail", "classify"},
           turnState.speaking => turnState'.speaking
    PROVE  SilenceKnown'
  BY DEF SilenceKnown, BeforeStop, InTurn

\* await takes an answer of the player out of its channel.
LEMMA AnswerEnds ==
    ASSUME TypeInv, Receive, Matches(Head(Inbox)), call.stage # "respond"
    PROVE  Ended(call.stage)
  <1>1. results \in Seq(StageResult) /\ results # <<>> /\ Inbox = results
    BY DEF TypeInv, TypeOK, Receive, Inbox
  <1>2. 1 \in DOMAIN results /\ Head(results) = results[1]
    BY <1>1, TailIndex
  <1> QED BY <1>1, <1>2 DEF Ended, Matches

LEMMA AwaitAudio ==
    ASSUME TypeInv, StageInv, AudioInv, AwaitStep, UNCHANGED shared
    PROVE  AudioInv'
  <1>1. /\ pc = "await" /\ Receive /\ UNCHANGED <<turn, player, worker, root>>
        /\ call \in Call /\ call.stage \in Stage /\ turnState \in TurnState
        /\ call.ret \in ReturnPoint /\ WritesReturn
    BY CallTypes DEF AwaitStep, Receive, shared, TypeInv, TypeOK
  <1>3. SessionKnown' /\ (Silent' <=> Silent)
    <2>1. results' = results \/ (results # <<>> /\ results' = Tail(results))
      BY <1>1 DEF Receive, Inbox
    <2> QED BY <1>1, <2>1, SessionFrame DEF AudioInv
  <1>4. ASSUME Silent
        PROVE  AudioInv'
    BY <1>3, <1>4 DEF AudioInv, SilenceKnown
  <1>5. ASSUME BeforeAudio
        PROVE  AudioInv'
    <2>1. ~turnState.speaking /\ BeforeStop
      BY <1>1, <1>5 DEF StageInv, FlagsKnown, BeforeAudio, BeforeStop, Calling, InTurn
    <2> QED BY <1>4, <2>1 DEF AudioInv, SilenceKnown
  <1>6. ASSUME call.stage # "stop", pc' \in {"submit", "stream", "drain", "finish", "abort"},
               turnState.speaking => turnState'.speaking
        PROVE  AudioInv'
    <2>1. BeforeStop /\ InTurn'
      BY <1>1, <1>6 DEF BeforeStop, InTurn, Calling
    <2> QED BY <1>3, <1>6, <2>1, ReplyGoesOn DEF AudioInv
  <1>7. ASSUME Matches(Head(Inbox)), call.stage \in {"play", "finish", "stop"}
        PROVE  AudioInv'
    <2>1. Ended(call.stage)
      BY <1>1, <1>7, AnswerEnds
    <2> QED BY <1>4, <1>7, <2>1 DEF AudioInv, SessionKnown
  <1>8. CASE DiscardResult
    BY <1>1, <1>3, <1>8 DEF DiscardResult, AudioInv, SilenceKnown, BeforeStop, InTurn, Calling
  <1>9. CASE CallFailed
    <2>1. CASE call.stage \in {"synthesize", "write"} /\ call.ret # "buffered"
      BY <1>6, <1>9, <2>1 DEF CallFailed, Unwind
    <2>2. CASE call.stage \in {"capture", "transcribe", "respond"}
               \/ (call.stage = "synthesize" /\ call.ret = "buffered")
      BY <1>1, <1>5, <2>2 DEF BeforeAudio, Calling
    <2>3. CASE call.stage \in {"play", "finish", "stop"}
      BY <1>7, <1>9, <2>3 DEF CallFailed
    <2> QED BY <1>1, <2>1, <2>2, <2>3 DEF Stage, WritesReturn
  <1>10. CASE Noop \/ AfterCapture \/ AfterTranscribe \/ AfterRespond \/ AfterBufferedSynthesis
    <2>1. BeforeAudio
      BY <1>1, <1>10 DEF Noop, AfterCapture, AfterTranscribe, AfterRespond, AfterBufferedSynthesis,
                         Answer, BeforeAudio, Calling
    <2> QED BY <1>5, <2>1
  <1>11. CASE AfterPhraseSynthesis
    <2>1. call.ret \in {"stream", "drain", "finish"} /\ call.stage = "synthesize"
      BY <1>1, <1>11 DEF AfterPhraseSynthesis, Answer, ReturnPoint
    <2>2. CASE PlayPhrases(call.left, call.ret, turnState)
      <3>1. pc' \in {"submit", "stream", "drain", "finish"} /\ (turnState.speaking => turnState'.speaking)
        BY <1>1, <2>1, <2>2, PhrasesGoOn
      <3> QED BY <1>6, <2>1, <3>1
    <2>3. CASE turnState' = [turnState EXCEPT !.speaking = TRUE] /\ Execute("write")
      <3>1. turnState'.speaking /\ pc' = "submit"
        BY <1>1, <2>3, SetSpeaking DEF Execute
      <3> QED BY <1>6, <2>1, <3>1
    <2> QED BY <1>11, <2>2, <2>3 DEF AfterPhraseSynthesis
  <1>12. CASE AfterWrite
    <2>1. call.ret \in {"stream", "drain", "finish"} /\ call.stage = "write"
      BY <1>1, <1>12 DEF AfterWrite, Answer, ReturnPoint, WritesReturn
    <2> DEFINE s == [turnState EXCEPT !.wrote = TRUE]
    <2>2. s \in TurnState /\ s.speaking = turnState.speaking
      BY <1>1, SetWrote, TurnStateTypes
    <2>3. PlayPhrases(call.left, call.ret, s)
      BY <1>12 DEF AfterWrite
    <2> HIDE DEF s
    <2>4. pc' \in {"submit", "stream", "drain", "finish"} /\ (turnState.speaking => turnState'.speaking)
      BY <1>1, <2>1, <2>2, <2>3, PhrasesGoOn
    <2> QED BY <1>6, <2>1, <2>4
  <1>13. CASE AfterPlayback \/ AfterStop
    BY <1>7, <1>13 DEF AfterPlayback, AfterStop, Answer
  <1> QED BY <1>8, <1>9, <1>10, <1>11, <1>12, <1>13 DEF AwaitStep

\* A new job of the player starts in silence, follows the Write before it, or is
\* the Stop that ends the reply.
LEMMA SubmitAudio ==
    ASSUME TypeInv, CallsInv, StageInv, AudioInv, Submit
    PROVE  AudioInv'
  <1>1. /\ call \in Call /\ call.stage \in Stage /\ worker \in [Worker -> Job] /\ pc = "submit"
        /\ turn \in 0..MaxTurns /\ "player" \in Worker
        /\ UNCHANGED <<call, turn, turnState, player, results, root, cause>>
        /\ pc' \in {"stream", "await"} /\ (pc' = "stream" => call.stage = "respond")
        /\ worker' = [worker EXCEPT ![WorkerOf(call.stage)] =
              [mode |-> "busy", turn |-> turn, stage |-> call.stage, out |-> "ok"]]
        /\ worker[WorkerOf(call.stage)].mode = "idle"
    BY CallTypes DEF TypeInv, TypeOK, Submit, channels, Worker
  <1>2. BeforeStop' => BeforeStop
    BY <1>1 DEF BeforeStop, InTurn, Calling
  <1>3. InTurn /\ InTurn' /\ pc' \notin {"done", "fail", "classify"} /\ turn # 0
    BY <1>1 DEF InTurn, StageInv, StateKnown
  <1>4. CASE WorkerOf(call.stage) # "player"
    <2>1. worker'["player"] = worker["player"]
      BY <1>1, <1>4
    <2>2. /\ Silent' <=> Silent
          /\ \A s \in {"play", "finish", "stop"} : Ended(s)' <=> Ended(s)
      BY <1>1, <2>1 DEF Silent, Writing, Ended
    <2> QED BY <1>1, <1>2, <1>3, <2>1, <2>2 DEF AudioInv, SessionKnown, SilenceKnown
  <1>5. CASE WorkerOf(call.stage) = "player"
    <2>1. /\ worker'["player"].mode = "busy" /\ worker'["player"].turn = turn
          /\ worker'["player"].stage = call.stage
      BY <1>1, <1>5
    <2>2. call.stage \in {"play", "write", "finish", "stop"}
      BY <1>1, <1>5 DEF WorkerOf, Stage
    <2>3. ASSUME call.stage # "stop", NEW s \in {"play", "finish", "stop"}, Ended(s)'
          PROVE  FALSE
      <3>1. Outstanding(turn, s) /\ s \in Stage
        BY <1>1, <2>1, <2>3 DEF Ended, Outstanding, Stage
      <3>2. MayBeOutstanding(s)
        BY <3>1 DEF CallsInv, OutstandingKnown
      <3> QED BY <1>1, <2>3, <3>2 DEF MayBeOutstanding
    <2>4. \A s \in {"play", "finish", "stop"} : Ended(s)' => Ended(s)
      BY <1>1, <2>1 DEF Ended
    <2>5. call.stage # "write" => (Silent => Silent')
      BY <1>1, <2>1 DEF Silent, Writing
    <2>6. \A s \in {"play", "finish", "stop"} : Ended(s)' => Silent'
      BY <2>3, <2>4, <2>5 DEF AudioInv, SessionKnown
    <2>7. call.stage = "play" => player # turn
      <3> SUFFICES ASSUME call.stage = "play" PROVE player # turn
        OBVIOUS
      <3>1. BeforeStop /\ ~turnState.speaking
        BY <1>1 DEF BeforeStop, InTurn, Calling, StageInv, FlagsKnown, BeforeAudio
      <3> QED BY <1>3, <3>1 DEF AudioInv, SilenceKnown, Silent
    <2>8. call.stage = "write" => turnState.speaking
      BY <1>1 DEF StageInv, FlagsKnown, Calling
    <2>9. SessionKnown'
      BY <1>1, <2>1, <2>6, <2>7 DEF AudioInv, SessionKnown
    <2>10. SilenceKnown'
      BY <1>1, <1>2, <1>3, <2>5, <2>8 DEF AudioInv, SilenceKnown
    <2> QED BY <2>9, <2>10 DEF AudioInv
  <1> QED BY <1>4, <1>5

\* A call that the coordinator gives up: the turn has been interrupted or the
\* service shuts down, or the audio has not started.
LEMMA CancelledAudio ==
    ASSUME TypeInv, StageInv, ReasonInv, AudioInv, CallCancelled, UNCHANGED shared
    PROVE  AudioInv'
  <1>1. /\ pc \in {"submit", "await"} /\ CallDone /\ Unwind /\ call.stage \in Stage /\ WritesReturn
        /\ UNCHANGED <<call, cause, turn, player, worker, root, results>>
        /\ cause \in {"none", "ended", "interrupted", "cancelled"}
    BY CallTypes DEF CallCancelled, shared, channels, TypeInv, TypeOK
  <1>2. SessionKnown' /\ (Silent' <=> Silent)
    BY <1>1, SessionFrame DEF AudioInv
  <1>3. /\ root \/ cause = "interrupted"
        /\ call.detached => root
    BY <1>1 DEF CallDone, TurnDone, ReasonInv, ContextsKnown, InTurn
  <1>4. CASE call.stage \in {"synthesize", "write"} /\ call.ret # "buffered"
    <2>1. BeforeStop /\ InTurn' /\ pc' = "abort" /\ turnState' = turnState
      BY <1>1, <1>4 DEF BeforeStop, InTurn, Calling, Unwind
    <2> QED BY <1>2, <2>1, ReplyGoesOn DEF AudioInv
  <1>5. CASE \/ call.stage \in {"capture", "transcribe", "respond", "play"}
             \/ call.stage = "synthesize" /\ call.ret = "buffered"
    <2>1. BeforeAudio
      BY <1>1, <1>5 DEF BeforeAudio, Calling
    <2>2. BeforeStop /\ ~turnState.speaking
      BY <1>1, <1>5, <2>1 DEF BeforeStop, InTurn, Calling, StageInv, FlagsKnown
    <2> QED BY <1>2, <2>2 DEF AudioInv, SilenceKnown
  <1>6. CASE call.stage \in {"finish", "stop"}
    <2>1. pc' = "fail"
      BY <1>1, <1>6 DEF Unwind
    <2>2. ~BeforeStop'
      BY <2>1 DEF BeforeStop
    <2> QED BY <1>1, <1>2, <1>3, <1>6, <2>2 DEF AudioInv, SilenceKnown
  <1> QED BY <1>1, <1>4, <1>5, <1>6 DEF Stage, WritesReturn

LEMMA CoordinatorAudio ==
    ASSUME TypeInv, CallsInv, StageInv, ReasonInv, AudioInv, CoordinatorStep
    PROVE  AudioInv'
  <1>1. /\ call \in Call /\ turn \in 0..MaxTurns /\ turnState \in TurnState
        /\ player \in 0..MaxTurns /\ worker \in [Worker -> Job]
    BY DEF TypeInv, TypeOK
  <1>2. ASSUME UNCHANGED <<turn, player, worker, results>>
        PROVE  SessionKnown' /\ (Silent' <=> Silent)
    BY <1>2, SessionFrame DEF AudioInv
  <1>3. ASSUME UNCHANGED <<turn, player, worker, results>>, BeforeStop,
               pc' \in {"submit", "stream", "drain", "flush", "finish", "abort"},
               turnState.speaking => turnState'.speaking
        PROVE  AudioInv'
    <2>1. InTurn'
      BY <1>3 DEF InTurn
    <2> QED BY <1>2, <1>3, <2>1, ReplyGoesOn DEF AudioInv
  <1>4. ASSUME UNCHANGED <<turn, player, worker, results>>, BeforeStop, ~turnState.speaking
        PROVE  AudioInv'
    BY <1>2, <1>4 DEF AudioInv, SilenceKnown
  <1>5. CASE NextTurn
    <2>1. turn' = turn + 1 /\ UNCHANGED <<player, worker, results>>
      BY <1>5 DEF NextTurn, channels
    <2>2. worker["player"].turn \in 0..MaxTurns
      BY <1>1, JobTypes DEF Worker
    <2>3. player <= turn
      BY DEF AudioInv, SessionKnown
    <2>4. player <= turn' /\ player # turn'
      BY <1>1, <2>1, <2>3, BoundsAssumption
    <2>5. Pending(worker["player"]) => worker["player"].turn # turn'
      BY <1>1, <2>1, <2>2, BoundsAssumption DEF CallsInv, NoFutureWork, Worker
    <2>6. Silent'
      BY <2>1, <2>4, <2>5 DEF Silent, Writing, Pending
    <2> QED BY <2>1, <2>4, <2>6 DEF AudioInv, SessionKnown, SilenceKnown
  <1>6. CASE StopWorkers
    BY <1>2, <1>6 DEF StopWorkers, channels, AudioInv, SilenceKnown, BeforeStop, InTurn
  <1>7. CASE Submit
    BY <1>7, SubmitAudio
  <1>8. CASE DirectStop
    <2>1. /\ pc = "abort" /\ pc' = "fail" /\ wdone /\ player' \in {player, 0}
          /\ UNCHANGED <<turn, worker, results, root>>
      BY <1>8 DEF DirectStop, channels, SessionAfterStop
    <2>2. root /\ turn # 0
      BY <2>1 DEF ReasonInv, ContextsKnown, InTurn, StageInv, StateKnown
    <2>3. player' <= turn /\ (player # turn => player' # turn)
      BY <1>1, <2>1, <2>2, BoundsAssumption DEF AudioInv, SessionKnown
    <2>4. (Silent => Silent') /\ \A s \in {"play", "finish", "stop"} : Ended(s)' <=> Ended(s)
      BY <2>1, <2>2, <2>3 DEF Silent, Writing, Ended
    <2>5. SessionKnown'
      BY <2>1, <2>3, <2>4 DEF AudioInv, SessionKnown
    <2>6. ~BeforeStop'
      BY <2>1 DEF BeforeStop
    <2> QED BY <2>1, <2>2, <2>5, <2>6 DEF AudioInv, SilenceKnown
  <1>9. CASE RunReturns /\ UNCHANGED shared
    <2>1. root' /\ ~BeforeStop' /\ UNCHANGED <<turn, player, worker, results>>
      BY <1>9 DEF RunReturns, shared, channels, BeforeStop, InTurn
    <2> QED BY <1>2, <2>1 DEF AudioInv, SilenceKnown
  <1>10. CASE WorkersJoined /\ UNCHANGED shared
    BY <1>2, <1>10 DEF WorkersJoined, shared, channels, AudioInv, SilenceKnown, BeforeStop, InTurn
  <1>11. CASE EnterTurn /\ UNCHANGED shared
    <2>1. pc = "enter" /\ call.stage = "capture" /\ UNCHANGED <<turn, player, worker, results>>
      BY <1>11 DEF EnterTurn, CallsInv, EnterCaptures, shared, channels
    <2>2. BeforeStop /\ ~turnState.speaking
      BY <2>1 DEF BeforeStop, InTurn, Calling, StageInv, FlagsKnown, BeforeAudio
    <2> QED BY <1>4, <2>1, <2>2
  <1>12. CASE CallCancelled /\ UNCHANGED shared
    BY <1>12, CancelledAudio
  <1>13. CASE AwaitStep /\ UNCHANGED shared
    BY <1>13, AwaitAudio
  <1>14. CASE FinishTurn /\ UNCHANGED shared
    <2>1. /\ pc = "done" /\ pc' \in {"fail", "loop"}
          /\ UNCHANGED <<turn, player, worker, results, call, root>>
          /\ pc' = "loop" => cause = "none"
          /\ pc' = "fail" => cause' = cause
      BY <1>14 DEF FinishTurn, TurnDone, EndTurn, shared, channels
    <2>2. call.stage # "finish" => ~turnState.speaking
      BY <2>1 DEF StageInv, FlagsKnown
    <2>3. BeforeStop /\ ~BeforeStop'
      BY <2>1 DEF BeforeStop, InTurn, Calling
    <2> QED BY <1>2, <2>1, <2>2, <2>3 DEF AudioInv, SilenceKnown
  <1>15. CASE (StreamCancelled \/ DeltasDrained \/ TakeResponse) /\ UNCHANGED shared
    <2>1. BeforeStop
      BY <1>15 DEF StreamCancelled, DeltasDrained, TakeResponse, BeforeStop, InTurn, Calling
    <2> QED BY <1>3, <1>15, <2>1 DEF StreamCancelled, DeltasDrained, TakeResponse, shared, channels
  <1>16. CASE TakeDelta /\ UNCHANGED shared
    <2>1. /\ pc \in {"stream", "drain"} /\ UNCHANGED <<turn, player, worker, results>>
      BY <1>16 DEF TakeDelta, shared
    <2>2. BeforeStop
      BY <2>1 DEF BeforeStop, InTurn, Calling
    <2> DEFINE s == [turnState EXCEPT !.deltaSeen = TRUE, !.taken = @ + 1]
    <2>3. s \in TurnState /\ s.speaking = turnState.speaking
      BY <1>1, SetTaken, TurnStateTypes
    <2> HIDE DEF s
    <2>4. UNCHANGED <<pc, turnState>> \/ \E n \in 0..MaxPhrases : PlayPhrases(n, pc, s)
      BY <1>16 DEF TakeDelta, s
    <2>5. pc' \in {"submit", "stream", "drain"} /\ (turnState.speaking => turnState'.speaking)
      BY <1>1, <2>1, <2>3, <2>4, PhrasesGoOn
    <2> QED BY <1>3, <2>1, <2>2, <2>5
  <1>17. CASE FlushSentence /\ UNCHANGED shared
    <2>1. /\ pc = "flush" /\ UNCHANGED <<turn, player, worker, results>>
      BY <1>17 DEF FlushSentence, shared, channels
    <2>2. BeforeStop
      BY <2>1 DEF BeforeStop, InTurn, Calling
    <2>3. pc' \in {"submit", "finish"} /\ (turnState.speaking => turnState'.speaking)
      BY <1>1, <1>17, PhrasesGoOn DEF FlushSentence, SynthesizeBufferedReply
    <2> QED BY <1>3, <2>1, <2>2, <2>3
  <1>18. CASE FinishPlayback /\ UNCHANGED shared
    <2>1. /\ pc = "finish" /\ UNCHANGED <<turn, player, worker, results, turnState>>
          /\ pc' = "submit" \/ (pc' = "done" /\ ~turnState.wrote)
      BY <1>18 DEF FinishPlayback, Execute, shared, channels
    <2>2. BeforeStop /\ (turnState.speaking => turnState.wrote)
      BY <2>1 DEF BeforeStop, InTurn, Calling, StageInv, FlagsKnown
    <2> QED BY <1>3, <1>4, <2>1, <2>2
  <1>19. CASE Abort /\ UNCHANGED shared
    <2>1. /\ pc = "abort" /\ UNCHANGED <<turn, player, worker, results, turnState>>
          /\ (pc' = "submit") \/ ~turnState.speaking
      BY <1>19 DEF Abort, shared, channels
    <2>2. BeforeStop
      BY <2>1 DEF BeforeStop, InTurn, Calling
    <2> QED BY <1>3, <1>4, <2>1, <2>2
  <1>20. CASE (Fail \/ Classify) /\ UNCHANGED shared
    <2>1. /\ pc \in {"fail", "classify"} /\ pc' \in {"classify", "loop", "stopping"}
          /\ UNCHANGED <<turn, player, worker, results, call, root>>
          /\ cause = "interrupted" => cause' = "interrupted"
      BY <1>20 DEF Fail, Classify, EndTurn, shared, channels
    <2>2. ~BeforeStop'
      BY <2>1 DEF BeforeStop, InTurn
    <2> QED BY <1>2, <2>1, <2>2 DEF AudioInv, SilenceKnown
  <1> QED BY <1>5, <1>6, <1>7, <1>8, <1>9, <1>10, <1>11, <1>12, <1>13, <1>14, <1>15, <1>16, <1>17,
             <1>18, <1>19, <1>20 DEF CoordinatorStep

\* What a call of the player leaves in the session.
LEMMA WorkerAudio ==
    ASSUME TypeInv, CallsInv, AudioInv, NEW w \in Worker, WorkerStep(w)
    PROVE  AudioInv'
  <1>1. /\ UNCHANGED <<pc, call, turn, cause, root, turnState>> /\ worker \in [Worker -> Job]
        /\ turn \in 0..MaxTurns /\ player \in 0..MaxTurns /\ results \in Seq(StageResult)
        /\ "player" \in Worker
    BY DEF WorkerStep, TypeInv, TypeOK, Worker
  <1>2. BeforeStop' <=> BeforeStop
    BY <1>1 DEF BeforeStop, InTurn, Calling
  <1>3. InTurn' <=> InTurn
    BY <1>1 DEF InTurn
  <1>4. ASSUME Silent => Silent'
        PROVE  SilenceKnown'
    BY <1>1, <1>2, <1>3, <1>4 DEF AudioInv, SilenceKnown
  <1>5. CASE CallReturns(w)
    <2>1. PICK o : /\ worker' = [worker EXCEPT ![w].mode = "publish", ![w].out = o]
                   /\ player' \in SessionAfter(worker[w].stage, o, worker[w].turn, player)
      BY <1>5 DEF CallReturns, PlayerAfter
    <2>2. results' = results /\ worker[w].mode = "busy"
      BY <1>5 DEF CallReturns, channels
    <2>3. WorkerOf(worker[w].stage) = w /\ worker[w].turn <= turn /\ worker[w].stage \in Stage
          /\ worker[w].turn \in 0..MaxTurns
      BY <1>1, <2>2, JobTypes DEF CallsInv, WorkInPlace, NoFutureWork, Pending
    <2>4. CASE w # "player"
      <3>1. worker'["player"] = worker["player"]
        BY <1>1, <2>1, <2>4
      <3>2. player' = player
        BY <2>1, <2>3, <2>4 DEF WorkerOf, Stage, SessionAfter, PlayerOp
      <3>3. (Silent' <=> Silent) /\ \A s \in {"play", "finish", "stop"} : Ended(s)' <=> Ended(s)
        BY <1>1, <2>2, <3>1, <3>2 DEF Silent, Writing, Ended
      <3> QED BY <1>1, <1>4, <3>1, <3>2, <3>3 DEF AudioInv, SessionKnown
    <2>5. CASE w = "player"
      <3>1. /\ worker'["player"].mode = "publish"
            /\ worker'["player"].turn = worker["player"].turn
            /\ worker'["player"].stage = worker["player"].stage
        BY <1>1, <2>1, <2>5 DEF Job
      <3>2. ~Writing'
        BY <3>1 DEF Writing
      <3>3. player' \in {worker["player"].turn, player, 0}
        BY <2>1, <2>5 DEF SessionAfter
      <3>4. player' <= turn
        BY <1>1, <2>3, <2>5, <3>3, BoundsAssumption DEF AudioInv, SessionKnown
      <3>5. SUFFICES (\A s \in {"play", "finish", "stop"} : Ended(s)' => Silent') /\ (Silent => Silent')
        BY <1>1, <1>4, <3>1, <3>4 DEF AudioInv, SessionKnown
      <3>6. CASE worker["player"].turn # turn
        <4>1. Silent => Silent'
          BY <1>1, <3>2, <3>3, <3>6 DEF Silent
        <4>2. \A s \in {"play", "finish", "stop"} : Ended(s)' => Ended(s)
          BY <1>1, <2>2, <3>1, <3>6 DEF Ended
        <4> QED BY <4>1, <4>2 DEF AudioInv, SessionKnown
      <3>7. CASE worker["player"].turn = turn /\ worker["player"].stage = "write"
        <4>1. ~Silent
          BY <2>2, <2>5, <3>7 DEF Silent, Writing
        <4>2. \A s \in {"play", "finish", "stop"} : Ended(s)' => Ended(s)
          BY <1>1, <2>2, <3>1, <3>7 DEF Ended
        <4> QED BY <4>1, <4>2 DEF AudioInv, SessionKnown
      <3>8. CASE worker["player"].turn = turn /\ worker["player"].stage = "play"
        <4>1. player # turn
          BY <2>2, <2>5, <3>8 DEF AudioInv, SessionKnown
        <4>2. player' \in {player, 0}
          BY <2>1, <2>5, <3>8 DEF SessionAfter, PlayerOp
        <4> QED BY <1>1, <3>2, <4>1, <4>2 DEF Silent
      <3>9. CASE worker["player"].turn = turn /\ worker["player"].stage \in {"finish", "stop"}
        <4>1. player' = 0
          BY <2>1, <2>5, <3>9 DEF SessionAfter, PlayerOp
        <4> QED BY <1>1, <3>2, <4>1 DEF Silent
      <3>10. worker["player"].stage \in {"play", "write", "finish", "stop"}
        BY <2>3, <2>5 DEF WorkerOf, Stage
      <3> QED BY <3>6, <3>7, <3>8, <3>9, <3>10
    <2> QED BY <2>4, <2>5
  <1>6. CASE Publish(w)
    <2> DEFINE r == [turn |-> worker[w].turn, stage |-> worker[w].stage, out |-> worker[w].out]
    <2>1. r \in StageResult /\ r.turn = worker[w].turn /\ r.stage = worker[w].stage
      BY <1>1, JobTypes DEF StageResult
    <2> HIDE DEF r
    <2>2. /\ worker[w].mode = "publish" /\ worker'[w].mode = "idle" /\ player' = player
          /\ \A u \in Worker : u # w => worker'[u] = worker[u]
      BY <1>1, <1>6 DEF Publish, IdleWorker
    <2>3. results' = results \/ results' = Append(results, r)
      BY <1>6 DEF Publish, r
    <2>4. \A i \in DOMAIN results' :
             (i \in DOMAIN results /\ results'[i] = results[i]) \/ results'[i] = r
      BY <1>1, <2>1, <2>3, MaybeAppended
    <2>5. WorkerOf(worker[w].stage) = w
      BY <2>2 DEF CallsInv, WorkInPlace, Pending
    <2>6. Writing' <=> Writing
      BY <1>1, <2>2 DEF Writing
    <2>7. ASSUME NEW s \in {"play", "finish", "stop"}, Ended(s)'
          PROVE  Ended(s)
      <3>1. CASE \E i \in DOMAIN results : results[i].turn = turn /\ results[i].stage = s
        BY <3>1 DEF Ended
      <3>2. CASE r.turn = turn /\ r.stage = s
        <4>1. w = "player"
          BY <2>1, <2>5, <2>7, <3>2 DEF WorkerOf
        <4> QED BY <2>1, <2>2, <3>2, <4>1 DEF Ended
      <3>3. CASE /\ worker'["player"].mode = "publish" /\ worker'["player"].turn = turn
                 /\ worker'["player"].stage = s
        <4>1. worker'["player"] = worker["player"]
          BY <1>1, <2>2, <3>3
        <4> QED BY <3>3, <4>1 DEF Ended
      <3> QED BY <1>1, <2>4, <2>7, <3>1, <3>2, <3>3 DEF Ended
    <2>8. Silent' <=> Silent
      BY <1>1, <2>2, <2>6 DEF Silent
    <2>9. worker'["player"].mode = "busy" => worker'["player"] = worker["player"]
      BY <1>1, <2>2
    <2> QED BY <1>1, <1>4, <2>2, <2>7, <2>8, <2>9 DEF AudioInv, SessionKnown
  <1>7. CASE PublishDelta
    <2>1. UNCHANGED <<turn, player, worker, results>>
      BY <1>1, <1>7 DEF PublishDelta
    <2> QED BY <1>4, <2>1, SessionFrame DEF AudioInv
  <1> QED BY <1>5, <1>6, <1>7 DEF WorkerStep

\* AudioInv is inductive.
LEMMA AudioStep ==
    TypeInv /\ CallsInv /\ StageInv /\ ReasonInv /\ AudioInv /\ [Next]_vars => AudioInv'
  <1> SUFFICES ASSUME TypeInv, CallsInv, StageInv, ReasonInv, AudioInv, [Next]_vars PROVE AudioInv'
    OBVIOUS
  <1>1. CASE UNCHANGED vars
    BY <1>1, SessionFrame DEF vars, channels, AudioInv, SilenceKnown, BeforeStop, InTurn, Calling
  <1>2. CASE ContextStep(Shutdown) \/ ContextStep(Propagate) \/ ContextStep(Interrupt)
    <2>1. /\ UNCHANGED <<pc, call, turn, turnState, player, worker, results>>
          /\ Shutdown \/ PropagateToWorkers \/ PropagateToTurn \/ Interrupt
      BY <1>2 DEF ContextStep, Propagate, channels
    <2>2. /\ root => root'
          /\ cause = "interrupted" => root' \/ cause' = "interrupted"
      BY <2>1 DEF Shutdown, PropagateToWorkers, PropagateToTurn, Interrupt
    <2>3. SessionKnown' /\ (Silent' <=> Silent)
      BY <2>1, SessionFrame DEF AudioInv
    <2> QED BY <2>1, <2>2, <2>3 DEF AudioInv, SilenceKnown, BeforeStop, InTurn, Calling
  <1> QED BY <1>1, <1>2, CoordinatorAudio, WorkerAudio DEF Next, Terminated

LEMMA AudioInit == Init => AudioInv
  BY DEF Init, IdleWorker, FirstCall, NewTurnState, AudioInv, SessionKnown, SilenceKnown, Silent,
         Writing, Ended, BeforeStop, InTurn, Calling, Worker

\* Unless the user interrupts or the service shuts down, the session of the turn
\* holds audio only while the recorder discards the microphone: the gate closes
\* before the first Write and no error of a stage opens it over a session.
THEOREM AudibleIsGated == Spec => []MicGatedWhileAudible
  <1>1. TypeInv /\ StageInv /\ AudioInv => MicGatedWhileAudible
    <2> SUFFICES ASSUME TypeInv, StageInv, AudioInv,
                        player # 0, player = turn, cause # "interrupted", ~root, ~suppressed
                 PROVE  FALSE
      BY DEF MicGatedWhileAudible, TypeInv, TypeOK
    <2>1. ~Silent
      BY DEF Silent
    <2>2. InTurn /\ pc \notin {"fail", "classify"}
      BY <2>1 DEF AudioInv, SilenceKnown
    <2>3. ~turnState.speaking
      BY <2>2 DEF StageInv, StateKnown
    <2>4. BeforeStop
      BY <2>2, <2>3 DEF BeforeStop, StageInv, FlagsKnown
    <2> QED BY <2>1, <2>3, <2>4 DEF AudioInv, SilenceKnown
  <1> QED BY <1>1, TypeInit, TypeStep, CallsInit, CallsStep, StageInit, StageStep, ReasonInit,
             ReasonStep, AudioInit, AudioStep, PTL DEF Spec

\* When Run goes on after an interruption, abortStreamingPlayback has ended the
\* session of the interrupted reply and no Write of it can start another, except
\* in the windows of the final Finish and of a Stop under the turn's own context.
THEOREM AbortSilences == Spec => []AbortStopsAudio
  <1>1. StageInv /\ AudioInv => AbortStopsAudio
    BY DEF StageInv, StateKnown, AudioInv, SilenceKnown, Silent, Writing, InTurn, AbortStopsAudio
  <1> QED BY <1>1, TypeInit, TypeStep, CallsInit, CallsStep, StageInit, StageStep, ReasonInit,
             ReasonStep, AudioInit, AudioStep, PTL DEF Spec

=============================================================================
