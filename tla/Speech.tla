------------------------------- MODULE Speech -------------------------------
(***************************************************************************)
(* The speech-to-text worker and those who share it: the transcript bridge *)
(* of internal/application/transcript.go, whose preview and final decodes  *)
(* are ordered by decodeMu, and the transcriptions of the barge-in         *)
(* controller. The coordinator is reduced to what drives them: its turns,  *)
(* their contexts, the Listening and Stopping shown, the transcription    *)
(* stage and the end of Run. A text is named after the call it answers.    *)
(***************************************************************************)
EXTENDS InferenceWorker

CONSTANT MaxTurns  \* bound: turns of the coordinator; Callers bounds the previews
                   \* and the candidates that are transcribed

Turn == 1..MaxTurns

ASSUME SpeechAssumption ==
    /\ MaxTurns \in Nat \ {0}
    /\ {"final"} \X Turn \subseteq Callers
    /\ Callers \subseteq {"preview", "final", "barge"} \X Turn

VARIABLES
    bridge,    \* turnID, and whether cancel is set
    previewCtx, turnCtx,  \* contexts: "none", "live", "interrupted", "ended"
    preview,   \* decodePreview of each turn
    final,     \* Transcribe of each turn: where it is, and the turnID it read
    decodeMu,  \* its holder
    snapshot,  \* the channel of one holds a snapshot
    shown,     \* history: the turn of the last final event, or 0
    turn, phase, stopped  \* the coordinator

bridgeVars == <<bridge, previewCtx, preview, final, decodeMu, snapshot, shown>>
turnVars == <<turnCtx, turn, phase, stopped>>
vars == <<workerVars, bridgeVars, turnVars>>

\* Types; the bridge never knows a turn that has not begun.
SpeechTypeOK ==
    /\ WorkerTypeOK
    /\ bridge \in [turnID : 0..MaxTurns, cancel : BOOLEAN]
    /\ previewCtx \in [Turn -> {"none", "live", "ended"}]
    /\ turnCtx \in [Turn -> {"none", "live", "interrupted", "ended"}]
    /\ preview \in [Turn -> {"off", "select", "mutex", "decode", "emit"}]
    /\ final \in [Turn -> [pc : {"off", "taken", "mutex", "decode", "cancel", "emit", "done", "failed"},
                           id : 0..MaxTurns]]
    /\ decodeMu \in Callers \cup {Nobody} /\ snapshot \in BOOLEAN
    /\ shown \in 0..MaxTurns
    /\ turn \in 0..MaxTurns /\ stopped \in BOOLEAN
    /\ phase \in {"loop", "listen", "capture", "transcribe", "speak", "fail", "end", "down"}

Init ==
    /\ WorkerInit
    /\ bridge = [turnID |-> 0, cancel |-> FALSE]
    /\ previewCtx = [t \in Turn |-> "none"] /\ turnCtx = [t \in Turn |-> "none"]
    /\ preview = [t \in Turn |-> "off"] /\ final = [t \in Turn |-> [pc |-> "off", id |-> 0]]
    /\ decodeMu = Nobody /\ snapshot = FALSE /\ shown = 0
    /\ turn = 0 /\ phase = "loop" /\ stopped = FALSE

Transcribing == {t \in Turn : final[t].pc \notin {"off", "done", "failed"}}

\* The context of a call.
Over(c) == IF c[1] = "preview" THEN previewCtx[c[2]] # "live" ELSE turnCtx[c[2]] # "live"

-----------------------------------------------------------------------------
(* The bridge.                                                             *)

startPreview(t) ==
    /\ previewCtx' = [u \in Turn |-> IF u = t THEN "live"
                                     ELSE IF bridge.cancel /\ u = bridge.turnID THEN "ended"
                                     ELSE previewCtx[u]]
    /\ bridge' = [turnID |-> t, cancel |-> TRUE]
    /\ preview' = [preview EXCEPT ![t] = "select"]

cancelPreview(id) ==
    IF bridge.turnID = id /\ bridge.cancel
    THEN /\ bridge' = [bridge EXCEPT !.cancel = FALSE]
         /\ previewCtx' = [previewCtx EXCEPT ![id] = "ended"]
    ELSE UNCHANGED <<bridge, previewCtx>>

\* The select takes either of two ready cases.
PreviewReceives(t) ==
    /\ preview[t] = "select"
    /\ \/ Over(<<"preview", t>>) /\ preview' = [preview EXCEPT ![t] = "off"] /\ UNCHANGED snapshot
       \/ /\ snapshot /\ <<"preview", t>> \in Callers
          /\ preview' = [preview EXCEPT ![t] = "mutex"] /\ snapshot' = FALSE
    /\ UNCHANGED <<workerVars, bridge, previewCtx, final, decodeMu>>

PreviewLocks(t) ==
    LET me == <<"preview", t>> IN
    /\ preview[t] = "mutex" /\ decodeMu = Nobody
    /\ IF Over(me) \/ bridge.turnID # t
       THEN preview' = [preview EXCEPT ![t] = "off"] /\ UNCHANGED <<decodeMu, workerVars>>
       ELSE preview' = [preview EXCEPT ![t] = "decode"] /\ decodeMu' = me /\ Transcribe(me)
    /\ UNCHANGED <<bridge, previewCtx, final, snapshot>>

PreviewLeaves(t) ==
    /\ preview' = [preview EXCEPT ![t] = "off"] /\ decodeMu' = Nobody
    /\ Taken(<<"preview", t>>)

\* Mutant: the lock covers the decode alone, as it does in Transcribe.
PreviewDecodedUnlocks(t) ==
    LET me == <<"preview", t>> IN
    /\ preview[t] = "decode" /\ call[me].pc = "returned"
    /\ \/ PreviewLeaves(t)
       \/ /\ call[me].got # Nobody /\ ~Over(me) /\ bridge.turnID = t
          /\ preview' = [preview EXCEPT ![t] = "emit"] /\ decodeMu' = Nobody /\ UNCHANGED workerVars
    /\ UNCHANGED <<bridge, previewCtx, final, snapshot>>

\* A text may be blank. The checks after the decode are made in one step; the
\* event comes later.
PreviewDecoded(t) ==
    LET me == <<"preview", t>> IN
    /\ preview[t] = "decode" /\ call[me].pc = "returned"
    /\ \/ PreviewLeaves(t)
       \/ /\ call[me].got # Nobody /\ ~Over(me) /\ bridge.turnID = t
          /\ preview' = [preview EXCEPT ![t] = "emit"] /\ UNCHANGED <<decodeMu, workerVars>>
    /\ UNCHANGED <<bridge, previewCtx, final, snapshot>>

\* decodeMu is held until OnTranscript has returned.
PreviewEmits(t) ==
    /\ preview[t] = "emit" /\ PreviewLeaves(t)
    /\ UNCHANGED <<bridge, previewCtx, final, snapshot>>

PreviewStep(t) ==
    /\ PreviewReceives(t) \/ PreviewLocks(t) \/ PreviewDecoded(t) \/ PreviewEmits(t)
    /\ UNCHANGED <<shown, turnVars>>

\* Mutant: the number of the turn to come.
FinalBeginsNext(t) ==
    /\ final[t].pc = "taken" /\ final' = [final EXCEPT ![t] = [pc |-> "mutex", id |-> bridge.turnID + 1]]
    /\ UNCHANGED <<workerVars, bridge, previewCtx, decodeMu>>

\* currentTurn is read when Transcribe begins.
FinalBegins(t) ==
    /\ final[t].pc = "taken" /\ final' = [final EXCEPT ![t] = [pc |-> "mutex", id |-> bridge.turnID]]
    /\ UNCHANGED <<workerVars, bridge, previewCtx, decodeMu>>

FinalLocks(t) ==
    /\ final[t].pc = "mutex" /\ decodeMu = Nobody /\ decodeMu' = <<"final", t>>
    /\ final' = [final EXCEPT ![t].pc = "decode"] /\ Transcribe(<<"final", t>>)
    /\ UNCHANGED <<bridge, previewCtx>>

FinalDecoded(t) ==
    /\ final[t].pc = "decode" /\ call[<<"final", t>>].pc = "returned"
    /\ final' = [final EXCEPT ![t].pc = "cancel"] /\ decodeMu' = Nobody
    /\ UNCHANGED <<workerVars, bridge, previewCtx>>

\* A result that nobody awaits any more is discarded by its TurnID.
Result(t, pc) == [pc |-> IF turn = t /\ phase = "transcribe" THEN pc ELSE "off", id |-> 0]

\* The preview of the turn is cancelled whether the decode failed or not.
FinalCancels(t) ==
    /\ final[t].pc = "cancel" /\ cancelPreview(final[t].id)
    /\ IF call[<<"final", t>>].got = Nobody
       THEN final' = [final EXCEPT ![t] = Result(t, "failed")] /\ Taken(<<"final", t>>)
       ELSE final' = [final EXCEPT ![t].pc = "emit"] /\ UNCHANGED workerVars
    /\ UNCHANGED decodeMu

FinalEmits(t) ==
    /\ final[t].pc = "emit" /\ final' = [final EXCEPT ![t] = Result(t, "done")] /\ Taken(<<"final", t>>)
    /\ shown' = final[t].id
    /\ UNCHANGED <<bridge, previewCtx, decodeMu>>

FinalStep(t) ==
    /\ \/ (FinalBegins(t) \/ FinalLocks(t) \/ FinalDecoded(t) \/ FinalCancels(t)) /\ UNCHANGED shown
       \/ FinalEmits(t)
    /\ UNCHANGED <<preview, snapshot, turnVars>>

-----------------------------------------------------------------------------
(* The barge-in controller: one candidate of a turn is transcribed, and    *)
(* its text may confirm the interruption of the turn, which ends the       *)
(* subscription.                                                           *)

\* A candidate is heard while the assistant speaks; one of an earlier turn may come
\* at any time.
BargeDecodes(t) ==
    /\ <<"barge", t>> \in Callers /\ (phase = "speak" \/ t > 1)
    /\ turnCtx[t] = "live" /\ Transcribe(<<"barge", t>>)
    /\ UNCHANGED <<bridgeVars, turnVars>>

BargeDecoded(t) ==
    LET me == <<"barge", t>> IN
    /\ me \in Callers /\ call[me].pc = "returned" /\ call[me].got # Nobody
    /\ call' = [call EXCEPT ![me].got = Nobody]
    /\ \/ UNCHANGED turnCtx
       \/ turnCtx[t] = "live" /\ turnCtx' = [turnCtx EXCEPT ![t] = "interrupted"]
    /\ UNCHANGED <<worker, proc, strays, closer, noise, bridgeVars, turn, phase, stopped>>

-----------------------------------------------------------------------------
(* The coordinator.                                                        *)

TurnOver == turnCtx[turn] # "live"

\* runTurn up to its Listening event.
TurnBegins ==
    /\ phase = "loop" /\ ~stopped /\ turn < MaxTurns
    /\ turn' = turn + 1 /\ phase' = "listen" /\ turnCtx' = [turnCtx EXCEPT ![turn'] = "live"]
    /\ startPreview(turn')
    /\ UNCHANGED <<workerVars, final, decodeMu, snapshot, shown, stopped>>

\* Next drops the snapshots of an earlier capture; without a context it returns.
CaptureBegins ==
    /\ phase = "listen"
    /\ \/ ~TurnOver /\ snapshot' = FALSE /\ phase' = "capture"
       \/ TurnOver /\ phase' = "fail" /\ UNCHANGED snapshot
    /\ UNCHANGED <<workerVars, bridge, previewCtx, preview, final, decodeMu, shown,
                   turnCtx, turn, stopped>>

\* The recorder publishes while Next waits; the newest snapshot stays.
SnapshotPublished ==
    /\ phase = "capture" /\ snapshot' = TRUE
    /\ UNCHANGED <<workerVars, bridge, previewCtx, preview, final, decodeMu, shown, turnVars>>

\* An utterance goes to the transcription stage once its goroutine is free; the
\* capture may also fail, or return nothing.
CaptureEnds ==
    /\ phase = "capture"
    /\ \/ /\ ~TurnOver /\ Transcribing = {} /\ phase' = "transcribe"
          /\ final' = [final EXCEPT ![turn].pc = "taken"]
       \/ phase' = "fail" /\ UNCHANGED final
       \/ ~TurnOver /\ phase' = "end" /\ UNCHANGED final
    /\ UNCHANGED <<workerVars, bridge, previewCtx, preview, decodeMu, snapshot, shown,
                   turnCtx, turn, stopped>>

\* Nothing to answer ends the turn; otherwise agent, synthesis and playback.
TranscriptionEnds ==
    /\ phase = "transcribe"
    /\ \/ final[turn].pc = "done" /\ phase' \in {"end", "speak"}
       \/ (final[turn].pc = "failed" \/ TurnOver) /\ phase' = "fail"
    /\ final' = [final EXCEPT ![turn].pc = IF @ \in {"done", "failed"} THEN "off" ELSE @]
    /\ UNCHANGED <<workerVars, bridge, previewCtx, preview, decodeMu, snapshot, shown,
                   turnCtx, turn, stopped>>

ResponseEnds ==
    /\ phase = "speak" /\ phase' \in {"end", "fail"}
    /\ UNCHANGED <<workerVars, bridgeVars, turnCtx, turn, stopped>>

\* A failure is announced as Stopping when the service ends; then the context of
\* the turn ends.
TurnEnds ==
    /\ phase \in {"fail", "end"} /\ phase' = "loop"
    /\ LET stopping == phase = "fail" /\ turnCtx[turn] = "ended" IN
       /\ bridge' = [bridge EXCEPT !.cancel = @ /\ ~stopping]
       /\ previewCtx' = [previewCtx EXCEPT ![turn] = IF stopping THEN "ended" ELSE @]
    /\ turnCtx' = [turnCtx EXCEPT ![turn] = "ended"]
    /\ UNCHANGED <<workerVars, preview, final, decodeMu, snapshot, shown, turn, stopped>>

Shutdown ==
    /\ ~stopped /\ phase # "down" /\ stopped' = TRUE
    /\ turnCtx' = [t \in Turn |-> IF turnCtx[t] = "live" THEN "ended" ELSE turnCtx[t]]
    /\ UNCHANGED <<workerVars, bridgeVars, turn, phase>>

\* Run waits for its transcription goroutine; then the workers are closed.
RunReturns ==
    /\ phase = "loop" /\ stopped /\ Transcribing = {} /\ phase' = "down" /\ CloseBegins
    /\ UNCHANGED <<bridgeVars, turnCtx, turn, stopped>>

TurnStep ==
    \/ CaptureBegins \/ CaptureEnds \/ TranscriptionEnds \/ ResponseEnds
    \/ TurnEnds \/ RunReturns

-----------------------------------------------------------------------------
WorkerMoves(A) == A /\ UNCHANGED <<bridgeVars, turnVars>>

CallMoves(c) == WorkerMoves(CallStep(c, Over(c)))

Goroutines ==
    \/ TurnStep \/ WorkerMoves(CloseStep)
    \/ \E t \in Turn : PreviewStep(t) \/ FinalStep(t)
    \/ \E c \in Callers : CallMoves(c)

Next ==
    \/ Goroutines \/ TurnBegins \/ Shutdown \/ SnapshotPublished
    \/ \E t \in Turn : BargeDecodes(t) \/ BargeDecoded(t)
    \/ WorkerMoves(ProcessStep)

Spec == Init /\ [][Next]_vars

\* Some goroutine moves as long as one can: each has finitely many steps to make in a
\* turn, so all of them do. Nothing is assumed of the process: it may neither answer
\* nor exit.
FairSpec == Spec /\ WF_vars(Goroutines)

-----------------------------------------------------------------------------
(* Properties.                                                             *)

\* A caller of the worker gets the text of its own audio or an error, whatever
\* was cancelled, printed, answered late or restarted between its request and its
\* response; and a final transcript keeps the TurnID of its turn, although
\* Transcribe reads it when it begins, which may be in a later turn.
TextOfOwnAudio ==
    /\ \A c \in Callers : call[c].got \in {c, Nobody}
    /\ \A t \in Turn : final[t].pc = "emit" => final[t].id = t

\* A process that is not the one in service has been killed: a crash, a failed or
\* cancelled call, a restart and Close leave none behind to compute for nobody.
NoStrayWorker ==
    /\ strays = 0
    /\ proc.st = "running" => worker.live \/ proc.killed
    /\ closer = "stopped" => ~worker.live

\* Final transcripts come in the order of the turns, one per turn, and a preview
\* never comes behind the final transcript of a later turn: decodeMu is held until
\* the preview has been shown.
TranscriptsInOrder ==
    \A t \in Turn :
        /\ preview[t] = "emit" => shown <= t
        /\ final[t].pc = "emit" => shown < final[t].id

\* A signal ends the service and closes the worker although the process may hang,
\* unless a preview that nobody has cancelled holds it.
HungWorkerDoesNotBlockShutdown ==
    stopped /\ (\A t \in Turn : previewCtx[t] # "live") ~> closer = "stopped"
=============================================================================
