---------------------------- MODULE VoiceInput ----------------------------
(***************************************************************************)
(* The recorder with the barge-in controller of                            *)
(* internal/application/barge_in.go, one subscription per turn on the      *)
(* shared channel of candidates, and the part of the coordinator that      *)
(* drives them: it subscribes, captures, closes the microphone gate while  *)
(* it speaks, and opens it when the turn ends.                             *)
(***************************************************************************)
EXTENDS Recorder

CONSTANT MaxTurns  \* bound: turns of the coordinator

ASSUME VoiceInputAssumption == MaxTurns \in Nat \ {0}

Turn == 1..MaxTurns

VARIABLES
    phase,  \* where the coordinator is in its turn
    stopped,  \* the context of the service has ended
    ctx,    \* the context of each turn: "live", "interrupted" or "ended"
    sub,    \* the goroutine of each subscription: where it is, and the turn in
            \* which the candidate it works on was heard
    heard   \* history: the turn in which the candidate of an interruption was heard

turnVars == <<phase, stopped, ctx, sub, heard>>
vars == <<recorderVars, turnVars>>

Init ==
    /\ RecorderInit
    /\ phase = "loop" /\ ctx = [t \in Turn |-> "ended"]
    /\ sub = [t \in Turn |-> [pc |-> "off", from |-> 0]]
    /\ stopped = FALSE /\ heard = 0

Over(t) == ctx[t] # "live"

-----------------------------------------------------------------------------
(* The turns of the coordinator.                                           *)

\* watchInterrupts subscribes before the turn emits its first state.
TurnBegins ==
    /\ phase = "loop" /\ turn < MaxTurns /\ ~stopped
    /\ turn' = turn + 1 /\ phase' = "open"
    /\ ctx' = [ctx EXCEPT ![turn'] = "live"]
    /\ sub' = [sub EXCEPT ![turn'].pc = "select"]
    /\ UNCHANGED <<reader, preRoll, utterances, partials, candidates, sourceErr, mic, flags,
                   next, reports, closing, starts, counts, stopped, heard>>

\* idle at the beginning of a turn opens the gate, and so does every end.
Open(from, to) ==
    /\ phase = from /\ StoreSuppressed(FALSE)
    /\ phase' = to /\ UNCHANGED <<turn, stopped, ctx, sub, heard>>

Flush(from, to) ==
    /\ phase = from /\ FlushCandidates
    /\ phase' = to /\ UNCHANGED <<turn, stopped, ctx, sub, heard>>

GateOpens == Open("open", "flush") \/ Open("end", "flushed")

GateFlushes == Flush("flush", "listen") \/ Flush("flushed", "ended")

\* The capture is submitted, or refused because the turn is over.
CaptureBegins ==
    /\ phase = "listen"
    /\ \/ ~Over(turn) /\ NextStep(NextBegins) /\ phase' = "capture"
       \/ Over(turn) /\ phase' = "end" /\ UNCHANGED recorderVars
    /\ UNCHANGED <<stopped, ctx, sub, heard>>

\* Audio leads to transcription, agent and synthesis; an error, or the end of
\* the context, ends the turn while Next may still be on its way back.
CaptureEnds ==
    /\ phase = "capture"
    /\ \/ next.pc = "idle" /\ phase' = IF next.out = "utterance" THEN "respond" ELSE "end"
       \/ Over(turn) /\ phase' = "end"
    /\ UNCHANGED <<recorderVars, stopped, ctx, sub, heard>>

\* The assistant speaks, or has nothing to say.
Speaks ==
    /\ phase = "respond"
    /\ \/ ~Over(turn) /\ StoreSuppressed(TRUE) /\ phase' = "speak" /\ UNCHANGED turn
       \/ phase' = "end" /\ UNCHANGED recorderVars
    /\ UNCHANGED <<stopped, ctx, sub, heard>>

SpeechEnds ==
    /\ phase = "speak" /\ phase' = "end"
    /\ UNCHANGED <<recorderVars, stopped, ctx, sub, heard>>

\* The deferred cancel; the capture worker has to be free for the next turn.
TurnEnds ==
    /\ phase = "ended" /\ phase' = "loop"
    /\ ctx' = [ctx EXCEPT ![turn] = IF @ = "live" THEN "ended" ELSE @]
    /\ heard' = 0
    /\ UNCHANGED <<recorderVars, stopped, sub>>

\* The signal ends the context of the service and of its turn.
Shutdown ==
    /\ ~stopped /\ stopped' = TRUE
    /\ ctx' = [t \in Turn |-> IF ctx[t] = "live" THEN "ended" ELSE ctx[t]]
    /\ UNCHANGED <<recorderVars, phase, sub, heard>>

TurnStep ==
    \/ TurnBegins \/ GateOpens \/ GateFlushes \/ CaptureBegins \/ CaptureEnds
    \/ Speaks \/ SpeechEnds \/ TurnEnds \/ Shutdown

\* The capture worker inside Next, under the context of the turn that called it.
CaptureWorker ==
    /\ NextStep(Peek) \/ NextStep(EnsureRunning)
       \/ NextStep(Wait(Over(next.turn)))
    /\ UNCHANGED turnVars

-----------------------------------------------------------------------------
(* The subscriptions.                                                      *)

\* The select of Subscribe: the end of the context, or a candidate.
Select(t) ==
    /\ sub[t].pc = "select"
    /\ \/ /\ Over(t) /\ sub' = [sub EXCEPT ![t].pc = "off"]
          /\ UNCHANGED candidates
       \/ /\ candidates # <<>>
          /\ sub' = [sub EXCEPT ![t] = [pc |-> "decode", from |-> Head(candidates)]]
          /\ candidates' = Tail(candidates)
    /\ UNCHANGED <<ctx, heard>>

\* Transcription and Confirm: an error under an ended context ends the
\* subscription, another one or a transcript without a stop command is skipped.
\* A confirmed one goes to the goroutine of watchInterrupts, which cancels the
\* turn; an ended context keeps its cause.
Decode(t) ==
    /\ sub[t].pc = "decode"
    /\ \/ sub' = [sub EXCEPT ![t] = [pc |-> "select", from |-> 0]] /\ UNCHANGED <<ctx, heard>>
       \/ /\ sub' = [sub EXCEPT ![t] = [pc |-> "off", from |-> 0]]
          /\ ctx' = [ctx EXCEPT ![t] = IF @ = "live" THEN "interrupted" ELSE @]
          /\ heard' = IF Over(t) THEN heard ELSE sub[t].from
    /\ UNCHANGED candidates

Subscription(t) ==
    /\ Select(t) \/ Decode(t)
    /\ UNCHANGED <<reader, preRoll, utterances, partials, sourceErr, mic, flags, next,
                   reports, closing, starts, counts, turn, phase, stopped>>
-----------------------------------------------------------------------------
MicStep(A) == A /\ UNCHANGED turnVars

\* main closes the recorder after the service has stopped; the recorder does not
\* rely on the coordinator having finished. Then nothing is left to do.
Terminated == closing = "done" /\ phase = "loop" /\ UNCHANGED vars

Next ==
    \/ TurnStep \/ CaptureWorker
    \/ \E t \in Turn : Subscription(t)
    \/ MicStep(ReadLoop) \/ MicStep(ReaderFails) \/ MicStep(ArecordDies)
    \/ MicStep(PreviewTaken) \/ MicStep(stopped /\ Close)
    \/ Terminated

Spec == Init /\ [][Next]_vars

-----------------------------------------------------------------------------
(* Properties.                                                             *)

\* The type invariant; the channels keep to their capacity.
VoiceInputTypeOK ==
    /\ reader \in [pc : {"off", "begin", "read", "hear", "offer", "preview", "publish", "drop",
                        "resend", "failed", "stop"},
                   from : 0..MaxTurns, size : 0..3, audio : Kept, sent : BOOLEAN, was : BOOLEAN,
                   barge : {"warmup", "armed", "recording"}, finish : BOOLEAN, last : BOOLEAN,
                   seen : Nat]
    /\ stretches \in Nat /\ preRoll \in Kept /\ mic \in {"none", "alive", "dead"}
    /\ utterances \in Seq(1..MaxUtterances) /\ Len(utterances) <= QueueDepth
    /\ partials \in 0..1 /\ sourceErr \in BOOLEAN
    /\ candidates \in Seq(Turn) /\ Len(candidates) <= CandidateDepth
    /\ running \in BOOLEAN /\ closed \in BOOLEAN /\ suppressed \in BOOLEAN /\ waiting \in BOOLEAN
    /\ next \in [pc : {"idle", "peek", "ensure", "wait"},
                 out : {"none", "utterance", "error"}, turn : 0..MaxTurns]
    /\ reports \in 0..MaxStarts /\ starts \in 0..MaxStarts
    /\ closing \in {"no", "stop", "join", "done"}
    /\ dropped \in 0..MaxUtterances /\ published \in 0..MaxUtterances
    /\ taken \subseteq 1..MaxUtterances /\ turn \in 0..MaxTurns
    /\ phase \in {"loop", "open", "flush", "listen", "capture", "respond", "speak", "end",
                  "flushed", "ended"}
    /\ ctx \in [Turn -> {"live", "interrupted", "ended"}]
    /\ sub \in [Turn -> [pc : {"off", "select", "decode"}, from : 0..MaxTurns]]
    /\ heard \in 0..MaxTurns /\ stopped \in BOOLEAN

\* No recording spans chunks that readLoop discarded, or two arecord processes: once
\* a chunk has been heard while the gate was closed, neither the recording that was
\* in progress nor the pre-roll goes on into later speech, wherever the gate moves
\* while a chunk is processed.
NoMixedAudio == reader.audio # "stale"

\* Every utterance is returned by Next, waits in the channel in the order of
\* speech, or is counted by DroppedUtterances, although Next takes utterances
\* between the selects of publishUtterance; the newest is never the one dropped.
UtterancesAccounted ==
    LET inHand == IF reader.pc \in {"drop", "resend"} THEN 1 ELSE 0 IN
    /\ published = Cardinality(taken) + dropped + Len(utterances) + inHand
    /\ \A i \in 1..(Len(utterances) - 1) : utterances[i] < utterances[i + 1]
    /\ published > 0 /\ inHand = 0 /\ published \notin taken
          => utterances # <<>> /\ utterances[Len(utterances)] = published

\* A turn never waits for a microphone that is gone: while Next waits, a reader
\* is running or its error is on the way, whatever earlier turns and processes
\* left in the channel. Only Close ends this, and then the context returns Next.
NoDeafWait ==
    next.pc = "wait" /\ ~closed => reader.pc # "off" \/ sourceErr \/ reports > 0

\* When Close has returned nothing uses the detector it released, and no arecord
\* process is left, although Next may have been about to start one.
CloseIsFinal ==
    closing = "done" => reader.pc = "off" /\ reports = 0 /\ mic = "none" /\ ~running

-----------------------------------------------------------------------------
(* A statement of the repository's documents that the code does not keep.  *)

\* docs/refactor/WI-11C1_SPEC.md: old events and candidates cannot affect the
\* next turn. The candidate behind an interruption was heard in the turn that
\* it interrupts.
OldCandidatesHarmless == heard # 0 => heard = turn

-----------------------------------------------------------------------------
(* What readLoop does not see.                                             *)

\* No recording spans a stretch in which the assistant spoke, however short. The
\* flag is loaded once for each chunk: a recording goes on, and the pre-roll stays,
\* over a stretch that begins and ends between two chunks.
NoRecordingSpansSpeech == reader.audio \notin {"slipped", "stale"}
=============================================================================
