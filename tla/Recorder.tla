----------------------------- MODULE Recorder -----------------------------
(***************************************************************************)
(* The continuous recorder of internal/audio/continuous_capture.go: one    *)
(* arecord process, the goroutine of readLoop, the Next call of the        *)
(* capture worker, the bounded channels between them, and Close.           *)
(*                                                                         *)
(* A recording is its size and how old its first audio is, next to the     *)
(* stretches in which the gate was closed; the verdicts of the voice       *)
(* activity detector and of the energy gate are choices.                   *)
(***************************************************************************)
EXTENDS Integers, Sequences, FiniteSets

CONSTANTS
    QueueDepth,      \* capacity of the utterances channel
    CandidateDepth,  \* capacity of the bargeCandidates channel
    MaxUtterances,   \* bound: utterances published
    MaxStarts        \* bound: arecord processes started

ASSUME RecorderAssumption ==
    /\ QueueDepth \in Nat \ {0} /\ CandidateDepth \in Nat \ {0}
    /\ MaxUtterances \in Nat /\ MaxStarts \in Nat \ {0}

VARIABLES
    reader,      \* the goroutine of readLoop and its local variables
    preRoll,     \* chunks kept from before the speech
    utterances,  \* channel of utterances, numbered as they are published
    partials,    \* number of snapshots in the channel of one
    candidates,  \* channel of barge-in candidates, each with the turn it was heard in
    sourceErr,   \* an error is in the channel of one
    mic,         \* the arecord process: "none", "alive" or "dead"
    running, closed, suppressed, waiting,  \* fields of ContinuousRecorder
    stretches,   \* history: how often the gate has been closed
    next,        \* the Next call: where it is, for which turn, how the latest one ended
    reports,     \* readers past sourceFailed's lock that have not sent their error
    closing,     \* the progress of Close
    starts,      \* arecord processes started
    dropped,     \* the counter behind DroppedUtterances
    published, taken,  \* history: utterances published, and the ones Next returned
    turn         \* history: the turn of the coordinator

gate == <<suppressed, stretches>>
flags == <<running, closed, waiting, gate>>
counts == <<dropped, published, taken>>
recorderVars == <<reader, preRoll, utterances, partials, candidates, sourceErr, mic,
                  flags, next, reports, closing, starts, counts, turn>>

\* size: 0 nothing, 1 too short to publish, 2 an utterance, 3 long enough for a
\* preview; audio: how old the recording is; sent, was, barge: partialSent,
\* wasSuppressed, bargeCaptureState; last: the read failed after its chunk; from:
\* the turn in which a candidate was heard; seen: history, the stretches there had
\* been when the latest chunk was heard.
NewReader == [pc |-> "begin", from |-> 0, size |-> 0, audio |-> "empty", sent |-> FALSE,
              was |-> FALSE, barge |-> "warmup", finish |-> FALSE, last |-> FALSE, seen |-> 0]

NoReader == [NewReader EXCEPT !.pc = "off"]

RecorderInit ==
    /\ reader = NoReader /\ preRoll = "empty"
    /\ utterances = <<>> /\ partials = 0 /\ candidates = <<>> /\ sourceErr = FALSE
    /\ mic = "none" /\ running = FALSE /\ closed = FALSE /\ waiting = FALSE
    /\ suppressed = FALSE /\ stretches = 0
    /\ next = [pc |-> "idle", out |-> "none", turn |-> 0]
    /\ reports = 0 /\ closing = "no" /\ starts = 0
    /\ dropped = 0 /\ published = 0 /\ taken = {} /\ turn = 0

\* Kept audio, by what lies between it and the chunk that is heard now: nothing
\* ("fresh"), a stretch that began and ended between two chunks ("slipped"), or
\* the restart of arecord or chunks that were heard while the gate was closed
\* ("stale").
Kept == {"empty", "fresh", "slipped", "stale"}

\* What was kept, once such a gap has passed.
Aged(kept, gap) ==
    CASE kept = "empty"             -> "empty"
      [] "stale" \in {kept, gap}    -> "stale"
      [] "slipped" \in {kept, gap}  -> "slipped"
      [] OTHER                      -> "fresh"

-----------------------------------------------------------------------------
(* readLoop.                                                               *)

\* wasSuppressed is read when the goroutine runs.
ReaderBegins ==
    /\ reader.pc = "begin"
    /\ reader' = [reader EXCEPT !.pc = "read", !.was = suppressed, !.seen = stretches]
    /\ UNCHANGED <<preRoll, utterances, partials, candidates, mic, counts>>

\* io.ReadFull: a chunk, or what was left of the stream, possibly nothing.
Read ==
    /\ reader.pc = "read"
    /\ \/ mic = "alive" /\ reader' = [reader EXCEPT !.pc = "hear"]
       \/ mic # "alive" /\ reader' = [reader EXCEPT !.pc = "hear", !.last = TRUE]
       \/ mic # "alive" /\ reader' = [reader EXCEPT !.pc = "failed"]
    /\ UNCHANGED <<preRoll, utterances, partials, candidates, mic, counts>>

AfterChunk(r) == [r EXCEPT !.pc = IF r.last THEN "failed" ELSE "read", !.finish = FALSE, !.from = 0]

\* processBargeChunk: warm up, wait for loud speech, record it, hand it over.
BargeStates(b) == CASE b = "warmup"    -> {"warmup", "armed"}
                    [] b = "armed"     -> {"armed", "recording"}
                    [] b = "recording" -> {"recording", "ready"}

\* Mutant: the recording in progress is not dropped when the gate closes.
HearSuppressedKeepsRecording ==
    /\ reader.pc = "hear" /\ suppressed
    /\ preRoll' = IF reader.was THEN Aged(preRoll, "stale") ELSE "empty"
    /\ partials' = 0
    /\ \E b \in BargeStates(IF reader.was THEN reader.barge ELSE "warmup") :
          LET held == [reader EXCEPT !.was = TRUE, !.audio = Aged(@, "stale"), !.seen = stretches] IN
          reader' = IF b = "ready" THEN [held EXCEPT !.pc = "offer", !.barge = "warmup", !.from = turn]
                                   ELSE AfterChunk([held EXCEPT !.barge = b])
    /\ UNCHANGED <<utterances, candidates, mic, counts>>

HearSuppressed ==
    /\ reader.pc = "hear" /\ suppressed
    /\ preRoll' = IF reader.was THEN Aged(preRoll, "stale") ELSE "empty"
    /\ partials' = 0
    /\ \E b \in BargeStates(IF reader.was THEN reader.barge ELSE "warmup") :
          LET quiet == [reader EXCEPT !.was = TRUE, !.size = 0, !.audio = "empty",
                                      !.sent = FALSE, !.seen = stretches] IN
          reader' = IF b = "ready" THEN [quiet EXCEPT !.pc = "offer", !.barge = "warmup", !.from = turn]
                                   ELSE AfterChunk([quiet EXCEPT !.barge = b])
    /\ UNCHANGED <<utterances, candidates, mic, counts>>

\* Mutant: a full channel is not noticed.
OfferUnbounded ==
    /\ reader.pc = "offer"
    /\ candidates' = Append(candidates, reader.from)
    /\ reader' = AfterChunk(reader)
    /\ UNCHANGED <<preRoll, utterances, partials, mic, counts>>

\* publishBargeCandidate: the oldest candidate makes room.
Offer ==
    /\ reader.pc = "offer"
    /\ candidates' = Append(IF Len(candidates) < CandidateDepth THEN candidates
                            ELSE Tail(candidates), reader.from)
    /\ reader' = AfterChunk(reader)
    /\ UNCHANGED <<preRoll, utterances, partials, mic, counts>>

\* processChunk, with the speech and endpoint verdicts of the detector: what the
\* recording may become. It starts with the pre-roll, and a chunk need not take
\* it past the next length that matters.
Record(kept, speaking, r) ==
    IF ~speaking THEN {r}
    ELSE IF r.size = 0
         THEN {[r EXCEPT !.size = n, !.audio = IF kept = "empty" THEN "fresh" ELSE kept] :
                  n \in IF kept = "empty" THEN {1} ELSE {1, 2}}
         ELSE {[r EXCEPT !.size = n] : n \in {r.size, IF r.size < 3 THEN r.size + 1 ELSE 3}}

HearFree ==
    /\ reader.pc = "hear" /\ ~suppressed
    /\ \E speaking, finish \in BOOLEAN :
          /\ finish => published < MaxUtterances
          /\ LET gap  == IF reader.seen = stretches THEN "fresh" ELSE "slipped"
                 kept == IF reader.was THEN "empty" ELSE Aged(preRoll, gap)
                 r    == [reader EXCEPT !.was = FALSE, !.pc = "preview", !.finish = finish,
                                        !.barge = IF reader.was THEN "warmup" ELSE @,
                                        !.audio = Aged(@, gap), !.seen = stretches] IN
             /\ reader' \in Record(kept, speaking, r)
             /\ preRoll' = CASE reader.size = 0 /\ speaking  -> "empty"
                             [] reader.size = 0 /\ ~speaking -> IF kept = "empty" THEN "fresh" ELSE kept
                             [] OTHER                        -> kept
    /\ UNCHANGED <<utterances, partials, candidates, mic, counts>>

\* maybePublishPartial: one snapshot of a long recording, while Next waits.
Preview ==
    /\ reader.pc = "preview"
    /\ LET send == waiting /\ ~reader.sent /\ reader.size = 3
           r    == [reader EXCEPT !.sent = @ \/ send] IN
       /\ partials' = IF send THEN 1 ELSE partials
       /\ reader' = IF reader.finish THEN [r EXCEPT !.pc = "publish"] ELSE AfterChunk(r)
    /\ UNCHANGED <<preRoll, utterances, candidates, mic, counts>>

\* The recording is over, published or not.
EndRecording ==
    /\ reader' = AfterChunk([reader EXCEPT !.size = 0, !.audio = "empty", !.sent = FALSE])
    /\ preRoll' = "empty"

\* publishUtterance, first select: there is room, or the recording is too short.
Publish ==
    /\ reader.pc = "publish"
    /\ \/ reader.size < 2 /\ EndRecording /\ UNCHANGED <<utterances, published>>
       \/ /\ reader.size >= 2
          /\ published' = published + 1
          /\ IF Len(utterances) < QueueDepth
             THEN EndRecording /\ utterances' = Append(utterances, published')
             ELSE reader' = [reader EXCEPT !.pc = "drop"] /\ UNCHANGED <<preRoll, utterances>>
    /\ UNCHANGED <<partials, candidates, mic, dropped, taken>>

\* Mutant: the utterance that makes room is not counted.
DropOldestUncounted ==
    /\ reader.pc = "drop"
    /\ utterances' = IF utterances = <<>> THEN <<>> ELSE Tail(utterances)
    /\ reader' = [reader EXCEPT !.pc = "resend"]
    /\ UNCHANGED <<preRoll, partials, candidates, mic, counts>>

\* Second select: Next may have made room in the meantime.
DropOldest ==
    /\ reader.pc = "drop"
    /\ IF utterances = <<>>
       THEN UNCHANGED <<utterances, dropped>>
       ELSE utterances' = Tail(utterances) /\ dropped' = dropped + 1
    /\ reader' = [reader EXCEPT !.pc = "resend"]
    /\ UNCHANGED <<preRoll, partials, candidates, mic, published, taken>>

\* Third select: only this goroutine sends, so there is room.
Resend ==
    /\ reader.pc = "resend"
    /\ utterances' = Append(utterances, published)
    /\ EndRecording
    /\ UNCHANGED <<partials, candidates, mic, counts>>

ReadLoop ==
    /\ ReaderBegins \/ Read \/ HearSuppressed \/ Offer \/ HearFree \/ Preview
       \/ Publish \/ DropOldest \/ Resend
    /\ UNCHANGED <<sourceErr, flags, next, reports, closing, starts, turn>>

\* The end of the loop: a reader of a closed recorder just returns.
ReadFailed ==
    /\ reader.pc = "failed"
    /\ reader' = IF closed THEN NoReader ELSE [reader EXCEPT !.pc = "stop"]
    /\ UNCHANGED <<mic, running, reports>>

\* Mutant: the end of the source is not reported.
SourceFailedSilently ==
    /\ reader.pc = "stop"
    /\ mic' = "none" /\ running' = FALSE
    /\ reader' = NoReader
    /\ UNCHANGED reports

\* sourceFailed: stop the process and, under the lock, forget it.
SourceFailed ==
    /\ reader.pc = "stop"
    /\ mic' = "none" /\ running' = FALSE
    /\ reader' = NoReader
    /\ reports' = IF closed THEN reports ELSE reports + 1

\* After the lock the error is sent, unless one is waiting already.
Report ==
    /\ reports > 0
    /\ reports' = reports - 1 /\ sourceErr' = TRUE
    /\ UNCHANGED <<reader, mic, running>>

ReaderFails ==
    /\ ((ReadFailed \/ SourceFailed) /\ UNCHANGED sourceErr) \/ Report
    /\ UNCHANGED <<preRoll, utterances, partials, candidates, closed, gate, waiting,
                   next, closing, starts, counts, turn>>

\* arecord ends: unplugged, killed or failed.
ArecordDies ==
    /\ mic = "alive" /\ mic' = "dead"
    /\ UNCHANGED <<reader, preRoll, utterances, partials, candidates, sourceErr, flags, next,
                   reports, closing, starts, counts, turn>>

-----------------------------------------------------------------------------
(* Next.                                                                   *)

NextReturns(o) == next' = [pc |-> "idle", out |-> o, turn |-> 0] /\ waiting' = FALSE

TakeUtterance ==
    /\ utterances # <<>>
    /\ utterances' = Tail(utterances) /\ taken' = taken \cup {Head(utterances)}
    /\ NextReturns("utterance")

NextBegins ==
    /\ next.pc = "idle"
    /\ next' = [pc |-> "peek", out |-> "none", turn |-> turn] /\ waiting' = TRUE /\ partials' = 0
    /\ UNCHANGED <<reader, preRoll, utterances, sourceErr, mic, running, starts, taken>>

\* Speech that is already queued comes before the state of the source.
Peek ==
    /\ next.pc = "peek"
    /\ \/ TakeUtterance
       \/ /\ utterances = <<>> /\ next' = [next EXCEPT !.pc = "ensure"]
          /\ UNCHANGED <<utterances, waiting, taken>>
    /\ UNCHANGED <<reader, preRoll, partials, sourceErr, mic, running, starts>>

\* A new process, with nothing left of the one before.
StartReader ==
    /\ mic' = "alive" /\ running' = TRUE /\ starts' = starts + 1
    /\ reader' = NewReader /\ preRoll' = "empty"

\* ensureRunning, under the lock.
EnsureRunning ==
    /\ next.pc = "ensure"
    /\ \/ closed /\ NextReturns("error") /\ UNCHANGED <<reader, preRoll, mic, running, starts>>
       \/ /\ ~closed /\ running
          /\ next' = [next EXCEPT !.pc = "wait"]
          /\ UNCHANGED <<reader, preRoll, mic, running, starts, waiting>>
       \/ /\ ~closed /\ ~running /\ NextReturns("error")
          /\ UNCHANGED <<reader, preRoll, mic, running, starts>>
       \/ /\ ~closed /\ ~running /\ starts < MaxStarts
          /\ next' = [next EXCEPT !.pc = "wait"]
          /\ StartReader
          /\ UNCHANGED waiting
    /\ UNCHANGED <<utterances, partials, sourceErr, taken>>

\* The select of Next, with the context of its turn.
Wait(ctxDone) ==
    /\ next.pc = "wait"
    /\ \/ TakeUtterance /\ UNCHANGED sourceErr
       \/ /\ sourceErr /\ sourceErr' = FALSE
          /\ NextReturns("error") /\ UNCHANGED <<utterances, taken>>
       \/ /\ ctxDone
          /\ NextReturns("error") /\ UNCHANGED <<utterances, sourceErr, taken>>
    /\ UNCHANGED <<reader, preRoll, partials, mic, running, starts>>

NextStep(A) ==
    A /\ UNCHANGED <<candidates, closed, gate, reports, closing, dropped, published, turn>>

-----------------------------------------------------------------------------
(* SetSuppressed, Close and the preview consumer.                          *)

\* SetSuppressed stores the flag; releasing it then flushes the candidates.
StoreSuppressed(s) ==
    /\ suppressed' = s /\ stretches' = IF s THEN stretches + 1 ELSE stretches
    /\ UNCHANGED <<reader, preRoll, utterances, partials, candidates, sourceErr, mic, running,
                   closed, waiting, next, reports, closing, starts, counts>>

FlushCandidates ==
    /\ candidates' = <<>>
    /\ UNCHANGED <<reader, preRoll, utterances, partials, sourceErr, mic, flags, next,
                   reports, closing, starts, counts>>

\* The transcript bridge takes the snapshot.
PreviewTaken ==
    /\ partials = 1 /\ partials' = 0
    /\ UNCHANGED <<reader, preRoll, utterances, candidates, sourceErr, mic, flags, next,
                   reports, closing, starts, counts, turn>>

\* Mutant: the readers are not joined.
CloseWithoutJoin ==
    /\ \/ closing = "no" /\ closing' = "stop" /\ closed' = TRUE /\ running' = FALSE /\ UNCHANGED mic
       \/ closing = "stop" /\ closing' = "done" /\ mic' = "none" /\ UNCHANGED <<closed, running>>
    /\ UNCHANGED <<reader, preRoll, utterances, partials, candidates, sourceErr, gate,
                   waiting, next, reports, starts, counts, turn>>

\* Close: mark and take the process under the lock, stop it, join the readers;
\* then the detector is released.
Close ==
    /\ \/ closing = "no" /\ closing' = "stop" /\ closed' = TRUE /\ running' = FALSE /\ UNCHANGED mic
       \/ closing = "stop" /\ closing' = "join" /\ mic' = "none" /\ UNCHANGED <<closed, running>>
       \/ /\ closing = "join" /\ reader.pc = "off" /\ reports = 0
          /\ closing' = "done" /\ UNCHANGED <<closed, running, mic>>
    /\ UNCHANGED <<reader, preRoll, utterances, partials, candidates, sourceErr, gate,
                   waiting, next, reports, starts, counts, turn>>
=============================================================================
