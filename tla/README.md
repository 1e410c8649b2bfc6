# A TLA+ model of the xarlatan voice assistant

This directory models the concurrent core of xarlatan, a local voice assistant
written in Go. It holds the specifications, the configurations TLC checks them
with, and theorems that TLAPS proves. `PROJECT.json` maps every definition to
the lines it translates and lists the runs, the mutants, the findings, the
hazards and the theorems.

## The system

A voice turn is capture → transcription → wake gate → agent → synthesis →
playback. `cmd/assistant/main.go` composes the parts and calls
`Coordinator.Run` until a signal arrives.

| component | state it keeps | operations | talks to |
|---|---|---|---|
| coordinator (`internal/application/coordinator.go`, `interrupt.go`, `wake.go`) | turn, turn context, streaming state, five workers, channels `results`, `responses`, `deltas` | `Run`, `runTurn`, `submit`, `await`, `publish`, `publishDelta`, `abortStreamingPlayback`, `fail` | every other part, through the workers; the observer; the interrupt source |
| capture gate (`cmd/assistant/capture_gate_observer.go`) | none; it sets the recorder's `suppressed` | `OnEvent` | called by every state the coordinator emits |
| ACP client and runtime (`internal/acp`) | session, request counter, `promptBusy`, `closed`, the child process | `StartRuntime`, `Initialize`, `RespondStream`, `Close` | responder worker, agent process over two pipes |
| playback (`internal/audio/playback.go`) | one aplay session, its lock, `closed` | `Play`, `Write`, `Finish`, `Stop`, `Close` | playback worker; `Stop` also from the coordinator |
| continuous recorder (`internal/audio/continuous_capture.go`) | arecord process, recording, queues of utterances, partials and barge candidates | `Next`, `SetSuppressed`, `readLoop`, `Close` | capture worker, gate, bridge, barge controller |
| barge-in controller (`application/barge_in.go`, `internal/barge`) | one subscription per turn | `Subscribe` | recorder's candidates, recognizer, coordinator |
| transcript bridge (`application/transcript.go`) | current turn, its preview and its cancel | `OnEvent`, `Transcribe`, `ConsumeFirstSTTPartial` | recorder's partials, recognizer, observer |
| llama server manager (`internal/llm/server_manager.go`) | process state machine | `Start`, `WaitReady`, `Wait`, `Stop` | owned server process |
| inference worker (`internal/inference`) | child process, client, `live`, `closed` | `Transcribe`, `Synthesize`, `Close` | owned Python process |
| memory, session, agent loop, tools (`internal/memory`, `conversation`, `orchestrator`, `tools`) | history and snapshot under budgets | `Update`, `Prepare`, `Respond`, `run` | sequential, called by the responder |
| sentence buffer, wake detector, VAD, pre-roll | small buffers | pure steps | coordinator, recorder |

What is hard here: the coordinator abandons calls instead of waiting for them,
so answers of old turns are still on their way while a new turn runs; the end
of a context reaches its children one by one and is classified after the fact;
an interruption may arrive at any instruction; the agent writes into a pipe
that outlives the call that reads it; one recognizer process serves previews,
final transcripts and interruptions, and whoever is cancelled kills it for the
others; memory is rewritten before the turn it makes room for has succeeded; and
five kinds of child process must be gone when the service returns.

## The modules

### `Coordinator`

One goroutine (`pc`, `call`, `err`, `turnState`), five workers (`worker`), the
three channels, the contexts (`root`, `wdone`, `cause`), the observer (`state`,
`suppressed`) and the playback session as the turn whose audio it holds
(`player`).

* A step of the coordinator goes from one channel operation, context check or
  emission that others can see to the next. `Submit` is the rendezvous on an unbuffered
  job channel; `AwaitStep` receives one result and continues up to the next
  call; `CallCancelled`, `StreamCancelled`, `TakeDelta` and `TakeResponse` are
  the cases of the `select` statements, chosen freely when several are ready.
* `EnterTurn`, `FinishTurn`, `Abort`, `Fail` and `Classify` are steps of their
  own because each reads a context that another goroutine may end in between.
* `Emit` is the observer chain: the state and the microphone gate.
* `CallReturns(w)` is the return of a dependency with any outcome it can have;
  `PlayerAfter` says what `Playback` then holds; `Publish` and `PublishDelta`
  are the sends of the workers.
* `Shutdown`, `PropagateToWorkers` and `PropagateToTurn` are the signal and its
  propagation to the two child contexts; `Interrupt` is the goroutine of
  `watchInterrupts`, in the lifecycle states `InterruptStates`.

Audio, transcripts and replies are the outcome of the call that produces them;
a delta is a turn and a position. The sentence buffer is a choice of how many
phrases a delta completes. `wake_detected` is emitted between `transcribing`
and `thinking` in one step and is not kept. `RunTurn`, which only tests call, is
left out.

### `AcpClient`

`StartRuntime` and `Runtime.Close` (`runtime`, `closed`, `child`), the calls of
`RespondStream` (`pc`, `req`, `out`, `answer`, `streamed`, `busy`), the cancel
goroutine of every prompt (`watcher`, `cancelled`, `ctx`), the two pipes, and
the agent as an external process: it serves prompts in order, reads its input
at any time, streams chunks, asks for permission while it serves a prompt, obeys a cancellation or
not (the length of its answers is free), and may crash, answer with an error or write a line that is not JSON.
A caller begins
another call only when the context of its previous one has ended, which is how
the coordinator's responder worker uses the client. `Runtime.Close` starts only
when every call has returned, because `main` defers it behind `Coordinator.Run`,
which joins its workers.

### `Playback`, `Player`, `PlaybackEffects`

`PlaybackEffects` says what an operation of the player may leave in the
session; `Coordinator` uses it for the outcome of its playback jobs
(`PlayerAfter`, `DirectStop`), and `Player` is the abstract specification built
from it: one operation at a time, begun and returned, a context that ends, a
`Stop` from outside. `Playback` is the code: the operations of the playback
worker step by step (`Check` before the lock, `Ensure`, `Replace` and `Start`
inside `ensureSession`, `Pipe` and `Unpipe` for a write and its cancellation,
`Take`, `Drain`, `Undrain` and `Guard` for `Finish`, `StopTakes` and
`StopReturns`), the coordinator's own `Stop` during shutdown and `main`'s
`Close` (`OtherTakes`, `OtherKills`, `OtherReturns`), and aplay processes that
read, drain, fail, stall and are collected. `ImplementsPlayer` maps an operation
in progress to the session it began with, so its effect becomes visible when it
returns; it is the justification of what `Coordinator` assumes.

`writeMu` is always taken before `mu`, so one lock stands for both. A `Kill` of
the program's own child is assumed not to fail. `PlayRaw` is left out.

### `Recorder`, `VoiceInput`

`Recorder` is `continuous_capture.go`: the arecord process (`mic`), the goroutine
of `readLoop` with its local variables (`reader`), the pre-roll, the channels of
utterances, previews, barge-in candidates and source errors, the atomic flags,
the call of `Next` and the progress of `Close`.

* `Read`, `HearSuppressed` and `HearFree` are one chunk on its way through the
  loop; the chunk is judged under the flag as it was loaded, and `Offer`,
  `Preview` and `Publish`, `DropOldest`, `Resend` are the later steps, between
  which the gate, `Next` and the consumers move. `Publish`, `DropOldest` and
  `Resend` are the three `select` statements of `publishUtterance`; the ones of
  `publishBargeCandidate` and `publishPartial` are one step each.
* `ReadFailed`, `SourceFailed` and `Report` are the end of a reader: after the
  lock of `sourceFailed` a new process may already run when the error is sent.
* `NextBegins`, `Peek`, `EnsureRunning` and `Wait` are `Next`.
* `StoreSuppressed` and `FlushCandidates` are the two halves of `SetSuppressed`.
* What is kept of earlier audio is a history: `reader.audio` and `preRoll` say what
  lies between the oldest chunk they hold and the chunk that is heard now. Nothing
  does (`fresh`), or a stretch of the closed gate that no chunk was heard in
  (`slipped`), or discarded chunks or a restart (`stale`). It is brought up to date
  at every chunk, for a recording in progress as for the pre-roll; `stretches`
  counts how often the gate was closed, and `reader.seen` is the count at the latest
  chunk.

`VoiceInput` adds the barge-in controller, one subscription goroutine per turn
on the shared channel (`Select`, `Decode`), and the part of the coordinator that
drives both: subscribe, open the gate, capture, speak, open the gate again. It
may abandon a capture, as `Coordinator` does, and the next turn then waits for
the worker. A candidate is the turn in which it was heard, and an utterance its
number; what the detector, the energy gate and the stop policy decide is chosen
freely. `Close` may begin any time after the signal, which is earlier than
`main` calls it. A turn that is interrupted before its first check ends like any
other here; that `Run` then returns is the business of `Coordinator`.

### `ServerManager`, `Memory`, `AgentSession`, `LegacyAgent`

The local agent that `newLegacyAgentRuntime` composes.

* `ServerManager` is the owner of llama-server: `state`, the process and the
  goroutine of `waitProcess`, and `at`, where the goroutine that starts and stops
  it is. `Probe`, `EarlyExit` and `PublishReady` are the loop of `WaitReady`;
  `StopBegins`, `StopWaited`, `TermTimeout`, `Kill` and `KillTimeout` are `stop`.
  `waitProcess` stores its result and closes `waitDone` in two steps, and a
  process is reaped before both; a probe may be answered by another server on the
  same port (`foreign`).
* `Memory` is `Prepare` and `Update` as operators, because both hold the
  manager's lock throughout. A text is a sequence of units, each with the turn it
  comes from and the bytes it takes in JSON: a budget counts JSON, a truncation
  counts text, and the two differ for whatever JSON escapes. Validation, eviction
  of whole turns beside a reserve, summary, truncation and the last check are the
  code's; a summary names its parts by labels of one unit.
* `AgentSession` is `Session.respond` with the rounds of `AgentRuntime.run` and
  the executor. The context of the turn is read where the code reads it, so a
  cancellation lands between any two of those points. Which tools are registered
  follows `buildRegistry`; a denied or unknown tool answers with an error message.
* `LegacyAgent` lets turns begin once `WaitReady` has returned, lets the model
  answer only while some server does, and closes the server when no turn runs.

The reply deltas of the model are not forwarded here: `Coordinator` and `TurnText`
deal with deltas. Traces, logs and the decoding of the event stream are left out.

### `InferenceWorker`, `Speech`

`InferenceWorker` is `internal/inference`: the process and its two pipes (`proc`),
the worker's `live`, `closed` and number of starts, each call from `opMu` to its
return (`call`), and `Close`. `Write` and `Read` are the goroutine of a call inside
`Client.call`; `abortProcess` is the other branch of the `select`, which may win
although the answer is there; `stopLocked` is its bounded waits and its kill. A
frame carries the caller whose audio it is about, so that an answer in the wrong
hands shows. The process may answer with an error, print a line of its own, crash
or never move. Operations of the process are only explored while some call holds
`opMu`: nobody looks at it otherwise.

`Speech` adds those who share the recognizer: the transcript bridge, with
`decodeMu`, the turn number and the contexts of its previews, and the barge-in
controller, and reduces the coordinator to its turns, contexts and the end of
`Run`. Interruptions before the entry check and deadline errors of the responder,
which end the service, are `Coordinator`'s. The synthesizer's worker runs the same
code with one caller and is not instantiated.

### `TurnText`

The pure text algorithms of a turn as operators on sequences: `Detect`, `Confirm`
and `applyWakeGate` on words and punctuation, `Push` and `Flush` of the sentence
buffer on runes. What a word is after normalisation is a function given by the
run. The loops of the code, of the tokenizer and of `takeReady`, are recursive
functions over the length of their input.

### Proof and model-checking modules

`CoordinatorProofs`, `AcpClientProofs`, `PlaybackProofs`, `VoiceInputProofs`,
`SpeechProofs`, `LegacyAgentProofs` and `TurnTextProofs` extend their component and
`TLAPS`. `SequenceFacts` is what the last two share: induction over sequences and
recursive functions, and the equations of `FlattenSeq`.
`MCCoordinator`, `MCAcpClient`, `MCPlayback`, `MCVoiceInput`, `MCLegacyAgent`,
`MCSpeech` and `MCTurnText` are the roots of the runs; the `.cfg` files give the constants.

## The runs

Passing runs:

| run | checks | shows |
|---|---|---|
| `coordinator` | `TypeOK`, `CallsCorrelated`, `ReplyDeltasIntact`, `ListeningNotDeaf`, `ServiceEndsForAReason`, `MicGatedWhileAudible`, `AbortStopsAudio`, `StatesAdvance` | two turns, all failures, interruption in every state, shutdown at any point: 1.8 million states |
| `coordinator_liveness` | `InterruptEndsTurn`, `ServiceStops` | an interrupted turn ends even if all dependencies but the player hang; if they return, the workers are joined and `Run` returns |
| `acp_client` | `AcpTypeOK`, `ReplyOwnAndComplete`, `OneReader`, `CloseLeavesNoChild` | two concurrent callers, two prompts, all agent faults: 2.7 million states |
| `acp_client_liveness` | `PromptReturns` | permissions, crashes and a pipe of one line never hold a call for good |
| `playback` | `PlaybackTypeOK`, `NoOrphanProcess`, `ClosedForGood`, `CancelledCallReturns`, `ImplementsPlayer` | no aplay process is leaked or restarted after `Close`, a cancelled operation returns although aplay has stalled, and the outcomes are the ones `Coordinator` allows: 86 thousand states |
| `voice_input` | `VoiceInputTypeOK`, `NoMixedAudio`, `UtterancesAccounted`, `NoDeafWait`, `CloseIsFinal` | full queues lose no speech uncounted, no turn waits for a dead microphone, no recording goes on across chunks that the reader discarded under a closed gate or across a restart of arecord, `Close` leaves no process and no reader: 3.4 million states |
| `legacy_agent` | `LegacyTypeOK`, `HistoryWithinBudget`, `MemoryIsRecentCommitted`, `ToolExchangesComplete`, `ReadyNotAfterExit`, `NoServerLeft`, `TurnEnds`, `ManagerSettles` | whatever fails or is cancelled, memory holds whole committed turns in order within its budget and the model never sees an unanswered tool call; turns return; the server is never called ready after its recorded exit and is gone, or killed and reported, when the runtime is: 240 thousand states |
| `speech` | `SpeechTypeOK`, `TextOfOwnAudio`, `NoStrayWorker`, `TranscriptsInOrder`, `HungWorkerDoesNotBlockShutdown` | no caller gets another's text from a process that is killed, restarted, late or noisy, no process is forgotten, final transcripts come in order, and a hung process does not hold the shutdown: 288 thousand states |
| `turn_text` | `ReplySpokenWhole`, `WakeGateExact` | every division of a reply into deltas is spoken whole and in order, and the gate accepts exactly what addresses the assistant: 74 thousand states |

Runs in which TLC refutes a statement of the repository's documents:

| run | statement | what happens |
|---|---|---|
| `interrupt_stops_service` | an interruption only ends the active turn (WI-11B) | an interruption before the entry check of `runTurn`, or between the two checks of `fail`, is taken for a cancellation and `Run` returns |
| `old_candidates_interrupt` | old candidates cannot affect the next turn (WI-11C1) | the reader judged its chunk before the gate opened and publishes the candidate after the flush; the next turn's subscription takes it |
| `memory_budget` | the oldest turns go while the budget is exceeded, and the history is fitted again after the summary has been replaced (WI-06, steps 7 to 9) | the reserve for the summary is measured as plain text and the summary as JSON; when it is longer, `Update` does not evict again but refuses the turn the agent has just answered, although one more eviction would make it fit |

Three more such statements are kept beside the components and are not part of a
run; added to a configuration as `INVARIANT` or `PROPERTY`, TLC refutes each of
them:

* `InterruptStopsAudio` of `Coordinator` (README: an interruption stops local audio
  immediately): the interruption is seen by the submit of the final `Finish`, and
  the session is never stopped. Constants as in `MCCoordinatorInterruptStops.cfg`.
* `LateDeltasDiscarded` of `AcpClient` (README: late deltas of the old turn are
  discarded): a call returns early from `onDelta`, and what it did not read is
  forwarded by the next call. `Spec`, one caller, `PipeCap` 2, no faults.
* `ShutdownBounded` of `AcpClient` (V07: shutdown is bounded): a silent agent keeps
  the responder in `read`, `workers.stop` waits, and `Runtime.Close` is never
  called. `ClientSpec`, one caller, one prompt.

What the runs let through, and a reader of the code may want to know:

* A recording may span words of the assistant. `readLoop` loads the flag once for
  each chunk, so when the gate closes and opens between two chunks, the recording in
  progress goes on and the pre-roll stays. `NoRecordingSpansSpeech` of `VoiceInput`
  states the contrary; no document does, so it is in no run. TLC refutes it with the
  constants of `MCVoiceInput`. `NoMixedAudio` is about the chunks that are heard while the
  gate is closed, and about restarts.
* A preview may be shown after the final transcript of its own turn: `Transcribe`
  releases `decodeMu` before it cancels the preview, so one that waited for the
  lock may decode and, if it is quick, be shown; more often it is cancelled while
  it decodes, which kills the process in service.
* A line of noise on the worker's output puts every later answer one request
  behind: each call fails with a stale id until a cancelled one restarts the
  process. `reapIfExited` keeps a process that is alive.
* `Worker.Close` waits behind a hung preview that nobody cancelled: its turn ended
  without a final transcript, and the service stopped in the loop of `Run`, where no
  `stopping` is emitted.
* `Prepare` gives up every turn when the reserve and the new text do not fit
  together; its second loop never runs.
* A `Kill` that finds the server reaped, before `waitDone` is closed, reports a
  failed shutdown of a server that is gone.
* The sentence buffer cuts a text of exactly `maxRunes` inside a word although it
  has a space, and a mark behind the cap in one delta makes a longer phrase.
* The stop policy looks at the first word of the command: the wake word said twice
  before the verb does not interrupt.

Two narrower windows are described by the hazards and not by a run of their own:
a `Stop` submitted under a turn context that the user has just interrupted is
dropped (`AbortStopsAudio` excludes it by name), and the cancel goroutine of a
finished call may write `session/cancel` while the next prompt is served
(`WatcherWakes` chooses between two ready channels, as `select` does).

Every property of a passing run has a mutant in `PROJECT.json`: an operator next
to the definition it replaces, with a plausible mistake, that TLC refutes.

### Bounds

* `MaxTurns` 2: a call abandoned by one turn meets the same stage of the next
  one. The invariants of the run and `StatesAdvance` are proved for any number.
* `MaxDeltas` 2, `MaxPhrases` 1: a delta taken before and one after the
  response, phrases from a delta and from the flush. One phrase per delta is
  enough to repeat synthesis and write within a turn.
* `DeltaCap` 2 instead of 128: deltas of two responses are queued together, and
  the responder waits for room. `ResultCap` is the code's 8: with two turns it
  is never full, and filling it needs nine interrupted turns (see the hazards).
* The liveness run interrupts while the agent answers and while the assistant
  speaks (`InterruptStates`), with one delta, to keep its graph small.
* `MaxPrompts` 2, `MaxUpdates` 2, `PipeCap` 1: the agent waits for room in its
  output, and one prompt's output is behind another's.
* `Playback` has no counters and its graph is complete: two turns and two formats
  make every reuse and replacement happen, and two process names are enough,
  for the session and for a process the coordinator's `Stop` has taken out.
* `QueueDepth` and `CandidateDepth` are 1 instead of 4 and 2, so that both
  channels are full and drop; two utterances, two arecord processes and two
  turns: a restart, and a candidate or an abandoned capture that meets the next
  turn. Chunks are not counted: any number passes, a recording has four sizes.
* `legacy_agent`: budgets of 14 units of history and 3 of summary, so that a text of
  two escaped characters evicts, is summarised, or fits nowhere; three turns, a
  summary of a summary; one tool round, so that the limit is met; calls that are
  answered, denied, or without an id. The server has no bound.
* `speech`: two turns and two processes; a preview and a candidate of the first turn
  beside both final transcripts, so that every pair competes for the process and an
  abandoned call meets the next turn; one line of noise. A third start fails, as any
  start may.
* `turn_text`: phrases of one and two words, one inside the other, at every place of
  six tokens, so that near the beginning, at the end and in the middle are different
  places; a cap of 3 runes and deltas of up to 3, so that one delta completes two
  phrases and meets the cap below, at and above it.
* The callers of `acp_client` are interchangeable model values
  (`CallerSymmetry`). Nothing else is symmetric, and the liveness runs use none.

### Fairness

* `LocallyFairSpec` of `Coordinator`: only the coordinator and the playback
  worker keep running, which bounds its own waits by killing aplay
  (`CancelledCallReturns` of `Playback`).
* `DependenciesAnswer`, a hypothesis of `ServiceStops`: the other workers' calls
  return and a cancelled context reaches its children. A capture under a live
  context may wait for ever, since nobody has to speak. Nobody has to interrupt
  or stop. `ShutdownBounded` shows what happens to the ACP client without it.
* `FairSpec` of `Playback`: its goroutines run, a killed process is collected,
  and a write to a closed pipe fails. aplay need not read or drain, no context
  has to end and no process has to start.
* `ClientSpec` of `AcpClient`: the goroutines of the client run, and when the
  service stops the contexts end. `FairSpec` adds an agent that keeps reading
  and answers after finitely many updates, which `PromptReturns` needs and
  `ShutdownBounded`, stated "whatever the agent does", must not assume.
* `FairSpec` of `LegacyAgent`: `Respond` does not stay at one of its steps, because
  the HTTP client has a timeout of 180 s (`llama.go:120`) and tools have their own;
  the goroutine of the manager runs, its waits all have timers; and the startup
  deadline, once expired, stays so, hence strong fairness for the branch of the
  `select` that sees it. The server owes nothing.
* `FairSpec` of `Speech`: some goroutine of the program moves as long as one can,
  one weak fairness condition for all of them, since each has finitely many steps in
  a turn. Nothing is assumed of the process, nobody has to speak or to stop.

## The theorems

All are proved for every value of the constants that satisfies the assumptions of
the component's module: positive bounds and capacities, known failures and modes,
a finite set of callers, a caller of the recognizer for every final transcript,
budgets that `memory.New` accepts, texts that are sequences of costs, wake phrases
that are not empty, and punctuation that is no word. The one that is about the model
and not about the code is `"none" \notin Slots` in `Playback`: `NoProcess` must not be
the name of a process.

Each rests on an invariant that is inductive where the property is not. A proof
module begins with that invariant, in named parts; lemmas about the records and
channels follow, then one lemma per group of actions.

### The coordinator (`CoordinatorProofs`)

* `TypeCorrect` (`TypeOK`). `TypeOK` alone is not inductive: after a
  `Write` control returns to `call.ret`, which must be a point of the streaming
  loop. `WritesReturn` states that. `TypeOK` includes the capacities of the
  channels.
* `CallsAreCorrelated` (`CallsCorrelated`). `await` compares turn and
  stage only, and a streaming turn executes the same stage many times. The
  strengthening `CallsInv` says: nothing outstanding belongs to a future turn
  (`NoFutureWork`); a job is at the worker of its stage (`WorkInPlace`); each
  stage of the active turn has at most one trace, in its worker or in one
  channel (`OneTrace`); and a stage can be outstanding only when the control
  point allows it (`OutstandingKnown`), so that an abandoned call is never
  repeated in the same turn.
* `ListeningIsNotDeaf` (`ListeningNotDeaf`), from `HearingInv`: the
  gate is open from the beginning of a turn, because `Run` emits `idle`, until
  the capture has answered.

### The turn of the coordinator (`CoordinatorProofs`, second part)

* `StatesOnlyAdvance` (the action property `StatesAdvance`). What the observer is
  told next depends on the flags of `streamingTurnState`, so `StageInv` relates the
  flags to the control point (`FlagsKnown`) and both to the last state emitted
  (`StateKnown`).
* `EndsForAReason` (`ServiceEndsForAReason`). `Run` takes a cancelled call for the
  end of the service. `ReasonInv` says that no cancelled answer of the active turn
  is in a worker or a channel while its context lives (`CancelsKnown`), and that the
  contexts themselves end for a reason (`ContextsKnown`). An answer of an earlier
  turn does not matter, because `await` discards it.
* `DeltasArriveIntact` (`ReplyDeltasIntact`). `DeltaInv` says that the channel holds
  exactly the deltas of the turn that are published and not yet taken, in order
  (`Unread`), beside any deltas of older turns, and that the responder has gone
  before the channel is drained.
* `AudibleIsGated` (`MicGatedWhileAudible`) and `AbortSilences` (`AbortStopsAudio`),
  from `AudioInv`: an operation that ends the session has ended it when its answer
  is on the way (`SessionKnown`), and the turn is silent before it speaks, after a
  `Stop` that was not dropped, and wherever no interruption and no shutdown is the
  reason (`SilenceKnown`). The step of a `Write` needs `CallsInv`: no older `Write`
  can come back behind the `Stop`.

### The ACP client (`AcpClientProofs`)

* `OnlyOneReader` (`OneReader`), for any set of callers, from `ReaderInv`.
* `AcpTyped` (`AcpTypeOK`), `CloseKillsChild` (`CloseLeavesNoChild`) and
  `RepliesOwnAndComplete` (`ReplyOwnAndComplete`), from `AcpInv` and `OneReader`.
  Identifiers are fresh, and a prompt is on its way, queued, or answered
  (`Identifiers`, `Said`); a context that has ended stays so (`Contexts`); and for a
  call whose turn lives there are numbers k <= t such that it has forwarded the
  first k chunks, the pipe holds those from k + 1 to t, with the result behind them,
  and the agent has sent t (`Replies`). Chunks of abandoned prompts may lie between, and
  the call then forwards them too: the theorem is about a call's own chunks, and
  `LateDeltasDiscarded` is refuted.
  `Handshake` says which requests may be out while the runtime starts and closes.

### The playback session (`PlaybackProofs`)

* `PlaybackTyped` (`PlaybackTypeOK`), `ProcessesAreOwned` (`NoOrphanProcess`) and
  `CloseIsForGood` (`ClosedForGood`), from `PlaybackInv`: which operation can be at
  which step (`Operation`), who holds a process there (`Holding`), and that after
  `Close` has begun nobody is at a step that could start one (`Closing`).
* `PlayerPromise` (`ImplementsPlayer`): the initial state of `Playback` maps to one
  of `Player`, and every step to a step or a stutter. `Audible` is the part of
  `PlaybackInv` this needs: the audio a session holds when an operation returns is
  what `PlaybackEffects` allows.

### The recorder and its consumers (`VoiceInputProofs`)

* `VoiceInputTyped` (`VoiceInputTypeOK`), `AudioNeverMixed` (`NoMixedAudio`),
  `EveryUtteranceAccounted` (`UtterancesAccounted`), `NextIsNotDeaf` (`NoDeafWait`)
  and `ClosedRecorderIsQuiet` (`CloseIsFinal`), from `VoiceInputInv`. `Lifecycle`
  relates `running`, `closed`, the reader and its pending reports, which the code
  changes under different locks; `PreRolls` says that no recording is ever stale, that
  a stale pre-roll is only kept while the reader remembers the stretch that made it so,
  and that a new reader begins with none; `Accounting` places every utterance
  in one place and orders the queue; `Numbered` gives a candidate its turn.

### The speech worker and the bridge (`SpeechProofs`)

* `TextIsOwn` (`TextOfOwnAudio`) and `WorkersAreKilled` (`NoStrayWorker`). `WorkerInv`:
  `opMu` admits one call (`OneOperation`), so every frame in the pipes is of the
  call that waits or carries another id (`FramesAreOwn`), and a process is killed or
  gone before its client is given up (`KillPrecedesLoss`).
* `SpeechTyped` (`SpeechTypeOK`) and `TranscriptsOrdered` (`TranscriptsInOrder`), from
  `BridgeInv`: one final transcript at a time (`OneFinal`), whose step follows the
  step of its call (`FinalFollowsCall`), and what `decodeMu` orders (`DecodeOrder`).

### The server manager (`LegacyAgentProofs`)

* `ServerNeverReadyAfterExit` (`ReadyNotAfterExit`) and `ServerNeverLeft`
  (`NoServerLeft`), from `ServerInv`: the process and `waitProcess` advance together
  (`WaiterFollowsProcess`), and a recorded exit is in the state (`ExitIsRecorded`),
  which `PublishReady` reads under the same lock.

### The session and its memory (`LegacyAgentProofs`)

* `LegacyTyped` (`LegacyTypeOK`), `HistoryBounded` (`HistoryWithinBudget`),
  `OnlyCommittedRemembered` (`MemoryIsRecentCommitted`) and `ExchangesAreComplete`
  (`ToolExchangesComplete`), from `SessionInv`, for all texts, costs of characters,
  budgets, batches of calls and numbers of rounds.
* `MemoryOf(mem, committed)` relates the memory to what was committed: the turns it
  holds are finished turns with the latest numbers (`Recent`), its summary speaks of
  committed turns only and is no longer than its budget, and both fit the history.
  The property of a suffix alone is not inductive: `Update` splits a history into
  turns again, so every turn must be known to begin with its only user message.
* `RespondAt` says what the history of the running turn is at each step: the
  remembered history, then the turn so far, which is `Complete` when the model is
  asked, `Pending` with the calls that are left while tools run, and `Closed` when it
  is committed. The step from `Pending` to `Complete` is the last tool result of a
  round, whatever tools were denied or failed.
* `Update` is undone and done again by two functions: `SplitFlatten` shows that
  `splitTurns` undoes the concatenation of turns, so the turns that go into the
  history are the ones that come out, plus the new one; `DropCount` then removes whole
  turns from the front. `Measure` is a sum, additive over concatenation, and a
  truncated summary is no longer, as text, than its reserve; its JSON may be longer,
  which is why `Publish` measures again.

### The text of a turn (`TurnTextProofs`)

* `SpokenWhole` (`ReplySpokenWhole`), from `ReplyInv`, for every reply, cap and
  division into deltas. `Without` distributes over concatenation and `TrimSpace`
  takes off blanks only, so a phrase that is cut off carries the runes it stood for
  (`PhraseTaken`); every turn of the loop of `takeReady` makes the buffer shorter or
  finds no boundary, so after as many turns as the text has runes none is left
  (`ReadyTaken`).
* `GateIsExact` (`WakeGateExact`), from `GateInv`, for every vocabulary, every list of
  phrases and every transcript. A hit of `Detect` is a way to write the words as
  front, phrase and back (`HitIsSplit`), and normalising the tokens around it gives
  the words around it (`CommandFacts`).

### Induction

What a recursive function returns for every input takes induction, and the library's
induction theorems have an operator parameter that the provers do not instantiate.
`SequenceFacts` therefore states induction with a set: a set that contains 0 and is
closed under successor contains all naturals (`InductiveSet`, from the
well-foundedness of the naturals), and likewise for sequences under `Append`
(`SeqInduction`). A recursion is given by a function that holds its steps
(`Recursion`, `RecursionTyped`, `RecursionExtends`).

### Only model-checked

Every invariant and every action property of a passing run is proved. What is left:

* `InterruptEndsTurn`, `ServiceStops`, `PromptReturns`, `CancelledCallReturns`,
  `TurnEnds`, `ManagerSettles` and `HungWorkerDoesNotBlockShutdown`: liveness under
  fairness is outside what the prover handles.

## Not modelled, and the plan

Not modelled, because it is I/O or sequential code without a state of its own,
whose outcome the models choose freely: parsing and validation of the
configuration, console output, the native recognizers, synthesizers and the VAD
model, the file and HTTP tools and the decoding of the model's event stream. The
legacy turn loop and the one-shot recorder are not started by `cmd/assistant`. Of
modelled parts, the operations nothing in `cmd/assistant` calls are left out:
`RunTurn`, `PlayRaw`, `ServerManager.Wait`, `Memory.History` and `Memory.Reset`;
and so is the latency metric of the transcript bridge.

What would follow is the coordinator composed with the ACP client: what the user
hears after an interruption.
