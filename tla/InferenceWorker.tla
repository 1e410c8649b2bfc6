-------------------------- MODULE InferenceWorker --------------------------
(***************************************************************************)
(* The owner of one persistent inference process,                          *)
(* internal/inference/worker.go, with the client that frames its requests, *)
(* protocol.go. Calls are serialised by opMu; a cancelled one kills the    *)
(* process, and the next one starts another. A call is named after its     *)
(* caller, and so is the text the process answers it with. Timers have no  *)
(* clock: a timeout may fire whenever its timer runs.                      *)
(***************************************************************************)
EXTENDS Naturals, Sequences

CONSTANTS
    Callers,    \* those who transcribe, each one once
    MaxStarts,  \* bound: processes started
    MaxNoise    \* bound: lines on a process's output that are no response

ASSUME WorkerAssumption == MaxStarts \in Nat \ {0} /\ MaxNoise \in Nat

VARIABLES
    worker,  \* live (and client # nil), closed, and the number of processes started
    proc,    \* the last process and its pipes: st is "running", "exited", or "waited"
             \* once cmd.Wait has returned and closed the pipes
    strays,  \* processes replaced while they ran and nobody had killed them
    call,    \* the calls: where each one is, its request id, and its text
    closer,  \* Close: "open", "lock", the steps of stopLocked, "stopped"
    noise    \* lines of noise so far

workerVars == <<worker, proc, strays, call, closer, noise>>

Nobody == <<"nobody", 0>>
StartIds == 2  \* health requests of StartWorker and newVoiceGatewayInference

Frame == [kind : {"ok", "error", "noise"}, id : Nat, of : Callers \cup {Nobody}]

WorkerTypeOK ==
    /\ worker \in [live : BOOLEAN, closed : BOOLEAN, starts : 1..MaxStarts]
    /\ proc \in [st : {"running", "exited", "waited"}, killed : BOOLEAN,
                 ids : Nat, in : Seq(Frame), out : Seq(Frame)]
    /\ strays \in Nat
    /\ call \in [Callers -> [pc : {"idle", "lock", "write", "read", "done", "stop", "kill",
                                   "returned"},
                             id : Nat, got : Callers \cup {Nobody}]]
    /\ closer \in {"open", "lock", "stop", "kill", "stopped"}
    /\ noise \in 0..MaxNoise

NewProcess(ids) == [st |-> "running", killed |-> FALSE, ids |-> ids, in |-> <<>>, out |-> <<>>]
NoCall == [pc |-> "idle", id |-> 0, got |-> Nobody]

\* StartWorker has started the process, and it has answered Health.
WorkerInit ==
    /\ worker = [live |-> TRUE, closed |-> FALSE, starts |-> 1]
    /\ proc = NewProcess(StartIds) /\ strays = 0
    /\ call = [c \in Callers |-> NoCall]
    /\ closer = "open" /\ noise = 0

waitCh == proc.st = "waited"

opMuFree ==
    /\ \A c \in Callers : call[c].pc \in {"idle", "lock", "returned"}
    /\ closer \notin {"stop", "kill"}

Goes(c, to) == call' = [call EXCEPT ![c].pc = to]
\* The caller takes what its call returned.
Taken(c) == call' = [call EXCEPT ![c] = NoCall] /\ UNCHANGED <<worker, proc, strays, closer, noise>>

Returns(c, got) == call' = [call EXCEPT ![c] = [pc |-> "returned", id |-> 0, got |-> got]]

-----------------------------------------------------------------------------
(* The process.                                                            *)

Printed(n) == [i \in 1..n |-> [kind |-> "noise", id |-> 0, of |-> Nobody]]

\* It works on one request at a time, and may print a line of its own before it
\* responds.
ProcessAnswers ==
    /\ proc.st = "running" /\ proc.in # <<>>
    /\ \E kind \in {"ok", "error"}, n \in 0..(MaxNoise - noise) :
          /\ noise' = noise + n
          /\ proc' = [proc EXCEPT !.in = Tail(@),
                                  !.out = @ \o Printed(n) \o <<[Head(proc.in) EXCEPT !.kind = kind]>>]
    /\ UNCHANGED <<worker, strays, call, closer>>

\* It crashes, is killed, or reads the end of the input that stopLocked has closed.
ProcessExits ==
    /\ proc.st = "running" /\ proc' = [proc EXCEPT !.st = "exited"]
    /\ UNCHANGED <<worker, strays, call, closer, noise>>

\* cmd.Wait closes the pipes: what nobody has read is lost.
ProcessWaited ==
    /\ proc.st = "exited"
    /\ proc' = [proc EXCEPT !.st = "waited", !.in = <<>>, !.out = <<>>]
    /\ UNCHANGED <<worker, strays, call, closer, noise>>

-----------------------------------------------------------------------------
(* A call; over says that its context has ended.                           *)

Transcribe(c) == call[c].pc = "idle" /\ Goes(c, "lock") /\ UNCHANGED <<worker, proc, strays, closer, noise>>

startLocked ==
    /\ worker.starts < MaxStarts
    /\ worker' = [worker EXCEPT !.live = TRUE, !.starts = @ + 1]
    /\ proc' = NewProcess(0)
    /\ strays' = strays + IF proc.st = "running" /\ ~proc.killed THEN 1 ELSE 0

\* The first checks under opMu, and ensureStarted. A start may fail.
runWorkerCall(c, over) ==
    /\ call[c].pc = "lock" /\ opMuFree
    /\ \/ /\ over \/ worker.closed \/ ~worker.live
          /\ Returns(c, Nobody) /\ UNCHANGED <<worker, proc, strays>>
       \/ /\ ~over /\ ~worker.closed /\ Goes(c, "write")
          /\ IF worker.live THEN UNCHANGED <<worker, proc, strays>> ELSE startLocked
    /\ UNCHANGED <<closer, noise>>

\* The goroutine of the call writes the request. A pipe without a reader fails.
Write(c, over) ==
    LET id == proc.ids + 1 IN
    /\ call[c].pc = "write"
    /\ \/ over /\ Goes(c, "done") /\ UNCHANGED proc
       \/ /\ ~over /\ proc.st = "running"
          /\ proc' = [proc EXCEPT !.ids = id,
                                  !.in = Append(@, [kind |-> "ok", id |-> id, of |-> c])]
          /\ call' = [call EXCEPT ![c].pc = "read", ![c].id = id]
       \/ /\ ~over /\ proc.st # "running" /\ Goes(c, "done")
          /\ proc' = [proc EXCEPT !.ids = id]
    /\ UNCHANGED <<worker, strays, closer, noise>>

\* Mutant: whatever is on the pipe answers the request.
AcceptsAny(frame, id) == frame.kind = "ok"

Accepts(frame, id) == frame.kind = "ok" /\ frame.id = id

\* It reads one line. Noise, another id, an error response, a context that has
\* ended and the end of the pipe are all errors.
Read(c, over) ==
    /\ call[c].pc = "read"
    /\ \/ /\ proc.out # <<>>
          /\ proc' = [proc EXCEPT !.out = Tail(@)]
          /\ call' = [call EXCEPT ![c].pc = "done",
                                  ![c].got = IF Accepts(Head(proc.out), call[c].id) /\ ~over
                                             THEN Head(proc.out).of ELSE Nobody]
       \/ /\ proc.out = <<>> /\ proc.st # "running"
          /\ Goes(c, "done") /\ UNCHANGED proc
    /\ UNCHANGED <<worker, strays, closer, noise>>

\* Mutant: every failed call gives its process up.
reapAlways == worker' = [worker EXCEPT !.live = FALSE]

\* Only a process that is known to be gone is given up; another one stays in
\* service, with what it may still write.
reapIfExited == worker' = [worker EXCEPT !.live = ~waitCh]

CallReturns(c) ==
    /\ call[c].pc = "done" /\ Returns(c, call[c].got)
    /\ IF call[c].got = Nobody THEN reapIfExited ELSE UNCHANGED worker
    /\ UNCHANGED <<proc, strays, closer, noise>>

\* The select sees the end of the context first.
abortProcess(c, over) ==
    /\ over /\ call[c].pc \in {"write", "read", "done"} /\ Goes(c, "stop")
    /\ proc' = [proc EXCEPT !.killed = TRUE]
    /\ UNCHANGED <<worker, strays, closer, noise>>

\* Mutant: a process that does not exit in time is waited for.
stopPatiently(from, to) ==
    from = "stop" /\ waitCh /\ to = "stopped" /\ worker' = [worker EXCEPT !.live = FALSE] /\ UNCHANGED proc

\* The rest of stopLocked: a bounded wait, a kill, and a second bounded wait. The
\* client and its pipes are gone afterwards.
stopLocked(from, to) ==
    \/ /\ from = "stop" /\ ~waitCh /\ to = "kill"
       /\ proc' = [proc EXCEPT !.killed = TRUE] /\ UNCHANGED worker
    \/ /\ from = "kill" \/ (from = "stop" /\ waitCh)
       /\ to = "stopped" /\ worker' = [worker EXCEPT !.live = FALSE]
       /\ proc' = [proc EXCEPT !.in = <<>>, !.out = <<>>, !.ids = 0]

\* Afterwards the call waits for its goroutine, for a bounded time, and drops its
\* result.
CallStops(c) ==
    /\ \/ stopLocked(call[c].pc, "kill") /\ Goes(c, "kill")
       \/ stopLocked(call[c].pc, "stopped") /\ Returns(c, Nobody)
    /\ UNCHANGED <<strays, closer, noise>>

-----------------------------------------------------------------------------
(* Close.                                                                  *)

CloseBegins == closer = "open" /\ closer' = "lock" /\ UNCHANGED <<worker, proc, strays, call, noise>>

CloseLocks ==
    /\ closer = "lock" /\ opMuFree
    /\ worker' = [worker EXCEPT !.closed = TRUE]
    /\ closer' = IF worker.live THEN "stop" ELSE "stopped"
    /\ UNCHANGED <<proc, strays, call, noise>>

CloseStops ==
    /\ \E to \in {"kill", "stopped"} : stopLocked(closer, to) /\ closer' = to
    /\ UNCHANGED <<strays, call, noise>>

-----------------------------------------------------------------------------
CallStep(c, over) ==
    \/ runWorkerCall(c, over) \/ Write(c, over) \/ Read(c, over) \/ CallReturns(c)
    \/ abortProcess(c, over) \/ CallStops(c)

CloseStep == CloseLocks \/ CloseStops

\* What the process does while nobody uses it shows in the next call, and what it
\* does once another one has replaced it nobody sees.
ProcessStep == ~opMuFree /\ (ProcessAnswers \/ ProcessExits \/ ProcessWaited)
=============================================================================
