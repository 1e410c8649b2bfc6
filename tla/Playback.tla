----------------------------- MODULE Playback -----------------------------
(***************************************************************************)
(* The playback session of internal/audio/playback.go: one reusable aplay  *)
(* process behind writeMu, the operations of the playback worker under the *)
(* context of a turn, the Stop with which the coordinator ends a stream    *)
(* while the service shuts down, and the Close of main.                    *)
(*                                                                         *)
(* Every operation takes writeMu before mu, so one lock stands for both.   *)
(* PCM is abstracted to the turn it belongs to; the format of a buffer is  *)
(* a member of Formats. The aplay processes are external.                  *)
(***************************************************************************)
EXTENDS Integers, FiniteSets, PlaybackEffects

CONSTANTS
    Turns,    \* the turns whose audio is played
    Formats,  \* sample rate and channels of a buffer
    Slots     \* names for aplay processes; one is reused when nobody refers to it

ASSUME PlaybackAssumption ==
    /\ Turns \subseteq Nat \ {0} /\ Turns # {} /\ Formats # {}
    /\ IsFiniteSet(Slots) /\ "none" \notin Slots

Others == {"coordinator", "main"}

VARIABLES
    call,      \* the worker's operation: op, turn, format, context
    pc,        \* where it is
    held,      \* the process it works with, NoProcess if none
    wrote,     \* the goroutine in process.Write: "pending", "ok" or "err"
    out,       \* how the latest operation of the worker ended
    other,     \* the Stop of the coordinator and the Close of main
    lock,      \* who holds writeMu
    session,   \* Playback.session with its format, and the turn it was last fed with
    closed,    \* Playback.closed
    proc,      \* the state of the aplay processes
    shutdown,  \* the service shuts down
    before     \* history: the audio of the session when the operation began

NoProcess == "none"

own == <<call, pc, held, wrote, out, before>>
vars == <<own, other, lock, session, closed, proc, shutdown>>

NewCall == [op |-> "none", turn |-> CHOOSE t \in Turns : TRUE,
            format |-> CHOOSE f \in Formats : TRUE, ctx |-> "done"]

NoSession == [process |-> NoProcess, format |-> NewCall.format, audio |-> 0]

Init ==
    /\ call = NewCall /\ pc = "idle" /\ held = NoProcess /\ wrote = "ok" /\ out = "ok"
    /\ other = [x \in Others |-> [pc |-> "idle", held |-> NoProcess]]
    /\ lock = "free" /\ session = NoSession /\ closed = FALSE
    /\ proc = [s \in Slots |-> "exited"]
    /\ shutdown = FALSE /\ before = 0

-----------------------------------------------------------------------------
(* The aplay processes: running until the input is closed, then draining.  *)

Alive(s) == proc[s] \in {"running", "draining", "killed"}

\* cmd.Wait has returned: exited after playing everything, or failed.
Gone(s) == proc[s] \in {"exited", "failed"}

\* execPlaybackProcess.Stop: no error if the process has already gone.
Killed(s) == [proc EXCEPT ![s] = IF Alive(s) THEN "killed" ELSE @]

Unused(s) ==
    Gone(s) /\ s # session.process /\ s # held /\ \A x \in Others : other[x].held # s

AplayReads ==
    /\ pc = "pipe" /\ wrote = "pending" /\ proc[held] = "running"
    /\ wrote' = "ok" /\ session' = [session EXCEPT !.audio = call.turn]
    /\ UNCHANGED proc

\* The pipe breaks under a Write, also under one that has been killed.
PipeBreaks ==
    /\ pc \in {"pipe", "unpipe"} /\ wrote = "pending" /\ proc[held] # "running"
    /\ wrote' = "err" /\ UNCHANGED <<proc, session>>

AplayExits(s) ==
    /\ \/ proc[s] = "draining" /\ proc' = [proc EXCEPT ![s] = "exited"]
       \/ proc[s] = "killed" /\ proc' = [proc EXCEPT ![s] = "failed"]
    /\ UNCHANGED <<wrote, session>>

AplayFails(s) ==
    /\ proc[s] \in {"running", "draining"}
    /\ proc' = [proc EXCEPT ![s] = "failed"]
    /\ UNCHANGED <<wrote, session>>

AplayStep(A) ==
    A /\ UNCHANGED <<call, pc, held, out, before, other, lock, closed, shutdown>>

-----------------------------------------------------------------------------
(* The worker: Play, Write, Finish and Stop.                               *)

BeginCall ==
    /\ pc = "idle"
    /\ \E o \in PlayerOp, t \in Turns, f \in Formats :
          /\ o \in {"finish", "stop"} => f = NewCall.format
          /\ call' = [op |-> o, turn |-> t, format |-> f, ctx |-> "live"]
    /\ pc' = "check" /\ before' = session.audio
    /\ UNCHANGED <<held, wrote, out, lock, session, proc>>

EndCall(o) ==
    /\ pc' = "idle" /\ out' = o /\ held' = NoProcess
    /\ call' = [call EXCEPT !.format = NewCall.format, !.ctx = "done"]
    /\ before' = 0

\* An error counts as the context's own once the context has ended.
ErrorOutcome == IF call.ctx = "done" THEN "cancel" ELSE "err"

\* The context checks before the lock: Finish stops a session it may not drain.
Check ==
    /\ pc = "check"
    /\ \/ call.op \in {"write", "play"} /\ call.ctx = "done" /\ EndCall("cancel")
       \/ /\ pc' = CASE call.op \in {"write", "play"} -> "ensure"
                     [] call.op = "finish" /\ call.ctx = "live" -> "take"
                     [] OTHER -> "stop"
          /\ call.op \in {"write", "play"} => call.ctx = "live"
          /\ UNCHANGED <<call, held, out, before>>
    /\ UNCHANGED <<wrote, lock, session, proc>>

\* Mutant: a closed player starts another process.
EnsureIgnoresClosed ==
    /\ pc = "ensure" /\ lock = "free"
    /\ lock' = "worker" /\ UNCHANGED <<call, out, before, proc, session>>
    /\ \/ session # NoSession /\ held' = session.process /\ wrote' = "pending" /\ pc' = "pipe"
       \/ session = NoSession /\ pc' = "start" /\ UNCHANGED <<held, wrote>>

\* ensureSession under writeMu: reuse the session, or stop one of another format.
Ensure ==
    /\ pc = "ensure" /\ lock = "free"
    /\ \/ closed /\ EndCall("err") /\ UNCHANGED <<wrote, lock, proc>>
       \/ /\ ~closed /\ session # NoSession /\ session.format = call.format
          /\ lock' = "worker" /\ held' = session.process /\ wrote' = "pending" /\ pc' = "pipe"
          /\ UNCHANGED <<call, out, before, proc>>
       \/ /\ ~closed /\ session # NoSession /\ session.format # call.format
          /\ lock' = "worker" /\ proc' = Killed(session.process) /\ pc' = "replace"
          /\ UNCHANGED <<call, held, wrote, out, before>>
       \/ /\ ~closed /\ session = NoSession
          /\ lock' = "worker" /\ pc' = "start"
          /\ UNCHANGED <<call, held, wrote, out, before, proc>>
    /\ UNCHANGED session

Replace ==
    /\ pc = "replace" /\ Gone(session.process)
    /\ session' = NoSession /\ pc' = "start"
    /\ UNCHANGED <<call, held, wrote, out, before, lock, proc>>

\* Mutant: the return after a failed start does not unlock.
StartKeepsLock ==
    /\ pc = "start"
    /\ EndCall("err") /\ UNCHANGED <<wrote, lock, session, proc>>

\* The process starts, or does not.
Start ==
    /\ pc = "start"
    /\ \/ \E s \in {u \in Slots : Unused(u)} :
             /\ proc' = [proc EXCEPT ![s] = "running"]
             /\ session' = [process |-> s, format |-> call.format, audio |-> 0]
             /\ held' = s /\ wrote' = "pending" /\ pc' = "pipe"
             /\ UNCHANGED <<call, out, before, lock>>
       \/ EndCall("err") /\ lock' = "free" /\ UNCHANGED <<wrote, session, proc>>

\* writePlaybackProcess: the write is done, or the context ends first; when both
\* are ready either is taken.
Pipe ==
    /\ pc = "pipe"
    /\ \/ /\ wrote = "ok" /\ lock' = "free"
          /\ IF call.op = "play"
             THEN pc' = "finish" /\ held' = NoProcess /\ UNCHANGED <<call, out, before>>
             ELSE EndCall("ok")
          /\ UNCHANGED <<session, proc>>
       \/ /\ wrote = "err" \/ call.ctx = "done"
          /\ proc' = Killed(held) /\ pc' = "unpipe"
          /\ UNCHANGED <<call, held, out, before, lock, session>>
    /\ UNCHANGED wrote

\* Mutant: a failed write leaves the session in place.
UnpipeKeepsSession ==
    /\ pc = "unpipe" /\ Gone(held) /\ wrote # "pending"
    /\ lock' = "free"
    /\ EndCall(ErrorOutcome)
    /\ UNCHANGED <<wrote, proc, session>>

\* The process has been collected and its writer has returned; resetSession.
\* Only now is the lock released.
Unpipe ==
    /\ pc = "unpipe" /\ Gone(held) /\ wrote # "pending"
    /\ session' = NoSession /\ lock' = "free"
    /\ EndCall(ErrorOutcome)
    /\ UNCHANGED <<wrote, proc>>

\* Play goes on with Finish and its context check.
PlayFinishes ==
    /\ pc = "finish"
    /\ pc' = IF call.ctx = "live" THEN "take" ELSE "stop"
    /\ UNCHANGED <<call, held, wrote, out, before, lock, session, proc>>

\* Mutant: the session is forgotten and drains by itself.
TakeReturnsAtOnce ==
    /\ pc = "take" /\ lock = "free"
    /\ EndCall("ok") /\ session' = NoSession
    /\ proc' = IF session = NoSession THEN proc
               ELSE [proc EXCEPT ![session.process] = IF @ = "running" THEN "draining" ELSE @]
    /\ UNCHANGED <<wrote, lock>>

\* Finish takes the session out and drains it without the lock.
Take ==
    /\ pc = "take" /\ lock = "free"
    /\ IF session = NoSession
       THEN EndCall("ok") /\ UNCHANGED <<session, proc>>
       ELSE /\ held' = session.process /\ session' = NoSession /\ pc' = "drain"
            /\ proc' = [proc EXCEPT ![session.process] = IF @ = "running" THEN "draining" ELSE @]
            /\ UNCHANGED <<call, out, before>>
    /\ UNCHANGED <<wrote, lock>>

\* Mutant: draining does not watch the context.
DrainUncancelled ==
    /\ pc = "drain" /\ Gone(held)
    /\ IF proc[held] = "exited"
       THEN pc' = "guard" /\ UNCHANGED <<call, held, out, before>>
       ELSE EndCall(ErrorOutcome)
    /\ UNCHANGED <<wrote, lock, session, proc>>

\* drainPlaybackProcess
Drain ==
    /\ pc = "drain"
    /\ \/ /\ proc[held] = "exited" /\ pc' = "guard"
          /\ UNCHANGED <<call, held, out, before, proc>>
       \/ proc[held] = "failed" /\ EndCall(ErrorOutcome) /\ UNCHANGED proc
       \/ /\ call.ctx = "done" /\ proc' = Killed(held) /\ pc' = "undrain"
          /\ UNCHANGED <<call, held, out, before>>
    /\ UNCHANGED <<wrote, lock, session>>

Undrain ==
    /\ pc = "undrain" /\ Gone(held)
    /\ EndCall("cancel")
    /\ UNCHANGED <<wrote, lock, session, proc>>

\* The settling guard waits for its delay or for the end of the context.
Guard ==
    /\ pc = "guard"
    /\ \/ EndCall("ok")
       \/ call.ctx = "done" /\ EndCall("cancel")
    /\ UNCHANGED <<wrote, lock, session, proc>>

StopOutcome == IF call.op = "stop" THEN "ok" ELSE "cancel"

\* Stop, also the one of a Finish that found its context ended.
StopTakes ==
    /\ pc = "stop" /\ lock = "free"
    /\ IF session = NoSession
       THEN EndCall(StopOutcome) /\ UNCHANGED <<session, proc>>
       ELSE /\ held' = session.process /\ session' = NoSession /\ proc' = Killed(session.process)
            /\ pc' = "stopping" /\ UNCHANGED <<call, out, before>>
    /\ UNCHANGED <<wrote, lock>>

StopReturns ==
    /\ pc = "stopping" /\ Gone(held)
    /\ EndCall(StopOutcome)
    /\ UNCHANGED <<wrote, lock, session, proc>>

WorkerStep ==
    /\ \/ Check \/ Ensure \/ Replace \/ Start \/ Pipe \/ Unpipe \/ PlayFinishes
       \/ Take \/ Drain \/ Undrain \/ Guard \/ StopTakes \/ StopReturns
    /\ UNCHANGED <<other, closed, shutdown>>

\* The turn is interrupted, ends, or the service shuts down.
ContextEnds ==
    /\ call.ctx = "live" /\ call' = [call EXCEPT !.ctx = "done"]
    /\ UNCHANGED <<pc, held, wrote, out, before, other, lock, session, closed, proc, shutdown>>

-----------------------------------------------------------------------------
(* The Stop of abortStreamingPlayback without workers, and main's Close.   *)

Shutdown == ~shutdown /\ shutdown' = TRUE /\ UNCHANGED <<other, session, closed, proc>>

\* main closes the player after Run has joined the workers and returned.
MayBegin(x) ==
    shutdown /\ (x = "main" => pc = "idle" /\ other["coordinator"].pc \in {"idle", "done"})

\* Under the lock: the session is taken out, and Close leaves the player closed.
OtherTakes(x) ==
    /\ other[x].pc = "idle" /\ MayBegin(x) /\ lock = "free"
    /\ x = "coordinator" => other["main"].pc = "idle"
    /\ other' = [other EXCEPT ![x] =
          [pc |-> IF session = NoSession THEN "done" ELSE "kill", held |-> session.process]]
    /\ session' = NoSession
    /\ closed' = (closed \/ x = "main")
    /\ UNCHANGED <<proc, shutdown>>

\* Without the lock: kill and wait.
OtherKills(x) ==
    /\ other[x].pc = "kill"
    /\ proc' = Killed(other[x].held)
    /\ other' = [other EXCEPT ![x].pc = "wait"]
    /\ UNCHANGED <<session, closed, shutdown>>

OtherReturns(x) ==
    /\ other[x].pc = "wait" /\ Gone(other[x].held)
    /\ other' = [other EXCEPT ![x] = [pc |-> "done", held |-> NoProcess]]
    /\ UNCHANGED <<session, closed, proc, shutdown>>

OtherStep(A) == A /\ UNCHANGED <<own, lock>>

-----------------------------------------------------------------------------
Next ==
    \/ BeginCall /\ UNCHANGED <<other, closed, shutdown>>
    \/ WorkerStep \/ ContextEnds
    \/ OtherStep(Shutdown)
    \/ \E x \in Others : OtherStep(OtherTakes(x)) \/ OtherStep(OtherKills(x)) \/ OtherStep(OtherReturns(x))
    \/ AplayStep(AplayReads) \/ AplayStep(PipeBreaks)
    \/ \E s \in Slots : AplayStep(AplayExits(s)) \/ AplayStep(AplayFails(s))

Spec == Init /\ [][Next]_vars

\* Goroutines run, killed processes are collected; an aplay process with a
\* device that has stalled may read and drain nothing.
Collect(s) == proc[s] = "killed" /\ AplayExits(s)

FairSpec ==
    /\ Spec
    /\ WF_vars(WorkerStep) /\ WF_vars(AplayStep(PipeBreaks))
    /\ \A s \in Slots : WF_vars(AplayStep(Collect(s)))
    /\ \A x \in Others : WF_vars(OtherStep(OtherKills(x))) /\ WF_vars(OtherStep(OtherReturns(x)))

-----------------------------------------------------------------------------
(* Properties.                                                             *)

\* The type invariant; writeMu is held exactly while Write works with its process.
PlaybackTypeOK ==
    /\ call \in [op : PlayerOp \cup {"none"}, turn : Turns, format : Formats, ctx : {"live", "done"}]
    /\ pc \in {"idle", "check", "ensure", "replace", "start", "pipe", "unpipe", "finish",
               "take", "drain", "undrain", "guard", "stop", "stopping"}
    /\ held \in Slots \cup {NoProcess}
    /\ session \in [process : Slots \cup {NoProcess}, format : Formats, audio : Turns \cup {0}]
    /\ wrote \in {"pending", "ok", "err"} /\ out \in {"ok", "err", "cancel"}
    /\ other \in [Others -> [pc : {"idle", "kill", "wait", "done"}, held : Slots \cup {NoProcess}]]
    /\ lock = IF pc \in {"replace", "start", "pipe", "unpipe"} THEN "worker" ELSE "free"
    /\ closed \in BOOLEAN /\ shutdown \in BOOLEAN
    /\ proc \in [Slots -> {"running", "draining", "killed", "exited", "failed"}] /\ before \in Turns \cup {0}

\* No aplay process is leaked, whatever fails: one that runs is the session, or
\* in the hands of an operation that will wait for its end.
NoOrphanProcess ==
    \A s \in Slots : Alive(s) =>
        \/ s = session.process
        \/ s = held /\ pc # "idle"
        \/ \E x \in Others : s = other[x].held /\ other[x].pc \in {"kill", "wait"}

\* After Close no process plays or is ever started again, although the
\* coordinator's Stop and a last Write may have crossed before it.
ClosedForGood == other["main"].pc = "done" => \A s \in Slots : ~Alive(s)

\* An operation whose context has ended returns, even if aplay has stalled:
\* this is what the coordinator's interruption relies on.
CancelledCallReturns == pc # "idle" /\ (call.ctx = "done" \/ call.op = "stop") ~> pc = "idle"

\* The player the coordinator assumes: while an operation is in progress its
\* effect is not yet visible.
Promise == INSTANCE Player WITH
    op <- IF pc = "idle" THEN "none" ELSE call.op,
    turn <- call.turn, ctx <- call.ctx, out <- out,
    player <- IF pc = "idle" THEN session.audio ELSE before

\* Every outcome and every effect on the session that the operations can have is
\* one that Coordinator's worker and DirectStop allow.
ImplementsPlayer == Promise!PlayerSpec
=============================================================================
