--------------------------- MODULE ServerManager ---------------------------
(***************************************************************************)
(* The owner of the llama-server process, internal/llm/server_manager.go,  *)
(* as newLegacyAgentRuntime drives it: Start, WaitReady, and one Stop,     *)
(* either after a failed start or when the assistant closes. The process,  *)
(* the goroutine that waits for it and the health endpoint take their own  *)
(* steps. Timers have no clock: a timeout may fire whenever its timer runs.*)
(***************************************************************************)
EXTENDS Naturals

CONSTANT ServerModes  \* the configured mode: "managed" and/or "external"

ASSUME ServerAssumption == ServerModes \subseteq {"managed", "external"}

VARIABLES
    mode,     \* cfg.Mode
    foreign,  \* another server listens on the configured port
    state,    \* m.state
    proc,     \* the process: "none", "running", "exited" (not reaped), "reaped"
    killed,   \* Kill has been delivered to it
    waiter,   \* waitProcess: "none", "waiting", "recording", "closing", "done"
    at,       \* where the goroutine that owns the manager is
    rootDone, \* the context of the assistant has ended
    stopErr   \* result of the one stop sequence: "none", "ok", "failed"

serverVars == <<mode, foreign, state, proc, killed, waiter, at, rootDone, stopErr>>

ServerState == {"new", "started", "ready", "exited", "stopped"}
Starting == {"entry", "loop", "probing", "confirm", "publish", "pause"}
Stopping == {"stop", "term", "kill", "killwait"}

ServerTypeOK ==
    /\ mode \in ServerModes /\ foreign \in BOOLEAN /\ state \in ServerState
    /\ proc \in {"none", "running", "exited", "reaped"} /\ killed \in BOOLEAN
    /\ waiter \in {"none", "waiting", "recording", "closing", "done"}
    /\ at \in {"new", "serving", "down"} \cup Starting \cup Stopping
    /\ rootDone \in BOOLEAN /\ stopErr \in {"none", "ok", "failed"}

ServerInit ==
    /\ mode \in ServerModes /\ foreign \in BOOLEAN /\ state = "new" /\ proc = "none" /\ killed = FALSE
    /\ waiter = "none" /\ at = "new" /\ rootDone = FALSE /\ stopErr = "none"

waitDone == waiter = "done"

\* Somebody answers HTTP requests: the process, or whoever has its port.
Answers == foreign \/ (mode = "managed" /\ proc = "running")

Goes(to) == at' = to /\ UNCHANGED <<mode, foreign, rootDone>>

-----------------------------------------------------------------------------
(* The environment.                                                        *)

\* SIGINT or SIGTERM to the assistant. Start reads it; later it shows as the end of
\* the startup context and of the turn.
RootContextEnds ==
    /\ at = "new" /\ ~rootDone /\ rootDone' = TRUE
    /\ UNCHANGED <<mode, foreign, state, proc, killed, waiter, at, stopErr>>

\* The server crashes, cannot bind its port, or obeys the signal or the kill.
ProcessExits ==
    /\ proc = "running" /\ proc' = "exited"
    /\ UNCHANGED <<mode, foreign, state, killed, waiter, at, rootDone, stopErr>>

\* process.Wait reaps the process; it then also waits for its output pipe.
ProcessReaped ==
    /\ waiter = "waiting" /\ proc = "exited"
    /\ proc' = "reaped" /\ waiter' = "recording"
    /\ UNCHANGED <<mode, foreign, state, killed, at, rootDone, stopErr>>

\* waitProcess stores the result under the lock, and closes waitDone after it.
waitProcess ==
    \/ /\ waiter = "recording" /\ waiter' = "closing"
       /\ state' = IF state = "stopped" THEN state ELSE "exited"
       /\ UNCHANGED <<mode, foreign, proc, killed, at, rootDone, stopErr>>
    \/ /\ waiter = "closing" /\ waiter' = "done"
       /\ UNCHANGED <<mode, foreign, state, proc, killed, at, rootDone, stopErr>>

-----------------------------------------------------------------------------
(* Start and WaitReady.                                                    *)

\* Start returns an error before newLegacyAgentRuntime has anything to stop.
StartFails ==
    /\ at = "new" /\ Goes("down")
    /\ \/ rootDone /\ UNCHANGED state
       \/ ~rootDone /\ mode = "managed" /\ state' = "stopped"
    /\ UNCHANGED <<proc, killed, waiter, stopErr>>

Start ==
    /\ at = "new" /\ ~rootDone /\ Goes("entry")
    /\ state' = "started"
    /\ \/ mode = "external" /\ UNCHANGED <<proc, waiter>>
       \/ mode = "managed" /\ proc' = "running" /\ waiter' = "waiting"
    /\ UNCHANGED <<killed, stopErr>>

WaitReadyMoves(from, to) ==
    at = from /\ Goes(to) /\ UNCHANGED <<state, proc, killed, waiter, stopErr>>

\* A process that has exited by now makes WaitReady fail at its first check.
WaitReadyBegins ==
    \/ state = "started" /\ WaitReadyMoves("entry", "loop")
    \/ state # "started" /\ WaitReadyMoves("entry", "stop")

\* Every look at waitDone: at the top of the loop, after a successful probe and
\* in the select that paces the probes.
EarlyExit ==
    /\ mode = "managed" /\ waitDone
    /\ \E from \in {"loop", "confirm", "pause"} : WaitReadyMoves(from, "stop")

\* A request that nobody answers fails, and so may any other one.
Probe ==
    \/ ~(mode = "managed" /\ waitDone) /\ WaitReadyMoves("loop", "probing")
    \/ Answers /\ WaitReadyMoves("probing", "confirm")
    \/ WaitReadyMoves("probing", "pause")
    \/ ~(mode = "managed" /\ waitDone) /\ WaitReadyMoves("confirm", "publish")
    \/ WaitReadyMoves("pause", "loop")

\* Mutant: the probe alone decides.
PublishUnchecked ==
    /\ at = "publish" /\ state' = "ready" /\ Goes("serving")
    /\ UNCHANGED <<proc, killed, waiter, stopErr>>

\* The state is checked and set in one critical section.
PublishReady ==
    /\ at = "publish"
    /\ \/ state = "started" /\ state' = "ready" /\ Goes("serving")
       \/ state # "started" /\ UNCHANGED state /\ Goes("stop")
    /\ UNCHANGED <<proc, killed, waiter, stopErr>>

\* The caller's context or the startup timeout; a managed server is stopped by
\* WaitReady itself, an external one by the deferred Stop: the same call.
StartupEnds == WaitReadyMoves("pause", "stop")

-----------------------------------------------------------------------------
(* Stop: signal, bounded wait, kill, bounded wait. stopOnce runs it once;  *)
(* a second caller gets stopErr.                                           *)

Close == WaitReadyMoves("serving", "stop")

markStopped == state' = "stopped" /\ stopErr' = "ok" /\ Goes("down")

StopBegins ==
    /\ at = "stop"
    /\ IF mode = "external" \/ waitDone
       THEN markStopped
       ELSE Goes("term") /\ UNCHANGED <<state, stopErr>>
    /\ UNCHANGED <<proc, killed, waiter>>

StopWaited ==
    /\ at \in {"term", "killwait"} /\ waitDone /\ markStopped
    /\ UNCHANGED <<proc, killed, waiter>>

\* Mutant: a server that ignores the signal is left alone.
TermTimeoutGivesUp ==
    /\ at = "term" /\ stopErr' = "failed" /\ Goes("down")
    /\ UNCHANGED <<state, proc, killed, waiter>>

TermTimeout == WaitReadyMoves("term", "kill")

\* A reaped process cannot be killed: Kill fails, and what counts is whether
\* waitProcess has already closed its channel.
Kill ==
    /\ at = "kill"
    /\ \/ /\ proc # "reaped" /\ killed' = TRUE
          /\ Goes("killwait") /\ UNCHANGED <<state, stopErr>>
       \/ proc = "reaped" /\ waitDone /\ markStopped /\ UNCHANGED killed
       \/ /\ proc = "reaped" /\ ~waitDone /\ stopErr' = "failed"
          /\ Goes("down") /\ UNCHANGED <<state, killed>>
    /\ UNCHANGED <<proc, waiter>>

\* Mutant: after the kill, Stop waits without a timer.
KillWaitsForever == at = "killwait" /\ waitDone /\ markStopped /\ UNCHANGED <<proc, killed, waiter>>

KillTimeout ==
    /\ at = "killwait" /\ stopErr' = "failed" /\ Goes("down")
    /\ UNCHANGED <<state, proc, killed, waiter>>

-----------------------------------------------------------------------------
ManagerStep ==
    \/ StartFails \/ Start \/ WaitReadyBegins \/ EarlyExit \/ Probe \/ PublishReady \/ StartupEnds
    \/ StopBegins \/ StopWaited \/ TermTimeout \/ Kill \/ KillTimeout

ServerEnvironment == RootContextEnds \/ ProcessExits \/ ProcessReaped \/ waitProcess
=============================================================================
