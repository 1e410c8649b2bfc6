--------------------------- MODULE PlaybackProofs ---------------------------
(***************************************************************************)
(* Proofs about the playback session, for every set of turns, formats and  *)
(* processes.                                                              *)
(*                                                                         *)
(*   PlaybackInv      who holds a process and what the worker may assume   *)
(*   PlayerPromise    Playback implements Player, which the coordinator    *)
(*                    relies on                                            *)
(***************************************************************************)
EXTENDS Playback, TLAPS

\* The worker's operation and the point it has reached.
Operation ==
    /\ pc # "idle" => call.op \in PlayerOp
    /\ pc \in {"ensure", "replace", "start", "pipe", "unpipe"} => call.op \in {"write", "play"}
    /\ pc = "finish" => call.op = "play"
    /\ pc \in {"take", "drain", "undrain", "guard"} => call.op \in {"play", "finish"}
    /\ pc \in {"stop", "stopping"} => call.op = "stop" \/ (call.op # "write" /\ call.ctx = "done")
    /\ pc = "undrain" => call.ctx = "done"

\* A session has a process, and the worker's hands are where its step says.
Holding ==
    /\ session = NoSession \/ session.process \in Slots
    /\ pc \in {"pipe", "unpipe"} => held \in Slots /\ session.process = held
    /\ pc = "replace" => session.process \in Slots
    /\ pc \in {"start", "drain", "undrain", "guard", "stopping"} => session = NoSession
    /\ pc \in {"drain", "undrain", "guard", "stopping"} => held \in Slots
    /\ pc \in {"idle", "check", "ensure", "replace", "start", "finish", "take", "stop"} => held = NoProcess
    /\ pc = "guard" => Gone(held)
    /\ \A x \in Others : other[x].pc \in {"kill", "wait"} => other[x].held \in Slots

\* What the audio of the session is when the operation may return it.
Audible ==
    /\ pc = "check" => session.audio \in {before, 0}
    /\ pc = "pipe" /\ wrote = "ok" => session.audio = call.turn

\* After main's Close nobody else has, or starts, a process.
Closing ==
    /\ closed <=> other["main"].pc # "idle"
    /\ closed => /\ session = NoSession /\ other["coordinator"].pc \in {"idle", "done"}
                 /\ pc \in {"idle", "check", "ensure", "take", "stop"}

PlaybackInv ==
    PlaybackTypeOK /\ Operation /\ Holding /\ Audible /\ Closing /\ NoOrphanProcess

-----------------------------------------------------------------------------
(* The records and functions of the session, field by field.               *)

Call == [op : PlayerOp \cup {"none"}, turn : Turns, format : Formats, ctx : {"live", "done"}]
Session == [process : Slots \cup {NoProcess}, format : Formats, audio : Turns \cup {0}]
Hand == [pc : {"idle", "kill", "wait", "done"}, held : Slots \cup {NoProcess}]
ProcState == {"running", "draining", "killed", "exited", "failed"}
PC == {"idle", "check", "ensure", "replace", "start", "pipe", "unpipe", "finish",
       "take", "drain", "undrain", "guard", "stop", "stopping"}
Locked == {"replace", "start", "pipe", "unpipe"}

LEMMA PlaybackTypes ==
    PlaybackTypeOK <=>
        /\ call \in Call /\ pc \in PC /\ held \in Slots \cup {NoProcess} /\ session \in Session
        /\ wrote \in {"pending", "ok", "err"} /\ out \in {"ok", "err", "cancel"}
        /\ other \in [Others -> Hand] /\ lock = IF pc \in Locked THEN "worker" ELSE "free"
        /\ closed \in BOOLEAN /\ shutdown \in BOOLEAN
        /\ proc \in [Slots -> ProcState] /\ before \in Turns \cup {0}
  BY DEF PlaybackTypeOK, Call, PC, Session, Hand, ProcState, Locked

LEMMA PlaybackTypesNext ==
    ASSUME call' \in Call /\ pc' \in PC /\ held' \in Slots \cup {NoProcess} /\ session' \in Session,
           wrote' \in {"pending", "ok", "err"} /\ out' \in {"ok", "err", "cancel"},
           other' \in [Others -> Hand] /\ lock' = IF pc' \in Locked THEN "worker" ELSE "free",
           closed' \in BOOLEAN /\ shutdown' \in BOOLEAN,
           proc' \in [Slots -> ProcState] /\ before' \in Turns \cup {0}
    PROVE  PlaybackTypeOK'
  BY DEF PlaybackTypeOK, Call, PC, Session, Hand, ProcState, Locked

LEMMA Fields ==
    ASSUME PlaybackTypeOK
    PROVE  /\ call.op \in PlayerOp \cup {"none"} /\ call.turn \in Turns
           /\ call.format \in Formats /\ call.ctx \in {"live", "done"}
           /\ session.process \in Slots \cup {NoProcess} /\ session.audio \in Turns \cup {0}
           /\ \A x \in Others : /\ other[x].pc \in {"idle", "kill", "wait", "done"}
                                /\ other[x].held \in Slots \cup {NoProcess}
           /\ \A s \in Slots : proc[s] \in ProcState
  <1> call \in Call /\ session \in Session /\ other \in [Others -> Hand] /\ proc \in [Slots -> ProcState]
    BY PlaybackTypes
  <1> QED BY DEF Call, Session, Hand

LEMMA NewCallFields ==
    NewCall \in Call /\ NewCall.op = "none" /\ NewCall.ctx = "done" /\ NewCall.format \in Formats
  <1>1. (CHOOSE t \in Turns : TRUE) \in Turns /\ (CHOOSE f \in Formats : TRUE) \in Formats
    BY PlaybackAssumption
  <1> QED BY <1>1 DEF NewCall, Call

LEMMA NoSessionFields ==
    NoSession \in Session /\ NoSession.process = NoProcess /\ NoSession.audio = 0
  BY NewCallFields DEF NoSession, Session

\* A session has a process, its absence has none.
LEMMA SessionHasProcess ==
    ASSUME Holding PROVE session = NoSession <=> session.process = NoProcess
  BY NoSessionFields, PlaybackAssumption DEF Holding, NoProcess

LEMMA CallEnds ==
    ASSUME PlaybackTypeOK, NEW o, EndCall(o)
    PROVE  /\ call' \in Call /\ call'.op = call.op /\ call'.turn = call.turn /\ call'.ctx = "done"
           /\ pc' = "idle" /\ held' = NoProcess /\ out' = o /\ before' = 0
  <1>1. call \in Call
    BY PlaybackTypes
  <1>2. ASSUME NEW f \in Formats, call' = [call EXCEPT !.format = f, !.ctx = "done"]
        PROVE call' \in Call /\ call'.op = call.op /\ call'.turn = call.turn /\ call'.ctx = "done"
    BY <1>1, <1>2 DEF Call
  <1> QED BY <1>2, NewCallFields DEF EndCall

ProcTo(s, v) ==
    /\ proc' \in [Slots -> ProcState] /\ proc'[s] = v
    /\ \A u \in Slots : u # s => proc'[u] = proc[u]

LEMMA ProcMovesTo ==
    ASSUME PlaybackTypeOK, NEW s \in Slots
    PROVE  /\ \A v \in ProcState : proc' = [proc EXCEPT ![s] = v] => ProcTo(s, v)
           /\ proc' = Killed(s) => ProcTo(s, IF Alive(s) THEN "killed" ELSE proc[s])
           /\ proc' = [proc EXCEPT ![s] = IF @ = "running" THEN "draining" ELSE @] =>
                ProcTo(s, IF proc[s] = "running" THEN "draining" ELSE proc[s])
  <1> proc \in [Slots -> ProcState]
    BY PlaybackTypes
  <1>1. \A v \in ProcState : proc' = [proc EXCEPT ![s] = v] => ProcTo(s, v)
    BY DEF ProcTo
  <1> QED BY <1>1 DEF Killed, ProcState

OtherTo(x, p, h) ==
    /\ other' \in [Others -> Hand] /\ other'[x].pc = p /\ other'[x].held = h
    /\ \A y \in Others : y # x => other'[y] = other[y]

LEMMA OtherMovesTo ==
    ASSUME PlaybackTypeOK, NEW x \in Others,
           NEW p \in {"idle", "kill", "wait", "done"}, NEW h \in Slots \cup {NoProcess}
    PROVE  /\ other' = [other EXCEPT ![x] = [pc |-> p, held |-> h]] => OtherTo(x, p, h)
           /\ other' = [other EXCEPT ![x].pc = p] => OtherTo(x, p, other[x].held)
  <1> other \in [Others -> Hand]
    BY PlaybackTypes
  <1> QED BY DEF OtherTo, Hand

-----------------------------------------------------------------------------
(* The steps of the worker keep the invariant.                             *)

Outside == <<other, closed, shutdown>>

\* An operation returns: the process it leaves has gone, or is the session still.
LEMMA Ends ==
    ASSUME PlaybackInv, NEW o \in {"ok", "err", "cancel"}, EndCall(o),
           lock' = "free", UNCHANGED <<wrote, proc>>, UNCHANGED Outside,
           session' = session \/ (session' = NoSession /\ (session # NoSession => Gone(session.process))),
           held = NoProcess \/ Gone(held) \/ held = session'.process
    PROVE  PlaybackInv'
  <1>1. PlaybackTypeOK /\ Holding /\ Closing /\ NoOrphanProcess
    BY DEF PlaybackInv
  <1>2. /\ call' \in Call /\ call'.op = call.op /\ call'.turn = call.turn /\ call'.ctx = "done"
        /\ pc' = "idle" /\ held' = NoProcess /\ out' = o /\ before' = 0
    BY <1>1, CallEnds
  <1>3. session' \in Session
    BY <1>1, PlaybackTypes, NoSessionFields
  <1>4. PlaybackTypeOK'
    BY <1>1, <1>2, <1>3, PlaybackTypes, PlaybackTypesNext DEF PC, Locked, Outside
  <1>5. Operation' /\ Audible'
    BY <1>2 DEF Operation, Audible
  <1>6. Holding'
    BY <1>1, <1>2, NoSessionFields DEF Holding, Outside
  <1>7. Closing'
    BY <1>1, <1>2 DEF Closing, Outside
  <1>8. NoOrphanProcess'
    BY <1>1, <1>2, SessionHasProcess, PlaybackAssumption
       DEF NoOrphanProcess, Alive, Gone, Outside, NoProcess
  <1> QED BY <1>4, <1>5, <1>6, <1>7, <1>8 DEF PlaybackInv

LEMMA BeginCallKeeps ==
    ASSUME PlaybackInv, BeginCall, UNCHANGED Outside PROVE PlaybackInv'
  <1>1. PlaybackTypeOK /\ Holding /\ Closing /\ NoOrphanProcess
    BY DEF PlaybackInv
  <1>2. pc = "idle" /\ pc' = "check" /\ before' = session.audio
        /\ UNCHANGED <<held, wrote, out, lock, session, proc>>
    BY DEF BeginCall
  <1>3. call' \in Call /\ call'.op \in PlayerOp
    <2> PICK o \in PlayerOp, t \in Turns, f \in Formats :
            call' = [op |-> o, turn |-> t, format |-> f, ctx |-> "live"]
      BY DEF BeginCall
    <2> QED BY DEF Call
  <1>4. PlaybackTypeOK'
    BY <1>1, <1>2, <1>3, PlaybackTypes, PlaybackTypesNext, Fields DEF PC, Locked, Outside
  <1>5. Operation' /\ Audible'
    BY <1>2, <1>3 DEF Operation, Audible
  <1>6. Holding'
    BY <1>1, <1>2 DEF Holding, Outside
  <1>7. Closing'
    BY <1>1, <1>2 DEF Closing, Outside
  <1>8. NoOrphanProcess'
    BY <1>1, <1>2 DEF NoOrphanProcess, Alive, Outside
  <1> QED BY <1>4, <1>5, <1>6, <1>7, <1>8 DEF PlaybackInv

LEMMA CheckKeeps ==
    ASSUME PlaybackInv, Check, UNCHANGED Outside PROVE PlaybackInv'
  <1>1. PlaybackTypeOK /\ Operation /\ Holding /\ Closing /\ NoOrphanProcess
    BY DEF PlaybackInv
  <1>2. pc = "check" /\ held = NoProcess /\ UNCHANGED <<wrote, lock, session, proc>>
    BY <1>1 DEF Check, Holding
  <1>3. CASE EndCall("cancel")
    BY <1>1, <1>2, <1>3, Ends, PlaybackTypes DEF Locked
  <1>4. CASE /\ pc' = CASE call.op \in {"write", "play"} -> "ensure"
                        [] call.op = "finish" /\ call.ctx = "live" -> "take"
                        [] OTHER -> "stop"
             /\ UNCHANGED <<call, held, out, before>>
    <2>1. \/ pc' = "ensure" /\ call.op \in {"write", "play"}
          \/ pc' = "take" /\ call.op = "finish"
          \/ pc' = "stop" /\ (call.op = "stop" \/ (call.op = "finish" /\ call.ctx = "done"))
      <3>1. call.op \in {"write", "play", "finish", "stop"} /\ call.ctx \in {"live", "done"}
        BY <1>1, <1>2, Fields DEF Operation, PlayerOp
      <3>2. CASE call.op \in {"write", "play"}
        BY <1>4, <3>2
      <3>3. CASE call.op = "finish"
        BY <1>4, <3>1, <3>3
      <3>4. CASE call.op = "stop"
        BY <1>4, <3>4
      <3> QED BY <3>1, <3>2, <3>3, <3>4
    <2>2. PlaybackTypeOK'
      BY <1>1, <1>2, <1>4, <2>1, PlaybackTypes, PlaybackTypesNext DEF PC, Locked, Outside
    <2>3. Operation' /\ Audible'
      BY <1>4, <2>1 DEF Operation, Audible, PlayerOp
    <2>4. Holding'
      BY <1>1, <1>2, <1>4, <2>1 DEF Holding, Outside
    <2>5. Closing'
      BY <1>1, <1>2, <2>1 DEF Closing, Outside
    <2>6. NoOrphanProcess'
      BY <1>1, <1>2, <1>4, <2>1 DEF NoOrphanProcess, Alive, Outside
    <2> QED BY <2>2, <2>3, <2>4, <2>5, <2>6 DEF PlaybackInv
  <1> QED BY <1>3, <1>4 DEF Check

LEMMA EnsureKeeps ==
    ASSUME PlaybackInv, Ensure, UNCHANGED Outside PROVE PlaybackInv'
  <1>1. PlaybackTypeOK /\ Operation /\ Holding /\ Closing /\ NoOrphanProcess
    BY DEF PlaybackInv
  <1>2. pc = "ensure" /\ lock = "free" /\ held = NoProcess /\ UNCHANGED session
        /\ call.op \in {"write", "play"}
    BY <1>1 DEF Ensure, Holding, Operation
  <1>3. CASE closed /\ EndCall("err") /\ UNCHANGED <<wrote, lock, proc>>
    BY <1>1, <1>2, <1>3, Ends
  <1>4. CASE /\ ~closed /\ lock' = "worker" /\ UNCHANGED <<call, out, before>>
             /\ \/ /\ session # NoSession /\ held' = session.process /\ wrote' = "pending"
                   /\ pc' = "pipe" /\ UNCHANGED proc
                \/ /\ session # NoSession /\ proc' = Killed(session.process) /\ pc' = "replace"
                   /\ UNCHANGED <<held, wrote>>
                \/ session = NoSession /\ pc' = "start" /\ UNCHANGED <<held, wrote, proc>>
    <2>1. session # NoSession => session.process \in Slots
      BY <1>1 DEF Holding
    <2>2. /\ proc' \in [Slots -> ProcState]
          /\ \A s \in Slots : proc'[s] # proc[s] => s = session.process
      BY <1>1, <1>4, <2>1, ProcMovesTo, PlaybackTypes DEF ProcTo
    <2>3. PlaybackTypeOK'
      BY <1>1, <1>2, <1>4, <2>1, <2>2, PlaybackTypes, PlaybackTypesNext DEF PC, Locked, Outside
    <2>4. Operation' /\ Audible'
      BY <1>2, <1>4 DEF Operation, Audible, PlayerOp
    <2>5. Holding'
      BY <1>1, <1>2, <1>4, <2>1 DEF Holding, Outside
    <2>6. Closing'
      BY <1>1, <1>2, <1>4 DEF Closing, Outside
    <2>7. NoOrphanProcess'
      BY <1>1, <1>2, <1>4, <2>2, PlaybackAssumption DEF NoOrphanProcess, Alive, Outside, NoProcess
    <2> QED BY <2>3, <2>4, <2>5, <2>6, <2>7 DEF PlaybackInv
  <1> QED BY <1>3, <1>4 DEF Ensure

LEMMA ReplaceKeeps ==
    ASSUME PlaybackInv, Replace, UNCHANGED Outside PROVE PlaybackInv'
  <1>1. PlaybackTypeOK /\ Operation /\ Holding /\ Closing /\ NoOrphanProcess
    BY DEF PlaybackInv
  <1>2. /\ pc = "replace" /\ Gone(session.process) /\ session' = NoSession /\ pc' = "start"
        /\ UNCHANGED <<call, held, wrote, out, before, lock, proc>>
    BY DEF Replace
  <1>3. PlaybackTypeOK'
    BY <1>1, <1>2, PlaybackTypes, PlaybackTypesNext, NoSessionFields DEF PC, Locked, Outside
  <1>4. Operation' /\ Audible'
    BY <1>1, <1>2 DEF Operation, Audible
  <1>5. Holding'
    BY <1>1, <1>2, NoSessionFields DEF Holding, Outside
  <1>6. Closing'
    BY <1>1, <1>2 DEF Closing, Outside
  <1>7. NoOrphanProcess'
    BY <1>1, <1>2 DEF NoOrphanProcess, Alive, Gone, Outside
  <1> QED BY <1>3, <1>4, <1>5, <1>6, <1>7 DEF PlaybackInv

LEMMA StartKeeps ==
    ASSUME PlaybackInv, Start, UNCHANGED Outside PROVE PlaybackInv'
  <1>1. PlaybackTypeOK /\ Operation /\ Holding /\ Closing /\ NoOrphanProcess
    BY DEF PlaybackInv
  <1>2. pc = "start" /\ held = NoProcess /\ session = NoSession
    BY <1>1 DEF Start, Holding
  <1>3. CASE EndCall("err") /\ lock' = "free" /\ UNCHANGED <<wrote, session, proc>>
    BY <1>2, <1>3, Ends
  <1>4. CASE \E s \in {u \in Slots : Unused(u)} :
                /\ proc' = [proc EXCEPT ![s] = "running"]
                /\ session' = [process |-> s, format |-> call.format, audio |-> 0]
                /\ held' = s /\ wrote' = "pending" /\ pc' = "pipe"
                /\ UNCHANGED <<call, out, before, lock>>
    <2>1. PICK s \in Slots :
                /\ proc' = [proc EXCEPT ![s] = "running"]
                /\ session' = [process |-> s, format |-> call.format, audio |-> 0]
                /\ held' = s /\ wrote' = "pending" /\ pc' = "pipe"
                /\ UNCHANGED <<call, out, before, lock>>
      BY <1>4
    <2>2. session' \in Session /\ session'.process = s
      BY <1>1, <2>1, Fields DEF Session
    <2>3. ProcTo(s, "running")
      BY <1>1, <2>1, ProcMovesTo DEF ProcState
    <2>4. PlaybackTypeOK'
      BY <1>1, <1>2, <2>1, <2>2, <2>3, PlaybackTypes, PlaybackTypesNext DEF PC, Locked, ProcTo, Outside
    <2>5. Operation' /\ Audible'
      BY <1>1, <1>2, <2>1 DEF Operation, Audible
    <2>6. Holding'
      BY <1>1, <2>1, <2>2 DEF Holding, Outside
    <2>7. Closing'
      BY <1>1, <1>2 DEF Closing, Outside
    <2>8. NoOrphanProcess'
      BY <1>1, <1>2, <2>1, <2>2, <2>3, NoSessionFields, PlaybackAssumption
         DEF NoOrphanProcess, Alive, Outside, ProcTo, NoProcess
    <2> QED BY <2>4, <2>5, <2>6, <2>7, <2>8 DEF PlaybackInv
  <1> QED BY <1>3, <1>4 DEF Start

LEMMA PipeKeeps ==
    ASSUME PlaybackInv, Pipe, UNCHANGED Outside PROVE PlaybackInv'
  <1>1. PlaybackTypeOK /\ Operation /\ Holding /\ Closing /\ NoOrphanProcess
    BY DEF PlaybackInv
  <1>2. /\ pc = "pipe" /\ held \in Slots /\ session.process = held /\ UNCHANGED wrote
        /\ call.op \in {"write", "play"}
    BY <1>1 DEF Pipe, Holding, Operation
  <1>3. CASE lock' = "free" /\ EndCall("ok") /\ UNCHANGED <<session, proc>>
    BY <1>2, <1>3, Ends
  <1>4. CASE /\ lock' = "free" /\ call.op = "play" /\ pc' = "finish" /\ held' = NoProcess
             /\ UNCHANGED <<call, out, before>> /\ UNCHANGED <<session, proc>>
    <2>1. PlaybackTypeOK'
      BY <1>1, <1>2, <1>4, PlaybackTypes, PlaybackTypesNext DEF PC, Locked, Outside
    <2>2. Operation' /\ Audible'
      BY <1>4 DEF Operation, Audible, PlayerOp
    <2>3. Holding'
      BY <1>1, <1>2, <1>4 DEF Holding, Outside
    <2>4. Closing'
      BY <1>1, <1>2 DEF Closing, Outside
    <2>5. NoOrphanProcess'
      BY <1>1, <1>2, <1>4 DEF NoOrphanProcess, Alive, Outside
    <2> QED BY <2>1, <2>2, <2>3, <2>4, <2>5 DEF PlaybackInv
  <1>5. CASE /\ proc' = Killed(held) /\ pc' = "unpipe"
             /\ UNCHANGED <<call, held, out, before, lock, session>>
    <2>1. ProcTo(held, IF Alive(held) THEN "killed" ELSE proc[held])
      BY <1>1, <1>2, <1>5, ProcMovesTo
    <2>2. PlaybackTypeOK'
      BY <1>1, <1>2, <1>5, <2>1, PlaybackTypes, PlaybackTypesNext DEF PC, Locked, ProcTo, Outside
    <2>3. Operation' /\ Audible'
      BY <1>1, <1>2, <1>5 DEF Operation, Audible, PlayerOp
    <2>4. Holding'
      BY <1>1, <1>2, <1>5 DEF Holding, Outside
    <2>5. Closing'
      BY <1>1, <1>2 DEF Closing, Outside
    <2>6. NoOrphanProcess'
      BY <1>1, <1>2, <1>5, <2>1 DEF NoOrphanProcess, Alive, ProcTo, Outside
    <2> QED BY <2>2, <2>3, <2>4, <2>5, <2>6 DEF PlaybackInv
  <1> QED BY <1>3, <1>4, <1>5 DEF Pipe

LEMMA UnpipeKeeps ==
    ASSUME PlaybackInv, Unpipe, UNCHANGED Outside PROVE PlaybackInv'
  <1>1. PlaybackTypeOK /\ Holding
    BY DEF PlaybackInv
  <1>2. Gone(held) /\ session.process = held /\ session' = NoSession /\ lock' = "free"
        /\ UNCHANGED <<wrote, proc>> /\ EndCall(ErrorOutcome)
    BY <1>1 DEF Unpipe, Holding
  <1>3. ErrorOutcome \in {"ok", "err", "cancel"}
    BY DEF ErrorOutcome
  <1> QED BY <1>2, <1>3, Ends

LEMMA PlayFinishesKeeps ==
    ASSUME PlaybackInv, PlayFinishes, UNCHANGED Outside PROVE PlaybackInv'
  <1>1. PlaybackTypeOK /\ Operation /\ Holding /\ Closing /\ NoOrphanProcess
    BY DEF PlaybackInv
  <1>2. /\ pc = "finish" /\ call.op = "play" /\ pc' = IF call.ctx = "live" THEN "take" ELSE "stop"
        /\ UNCHANGED <<call, held, wrote, out, before, lock, session, proc>>
    BY <1>1 DEF PlayFinishes, Operation
  <1>3. PlaybackTypeOK'
    BY <1>1, <1>2, PlaybackTypes, PlaybackTypesNext DEF PC, Locked, Outside
  <1>4. Operation' /\ Audible'
    BY <1>1, <1>2, Fields DEF Operation, Audible, PlayerOp
  <1>5. Holding'
    BY <1>1, <1>2 DEF Holding, Outside
  <1>6. Closing'
    BY <1>1, <1>2 DEF Closing, Outside
  <1>7. NoOrphanProcess'
    BY <1>1, <1>2 DEF NoOrphanProcess, Alive, Outside
  <1> QED BY <1>3, <1>4, <1>5, <1>6, <1>7 DEF PlaybackInv

\* Finish and Stop take the session out of the player and keep its process.
LEMMA TakesOut ==
    ASSUME PlaybackInv, UNCHANGED Outside, pc \in {"take", "stop"}, lock = "free",
           session # NoSession, held' = session.process, session' = NoSession,
           \/ pc = "take" /\ pc' = "drain"
           \/ pc = "stop" /\ pc' = "stopping",
           proc' \in [Slots -> ProcState], \A s \in Slots : proc'[s] # proc[s] => s = session.process,
           UNCHANGED <<call, out, before, wrote, lock>>
    PROVE  PlaybackInv'
  <1>1. PlaybackTypeOK /\ Operation /\ Holding /\ Closing /\ NoOrphanProcess
    BY DEF PlaybackInv
  <1>2. session.process \in Slots /\ held = NoProcess
    BY <1>1 DEF Holding
  <1>3. PlaybackTypeOK'
    BY <1>1, <1>2, PlaybackTypes, PlaybackTypesNext, NoSessionFields DEF PC, Locked, Outside
  <1>4. Operation' /\ Audible'
    BY <1>1 DEF Operation, Audible
  <1>5. Holding'
    BY <1>1, <1>2 DEF Holding, Outside
  <1>6. Closing'
    BY <1>1 DEF Closing, Outside
  <1>7. NoOrphanProcess'
    BY <1>1, <1>2, PlaybackAssumption DEF NoOrphanProcess, Alive, Outside, NoProcess
  <1> QED BY <1>3, <1>4, <1>5, <1>6, <1>7 DEF PlaybackInv

LEMMA TakeKeeps ==
    ASSUME PlaybackInv, Take, UNCHANGED Outside PROVE PlaybackInv'
  <1>1. PlaybackTypeOK /\ Holding
    BY DEF PlaybackInv
  <1>2. pc = "take" /\ lock = "free" /\ UNCHANGED <<wrote, lock>> /\ held = NoProcess
    BY <1>1 DEF Take, Holding
  <1>3. CASE session = NoSession
    BY <1>2, <1>3, Ends DEF Take
  <1>4. CASE session # NoSession
    <2>1. session.process \in Slots
      BY <1>1, <1>4 DEF Holding
    <2>2. ProcTo(session.process, IF proc[session.process] = "running" THEN "draining"
                                  ELSE proc[session.process])
      BY <1>1, <1>4, <2>1, ProcMovesTo DEF Take
    <2> QED BY <1>2, <1>4, <2>2, TakesOut DEF Take, ProcTo
  <1> QED BY <1>3, <1>4

LEMMA StopTakesKeeps ==
    ASSUME PlaybackInv, StopTakes, UNCHANGED Outside PROVE PlaybackInv'
  <1>1. PlaybackTypeOK /\ Holding
    BY DEF PlaybackInv
  <1>2. pc = "stop" /\ lock = "free" /\ UNCHANGED <<wrote, lock>> /\ held = NoProcess
    BY <1>1 DEF StopTakes, Holding
  <1>3. CASE session = NoSession
    <2>1. StopOutcome \in {"ok", "err", "cancel"}
      BY DEF StopOutcome
    <2> QED BY <1>2, <1>3, <2>1, Ends DEF StopTakes
  <1>4. CASE session # NoSession
    <2>1. session.process \in Slots
      BY <1>1, <1>4 DEF Holding
    <2>2. ProcTo(session.process, IF Alive(session.process) THEN "killed"
                                  ELSE proc[session.process])
      BY <1>1, <1>4, <2>1, ProcMovesTo DEF StopTakes
    <2> QED BY <1>2, <1>4, <2>2, TakesOut DEF StopTakes, ProcTo
  <1> QED BY <1>3, <1>4

LEMMA DrainKeeps ==
    ASSUME PlaybackInv, Drain, UNCHANGED Outside PROVE PlaybackInv'
  <1>1. PlaybackTypeOK /\ Operation /\ Holding /\ Closing /\ NoOrphanProcess
    BY DEF PlaybackInv
  <1>2. /\ pc = "drain" /\ held \in Slots /\ session = NoSession /\ lock = "free"
        /\ call.op \in {"play", "finish"} /\ UNCHANGED <<wrote, lock, session>>
    BY <1>1, PlaybackTypes DEF Drain, Holding, Operation, Locked
  <1>3. CASE proc[held] = "failed" /\ EndCall(ErrorOutcome) /\ UNCHANGED proc
    BY <1>2, <1>3, Ends DEF ErrorOutcome, Gone
  <1>4. CASE /\ \/ proc[held] = "exited" /\ pc' = "guard" /\ UNCHANGED proc
                \/ call.ctx = "done" /\ proc' = Killed(held) /\ pc' = "undrain"
             /\ UNCHANGED <<call, held, out, before>>
    <2>1. /\ proc' \in [Slots -> ProcState]
          /\ \A s \in Slots : proc'[s] # proc[s] => s = held
      BY <1>1, <1>2, <1>4, ProcMovesTo, PlaybackTypes DEF ProcTo
    <2>2. PlaybackTypeOK'
      BY <1>1, <1>2, <1>4, <2>1, PlaybackTypes, PlaybackTypesNext DEF PC, Locked, Outside
    <2>3. Operation' /\ Audible'
      BY <1>2, <1>4 DEF Operation, Audible, PlayerOp
    <2>4. Holding'
      BY <1>1, <1>2, <1>4 DEF Holding, Outside, Gone
    <2>5. Closing'
      BY <1>1, <1>2 DEF Closing, Outside
    <2>6. NoOrphanProcess'
      BY <1>1, <1>2, <1>4, <2>1 DEF NoOrphanProcess, Alive, Outside
    <2> QED BY <2>2, <2>3, <2>4, <2>5, <2>6 DEF PlaybackInv
  <1> QED BY <1>3, <1>4 DEF Drain

LEMMA ReturnsKeep ==
    ASSUME PlaybackInv, Undrain \/ Guard \/ StopReturns, UNCHANGED Outside PROVE PlaybackInv'
  <1>1. PlaybackTypeOK /\ Holding
    BY DEF PlaybackInv
  <1>2. Gone(held) /\ lock = "free" /\ UNCHANGED <<wrote, lock, session, proc>>
    BY <1>1, PlaybackTypes DEF Undrain, Guard, StopReturns, Holding, Locked
  <1>3. \E o \in {"ok", "err", "cancel"} : EndCall(o)
    BY DEF Undrain, Guard, StopReturns, StopOutcome
  <1> QED BY <1>2, <1>3, Ends

-----------------------------------------------------------------------------
(* The steps of the context, of the other operations and of aplay.         *)

LEMMA ContextEndsKeeps ==
    ASSUME PlaybackInv, ContextEnds PROVE PlaybackInv'
  <1>1. PlaybackTypeOK /\ Operation /\ Holding /\ Audible /\ Closing /\ NoOrphanProcess
    BY DEF PlaybackInv
  <1>2. UNCHANGED <<pc, held, wrote, out, before, other, lock, session, closed, proc, shutdown>>
    BY DEF ContextEnds
  <1>3. call' \in Call /\ call'.op = call.op /\ call'.turn = call.turn /\ call'.ctx = "done"
    BY <1>1, PlaybackTypes DEF ContextEnds, Call
  <1>4. PlaybackTypeOK'
    BY <1>1, <1>2, <1>3, PlaybackTypes, PlaybackTypesNext
  <1>5. Operation' /\ Audible'
    BY <1>1, <1>2, <1>3 DEF Operation, Audible
  <1>6. Holding' /\ Closing' /\ NoOrphanProcess'
    BY <1>1, <1>2 DEF Holding, Closing, NoOrphanProcess, Alive, Gone
  <1> QED BY <1>4, <1>5, <1>6 DEF PlaybackInv

LEMMA ShutdownKeeps ==
    ASSUME PlaybackInv, OtherStep(Shutdown) PROVE PlaybackInv'
  <1>1. PlaybackTypeOK /\ Operation /\ Holding /\ Audible /\ Closing /\ NoOrphanProcess
    BY DEF PlaybackInv
  <1>2. shutdown' = TRUE /\ UNCHANGED <<other, session, closed, proc, own, lock>>
    BY DEF OtherStep, Shutdown
  <1>3. PlaybackTypeOK'
    BY <1>1, <1>2, PlaybackTypes, PlaybackTypesNext DEF own
  <1>4. Operation' /\ Audible' /\ Holding' /\ Closing' /\ NoOrphanProcess'
    BY <1>1, <1>2 DEF Operation, Audible, Holding, Closing, NoOrphanProcess, Alive, Gone, own
  <1> QED BY <1>3, <1>4 DEF PlaybackInv

LEMMA OtherTakesKeeps ==
    ASSUME PlaybackInv, NEW x \in Others, OtherStep(OtherTakes(x)) PROVE PlaybackInv'
  <1>1. PlaybackTypeOK /\ Operation /\ Holding /\ Audible /\ Closing /\ NoOrphanProcess
    BY DEF PlaybackInv
  <1>2. /\ other[x].pc = "idle" /\ MayBegin(x) /\ lock = "free"
        /\ x = "coordinator" => other["main"].pc = "idle"
        /\ session' = NoSession /\ closed' = (closed \/ x = "main")
        /\ UNCHANGED <<proc, shutdown, own, lock>>
    BY DEF OtherStep, OtherTakes
  <1>3. OtherTo(x, IF session = NoSession THEN "done" ELSE "kill", session.process)
    BY <1>1, Fields, OtherMovesTo DEF OtherStep, OtherTakes
  <1>4. PlaybackTypeOK'
    BY <1>1, <1>2, <1>3, PlaybackTypes, PlaybackTypesNext, NoSessionFields DEF own, OtherTo
  <1>5. Operation' /\ Audible'
    <2>1. pc # "pipe"
      BY <1>1, <1>2, PlaybackTypes DEF Locked
    <2> QED BY <1>1, <1>2, <2>1, NoSessionFields DEF Operation, Audible, own
  <1>6. Holding'
    <2>1. pc \notin Locked
      BY <1>1, <1>2, PlaybackTypes
    <2> QED BY <1>1, <1>2, <1>3, <2>1 DEF Holding, Gone, OtherTo, own, Locked
  <1>7. Closing'
    BY <1>1, <1>2, <1>3 DEF Closing, MayBegin, Others, OtherTo, own
  <1>8. NoOrphanProcess'
    BY <1>1, <1>2, <1>3, NoSessionFields, PlaybackAssumption
       DEF NoOrphanProcess, Alive, OtherTo, own, NoProcess
  <1> QED BY <1>4, <1>5, <1>6, <1>7, <1>8 DEF PlaybackInv

LEMMA OtherKillsKeeps ==
    ASSUME PlaybackInv, NEW x \in Others, OtherStep(OtherKills(x)) PROVE PlaybackInv'
  <1>1. PlaybackTypeOK /\ Operation /\ Holding /\ Audible /\ Closing /\ NoOrphanProcess
    BY DEF PlaybackInv
  <1>2. other[x].pc = "kill" /\ other[x].held \in Slots /\ UNCHANGED <<session, closed, shutdown, own, lock>>
    BY <1>1 DEF OtherStep, OtherKills, Holding
  <1>3. OtherTo(x, "wait", other[x].held)
    BY <1>1, Fields, OtherMovesTo DEF OtherStep, OtherKills
  <1>4. ProcTo(other[x].held, IF Alive(other[x].held) THEN "killed" ELSE proc[other[x].held])
    BY <1>1, <1>2, ProcMovesTo DEF OtherStep, OtherKills
  <1>5. PlaybackTypeOK'
    BY <1>1, <1>2, <1>3, <1>4, PlaybackTypes, PlaybackTypesNext DEF own, OtherTo, ProcTo
  <1>6. Operation' /\ Audible'
    BY <1>1, <1>2 DEF Operation, Audible, own
  <1>7. Holding'
    <2>1. \A s \in Slots : Gone(s) => Gone(s)'
      BY <1>4 DEF Gone, Alive, ProcTo
    <2> QED BY <1>1, <1>2, <1>3, <2>1 DEF Holding, Gone, OtherTo, own
  <1>8. Closing'
    BY <1>1, <1>2, <1>3 DEF Closing, Others, OtherTo, own
  <1>9. NoOrphanProcess'
    BY <1>1, <1>2, <1>3, <1>4 DEF NoOrphanProcess, Alive, OtherTo, ProcTo, own
  <1> QED BY <1>5, <1>6, <1>7, <1>8, <1>9 DEF PlaybackInv

LEMMA OtherReturnsKeeps ==
    ASSUME PlaybackInv, NEW x \in Others, OtherStep(OtherReturns(x)) PROVE PlaybackInv'
  <1>1. PlaybackTypeOK /\ Operation /\ Holding /\ Audible /\ Closing /\ NoOrphanProcess
    BY DEF PlaybackInv
  <1>2. /\ other[x].pc = "wait" /\ Gone(other[x].held)
        /\ UNCHANGED <<session, closed, proc, shutdown, own, lock>>
    BY DEF OtherStep, OtherReturns
  <1>3. OtherTo(x, "done", NoProcess)
    BY <1>1, OtherMovesTo DEF OtherStep, OtherReturns
  <1>4. PlaybackTypeOK'
    BY <1>1, <1>2, <1>3, PlaybackTypes, PlaybackTypesNext DEF own, OtherTo
  <1>5. Operation' /\ Audible'
    BY <1>1, <1>2 DEF Operation, Audible, own
  <1>6. Holding'
    BY <1>1, <1>2, <1>3 DEF Holding, Gone, OtherTo, own
  <1>7. Closing'
    BY <1>1, <1>2, <1>3 DEF Closing, Others, OtherTo, own
  <1>8. NoOrphanProcess'
    BY <1>1, <1>2, <1>3 DEF NoOrphanProcess, Alive, Gone, OtherTo, own
  <1> QED BY <1>4, <1>5, <1>6, <1>7, <1>8 DEF PlaybackInv

LEMMA PipeStepsKeep ==
    ASSUME PlaybackInv, AplayStep(AplayReads) \/ AplayStep(PipeBreaks) PROVE PlaybackInv'
  <1>1. PlaybackTypeOK /\ Operation /\ Holding /\ Audible /\ Closing /\ NoOrphanProcess
    BY DEF PlaybackInv
  <1>2. pc \in {"pipe", "unpipe"} /\ UNCHANGED <<call, pc, held, out, before, other, lock, closed, shutdown, proc>>
    BY DEF AplayStep, AplayReads, PipeBreaks
  <1>3. /\ session' \in Session /\ session'.process = session.process
        /\ \/ wrote' = "ok" /\ session'.audio = call.turn
           \/ wrote' = "err"
    <2>1. CASE AplayReads
      BY <1>1, <2>1, PlaybackTypes, Fields DEF AplayReads, Session
    <2>2. CASE PipeBreaks
      BY <1>1, <2>2, PlaybackTypes DEF PipeBreaks
    <2> QED BY <2>1, <2>2 DEF AplayStep
  <1>4. PlaybackTypeOK'
    BY <1>1, <1>2, <1>3, PlaybackTypes, PlaybackTypesNext
  <1>5. Operation' /\ Audible'
    BY <1>1, <1>2, <1>3 DEF Operation, Audible
  <1>6. Holding'
    BY <1>1, <1>2, <1>3 DEF Holding, Gone
  <1>7. Closing'
    BY <1>1, <1>2 DEF Closing
  <1>8. NoOrphanProcess'
    BY <1>1, <1>2, <1>3 DEF NoOrphanProcess, Alive
  <1> QED BY <1>4, <1>5, <1>6, <1>7, <1>8 DEF PlaybackInv

LEMMA AplayEndsKeeps ==
    ASSUME PlaybackInv, NEW s \in Slots, AplayStep(AplayExits(s)) \/ AplayStep(AplayFails(s))
    PROVE  PlaybackInv'
  <1>1. PlaybackTypeOK /\ Operation /\ Holding /\ Audible /\ Closing /\ NoOrphanProcess
    BY DEF PlaybackInv
  <1>2. UNCHANGED <<call, pc, held, out, before, other, lock, closed, shutdown, wrote, session>>
    BY DEF AplayStep, AplayExits, AplayFails
  <1>3. ProcTo(s, "exited") \/ ProcTo(s, "failed")
    BY <1>1, ProcMovesTo DEF AplayStep, AplayExits, AplayFails, ProcState
  <1>4. PlaybackTypeOK'
    BY <1>1, <1>2, <1>3, PlaybackTypes, PlaybackTypesNext DEF ProcTo
  <1>5. Operation' /\ Audible'
    BY <1>1, <1>2 DEF Operation, Audible
  <1>6. Holding'
    BY <1>1, <1>2, <1>3 DEF Holding, Gone, ProcTo
  <1>7. Closing'
    BY <1>1, <1>2 DEF Closing
  <1>8. NoOrphanProcess'
    BY <1>1, <1>2, <1>3 DEF NoOrphanProcess, Alive, ProcTo
  <1> QED BY <1>4, <1>5, <1>6, <1>7, <1>8 DEF PlaybackInv

-----------------------------------------------------------------------------
(* The theorems about the session.                                         *)

LEMMA InitIsSafe ==
    ASSUME Init PROVE PlaybackInv
  <1>1. PlaybackTypeOK
    <2>1. other \in [Others -> Hand] /\ proc \in [Slots -> ProcState]
      BY DEF Init, Hand, ProcState
    <2> QED BY <2>1, PlaybackTypes, NewCallFields, NoSessionFields DEF Init, PC, Locked
  <1>2. Operation /\ Audible /\ Closing /\ NoOrphanProcess
    BY DEF Init, Operation, Audible, Closing, NoOrphanProcess, Alive, Others
  <1>3. Holding
    BY DEF Init, Holding, Others
  <1> QED BY <1>1, <1>2, <1>3 DEF PlaybackInv

LEMMA StepIsSafe ==
    ASSUME PlaybackInv, [Next]_vars PROVE PlaybackInv'
  <1>1. CASE BeginCall /\ UNCHANGED Outside
    BY <1>1, BeginCallKeeps
  <1>2. CASE WorkerStep
    <2>1. UNCHANGED Outside
      BY <1>2 DEF WorkerStep, Outside
    <2> QED BY <1>2, <2>1, CheckKeeps, EnsureKeeps, ReplaceKeeps, StartKeeps, PipeKeeps, UnpipeKeeps,
               PlayFinishesKeeps, TakeKeeps, DrainKeeps, StopTakesKeeps, ReturnsKeep DEF WorkerStep
  <1>3. CASE ContextEnds \/ OtherStep(Shutdown)
    BY <1>3, ContextEndsKeeps, ShutdownKeeps
  <1>4. CASE \E x \in Others : OtherStep(OtherTakes(x)) \/ OtherStep(OtherKills(x)) \/ OtherStep(OtherReturns(x))
    BY <1>4, OtherTakesKeeps, OtherKillsKeeps, OtherReturnsKeeps
  <1>5. CASE AplayStep(AplayReads) \/ AplayStep(PipeBreaks)
    BY <1>5, PipeStepsKeep
  <1>6. CASE \E s \in Slots : AplayStep(AplayExits(s)) \/ AplayStep(AplayFails(s))
    BY <1>6, AplayEndsKeeps
  <1>7. CASE UNCHANGED vars
    <2>1. UNCHANGED <<call, pc, held, wrote, out, before, other, lock, session, closed, proc, shutdown>>
      BY <1>7 DEF vars, own
    <2> QED BY <2>1 DEF PlaybackInv, PlaybackTypeOK, Operation, Holding, Audible, Closing,
                        NoOrphanProcess, Alive, Gone
  <1> QED BY <1>1, <1>2, <1>3, <1>4, <1>5, <1>6, <1>7 DEF Next, Outside

LEMMA PlaybackIsSafe == Spec => []PlaybackInv
  BY InitIsSafe, StepIsSafe, PTL DEF Spec

\* The state of the player stays in its types, and writeMu is held exactly
\* while Write works with its process, through every early return.
THEOREM PlaybackTyped == Spec => []PlaybackTypeOK
  <1>1. PlaybackInv => PlaybackTypeOK
    BY DEF PlaybackInv
  <1> QED BY PlaybackIsSafe, <1>1, PTL

\* Whatever fails, is cancelled or crosses: an aplay process that runs is the
\* session or in the hands of an operation that kills it and waits for it.
THEOREM ProcessesAreOwned == Spec => []NoOrphanProcess
  <1>1. PlaybackInv => NoOrphanProcess
    BY DEF PlaybackInv
  <1> QED BY PlaybackIsSafe, <1>1, PTL

\* Once main's Close has returned no aplay process runs, and none is started.
THEOREM CloseIsForGood == Spec => []ClosedForGood
  <1>1. ASSUME PlaybackInv PROVE ClosedForGood
    <2>1. PlaybackTypeOK /\ Holding /\ Closing /\ NoOrphanProcess
      BY <1>1 DEF PlaybackInv
    <2>2. SUFFICES ASSUME other["main"].pc = "done" PROVE \A s \in Slots : ~Alive(s)
      BY DEF ClosedForGood
    <2>3. session = NoSession /\ held = NoProcess /\ other["coordinator"].pc \notin {"kill", "wait"}
      BY <2>1, <2>2 DEF Closing, Holding
    <2> QED BY <2>1, <2>2, <2>3, NoSessionFields, PlaybackAssumption
               DEF NoOrphanProcess, Others, NoProcess
  <1> QED BY PlaybackIsSafe, <1>1, PTL

-----------------------------------------------------------------------------
(* Playback implements Player.                                             *)

\* A step inside an operation is no step of the player.
LEMMA Stutters ==
    ASSUME pc # "idle", pc' # "idle", UNCHANGED <<call, out, before>>
    PROVE  UNCHANGED Promise!playerVars
  BY DEF Promise!playerVars

\* The outcome of an operation, and what it leaves in the session, are among
\* those of the player.
LEMMA ReturnsAsPromised ==
    ASSUME PlaybackInv, NEW o, EndCall(o), pc # "idle",
           /\ o \in {"ok", "err", "cancel"}
           /\ call.op = "stop" => o = "ok"
           /\ o = "cancel" => call.ctx = "done",
           session'.audio \in SessionAfter(call.op, o, call.turn, before)
    PROVE  Promise!Returns
  <1>1. PlaybackTypeOK /\ Operation
    BY DEF PlaybackInv
  <1>2. /\ call'.op = call.op /\ call'.turn = call.turn /\ call'.ctx = "done"
        /\ pc' = "idle" /\ out' = o
    BY <1>1, CallEnds
  <1>3. call.op # "none"
    BY <1>1 DEF Operation, PlayerOp
  <1>4. out' \in Promise!PlayerOutcome
    BY <1>2 DEF Promise!PlayerOutcome
  <1>5. session'.audio \in Promise!SessionAfter(call.op, out', call.turn, before)
    BY <1>2 DEF SessionAfter, PlayerOp, Promise!SessionAfter, Promise!PlayerOp
  <1> QED BY <1>2, <1>3, <1>4, <1>5 DEF Promise!Returns

\* What the operations leave, by operation and outcome.
LEMMA Effects ==
    ASSUME NEW t, NEW b
    PROVE  /\ SessionAfter("write", "ok", t, b) = {t}
           /\ SessionAfter("write", "cancel", t, b) = {b, 0}
           /\ SessionAfter("play", "cancel", t, b) = {b, 0}
           /\ SessionAfter("write", "err", t, b) = {0} /\ SessionAfter("play", "err", t, b) = {0}
           /\ SessionAfter("play", "ok", t, b) = {0}
           /\ \A o \in {"ok", "err", "cancel"} : /\ SessionAfter("finish", o, t, b) = {0}
                                                  /\ SessionAfter("stop", o, t, b) = {0}
  BY DEF SessionAfter, PlayerOp

LEMMA WorkerAsPromised ==
    ASSUME PlaybackInv, WorkerStep PROVE Promise!Returns \/ UNCHANGED Promise!playerVars
  <1>1. PlaybackTypeOK /\ Operation /\ Holding /\ Audible /\ Closing
    BY DEF PlaybackInv
  <1>2. call.ctx \in {"live", "done"}
    BY <1>1, Fields
  <1>3. CASE Check
    <2>1. pc = "check" /\ session' = session /\ session.audio \in {before, 0}
      BY <1>1, <1>3 DEF Check, Audible
    <2>2. CASE call.op \in {"write", "play"} /\ call.ctx = "done" /\ EndCall("cancel")
      BY <2>1, <2>2, ReturnsAsPromised, Effects
    <2>3. CASE /\ pc' = CASE call.op \in {"write", "play"} -> "ensure"
                          [] call.op = "finish" /\ call.ctx = "live" -> "take"
                          [] OTHER -> "stop"
               /\ UNCHANGED <<call, held, out, before>>
      <3>1. pc' # "idle"
        BY <2>3
      <3> QED BY <2>1, <2>3, <3>1, Stutters
    <2> QED BY <1>3, <2>2, <2>3 DEF Check
  <1>4. CASE Ensure
    <2>1. pc = "ensure" /\ session' = session /\ call.op \in {"write", "play"}
      BY <1>1, <1>4 DEF Ensure, Operation
    <2>2. CASE closed /\ EndCall("err")
      <3>1. session'.audio = 0
        BY <1>1, <2>1, <2>2, NoSessionFields DEF Closing
      <3> QED BY <2>1, <2>2, <3>1, ReturnsAsPromised, Effects
    <2>3. CASE pc' \in {"pipe", "replace", "start"} /\ UNCHANGED <<call, out, before>>
      BY <2>1, <2>3, Stutters
    <2> QED BY <1>4, <2>2, <2>3 DEF Ensure
  <1>5. CASE Replace \/ PlayFinishes
    <2>1. pc # "idle" /\ pc' # "idle" /\ UNCHANGED <<call, out, before>>
      BY <1>5 DEF Replace, PlayFinishes
    <2> QED BY <2>1, Stutters
  <1>6. CASE Start
    <2>1. pc = "start" /\ session.audio = 0 /\ call.op \in {"write", "play"}
      BY <1>1, <1>6, NoSessionFields DEF Start, Holding, Operation
    <2>2. CASE EndCall("err") /\ session' = session
      BY <2>1, <2>2, ReturnsAsPromised, Effects
    <2>3. CASE pc' = "pipe" /\ UNCHANGED <<call, out, before>>
      BY <2>1, <2>3, Stutters
    <2> QED BY <1>6, <2>2, <2>3 DEF Start
  <1>7. CASE Pipe
    <2>1. pc = "pipe" /\ call.op \in {"write", "play"}
      BY <1>1, <1>7 DEF Pipe, Operation
    <2>2. CASE wrote = "ok" /\ call.op # "play" /\ EndCall("ok") /\ session' = session
      BY <1>1, <2>1, <2>2, ReturnsAsPromised, Effects DEF Audible
    <2>3. CASE pc' \in {"finish", "unpipe"} /\ UNCHANGED <<call, out, before>>
      BY <2>1, <2>3, Stutters
    <2> QED BY <1>7, <2>2, <2>3 DEF Pipe
  <1>8. CASE Unpipe
    <2>1. /\ pc = "unpipe" /\ call.op \in {"write", "play"} /\ EndCall(ErrorOutcome)
          /\ session'.audio = 0
      BY <1>1, <1>8, NoSessionFields DEF Unpipe, Operation
    <2>2. ErrorOutcome \in {"err", "cancel"} /\ (ErrorOutcome = "cancel" => call.ctx = "done")
      BY DEF ErrorOutcome
    <2> QED BY <2>1, <2>2, ReturnsAsPromised, Effects
  <1>9. CASE Take
    <2>1. pc = "take" /\ call.op \in {"play", "finish"}
      BY <1>1, <1>9 DEF Take, Operation
    <2>2. CASE session = NoSession
      <3>1. EndCall("ok") /\ session'.audio = 0
        BY <1>9, <2>2, NoSessionFields DEF Take
      <3> QED BY <2>1, <3>1, ReturnsAsPromised, Effects
    <2>3. CASE session # NoSession
      <3>1. pc' = "drain" /\ UNCHANGED <<call, out, before>>
        BY <1>9, <2>3 DEF Take
      <3> QED BY <2>1, <3>1, Stutters
    <2> QED BY <2>2, <2>3
  <1>10. CASE Drain
    <2>1. pc = "drain" /\ call.op \in {"play", "finish"} /\ session' = session /\ session.audio = 0
      BY <1>1, <1>10, NoSessionFields DEF Drain, Operation, Holding
    <2>2. CASE EndCall(ErrorOutcome)
      <3>1. ErrorOutcome \in {"err", "cancel"} /\ (ErrorOutcome = "cancel" => call.ctx = "done")
        BY DEF ErrorOutcome
      <3> QED BY <2>1, <2>2, <3>1, ReturnsAsPromised, Effects
    <2>3. CASE pc' \in {"guard", "undrain"} /\ UNCHANGED <<call, out, before>>
      BY <2>1, <2>3, Stutters
    <2> QED BY <1>10, <2>2, <2>3 DEF Drain
  <1>11. CASE Undrain \/ Guard
    <2>1. /\ pc \in {"undrain", "guard"} /\ call.op \in {"play", "finish"}
          /\ session' = session /\ session.audio = 0
      BY <1>1, <1>11, NoSessionFields DEF Undrain, Guard, Operation, Holding
    <2>2. EndCall("ok") \/ (call.ctx = "done" /\ EndCall("cancel"))
      BY <1>1, <1>11 DEF Undrain, Guard, Operation
    <2> QED BY <2>1, <2>2, ReturnsAsPromised, Effects
  <1>12. CASE StopTakes \/ StopReturns
    <2>1. /\ pc \in {"stop", "stopping"} /\ call.op \in {"play", "finish", "stop"}
          /\ call.op # "stop" => call.ctx = "done"
      BY <1>1, <1>12 DEF StopTakes, StopReturns, Operation, PlayerOp
    <2>2. CASE EndCall(StopOutcome) /\ session' = NoSession
      <3>1. /\ StopOutcome \in {"ok", "cancel"} /\ (call.op = "stop" => StopOutcome = "ok")
            /\ StopOutcome = "cancel" => call.ctx = "done"
            /\ call.op # "stop" => StopOutcome = "cancel"
        BY <2>1 DEF StopOutcome
      <3>2. session'.audio = 0
        BY <2>2, NoSessionFields
      <3> QED BY <2>1, <2>2, <3>1, <3>2, ReturnsAsPromised, Effects
    <2>3. CASE pc' = "stopping" /\ UNCHANGED <<call, out, before>>
      BY <2>1, <2>3, Stutters
    <2> QED BY <1>1, <1>12, <2>2, <2>3 DEF StopTakes, StopReturns, Holding
  <1> QED BY <1>3, <1>4, <1>5, <1>6, <1>7, <1>8, <1>9, <1>10, <1>11, <1>12 DEF WorkerStep

LEMMA StepAsPromised ==
    ASSUME PlaybackInv, [Next]_vars PROVE [Promise!PlayerNext]_(Promise!playerVars)
  <1>1. PlaybackTypeOK /\ Holding
    BY DEF PlaybackInv
  <1>2. CASE BeginCall
    <2>1. pc = "idle" /\ pc' = "check" /\ before' = session.audio /\ UNCHANGED out
      BY <1>2 DEF BeginCall
    <2>2. call'.op \in PlayerOp /\ call'.turn \in Turns /\ call'.ctx = "live"
      BY <1>2 DEF BeginCall
    <2> QED BY <2>1, <2>2 DEF Promise!PlayerNext, Promise!Begins, PlayerOp, Promise!PlayerOp
  <1>3. CASE WorkerStep
    BY <1>3, WorkerAsPromised DEF Promise!PlayerNext
  <1>4. CASE ContextEnds
    <2>1. /\ call.ctx = "live" /\ call'.ctx = "done" /\ call'.op = call.op /\ call'.turn = call.turn
          /\ UNCHANGED <<pc, out, before, session>>
      BY <1>1, <1>4, PlaybackTypes DEF ContextEnds, Call
    <2> QED BY <2>1 DEF Promise!PlayerNext, Promise!ContextEnds
  <1>5. ASSUME NEW x \in Others, OtherStep(OtherTakes(x))
        PROVE  [Promise!PlayerNext]_(Promise!playerVars)
    <2>1. session' = NoSession /\ UNCHANGED <<call, pc, out, before>>
      BY <1>5 DEF OtherStep, OtherTakes, own
    <2>2. CASE pc = "idle"
      <3>1. session'.audio = 0
        BY <2>1, NoSessionFields
      <3> QED BY <2>1, <2>2, <3>1 DEF Promise!PlayerNext, Promise!StopFromOutside,
                                              Promise!SessionAfterStop
    <2> QED BY <2>1, <2>2, Stutters
  <1>6. CASE \/ OtherStep(Shutdown) \/ AplayStep(PipeBreaks)
             \/ \E x \in Others : OtherStep(OtherKills(x)) \/ OtherStep(OtherReturns(x))
             \/ \E s \in Slots : AplayStep(AplayExits(s)) \/ AplayStep(AplayFails(s))
             \/ UNCHANGED vars
    <2>1. UNCHANGED <<call, pc, out, before, session>>
      BY <1>6 DEF OtherStep, Shutdown, AplayStep, PipeBreaks, OtherKills, OtherReturns, AplayExits,
                  AplayFails, own, vars
    <2> QED BY <2>1 DEF Promise!playerVars
  <1>7. CASE AplayStep(AplayReads)
    BY <1>7, Stutters DEF AplayStep, AplayReads
  <1> QED BY <1>2, <1>3, <1>4, <1>5, <1>6, <1>7 DEF Next

\* Every operation of the player ends as the coordinator's model of it allows:
\* a cancelled outcome only after its context ended, a session of the operation's
\* own turn or none, and a Stop from outside that leaves no session.
THEOREM PlayerPromise == Spec => ImplementsPlayer
  <1>1. Init => Promise!PlayerInit
    <2>1. (CHOOSE t \in Turns : TRUE) \in Turns
      BY PlaybackAssumption
    <2> QED BY <2>1, NoSessionFields DEF Init, Promise!PlayerInit, NewCall
  <1>2. PlaybackInv /\ [Next]_vars => [Promise!PlayerNext]_(Promise!playerVars)
    BY StepAsPromised
  <1> QED BY <1>1, <1>2, PlaybackIsSafe, PTL DEF Spec, ImplementsPlayer, Promise!PlayerSpec

=============================================================================
