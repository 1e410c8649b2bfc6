---------------------------- MODULE SpeechProofs ----------------------------
(***************************************************************************)
(* Proofs about the speech-to-text worker and the transcript bridge, for   *)
(* every number of turns, of callers, of restarts and of lines of noise.   *)
(*                                                                         *)
(*   WorkerInv   opMu lets one call use the process, so the id of its      *)
(*               request is newer than every frame left in the pipes, and  *)
(*               a process is killed or known to be gone before the next   *)
(*   BridgeInv   one final at a time, and decodeMu orders it with the      *)
(*               previews                                                  *)
(***************************************************************************)
EXTENDS Speech, TLAPS

-----------------------------------------------------------------------------
(* The invariant of the worker.                                            *)

\* A call that holds opMu; Close holds it while it stops the process.
InOp(c) == call[c].pc \in {"write", "read", "done", "stop", "kill"}

\* opMu: one call at a time, none beside Close, and none once the worker is closed.
OneOperation ==
    /\ \A c, d \in Callers : InOp(c) /\ InOp(d) => c = d
    /\ closer \in {"stop", "kill", "stopped"} => worker.closed /\ \A c \in Callers : ~InOp(c)

\* A frame of another request has another id than the one a call waits for.
OwnFrame(f) ==
    /\ f.id <= proc.ids
    /\ \A c \in Callers : call[c].pc = "read" /\ f.id = call[c].id => f.of = c

\* The id a call waits for is its own, and so is every frame that carries it.
FramesAreOwn ==
    /\ \A c \in Callers : call[c].pc = "read" => 0 < call[c].id /\ call[c].id <= proc.ids
    /\ \A i \in DOMAIN proc.in : OwnFrame(proc.in[i])
    /\ \A i \in DOMAIN proc.out : OwnFrame(proc.out[i])

\* A process that loses its client has been killed, or has exited.
KillPrecedesLoss ==
    /\ \A c \in Callers : call[c].pc = "kill" => proc.killed
    /\ closer = "kill" => proc.killed
    /\ NoStrayWorker

CallsGetOwnText == \A c \in Callers : call[c].got \in {c, Nobody}

WorkerInv ==
    /\ WorkerTypeOK /\ OneOperation /\ FramesAreOwn /\ KillPrecedesLoss
    /\ CallsGetOwnText


-----------------------------------------------------------------------------
(* Updates of the worker's records, field by field.                        *)

Worker == [live : BOOLEAN, closed : BOOLEAN, starts : 1..MaxStarts]
Process == [st : {"running", "exited", "waited"}, killed : BOOLEAN,
            ids : Nat, in : Seq(Frame), out : Seq(Frame)]
PC == {"idle", "lock", "write", "read", "done", "stop", "kill", "returned"}
Call == [pc : PC, id : Nat, got : Callers \cup {Nobody}]

IsWorker(w, live, closed, starts) ==
    w \in Worker /\ w.live = live /\ w.closed = closed /\ w.starts = starts
IsProcess(p, st, killed, ids, in, out) ==
    p \in Process /\ p.st = st /\ p.killed = killed /\ p.ids = ids /\ p.in = in /\ p.out = out
IsCall(r, pc, id, got) == r \in Call /\ r.pc = pc /\ r.id = id /\ r.got = got

LEMMA WorkerUpdates ==
    ASSUME NEW w \in Worker, NEW b \in BOOLEAN
    PROVE  /\ IsWorker([w EXCEPT !.closed = b], w.live, b, w.starts)
           /\ IsWorker([w EXCEPT !.live = b], b, w.closed, w.starts)
           /\ w.starts < MaxStarts =>
                IsWorker([w EXCEPT !.live = b, !.starts = @ + 1], b, w.closed, w.starts + 1)
  <1>1. IsWorker([w EXCEPT !.closed = b], w.live, b, w.starts)
    BY DEF Worker, IsWorker
  <1>2. IsWorker([w EXCEPT !.live = b], b, w.closed, w.starts)
    BY DEF Worker, IsWorker
  <1>3. ASSUME NEW n \in 1..MaxStarts
        PROVE IsWorker([w EXCEPT !.live = b, !.starts = n], b, w.closed, n)
    BY <1>3 DEF Worker, IsWorker
  <1>4. w.starts < MaxStarts => w.starts + 1 \in 1..MaxStarts
    BY WorkerAssumption DEF Worker
  <1> QED BY <1>1, <1>2, <1>3, <1>4

LEMMA ProcessUpdates ==
    ASSUME NEW p \in Process, NEW b \in BOOLEAN
    PROVE  /\ IsProcess([p EXCEPT !.killed = b], p.st, b, p.ids, p.in, p.out)
           /\ IsProcess([p EXCEPT !.st = "exited"], "exited", p.killed, p.ids, p.in, p.out)
           /\ IsProcess([p EXCEPT !.st = "waited", !.in = <<>>, !.out = <<>>],
                        "waited", p.killed, p.ids, <<>>, <<>>)
           /\ IsProcess([p EXCEPT !.in = <<>>, !.out = <<>>, !.ids = 0],
                        p.st, p.killed, 0, <<>>, <<>>)
  <1>1. IsProcess([p EXCEPT !.killed = b], p.st, b, p.ids, p.in, p.out)
    BY DEF Process, IsProcess
  <1>2. IsProcess([p EXCEPT !.st = "exited"], "exited", p.killed, p.ids, p.in, p.out)
    BY DEF Process, IsProcess
  <1>3. ASSUME NEW e \in Seq(Frame)
        PROVE  /\ IsProcess([p EXCEPT !.st = "waited", !.in = e, !.out = e],
                            "waited", p.killed, p.ids, e, e)
               /\ IsProcess([p EXCEPT !.in = e, !.out = e, !.ids = 0],
                            p.st, p.killed, 0, e, e)
    BY DEF Process, IsProcess
  <1>4. <<>> \in Seq(Frame)
    OBVIOUS
  <1> QED BY <1>1, <1>2, <1>3, <1>4

LEMMA PipeUpdates ==
    ASSUME NEW p \in Process, NEW n \in Nat, NEW i \in Seq(Frame), NEW o \in Seq(Frame)
    PROVE  /\ IsProcess([p EXCEPT !.ids = n], p.st, p.killed, n, p.in, p.out)
           /\ IsProcess([p EXCEPT !.ids = n, !.in = i], p.st, p.killed, n, i, p.out)
           /\ IsProcess([p EXCEPT !.out = o], p.st, p.killed, p.ids, p.in, o)
           /\ IsProcess([p EXCEPT !.in = i, !.out = o], p.st, p.killed, p.ids, i, o)
  BY DEF Process, IsProcess

CallTo(c, p, n, g) ==
    /\ call' \in [Callers -> Call] /\ IsCall(call'[c], p, n, g)
    /\ \A d \in Callers : d # c => call'[d] = call[d]

LEMMA WorkerTypes ==
    WorkerTypeOK <=> /\ worker \in Worker /\ proc \in Process /\ strays \in Nat
                     /\ call \in [Callers -> Call]
                     /\ closer \in {"open", "lock", "stop", "kill", "stopped"}
                     /\ noise \in 0..MaxNoise
  BY DEF WorkerTypeOK, Worker, Process, Call, PC

LEMMA CallFields ==
    ASSUME WorkerTypeOK, NEW c \in Callers
    PROVE  call[c].pc \in PC /\ call[c].id \in Nat /\ call[c].got \in Callers \cup {Nobody}
  BY WorkerTypes DEF Call

LEMMA ProcessFields ==
    ASSUME WorkerTypeOK
    PROVE  /\ proc.st \in {"running", "exited", "waited"} /\ proc.killed \in BOOLEAN
           /\ proc.ids \in Nat /\ proc.in \in Seq(Frame) /\ proc.out \in Seq(Frame)
  BY WorkerTypes DEF Process

\* What the steps of a call do to its entry.
LEMMA CallMovesTo ==
    ASSUME WorkerTypeOK, NEW c \in Callers
    PROVE  /\ \A p \in PC : Goes(c, p) => CallTo(c, p, call[c].id, call[c].got)
           /\ \A g \in Callers \cup {Nobody} : Returns(c, g) => CallTo(c, "returned", 0, g)
           /\ call' = [call EXCEPT ![c] = NoCall] => CallTo(c, "idle", 0, Nobody)
           /\ call' = [call EXCEPT ![c].got = Nobody] => CallTo(c, call[c].pc, call[c].id, Nobody)
           /\ \A p \in PC, n \in Nat :
                 call' = [call EXCEPT ![c].pc = p, ![c].id = n] => CallTo(c, p, n, call[c].got)
           /\ \A p \in PC, g \in Callers \cup {Nobody} :
                 call' = [call EXCEPT ![c].pc = p, ![c].got = g] => CallTo(c, p, call[c].id, g)
  <1>1. /\ call \in [Callers -> Call]
        /\ call[c].pc \in PC /\ call[c].id \in Nat /\ call[c].got \in Callers \cup {Nobody}
    BY WorkerTypes, CallFields
  <1>2. ASSUME NEW p \in PC, Goes(c, p) PROVE CallTo(c, p, call[c].id, call[c].got)
    BY <1>1, <1>2 DEF Goes, CallTo, IsCall, Call, PC
  <1>3. ASSUME NEW g \in Callers \cup {Nobody}, Returns(c, g) PROVE CallTo(c, "returned", 0, g)
    <2>1. 0 \in Nat /\ "returned" \in PC
      BY DEF PC
    <2> QED BY <1>1, <1>3, <2>1 DEF Returns, CallTo, IsCall, Call, PC
  <1>4. ASSUME call' = [call EXCEPT ![c] = NoCall] PROVE CallTo(c, "idle", 0, Nobody)
    <2>1. 0 \in Nat /\ "idle" \in PC /\ Nobody \in Callers \cup {Nobody}
      BY DEF PC
    <2> QED BY <1>1, <1>4, <2>1 DEF NoCall, CallTo, IsCall, Call, PC
  <1>5. ASSUME call' = [call EXCEPT ![c].got = Nobody] PROVE CallTo(c, call[c].pc, call[c].id, Nobody)
    BY <1>1, <1>5 DEF CallTo, IsCall, Call, PC
  <1>6. ASSUME NEW p \in PC, NEW n \in Nat, call' = [call EXCEPT ![c].pc = p, ![c].id = n]
        PROVE  CallTo(c, p, n, call[c].got)
    BY <1>1, <1>6 DEF CallTo, IsCall, Call, PC
  <1>7. ASSUME NEW p \in PC, NEW g \in Callers \cup {Nobody},
               call' = [call EXCEPT ![c].pc = p, ![c].got = g]
        PROVE  CallTo(c, p, call[c].id, g)
    BY <1>1, <1>7 DEF CallTo, IsCall, Call, PC
  <1> QED BY <1>2, <1>3, <1>4, <1>5, <1>6, <1>7

-----------------------------------------------------------------------------
(* The steps of the worker keep its invariant.                             *)

\* A call that takes or leaves a place outside of opMu: a new one, a result that is
\* taken, a call that returns.
LEMMA LeavingKeepsWorker ==
    ASSUME WorkerInv, NEW c \in Callers, NEW p \in {"idle", "lock", "returned"}, NEW n,
           NEW g \in {c, Nobody}, CallTo(c, p, n, g),
           UNCHANGED <<worker, proc, strays, closer, noise>>
    PROVE  WorkerInv'
  <1>1. ~InOp(c)' /\ call'[c].pc \notin {"read", "kill"}
    BY DEF InOp, CallTo, IsCall
  <1>2. \A d \in Callers : d # c => (InOp(d)' <=> InOp(d)) /\ call'[d] = call[d]
    BY DEF InOp, CallTo
  <1>3. WorkerTypeOK'
    BY WorkerTypes DEF CallTo, WorkerInv, WorkerTypeOK, Call, PC
  <1>4. OneOperation'
    BY <1>1, <1>2 DEF WorkerInv, OneOperation
  <1>5. FramesAreOwn'
    BY <1>1, <1>2 DEF WorkerInv, FramesAreOwn, OwnFrame
  <1>6. KillPrecedesLoss'
    BY <1>1, <1>2 DEF WorkerInv, KillPrecedesLoss, NoStrayWorker
  <1>7. CallsGetOwnText'
    BY <1>2 DEF WorkerInv, CallsGetOwnText, CallTo, IsCall
  <1> QED BY <1>3, <1>4, <1>5, <1>6, <1>7 DEF WorkerInv

LEMMA QueueKeepsWorker ==
    ASSUME WorkerInv, NEW c \in Callers, Transcribe(c) \/ Taken(c)
    PROVE  WorkerInv'
  <1>1. CASE Transcribe(c)
    <2>1. CallTo(c, "lock", call[c].id, call[c].got)
      BY <1>1, CallMovesTo DEF Transcribe, WorkerInv, PC
    <2> QED BY <1>1, <2>1, LeavingKeepsWorker DEF Transcribe, WorkerInv, CallsGetOwnText
  <1>2. CASE Taken(c)
    <2>1. CallTo(c, "idle", 0, Nobody)
      BY <1>2, CallMovesTo DEF Taken, WorkerInv
    <2> QED BY <1>2, <2>1, LeavingKeepsWorker DEF Taken
  <1> QED BY <1>1, <1>2

\* opMu is taken: nobody else is inside, and a new process has empty pipes.
LEMMA EnterKeepsWorker ==
    ASSUME WorkerInv, NEW c \in Callers, NEW over, runWorkerCall(c, over)
    PROVE  WorkerInv'
  <1>1. CASE Returns(c, Nobody) /\ UNCHANGED <<worker, proc, strays>>
    <2>1. CallTo(c, "returned", 0, Nobody)
      BY <1>1, CallMovesTo DEF WorkerInv
    <2> QED BY <1>1, <2>1, LeavingKeepsWorker DEF runWorkerCall
  <1>2. CASE /\ ~worker.closed /\ Goes(c, "write")
             /\ IF worker.live THEN UNCHANGED <<worker, proc, strays>> ELSE startLocked
    <2>1. CallTo(c, "write", call[c].id, call[c].got)
      BY <1>2, CallMovesTo DEF WorkerInv, PC
    <2>2. /\ \A d \in Callers : ~InOp(d) /\ call[d].pc # "read"
          /\ closer \notin {"stop", "kill", "stopped"} /\ UNCHANGED <<closer, noise>>
      BY <1>2 DEF runWorkerCall, opMuFree, InOp, WorkerInv, OneOperation
    <2>3. /\ \A d \in Callers : InOp(d)' => d = c
          /\ \A d \in Callers : call'[d].pc \notin {"read", "kill"}
      BY <2>1, <2>2 DEF InOp, CallTo, IsCall, opMuFree, runWorkerCall
    <2>4. OneOperation'
      BY <2>2, <2>3 DEF OneOperation
    <2>5. CallsGetOwnText'
      BY <2>1 DEF WorkerInv, CallsGetOwnText, CallTo, IsCall
    <2>6. CASE UNCHANGED <<worker, proc, strays>>
      <3>1. WorkerTypeOK'
        BY <2>1, <2>2, <2>6, WorkerTypes DEF CallTo, WorkerInv, WorkerTypeOK, Call, PC
      <3>2. FramesAreOwn'
        BY <2>2, <2>3, <2>6 DEF WorkerInv, FramesAreOwn, OwnFrame
      <3>3. KillPrecedesLoss'
        BY <2>2, <2>3, <2>6 DEF WorkerInv, KillPrecedesLoss, NoStrayWorker
      <3> QED BY <2>4, <2>5, <3>1, <3>2, <3>3 DEF WorkerInv
    <2>7. CASE ~worker.live /\ startLocked
      <3>1. IsWorker(worker', TRUE, worker.closed, worker.starts + 1)
        BY <2>7, WorkerUpdates, WorkerTypes DEF startLocked, WorkerInv
      <3>2. proc' = NewProcess(0) /\ proc' \in Process
        BY <2>7 DEF startLocked, NewProcess, Process
      <3>3. strays = 0 /\ (proc.st = "running" => proc.killed)
        BY <2>7 DEF WorkerInv, KillPrecedesLoss, NoStrayWorker
      <3>4. strays' = 0
        BY <2>7, <3>3 DEF startLocked
      <3>5. WorkerTypeOK'
        BY <2>1, <2>2, <3>1, <3>2, <3>4, WorkerTypes
           DEF CallTo, IsWorker, WorkerInv, WorkerTypeOK, Worker, Process, Call, PC
      <3>6. FramesAreOwn'
        BY <2>3, <3>2 DEF FramesAreOwn, NewProcess
      <3>7. KillPrecedesLoss'
        BY <2>2, <2>3, <3>1, <3>4 DEF KillPrecedesLoss, NoStrayWorker, IsWorker
      <3> QED BY <2>4, <2>5, <3>5, <3>6, <3>7 DEF WorkerInv
    <2> QED BY <1>2, <2>6, <2>7
  <1> QED BY <1>1, <1>2 DEF runWorkerCall

\* The call that holds opMu is alone, and remains so until it returns.
LEMMA HolderIsAlone ==
    ASSUME WorkerInv, NEW c \in Callers, InOp(c), NEW p, NEW n, NEW g, CallTo(c, p, n, g),
           UNCHANGED closer
    PROVE  /\ closer \notin {"stop", "kill", "stopped"}
           /\ \A d \in Callers : d # c => ~InOp(d)' /\ call'[d].pc \notin {"read", "kill"}
           /\ OneOperation'
  <1>1. closer \notin {"stop", "kill", "stopped"} /\ \A d \in Callers : InOp(d) => d = c
    BY DEF WorkerInv, OneOperation
  <1>2. \A d \in Callers : d # c => ~InOp(d)' /\ call'[d].pc \notin {"read", "kill"}
    BY <1>1 DEF CallTo, InOp
  <1> QED BY <1>1, <1>2 DEF OneOperation

\* A step of the holder that leaves process and client alone.
LEMMA HolderMoves ==
    ASSUME WorkerInv, NEW c \in Callers, InOp(c), NEW p \in PC \ {"read", "kill"}, NEW n,
           NEW g \in {c, Nobody}, CallTo(c, p, n, g),
           UNCHANGED <<worker, proc, strays, closer, noise>>
    PROVE  WorkerInv'
  <1>1. \A d \in Callers : call'[d].pc \notin {"read", "kill"}
    BY HolderIsAlone DEF CallTo, IsCall
  <1>2. WorkerTypeOK'
    BY WorkerTypes DEF CallTo, WorkerInv, WorkerTypeOK, Call, PC
  <1>3. FramesAreOwn' /\ KillPrecedesLoss'
    BY <1>1 DEF WorkerInv, FramesAreOwn, OwnFrame, KillPrecedesLoss, NoStrayWorker
  <1>4. CallsGetOwnText'
    BY DEF WorkerInv, CallsGetOwnText, CallTo, IsCall
  <1> QED BY <1>2, <1>3, <1>4, HolderIsAlone DEF WorkerInv

\* The id of a new request is newer than every frame in the pipes.
LEMMA WriteKeepsWorker ==
    ASSUME WorkerInv, NEW c \in Callers, NEW over, Write(c, over)
    PROVE  WorkerInv'
  <1>1. /\ InOp(c) /\ UNCHANGED <<worker, strays, closer, noise>>
        /\ call[c].id \in Nat /\ call[c].got \in {c, Nobody} /\ proc \in Process /\ proc.ids \in Nat
        /\ proc.in \in Seq(Frame) /\ proc.out \in Seq(Frame)
    BY CallFields, WorkerTypes, ProcessFields DEF Write, InOp, WorkerInv, CallsGetOwnText
  <1> DEFINE id == proc.ids + 1
             request == [kind |-> "ok", id |-> id, of |-> c]
  <1>2. CASE Goes(c, "done") /\ UNCHANGED proc
    <2>1. CallTo(c, "done", call[c].id, call[c].got)
      BY <1>2, CallMovesTo DEF WorkerInv, PC
    <2> QED BY <1>1, <1>2, <2>1, HolderMoves DEF PC
  <1>3. CASE /\ proc.st = "running"
             /\ proc' = [proc EXCEPT !.ids = id, !.in = Append(@, request)]
             /\ call' = [call EXCEPT ![c].pc = "read", ![c].id = id]
    <2>1. id \in Nat /\ request \in Frame
      BY <1>1 DEF Frame
    <2>2. CallTo(c, "read", id, call[c].got)
      BY <1>3, <2>1, CallMovesTo DEF WorkerInv, PC
    <2>3. Append(proc.in, request) \in Seq(Frame)
      BY <1>1, <2>1
    <2>4. IsProcess(proc', proc.st, proc.killed, id, Append(proc.in, request), proc.out)
      BY <1>1, <1>3, <2>1, <2>3, PipeUpdates
    <2>5. /\ \A d \in Callers : call'[d].pc = "read" => d = c
          /\ call'[c].id = id /\ \A d \in Callers : call'[d].pc # "kill"
      BY <1>1, <2>2, HolderIsAlone DEF CallTo, IsCall
    <2>6. WorkerTypeOK'
      BY <1>1, <2>2, <2>4, WorkerTypes
         DEF CallTo, IsProcess, WorkerInv, WorkerTypeOK, Process, Call, PC
    <2>7. FramesAreOwn'
      <3> DEFINE Own(f) == /\ f.id <= id
                           /\ \A d \in Callers : call'[d].pc = "read" /\ f.id = call'[d].id => f.of = d
      <3>1. ASSUME NEW f \in Frame, f.id <= proc.ids PROVE Own(f)
        <4>1. f.id < id /\ f.id \in Nat
          BY <1>1, <3>1 DEF Frame
        <4> QED BY <2>1, <2>5, <4>1
      <3>2. Own(request)
        BY <2>1, <2>5
      <3>3. \A i \in DOMAIN proc.out : proc.out[i] \in Frame /\ proc.out[i].id <= proc.ids
        BY <1>1 DEF WorkerInv, FramesAreOwn, OwnFrame
      <3>4. \A i \in DOMAIN proc.in : proc.in[i] \in Frame /\ proc.in[i].id <= proc.ids
        BY <1>1 DEF WorkerInv, FramesAreOwn, OwnFrame
      <3>5. ASSUME NEW i \in DOMAIN Append(proc.in, request)
            PROVE  \/ Append(proc.in, request)[i] = request
                   \/ i \in DOMAIN proc.in /\ Append(proc.in, request)[i] = proc.in[i]
        BY <1>1
      <3> HIDE DEF request
      <3>6. \A i \in DOMAIN Append(proc.in, request) : Own(Append(proc.in, request)[i])
        BY <3>1, <3>2, <3>4, <3>5
      <3>7. \A i \in DOMAIN proc.out : Own(proc.out[i])
        BY <3>1, <3>3
      <3> QED BY <1>1, <2>1, <2>4, <2>5, <3>6, <3>7 DEF FramesAreOwn, OwnFrame, IsProcess
    <2>8. KillPrecedesLoss'
      BY <1>1, <2>2, <2>4, <2>5, HolderIsAlone DEF WorkerInv, KillPrecedesLoss, NoStrayWorker, IsProcess
    <2>9. CallsGetOwnText'
      BY <1>1, <2>2 DEF WorkerInv, CallsGetOwnText, CallTo, IsCall
    <2> QED BY <1>1, <2>2, <2>6, <2>7, <2>8, <2>9, HolderIsAlone DEF WorkerInv
  <1>4. CASE Goes(c, "done") /\ proc' = [proc EXCEPT !.ids = id]
    <2>1. CallTo(c, "done", call[c].id, call[c].got)
      BY <1>4, CallMovesTo DEF WorkerInv, PC
    <2>2. IsProcess(proc', proc.st, proc.killed, id, proc.in, proc.out)
      <3>1. id \in Nat
        BY <1>1
      <3> HIDE DEF id
      <3> QED BY <1>1, <1>4, <3>1, PipeUpdates
    <2>3. \A d \in Callers : call'[d].pc \notin {"read", "kill"}
      BY <1>1, <2>1, HolderIsAlone DEF CallTo, IsCall
    <2>4. WorkerTypeOK'
      BY <1>1, <2>1, <2>2, WorkerTypes
         DEF CallTo, IsProcess, WorkerInv, WorkerTypeOK, Process, Call, PC
    <2>5. FramesAreOwn'
      <3>1. \A i \in DOMAIN proc.in : proc.in[i] \in Frame /\ proc.in[i].id <= proc.ids
        BY <1>1 DEF WorkerInv, FramesAreOwn, OwnFrame
      <3>2. \A i \in DOMAIN proc.out : proc.out[i] \in Frame /\ proc.out[i].id <= proc.ids
        BY <1>1 DEF WorkerInv, FramesAreOwn, OwnFrame
      <3> QED BY <1>1, <2>2, <2>3, <3>1, <3>2 DEF FramesAreOwn, OwnFrame, IsProcess, Frame
    <2>6. KillPrecedesLoss' /\ CallsGetOwnText'
      BY <1>1, <2>1, <2>2, <2>3
         DEF WorkerInv, KillPrecedesLoss, NoStrayWorker, IsProcess, CallsGetOwnText, CallTo, IsCall
    <2> QED BY <1>1, <2>1, <2>4, <2>5, <2>6, HolderIsAlone DEF WorkerInv
  <1> QED BY <1>2, <1>3, <1>4 DEF Write

\* A call accepts the frame with its id, and that frame is its own.
LEMMA ReadKeepsWorker ==
    ASSUME WorkerInv, NEW c \in Callers, NEW over, Read(c, over)
    PROVE  WorkerInv'
  <1>1. /\ InOp(c) /\ call[c].pc = "read" /\ UNCHANGED <<worker, strays, closer, noise>>
        /\ call[c].id \in Nat /\ call[c].got \in {c, Nobody} /\ proc \in Process
        /\ proc.in \in Seq(Frame) /\ proc.out \in Seq(Frame)
    BY CallFields, WorkerTypes, ProcessFields DEF Read, InOp, WorkerInv, CallsGetOwnText
  <1>2. CASE Goes(c, "done") /\ UNCHANGED proc
    <2>1. CallTo(c, "done", call[c].id, call[c].got)
      BY <1>2, CallMovesTo DEF WorkerInv, PC
    <2> QED BY <1>1, <1>2, <2>1, HolderMoves DEF PC
  <1>3. CASE proc.out # <<>> /\ proc' = [proc EXCEPT !.out = Tail(@)]
    <2> DEFINE g == IF Accepts(Head(proc.out), call[c].id) /\ ~over THEN Head(proc.out).of ELSE Nobody
    <2>1. g \in {c, Nobody}
      <3>1. Head(proc.out) = proc.out[1] /\ 1 \in DOMAIN proc.out
        BY <1>1, <1>3
      <3> QED BY <1>1, <3>1 DEF Accepts, WorkerInv, FramesAreOwn, OwnFrame
    <2>2. call' = [call EXCEPT ![c].pc = "done", ![c].got = g]
      BY <1>3 DEF Read
    <2> HIDE DEF g
    <2>3. CallTo(c, "done", call[c].id, g)
      BY <2>1, <2>2, CallMovesTo DEF WorkerInv, PC
    <2>4. Tail(proc.out) \in Seq(Frame)
          /\ \A i \in DOMAIN Tail(proc.out) : i + 1 \in DOMAIN proc.out /\ Tail(proc.out)[i] = proc.out[i + 1]
      BY <1>1, <1>3
    <2>5. IsProcess(proc', proc.st, proc.killed, proc.ids, proc.in, Tail(proc.out))
      BY <1>1, <1>3, <2>4, PipeUpdates, ProcessFields DEF WorkerInv
    <2>6. \A d \in Callers : call'[d].pc \notin {"read", "kill"}
      BY <1>1, <2>3, HolderIsAlone DEF CallTo, IsCall
    <2>7. WorkerTypeOK'
      BY <1>1, <2>3, <2>5, WorkerTypes
         DEF CallTo, IsProcess, WorkerInv, WorkerTypeOK, Process, Call, PC
    <2>8. FramesAreOwn'
      <3>1. /\ \A i \in DOMAIN proc.in : proc.in[i].id <= proc.ids
            /\ \A i \in DOMAIN proc.out : proc.out[i].id <= proc.ids
        BY DEF WorkerInv, FramesAreOwn, OwnFrame
      <3> QED BY <2>4, <2>5, <2>6, <3>1 DEF FramesAreOwn, OwnFrame, IsProcess
    <2>9. KillPrecedesLoss' /\ CallsGetOwnText'
      BY <1>1, <2>1, <2>3, <2>5, <2>6
         DEF WorkerInv, KillPrecedesLoss, NoStrayWorker, IsProcess, CallsGetOwnText, CallTo, IsCall
    <2> QED BY <1>1, <2>3, <2>7, <2>8, <2>9, HolderIsAlone DEF WorkerInv
  <1> QED BY <1>2, <1>3 DEF Read

\* A failed call keeps a process in service unless it is known to be gone.
LEMMA ReturnKeepsWorker ==
    ASSUME WorkerInv, NEW c \in Callers, CallReturns(c)
    PROVE  WorkerInv'
  <1>1. /\ InOp(c) /\ UNCHANGED <<proc, strays, closer, noise>>
        /\ call[c].got \in {c, Nobody} /\ worker \in Worker
    BY WorkerTypes DEF CallReturns, InOp, WorkerInv, CallsGetOwnText
  <1>2. CallTo(c, "returned", 0, call[c].got)
    BY <1>1, CallMovesTo DEF CallReturns, WorkerInv
  <1>3. CASE UNCHANGED worker
    BY <1>1, <1>2, <1>3, LeavingKeepsWorker
  <1>4. CASE reapIfExited
    <2>1. IsWorker(worker', ~waitCh, worker.closed, worker.starts)
      <3>1. (~waitCh) \in BOOLEAN
        BY DEF waitCh
      <3> QED BY <1>1, <1>4, <3>1, WorkerUpdates DEF reapIfExited
    <2>2. \A d \in Callers : call'[d].pc \notin {"read", "kill"}
      BY <1>1, <1>2, HolderIsAlone DEF CallTo, IsCall
    <2>3. WorkerTypeOK'
      BY <1>1, <1>2, <2>1, WorkerTypes
         DEF CallTo, IsWorker, WorkerInv, WorkerTypeOK, Worker, Call, PC
    <2>4. FramesAreOwn'
      BY <1>1, <2>2 DEF WorkerInv, FramesAreOwn, OwnFrame
    <2>5. KillPrecedesLoss'
      BY <1>1, <1>2, <2>1, <2>2, HolderIsAlone
         DEF WorkerInv, KillPrecedesLoss, NoStrayWorker, IsWorker, waitCh
    <2>6. CallsGetOwnText'
      BY <1>1, <1>2 DEF WorkerInv, CallsGetOwnText, CallTo, IsCall
    <2> QED BY <1>1, <1>2, <2>3, <2>4, <2>5, <2>6, HolderIsAlone DEF WorkerInv
  <1> QED BY <1>3, <1>4 DEF CallReturns

LEMMA AbortKeepsWorker ==
    ASSUME WorkerInv, NEW c \in Callers, NEW over, abortProcess(c, over)
    PROVE  WorkerInv'
  <1>1. /\ InOp(c) /\ UNCHANGED <<worker, strays, closer, noise>>
        /\ call[c].got \in {c, Nobody} /\ proc \in Process
    BY WorkerTypes DEF abortProcess, InOp, WorkerInv, CallsGetOwnText
  <1>2. CallTo(c, "stop", call[c].id, call[c].got)
    BY CallMovesTo DEF abortProcess, WorkerInv, PC
  <1>3. IsProcess(proc', proc.st, TRUE, proc.ids, proc.in, proc.out)
    BY <1>1, ProcessUpdates DEF abortProcess
  <1>4. \A d \in Callers : call'[d].pc \notin {"read", "kill"}
    BY <1>1, <1>2, HolderIsAlone DEF CallTo, IsCall
  <1>5. WorkerTypeOK'
    BY <1>1, <1>2, <1>3, WorkerTypes
       DEF CallTo, IsProcess, WorkerInv, WorkerTypeOK, Process, Call, PC
  <1>6. FramesAreOwn'
    BY <1>3, <1>4 DEF WorkerInv, FramesAreOwn, OwnFrame, IsProcess
  <1>7. KillPrecedesLoss' /\ CallsGetOwnText'
    BY <1>1, <1>2, <1>3, <1>4
       DEF WorkerInv, KillPrecedesLoss, NoStrayWorker, IsProcess, CallsGetOwnText, CallTo, IsCall
  <1> QED BY <1>1, <1>2, <1>5, <1>6, <1>7, HolderIsAlone DEF WorkerInv

\* What stopLocked does to process and client: it kills, or gives up a process that
\* has been killed or is gone.
LEMMA StopEffects ==
    ASSUME WorkerInv, NEW from, NEW to, stopLocked(from, to), from = "kill" => proc.killed
    PROVE  /\ from \in {"stop", "kill"}
           /\ \/ /\ to = "kill" /\ UNCHANGED worker
                 /\ IsProcess(proc', proc.st, TRUE, proc.ids, proc.in, proc.out)
              \/ /\ to = "stopped" /\ IsWorker(worker', FALSE, worker.closed, worker.starts)
                 /\ IsProcess(proc', proc.st, proc.killed, 0, <<>>, <<>>)
                 /\ proc.st = "running" => proc.killed
  <1>1. worker \in Worker /\ proc \in Process
    BY WorkerTypes DEF WorkerInv
  <1>2. CASE from = "stop" /\ to = "kill" /\ proc' = [proc EXCEPT !.killed = TRUE] /\ UNCHANGED worker
    BY <1>1, <1>2, ProcessUpdates
  <1>3. CASE /\ from = "kill" \/ (from = "stop" /\ waitCh)
             /\ to = "stopped" /\ worker' = [worker EXCEPT !.live = FALSE]
             /\ proc' = [proc EXCEPT !.in = <<>>, !.out = <<>>, !.ids = 0]
    <2>1. IsWorker(worker', FALSE, worker.closed, worker.starts)
      BY <1>1, <1>3, WorkerUpdates
    <2>2. IsProcess(proc', proc.st, proc.killed, 0, <<>>, <<>>)
      BY <1>1, <1>3, ProcessUpdates
    <2> QED BY <1>3, <2>1, <2>2 DEF waitCh
  <1> QED BY <1>2, <1>3 DEF stopLocked

LEMMA CallStopsKeepsWorker ==
    ASSUME WorkerInv, NEW c \in Callers, CallStops(c)
    PROVE  WorkerInv'
  <1>1. /\ UNCHANGED <<strays, closer, noise>> /\ call[c].got \in {c, Nobody}
        /\ call[c].pc = "kill" => proc.killed
    BY DEF CallStops, WorkerInv, CallsGetOwnText, KillPrecedesLoss
  <1>2. PICK to \in {"kill", "stopped"} :
          /\ stopLocked(call[c].pc, to)
          /\ to = "kill" => Goes(c, "kill")
          /\ to = "stopped" => Returns(c, Nobody)
    BY DEF CallStops
  <1>3. InOp(c)
    BY <1>1, <1>2, StopEffects DEF InOp
  <1>4. CASE to = "kill"
    <2>1. UNCHANGED worker /\ IsProcess(proc', proc.st, TRUE, proc.ids, proc.in, proc.out)
      BY <1>1, <1>2, <1>4, StopEffects
    <2>2. CallTo(c, "kill", call[c].id, call[c].got)
      BY <1>2, <1>4, CallMovesTo DEF WorkerInv, PC
    <2>3. \A d \in Callers : call'[d].pc # "read"
      BY <1>1, <1>3, <2>2, HolderIsAlone DEF CallTo, IsCall
    <2>4. WorkerTypeOK'
      BY <1>1, <2>1, <2>2, WorkerTypes
         DEF CallTo, IsProcess, WorkerInv, WorkerTypeOK, Process, Call, PC
    <2>5. FramesAreOwn'
      BY <2>1, <2>3 DEF WorkerInv, FramesAreOwn, OwnFrame, IsProcess
    <2>6. KillPrecedesLoss' /\ CallsGetOwnText'
      BY <1>1, <2>1, <2>2
         DEF WorkerInv, KillPrecedesLoss, NoStrayWorker, IsProcess, CallsGetOwnText, CallTo, IsCall
    <2> QED BY <1>1, <1>3, <2>2, <2>4, <2>5, <2>6, HolderIsAlone DEF WorkerInv
  <1>5. CASE to = "stopped"
    <2>1. /\ IsWorker(worker', FALSE, worker.closed, worker.starts)
          /\ IsProcess(proc', proc.st, proc.killed, 0, <<>>, <<>>)
          /\ proc.st = "running" => proc.killed
      BY <1>1, <1>2, <1>5, StopEffects
    <2>2. CallTo(c, "returned", 0, Nobody)
      BY <1>2, <1>5, CallMovesTo DEF WorkerInv
    <2>3. \A d \in Callers : call'[d].pc \notin {"read", "kill"}
      BY <1>1, <1>3, <2>2, HolderIsAlone DEF CallTo, IsCall
    <2>4. WorkerTypeOK'
      BY <1>1, <2>1, <2>2, WorkerTypes
         DEF CallTo, IsProcess, IsWorker, WorkerInv, WorkerTypeOK, Worker, Process, Call, PC
    <2>5. FramesAreOwn'
      BY <2>1, <2>3 DEF FramesAreOwn, IsProcess
    <2>6. KillPrecedesLoss' /\ CallsGetOwnText'
      BY <1>1, <2>1, <2>2, <2>3
         DEF WorkerInv, KillPrecedesLoss, NoStrayWorker, IsProcess, IsWorker, CallsGetOwnText, CallTo, IsCall
    <2> QED BY <1>1, <1>3, <2>2, <2>4, <2>5, <2>6, HolderIsAlone DEF WorkerInv
  <1> QED BY <1>2, <1>4, <1>5

LEMMA CallStepKeepsWorker ==
    ASSUME WorkerInv, NEW c \in Callers, NEW over, CallStep(c, over)
    PROVE  WorkerInv'
  BY EnterKeepsWorker, WriteKeepsWorker, ReadKeepsWorker, ReturnKeepsWorker, AbortKeepsWorker,
     CallStopsKeepsWorker DEF CallStep

\* Close takes opMu like a call, and stops what is in service.
LEMMA CloseKeepsWorker ==
    ASSUME WorkerInv, CloseBegins \/ CloseStep
    PROVE  WorkerInv'
  <1>1. CASE CloseBegins
    BY <1>1 DEF CloseBegins, WorkerInv, WorkerTypeOK, OneOperation, InOp, FramesAreOwn, OwnFrame,
                KillPrecedesLoss, NoStrayWorker, CallsGetOwnText
  <1>2. CASE CloseLocks
    <2>1. IsWorker(worker', worker.live, TRUE, worker.starts)
      BY <1>2, WorkerUpdates, WorkerTypes DEF CloseLocks, WorkerInv
    <2>2. /\ \A c \in Callers : ~InOp(c) /\ UNCHANGED <<proc, strays, call, noise>>
          /\ closer' = IF worker.live THEN "stop" ELSE "stopped"
      BY <1>2 DEF CloseLocks, opMuFree, InOp
    <2>3. WorkerTypeOK'
      BY <1>2, <2>1, WorkerTypes
         DEF CloseLocks, IsWorker, WorkerInv, WorkerTypeOK, Worker
    <2>4. OneOperation'
      BY <1>2, <2>1, <2>2 DEF CloseLocks, OneOperation, IsWorker, InOp
    <2>5. FramesAreOwn' /\ CallsGetOwnText'
      BY <1>2 DEF CloseLocks, WorkerInv, FramesAreOwn, OwnFrame, CallsGetOwnText
    <2>6. KillPrecedesLoss'
      BY <1>2, <2>1 DEF CloseLocks, WorkerInv, KillPrecedesLoss, NoStrayWorker, IsWorker
    <2> QED BY <2>3, <2>4, <2>5, <2>6 DEF WorkerInv
  <1>3. CASE CloseStops
    <2>1. PICK to \in {"kill", "stopped"} : stopLocked(closer, to) /\ closer' = to
      BY <1>3 DEF CloseStops
    <2>2. UNCHANGED <<strays, call, noise>> /\ (closer = "kill" => proc.killed)
      BY <1>3 DEF CloseStops, WorkerInv, KillPrecedesLoss
    <2>3. worker.closed /\ \A c \in Callers : ~InOp(c)
      BY <2>1, <2>2, StopEffects DEF WorkerInv, OneOperation
    <2>4. \A c \in Callers : call[c].pc \notin {"read", "kill"} /\ ~InOp(c)'
      BY <2>2, <2>3 DEF InOp
    <2>5. CASE to = "kill"
      <3>1. UNCHANGED worker /\ IsProcess(proc', proc.st, TRUE, proc.ids, proc.in, proc.out)
        BY <2>1, <2>2, <2>5, StopEffects
      <3>2. WorkerTypeOK'
        BY <2>1, <2>2, <2>5, <3>1, WorkerTypes DEF IsProcess, WorkerInv, WorkerTypeOK, Process
      <3>3. OneOperation' /\ FramesAreOwn' /\ CallsGetOwnText'
        BY <2>2, <2>3, <2>4, <3>1
           DEF WorkerInv, OneOperation, FramesAreOwn, OwnFrame, IsProcess, CallsGetOwnText
      <3>4. KillPrecedesLoss'
        BY <2>1, <2>2, <2>5, <3>1 DEF WorkerInv, KillPrecedesLoss, NoStrayWorker, IsProcess
      <3> QED BY <3>2, <3>3, <3>4 DEF WorkerInv
    <2>6. CASE to = "stopped"
      <3>1. /\ IsWorker(worker', FALSE, worker.closed, worker.starts)
            /\ IsProcess(proc', proc.st, proc.killed, 0, <<>>, <<>>)
            /\ proc.st = "running" => proc.killed
        BY <2>1, <2>2, <2>6, StopEffects
      <3>2. WorkerTypeOK'
        BY <2>1, <2>2, <2>6, <3>1, WorkerTypes
           DEF IsProcess, IsWorker, WorkerInv, WorkerTypeOK, Worker, Process
      <3>3. OneOperation' /\ FramesAreOwn' /\ CallsGetOwnText'
        BY <2>2, <2>3, <2>4, <3>1
           DEF WorkerInv, OneOperation, FramesAreOwn, IsProcess, IsWorker, CallsGetOwnText
      <3>4. KillPrecedesLoss'
        BY <2>1, <2>2, <2>4, <2>6, <3>1
           DEF WorkerInv, KillPrecedesLoss, NoStrayWorker, IsProcess, IsWorker
      <3> QED BY <3>2, <3>3, <3>4 DEF WorkerInv
    <2> QED BY <2>1, <2>5, <2>6
  <1> QED BY <1>1, <1>2, <1>3 DEF CloseStep

\* The process answers with the id and the owner of the request; its noise has id 0,
\* which no call waits for.
LEMMA ProcessKeepsWorker ==
    ASSUME WorkerInv, ProcessStep
    PROVE  WorkerInv'
  <1>1. /\ proc \in Process /\ proc.in \in Seq(Frame) /\ proc.out \in Seq(Frame) /\ proc.ids \in Nat
        /\ UNCHANGED <<worker, strays, call, closer>>
    BY WorkerTypes, ProcessFields DEF WorkerInv, ProcessStep, ProcessAnswers, ProcessExits, ProcessWaited
  <1>2. OneOperation' /\ CallsGetOwnText'
    BY <1>1 DEF WorkerInv, OneOperation, InOp, CallsGetOwnText
  <1>3. CASE ProcessAnswers
    <2>1. PICK kind \in {"ok", "error"}, n \in 0..(MaxNoise - noise) :
            /\ noise' = noise + n
            /\ proc' = [proc EXCEPT !.in = Tail(@),
                         !.out = @ \o Printed(n) \o <<[Head(proc.in) EXCEPT !.kind = kind]>>]
      BY <1>3 DEF ProcessAnswers
    <2> DEFINE answer == [Head(proc.in) EXCEPT !.kind = kind]
               out == proc.out \o Printed(n) \o <<answer>>
               silence == [kind |-> "noise", id |-> 0, of |-> Nobody]
    <2>2. n \in Nat /\ noise' \in 0..MaxNoise
      BY <2>1, WorkerAssumption DEF WorkerInv, WorkerTypeOK
    <2>3. silence \in Frame
      BY DEF Frame
    <2>4. Printed(n) \in Seq(Frame) /\ \A i \in DOMAIN Printed(n) : Printed(n)[i] = silence
      BY <2>2, <2>3 DEF Printed
    <2>5. /\ proc.in[1] \in Frame /\ 1 \in DOMAIN proc.in /\ Head(proc.in) = proc.in[1]
          /\ Tail(proc.in) \in Seq(Frame)
          /\ \A i \in DOMAIN Tail(proc.in) : i + 1 \in DOMAIN proc.in /\ Tail(proc.in)[i] = proc.in[i + 1]
      BY <1>1, <1>3 DEF ProcessAnswers
    <2>6. answer \in Frame /\ answer.id = proc.in[1].id /\ answer.of = proc.in[1].of
      BY <2>1, <2>5 DEF Frame
    <2> HIDE DEF answer
    <2>7. out \in Seq(Frame)
      BY <1>1, <2>4, <2>6
    <2>8. \A i \in DOMAIN out : \/ i \in DOMAIN proc.out /\ out[i] = proc.out[i]
                                \/ i - Len(proc.out) \in DOMAIN Printed(n)
                                     /\ out[i] = Printed(n)[i - Len(proc.out)]
                                \/ out[i] = answer
      BY <1>1, <2>4
    <2>9. IsProcess(proc', proc.st, proc.killed, proc.ids, Tail(proc.in), out)
      <3> HIDE DEF out
      <3>1. proc' = [proc EXCEPT !.in = Tail(proc.in), !.out = out]
        BY <2>1 DEF answer, out
      <3> QED BY <1>1, <2>5, <2>7, <3>1, PipeUpdates
    <2> HIDE DEF out
    <2>10. WorkerTypeOK'
      BY <1>1, <2>2, <2>9, WorkerTypes DEF IsProcess, WorkerInv, WorkerTypeOK, Process
    <2>11. FramesAreOwn'
      <3>1. OwnFrame(silence)
        BY <1>1 DEF WorkerInv, FramesAreOwn, OwnFrame
      <3>2. OwnFrame(answer)
        BY <2>5, <2>6 DEF WorkerInv, FramesAreOwn, OwnFrame
      <3> HIDE DEF silence
      <3>3. \A i \in DOMAIN out : OwnFrame(out[i])
        BY <2>4, <2>8, <3>1, <3>2 DEF WorkerInv, FramesAreOwn
      <3>4. \A i \in DOMAIN Tail(proc.in) : OwnFrame(Tail(proc.in)[i])
        BY <2>5 DEF WorkerInv, FramesAreOwn
      <3> QED BY <1>1, <2>9, <3>3, <3>4 DEF WorkerInv, FramesAreOwn, OwnFrame, IsProcess
    <2>12. KillPrecedesLoss'
      BY <1>1, <2>9 DEF WorkerInv, KillPrecedesLoss, NoStrayWorker, IsProcess
    <2> QED BY <1>2, <2>10, <2>11, <2>12 DEF WorkerInv
  <1>4. CASE ProcessExits
    <2>1. IsProcess(proc', "exited", proc.killed, proc.ids, proc.in, proc.out) /\ UNCHANGED noise
      BY <1>1, <1>4, ProcessUpdates DEF ProcessExits
    <2>2. WorkerTypeOK'
      BY <1>1, <2>1, WorkerTypes DEF IsProcess, WorkerInv, WorkerTypeOK, Process
    <2>3. FramesAreOwn' /\ KillPrecedesLoss'
      BY <1>1, <2>1 DEF WorkerInv, FramesAreOwn, OwnFrame, IsProcess, KillPrecedesLoss, NoStrayWorker
    <2> QED BY <1>2, <2>2, <2>3 DEF WorkerInv
  <1>5. CASE ProcessWaited
    <2>1. IsProcess(proc', "waited", proc.killed, proc.ids, <<>>, <<>>) /\ UNCHANGED noise
      BY <1>1, <1>5, ProcessUpdates DEF ProcessWaited
    <2>2. WorkerTypeOK'
      BY <1>1, <2>1, WorkerTypes DEF IsProcess, WorkerInv, WorkerTypeOK, Process
    <2>3. FramesAreOwn' /\ KillPrecedesLoss'
      BY <1>1, <2>1 DEF WorkerInv, FramesAreOwn, OwnFrame, IsProcess, KillPrecedesLoss, NoStrayWorker
    <2> QED BY <1>2, <2>2, <2>3 DEF WorkerInv
  <1> QED BY <1>3, <1>4, <1>5 DEF ProcessStep

-----------------------------------------------------------------------------
(* The invariant of the bridge and of the turns.                           *)

FinalPC == {"off", "taken", "mutex", "decode", "cancel", "emit", "done", "failed"}
Final == [pc : FinalPC, id : 0..MaxTurns]

BridgeTypeOK ==
    /\ bridge \in [turnID : 0..MaxTurns, cancel : BOOLEAN]
    /\ previewCtx \in [Turn -> {"none", "live", "ended"}]
    /\ turnCtx \in [Turn -> {"none", "live", "interrupted", "ended"}]
    /\ preview \in [Turn -> {"off", "select", "mutex", "decode", "emit"}]
    /\ final \in [Turn -> Final]
    /\ decodeMu \in Callers \cup {Nobody} /\ snapshot \in BOOLEAN
    /\ shown \in 0..MaxTurns
    /\ turn \in 0..MaxTurns /\ stopped \in BOOLEAN
    /\ phase \in {"loop", "listen", "capture", "transcribe", "speak", "fail", "end", "down"}

\* The bridge knows the latest turn, and a context is live in the turn that runs.
TurnsInv ==
    /\ bridge.turnID = turn /\ shown <= turn
    /\ phase \notin {"loop", "down"} => turn \in Turn
    /\ phase \in {"listen", "capture"} => shown < turn
    /\ \A t \in Turn : turnCtx[t] = "live" => t = turn /\ phase \notin {"loop", "down"}

\* At most one final is on its way, of a turn that has been captured and not shown.
OneFinal ==
    /\ \A t, u \in Transcribing : t = u
    /\ \A t \in Transcribing :
          shown < t /\ t <= turn /\ (t = turn => phase \notin {"listen", "capture"})

FinalCall(t) == call[<<"final", t>>]

\* Transcribe and its call. A TurnID that is not its own was read after the turn
\* had ended, and then the call gets no text.
FinalFollowsCall ==
    \A t \in Turn :
        /\ final[t].pc \in {"off", "taken", "mutex", "done", "failed"} => FinalCall(t) = NoCall
        /\ final[t].pc \in {"cancel", "emit"} => FinalCall(t).pc = "returned"
        /\ final[t].pc = "emit" => FinalCall(t).got # Nobody
        /\ final[t].pc \in {"mutex", "decode", "cancel", "emit"} =>
              final[t].id = t \/ (turnCtx[t] # "live" /\ FinalCall(t).got = Nobody)

\* decodeMu: a preview that decodes or shows its text is not older than a final
\* that has left the lock.
DecodeOrder ==
    /\ \A t \in Turn : final[t].pc = "decode" => decodeMu = <<"final", t>>
    /\ \A t \in Turn : preview[t] \in {"decode", "emit"} =>
          /\ decodeMu = <<"preview", t>> /\ shown <= t
          /\ \A u \in Turn : final[u].pc \in {"cancel", "emit"} => u <= t
    /\ \A t \in Turn : preview[t] = "mutex" => <<"preview", t>> \in Callers

BridgeInv == BridgeTypeOK /\ TurnsInv /\ OneFinal /\ FinalFollowsCall /\ DecodeOrder

SpeechInv == WorkerInv /\ BridgeInv

LEMMA SpeechTypes == SpeechTypeOK <=> WorkerTypeOK /\ BridgeTypeOK
  BY DEF SpeechTypeOK, BridgeTypeOK, Final, FinalPC

LEMMA CallersOfTurns ==
    /\ \A t \in Turn : <<"final", t>> \in Callers /\ <<"final", t>> # Nobody
    /\ \A t \in Turn : <<"preview", t>> # Nobody
    /\ \A t, u \in Turn : <<"final", t>> # <<"preview", u>> /\ <<"final", t>> # <<"barge", u>>
    /\ \A t, u \in Turn : t # u => <<"final", t>> # <<"final", u>> /\ <<"preview", t>> # <<"preview", u>>
    /\ Turn \subseteq Nat
  BY SpeechAssumption DEF Nobody, Turn

-----------------------------------------------------------------------------
(* The steps of a worker call, as the bridge sees them.                    *)

\* A step moves one call that has begun and not returned; a text comes only while
\* the context of the call lives.
LEMMA CallStepEffects ==
    ASSUME WorkerInv, NEW c \in Callers, NEW over \in BOOLEAN, CallStep(c, over)
    PROVE  /\ call[c].pc \notin {"idle", "returned"}
           /\ \A d \in Callers : d # c => call'[d] = call[d]
           /\ over => call'[c].got \in {call[c].got, Nobody}
  <1>1. /\ \A p \in PC : Goes(c, p) => CallTo(c, p, call[c].id, call[c].got)
        /\ \A g \in Callers \cup {Nobody} : Returns(c, g) => CallTo(c, "returned", 0, g)
        /\ \A p \in PC, n \in Nat :
              call' = [call EXCEPT ![c].pc = p, ![c].id = n] => CallTo(c, p, n, call[c].got)
        /\ \A p \in PC, g \in Callers \cup {Nobody} :
              call' = [call EXCEPT ![c].pc = p, ![c].got = g] => CallTo(c, p, call[c].id, g)
        /\ call[c].got \in Callers \cup {Nobody} /\ proc.ids \in Nat
    BY CallMovesTo, CallFields, ProcessFields DEF WorkerInv
  <1> DEFINE Effect == /\ \A d \in Callers : d # c => call'[d] = call[d]
                       /\ over => call'[c].got \in {call[c].got, Nobody}
  <1>2. ASSUME NEW p, NEW n, NEW g, CallTo(c, p, n, g), over => g \in {call[c].got, Nobody}
        PROVE  Effect
    BY <1>2 DEF CallTo, IsCall
  <1> HIDE DEF Effect
  <1>3. CASE runWorkerCall(c, over)
    BY <1>1, <1>2, <1>3 DEF runWorkerCall, PC, Effect
  <1>4. CASE Write(c, over)
    BY <1>1, <1>2, <1>4 DEF Write, PC, Effect
  <1>5. CASE Read(c, over)
    <2> DEFINE g == IF Accepts(Head(proc.out), call[c].id) /\ ~over THEN Head(proc.out).of ELSE Nobody
    <2>1. CASE Goes(c, "done")
      BY <1>1, <1>2, <1>5, <2>1 DEF Read, PC, Effect
    <2>2. CASE call' = [call EXCEPT ![c].pc = "done", ![c].got = g] /\ proc.out # <<>>
      <3>1. Head(proc.out) \in Frame
        BY <2>2, ProcessFields DEF WorkerInv
      <3>2. g \in Callers \cup {Nobody} /\ (over => g = Nobody)
        BY <3>1 DEF Frame
      <3> HIDE DEF g
      <3>3. CallTo(c, "done", call[c].id, g) /\ call[c].pc = "read"
        BY <1>1, <1>5, <2>2, <3>2 DEF Read, PC
      <3>4. Effect
        BY <1>2, <3>2, <3>3
      <3> QED BY <3>3, <3>4 DEF Effect
    <2> QED BY <1>5, <2>1, <2>2 DEF Read
  <1>6. CASE CallReturns(c)
    BY <1>1, <1>2, <1>6 DEF CallReturns, PC, Effect
  <1>7. CASE abortProcess(c, over)
    BY <1>1, <1>2, <1>7 DEF abortProcess, PC, Effect
  <1>8. CASE CallStops(c)
    BY <1>1, <1>2, <1>8 DEF CallStops, stopLocked, PC, Effect
  <1> QED BY <1>3, <1>4, <1>5, <1>6, <1>7, <1>8 DEF CallStep, Effect

\* Steps that leave the bridge and the turns alone.
LEMMA BridgeUnmoved ==
    ASSUME BridgeInv, UNCHANGED <<bridgeVars, turnVars>>,
           \A t \in Turn : FinalCall(t)' = FinalCall(t)
    PROVE  BridgeInv'
  BY DEF BridgeInv, BridgeTypeOK, TurnsInv, OneFinal, Transcribing, FinalFollowsCall, DecodeOrder,
         bridgeVars, turnVars

LEMMA CallsKeepBridge ==
    ASSUME SpeechInv, NEW c \in Callers, CallMoves(c)
    PROVE  SpeechInv'
  <1>1. WorkerInv'
    BY CallStepKeepsWorker DEF CallMoves, WorkerMoves, SpeechInv
  <1>2. /\ call[c].pc \notin {"idle", "returned"}
        /\ \A d \in Callers : d # c => call'[d] = call[d]
        /\ Over(c) => call'[c].got \in {call[c].got, Nobody}
        /\ UNCHANGED <<bridgeVars, turnVars>>
    <2>1. Over(c) \in BOOLEAN
      BY DEF Over
    <2> QED BY <2>1, CallStepEffects DEF CallMoves, WorkerMoves, SpeechInv
  <1>3. BridgeTypeOK' /\ TurnsInv' /\ OneFinal' /\ DecodeOrder'
    BY <1>2 DEF SpeechInv, BridgeInv, BridgeTypeOK, TurnsInv, OneFinal, Transcribing, DecodeOrder,
                bridgeVars, turnVars
  <1>4. FinalFollowsCall'
    <2> SUFFICES ASSUME NEW t \in Turn
                 PROVE  /\ final[t].pc \in {"off", "taken", "mutex", "done", "failed"} =>
                              FinalCall(t)' = NoCall
                        /\ final[t].pc \in {"cancel", "emit"} => FinalCall(t)'.pc = "returned"
                        /\ final[t].pc = "emit" => FinalCall(t)'.got # Nobody
                        /\ final[t].pc \in {"mutex", "decode", "cancel", "emit"} =>
                              final[t].id = t \/ (turnCtx[t] # "live" /\ FinalCall(t)'.got = Nobody)
      BY <1>2 DEF FinalFollowsCall, FinalCall, bridgeVars, turnVars
    <2>1. <<"final", t>> \in Callers
      BY CallersOfTurns
    <2>2. CASE c # <<"final", t>>
      BY <1>2, <2>1, <2>2 DEF SpeechInv, BridgeInv, FinalFollowsCall, FinalCall
    <2>3. CASE c = <<"final", t>>
      <3>1. Over(c) <=> turnCtx[t] # "live"
        BY <2>3 DEF Over
      <3>2. call[c].pc \notin {"idle", "returned"}
        BY <1>2
      <3>3. final[t].pc \in FinalPC /\ NoCall.pc = "idle"
        BY DEF SpeechInv, BridgeInv, BridgeTypeOK, Final, NoCall
      <3>4. final[t].pc = "decode"
        BY <2>3, <3>2, <3>3 DEF SpeechInv, BridgeInv, FinalFollowsCall, FinalCall, FinalPC
      <3> QED BY <1>2, <2>3, <3>1, <3>4 DEF SpeechInv, BridgeInv, FinalFollowsCall, FinalCall
    <2> QED BY <2>2, <2>3
  <1> QED BY <1>1, <1>3, <1>4 DEF SpeechInv, BridgeInv

-----------------------------------------------------------------------------
(* The preview goroutines.                                                 *)

\* The calls of previews and candidates are not those of finals.
LEMMA OtherCallsKeepFinals ==
    ASSUME SpeechInv, NEW c \in Callers, \A t \in Turn : c # <<"final", t>>,
           \/ Transcribe(c) \/ Taken(c) \/ call' = [call EXCEPT ![c].got = Nobody]
    PROVE  \A t \in Turn : FinalCall(t)' = FinalCall(t)
  <1>1. \A d \in Callers : d # c => call'[d] = call[d]
    BY CallMovesTo DEF SpeechInv, WorkerInv, Transcribe, Taken, CallTo, PC
  <1> QED BY <1>1, CallersOfTurns DEF FinalCall

\* A preview that takes, keeps or leaves decodeMu.
LEMMA PreviewMoves ==
    ASSUME BridgeInv, NEW t \in Turn, NEW p \in {"off", "mutex", "decode", "emit"},
           preview' = [preview EXCEPT ![t] = p],
           UNCHANGED <<bridge, previewCtx, final, shown, turnVars>>,
           \A u \in Turn : FinalCall(u)' = FinalCall(u),
           snapshot' \in BOOLEAN,
           p = "mutex" => <<"preview", t>> \in Callers,
           \/ p \in {"off", "mutex"} /\ UNCHANGED decodeMu
                /\ preview[t] \notin {"decode", "emit"}
           \/ p = "off" /\ decodeMu' = Nobody /\ preview[t] \in {"decode", "emit"}
           \/ /\ p = "decode" /\ decodeMu = Nobody /\ decodeMu' = <<"preview", t>>
              /\ <<"preview", t>> \in Callers /\ bridge.turnID = t
           \/ p = "emit" /\ UNCHANGED decodeMu /\ preview[t] = "decode"
    PROVE  BridgeInv'
  <1>1. /\ preview' \in [Turn -> {"off", "select", "mutex", "decode", "emit"}]
        /\ preview'[t] = p /\ \A u \in Turn : u # t => preview'[u] = preview[u]
    BY DEF BridgeInv, BridgeTypeOK
  <1>2. BridgeTypeOK' /\ TurnsInv' /\ OneFinal' /\ FinalFollowsCall'
    BY <1>1 DEF BridgeInv, BridgeTypeOK, TurnsInv, OneFinal, Transcribing, FinalFollowsCall, turnVars
  <1>3. DecodeOrder'
    <2>1. \A u \in Turn : u # t /\ preview[u] \in {"decode", "emit"} => decodeMu = <<"preview", u>>
      BY DEF BridgeInv, DecodeOrder
    <2>2. CASE p \in {"off", "mutex"} /\ UNCHANGED decodeMu
      BY <1>1, <2>2 DEF BridgeInv, DecodeOrder
    <2>3. CASE p = "off" /\ decodeMu' = Nobody /\ preview[t] \in {"decode", "emit"}
      <3>1. decodeMu = <<"preview", t>>
        BY <2>3 DEF BridgeInv, DecodeOrder
      <3>2. \A u \in Turn : preview'[u] \notin {"decode", "emit"} /\ final[u].pc # "decode"
        BY <1>1, <2>1, <2>3, <3>1, CallersOfTurns DEF BridgeInv, DecodeOrder
      <3> QED BY <1>1, <2>3, <3>2 DEF BridgeInv, DecodeOrder
    <2>4. CASE p = "decode" /\ decodeMu = Nobody /\ decodeMu' = <<"preview", t>> /\ bridge.turnID = t
      <3>1. \A u \in Turn : preview[u] \notin {"decode", "emit"} /\ final[u].pc # "decode"
        BY <2>4, CallersOfTurns DEF BridgeInv, DecodeOrder
      <3>2. \A u \in Turn : final[u].pc \in {"cancel", "emit"} => u <= t
        BY <2>4 DEF BridgeInv, TurnsInv, OneFinal, Transcribing
      <3>3. shown <= t
        BY <2>4 DEF BridgeInv, TurnsInv
      <3>4. \A u \in Turn : preview'[u] = "mutex" => <<"preview", u>> \in Callers
        BY <1>1, <2>4 DEF BridgeInv, DecodeOrder
      <3> QED BY <1>1, <2>4, <3>1, <3>2, <3>3, <3>4 DEF DecodeOrder
    <2>5. CASE p = "emit" /\ UNCHANGED decodeMu /\ preview[t] = "decode"
      BY <1>1, <2>5 DEF BridgeInv, DecodeOrder
    <2> QED BY <2>2, <2>3, <2>4, <2>5
  <1> QED BY <1>2, <1>3 DEF BridgeInv

LEMMA WorkerUnmoved ==
    ASSUME WorkerInv, UNCHANGED workerVars
    PROVE  WorkerInv'
  BY DEF WorkerInv, workerVars, WorkerTypeOK, OneOperation, InOp, FramesAreOwn, OwnFrame,
         KillPrecedesLoss, NoStrayWorker, CallsGetOwnText

LEMMA PreviewsKeepBridge ==
    ASSUME SpeechInv, NEW t \in Turn, PreviewStep(t)
    PROVE  SpeechInv'
  <1>1. UNCHANGED <<bridge, previewCtx, final, shown, turnVars>>
    BY DEF PreviewStep, PreviewReceives, PreviewLocks, PreviewDecoded, PreviewEmits
  <1>2. ASSUME UNCHANGED workerVars PROVE WorkerInv' /\ \A u \in Turn : FinalCall(u)' = FinalCall(u)
    BY <1>2, WorkerUnmoved DEF SpeechInv, workerVars, FinalCall
  <1>3. ASSUME <<"preview", t>> \in Callers, Transcribe(<<"preview", t>>) \/ Taken(<<"preview", t>>)
        PROVE  WorkerInv' /\ \A u \in Turn : FinalCall(u)' = FinalCall(u)
    BY <1>3, QueueKeepsWorker, OtherCallsKeepFinals, CallersOfTurns DEF SpeechInv
  <1>4. snapshot \in BOOLEAN /\ BridgeInv
    BY DEF SpeechInv, BridgeInv, BridgeTypeOK
  <1>5. preview[t] \in {"decode", "emit"} => <<"preview", t>> \in Callers
    BY CallersOfTurns DEF SpeechInv, BridgeInv, BridgeTypeOK, DecodeOrder
  <1>6. CASE PreviewReceives(t)
    BY <1>1, <1>2, <1>4, <1>6, PreviewMoves DEF PreviewReceives, SpeechInv
  <1>7. CASE PreviewLocks(t)
    <2>1. CASE preview' = [preview EXCEPT ![t] = "off"] /\ UNCHANGED <<decodeMu, workerVars>>
      BY <1>1, <1>2, <1>4, <1>7, <2>1, PreviewMoves DEF PreviewLocks, SpeechInv
    <2>2. CASE /\ ~(Over(<<"preview", t>>) \/ bridge.turnID # t)
               /\ preview' = [preview EXCEPT ![t] = "decode"]
               /\ decodeMu' = <<"preview", t>> /\ Transcribe(<<"preview", t>>)
      <3>1. <<"preview", t>> \in Callers
        BY <1>7 DEF PreviewLocks, SpeechInv, BridgeInv, DecodeOrder
      <3> QED BY <1>1, <1>3, <1>4, <1>7, <2>2, <3>1, PreviewMoves DEF PreviewLocks, SpeechInv
    <2> QED BY <1>7, <2>1, <2>2 DEF PreviewLocks
  <1>8. CASE PreviewDecoded(t) \/ PreviewEmits(t)
    <2>1. CASE PreviewLeaves(t)
      <3>1. preview[t] \in {"decode", "emit"} /\ UNCHANGED snapshot
        BY <1>8 DEF PreviewDecoded, PreviewEmits
      <3> QED BY <1>1, <1>3, <1>4, <1>5, <2>1, <3>1, PreviewMoves DEF PreviewLeaves, SpeechInv
    <2>2. CASE /\ PreviewDecoded(t)
               /\ preview' = [preview EXCEPT ![t] = "emit"] /\ UNCHANGED <<decodeMu, workerVars>>
      BY <1>1, <1>2, <1>4, <2>2, PreviewMoves DEF PreviewDecoded, SpeechInv
    <2> QED BY <1>8, <2>1, <2>2 DEF PreviewDecoded, PreviewEmits
  <1> QED BY <1>6, <1>7, <1>8 DEF PreviewStep

-----------------------------------------------------------------------------
(* The final transcription.                                                *)

FinalTo(t, p, id) ==
    /\ final' \in [Turn -> Final] /\ final'[t].pc = p /\ final'[t].id = id
    /\ \A u \in Turn : u # t => final'[u] = final[u]

LEMMA FinalMovesTo ==
    ASSUME BridgeTypeOK, NEW t \in Turn, NEW p \in FinalPC, NEW id \in 0..MaxTurns
    PROVE  /\ final' = [final EXCEPT ![t].pc = p] => FinalTo(t, p, final[t].id)
           /\ final' = [final EXCEPT ![t] = [pc |-> p, id |-> id]] => FinalTo(t, p, id)
  BY DEF BridgeTypeOK, FinalTo, Final, FinalPC

\* The result of a final: what comes after it is not on its way any more.
LEMMA ResultMovesTo ==
    ASSUME BridgeTypeOK, NEW t \in Turn, NEW p \in {"done", "failed"},
           final' = [final EXCEPT ![t] = Result(t, p)]
    PROVE  \E q \in {"off", "done", "failed"} : FinalTo(t, q, 0)
  <1> DEFINE q == IF turn = t /\ phase = "transcribe" THEN p ELSE "off"
  <1>1. final' = [final EXCEPT ![t] = [pc |-> q, id |-> 0]] /\ q \in {"off", "done", "failed"}
    BY DEF Result
  <1>2. 0 \in 0..MaxTurns /\ q \in FinalPC
    BY SpeechAssumption DEF FinalPC
  <1> HIDE DEF q
  <1> QED BY <1>1, <1>2, FinalMovesTo

\* What the call of this final does, the others' calls do not notice.
LEMMA OwnCallKeepsFinals ==
    ASSUME SpeechInv, NEW t \in Turn, Transcribe(<<"final", t>>) \/ Taken(<<"final", t>>)
    PROVE  /\ \A u \in Turn : u # t => FinalCall(u)' = FinalCall(u)
           /\ Transcribe(<<"final", t>>) => FinalCall(t)'.got = FinalCall(t).got
           /\ Taken(<<"final", t>>) => FinalCall(t)' = NoCall
           /\ WorkerInv'
  <1> DEFINE c == <<"final", t>>
  <1>1. c \in Callers /\ call \in [Callers -> Call]
    BY CallersOfTurns, WorkerTypes DEF SpeechInv, WorkerInv
  <1>2. \A d \in Callers : d # c => call'[d] = call[d]
    BY <1>1, CallMovesTo DEF SpeechInv, WorkerInv, Transcribe, Taken, CallTo, PC
  <1>3. Transcribe(c) => call'[c].got = call[c].got
    BY <1>1, CallMovesTo DEF SpeechInv, WorkerInv, Transcribe, CallTo, IsCall, PC
  <1>4. Taken(c) => call'[c] = NoCall
    BY <1>1 DEF Taken
  <1>5. WorkerInv'
    BY <1>1, QueueKeepsWorker DEF SpeechInv
  <1> QED BY <1>2, <1>3, <1>4, <1>5, CallersOfTurns DEF FinalCall

\* The parts that a final changes only through its own entry.
LEMMA FinalMoves ==
    ASSUME BridgeInv, NEW t \in Turn, t \in Transcribing, NEW p \in FinalPC, NEW id \in 0..MaxTurns,
           FinalTo(t, p, id), UNCHANGED <<preview, snapshot, turnVars, shown>>,
           bridge' \in [turnID : 0..MaxTurns, cancel : BOOLEAN], bridge'.turnID = bridge.turnID,
           previewCtx' \in [Turn -> {"none", "live", "ended"}],
           decodeMu' \in Callers \cup {Nobody}
    PROVE  BridgeTypeOK' /\ TurnsInv' /\ OneFinal'
  <1>1. BridgeTypeOK'
    BY DEF BridgeInv, BridgeTypeOK, FinalTo, turnVars
  <1>2. TurnsInv'
    BY DEF BridgeInv, TurnsInv, turnVars
  <1>3. Transcribing' \subseteq Transcribing
    BY DEF Transcribing, FinalTo
  <1> QED BY <1>1, <1>2, <1>3 DEF BridgeInv, OneFinal, turnVars

LEMMA cancelPreviewTypes ==
    ASSUME BridgeTypeOK, NEW id, cancelPreview(id)
    PROVE  /\ bridge' \in [turnID : 0..MaxTurns, cancel : BOOLEAN] /\ bridge'.turnID = bridge.turnID
           /\ previewCtx' \in [Turn -> {"none", "live", "ended"}]
  BY DEF BridgeTypeOK, cancelPreview

LEMMA FinalsKeepBridge ==
    ASSUME SpeechInv, NEW t \in Turn, FinalStep(t)
    PROVE  SpeechInv'
  <1>1. UNCHANGED <<preview, snapshot, turnVars>> /\ BridgeInv /\ WorkerInv /\ BridgeTypeOK
    BY DEF FinalStep, SpeechInv, BridgeInv
  <1>2. t \in Transcribing /\ \A u \in Transcribing : u = t
    BY DEF FinalStep, FinalBegins, FinalLocks, FinalDecoded, FinalCancels, FinalEmits, Transcribing,
           SpeechInv, BridgeInv, OneFinal
  <1>3. /\ bridge \in [turnID : 0..MaxTurns, cancel : BOOLEAN] /\ bridge.turnID \in 0..MaxTurns
        /\ previewCtx \in [Turn -> {"none", "live", "ended"}]
        /\ decodeMu \in Callers \cup {Nobody} /\ final[t].id \in 0..MaxTurns /\ <<"final", t>> \in Callers
    BY CallersOfTurns DEF SpeechInv, BridgeInv, BridgeTypeOK, Final
  <1>4. ASSUME UNCHANGED workerVars PROVE WorkerInv' /\ \A u \in Turn : FinalCall(u)' = FinalCall(u)
    BY <1>1, <1>4, WorkerUnmoved DEF workerVars, FinalCall
  <1>5. CASE FinalBegins(t) /\ UNCHANGED shown
    <2>1. FinalTo(t, "mutex", bridge.turnID) /\ final[t].pc = "taken"
      BY <1>1, <1>3, <1>5, FinalMovesTo DEF FinalBegins, FinalPC
    <2>2. WorkerInv' /\ \A u \in Turn : FinalCall(u)' = FinalCall(u)
      BY <1>4, <1>5 DEF FinalBegins
    <2>3. BridgeTypeOK' /\ TurnsInv' /\ OneFinal'
      BY <1>1, <1>2, <1>3, <1>5, <2>1, FinalMoves DEF FinalBegins, FinalPC
    <2>4. bridge.turnID = t \/ (turnCtx[t] # "live" /\ FinalCall(t).got = Nobody)
      BY <1>1, <2>1 DEF BridgeInv, TurnsInv, FinalFollowsCall, NoCall
    <2>5. FinalFollowsCall'
      BY <1>1, <2>1, <2>2, <2>4 DEF BridgeInv, FinalFollowsCall, FinalTo, turnVars
    <2>6. DecodeOrder'
      BY <1>1, <1>5, <2>1 DEF BridgeInv, DecodeOrder, FinalTo, FinalBegins
    <2> QED BY <2>2, <2>3, <2>5, <2>6 DEF SpeechInv, BridgeInv
  <1>6. CASE FinalLocks(t) /\ UNCHANGED shown
    <2>1. FinalTo(t, "decode", final[t].id) /\ final[t].pc = "mutex"
      BY <1>1, <1>3, <1>6, FinalMovesTo DEF FinalLocks, FinalPC
    <2>2. /\ WorkerInv' /\ \A u \in Turn : u # t => FinalCall(u)' = FinalCall(u)
          /\ FinalCall(t)'.got = FinalCall(t).got
      BY <1>6, OwnCallKeepsFinals DEF FinalLocks
    <2>3. BridgeTypeOK' /\ TurnsInv' /\ OneFinal'
      BY <1>1, <1>2, <1>3, <1>6, <2>1, FinalMoves DEF FinalLocks, FinalPC
    <2>4. FinalFollowsCall'
      BY <1>1, <2>1, <2>2 DEF BridgeInv, FinalFollowsCall, FinalTo, turnVars
    <2>5. DecodeOrder'
      BY <1>1, <1>6, <2>1, CallersOfTurns DEF BridgeInv, DecodeOrder, FinalTo, FinalLocks
    <2> QED BY <2>2, <2>3, <2>4, <2>5 DEF SpeechInv, BridgeInv
  <1>7. CASE FinalDecoded(t) /\ UNCHANGED shown
    <2>1. FinalTo(t, "cancel", final[t].id) /\ final[t].pc = "decode"
      BY <1>1, <1>3, <1>7, FinalMovesTo DEF FinalDecoded, FinalPC
    <2>2. WorkerInv' /\ \A u \in Turn : FinalCall(u)' = FinalCall(u)
      BY <1>4, <1>7 DEF FinalDecoded
    <2>3. BridgeTypeOK' /\ TurnsInv' /\ OneFinal'
      BY <1>1, <1>2, <1>3, <1>7, <2>1, FinalMoves DEF FinalDecoded, FinalPC
    <2>4. FinalCall(t).pc = "returned"
      BY <1>7 DEF FinalDecoded, FinalCall
    <2>5. FinalFollowsCall'
      BY <1>1, <2>1, <2>2, <2>4 DEF BridgeInv, FinalFollowsCall, FinalTo, turnVars
    <2>6. DecodeOrder'
      BY <1>1, <1>2, <1>7, <2>1, CallersOfTurns
         DEF BridgeInv, DecodeOrder, FinalTo, FinalDecoded, Transcribing
    <2> QED BY <2>2, <2>3, <2>5, <2>6 DEF SpeechInv, BridgeInv
  <1>8. CASE FinalCancels(t) /\ UNCHANGED shown
    <2>1. /\ bridge' \in [turnID : 0..MaxTurns, cancel : BOOLEAN] /\ bridge'.turnID = bridge.turnID
          /\ previewCtx' \in [Turn -> {"none", "live", "ended"}] /\ UNCHANGED decodeMu
          /\ final[t].pc = "cancel"
      BY <1>1, <1>8, cancelPreviewTypes DEF FinalCancels
    <2>2. CASE FinalCall(t).got = Nobody
      <3>1. final' = [final EXCEPT ![t] = Result(t, "failed")] /\ Taken(<<"final", t>>)
        BY <1>8, <2>2 DEF FinalCancels, FinalCall
      <3>2. PICK q \in {"off", "done", "failed"} : FinalTo(t, q, 0)
        BY <1>1, <3>1, ResultMovesTo
      <3>3. /\ WorkerInv' /\ \A u \in Turn : u # t => FinalCall(u)' = FinalCall(u)
            /\ FinalCall(t)' = NoCall
        BY <3>1, OwnCallKeepsFinals
      <3>4. BridgeTypeOK' /\ TurnsInv' /\ OneFinal'
        BY <1>1, <1>2, <1>3, <1>8, <2>1, <3>2, FinalMoves, SpeechAssumption DEF FinalPC
      <3>5. FinalFollowsCall'
        BY <1>1, <3>2, <3>3 DEF BridgeInv, FinalFollowsCall, FinalTo, turnVars
      <3>6. DecodeOrder'
        BY <1>1, <1>8, <2>1, <3>2 DEF BridgeInv, DecodeOrder, FinalTo
      <3> QED BY <3>3, <3>4, <3>5, <3>6 DEF SpeechInv, BridgeInv
    <2>3. CASE FinalCall(t).got # Nobody
      <3>1. final' = [final EXCEPT ![t].pc = "emit"] /\ UNCHANGED workerVars
        BY <1>8, <2>3 DEF FinalCancels, FinalCall
      <3>2. FinalTo(t, "emit", final[t].id)
        BY <1>1, <1>3, <3>1, FinalMovesTo DEF FinalPC
      <3>3. WorkerInv' /\ \A u \in Turn : FinalCall(u)' = FinalCall(u)
        BY <1>4, <3>1
      <3>4. BridgeTypeOK' /\ TurnsInv' /\ OneFinal'
        BY <1>1, <1>2, <1>3, <1>8, <2>1, <3>2, FinalMoves DEF FinalPC
      <3>5. FinalFollowsCall'
        BY <1>1, <2>1, <2>3, <3>2, <3>3 DEF BridgeInv, FinalFollowsCall, FinalTo, turnVars
      <3>6. DecodeOrder'
        BY <1>1, <1>8, <2>1, <3>2 DEF BridgeInv, DecodeOrder, FinalTo
      <3> QED BY <3>3, <3>4, <3>5, <3>6 DEF SpeechInv, BridgeInv
    <2> QED BY <2>2, <2>3
  <1>9. CASE FinalEmits(t)
    <2>1. /\ final[t].pc = "emit" /\ final[t].id = t /\ shown' = t
          /\ UNCHANGED <<bridge, previewCtx, decodeMu>>
      BY <1>1, <1>9 DEF FinalEmits, BridgeInv, FinalFollowsCall
    <2>2. PICK q \in {"off", "done", "failed"} : FinalTo(t, q, 0)
      BY <1>1, <1>9, ResultMovesTo DEF FinalEmits
    <2>3. /\ WorkerInv' /\ \A u \in Turn : u # t => FinalCall(u)' = FinalCall(u)
          /\ FinalCall(t)' = NoCall
      BY <1>9, OwnCallKeepsFinals DEF FinalEmits
    <2>4. t \in 0..MaxTurns
      BY SpeechAssumption DEF Turn
    <2>5. BridgeTypeOK'
      BY <1>1, <2>1, <2>2, <2>4 DEF BridgeTypeOK, FinalTo, turnVars
    <2>6. TurnsInv'
      BY <1>1, <1>2, <2>1, SpeechAssumption DEF BridgeInv, BridgeTypeOK, TurnsInv, OneFinal, turnVars, Turn
    <2>7. Transcribing' = {}
      BY <1>2, <2>2 DEF Transcribing, FinalTo
    <2>8. OneFinal'
      BY <2>7 DEF OneFinal
    <2>9. FinalFollowsCall'
      BY <1>1, <2>2, <2>3 DEF BridgeInv, FinalFollowsCall, FinalTo, turnVars
    <2>10. DecodeOrder'
      BY <1>1, <2>1, <2>2 DEF BridgeInv, DecodeOrder, FinalTo
    <2> QED BY <2>3, <2>5, <2>6, <2>8, <2>9, <2>10 DEF SpeechInv, BridgeInv
  <1> QED BY <1>5, <1>6, <1>7, <1>8, <1>9 DEF FinalStep

-----------------------------------------------------------------------------
(* The barge-in controller and the coordinator.                            *)

\* Steps of the coordinator: no final moves and no lock changes hands. A context
\* becomes live only in the turn that begins.
LEMMA TurnMoves ==
    ASSUME BridgeInv, UNCHANGED <<final, preview, decodeMu, shown, turn>>,
           \A u \in Turn : FinalCall(u)' = FinalCall(u),
           bridge' \in [turnID : 0..MaxTurns, cancel : BOOLEAN], bridge'.turnID = bridge.turnID,
           previewCtx' \in [Turn -> {"none", "live", "ended"}],
           turnCtx' \in [Turn -> {"none", "live", "interrupted", "ended"}],
           \A t \in Turn : turnCtx'[t] = "live" =>
              turnCtx[t] = "live" /\ phase' \notin {"loop", "down"},
           phase' \in {"loop", "listen", "capture", "transcribe", "speak", "fail", "end", "down"},
           phase' \in {"listen", "capture"} => phase \in {"listen", "capture"},
           phase' \notin {"loop", "down"} => phase \notin {"loop", "down"},
           snapshot' \in BOOLEAN, stopped' \in BOOLEAN
    PROVE  BridgeInv'
  <1>1. BridgeTypeOK'
    BY DEF BridgeInv, BridgeTypeOK
  <1>2. TurnsInv'
    BY DEF BridgeInv, TurnsInv
  <1>3. OneFinal' /\ DecodeOrder'
    BY DEF BridgeInv, OneFinal, Transcribing, DecodeOrder
  <1>4. FinalFollowsCall'
    BY DEF BridgeInv, FinalFollowsCall
  <1> QED BY <1>1, <1>2, <1>3, <1>4 DEF BridgeInv

LEMMA BargeKeepsBridge ==
    ASSUME SpeechInv, NEW t \in Turn, BargeDecodes(t) \/ BargeDecoded(t)
    PROVE  SpeechInv'
  <1> DEFINE me == <<"barge", t>>
  <1>1. me \in Callers /\ (\A u \in Turn : me # <<"final", u>>) /\ WorkerInv /\ BridgeInv /\ WorkerTypeOK
    BY CallersOfTurns DEF BargeDecodes, BargeDecoded, SpeechInv, WorkerInv
  <1>2. CASE BargeDecodes(t)
    <2>1. WorkerInv' /\ \A u \in Turn : FinalCall(u)' = FinalCall(u)
      BY <1>1, <1>2, QueueKeepsWorker, OtherCallsKeepFinals DEF BargeDecodes
    <2> QED BY <1>1, <1>2, <2>1, BridgeUnmoved DEF BargeDecodes, SpeechInv
  <1>3. CASE BargeDecoded(t)
    <2>1. CallTo(me, "returned", call[me].id, Nobody)
      BY <1>1, <1>3, CallMovesTo DEF BargeDecoded
    <2>2. WorkerInv'
      BY <1>1, <1>3, <2>1, LeavingKeepsWorker DEF BargeDecoded
    <2>3. \A u \in Turn : FinalCall(u)' = FinalCall(u)
      BY <1>1, <1>3, OtherCallsKeepFinals DEF BargeDecoded
    <2>4. /\ turnCtx' \in [Turn -> {"none", "live", "interrupted", "ended"}]
          /\ \A u \in Turn : turnCtx'[u] = "live" => turnCtx[u] = "live"
      BY <1>1, <1>3 DEF BargeDecoded, BridgeInv, BridgeTypeOK
    <2>5. BridgeInv'
      BY <1>1, <1>3, <2>3, <2>4, TurnMoves DEF BargeDecoded, bridgeVars, BridgeInv, BridgeTypeOK, TurnsInv
    <2> QED BY <2>2, <2>5 DEF SpeechInv
  <1> QED BY <1>2, <1>3

\* A new turn: its number is above everything that was shown.
LEMMA TurnBeginsKeepsBridge ==
    ASSUME SpeechInv, TurnBegins
    PROVE  SpeechInv'
  <1>1. WorkerInv' /\ (\A u \in Turn : FinalCall(u)' = FinalCall(u)) /\ BridgeInv
    BY WorkerUnmoved DEF TurnBegins, SpeechInv, workerVars, FinalCall
  <1>2. /\ turn' = turn + 1 /\ turn' \in Turn /\ phase = "loop" /\ phase' = "listen"
        /\ UNCHANGED <<final, decodeMu, snapshot, shown, stopped>>
    BY SpeechAssumption DEF TurnBegins, Turn, SpeechInv, BridgeInv, BridgeTypeOK
  <1>3. /\ bridge' = [turnID |-> turn', cancel |-> TRUE]
        /\ preview' \in [Turn -> {"off", "select", "mutex", "decode", "emit"}]
        /\ \A u \in Turn : u # turn' => preview'[u] = preview[u]
        /\ preview'[turn'] = "select"
        /\ previewCtx' \in [Turn -> {"none", "live", "ended"}]
    BY <1>1, <1>2 DEF TurnBegins, startPreview, BridgeInv, BridgeTypeOK
  <1>4. /\ turnCtx' \in [Turn -> {"none", "live", "interrupted", "ended"}]
        /\ \A u \in Turn : u # turn' => turnCtx'[u] = turnCtx[u]
        /\ \A u \in Turn : turnCtx[u] # "live"
    BY <1>1, <1>2 DEF TurnBegins, BridgeInv, BridgeTypeOK, TurnsInv
  <1>5. turn \in Nat /\ shown \in Nat /\ shown <= turn /\ \A u \in Transcribing : u <= turn /\ u \in Nat
    BY <1>1, SpeechAssumption DEF BridgeInv, BridgeTypeOK, TurnsInv, OneFinal, Transcribing, Turn
  <1>6. turn' \in 0..MaxTurns
    BY <1>2, SpeechAssumption DEF Turn
  <1>7. BridgeTypeOK'
    BY <1>1, <1>2, <1>3, <1>4, <1>6 DEF BridgeInv, BridgeTypeOK
  <1>8. TurnsInv'
    BY <1>2, <1>3, <1>4, <1>5 DEF TurnsInv
  <1>9. OneFinal'
    BY <1>1, <1>2, <1>5 DEF BridgeInv, OneFinal, Transcribing
  <1>10. FinalFollowsCall'
    <2>1. ASSUME NEW t \in Turn, final[t].pc \in {"mutex", "decode", "cancel", "emit"}
          PROVE  turnCtx'[t] = turnCtx[t]
      <3>1. t \in Transcribing
        BY <2>1 DEF Transcribing
      <3> QED BY <1>2, <1>4, <1>5, <3>1
    <2> QED BY <1>1, <1>2, <2>1 DEF BridgeInv, FinalFollowsCall
  <1>11. DecodeOrder'
    BY <1>1, <1>2, <1>3 DEF BridgeInv, DecodeOrder
  <1> QED BY <1>1, <1>7, <1>8, <1>9, <1>10, <1>11 DEF SpeechInv, BridgeInv

\* The stages of a turn.
LEMMA TurnsKeepBridge ==
    ASSUME SpeechInv, TurnStep \/ Shutdown \/ SnapshotPublished
    PROVE  SpeechInv'
  <1>1. /\ BridgeInv /\ WorkerInv /\ BridgeTypeOK
        /\ phase \notin {"loop", "down"} => turn \in Turn
        /\ phase \in {"loop", "listen", "capture", "transcribe", "speak", "fail", "end", "down"}
        /\ snapshot \in BOOLEAN /\ stopped \in BOOLEAN
        /\ bridge \in [turnID : 0..MaxTurns, cancel : BOOLEAN]
        /\ previewCtx \in [Turn -> {"none", "live", "ended"}]
        /\ turnCtx \in [Turn -> {"none", "live", "interrupted", "ended"}]
        /\ \A t \in Turn : turnCtx[t] = "live" => t = turn /\ phase \notin {"loop", "down"}
    BY DEF SpeechInv, BridgeInv, BridgeTypeOK, TurnsInv
  <1>2. ASSUME UNCHANGED workerVars PROVE WorkerInv' /\ \A u \in Turn : FinalCall(u)' = FinalCall(u)
    BY <1>1, <1>2, WorkerUnmoved DEF workerVars, FinalCall
  <1>3. CASE CaptureBegins \/ SnapshotPublished
    <2>1. UNCHANGED workerVars
      BY <1>3 DEF CaptureBegins, SnapshotPublished
    <2>2. BridgeInv'
      BY <1>1, <1>2, <1>3, <2>1, TurnMoves DEF CaptureBegins, SnapshotPublished, turnVars
    <2> QED BY <1>2, <2>1, <2>2 DEF SpeechInv
  <1>4. CASE CaptureEnds
    <2>1. UNCHANGED workerVars /\ phase = "capture" /\ turn \in Turn
      BY <1>1, <1>4 DEF CaptureEnds
    <2>2. CASE UNCHANGED final
      <3>1. BridgeInv'
        BY <1>1, <1>2, <1>4, <2>1, <2>2, TurnMoves DEF CaptureEnds
      <3> QED BY <1>2, <2>1, <3>1 DEF SpeechInv
    <2>3. CASE /\ Transcribing = {} /\ phase' = "transcribe"
               /\ final' = [final EXCEPT ![turn].pc = "taken"]
      <3>1. FinalTo(turn, "taken", final[turn].id)
        <4>1. final[turn].id \in 0..MaxTurns
          BY <1>1, <2>1 DEF BridgeTypeOK, Final
        <4> QED BY <1>1, <2>1, <2>3, <4>1, FinalMovesTo DEF FinalPC
      <3>2. Transcribing' = {turn}
        BY <2>1, <2>3, <3>1 DEF Transcribing, FinalTo
      <3>3. UNCHANGED <<bridge, previewCtx, preview, decodeMu, snapshot, shown, turnCtx, turn, stopped>>
        BY <1>4 DEF CaptureEnds
      <3>4. BridgeTypeOK'
        BY <1>1, <2>3, <3>1, <3>3 DEF BridgeTypeOK, FinalTo
      <3>5. TurnsInv'
        BY <1>1, <2>1, <2>3, <3>3 DEF BridgeInv, TurnsInv
      <3>6. OneFinal'
        BY <1>1, <2>1, <2>3, <3>2, <3>3, SpeechAssumption DEF BridgeInv, TurnsInv, OneFinal, Turn
      <3>7. FinalFollowsCall'
        BY <1>1, <1>2, <2>1, <2>3, <3>1, <3>3 DEF BridgeInv, FinalFollowsCall, FinalTo, Transcribing
      <3>8. DecodeOrder'
        BY <1>1, <3>1, <3>3 DEF BridgeInv, DecodeOrder, FinalTo
      <3> QED BY <1>2, <2>1, <3>4, <3>5, <3>6, <3>7, <3>8 DEF SpeechInv, BridgeInv
    <2> QED BY <1>4, <2>2, <2>3 DEF CaptureEnds
  <1>5. CASE TranscriptionEnds
    <2>1. /\ UNCHANGED workerVars /\ phase = "transcribe" /\ phase' \in {"end", "speak", "fail"}
          /\ turn \in Turn
          /\ UNCHANGED <<bridge, previewCtx, preview, decodeMu, snapshot, shown, turnCtx, turn, stopped>>
      BY <1>1, <1>5 DEF TranscriptionEnds
    <2> DEFINE p == IF final[turn].pc \in {"done", "failed"} THEN "off" ELSE final[turn].pc
    <2>2. FinalTo(turn, p, final[turn].id)
      <3>1. final[turn].id \in 0..MaxTurns /\ p \in FinalPC
        BY <1>1, <2>1 DEF BridgeTypeOK, Final, FinalPC
      <3>2. final' = [final EXCEPT ![turn].pc = p]
        BY <1>5 DEF TranscriptionEnds
      <3> HIDE DEF p
      <3> QED BY <1>1, <2>1, <3>1, <3>2, FinalMovesTo
    <2>3. Transcribing' = Transcribing
      BY <2>2 DEF Transcribing, FinalTo
    <2>4. BridgeTypeOK'
      BY <1>1, <2>1, <2>2 DEF BridgeTypeOK, FinalTo
    <2>5. TurnsInv' /\ OneFinal'
      BY <1>1, <2>1, <2>3 DEF BridgeInv, TurnsInv, OneFinal
    <2>6. FinalFollowsCall'
      BY <1>1, <1>2, <2>1, <2>2 DEF BridgeInv, FinalFollowsCall, FinalTo
    <2>7. DecodeOrder'
      BY <1>1, <2>1, <2>2 DEF BridgeInv, DecodeOrder, FinalTo
    <2> QED BY <1>2, <2>1, <2>4, <2>5, <2>6, <2>7 DEF SpeechInv, BridgeInv
  <1>6. CASE ResponseEnds
    <2>1. BridgeInv'
      BY <1>1, <1>2, <1>6, TurnMoves DEF ResponseEnds, bridgeVars
    <2> QED BY <1>2, <1>6, <2>1 DEF SpeechInv, ResponseEnds
  <1>7. CASE TurnEnds
    <2>1. /\ UNCHANGED <<workerVars, preview, final, decodeMu, snapshot, shown, turn, stopped>>
          /\ phase' = "loop" /\ turn \in Turn
      BY <1>1, <1>7 DEF TurnEnds
    <2>2. /\ turnCtx' \in [Turn -> {"none", "live", "interrupted", "ended"}]
          /\ \A t \in Turn : turnCtx'[t] # "live"
      BY <1>1, <1>7, <2>1 DEF TurnEnds
    <2>3. /\ bridge' \in [turnID : 0..MaxTurns, cancel : BOOLEAN] /\ bridge'.turnID = bridge.turnID
          /\ previewCtx' \in [Turn -> {"none", "live", "ended"}]
      BY <1>1, <1>7, <2>1 DEF TurnEnds
    <2>4. BridgeInv'
      BY <1>1, <1>2, <2>1, <2>2, <2>3, TurnMoves
    <2> QED BY <1>2, <2>1, <2>4 DEF SpeechInv
  <1>8. CASE Shutdown
    <2>1. /\ turnCtx' \in [Turn -> {"none", "live", "interrupted", "ended"}]
          /\ \A t \in Turn : turnCtx'[t] # "live"
      BY <1>1, <1>8 DEF Shutdown
    <2>2. BridgeInv'
      BY <1>1, <1>2, <1>8, <2>1, TurnMoves DEF Shutdown, bridgeVars
    <2> QED BY <1>2, <1>8, <2>2 DEF SpeechInv, Shutdown
  <1>9. CASE RunReturns
    <2>1. WorkerInv' /\ \A u \in Turn : FinalCall(u)' = FinalCall(u)
      BY <1>1, <1>9, CloseKeepsWorker DEF RunReturns, CloseBegins, FinalCall
    <2>2. BridgeInv'
      BY <1>1, <1>9, <2>1, TurnMoves DEF RunReturns, bridgeVars
    <2> QED BY <2>1, <2>2 DEF SpeechInv
  <1> QED BY <1>3, <1>4, <1>5, <1>6, <1>7, <1>8, <1>9 DEF TurnStep

-----------------------------------------------------------------------------
(* The results.                                                            *)

LEMMA SpeechIsSafe == Spec => []SpeechInv
  <1>1. Init => SpeechInv
    <2> SUFFICES ASSUME Init PROVE SpeechInv
      OBVIOUS
    <2>1. WorkerTypeOK
      BY WorkerAssumption DEF Init, WorkerInit, WorkerTypeOK, NewProcess, StartIds, NoCall
    <2>2. OneOperation /\ FramesAreOwn /\ KillPrecedesLoss /\ CallsGetOwnText
      BY DEF Init, WorkerInit, OneOperation, InOp, FramesAreOwn, KillPrecedesLoss, NoStrayWorker,
             CallsGetOwnText, NewProcess, NoCall
    <2>3. BridgeTypeOK
      <3>1. 0 \in 0..MaxTurns
        BY SpeechAssumption
      <3>2. bridge \in [turnID : 0..MaxTurns, cancel : BOOLEAN]
        BY <3>1 DEF Init
      <3>3. final \in [Turn -> Final]
        BY <3>1 DEF Init, Final, FinalPC
      <3> QED BY <3>1, <3>2, <3>3 DEF Init, BridgeTypeOK
    <2>4. TurnsInv /\ OneFinal /\ DecodeOrder
      BY DEF Init, TurnsInv, OneFinal, Transcribing, DecodeOrder
    <2>5. FinalFollowsCall
      BY CallersOfTurns DEF Init, WorkerInit, FinalFollowsCall, FinalCall
    <2> QED BY <2>1, <2>2, <2>3, <2>4, <2>5 DEF SpeechInv, WorkerInv, BridgeInv
  <1>2. SpeechInv /\ [Next]_vars => SpeechInv'
    <2> SUFFICES ASSUME SpeechInv, [Next]_vars PROVE SpeechInv'
      OBVIOUS
    <2>1. ASSUME UNCHANGED <<bridgeVars, turnVars, call>>, WorkerInv' PROVE SpeechInv'
      BY <2>1, BridgeUnmoved DEF SpeechInv, FinalCall
    <2>2. CASE UNCHANGED vars
      BY <2>1, <2>2, WorkerUnmoved DEF vars, workerVars, SpeechInv
    <2>3. CASE TurnStep \/ Shutdown \/ SnapshotPublished
      BY <2>3, TurnsKeepBridge
    <2>4. CASE WorkerMoves(CloseStep)
      BY <2>1, <2>4, CloseKeepsWorker DEF WorkerMoves, CloseStep, CloseLocks, CloseStops, SpeechInv
    <2>5. CASE WorkerMoves(ProcessStep)
      BY <2>1, <2>5, ProcessKeepsWorker
         DEF WorkerMoves, ProcessStep, ProcessAnswers, ProcessExits, ProcessWaited, SpeechInv
    <2>6. CASE \E t \in Turn : PreviewStep(t) \/ FinalStep(t)
      BY <2>6, PreviewsKeepBridge, FinalsKeepBridge
    <2>7. CASE \E c \in Callers : CallMoves(c)
      BY <2>7, CallsKeepBridge
    <2>8. CASE TurnBegins
      BY <2>8, TurnBeginsKeepsBridge
    <2>9. CASE \E t \in Turn : BargeDecodes(t) \/ BargeDecoded(t)
      BY <2>9, BargeKeepsBridge
    <2> QED BY <2>2, <2>3, <2>4, <2>5, <2>6, <2>7, <2>8, <2>9 DEF Next, Goroutines
  <1> QED BY <1>1, <1>2, PTL DEF Spec

\* The variables keep their types, for every set of callers and every bound: the
\* bridge never holds a turn the coordinator has not begun, and the pipes hold
\* frames alone.
THEOREM SpeechTyped == Spec => []SpeechTypeOK
  <1>1. SpeechInv => SpeechTypeOK
    BY SpeechTypes DEF SpeechInv, WorkerInv, BridgeInv
  <1> QED BY <1>1, SpeechIsSafe, PTL

\* A caller of the worker gets the text of its own audio or an error, and a final
\* transcript is shown under the TurnID of its turn, however many calls were
\* cancelled, answered late or restarted on the way.
THEOREM TextIsOwn == Spec => []TextOfOwnAudio
  <1>1. SpeechInv => TextOfOwnAudio
    BY DEF SpeechInv, WorkerInv, CallsGetOwnText, BridgeInv, FinalFollowsCall, TextOfOwnAudio
  <1> QED BY <1>1, SpeechIsSafe, PTL

\* No process but the one in service runs unkilled, through any number of restarts.
THEOREM WorkersAreKilled == Spec => []NoStrayWorker
  <1>1. SpeechInv => NoStrayWorker
    BY DEF SpeechInv, WorkerInv, KillPrecedesLoss
  <1> QED BY <1>1, SpeechIsSafe, PTL

\* Final transcripts appear in the order of their turns, each once, and no preview
\* appears behind the final transcript of a later turn.
THEOREM TranscriptsOrdered == Spec => []TranscriptsInOrder
  <1>1. SpeechInv => TranscriptsInOrder
    BY DEF SpeechInv, BridgeInv, DecodeOrder, OneFinal, Transcribing, FinalFollowsCall,
           TranscriptsInOrder
  <1> QED BY <1>1, SpeechIsSafe, PTL
=============================================================================
