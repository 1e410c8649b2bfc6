-------------------------- MODULE AcpClientProofs --------------------------
(***************************************************************************)
(* Proofs about the ACP client, for every set of callers, every bound and  *)
(* every fault of the agent.                                               *)
(*                                                                         *)
(*   OnlyOneReader          promptBusy lets one call read the output       *)
(*   AcpTyped               the type invariant                             *)
(*   CloseKillsChild        Close leaves no agent process running          *)
(*   RepliesOwnAndComplete  a reply has all of its own prompt's chunks     *)
(*                                                                         *)
(* The last three follow from one inductive invariant, AcpInv: where every *)
(* prompt and every chunk of its answer is, between the caller that waits  *)
(* for it and the agent that serves it.                                    *)
(***************************************************************************)
EXTENDS AcpClient, TLAPS

-----------------------------------------------------------------------------
(* The handshake, the process and the identifiers.                         *)

\* No prompt before the handshake has taken its two identifiers, and a process
\* that Close has stopped waiting for has been killed.
Handshake ==
    /\ \A c \in Callers : pc[c] # "idle" => runtime = "ready"
    /\ runtime = "initialize" => nextID = 0
    /\ runtime = "initWait" => nextID = InitializeID
    /\ runtime = "newWait" => nextID = NewSessionID
    /\ runtime = "ready" => nextID >= NewSessionID
    /\ runtime \in {"waitKilled", "closed"} => child # "running"
    /\ child = "reaped" => fromAgent = <<>>

IsPrompt(m) == m.kind = "prompt"
IsAnswer(m) == m.kind \in {"result", "error"}

\* Request identifiers are fresh: a prompt is in one place, on its way, with the
\* agent, or answered, and what the agent says names a prompt it has taken.
Identifiers ==
    /\ \A p \in DOMAIN toAgent :
          /\ IsPrompt(toAgent[p]) => toAgent[p].id \in (NewSessionID + 1)..nextID
          /\ toAgent[p].kind \in {"initialize", "new"} => toAgent[p].id \in 1..NewSessionID /\ toAgent[p].id <= nextID
    /\ \A p, q \in DOMAIN toAgent :
          IsPrompt(toAgent[p]) /\ IsPrompt(toAgent[q]) /\ p # q => toAgent[p].id # toAgent[q].id
    /\ \A p \in DOMAIN agent.queue :
          /\ agent.queue[p] \in (NewSessionID + 1)..nextID
          /\ \A q \in DOMAIN toAgent : IsPrompt(toAgent[q]) => toAgent[q].id # agent.queue[p]
    /\ \A p, q \in DOMAIN agent.queue : p # q => agent.queue[p] # agent.queue[q]

\* What the agent has said so far.
Said ==
    /\ \A p \in DOMAIN fromAgent :
          /\ fromAgent[p].id <= nextID
          /\ fromAgent[p].kind = "chunk" => fromAgent[p].id \in RequestID /\ fromAgent[p].n > 0
          /\ fromAgent[p].kind = "chunk" \/ IsAnswer(fromAgent[p]) =>
                /\ \A q \in DOMAIN toAgent : IsPrompt(toAgent[q]) => toAgent[q].id # fromAgent[p].id
                /\ \A q \in DOMAIN agent.queue :
                      q > 1 \/ IsAnswer(fromAgent[p]) => agent.queue[q] # fromAgent[p].id
    /\ agent.sent <= agent.said
    /\ agent.queue = <<>> => agent.sent = 0

\* The turn of a prompt, which is over for good once it has ended.
Contexts ==
    /\ \A i \in cancelled : ctx[i] = "done"
    /\ \A i \in RequestID : i > nextID => ctx[i] = "none"
    /\ \A c \in Callers : pc[c] \in {"read", "deliver"} =>
          req[c] \in (NewSessionID + 1)..nextID /\ ctx[req[c]] # "none"

-----------------------------------------------------------------------------
(* The chunks of a prompt.                                                 *)

\* The chunks of request i in s are the first k, in order.
Told(s, i, k) ==
    /\ \A p \in DOMAIN s : s[p].of = i => s[p].n \in 1..k
    /\ \A n \in 1..k : \E p \in DOMAIN s : s[p].of = i /\ s[p].n = n
    /\ \A p, q \in DOMAIN s : p < q /\ s[p].of = i /\ s[q].of = i => s[p].n < s[q].n

ChunkOf(m, i) == m.kind = "chunk" /\ m.id = i
ResultOf(m, i) == m.kind = "result" /\ m.id = i

\* The chunks of request i in the pipe f are the ones after k up to t, in order,
\* and its answer comes after them with their number.
Coming(f, i, k, t) ==
    /\ \A p \in DOMAIN f : ChunkOf(f[p], i) => f[p].n \in (k + 1)..t
    /\ \A n \in (k + 1)..t : \E p \in DOMAIN f : ChunkOf(f[p], i) /\ f[p].n = n
    /\ \A p, q \in DOMAIN f : p < q /\ ChunkOf(f[p], i) /\ ChunkOf(f[q], i) => f[p].n < f[q].n
    /\ \A r \in DOMAIN f : ResultOf(f[r], i) =>
          f[r].n = t /\ \A p \in DOMAIN f : ChunkOf(f[p], i) => p < r

\* t is what the agent a, with the input w, has sent of a request i that it has
\* not finished.
SentOf(a, w, i, t) ==
    /\ a.queue # <<>> /\ Head(a.queue) = i => t = a.sent
    /\ (\E p \in DOMAIN a.queue : p > 1 /\ a.queue[p] = i) => t = 0
    /\ (\E p \in DOMAIN w : IsPrompt(w[p]) /\ w[p].id = i) => t = 0

\* The chunks s hold the answer r of request i, whole and in order.
Complete(s, i, r) ==
    LET own == {p \in DOMAIN s : s[p].of = i} IN
    /\ r.id = i
    /\ {s[p].n : p \in own} = 1..r.n
    /\ \A p, q \in own : p < q => s[p].n < s[q].n

\* A call whose turn lives has forwarded a first part of its answer, and the
\* rest is in the pipe or still to be sent; then it returns the whole.
Replying(c) ==
    /\ pc[c] = "entered" => streamed[c] = <<>>
    /\ pc[c] \in {"read", "deliver"} /\ ctx[req[c]] = "live" /\ child # "reaped" =>
        \E k, t \in Nat : /\ k <= t /\ Told(streamed[c], req[c], k)
                          /\ Coming(fromAgent, req[c], k, t) /\ SentOf(agent, toAgent, req[c], t)
    /\ pc[c] = "idle" /\ out[c] = "ok" => Complete(streamed[c], req[c], answer[c])

Replies == \A c \in Callers : Replying(c)

AcpInv == AcpTypeOK /\ Handshake /\ Identifiers /\ Said /\ Contexts /\ Replies

-----------------------------------------------------------------------------
(* One reader.                                                             *)

\* What OneReader needs of the types.
ReaderInv == busy \in BOOLEAN /\ pc \in [Callers -> {"idle", "entered", "read", "deliver"}]
             /\ OneReader

\* The call that runs and stays, or enters, keeps the flag.
LEMMA CallGoesOn ==
    ASSUME ReaderInv, NEW c \in Callers, NEW p \in {"entered", "read", "deliver"},
           pc' = [pc EXCEPT ![c] = p],
           \/ pc[c] # "idle" /\ UNCHANGED busy
           \/ ~busy /\ busy' = TRUE
    PROVE  ReaderInv'
  <1>1. /\ pc' \in [Callers -> {"idle", "entered", "read", "deliver"}]
        /\ pc'[c] # "idle" /\ \A d \in Callers : d # c => pc'[d] = pc[d]
    BY DEF ReaderInv
  <1>2. busy' = TRUE /\ \A d \in Callers : d # c => pc[d] = "idle"
    BY DEF ReaderInv, OneReader
  <1> QED BY <1>1, <1>2 DEF ReaderInv, OneReader

\* A call that returns clears the flag, and no other call is running.
LEMMA CallEnds ==
    ASSUME ReaderInv, NEW c \in Callers, NEW o, pc[c] # "idle", Return(c, o)
    PROVE  ReaderInv'
  <1>1. /\ pc' \in [Callers -> {"idle", "entered", "read", "deliver"}]
        /\ pc'[c] = "idle" /\ \A d \in Callers : d # c => pc'[d] = pc[d]
        /\ busy' = FALSE
    BY DEF ReaderInv, Return
  <1>2. \A d \in Callers : d # c => pc[d] = "idle"
    BY DEF ReaderInv, OneReader
  <1> QED BY <1>1, <1>2 DEF ReaderInv, OneReader

\* One call of RespondStream.
LEMMA CallKeepsReader ==
    ASSUME ReaderInv, NEW c \in Callers, CallStep(c)
    PROVE  ReaderInv'
  <1>1. ASSUME UNCHANGED <<busy, pc>> PROVE ReaderInv'
    BY <1>1 DEF ReaderInv, OneReader
  <1>2. CASE Begin(c)
    BY <1>1, <1>2, CallGoesOn DEF Begin
  <1>3. CASE SendPrompt(c)
    BY <1>3, CallGoesOn, CallEnds DEF SendPrompt
  <1>4. CASE Read(c)
    <2>1. pc[c] = "read"
      BY <1>4 DEF Read
    <2>2. ASSUME NEW o, Abandon(c, o) PROVE ReaderInv'
      BY <2>1, <2>2, CallEnds DEF Abandon
    <2>3. ASSUME NEW m, ReadUpdate(c, m) PROVE ReaderInv'
      BY <1>1, <2>1, <2>3, CallGoesOn DEF ReadUpdate, Skip
    <2>4. ASSUME NEW m, RejectPermission(c, m) PROVE ReaderInv'
      BY <1>1, <2>2, <2>4 DEF RejectPermission
    <2>5. ASSUME NEW m, ReadResponse(c, m) PROVE ReaderInv'
      BY <1>1, <2>1, <2>5, CallEnds DEF ReadResponse, Skip
    <2> QED BY <1>4, <2>2, <2>3, <2>4, <2>5 DEF Read
  <1>5. CASE Deliver(c)
    <2>1. CASE pc' = [pc EXCEPT ![c] = "read"] /\ UNCHANGED busy
      BY <1>5, <2>1, CallGoesOn DEF Deliver
    <2>2. CASE Abandon(c, "cancel")
      BY <1>5, <2>2, CallEnds DEF Deliver, Abandon
    <2> QED BY <1>5, <2>1, <2>2 DEF Deliver
  <1> QED BY <1>2, <1>3, <1>4, <1>5 DEF CallStep

\* At most one call of RespondStream reads the agent's output, whatever the number
\* of callers, and promptBusy is set exactly while it runs: no early return, error
\* or cancellation leaves the session busy for good.
THEOREM OnlyOneReader == Spec => []OneReader
  <1>1. Init => ReaderInv
    BY DEF Init, ReaderInv, OneReader
  <1>2. ReaderInv /\ [Next]_vars => ReaderInv'
    <2> SUFFICES ASSUME ReaderInv, [Next]_vars PROVE ReaderInv'
      OBVIOUS
    <2>1. ASSUME UNCHANGED <<busy, pc>> PROVE ReaderInv'
      BY <2>1 DEF ReaderInv, OneReader
    <2>2. CASE UNCHANGED vars
      BY <2>1, <2>2 DEF vars, client, calls
    <2>3. CASE \E c \in Callers : CallStep(c)
      BY <2>3, CallKeepsReader
    <2>4. CASE HandshakeStep \/ (\E i \in RequestID : TurnStep(i)) \/ RuntimeStep
      BY <2>1, <2>4 DEF HandshakeStep, TurnStep, RuntimeStep, client, calls
    <2>5. CASE AgentStep \/ AgentExits
      BY <2>1, <2>5 DEF AgentStep, AgentExits, client, calls
    <2> QED BY <2>2, <2>3, <2>4, <2>5 DEF Next, Terminated
  <1>3. ReaderInv => OneReader
    BY DEF ReaderInv
  <1> QED BY <1>1, <1>2, <1>3, PTL DEF Spec

-----------------------------------------------------------------------------
(* Sequences.                                                              *)

LEMMA AppendFacts ==
    ASSUME NEW S, NEW s \in Seq(S), NEW x \in S
    PROVE  /\ Append(s, x) \in Seq(S) /\ Len(Append(s, x)) = Len(s) + 1 /\ Len(s) \in Nat
           /\ DOMAIN s = 1..Len(s) /\ DOMAIN Append(s, x) = 1..(Len(s) + 1)
           /\ Append(s, x)[Len(s) + 1] = x /\ \A p \in 1..Len(s) : Append(s, x)[p] = s[p]
  OBVIOUS

LEMMA TailFacts ==
    ASSUME NEW S, NEW s \in Seq(S), s # <<>>
    PROVE  /\ Tail(s) \in Seq(S) /\ Len(Tail(s)) = Len(s) - 1 /\ Len(s) \in Nat /\ Len(s) > 0
           /\ DOMAIN s = 1..Len(s) /\ DOMAIN Tail(s) = 1..(Len(s) - 1)
           /\ Head(s) = s[1] /\ Head(s) \in S /\ \A p \in 1..(Len(s) - 1) : Tail(s)[p] = s[p + 1]
  OBVIOUS

\* A chunk is forwarded: the next of its own request, or one of another.
LEMMA ToldAppend ==
    ASSUME NEW s \in Seq(Chunk), NEW x \in Chunk, NEW i, NEW k \in Nat, Told(s, i, k)
    PROVE  /\ x.of # i => Told(Append(s, x), i, k)
           /\ x.of = i /\ x.n = k + 1 => Told(Append(s, x), i, k + 1)
  <1> DEFINE u == Append(s, x)
  <1>1. /\ Len(s) \in Nat /\ DOMAIN s = 1..Len(s) /\ DOMAIN u = 1..(Len(s) + 1)
        /\ u[Len(s) + 1] = x /\ \A p \in 1..Len(s) : u[p] = s[p] /\ s[p] \in Chunk
    BY AppendFacts
  <1> HIDE DEF u
  <1>2. \A p \in DOMAIN u : p \in DOMAIN s \/ p = Len(s) + 1
    BY <1>1
  <1>3. ASSUME x.of # i PROVE Told(u, i, k)
    <2>1. \A p \in DOMAIN u : u[p].of = i => p \in DOMAIN s /\ u[p] = s[p]
      BY <1>1, <1>2, <1>3
    <2>2. \A p \in DOMAIN s : p \in DOMAIN u /\ u[p] = s[p]
      BY <1>1
    <2> QED BY <2>1, <2>2 DEF Told
  <1>4. ASSUME x.of = i, x.n = k + 1 PROVE Told(u, i, k + 1)
    <2>1. \A p \in DOMAIN u : u[p].of = i => u[p].n \in 1..(k + 1)
      <3> SUFFICES ASSUME NEW p \in DOMAIN u, u[p].of = i PROVE u[p].n \in 1..(k + 1)
        OBVIOUS
      <3>1. CASE p = Len(s) + 1
        BY <1>1, <1>4, <3>1
      <3>2. CASE p \in DOMAIN s
        <4>1. s[p].n \in 1..k
          BY <1>1, <3>2 DEF Told
        <4> QED BY <1>1, <3>2, <4>1
      <3> QED BY <1>2, <3>1, <3>2
    <2>2. \A n \in 1..(k + 1) : \E p \in DOMAIN u : u[p].of = i /\ u[p].n = n
      <3> TAKE n \in 1..(k + 1)
      <3>1. CASE n = k + 1
        BY <1>1, <1>4, <3>1
      <3>2. CASE n \in 1..k
        <4>1. PICK p \in DOMAIN s : s[p].of = i /\ s[p].n = n
          BY <3>2 DEF Told
        <4>2. p \in DOMAIN u /\ u[p] = s[p]
          BY <1>1
        <4> QED BY <4>1, <4>2
      <3>3. n = k + 1 \/ n \in 1..k
        OBVIOUS
      <3> QED BY <3>1, <3>2, <3>3
    <2>3. \A p, q \in DOMAIN u : p < q /\ u[p].of = i /\ u[q].of = i => u[p].n < u[q].n
      <3> SUFFICES ASSUME NEW p \in DOMAIN u, NEW q \in DOMAIN u, p < q, u[p].of = i, u[q].of = i
                   PROVE  u[p].n < u[q].n
        OBVIOUS
      <3>1. p \in DOMAIN s /\ u[p] = s[p] /\ s[p].n \in 1..k
        BY <1>1, <1>2 DEF Told
      <3>2. CASE q = Len(s) + 1
        BY <1>1, <1>4, <3>1, <3>2
      <3>3. CASE q \in DOMAIN s
        BY <1>1, <3>1, <3>3 DEF Told
      <3> QED BY <1>2, <3>2, <3>3
    <2> QED BY <2>1, <2>2, <2>3 DEF Told
  <1> QED BY <1>3, <1>4 DEF u

\* A line is read from the pipe.
LEMMA ComingTail ==
    ASSUME NEW f \in Seq(Reply), f # <<>>, NEW i, NEW k \in Nat, NEW t \in Nat, Coming(f, i, k, t)
    PROVE  /\ ~ChunkOf(Head(f), i) => Coming(Tail(f), i, k, t)
           /\ ChunkOf(Head(f), i) => Head(f).n = k + 1 /\ k + 1 <= t /\ Coming(Tail(f), i, k + 1, t)
           /\ ResultOf(Head(f), i) => Head(f).n = t /\ k >= t
  <1> DEFINE g == Tail(f)
  <1>1. /\ Len(f) \in Nat /\ Len(f) > 0 /\ DOMAIN f = 1..Len(f) /\ DOMAIN g = 1..(Len(f) - 1) /\ Head(f) = f[1]
        /\ \A p \in 1..(Len(f) - 1) : g[p] = f[p + 1]
    BY TailFacts
  <1> HIDE DEF g
  <1>3. \A p \in DOMAIN g : p \in Int /\ p + 1 \in DOMAIN f /\ g[p] = f[p + 1]
    BY <1>1
  <1>4. \A p \in DOMAIN f : p # 1 => p \in Int /\ p - 1 \in DOMAIN g /\ g[p - 1] = f[p]
    BY <1>1, <1>3
  <1>5. 1 \in DOMAIN f /\ \A p \in DOMAIN f : p \in Int /\ (p # 1 => 1 < p)
    BY <1>1
  <1>6. /\ \A p, q \in DOMAIN g : p < q /\ ChunkOf(g[p], i) /\ ChunkOf(g[q], i) => g[p].n < g[q].n
        /\ \A r \in DOMAIN g : ResultOf(g[r], i) =>
              g[r].n = t /\ \A p \in DOMAIN g : ChunkOf(g[p], i) => p < r
    BY <1>3 DEF Coming
  <1>7. ASSUME ~ChunkOf(Head(f), i) PROVE Coming(g, i, k, t)
    <2>1. \A p \in DOMAIN g : ChunkOf(g[p], i) => g[p].n \in (k + 1)..t
      BY <1>3 DEF Coming
    <2>2. \A n \in (k + 1)..t : \E p \in DOMAIN g : ChunkOf(g[p], i) /\ g[p].n = n
      <3> TAKE n \in (k + 1)..t
      <3>1. PICK p \in DOMAIN f : ChunkOf(f[p], i) /\ f[p].n = n
        BY DEF Coming
      <3>2. p # 1
        BY <1>1, <1>7, <3>1
      <3> QED BY <1>4, <3>1, <3>2
    <2> QED BY <1>6, <2>1, <2>2 DEF Coming
  <1>8. ASSUME ChunkOf(Head(f), i) PROVE Head(f).n = k + 1 /\ k + 1 <= t /\ Coming(g, i, k + 1, t)
    <2>1. f[1].n \in (k + 1)..t
      BY <1>1, <1>5, <1>8 DEF Coming
    <2>2. PICK p \in DOMAIN f : ChunkOf(f[p], i) /\ f[p].n = k + 1
      <3>1. k + 1 \in (k + 1)..t
        BY <2>1
      <3> QED BY <3>1 DEF Coming
    <2>3. p = 1
      <3> SUFFICES ASSUME p # 1 PROVE FALSE
        OBVIOUS
      <3>1. f[1].n < f[p].n
        BY <1>1, <1>5, <1>8, <2>2 DEF Coming
      <3> QED BY <2>1, <2>2, <3>1
    <2>4. \A q \in DOMAIN g : ChunkOf(g[q], i) => g[q].n \in (k + 2)..t
      <3> SUFFICES ASSUME NEW q \in DOMAIN g, ChunkOf(g[q], i) PROVE g[q].n \in (k + 2)..t
        OBVIOUS
      <3>1. q + 1 \in DOMAIN f /\ g[q] = f[q + 1] /\ 1 < q + 1
        BY <1>1, <1>3
      <3>2. f[1].n < f[q + 1].n /\ f[q + 1].n \in (k + 1)..t
        BY <1>1, <1>5, <1>8, <3>1 DEF Coming
      <3> QED BY <2>2, <2>3, <3>1, <3>2
    <2>5. \A n \in (k + 2)..t : \E q \in DOMAIN g : ChunkOf(g[q], i) /\ g[q].n = n
      <3> TAKE n \in (k + 2)..t
      <3>1. PICK q \in DOMAIN f : ChunkOf(f[q], i) /\ f[q].n = n
        BY DEF Coming
      <3>2. q # 1
        BY <2>2, <2>3, <3>1
      <3> QED BY <1>4, <3>1, <3>2
    <2>6. k + 1 <= t /\ (k + 1) + 1 = k + 2
      BY <2>1
    <2>7. Coming(g, i, k + 1, t)
      BY <1>6, <2>4, <2>5, <2>6 DEF Coming
    <2> QED BY <1>1, <2>2, <2>3, <2>6, <2>7
  <1>9. ASSUME ResultOf(Head(f), i) PROVE Head(f).n = t /\ k >= t
    <2>1. f[1].n = t /\ \A p \in DOMAIN f : ~ChunkOf(f[p], i)
      BY <1>1, <1>5, <1>9 DEF Coming
    <2>2. \A n \in (k + 1)..t : FALSE
      BY <2>1 DEF Coming
    <2> QED BY <1>1, <2>1, <2>2
  <1> QED BY <1>7, <1>8, <1>9 DEF g

\* The agent writes a line.
LEMMA ComingAppend ==
    ASSUME NEW f \in Seq(Reply), NEW m \in Reply, NEW i, NEW k \in Nat, NEW t \in Nat,
           k <= t, Coming(f, i, k, t)
    PROVE  /\ ~ChunkOf(m, i) /\ ~ResultOf(m, i) => Coming(Append(f, m), i, k, t)
           /\ ResultOf(m, i) /\ m.n = t => Coming(Append(f, m), i, k, t)
           /\ ChunkOf(m, i) /\ m.n = t + 1 /\ (\A p \in DOMAIN f : ~ResultOf(f[p], i)) =>
                 Coming(Append(f, m), i, k, t + 1)
  <1> DEFINE g == Append(f, m)
  <1>1. /\ Len(f) \in Nat /\ DOMAIN f = 1..Len(f) /\ DOMAIN g = 1..(Len(f) + 1)
        /\ g[Len(f) + 1] = m /\ \A p \in 1..Len(f) : g[p] = f[p]
    BY AppendFacts
  <1> HIDE DEF g
  <1>2. /\ \A p \in DOMAIN g : p \in Int /\ ((p \in DOMAIN f /\ g[p] = f[p]) \/ (p = Len(f) + 1 /\ g[p] = m))
        /\ \A p \in DOMAIN f : p \in DOMAIN g /\ g[p] = f[p] /\ p < Len(f) + 1
        /\ Len(f) + 1 \in DOMAIN g
    BY <1>1
  <1>4. ~(ChunkOf(m, i) /\ ResultOf(m, i))
    BY DEF ChunkOf, ResultOf
  <1>5. ASSUME ~ChunkOf(m, i), ResultOf(m, i) => m.n = t PROVE Coming(g, i, k, t)
    <2>1. \A p \in DOMAIN g : ChunkOf(g[p], i) => p \in DOMAIN f /\ g[p] = f[p]
      BY <1>2, <1>5
    <2>2. \A r \in DOMAIN g : ResultOf(g[r], i) =>
             g[r].n = t /\ \A p \in DOMAIN g : ChunkOf(g[p], i) => p < r
      BY <1>2, <1>5, <2>1 DEF Coming
    <2> QED BY <1>2, <2>1, <2>2 DEF Coming
  <1>6. ASSUME ChunkOf(m, i), m.n = t + 1, \A p \in DOMAIN f : ~ResultOf(f[p], i)
        PROVE  Coming(g, i, k, t + 1)
    <2>1. \A r \in DOMAIN g : ~ResultOf(g[r], i)
      BY <1>2, <1>4, <1>6
    <2>2. \A p \in DOMAIN g : ChunkOf(g[p], i) => g[p].n \in (k + 1)..(t + 1)
      <3> SUFFICES ASSUME NEW p \in DOMAIN g, ChunkOf(g[p], i) PROVE g[p].n \in (k + 1)..(t + 1)
        OBVIOUS
      <3>1. CASE p \in DOMAIN f /\ g[p] = f[p]
        <4>1. f[p].n \in (k + 1)..t
          BY <3>1 DEF Coming
        <4> QED BY <3>1, <4>1
      <3>2. CASE g[p] = m
        BY <1>6, <3>2
      <3> QED BY <1>2, <3>1, <3>2
    <2>3. \A n \in (k + 1)..(t + 1) : \E p \in DOMAIN g : ChunkOf(g[p], i) /\ g[p].n = n
      <3> TAKE n \in (k + 1)..(t + 1)
      <3>1. CASE n = t + 1
        BY <1>1, <1>2, <1>6, <3>1
      <3>2. CASE n \in (k + 1)..t
        BY <1>2, <3>2 DEF Coming
      <3>3. n = t + 1 \/ n \in (k + 1)..t
        OBVIOUS
      <3> QED BY <3>1, <3>2, <3>3
    <2>4. \A p, q \in DOMAIN g : p < q /\ ChunkOf(g[p], i) /\ ChunkOf(g[q], i) => g[p].n < g[q].n
      <3> SUFFICES ASSUME NEW p \in DOMAIN g, NEW q \in DOMAIN g, p < q, ChunkOf(g[p], i), ChunkOf(g[q], i)
                   PROVE  g[p].n < g[q].n
        OBVIOUS
      <3>1. p \in DOMAIN f /\ g[p] = f[p]
        BY <1>1, <1>2
      <3>2. f[p].n \in (k + 1)..t
        BY <3>1 DEF Coming
      <3>3. CASE q \in DOMAIN f /\ g[q] = f[q]
        BY <3>1, <3>3 DEF Coming
      <3>4. CASE g[q] = m
        BY <1>6, <3>1, <3>2, <3>4
      <3> QED BY <1>2, <3>3, <3>4
    <2> QED BY <2>1, <2>2, <2>3, <2>4 DEF Coming
  <1> QED BY <1>4, <1>5, <1>6 DEF g

\* The whole answer has been forwarded when its end arrives.
LEMMA Completes ==
    ASSUME NEW s \in Seq(Chunk), NEW i, NEW r, Told(s, i, r.n), r.id = i
    PROVE  Complete(s, i, r)
  BY DEF Told, Complete

-----------------------------------------------------------------------------
(* The types.                                                              *)

ClientTypes ==
    /\ runtime \in {"initialize", "initWait", "newWait", "ready", "close",
                    "waitExit", "waitKilled", "closed"}
    /\ stopping \in BOOLEAN /\ session \in BOOLEAN
    /\ closed \in BOOLEAN /\ busy \in BOOLEAN
    /\ nextID \in RequestID \cup {0}
    /\ child \in {"running", "exited", "reaped"}

CallTypes ==
    /\ pc \in [Callers -> {"idle", "entered", "read", "deliver"}]
    /\ req \in [Callers -> RequestID \cup {0}]
    /\ out \in [Callers -> {"none", "busy", "ok", "err", "cancel"}]
    /\ answer \in [Callers -> Reply \cup {NoAnswer}]
    /\ streamed \in [Callers -> Seq(Chunk)]

ContextTypes ==
    /\ ctx \in [RequestID -> {"none", "live", "done"}]
    /\ cancelled \subseteq RequestID
    /\ watcher \in [RequestID -> {"none", "watching", "writing", "gone"}]

PipeTypes ==
    /\ toAgent \in Seq(Request)
    /\ fromAgent \in Seq(Reply) /\ Len(fromAgent) <= PipeCap

AgentTypes ==
    agent \in [queue : Seq(RequestID), said : 0..MaxUpdates, sent : 0..MaxUpdates,
               asking : BOOLEAN]

LEMMA Types ==
    AcpTypeOK => ClientTypes /\ CallTypes /\ ContextTypes /\ PipeTypes /\ AgentTypes
  BY DEF AcpTypeOK, ClientTypes, CallTypes, ContextTypes, PipeTypes, AgentTypes

LEMMA TypesNext ==
    ASSUME ClientTypes', CallTypes', ContextTypes', PipeTypes', AgentTypes'
    PROVE  AcpTypeOK'
  BY DEF AcpTypeOK, ClientTypes, CallTypes, ContextTypes, PipeTypes, AgentTypes

\* Identifiers are numbers.
LEMMA Numbers ==
    /\ \A i \in RequestID \cup {0} : i \in Nat
    /\ RequestID \subseteq Nat \ {0} /\ {InitializeID, NewSessionID} \subseteq RequestID
    /\ InitializeID = 1 /\ NewSessionID = 2
    /\ \A i \in RequestID : i <= MaxPrompts + 2
    /\ \A i \in Nat : i # 0 /\ i <= MaxPrompts + 2 => i \in RequestID
  BY AcpBoundsAssumption DEF RequestID, InitializeID, NewSessionID

LEMMA ReplyFields ==
    ASSUME NEW m \in Reply
    PROVE  m.id \in Nat /\ m.id \in RequestID \cup {0} /\ m.n \in Nat /\ m.n \in 0..MaxUpdates
  <1>1. m.id \in RequestID \cup {0} /\ m.n \in 0..MaxUpdates
    BY DEF Reply
  <1>2. m.id \in Nat
    BY <1>1, Numbers
  <1>3. m.n \in Nat
    BY <1>1
  <1> QED BY <1>1, <1>2, <1>3

LEMMA ReplyIs ==
    ASSUME NEW k \in {"result", "error", "chunk", "thought", "permission", "garbage"},
           NEW i \in RequestID \cup {0}, NEW n \in 0..MaxUpdates
    PROVE  LET m == [kind |-> k, id |-> i, n |-> n]
           IN  m \in Reply /\ m.kind = k /\ m.id = i /\ m.n = n
  BY DEF Reply

LEMMA RequestIs ==
    ASSUME NEW k \in {"initialize", "new", "prompt", "cancel", "reject"},
           NEW i \in RequestID \cup {0}
    PROVE  Message(k, i) \in Request /\ Message(k, i).kind = k /\ Message(k, i).id = i
  BY DEF Message, Request

LEMMA AgentFields ==
    ASSUME AgentTypes
    PROVE  /\ agent.queue \in Seq(RequestID)
           /\ agent.said \in 0..MaxUpdates /\ agent.sent \in 0..MaxUpdates
           /\ agent.said \in Nat /\ agent.sent \in Nat /\ agent.asking \in BOOLEAN
  BY AcpBoundsAssumption DEF AgentTypes

-----------------------------------------------------------------------------
(* What most steps leave alone.                                            *)

\* The client writes nothing, or something that is not a prompt.
NoNewPrompt ==
    /\ nextID <= nextID'
    /\ \A p \in DOMAIN toAgent' :
          \/ p \in DOMAIN toAgent /\ toAgent'[p] = toAgent[p]
          \/ /\ ~IsPrompt(toAgent'[p])
             /\ toAgent'[p].kind \in {"initialize", "new"} =>
                   toAgent'[p].id \in 1..NewSessionID /\ toAgent'[p].id <= nextID'

\* Nothing appears in the agent's output.
NothingNew == \A p \in DOMAIN fromAgent' : \E q \in DOMAIN fromAgent : fromAgent'[p] = fromAgent[q]

LEMMA NextIDIsNat ==
    ClientTypes => nextID \in Nat
  BY Numbers DEF ClientTypes

LEMMA Wrote ==
    ASSUME PipeTypes, ClientTypes, nextID' \in Nat, nextID <= nextID',
           NEW m \in Request, ~IsPrompt(m), toAgent' = Append(toAgent, m),
           m.kind \in {"initialize", "new"} => m.id \in 1..NewSessionID /\ m.id <= nextID'
    PROVE  NoNewPrompt /\ toAgent' \in Seq(Request)
  <1>1. /\ Append(toAgent, m) \in Seq(Request) /\ Len(toAgent) \in Nat
        /\ DOMAIN toAgent = 1..Len(toAgent) /\ DOMAIN Append(toAgent, m) = 1..(Len(toAgent) + 1)
        /\ Append(toAgent, m)[Len(toAgent) + 1] = m
        /\ \A p \in 1..Len(toAgent) : Append(toAgent, m)[p] = toAgent[p]
    BY AppendFacts DEF PipeTypes
  <1>2. \A p \in DOMAIN toAgent' : (p \in DOMAIN toAgent /\ toAgent'[p] = toAgent[p]) \/ toAgent'[p] = m
    BY <1>1
  <1> QED BY <1>1, <1>2 DEF NoNewPrompt

LEMMA WroteNothing ==
    ASSUME ClientTypes, nextID' \in Nat, nextID <= nextID', UNCHANGED toAgent
    PROVE  NoNewPrompt
  BY DEF NoNewPrompt

LEMMA Consumed ==
    ASSUME PipeTypes, Line, fromAgent' = Tail(fromAgent)
    PROVE  NothingNew /\ fromAgent' \in Seq(Reply) /\ Len(fromAgent') <= PipeCap
           /\ Head(fromAgent) \in Reply /\ 1 \in DOMAIN fromAgent /\ Head(fromAgent) = fromAgent[1]
  <1>1. /\ Tail(fromAgent) \in Seq(Reply) /\ Len(Tail(fromAgent)) = Len(fromAgent) - 1
        /\ Len(fromAgent) \in Nat /\ Len(fromAgent) > 0
        /\ DOMAIN fromAgent = 1..Len(fromAgent) /\ DOMAIN Tail(fromAgent) = 1..(Len(fromAgent) - 1)
        /\ Head(fromAgent) = fromAgent[1] /\ Head(fromAgent) \in Reply
        /\ \A p \in 1..(Len(fromAgent) - 1) : Tail(fromAgent)[p] = fromAgent[p + 1]
    BY TailFacts DEF PipeTypes, Line
  <1>2. NothingNew
    BY <1>1 DEF NothingNew
  <1> QED BY <1>1, <1>2, AcpBoundsAssumption DEF PipeTypes

LEMMA IdentifiersKept ==
    ASSUME ClientTypes, ClientTypes', Identifiers, NoNewPrompt, UNCHANGED agent
    PROVE  Identifiers'
  <1>1. nextID \in Nat /\ nextID' \in Nat /\ nextID <= nextID'
    BY Numbers DEF ClientTypes, NoNewPrompt
  <1>2. \A i : i \in (NewSessionID + 1)..nextID => i \in (NewSessionID + 1)..nextID'
    BY <1>1, Numbers
  <1>3. \A i \in Int : i <= nextID => i <= nextID'
    BY <1>1
  <1> QED BY <1>1, <1>2, <1>3, Numbers DEF Identifiers, NoNewPrompt

LEMMA SaidKept ==
    ASSUME ClientTypes, ClientTypes', PipeTypes, Said, NoNewPrompt, NothingNew, UNCHANGED agent
    PROVE  Said'
  <1>1. nextID \in Nat /\ nextID' \in Nat /\ nextID <= nextID'
    BY Numbers DEF ClientTypes, NoNewPrompt
  <1>2. \A q \in DOMAIN fromAgent : fromAgent[q].id \in Nat
    BY ReplyFields DEF PipeTypes
  <1>3. \A q \in DOMAIN fromAgent : fromAgent[q].id <= nextID'
    BY <1>1, <1>2 DEF Said
  <1>4. \A q \in DOMAIN toAgent' : IsPrompt(toAgent'[q]) => q \in DOMAIN toAgent /\ toAgent'[q] = toAgent[q]
    BY DEF NoNewPrompt
  <1> QED BY <1>3, <1>4 DEF Said, NothingNew

\* A call that the step does not touch.
LEMMA ReplyingKept ==
    ASSUME NEW c \in Callers, Replying(c), NoNewPrompt, UNCHANGED <<agent, fromAgent>>,
           pc'[c] = pc[c], out'[c] = out[c], req'[c] = req[c],
           answer'[c] = answer[c], streamed'[c] = streamed[c],
           ctx'[req[c]] = "live" => ctx[req[c]] = "live", child = "reaped" => child' = "reaped"
    PROVE  Replying(c)'
  <1>1. ASSUME NEW i, NEW t, SentOf(agent, toAgent, i, t) PROVE SentOf(agent', toAgent', i, t)
    BY <1>1 DEF NoNewPrompt, SentOf
  <1> QED BY <1>1 DEF Replying

\* An idle caller does not depend on the pipes.
LEMMA IdleKept ==
    ASSUME NEW c \in Callers, Replying(c), pc[c] = "idle", pc'[c] = "idle", out'[c] = out[c],
           req'[c] = req[c], answer'[c] = answer[c], streamed'[c] = streamed[c]
    PROVE  Replying(c)'
  BY DEF Replying

-----------------------------------------------------------------------------
(* The steps.                                                              *)

\* A step of StartRuntime: no call has begun.
LEMMA HandshakeKeeps ==
    ASSUME AcpInv, HandshakeStep
    PROVE  AcpInv'
  <1>t. ClientTypes /\ CallTypes /\ ContextTypes /\ PipeTypes /\ AgentTypes
    BY Types DEF AcpInv
  <1>i. Handshake /\ Identifiers /\ Said /\ Contexts /\ Replies
    BY DEF AcpInv
  <1>u. UNCHANGED <<stopping, closed, busy, agent, child>> /\ UNCHANGED <<pc, req, out, answer, streamed>>
        /\ UNCHANGED <<ctx, cancelled, watcher>>
    BY DEF HandshakeStep, calls, contexts
  <1>r. runtime \in {"initialize", "initWait", "newWait"} /\ \A c \in Callers : pc[c] = "idle"
    BY <1>i DEF HandshakeStep, SendInitialize, ReadHandshake, Handshake
  <1>n. nextID \in Nat /\ nextID <= NewSessionID /\ (runtime = "initialize" => nextID = 0)
        /\ (runtime = "initWait" => nextID = 1)
    BY <1>i, <1>r, Numbers DEF Handshake
  <1>1. ASSUME NoNewPrompt, NothingNew, toAgent' \in Seq(Request), fromAgent' \in Seq(Reply),
               Len(fromAgent') <= PipeCap, child = "reaped" => fromAgent' = <<>>,
               session' \in BOOLEAN, nextID' \in RequestID \cup {0},
               \/ runtime' = "close"
               \/ runtime' = "initWait" /\ nextID' = InitializeID
               \/ runtime' = "newWait" /\ nextID' = NewSessionID
               \/ runtime' = "ready" /\ nextID' = NewSessionID
        PROVE  AcpInv'
    <2>1. ClientTypes'
      BY <1>t, <1>u, <1>1 DEF ClientTypes
    <2>2. AcpTypeOK'
      <3>1. PipeTypes'
        BY <1>1 DEF PipeTypes
      <3>2. CallTypes' /\ ContextTypes' /\ AgentTypes'
        BY <1>t, <1>u DEF CallTypes, ContextTypes, AgentTypes
      <3> QED BY <2>1, <3>1, <3>2, TypesNext
    <2>3. Handshake'
      BY <1>i, <1>r, <1>u, <1>1, Numbers DEF Handshake
    <2>4. Identifiers' /\ Said'
      BY <1>t, <1>i, <1>u, <1>1, <2>1, IdentifiersKept, SaidKept
    <2>5. Contexts'
      <3>1. nextID' \in Nat /\ nextID <= nextID'
        BY <1>1, <2>1, Numbers DEF NoNewPrompt, ClientTypes
      <3>2. \A i \in RequestID : i > nextID' => i > nextID
        BY <1>n, <3>1, Numbers
      <3> QED BY <1>i, <1>u, <1>r, <3>2 DEF Contexts
    <2>6. Replies'
      BY <1>i, <1>u, <1>r, IdleKept DEF Replies
    <2> QED BY <2>2, <2>3, <2>4, <2>5, <2>6 DEF AcpInv
  <1>2. ASSUME Line PROVE child # "reaped"
    BY <1>i, <1>2 DEF Line, Handshake
  <1>3. ASSUME UNCHANGED fromAgent
        PROVE  NothingNew /\ fromAgent' \in Seq(Reply) /\ Len(fromAgent') <= PipeCap
               /\ (child = "reaped" => fromAgent' = <<>>)
    BY <1>t, <1>i, <1>3 DEF NothingNew, PipeTypes, Handshake
  <1>4. ASSUME Line, fromAgent' = Tail(fromAgent)
        PROVE  NothingNew /\ fromAgent' \in Seq(Reply) /\ Len(fromAgent') <= PipeCap
               /\ (child = "reaped" => fromAgent' = <<>>)
    BY <1>t, <1>2, <1>4, Consumed
  <1>5. ASSUME UNCHANGED toAgent, nextID' \in Nat, nextID <= nextID'
        PROVE  NoNewPrompt /\ toAgent' \in Seq(Request)
    BY <1>t, <1>5, WroteNothing DEF PipeTypes
  <1>6. ASSUME HandshakeFails,
               NothingNew /\ fromAgent' \in Seq(Reply) /\ Len(fromAgent') <= PipeCap
               /\ (child = "reaped" => fromAgent' = <<>>)
        PROVE  AcpInv'
    <2>1. nextID' \in Nat /\ nextID <= nextID' /\ UNCHANGED toAgent /\ nextID' \in RequestID \cup {0}
          /\ session' \in BOOLEAN /\ runtime' = "close"
      BY <1>t, <1>n, <1>6 DEF HandshakeFails, ClientTypes
    <2> QED BY <1>1, <1>5, <1>6, <2>1
  <1>7. ASSUME NEW k \in {"initialize", "new"}, NEW i \in {InitializeID, NewSessionID},
               Write(Message(k, i)), nextID' = i, nextID <= i
        PROVE  NoNewPrompt /\ toAgent' \in Seq(Request) /\ nextID' \in RequestID \cup {0}
    <2>1. /\ Message(k, i) \in Request /\ Message(k, i).kind = k /\ Message(k, i).id = i
          /\ i \in Nat /\ i \in 1..NewSessionID /\ i \in RequestID
      BY Numbers, RequestIs
    <2>2. ~IsPrompt(Message(k, i)) /\ toAgent' = Append(toAgent, Message(k, i)) /\ i <= i
      BY <1>7, <2>1 DEF IsPrompt, Write
    <2> QED BY <1>t, <1>7, <2>1, <2>2, Wrote
  <1>8. CASE SendInitialize
    <2>1. CASE HandshakeFails
      BY <1>3, <1>6, <1>8, <2>1 DEF SendInitialize
    <2>2. CASE Write(Message("initialize", InitializeID)) /\ nextID' = InitializeID
               /\ runtime' = "initWait" /\ UNCHANGED session
      <3>1. nextID <= InitializeID
        BY <1>n, <1>8, Numbers DEF SendInitialize
      <3>2. NoNewPrompt /\ toAgent' \in Seq(Request) /\ nextID' \in RequestID \cup {0}
        BY <1>7, <2>2, <3>1
      <3>3. UNCHANGED fromAgent /\ session' \in BOOLEAN
        BY <1>t, <1>8, <2>2 DEF SendInitialize, ClientTypes
      <3> QED BY <1>1, <1>3, <2>2, <3>2, <3>3
    <2> QED BY <1>8, <2>1, <2>2 DEF SendInitialize
  <1>9. CASE ReadHandshake
    <2>1. CASE HandshakeFails /\ UNCHANGED fromAgent
      BY <1>3, <1>6, <2>1
    <2>2. CASE Line /\ fromAgent' = Tail(fromAgent) /\ HandshakeFails
      BY <1>4, <1>6, <2>2
    <2>3. CASE Line /\ fromAgent' = Tail(fromAgent) /\ UNCHANGED <<runtime, session, nextID, toAgent>>
      <3>1. nextID' \in Nat /\ nextID <= nextID' /\ nextID' \in RequestID \cup {0} /\ session' \in BOOLEAN
        BY <1>t, <1>n, <2>3 DEF ClientTypes
      <3>2. \/ runtime' = "initWait" /\ nextID' = InitializeID
            \/ runtime' = "newWait" /\ nextID' = NewSessionID
        BY <1>i, <1>9, <2>3 DEF ReadHandshake, Handshake
      <3> QED BY <1>1, <1>4, <1>5, <2>3, <3>1, <3>2
    <2>4. CASE Line /\ fromAgent' = Tail(fromAgent) /\ nextID' = NewSessionID /\ UNCHANGED session
               /\ \/ Write(Message("new", NewSessionID)) /\ runtime' = "newWait"
                  \/ runtime' = "close" /\ UNCHANGED toAgent
      <3>1. nextID' \in Nat /\ nextID <= nextID' /\ nextID' \in RequestID \cup {0} /\ session' \in BOOLEAN
        BY <1>t, <1>n, <2>4, Numbers DEF ClientTypes
      <3>2. NoNewPrompt /\ toAgent' \in Seq(Request)
        BY <1>5, <1>7, <1>n, <2>4, <3>1
      <3> QED BY <1>1, <1>4, <2>4, <3>1, <3>2
    <2>5. CASE Line /\ fromAgent' = Tail(fromAgent) /\ runtime = "newWait" /\ session' = TRUE
               /\ runtime' = "ready" /\ UNCHANGED <<nextID, toAgent>>
      <3>1. nextID' \in Nat /\ nextID <= nextID' /\ nextID' \in RequestID \cup {0} /\ nextID' = NewSessionID
        BY <1>t, <1>i, <1>n, <2>5 DEF ClientTypes, Handshake
      <3> QED BY <1>1, <1>4, <1>5, <2>5, <3>1
    <2> QED BY <1>9, <2>1, <2>2, <2>3, <2>4, <2>5 DEF ReadHandshake
  <1> QED BY <1>8, <1>9 DEF HandshakeStep

\* The turn of a prompt, and its cancel goroutine.
LEMMA TurnKeeps ==
    ASSUME AcpInv, NEW i \in RequestID, TurnStep(i)
    PROVE  AcpInv'
  <1>t. ClientTypes /\ CallTypes /\ ContextTypes /\ PipeTypes /\ AgentTypes
    BY Types DEF AcpInv
  <1>i. Handshake /\ Identifiers /\ Said /\ Contexts /\ Replies
    BY DEF AcpInv
  <1>u. UNCHANGED <<runtime, stopping, session, closed, busy, nextID, agent, child, fromAgent>>
        /\ UNCHANGED <<pc, req, out, answer, streamed>>
    BY DEF TurnStep, client, calls
  <1>1. NoNewPrompt /\ toAgent' \in Seq(Request)
    <2>n. nextID \in Nat /\ nextID' \in Nat /\ nextID <= nextID'
      BY <1>t, <1>u, NextIDIsNat
    <2>1. CASE UNCHANGED toAgent
      BY <1>t, <2>1, <2>n, WroteNothing DEF PipeTypes
    <2>2. CASE Write(Message("cancel", 0))
      <3>1. Message("cancel", 0) \in Request /\ Message("cancel", 0).kind = "cancel"
        BY RequestIs
      <3>2. ~IsPrompt(Message("cancel", 0)) /\ toAgent' = Append(toAgent, Message("cancel", 0))
        BY <2>2, <3>1 DEF IsPrompt, Write
      <3> QED BY <1>t, <2>n, <3>1, <3>2, Wrote
    <2> QED BY <2>1, <2>2 DEF TurnStep, WatcherWakes, WatcherWrites, TurnEnds
  <1>2. ContextTypes' /\ (\A j \in cancelled' : ctx'[j] = "done")
        /\ \A j \in RequestID : (ctx'[j] = ctx[j] \/ (ctx[j] = "live" /\ ctx'[j] = "done"))
    BY <1>t, <1>i DEF ContextTypes, Contexts, TurnStep, WatcherWakes, WatcherWrites, TurnEnds
  <1>3. AcpTypeOK' /\ ClientTypes'
    <2>1. ClientTypes' /\ CallTypes' /\ AgentTypes' /\ PipeTypes'
      BY <1>t, <1>u, <1>1 DEF ClientTypes, CallTypes, AgentTypes, PipeTypes
    <2> QED BY <1>2, <2>1, TypesNext
  <1>4. Handshake'
    BY <1>i, <1>u DEF Handshake
  <1>5. Identifiers' /\ Said'
    <2>1. NothingNew
      BY <1>u DEF NothingNew
    <2> QED BY <1>t, <1>i, <1>u, <1>1, <1>3, <2>1, IdentifiersKept, SaidKept
  <1>6. \A c \in Callers : pc[c] \in {"read", "deliver"} => req[c] \in RequestID
    <2>1. \A c \in Callers : req[c] \in RequestID \cup {0}
      BY <1>t DEF CallTypes
    <2>2. \A c \in Callers : pc[c] \in {"read", "deliver"} => req[c] # 0
      BY <1>i, <1>t, Numbers DEF Contexts
    <2> QED BY <2>1, <2>2
  <1>7. Contexts'
    <2>1. \A c \in Callers : pc'[c] \in {"read", "deliver"} =>
             req'[c] \in (NewSessionID + 1)..nextID' /\ ctx'[req'[c]] # "none"
      BY <1>i, <1>u, <1>2, <1>6 DEF Contexts
    <2>2. \A j \in RequestID : j > nextID' => ctx'[j] = "none"
      BY <1>i, <1>u, <1>2 DEF Contexts
    <2> QED BY <1>2, <2>1, <2>2 DEF Contexts
  <1>8. Replies'
    <2> SUFFICES ASSUME NEW c \in Callers PROVE Replying(c)'
      BY DEF Replies
    <2>1. Replying(c)
      BY <1>i DEF Replies
    <2>2. CASE pc[c] \in {"read", "deliver"}
      BY <1>u, <1>1, <1>2, <1>6, <2>1, <2>2, ReplyingKept
    <2>3. CASE pc[c] \notin {"read", "deliver"}
      BY <1>u, <2>1, <2>3 DEF Replying
    <2> QED BY <2>2, <2>3
  <1> QED BY <1>3, <1>4, <1>5, <1>7, <1>8 DEF AcpInv

\* Runtime.Close, the process reaper and the exit of the agent.
LEMMA RuntimeKeeps ==
    ASSUME AcpInv, RuntimeStep \/ AgentExits
    PROVE  AcpInv'
  <1>t. ClientTypes /\ CallTypes /\ ContextTypes /\ PipeTypes /\ AgentTypes
    BY Types DEF AcpInv
  <1>i. Handshake /\ Identifiers /\ Said /\ Contexts /\ Replies
    BY DEF AcpInv
  <1>u. UNCHANGED <<session, busy, nextID, agent, toAgent>> /\ UNCHANGED <<pc, req, out, answer, streamed>>
        /\ UNCHANGED <<ctx, cancelled, watcher>>
    BY DEF RuntimeStep, AgentExits, client, calls, contexts, pipes
  <1>1. ClientTypes'
    BY <1>t, <1>u DEF ClientTypes, RuntimeStep, AgentExits, Stop, CloseClient, WaitForExit, Reap, client
  <1>2. fromAgent' = fromAgent \/ (fromAgent' = <<>> /\ child' = "reaped")
    BY DEF RuntimeStep, AgentExits, Stop, CloseClient, WaitForExit, Reap, pipes
  <1>3. PipeTypes' /\ NothingNew
    <2>1. CASE fromAgent' = fromAgent
      BY <1>t, <1>u, <2>1 DEF PipeTypes, NothingNew
    <2>2. CASE fromAgent' = <<>>
      BY <1>t, <1>u, <2>2, AcpBoundsAssumption DEF PipeTypes, NothingNew
    <2> QED BY <1>2, <2>1, <2>2
  <1>4. AcpTypeOK'
    <2>1. CallTypes' /\ ContextTypes' /\ AgentTypes'
      BY <1>t, <1>u DEF CallTypes, ContextTypes, AgentTypes
    <2> QED BY <1>1, <1>3, <2>1, TypesNext
  <1>5. NoNewPrompt
    BY <1>t, <1>u, NextIDIsNat, WroteNothing
  <1>6. Identifiers' /\ Said'
    BY <1>t, <1>i, <1>u, <1>1, <1>3, <1>5, IdentifiersKept, SaidKept
  <1>7. Contexts'
    BY <1>i, <1>u DEF Contexts
  <1>8. Handshake'
    <2>1. CASE UNCHANGED runtime /\ child' # "running"
               /\ (child' = "reaped" => fromAgent' = <<>>)
      BY <1>i, <1>u, <2>1 DEF Handshake
    <2>2. CASE Stop
      BY <1>i, <1>u, <2>2 DEF Handshake, Stop
    <2>3. CASE CloseClient
      <3>1. \A c \in Callers : pc[c] = "idle"
        BY <1>i, <2>3 DEF Handshake, CloseClient
      <3> QED BY <1>i, <1>u, <2>3, <3>1 DEF Handshake, CloseClient
    <2>4. CASE WaitForExit
      <3>1. \A c \in Callers : pc[c] = "idle"
        BY <1>i, <2>4 DEF Handshake, WaitForExit
      <3>2. runtime' \in {"waitKilled", "closed"} /\ child' # "running"
            /\ (child' = "reaped" => fromAgent' = <<>>)
        BY <1>i, <2>4 DEF Handshake, WaitForExit
      <3> QED BY <1>u, <3>1, <3>2 DEF Handshake
    <2>5. CASE Reap
      BY <2>1, <2>5 DEF Reap
    <2>6. CASE AgentExits
      BY <2>1, <2>6 DEF AgentExits
    <2> QED BY <2>2, <2>3, <2>4, <2>5, <2>6 DEF RuntimeStep
  <1>9. Replies'
    <2> SUFFICES ASSUME NEW c \in Callers PROVE Replying(c)'
      BY DEF Replies
    <2>1. Replying(c)
      BY <1>i DEF Replies
    <2>2. CASE child' = "reaped"
      BY <1>u, <2>1, <2>2 DEF Replying
    <2>3. CASE child' # "reaped"
      <3>1. child # "reaped" /\ fromAgent' = fromAgent
        BY <1>2, <2>3 DEF RuntimeStep, AgentExits, Stop, CloseClient, WaitForExit, Reap
      <3> QED BY <1>u, <1>5, <2>1, <3>1, ReplyingKept
    <2> QED BY <2>2, <2>3
  <1> QED BY <1>4, <1>6, <1>7, <1>8, <1>9 DEF AcpInv

\* What a call of RespondStream leaves alone, once it has begun to read.
LEMMA CallFrame ==
    ASSUME AcpInv, OneReader, NEW c \in Callers, pc[c] \in {"read", "deliver"},
           UNCHANGED <<runtime, stopping, agent, child, session, closed, nextID, req>>,
           UNCHANGED <<ctx, cancelled, watcher>>,
           busy' \in BOOLEAN, CallTypes', toAgent' \in Seq(Request), fromAgent' \in Seq(Reply),
           Len(fromAgent') <= PipeCap, fromAgent' = fromAgent \/ Line, NoNewPrompt, NothingNew,
           \A d \in Callers : d # c => /\ pc'[d] = pc[d] /\ out'[d] = out[d]
                                       /\ answer'[d] = answer[d] /\ streamed'[d] = streamed[d],
           Replying(c)'
    PROVE  AcpInv'
  <1>t. ClientTypes /\ ContextTypes /\ PipeTypes /\ AgentTypes
    BY Types DEF AcpInv
  <1>i. Handshake /\ Identifiers /\ Said /\ Contexts /\ Replies
    BY DEF AcpInv
  <1>1. \A d \in Callers : d # c => pc[d] = "idle"
    BY DEF OneReader
  <1>2. ClientTypes' /\ AcpTypeOK'
    <2>1. ClientTypes' /\ ContextTypes' /\ PipeTypes' /\ AgentTypes'
      BY <1>t DEF ClientTypes, ContextTypes, PipeTypes, AgentTypes
    <2> QED BY <2>1, TypesNext
  <1>3. Handshake'
    <2>1. runtime = "ready" /\ (child = "reaped" => fromAgent' = <<>>)
      BY <1>i DEF Handshake, Line
    <2> QED BY <1>i, <2>1 DEF Handshake
  <1>4. Identifiers' /\ Said'
    BY <1>t, <1>i, <1>2, IdentifiersKept, SaidKept
  <1>5. Contexts'
    BY <1>i, <1>1 DEF Contexts
  <1>6. Replies'
    <2> SUFFICES ASSUME NEW d \in Callers, d # c PROVE Replying(d)'
      BY DEF Replies
    <2>1. Replying(d) /\ pc[d] = "idle"
      BY <1>i, <1>1 DEF Replies
    <2> QED BY <2>1, IdleKept
  <1> QED BY <1>2, <1>3, <1>4, <1>5, <1>6 DEF AcpInv

\* The prompt of a call that reads has been sent, and its turn has begun.
LEMMA ActivePrompt ==
    ASSUME AcpInv, NEW c \in Callers, pc[c] \in {"read", "deliver"}
    PROVE  /\ req[c] \in RequestID /\ ctx[req[c]] \in {"live", "done"}
           /\ ~TurnOver(c) <=> ctx[req[c]] = "live"
  <1>1. Contexts /\ CallTypes /\ ContextTypes
    BY Types DEF AcpInv
  <1>2. req[c] # 0 /\ ctx[req[c]] # "none"
    BY <1>1, Numbers DEF Contexts
  <1>3. req[c] \in RequestID
    BY <1>1, <1>2 DEF CallTypes
  <1>4. ctx[req[c]] \in {"live", "done"}
    BY <1>1, <1>2, <1>3 DEF ContextTypes
  <1> QED BY <1>1, <1>3, <1>4 DEF TurnOver, Contexts

\* One round of the read loop of RespondStream.
LEMMA ReadKeeps ==
    ASSUME AcpInv, OneReader, NEW c \in Callers, Read(c), UNCHANGED <<runtime, stopping, agent, child>>
    PROVE  AcpInv'
  <1>t. ClientTypes /\ CallTypes /\ ContextTypes /\ PipeTypes /\ AgentTypes
    BY Types DEF AcpInv
  <1>i. Handshake /\ Identifiers /\ Said /\ Contexts /\ Replies
    BY DEF AcpInv
  <1>u. UNCHANGED <<session, closed, nextID, req>> /\ UNCHANGED <<ctx, cancelled, watcher>> /\ pc[c] = "read"
    BY DEF Read, contexts
  <1>a. req[c] \in RequestID /\ ctx[req[c]] \in {"live", "done"} /\ (~TurnOver(c) <=> ctx[req[c]] = "live")
    BY <1>u, ActivePrompt
  <1>n. nextID \in Nat /\ nextID' \in Nat /\ nextID <= nextID'
    BY <1>t, <1>u, NextIDIsNat
  <1>1. ASSUME UNCHANGED toAgent PROVE NoNewPrompt /\ toAgent' \in Seq(Request)
    BY <1>t, <1>n, <1>1, WroteNothing DEF PipeTypes
  <1>2. ASSUME UNCHANGED fromAgent
        PROVE  NothingNew /\ fromAgent' \in Seq(Reply) /\ Len(fromAgent') <= PipeCap
    BY <1>t, <1>2 DEF NothingNew, PipeTypes
  <1>3. ASSUME Line, fromAgent' = Tail(fromAgent)
        PROVE  NothingNew /\ fromAgent' \in Seq(Reply) /\ Len(fromAgent') <= PipeCap
               /\ Head(fromAgent) \in Reply /\ 1 \in DOMAIN fromAgent /\ Head(fromAgent) = fromAgent[1]
    BY <1>t, <1>3, Consumed
  <1>4. ASSUME fromAgent' = fromAgent \/ (Line /\ fromAgent' = Tail(fromAgent)), NEW o \in {"err", "cancel"},
               Abandon(c, o)
        PROVE  AcpInv'
    <2>1. /\ CallTypes' /\ busy' \in BOOLEAN /\ UNCHANGED <<answer, streamed, toAgent>>
          /\ \A d \in Callers : d # c => pc'[d] = pc[d] /\ out'[d] = out[d]
          /\ pc'[c] = "idle" /\ out'[c] # "ok"
      BY <1>t, <1>u, <1>4 DEF Abandon, Return, CallTypes
    <2>2. Replying(c)'
      BY <2>1 DEF Replying
    <2> QED BY <1>u, <1>1, <1>2, <1>3, <1>4, <2>1, <2>2, CallFrame
  <1>5. ContextError(c) \in {"err", "cancel"}
    BY DEF ContextError
  <1>6. CASE EOF /\ Abandon(c, ContextError(c)) /\ UNCHANGED fromAgent
    BY <1>4, <1>5, <1>6
  <1>7. CASE Line /\ fromAgent' = Tail(fromAgent)
    <2> DEFINE m == Head(fromAgent)
    <2>m. m \in Reply /\ m.id \in RequestID \cup {0} /\ m.n \in 0..MaxUpdates
      BY <1>3, <1>7, ReplyFields
    <2>c. m.kind = "chunk" => m.id \in RequestID /\ m.n \in 1..MaxUpdates
      <3>1. m = fromAgent[1] /\ 1 \in DOMAIN fromAgent
        BY <1>3, <1>7
      <3>2. m.kind = "chunk" => m.id \in RequestID /\ m.n > 0
        BY <1>i, <3>1 DEF Said
      <3> QED BY <2>m, <3>2
    <2>f. /\ fromAgent \in Seq(Reply) /\ fromAgent # <<>> /\ child # "reaped" /\ streamed[c] \in Seq(Chunk)
      BY <1>t, <1>i, <1>7 DEF Line, Handshake, PipeTypes, CallTypes
    <2>k. ASSUME ctx[req[c]] = "live"
          PROVE  \E k, t \in Nat : /\ k <= t /\ Told(streamed[c], req[c], k)
                                   /\ Coming(fromAgent, req[c], k, t) /\ SentOf(agent, toAgent, req[c], t)
      BY <1>i, <1>u, <2>f, <2>k DEF Replies, Replying
    <2>s. ASSUME NoNewPrompt, NEW t, SentOf(agent, toAgent, req[c], t)
          PROVE  SentOf(agent', toAgent', req[c], t)
      BY <2>s DEF NoNewPrompt, SentOf
    \* The call skips a line that is not a chunk of its own living turn.
    <2>1. ASSUME UNCHANGED <<busy, pc, out, answer, streamed>>, NoNewPrompt, toAgent' \in Seq(Request),
                 TurnOver(c) \/ ~ChunkOf(m, req[c])
          PROVE  AcpInv'
      <3>1. CallTypes' /\ busy' \in BOOLEAN
        BY <1>t, <1>u, <2>1 DEF CallTypes, ClientTypes
      <3>2. ASSUME ctx[req[c]] = "live"
            PROVE  \E k, t \in Nat : /\ k <= t /\ Told(streamed[c], req[c], k)
                                     /\ Coming(fromAgent', req[c], k, t)
                                     /\ SentOf(agent', toAgent', req[c], t)
        <4>1. PICK k \in Nat, t \in Nat : /\ k <= t /\ Told(streamed[c], req[c], k)
                                          /\ Coming(fromAgent, req[c], k, t)
                                          /\ SentOf(agent, toAgent, req[c], t)
          BY <2>k, <3>2
        <4>2. Coming(fromAgent', req[c], k, t)
          BY <1>7, <1>a, <2>1, <2>f, <3>2, <4>1, ComingTail
        <4>3. SentOf(agent', toAgent', req[c], t)
          BY <2>1, <2>s, <4>1
        <4> QED BY <4>1, <4>2, <4>3
      <3>3. Replying(c)'
        BY <1>u, <2>1, <3>2 DEF Replying
      <3> QED BY <1>u, <1>3, <1>7, <2>1, <3>1, <3>3, CallFrame
    <2>2. ASSUME Skip, TurnOver(c) \/ ~ChunkOf(m, req[c]) PROVE AcpInv'
      BY <1>1, <2>1, <2>2 DEF Skip
    \* A chunk is forwarded, its own or a late one of an abandoned prompt.
    <2>3. ASSUME ~TurnOver(c), m.kind = "chunk",
                 streamed' = [streamed EXCEPT ![c] = Append(@, [of |-> m.id, n |-> m.n])],
                 pc' = [pc EXCEPT ![c] = "deliver"], UNCHANGED <<busy, out, answer, toAgent>>
          PROVE  AcpInv'
      <3> DEFINE x == [of |-> m.id, n |-> m.n]
      <3>1. x \in Chunk /\ x.of = m.id /\ x.n = m.n
        BY <2>c, <2>3 DEF Chunk
      <3> HIDE DEF x
      <3>2. /\ streamed' = [streamed EXCEPT ![c] = Append(streamed[c], x)] /\ Append(streamed[c], x) \in Seq(Chunk)
        BY <1>t, <2>3, <2>f, <3>1, AppendFacts DEF CallTypes, x
      <3>3. /\ CallTypes' /\ busy' \in BOOLEAN /\ streamed'[c] = Append(streamed[c], x) /\ pc'[c] = "deliver"
            /\ \A d \in Callers : d # c => pc'[d] = pc[d] /\ streamed'[d] = streamed[d]
        BY <1>t, <1>u, <2>3, <3>2 DEF CallTypes, ClientTypes
      <3>4. NoNewPrompt /\ toAgent' \in Seq(Request)
        BY <1>1, <2>3
      <3>5. PICK k \in Nat, t \in Nat : /\ k <= t /\ Told(streamed[c], req[c], k)
                                        /\ Coming(fromAgent, req[c], k, t)
                                        /\ SentOf(agent, toAgent, req[c], t)
        BY <1>a, <2>3, <2>k
      <3>6. SentOf(agent', toAgent', req[c], t)
        BY <2>s, <3>4, <3>5
      <3>7. Replying(c)'
        <4>1. CASE m.id = req[c]
          <5>1. /\ ChunkOf(m, req[c]) /\ m.n = k + 1 /\ k + 1 <= t /\ k + 1 \in Nat
                /\ Coming(fromAgent', req[c], k + 1, t)
            BY <1>7, <2>3, <2>f, <3>5, <4>1, ComingTail DEF ChunkOf
          <5>2. Told(streamed'[c], req[c], k + 1)
            BY <2>f, <3>1, <3>3, <3>5, <4>1, <5>1, ToldAppend
          <5> QED BY <1>u, <3>3, <3>6, <5>1, <5>2 DEF Replying
        <4>2. CASE m.id # req[c]
          <5>1. Coming(fromAgent', req[c], k, t)
            BY <1>7, <2>f, <3>5, <4>2, ComingTail DEF ChunkOf
          <5>2. Told(streamed'[c], req[c], k)
            BY <2>f, <3>1, <3>3, <3>5, <4>2, ToldAppend
          <5> QED BY <1>u, <3>3, <3>5, <3>6, <5>1, <5>2 DEF Replying
        <4> QED BY <4>1, <4>2
      <3> QED BY <1>u, <1>3, <1>7, <2>3, <3>3, <3>4, <3>7, CallFrame
    <2>4. CASE ReadUpdate(c, m)
      BY <2>2, <2>3, <2>4 DEF ReadUpdate, ChunkOf
    <2>5. CASE RejectPermission(c, m)
      <3>1. CASE Write(Message("reject", m.id)) /\ UNCHANGED <<busy, pc, out, answer, streamed>>
        <4>1. Message("reject", m.id) \in Request /\ Message("reject", m.id).kind = "reject"
          BY <2>m, RequestIs
        <4>2. ~IsPrompt(Message("reject", m.id)) /\ toAgent' = Append(toAgent, Message("reject", m.id))
          BY <3>1, <4>1 DEF IsPrompt, Write
        <4>3. NoNewPrompt /\ toAgent' \in Seq(Request)
          BY <1>t, <1>n, <4>1, <4>2, Wrote
        <4>4. ~ChunkOf(m, req[c])
          BY <2>5 DEF RejectPermission, ChunkOf
        <4> QED BY <2>1, <3>1, <4>3, <4>4
      <3>2. CASE Abandon(c, "err")
        BY <1>4, <1>7, <3>2
      <3> QED BY <2>5, <3>1, <3>2 DEF RejectPermission
    <2>6. CASE ReadResponse(c, m)
      <3>1. CASE Skip
        BY <2>2, <2>6, <3>1 DEF ReadResponse, ChunkOf
      <3>2. CASE m.id = req[c] /\ UNCHANGED <<answer, streamed, toAgent>>
                 /\ (Return(c, ContextError(c)) \/ Return(c, "cancel"))
        BY <1>4, <1>5, <1>7, <3>2 DEF Abandon
      <3>3. CASE m.id = req[c] /\ m.kind = "result" /\ ~TurnOver(c) /\ Return(c, "ok")
                 /\ answer' = [answer EXCEPT ![c] = m] /\ UNCHANGED <<streamed, toAgent>>
        <4>1. PICK k \in Nat, t \in Nat : /\ k <= t /\ Told(streamed[c], req[c], k)
                                          /\ Coming(fromAgent, req[c], k, t)
          BY <1>a, <2>k, <3>3
        <4>2. m.n = t /\ k >= t
          BY <2>f, <3>3, <4>1, ComingTail DEF ResultOf
        <4>3. Complete(streamed[c], req[c], m)
          <5>1. k = m.n
            BY <4>1, <4>2
          <5>2. Told(streamed[c], req[c], m.n)
            BY <4>1, <5>1
          <5> QED BY <2>f, <3>3, <5>2, Completes
        <4>4. /\ CallTypes' /\ busy' \in BOOLEAN /\ pc'[c] = "idle" /\ answer'[c] = m
              /\ \A d \in Callers : d # c => pc'[d] = pc[d] /\ out'[d] = out[d] /\ answer'[d] = answer[d]
          <5> HIDE DEF m
          <5> QED BY <1>t, <1>u, <2>m, <3>3 DEF CallTypes, Return
        <4>5. Replying(c)'
          BY <1>u, <3>3, <4>3, <4>4 DEF Replying
        <4>6. NoNewPrompt /\ toAgent' \in Seq(Request)
          BY <1>1, <3>3
        <4> QED BY <1>u, <1>3, <1>7, <3>3, <4>4, <4>5, <4>6, CallFrame
      <3> QED BY <2>6, <3>1, <3>2, <3>3 DEF ReadResponse
    <2>7. CASE Abandon(c, ContextError(c))
      BY <1>4, <1>5, <1>7, <2>7
    <2> QED BY <1>7, <2>4, <2>5, <2>6, <2>7 DEF Read, Line, EOF
  <1> QED BY <1>6, <1>7 DEF Read

\* onDelta returns.
LEMMA DeliverKeeps ==
    ASSUME AcpInv, OneReader, NEW c \in Callers, Deliver(c), UNCHANGED <<runtime, stopping, agent, child>>
    PROVE  AcpInv'
  <1>t. ClientTypes /\ CallTypes /\ PipeTypes
    BY Types DEF AcpInv
  <1>u. /\ UNCHANGED <<session, closed, nextID, req, fromAgent>> /\ UNCHANGED <<ctx, cancelled, watcher>>
        /\ UNCHANGED <<answer, streamed, toAgent>> /\ pc[c] = "deliver"
    BY DEF Deliver, contexts, Abandon
  <1>1. NoNewPrompt /\ toAgent' \in Seq(Request) /\ fromAgent' \in Seq(Reply) /\ Len(fromAgent') <= PipeCap
    BY <1>t, <1>u, NextIDIsNat, WroteNothing DEF PipeTypes
  <1>2. NothingNew
    BY <1>u DEF NothingNew
  <1>3. /\ CallTypes' /\ busy' \in BOOLEAN
        /\ \A d \in Callers : d # c => pc'[d] = pc[d] /\ out'[d] = out[d]
        /\ (pc'[c] = "read" /\ out'[c] = out[c]) \/ (pc'[c] = "idle" /\ out'[c] # "ok")
    <2>1. CASE pc' = [pc EXCEPT ![c] = "read"] /\ UNCHANGED <<busy, out>>
      BY <1>t, <1>u, <2>1 DEF CallTypes, ClientTypes
    <2>2. CASE Return(c, "cancel")
      BY <1>t, <1>u, <2>2 DEF CallTypes, Return
    <2> QED BY <2>1, <2>2 DEF Deliver, Abandon
  <1>4. Replying(c)'
    <2>1. Replying(c)
      BY DEF AcpInv, Replies
    <2> QED BY <1>u, <1>3, <2>1 DEF Replying
  <1> QED BY <1>u, <1>1, <1>2, <1>3, <1>4, CallFrame

\* A call begins, or is refused.
LEMMA BeginKeeps ==
    ASSUME AcpInv, OneReader, NEW c \in Callers, Begin(c), UNCHANGED <<runtime, stopping, agent, child>>
    PROVE  AcpInv'
  <1>t. ClientTypes /\ CallTypes /\ ContextTypes /\ PipeTypes /\ AgentTypes
    BY Types DEF AcpInv
  <1>i. Handshake /\ Identifiers /\ Said /\ Contexts /\ Replies
    BY DEF AcpInv
  <1>u. /\ UNCHANGED <<session, closed, nextID, req, answer>> /\ UNCHANGED <<ctx, cancelled, watcher>>
        /\ UNCHANGED <<toAgent, fromAgent>> /\ pc[c] = "idle" /\ runtime = "ready"
    BY DEF Begin, contexts, pipes
  <1>1. /\ CallTypes' /\ busy' \in BOOLEAN
        /\ \A d \in Callers : d # c => /\ pc'[d] = pc[d] /\ out'[d] = out[d] /\ streamed'[d] = streamed[d]
        /\ \/ pc'[c] = "idle" /\ out'[c] = "busy" /\ streamed'[c] = streamed[c]
           \/ pc'[c] = "entered" /\ streamed'[c] = <<>>
    <2>1. CASE out' = [out EXCEPT ![c] = "busy"] /\ UNCHANGED <<busy, pc, streamed>>
      BY <1>t, <1>u, <2>1 DEF CallTypes, ClientTypes
    <2>2. CASE /\ busy' = TRUE /\ pc' = [pc EXCEPT ![c] = "entered"]
               /\ out' = [out EXCEPT ![c] = "none"] /\ streamed' = [streamed EXCEPT ![c] = <<>>]
      <3>1. <<>> \in Seq(Chunk)
        OBVIOUS
      <3> QED BY <1>t, <1>u, <2>2, <3>1 DEF CallTypes
    <2> QED BY <2>1, <2>2 DEF Begin
  <1>2. AcpTypeOK'
    <2>1. ClientTypes' /\ ContextTypes' /\ PipeTypes' /\ AgentTypes'
      BY <1>t, <1>u, <1>1 DEF ClientTypes, ContextTypes, PipeTypes, AgentTypes
    <2> QED BY <1>1, <2>1, TypesNext
  <1>3. Handshake'
    BY <1>i, <1>u DEF Handshake
  <1>4. Identifiers' /\ Said'
    BY <1>i, <1>u DEF Identifiers, Said
  <1>5. Contexts'
    BY <1>i, <1>u, <1>1 DEF Contexts
  <1>6. Replies'
    <2> SUFFICES ASSUME NEW d \in Callers PROVE Replying(d)'
      BY DEF Replies
    <2>1. CASE d = c
      BY <1>1, <2>1 DEF Replying
    <2>2. CASE d # c
      <3>1. NoNewPrompt
        BY <1>t, <1>u, NextIDIsNat, WroteNothing
      <3>2. Replying(d)
        BY <1>i DEF Replies
      <3> QED BY <1>u, <1>1, <2>2, <3>1, <3>2, ReplyingKept
    <2> QED BY <2>1, <2>2
  <1> QED BY <1>2, <1>3, <1>4, <1>5, <1>6 DEF AcpInv

\* A call that returns before it has sent its prompt.
LEMMA RefusedKeeps ==
    ASSUME AcpInv, OneReader, NEW c \in Callers, pc[c] = "entered", NEW o \in {"cancel", "err"}, Return(c, o),
           nextID' \in RequestID \cup {0}, nextID <= nextID',
           UNCHANGED <<runtime, stopping, agent, child, session, closed, req, answer, streamed>>,
           UNCHANGED <<ctx, cancelled, watcher, toAgent, fromAgent>>
    PROVE  AcpInv'
  <1>t. ClientTypes /\ CallTypes /\ ContextTypes /\ PipeTypes /\ AgentTypes
    BY Types DEF AcpInv
  <1>i. Handshake /\ Identifiers /\ Said /\ Contexts /\ Replies
    BY DEF AcpInv
  <1>n. nextID \in Nat /\ nextID' \in Nat
    BY <1>t, NextIDIsNat, Numbers
  <1>1. /\ CallTypes' /\ busy' \in BOOLEAN
        /\ \A d \in Callers : pc[d] = "idle" \/ d = c
        /\ \A d \in Callers : pc'[d] = "idle" /\ (d # c => out'[d] = out[d])
        /\ out'[c] # "ok"
    BY <1>t DEF CallTypes, Return, OneReader
  <1>2. AcpTypeOK' /\ ClientTypes'
    <2>1. ClientTypes' /\ ContextTypes' /\ PipeTypes' /\ AgentTypes'
      BY <1>t, <1>1 DEF ClientTypes, ContextTypes, PipeTypes, AgentTypes
    <2> QED BY <1>1, <2>1, TypesNext
  <1>3. Handshake'
    <2>1. runtime = "ready" /\ nextID' >= NewSessionID
      BY <1>i, <1>n, Numbers DEF Handshake
    <2> QED BY <1>i, <1>1, <2>1 DEF Handshake
  <1>4. NoNewPrompt /\ NothingNew
    BY <1>t, <1>n, WroteNothing DEF NothingNew
  <1>5. Identifiers' /\ Said'
    BY <1>t, <1>i, <1>2, <1>4, IdentifiersKept, SaidKept
  <1>6. Contexts'
    <2>1. \A i \in RequestID : i > nextID' => i > nextID
      BY <1>n, Numbers
    <2> QED BY <1>i, <1>1, <2>1 DEF Contexts
  <1>7. Replies'
    <2> SUFFICES ASSUME NEW d \in Callers PROVE Replying(d)'
      BY DEF Replies
    <2>1. CASE d = c
      BY <1>1, <2>1 DEF Replying
    <2>2. CASE d # c
      BY <1>i, <1>1, <2>2, IdleKept DEF Replies
    <2> QED BY <2>1, <2>2
  <1> QED BY <1>2, <1>3, <1>5, <1>6, <1>7 DEF AcpInv

\* A prompt is written: its identifier is new to the agent and to both pipes.
LEMMA PromptKeeps ==
    ASSUME AcpInv, OneReader, NEW c \in Callers, pc[c] = "entered",
           nextID + 1 \in RequestID, Write(Message("prompt", nextID + 1)),
           nextID' = nextID + 1, req' = [req EXCEPT ![c] = nextID + 1],
           ctx' = [ctx EXCEPT ![nextID + 1] = "live"],
           watcher' = [watcher EXCEPT ![nextID + 1] = "watching"],
           pc' = [pc EXCEPT ![c] = "read"],
           UNCHANGED <<runtime, stopping, agent, child, session, closed, busy, out, answer, streamed>>,
           UNCHANGED <<cancelled, fromAgent>>
    PROVE  AcpInv'
  <1> DEFINE i == nextID + 1
  <1> DEFINE m == Message("prompt", nextID + 1)
  <1>t. ClientTypes /\ CallTypes /\ ContextTypes /\ PipeTypes /\ AgentTypes
    BY Types DEF AcpInv
  <1>i. Handshake /\ Identifiers /\ Said /\ Contexts /\ Replies
    BY DEF AcpInv
  <1>n. nextID \in Nat /\ i \in Nat /\ i \in RequestID /\ i > nextID /\ nextID >= NewSessionID /\ NewSessionID = 2
        /\ runtime = "ready"
    BY <1>t, <1>i, NextIDIsNat, Numbers DEF Handshake
  <1>m. m \in Request /\ IsPrompt(m) /\ m.kind = "prompt" /\ m.id = i
    BY <1>n, RequestIs DEF IsPrompt
  <1>w. /\ toAgent' = Append(toAgent, m) /\ toAgent' \in Seq(Request) /\ Len(toAgent) \in Nat
        /\ Len(toAgent) + 1 \in DOMAIN toAgent' /\ toAgent'[Len(toAgent) + 1] = m
        /\ \A p \in DOMAIN toAgent' : \/ p \in DOMAIN toAgent /\ toAgent'[p] = toAgent[p]
                                      \/ p = Len(toAgent) + 1 /\ toAgent'[p] = m
    <2>1. toAgent' = Append(toAgent, m) /\ toAgent \in Seq(Request)
      BY <1>t DEF Write, PipeTypes
    <2> HIDE DEF m
    <2> QED BY <1>m, <2>1, AppendFacts
  <1> HIDE DEF i, m
  <1>f. /\ nextID' = i /\ req' = [req EXCEPT ![c] = i] /\ ctx' = [ctx EXCEPT ![i] = "live"]
        /\ watcher' = [watcher EXCEPT ![i] = "watching"]
    BY DEF i
  <1>b. nextID' \in Nat /\ \A j \in Nat : j <= nextID => j # i /\ j <= nextID'
    BY <1>n, <1>f
  <1>r. \A j : j \in (NewSessionID + 1)..nextID => j \in (NewSessionID + 1)..nextID' /\ j # i
    BY <1>n, <1>f
  <1>1. /\ CallTypes' /\ ContextTypes'
        /\ \A d \in Callers : d # c => pc'[d] = pc[d] /\ req'[d] = req[d] /\ pc[d] = "idle"
        /\ pc'[c] = "read" /\ req'[c] = i
        /\ \A j \in RequestID : j # i => ctx'[j] = ctx[j]
        /\ ctx'[i] = "live"
    BY <1>t, <1>n, <1>f DEF CallTypes, ContextTypes, OneReader
  <1>2. AcpTypeOK'
    <2>1. ClientTypes' /\ PipeTypes' /\ AgentTypes'
      BY <1>t, <1>n, <1>f, <1>w DEF ClientTypes, PipeTypes, AgentTypes
    <2> QED BY <1>1, <2>1, TypesNext
  <1>3. Handshake'
    <2>1. nextID' >= NewSessionID
      BY <1>n, <1>f
    <2> QED BY <1>i, <1>n, <2>1 DEF Handshake
  <1>4. Identifiers'
    <2>1. \A p \in DOMAIN toAgent' :
            /\ IsPrompt(toAgent'[p]) => toAgent'[p].id \in (NewSessionID + 1)..nextID'
            /\ toAgent'[p].kind \in {"initialize", "new"} =>
                  toAgent'[p].id \in 1..NewSessionID /\ toAgent'[p].id <= nextID'
      <3> SUFFICES ASSUME NEW p \in DOMAIN toAgent'
                   PROVE  /\ IsPrompt(toAgent'[p]) => toAgent'[p].id \in (NewSessionID + 1)..nextID'
                          /\ toAgent'[p].kind \in {"initialize", "new"} =>
                                toAgent'[p].id \in 1..NewSessionID /\ toAgent'[p].id <= nextID'
        OBVIOUS
      <3>1. CASE toAgent'[p] = m
        <4>1. i \in (NewSessionID + 1)..nextID'
          BY <1>n, <1>f
        <4> QED BY <1>m, <3>1, <4>1
      <3>2. CASE p \in DOMAIN toAgent /\ toAgent'[p] = toAgent[p]
        BY <1>i, <1>n, <1>b, <1>r, <3>2 DEF Identifiers
      <3> QED BY <1>w, <3>1, <3>2
    <2>2. \A p \in DOMAIN toAgent : IsPrompt(toAgent[p]) => toAgent[p].id # i
      BY <1>i, <1>r DEF Identifiers
    <2>3. \A p, q \in DOMAIN toAgent' :
             IsPrompt(toAgent'[p]) /\ IsPrompt(toAgent'[q]) /\ p # q => toAgent'[p].id # toAgent'[q].id
      BY <1>i, <1>w, <1>m, <2>2 DEF Identifiers
    <2>4. \A p \in DOMAIN agent.queue :
             /\ agent.queue[p] \in (NewSessionID + 1)..nextID'
             /\ \A q \in DOMAIN toAgent' : IsPrompt(toAgent'[q]) => toAgent'[q].id # agent.queue[p]
      BY <1>i, <1>r, <1>w, <1>m DEF Identifiers
    <2> QED BY <1>i, <2>1, <2>3, <2>4 DEF Identifiers
  <1>5. \A p \in DOMAIN fromAgent : fromAgent[p].id # i /\ fromAgent[p].id <= nextID'
    <2>1. \A p \in DOMAIN fromAgent : fromAgent[p].id \in Nat
      BY <1>t, ReplyFields DEF PipeTypes
    <2> QED BY <1>i, <1>b, <2>1 DEF Said
  <1>6. Said'
    BY <1>i, <1>w, <1>m, <1>5 DEF Said
  <1>7. Contexts'
    <2>1. \A j \in cancelled : ctx'[j] = "done"
      <3>1. ctx[i] = "none"
        BY <1>i, <1>n DEF Contexts
      <3> QED BY <1>t, <1>i, <1>1, <3>1 DEF Contexts, ContextTypes
    <2>2. \A j \in RequestID : j > nextID' => j > nextID /\ j # i
      BY <1>n, <1>f, Numbers
    <2>3. i \in (NewSessionID + 1)..nextID'
      BY <1>n, <1>f
    <2> QED BY <1>i, <1>1, <2>1, <2>2, <2>3 DEF Contexts
  <1>8. Replies'
    <2> SUFFICES ASSUME NEW d \in Callers PROVE Replying(d)'
      BY DEF Replies
    <2>1. CASE d = c
      <3>1. streamed[c] = <<>>
        BY <1>i DEF Replies, Replying
      <3>2. Told(streamed[c], i, 0)
        BY <3>1 DEF Told
      <3>3. Coming(fromAgent, i, 0, 0)
        <4>1. \A p \in DOMAIN fromAgent : ~ChunkOf(fromAgent[p], i) /\ ~ResultOf(fromAgent[p], i)
          BY <1>5 DEF ChunkOf, ResultOf
        <4> QED BY <4>1 DEF Coming
      <3>4. SentOf(agent, toAgent', i, 0)
        <4>1. agent.queue # <<>> => 1 \in DOMAIN agent.queue /\ Head(agent.queue) = agent.queue[1]
          BY <1>t, AgentFields, TailFacts
        <4>2. \A p \in DOMAIN agent.queue : agent.queue[p] # i
          BY <1>i, <1>r DEF Identifiers
        <4> QED BY <4>1, <4>2 DEF SentOf
      <3> QED BY <1>1, <2>1, <3>2, <3>3, <3>4 DEF Replying
    <2>2. CASE d # c
      BY <1>i, <1>1, <2>2, IdleKept DEF Replies
    <2> QED BY <2>1, <2>2
  <1> QED BY <1>2, <1>3, <1>4, <1>6, <1>7, <1>8 DEF AcpInv

\* One call of RespondStream.
LEMMA CallKeeps ==
    ASSUME AcpInv, OneReader, NEW c \in Callers, CallStep(c)
    PROVE  AcpInv'
  <1>u. UNCHANGED <<runtime, stopping, agent, child>>
    BY DEF CallStep
  <1>1. CASE SendPrompt(c)
    <2>u. UNCHANGED <<session, closed, answer, streamed, cancelled, fromAgent>> /\ pc[c] = "entered"
      BY <1>1 DEF SendPrompt
    <2>t. ClientTypes /\ nextID \in Nat
      BY Types, NextIDIsNat DEF AcpInv
    <2>1. CASE Return(c, "cancel") /\ UNCHANGED <<nextID, req, ctx, watcher, toAgent>>
      <3>1. nextID' \in RequestID \cup {0} /\ nextID <= nextID'
        BY <2>t, <2>1 DEF ClientTypes
      <3> QED BY <1>u, <2>u, <2>1, <3>1, RefusedKeeps
    <2>2. CASE /\ Return(c, "err") /\ nextID < MaxPrompts + 2 /\ nextID' = nextID + 1
               /\ UNCHANGED <<req, ctx, watcher, toAgent>>
      <3>1. nextID' \in RequestID \cup {0} /\ nextID <= nextID'
        BY <2>t, <2>2, AcpBoundsAssumption DEF RequestID
      <3> QED BY <1>u, <2>u, <2>2, <3>1, RefusedKeeps
    <2>3. CASE LET i == nextID + 1 IN
               /\ i \in RequestID /\ Write(Message("prompt", i))
               /\ nextID' = i /\ req' = [req EXCEPT ![c] = i]
               /\ ctx' = [ctx EXCEPT ![i] = "live"]
               /\ watcher' = [watcher EXCEPT ![i] = "watching"]
               /\ pc' = [pc EXCEPT ![c] = "read"]
               /\ UNCHANGED <<busy, out>>
      BY <1>u, <2>u, <2>3, PromptKeeps
    <2> QED BY <1>1, <2>1, <2>2, <2>3 DEF SendPrompt
  <1> QED BY <1>u, <1>1, BeginKeeps, ReadKeeps, DeliverKeeps DEF CallStep

-----------------------------------------------------------------------------
(* The agent.                                                              *)

\* A step of the agent keeps the invariant when, of every prompt, what is in the
\* pipe and what is still to be sent remain the rest of the answer.
LEMMA AgentFrame ==
    ASSUME AcpInv, child = "running",
           UNCHANGED <<runtime, stopping, session, closed, busy, nextID, child>>,
           UNCHANGED <<pc, req, out, answer, streamed>>, UNCHANGED <<ctx, cancelled, watcher>>,
           PipeTypes', AgentTypes', Identifiers', Said',
           \A i \in (NewSessionID + 1)..nextID : \A k, t \in Nat :
              k <= t /\ Coming(fromAgent, i, k, t) /\ SentOf(agent, toAgent, i, t) =>
              \E u \in Nat : k <= u /\ Coming(fromAgent', i, k, u) /\ SentOf(agent', toAgent', i, u)
    PROVE  AcpInv'
  <1>t. ClientTypes /\ CallTypes /\ ContextTypes
    BY Types DEF AcpInv
  <1>i. Handshake /\ Contexts /\ Replies
    BY DEF AcpInv
  <1>1. AcpTypeOK'
    <2>1. ClientTypes' /\ CallTypes' /\ ContextTypes'
      BY <1>t DEF ClientTypes, CallTypes, ContextTypes
    <2> QED BY <2>1, TypesNext
  <1>2. Handshake' /\ Contexts'
    BY <1>i DEF Handshake, Contexts
  <1>3. Replies'
    <2> SUFFICES ASSUME NEW c \in Callers PROVE Replying(c)'
      BY DEF Replies
    <2>1. Replying(c)
      BY <1>i DEF Replies
    <2>2. ASSUME pc[c] \in {"read", "deliver"}, ctx[req[c]] = "live"
          PROVE  \E k, t \in Nat : /\ k <= t /\ Told(streamed[c], req[c], k)
                                   /\ Coming(fromAgent', req[c], k, t) /\ SentOf(agent', toAgent', req[c], t)
      <3>1. PICK k \in Nat, t \in Nat : /\ k <= t /\ Told(streamed[c], req[c], k)
                                        /\ Coming(fromAgent, req[c], k, t)
                                        /\ SentOf(agent, toAgent, req[c], t)
        BY <2>1, <2>2 DEF Replying
      <3>2. req[c] \in (NewSessionID + 1)..nextID
        BY <1>i, <2>2 DEF Contexts
      <3>3. PICK u \in Nat : k <= u /\ Coming(fromAgent', req[c], k, u) /\ SentOf(agent', toAgent', req[c], u)
        BY <3>1, <3>2
      <3> QED BY <3>1, <3>3
    <2> QED BY <2>1, <2>2 DEF Replying
  <1> QED BY <1>1, <1>2, <1>3 DEF AcpInv

\* The agent takes a line from its input.
LEMMA Taken ==
    ASSUME PipeTypes, toAgent # <<>>, toAgent' = Tail(toAgent)
    PROVE  /\ toAgent' \in Seq(Request) /\ Head(toAgent) \in Request
           /\ 1 \in DOMAIN toAgent /\ Head(toAgent) = toAgent[1]
           /\ \A p \in DOMAIN toAgent' : /\ p \in Nat /\ p + 1 \in DOMAIN toAgent /\ p + 1 # 1
                                         /\ toAgent'[p] = toAgent[p + 1]
  <1>1. /\ Tail(toAgent) \in Seq(Request) /\ Len(toAgent) \in Nat /\ Len(toAgent) > 0
        /\ DOMAIN toAgent = 1..Len(toAgent) /\ DOMAIN Tail(toAgent) = 1..(Len(toAgent) - 1)
        /\ Head(toAgent) = toAgent[1] /\ Head(toAgent) \in Request
        /\ \A p \in 1..(Len(toAgent) - 1) : Tail(toAgent)[p] = toAgent[p + 1]
    BY TailFacts DEF PipeTypes
  <1> QED BY <1>1

\* The agent writes a line when there is room.
LEMMA Spoken ==
    ASSUME PipeTypes, Room, NEW m \in Reply, fromAgent' = Append(fromAgent, m)
    PROVE  /\ fromAgent' \in Seq(Reply) /\ Len(fromAgent') <= PipeCap
           /\ \A p \in DOMAIN fromAgent' : \/ p \in DOMAIN fromAgent /\ fromAgent'[p] = fromAgent[p]
                                           \/ fromAgent'[p] = m
  <1>1. /\ Append(fromAgent, m) \in Seq(Reply) /\ Len(Append(fromAgent, m)) = Len(fromAgent) + 1
        /\ Len(fromAgent) \in Nat
        /\ DOMAIN fromAgent = 1..Len(fromAgent) /\ DOMAIN Append(fromAgent, m) = 1..(Len(fromAgent) + 1)
        /\ Append(fromAgent, m)[Len(fromAgent) + 1] = m
        /\ \A p \in 1..Len(fromAgent) : Append(fromAgent, m)[p] = fromAgent[p]
    BY AppendFacts DEF PipeTypes
  <1>2. Len(fromAgent') <= PipeCap
    BY <1>1, AcpBoundsAssumption DEF Room
  <1> QED BY <1>1, <1>2

\* Fewer lines in the agent's input, the same agent: nothing else has to change.
LEMMA IdentifiersTaken ==
    ASSUME PipeTypes, Identifiers, toAgent # <<>>, toAgent' = Tail(toAgent), UNCHANGED nextID,
           agent'.queue = agent.queue
    PROVE  Identifiers'
  <1>1. \A p \in DOMAIN toAgent' : p \in Nat /\ p + 1 \in DOMAIN toAgent /\ toAgent'[p] = toAgent[p + 1]
    BY Taken
  <1>2. \A p, q \in DOMAIN toAgent' : p # q => p + 1 # q + 1
    BY <1>1
  <1> QED BY <1>1, <1>2 DEF Identifiers

LEMMA SentTaken ==
    ASSUME PipeTypes, toAgent # <<>>, toAgent' = Tail(toAgent), NEW i, NEW t,
           SentOf(agent, toAgent, i, t), agent'.queue = agent.queue, agent'.sent = agent.sent
    PROVE  SentOf(agent', toAgent', i, t)
  <1>1. \A p \in DOMAIN toAgent' : p + 1 \in DOMAIN toAgent /\ toAgent'[p] = toAgent[p + 1]
    BY Taken
  <1> QED BY <1>1 DEF SentOf

\* What the agent says about no prompt: an answer of the handshake, a thought, a
\* request for permission, a line that is not JSON.
LEMMA Aside ==
    ASSUME PipeTypes, Room, NEW m \in Reply, fromAgent' = Append(fromAgent, m),
           m.kind # "chunk", m.id \in 0..NewSessionID, NEW i \in (NewSessionID + 1)..nextID,
           NEW k \in Nat, NEW t \in Nat, k <= t, Coming(fromAgent, i, k, t)
    PROVE  Coming(fromAgent', i, k, t)
  <1>1. ~ChunkOf(m, i) /\ ~ResultOf(m, i)
    <2>1. m.id # i
      BY Numbers
    <2> QED BY <2>1 DEF ChunkOf, ResultOf
  <1> QED BY <1>1, ComingAppend DEF PipeTypes

\* The agent reads a line of its input.
LEMMA AgentReadsKeeps ==
    ASSUME AcpInv, AgentReads, child = "running",
           UNCHANGED <<runtime, stopping, session, closed, busy, nextID, child>>,
           UNCHANGED <<pc, req, out, answer, streamed>>, UNCHANGED <<ctx, cancelled, watcher>>
    PROVE  AcpInv'
  <1> DEFINE m == Head(toAgent)
  <1>t. ClientTypes /\ PipeTypes /\ AgentTypes
    BY Types DEF AcpInv
  <1>i. Identifiers /\ Said
    BY DEF AcpInv
  <1>n. nextID \in Nat /\ NewSessionID = 2
    BY <1>t, NextIDIsNat, Numbers
  <1>u. toAgent # <<>> /\ toAgent' = Tail(toAgent)
    BY DEF AgentReads
  <1>a. /\ agent.queue \in Seq(RequestID) /\ agent.said \in 0..MaxUpdates /\ agent.sent \in 0..MaxUpdates
        /\ agent.said \in Nat /\ agent.sent \in Nat
    BY <1>t, AgentFields
  <1>w. /\ toAgent' \in Seq(Request) /\ m \in Request
        /\ 1 \in DOMAIN toAgent /\ m = toAgent[1]
        /\ \A p \in DOMAIN toAgent' : /\ p \in Nat /\ p + 1 \in DOMAIN toAgent /\ p + 1 # 1
                                      /\ toAgent'[p] = toAgent[p + 1]
    BY <1>t, <1>u, Taken
  <1> HIDE DEF m
  <1>1. ASSUME NEW k \in {"result", "error"}, m.kind \in {"initialize", "new"}, Say(k, m.id), UNCHANGED agent
        PROVE  AcpInv'
    <2> DEFINE r == [kind |-> k, id |-> m.id, n |-> agent.sent]
    <2>1. m.id \in 1..NewSessionID /\ m.id <= nextID /\ m.id \in RequestID /\ m.id \in Nat
      <3>1. m.id \in 1..NewSessionID /\ m.id <= nextID
        BY <1>i, <1>w, <1>1 DEF Identifiers
      <3> QED BY <3>1, <1>n, AcpBoundsAssumption DEF RequestID
    <2>2. r \in Reply /\ r.kind = k /\ r.id = m.id
      BY <1>a, <2>1, ReplyIs
    <2>3. Room /\ fromAgent' = Append(fromAgent, r)
      BY <1>1 DEF Say
    <2> HIDE DEF r
    <2>4. /\ fromAgent' \in Seq(Reply) /\ Len(fromAgent') <= PipeCap
          /\ \A p \in DOMAIN fromAgent' : (p \in DOMAIN fromAgent /\ fromAgent'[p] = fromAgent[p]) \/ fromAgent'[p] = r
      BY <1>t, <2>2, <2>3, Spoken
    <2>5. PipeTypes' /\ AgentTypes'
      BY <1>t, <1>1, <1>w, <2>4 DEF PipeTypes, AgentTypes
    <2>6. Identifiers'
      BY <1>t, <1>i, <1>u, <1>1, IdentifiersTaken
    <2>7. Said'
      <3>1. /\ \A q \in DOMAIN toAgent' : IsPrompt(toAgent'[q]) => toAgent'[q].id # r.id
            /\ \A q \in DOMAIN agent.queue : agent.queue[q] # r.id
        <4>1. \A j : j \in (NewSessionID + 1)..nextID => j # r.id
          BY <1>n, <2>1, <2>2
        <4> QED BY <1>i, <1>w, <4>1 DEF Identifiers
      <3>2. \A p \in DOMAIN fromAgent' : fromAgent'[p] = r \/
               (/\ p \in DOMAIN fromAgent /\ fromAgent'[p] = fromAgent[p])
        BY <2>4
      <3>3. r.id <= nextID /\ r.kind # "chunk"
        BY <1>1, <2>1, <2>2
      <3> QED BY <1>i, <1>w, <1>1, <3>1, <3>2, <3>3 DEF Said
    <2>8. r.kind # "chunk" /\ r.id \in 0..NewSessionID
      BY <1>n, <2>1, <2>2
    <2>9. ASSUME NEW i \in (NewSessionID + 1)..nextID, NEW j \in Nat, NEW t \in Nat,
                 j <= t, Coming(fromAgent, i, j, t), SentOf(agent, toAgent, i, t)
          PROVE  Coming(fromAgent', i, j, t) /\ SentOf(agent', toAgent', i, t)
      BY <1>t, <1>u, <1>1, <2>2, <2>3, <2>8, <2>9, Aside, SentTaken
    <2> QED BY <2>5, <2>6, <2>7, <2>9, AgentFrame
  <1>2. ASSUME UNCHANGED fromAgent, AgentTypes', agent'.queue = agent.queue, agent'.sent = agent.sent,
               agent'.said = agent.said
        PROVE  AcpInv'
    <2>1. PipeTypes'
      BY <1>t, <1>w, <1>2 DEF PipeTypes
    <2>2. Identifiers'
      BY <1>t, <1>i, <1>u, <1>2, IdentifiersTaken
    <2>3. Said'
      BY <1>i, <1>w, <1>2 DEF Said
    <2>4. ASSUME NEW i, NEW t, SentOf(agent, toAgent, i, t) PROVE SentOf(agent', toAgent', i, t)
      BY <1>t, <1>u, <1>2, <2>4, SentTaken
    <2> QED BY <1>2, <2>1, <2>2, <2>3, <2>4, AgentFrame
  <1>3. ASSUME m.kind = "prompt", agent' = [agent EXCEPT !.queue = Append(@, m.id)], UNCHANGED fromAgent
        PROVE  AcpInv'
    <2>1. IsPrompt(m) /\ m.id \in (NewSessionID + 1)..nextID /\ m.id \in RequestID
      <3>1. IsPrompt(m) /\ m.id \in (NewSessionID + 1)..nextID
        BY <1>i, <1>w, <1>3 DEF Identifiers, IsPrompt
      <3>2. nextID <= MaxPrompts + 2
        BY <1>t, AcpBoundsAssumption DEF ClientTypes, RequestID
      <3> QED BY <1>n, <3>1, <3>2, AcpBoundsAssumption DEF RequestID
    <2>2. /\ Append(agent.queue, m.id) \in Seq(RequestID) /\ Len(agent.queue) \in Nat
          /\ DOMAIN agent.queue = 1..Len(agent.queue)
          /\ DOMAIN Append(agent.queue, m.id) = 1..(Len(agent.queue) + 1)
          /\ Append(agent.queue, m.id)[Len(agent.queue) + 1] = m.id
          /\ \A p \in 1..Len(agent.queue) : Append(agent.queue, m.id)[p] = agent.queue[p]
      BY <1>a, <2>1, AppendFacts
    <2>3. /\ agent'.queue = Append(agent.queue, m.id) /\ agent'.said = agent.said
          /\ agent'.sent = agent.sent /\ agent'.asking = agent.asking /\ AgentTypes'
      BY <1>t, <1>3, <2>2 DEF AgentTypes
    <2>q. \A p \in DOMAIN agent'.queue :
             \/ p \in DOMAIN agent.queue /\ agent'.queue[p] = agent.queue[p]
             \/ p = Len(agent.queue) + 1 /\ agent'.queue[p] = m.id
      BY <2>2, <2>3
    <2>4. PipeTypes'
      BY <1>t, <1>w, <1>3 DEF PipeTypes
    <2>5. \A p \in DOMAIN toAgent' : IsPrompt(toAgent'[p]) => toAgent'[p].id # m.id
      BY <1>i, <1>w, <2>1 DEF Identifiers
    <2>6. \A p \in DOMAIN agent.queue : agent.queue[p] # m.id
      BY <1>i, <1>w, <2>1 DEF Identifiers
    <2>7. Identifiers'
      <3>1. \A p, q \in DOMAIN toAgent' : p # q => p + 1 # q + 1
        BY <1>w
      <3>2. /\ \A p \in DOMAIN toAgent' :
                /\ IsPrompt(toAgent'[p]) => toAgent'[p].id \in (NewSessionID + 1)..nextID'
                /\ toAgent'[p].kind \in {"initialize", "new"} =>
                      toAgent'[p].id \in 1..NewSessionID /\ toAgent'[p].id <= nextID'
            /\ \A p, q \in DOMAIN toAgent' :
                IsPrompt(toAgent'[p]) /\ IsPrompt(toAgent'[q]) /\ p # q => toAgent'[p].id # toAgent'[q].id
        BY <1>i, <1>w, <3>1 DEF Identifiers
      <3>3. \A p \in DOMAIN agent'.queue :
              /\ agent'.queue[p] \in (NewSessionID + 1)..nextID'
              /\ \A q \in DOMAIN toAgent' : IsPrompt(toAgent'[q]) => toAgent'[q].id # agent'.queue[p]
        BY <1>i, <1>w, <2>1, <2>q, <2>5 DEF Identifiers
      <3>4. \A p, q \in DOMAIN agent'.queue : p # q => agent'.queue[p] # agent'.queue[q]
        BY <1>i, <2>q, <2>6 DEF Identifiers
      <3> QED BY <3>2, <3>3, <3>4 DEF Identifiers
    <2>8. agent.queue = <<>> => agent.sent = 0
      BY <1>i DEF Said
    <2>9. Said'
      <3>1. \A p \in DOMAIN fromAgent : fromAgent[p].kind = "chunk" \/ IsAnswer(fromAgent[p]) => fromAgent[p].id # m.id
        BY <1>i, <1>w, <2>1 DEF Said
      <3>2. agent'.queue # <<>>
        BY <2>2, <2>3
      <3> QED BY <1>i, <1>w, <1>3, <2>3, <2>q, <3>1, <3>2 DEF Said
    <2>10. ASSUME NEW i, NEW t, SentOf(agent, toAgent, i, t) PROVE SentOf(agent', toAgent', i, t)
      <3>1. i = m.id => t = 0
        BY <1>w, <2>1, <2>10 DEF SentOf
      <3>2. (\E p \in DOMAIN toAgent' : IsPrompt(toAgent'[p]) /\ toAgent'[p].id = i) => t = 0
        BY <1>w, <2>10 DEF SentOf
      <3>3. (\E p \in DOMAIN agent'.queue : p > 1 /\ agent'.queue[p] = i) => t = 0
        BY <2>q, <2>10, <3>1 DEF SentOf
      <3>4. agent'.queue # <<>> /\ Head(agent'.queue) = i => t = agent'.sent
        <4>1. Head(agent'.queue) = agent'.queue[1]
          BY <2>2, <2>3
        <4>2. CASE agent.queue = <<>>
          <5>1. Len(agent.queue) = 0
            BY <4>2
          <5>2. agent'.queue[1] = m.id
            BY <2>2, <2>3, <5>1
          <5> QED BY <2>3, <2>8, <3>1, <4>1, <4>2, <5>2
        <4>3. CASE agent.queue # <<>>
          <5>1. Len(agent.queue) > 0 /\ Head(agent.queue) = agent.queue[1]
            BY <1>a, <4>3, TailFacts
          <5>2. agent'.queue[1] = agent.queue[1]
            BY <2>2, <2>3, <5>1
          <5> QED BY <2>3, <2>10, <4>1, <4>3, <5>1, <5>2 DEF SentOf
        <4> QED BY <4>2, <4>3
      <3> QED BY <3>2, <3>3, <3>4 DEF SentOf
    <2> QED BY <1>3, <2>3, <2>4, <2>7, <2>9, <2>10, AgentFrame
  <1>4. CASE \E k \in {"result"} \cup (AgentFaults \cap {"error"}) :
                m.kind \in {"initialize", "new"} /\ Say(k, m.id) /\ UNCHANGED agent
    BY <1>1, <1>4
  <1>5. CASE agent' = [agent EXCEPT !.asking = FALSE] /\ UNCHANGED fromAgent
    <2>1. AgentTypes' /\ agent'.queue = agent.queue /\ agent'.sent = agent.sent /\ agent'.said = agent.said
      BY <1>t, <1>5, Zenon DEF AgentTypes
    <2> QED BY <1>2, <1>5, <2>1
  <1>6. CASE UNCHANGED <<agent, fromAgent>>
    BY <1>t, <1>2, <1>6 DEF AgentTypes
  <1> QED BY <1>3, <1>4, <1>5, <1>6 DEF AgentReads, m

\* The prompt that the agent serves.
LEMMA Serving ==
    ASSUME AcpInv, agent.queue # <<>>
    PROVE  /\ 1 \in DOMAIN agent.queue /\ Current = agent.queue[1]
           /\ Current \in RequestID /\ Current \in (NewSessionID + 1)..nextID
           /\ \A q \in DOMAIN agent.queue : q > 1 => agent.queue[q] # Current
           /\ \A q \in DOMAIN toAgent : IsPrompt(toAgent[q]) => toAgent[q].id # Current
           /\ \A q \in DOMAIN fromAgent : ~ResultOf(fromAgent[q], Current)
           /\ \A q \in DOMAIN agent.queue : q \in Nat
  <1>1. AgentTypes /\ Identifiers /\ Said
    BY Types DEF AcpInv
  <1>2. /\ agent.queue \in Seq(RequestID) /\ Len(agent.queue) \in Nat /\ Len(agent.queue) > 0
        /\ DOMAIN agent.queue = 1..Len(agent.queue) /\ Current = agent.queue[1] /\ Current \in RequestID
    BY <1>1, AgentFields, TailFacts DEF Current
  <1>3. 1 \in DOMAIN agent.queue /\ \A q \in DOMAIN agent.queue : q \in Nat /\ (q > 1 => q # 1)
    BY <1>2
  <1>4. \A q \in DOMAIN fromAgent : ~ResultOf(fromAgent[q], Current)
    BY <1>1, <1>2, <1>3 DEF Said, ResultOf, IsAnswer
  <1> QED BY <1>1, <1>2, <1>3, <1>4 DEF Identifiers

\* The agent speaks: a chunk of its prompt, a request for permission, or an aside.
LEMMA AgentSpeaksKeeps ==
    ASSUME AcpInv, AgentSpeaks, child = "running",
           UNCHANGED <<runtime, stopping, session, closed, busy, nextID, child>>,
           UNCHANGED <<pc, req, out, answer, streamed>>, UNCHANGED <<ctx, cancelled, watcher>>
    PROVE  AcpInv'
  <1>t. ClientTypes /\ PipeTypes /\ AgentTypes
    BY Types DEF AcpInv
  <1>i. Identifiers /\ Said
    BY DEF AcpInv
  <1>n. nextID \in Nat /\ NewSessionID = 2
    BY <1>t, NextIDIsNat, Numbers
  <1>u. UNCHANGED toAgent /\ agent.said < MaxUpdates
    BY DEF AgentSpeaks
  <1>a. /\ agent.queue \in Seq(RequestID) /\ agent.said \in 0..MaxUpdates /\ agent.sent \in 0..MaxUpdates
        /\ agent.said \in Nat /\ agent.sent \in Nat /\ MaxUpdates \in Nat /\ agent.sent <= agent.said
    BY <1>t, <1>i, AgentFields, AcpBoundsAssumption DEF Said
  <1>b. agent.said + 1 \in 0..MaxUpdates /\ agent.sent + 1 \in 0..MaxUpdates /\ agent.sent + 1 \in Nat
        /\ agent.sent <= agent.said + 1 /\ agent.sent + 1 <= agent.said + 1 /\ agent.sent + 1 > 0
    BY <1>u, <1>a
  <1>1. ASSUME NEW k \in {"thought", "permission", "garbage"}, Say(k, 0), AgentTypes',
               agent'.queue = agent.queue, agent'.sent = agent.sent, agent'.said = agent.said + 1
        PROVE  AcpInv'
    <2> DEFINE r == [kind |-> k, id |-> 0, n |-> agent.sent]
    <2>1. r \in Reply /\ r.kind = k /\ r.id = 0
      BY <1>a, ReplyIs
    <2>2. Room /\ fromAgent' = Append(fromAgent, r)
      BY <1>1 DEF Say
    <2> HIDE DEF r
    <2>3. /\ fromAgent' \in Seq(Reply) /\ Len(fromAgent') <= PipeCap
          /\ \A p \in DOMAIN fromAgent' : (p \in DOMAIN fromAgent /\ fromAgent'[p] = fromAgent[p]) \/ fromAgent'[p] = r
      BY <1>t, <2>1, <2>2, Spoken
    <2>4. PipeTypes'
      BY <1>t, <1>u, <2>3 DEF PipeTypes
    <2>5. Identifiers'
      BY <1>i, <1>u, <1>1 DEF Identifiers
    <2>6. Said'
      <3>1. r.id <= nextID /\ r.kind # "chunk" /\ ~IsAnswer(r)
        BY <1>n, <1>1, <2>1 DEF IsAnswer
      <3> QED BY <1>i, <1>u, <1>b, <1>1, <2>3, <3>1 DEF Said
    <2>7. r.kind # "chunk" /\ r.id \in 0..NewSessionID
      BY <1>n, <1>1, <2>1
    <2>8. ASSUME NEW i \in (NewSessionID + 1)..nextID, NEW j \in Nat, NEW t \in Nat,
                 j <= t, Coming(fromAgent, i, j, t), SentOf(agent, toAgent, i, t)
          PROVE  Coming(fromAgent', i, j, t) /\ SentOf(agent', toAgent', i, t)
      <3>1. Coming(fromAgent', i, j, t)
        BY <1>t, <2>1, <2>2, <2>7, <2>8, Aside
      <3>2. SentOf(agent', toAgent', i, t)
        BY <1>u, <1>1, <2>8 DEF SentOf
      <3> QED BY <3>1, <3>2
    <2> QED BY <1>1, <2>4, <2>5, <2>6, <2>8, AgentFrame
  <1>2. ASSUME agent.queue # <<>>, Room, agent' = [agent EXCEPT !.said = @ + 1, !.sent = @ + 1],
               fromAgent' = Append(fromAgent, [kind |-> "chunk", id |-> Current, n |-> agent.sent + 1])
        PROVE  AcpInv'
    <2> DEFINE r == [kind |-> "chunk", id |-> Current, n |-> agent.sent + 1]
    <2>s. /\ 1 \in DOMAIN agent.queue /\ Current = agent.queue[1]
          /\ Current \in RequestID /\ Current \in (NewSessionID + 1)..nextID
          /\ \A q \in DOMAIN agent.queue : q > 1 => agent.queue[q] # Current
          /\ \A q \in DOMAIN toAgent : IsPrompt(toAgent[q]) => toAgent[q].id # Current
          /\ \A q \in DOMAIN fromAgent : ~ResultOf(fromAgent[q], Current)
          /\ \A q \in DOMAIN agent.queue : q \in Nat
      BY <1>2, Serving
    <2>1. r \in Reply /\ r.kind = "chunk" /\ r.id = Current /\ r.n = agent.sent + 1
      BY <1>b, <2>s, ReplyIs
    <2>2. fromAgent' = Append(fromAgent, r)
      BY <1>2
    <2> HIDE DEF r
    <2>3. /\ fromAgent' \in Seq(Reply) /\ Len(fromAgent') <= PipeCap
          /\ \A p \in DOMAIN fromAgent' : (p \in DOMAIN fromAgent /\ fromAgent'[p] = fromAgent[p]) \/ fromAgent'[p] = r
      BY <1>t, <1>2, <2>1, <2>2, Spoken
    <2>4. PipeTypes'
      BY <1>t, <1>u, <2>3 DEF PipeTypes
    <2>5. /\ AgentTypes' /\ agent'.queue = agent.queue /\ agent'.said = agent.said + 1
          /\ agent'.sent = agent.sent + 1
      BY <1>t, <1>b, <1>2 DEF AgentTypes
    <2>6. Identifiers'
      BY <1>i, <1>u, <2>5 DEF Identifiers
    <2>7. Said'
      <3>1. Current <= nextID
        BY <1>n, <2>s
      <3>2. ~IsAnswer(r) /\ r.n > 0
        BY <1>b, <2>1 DEF IsAnswer
      <3> QED BY <1>i, <1>u, <1>b, <1>2, <2>s, <2>1, <2>3, <2>5, <3>1, <3>2 DEF Said
    <2>8. ASSUME NEW i \in (NewSessionID + 1)..nextID, NEW j \in Nat, NEW t \in Nat,
                 j <= t, Coming(fromAgent, i, j, t), SentOf(agent, toAgent, i, t)
          PROVE  \E u \in Nat : j <= u /\ Coming(fromAgent', i, j, u) /\ SentOf(agent', toAgent', i, u)
      <3>f. fromAgent \in Seq(Reply)
        BY <1>t DEF PipeTypes
      <3>1. CASE i = Current
        <4>1. t = agent.sent
          BY <1>2, <2>8, <3>1 DEF SentOf, Current
        <4>2. ChunkOf(r, i) /\ r.n = t + 1 /\ j <= t + 1 /\ t + 1 \in Nat
          BY <2>1, <2>8, <3>1, <4>1 DEF ChunkOf
        <4>3. Coming(fromAgent', i, j, t + 1)
          BY <2>s, <2>1, <2>2, <2>8, <3>1, <3>f, <4>2, ComingAppend
        <4>4. SentOf(agent', toAgent', i, t + 1)
          BY <1>u, <2>s, <2>5, <3>1, <4>1 DEF SentOf, Current
        <4> QED BY <4>2, <4>3, <4>4
      <3>2. CASE i # Current
        <4>1. ~ChunkOf(r, i) /\ ~ResultOf(r, i)
          BY <2>1, <3>2 DEF ChunkOf, ResultOf
        <4>2. Coming(fromAgent', i, j, t)
          BY <2>1, <2>2, <2>8, <3>f, <4>1, ComingAppend
        <4>3. SentOf(agent', toAgent', i, t)
          BY <1>u, <2>5, <2>8, <3>2 DEF SentOf, Current
        <4> QED BY <2>8, <4>2, <4>3
      <3> QED BY <3>1, <3>2
    <2> QED BY <2>4, <2>5, <2>6, <2>7, <2>8, AgentFrame
  <1>3. CASE Say("permission", 0) /\ agent' = [agent EXCEPT !.said = @ + 1, !.asking = TRUE]
    <2>1. AgentTypes' /\ agent'.queue = agent.queue /\ agent'.sent = agent.sent /\ agent'.said = agent.said + 1
      <3>1. \A b \in BOOLEAN : LET a == [agent EXCEPT !.said = @ + 1, !.asking = b] IN
               /\ a \in [queue : Seq(RequestID), said : 0..MaxUpdates, sent : 0..MaxUpdates, asking : BOOLEAN]
               /\ a.queue = agent.queue /\ a.sent = agent.sent /\ a.said = agent.said + 1
        BY <1>t, <1>b DEF AgentTypes
      <3>2. TRUE \in BOOLEAN
        OBVIOUS
      <3> QED BY <1>3, <3>1, <3>2, Zenon DEF AgentTypes
    <2> QED BY <1>1, <1>3, <2>1
  <1>4. CASE /\ \E k \in {"thought"} \cup (AgentFaults \cap {"garbage"}) : Say(k, 0)
             /\ agent' = [agent EXCEPT !.said = @ + 1]
    <2>1. AgentTypes' /\ agent'.queue = agent.queue /\ agent'.sent = agent.sent /\ agent'.said = agent.said + 1
      BY <1>t, <1>b, <1>4 DEF AgentTypes
    <2> QED BY <1>1, <1>4, <2>1
  <1> QED BY <1>2, <1>3, <1>4 DEF AgentSpeaks

\* The agent finishes a prompt.
LEMMA AgentAnswersKeeps ==
    ASSUME AcpInv, AgentAnswers, child = "running",
           UNCHANGED <<runtime, stopping, session, closed, busy, nextID, child>>,
           UNCHANGED <<pc, req, out, answer, streamed>>, UNCHANGED <<ctx, cancelled, watcher>>
    PROVE  AcpInv'
  <1>t. ClientTypes /\ PipeTypes /\ AgentTypes
    BY Types DEF AcpInv
  <1>i. Identifiers /\ Said
    BY DEF AcpInv
  <1>n. nextID \in Nat /\ NewSessionID = 2
    BY <1>t, NextIDIsNat, Numbers
  <1>u. UNCHANGED toAgent /\ agent.queue # <<>>
        /\ agent' = [agent EXCEPT !.queue = Tail(@), !.said = 0, !.sent = 0]
    BY DEF AgentAnswers
  <1>a. /\ agent.queue \in Seq(RequestID) /\ agent.sent \in 0..MaxUpdates /\ agent.sent \in Nat /\ MaxUpdates \in Nat
    BY <1>t, AgentFields, AcpBoundsAssumption
  <1>s. /\ 1 \in DOMAIN agent.queue /\ Current = agent.queue[1]
        /\ Current \in RequestID /\ Current \in (NewSessionID + 1)..nextID
        /\ \A q \in DOMAIN agent.queue : q > 1 => agent.queue[q] # Current
        /\ \A q \in DOMAIN toAgent : IsPrompt(toAgent[q]) => toAgent[q].id # Current
        /\ \A q \in DOMAIN agent.queue : q \in Nat
    BY <1>u, Serving
  <1>1. PICK k \in {"result", "error"} : Say(k, Current)
    BY DEF AgentAnswers
  <1> DEFINE r == [kind |-> k, id |-> Current, n |-> agent.sent]
  <1>2. r \in Reply /\ r.kind = k /\ r.id = Current /\ r.n = agent.sent
    BY <1>a, <1>s, ReplyIs
  <1>3. Room /\ fromAgent' = Append(fromAgent, r)
    BY <1>1 DEF Say
  <1> HIDE DEF r
  <1>4. /\ fromAgent' \in Seq(Reply) /\ Len(fromAgent') <= PipeCap
        /\ \A p \in DOMAIN fromAgent' : (p \in DOMAIN fromAgent /\ fromAgent'[p] = fromAgent[p]) \/ fromAgent'[p] = r
    BY <1>t, <1>2, <1>3, Spoken
  <1>5. /\ Tail(agent.queue) \in Seq(RequestID) /\ Len(agent.queue) \in Nat
        /\ DOMAIN agent.queue = 1..Len(agent.queue) /\ DOMAIN Tail(agent.queue) = 1..(Len(agent.queue) - 1)
        /\ \A p \in 1..(Len(agent.queue) - 1) : Tail(agent.queue)[p] = agent.queue[p + 1]
    BY <1>a, <1>u, TailFacts
  <1>6. AgentTypes' /\ agent'.queue = Tail(agent.queue) /\ agent'.said = 0 /\ agent'.sent = 0
    <2>1. 0 \in 0..MaxUpdates
      BY <1>a
    <2> QED BY <1>t, <1>u, <1>5, <2>1 DEF AgentTypes
  <1>q. /\ \A p \in DOMAIN agent'.queue : /\ p \in Nat /\ p + 1 \in DOMAIN agent.queue /\ p + 1 > 1
                                          /\ agent'.queue[p] = agent.queue[p + 1]
        /\ agent'.queue # <<>> => 1 \in DOMAIN agent'.queue /\ Head(agent'.queue) = agent'.queue[1]
    <2>1. agent'.queue # <<>> => 1 \in DOMAIN agent'.queue /\ Head(agent'.queue) = agent'.queue[1]
      BY <1>5, <1>6
    <2> QED BY <1>5, <1>6, <2>1
  <1>7. PipeTypes'
    BY <1>t, <1>u, <1>4 DEF PipeTypes
  <1>8. Identifiers'
    <2>1. \A p, q \in DOMAIN agent'.queue : p # q => p + 1 # q + 1
      BY <1>q
    <2> QED BY <1>i, <1>u, <1>q, <2>1 DEF Identifiers
  <1>9. Said'
    <2>1. r.id <= nextID /\ r.kind # "chunk"
      BY <1>n, <1>s, <1>2
    <2>2. \A q \in DOMAIN agent'.queue : agent'.queue[q] # r.id
      BY <1>s, <1>q, <1>2
    <2>3. \A p \in DOMAIN fromAgent : fromAgent[p].kind = "chunk" \/ IsAnswer(fromAgent[p]) =>
             \A q \in DOMAIN agent'.queue : agent'.queue[q] # fromAgent[p].id
      BY <1>i, <1>q DEF Said
    <2> QED BY <1>i, <1>u, <1>s, <1>2, <1>4, <1>6, <2>1, <2>2, <2>3 DEF Said
  <1>10. ASSUME NEW i \in (NewSessionID + 1)..nextID, NEW j \in Nat, NEW t \in Nat,
                j <= t, Coming(fromAgent, i, j, t), SentOf(agent, toAgent, i, t)
         PROVE  Coming(fromAgent', i, j, t) /\ SentOf(agent', toAgent', i, t)
    <2>1. ResultOf(r, i) => r.n = t
      BY <1>u, <1>2, <1>10 DEF ResultOf, SentOf, Current
    <2>2. ~ChunkOf(r, i)
      BY <1>2 DEF ChunkOf
    <2>3. Coming(fromAgent', i, j, t)
      BY <1>t, <1>2, <1>3, <1>10, <2>1, <2>2, ComingAppend DEF PipeTypes
    <2>4. SentOf(agent', toAgent', i, t)
      BY <1>u, <1>6, <1>q, <1>10 DEF SentOf
    <2> QED BY <2>3, <2>4
  <1> QED BY <1>6, <1>7, <1>8, <1>9, <1>10, AgentFrame

-----------------------------------------------------------------------------
(* The theorems.                                                           *)

LEMMA AcpStarts == Init => AcpInv
  <1> SUFFICES ASSUME Init PROVE AcpInv
    OBVIOUS
  <1>1. AcpTypeOK
    <2>1. ClientTypes /\ CallTypes
      <3>1. /\ runtime = "initialize" /\ child = "running" /\ nextID = 0 /\ stopping \in BOOLEAN
            /\ session \in BOOLEAN /\ closed \in BOOLEAN /\ busy \in BOOLEAN
        BY DEF Init
      <3>2. <<>> \in Seq(Chunk)
        OBVIOUS
      <3>3. CallTypes
        BY <3>2 DEF Init, CallTypes
      <3> QED BY <3>1, <3>3 DEF ClientTypes
    <2>2. ContextTypes
      BY DEF Init, ContextTypes
    <2>3. PipeTypes
      BY AcpBoundsAssumption DEF Init, PipeTypes
    <2>4. AgentTypes
      <3>1. 0 \in 0..MaxUpdates /\ <<>> \in Seq(RequestID)
        BY AcpBoundsAssumption
      <3> QED BY <3>1, Zenon DEF Init, AgentTypes
    <2> QED BY <2>1, <2>2, <2>3, <2>4
            DEF AcpTypeOK, ClientTypes, CallTypes, ContextTypes, PipeTypes, AgentTypes
  <1>2. Handshake /\ Contexts /\ Replies
    BY DEF Init, Handshake, Contexts, Replies, Replying
  <1>3. toAgent = <<>> /\ fromAgent = <<>> /\ agent.queue = <<>> /\ agent.sent = 0 /\ agent.said = 0
    BY DEF Init
  <1>4. Identifiers /\ Said
    BY <1>3 DEF Identifiers, Said
  <1> QED BY <1>1, <1>2, <1>4 DEF AcpInv

LEMMA AcpGoesOn == AcpInv /\ OneReader /\ [Next]_vars => AcpInv'
  <1> SUFFICES ASSUME AcpInv, OneReader, [Next]_vars PROVE AcpInv'
    OBVIOUS
  <1>1. CASE UNCHANGED vars
    <2>1. /\ UNCHANGED <<runtime, stopping, session, closed, busy, nextID, child>>
          /\ UNCHANGED <<pc, req, out, answer, streamed>> /\ UNCHANGED <<ctx, cancelled, watcher>>
          /\ UNCHANGED <<toAgent, fromAgent, agent>>
      BY <1>1 DEF vars, client, calls, contexts, pipes
    <2>2. ClientTypes /\ CallTypes /\ ContextTypes /\ PipeTypes /\ AgentTypes
      BY Types DEF AcpInv
    <2>3. AcpTypeOK'
      <3>1. ClientTypes' /\ CallTypes' /\ ContextTypes' /\ PipeTypes' /\ AgentTypes'
        BY <2>1, <2>2 DEF ClientTypes, CallTypes, ContextTypes, PipeTypes, AgentTypes
      <3> QED BY <3>1, TypesNext
    <2>4. Handshake' /\ Identifiers' /\ Said' /\ Contexts'
      BY <2>1 DEF AcpInv, Handshake, Identifiers, Said, Contexts
    <2>5. Replies'
      BY <2>1 DEF AcpInv, Replies, Replying
    <2> QED BY <2>3, <2>4, <2>5 DEF AcpInv
  <1>2. CASE AgentStep
    <2>1. /\ UNCHANGED <<runtime, stopping, session, closed, busy, nextID, child>>
          /\ UNCHANGED <<pc, req, out, answer, streamed>> /\ UNCHANGED <<ctx, cancelled, watcher>>
          /\ child = "running"
      BY <1>2 DEF AgentStep, client, calls, contexts
    <2> QED BY <1>2, <2>1, AgentReadsKeeps, AgentSpeaksKeeps, AgentAnswersKeeps DEF AgentStep
  <1> QED BY <1>1, <1>2, HandshakeKeeps, CallKeeps, TurnKeeps, RuntimeKeeps DEF Next, Terminated

LEMMA AcpAlways == Spec => []AcpInv
  BY OnlyOneReader, AcpStarts, AcpGoesOn, PTL DEF Spec

\* Every variable of the client, the pipes and the agent keeps its type, the
\* identifiers their range and the agent's output the capacity of its pipe,
\* whatever the callers, the bounds and the faults of the agent.
THEOREM AcpTyped == Spec => []AcpTypeOK
  <1>1. AcpInv => AcpTypeOK
    BY DEF AcpInv
  <1> QED BY <1>1, AcpAlways, PTL

\* Runtime.Close never returns with the agent process running: what it has
\* stopped waiting for, it has killed.
THEOREM CloseKillsChild == Spec => []CloseLeavesNoChild
  <1>1. AcpInv => CloseLeavesNoChild
    BY DEF AcpInv, Handshake, CloseLeavesNoChild
  <1> QED BY <1>1, AcpAlways, PTL

\* A call of RespondStream that succeeds has accepted the answer of its own prompt
\* and forwarded every chunk of it, in order and once, however many answers of
\* abandoned prompts were still in the pipe. (It may have forwarded chunks of those,
\* too: LateDeltasDiscarded is not kept.)
THEOREM RepliesOwnAndComplete == Spec => []ReplyOwnAndComplete
  <1>1. AcpInv => ReplyOwnAndComplete
    BY DEF AcpInv, Replies, Replying, Complete, ReplyOwnAndComplete, Own
  <1> QED BY <1>1, AcpAlways, PTL

=============================================================================
