------------------------- MODULE LegacyAgentProofs -------------------------
(***************************************************************************)
(* Proofs about the local agent, for every configured mode, every budget   *)
(* and every bound.                                                        *)
(*                                                                         *)
(*   ServerNeverReadyAfterExit  the manager does not publish a dead server *)
(*   ServerNeverLeft            Stop leaves no process it did not kill     *)
(*   LegacyTyped                type correctness of the session            *)
(*   HistoryBounded             the history keeps within its budget        *)
(*   OnlyCommittedRemembered    memory is the latest committed turns       *)
(*   ExchangesAreComplete       every remembered call has its one answer   *)
(***************************************************************************)
EXTENDS LegacyAgent, SequenceFacts, FiniteSetTheorems, TLAPS

-----------------------------------------------------------------------------
(* The server manager. Both results rest on where waitProcess is, because  *)
(* the manager learns of an exit through its lock and its channel alone.   *)

\* The process and the goroutine that waits for it advance together.
WaiterFollowsProcess ==
    /\ waiter = "none" <=> proc = "none"
    /\ waiter = "waiting" => proc \in {"running", "exited"}
    /\ waiter \in {"recording", "closing", "done"} => proc = "reaped"

\* An exit that waitProcess has recorded is in the state, under whatever name.
ExitIsRecorded == waiter \in {"closing", "done"} => state \in {"exited", "stopped"}

ServerInv ==
    /\ ServerTypeOK /\ WaiterFollowsProcess /\ ExitIsRecorded
    /\ at = "new" => proc = "none"
    /\ mode = "external" => proc = "none"
    /\ at = "killwait" => killed
    /\ NoServerLeft

\* What the session does is nothing to the server.
LEMMA SessionKeepsServer ==
    ASSUME ServerInv, UNCHANGED serverVars
    PROVE  ServerInv'
  BY DEF ServerInv, serverVars, ServerTypeOK, WaiterFollowsProcess, ExitIsRecorded, NoServerLeft

\* The steps of the process and of waitProcess.
LEMMA ProcessKeepsServer ==
    ASSUME ServerInv, ServerEnvironment
    PROVE  ServerInv'
  <1> USE DEF ServerInv, ServerTypeOK, WaiterFollowsProcess, ExitIsRecorded, NoServerLeft, ServerState
  <1>1. CASE RootContextEnds
    BY <1>1 DEF RootContextEnds
  <1>2. CASE ProcessExits
    BY <1>2 DEF ProcessExits
  <1>3. CASE ProcessReaped
    BY <1>3 DEF ProcessReaped
  <1>4. CASE waitProcess
    BY <1>4 DEF waitProcess
  <1> QED BY <1>1, <1>2, <1>3, <1>4 DEF ServerEnvironment

\* The steps of WaitReady that only move its program counter.
LEMMA WaitingKeepsServer ==
    ASSUME ServerInv, NEW from, NEW to \in Starting \cup {"stop", "kill"},
           from \notin {"down", "new"}, WaitReadyMoves(from, to)
    PROVE  ServerInv'
  BY DEF ServerInv, ServerTypeOK, WaiterFollowsProcess, ExitIsRecorded, NoServerLeft,
         WaitReadyMoves, Goes, Starting, Stopping

\* The steps of the goroutine that owns the manager.
LEMMA ManagerKeepsServer ==
    ASSUME ServerInv, ManagerStep
    PROVE  ServerInv'
  <1> USE DEF Starting, Stopping, ServerState
  <1>1. CASE StartFails
    BY <1>1 DEF StartFails, Goes, ServerInv, ServerTypeOK, WaiterFollowsProcess, ExitIsRecorded,
                NoServerLeft
  <1>2. CASE Start
    BY <1>2 DEF Start, Goes, ServerInv, ServerTypeOK, WaiterFollowsProcess, ExitIsRecorded,
                NoServerLeft
  <1>3. CASE WaitReadyBegins \/ EarlyExit \/ Probe \/ StartupEnds \/ TermTimeout
    BY <1>3, WaitingKeepsServer DEF WaitReadyBegins, EarlyExit, Probe, StartupEnds, TermTimeout
  <1>4. CASE PublishReady
    BY <1>4 DEF PublishReady, Goes, ServerInv, ServerTypeOK, WaiterFollowsProcess, ExitIsRecorded,
                NoServerLeft
  <1>5. CASE StopBegins \/ StopWaited
    BY <1>5 DEF StopBegins, StopWaited, markStopped, waitDone, Goes, ServerInv, ServerTypeOK,
                WaiterFollowsProcess, ExitIsRecorded, NoServerLeft
  <1>6. CASE Kill \/ KillTimeout
    BY <1>6 DEF Kill, KillTimeout, markStopped, waitDone, Goes, ServerInv, ServerTypeOK,
                WaiterFollowsProcess, ExitIsRecorded, NoServerLeft
  <1> QED BY <1>1, <1>2, <1>3, <1>4, <1>5, <1>6 DEF ManagerStep

\* The server part of the composition keeps its invariant.
LEMMA ServerIsSafe == Spec => []ServerInv
  <1>1. Init => ServerInv
    BY DEF Init, ServerInit, ServerInv, ServerTypeOK, WaiterFollowsProcess, ExitIsRecorded,
           NoServerLeft, ServerState
  <1>2. ServerInv /\ [Next]_vars => ServerInv'
    <2> SUFFICES ASSUME ServerInv, [Next]_vars PROVE ServerInv'
      OBVIOUS
    <2>1. CASE UNCHANGED vars
      BY <2>1, SessionKeepsServer DEF vars
    <2>2. CASE TurnBegins \/ TurnCancelled \/ ModelReplies \/ TurnAdvances
      BY <2>2, SessionKeepsServer DEF TurnBegins, TurnCancelled, ModelReplies, TurnAdvances, SessionMoves
    <2>3. CASE CloseRuntime
      BY <2>3, WaitingKeepsServer DEF CloseRuntime, ServerMoves, Close
    <2>4. CASE ManagerAdvances
      BY <2>4, ManagerKeepsServer DEF ManagerAdvances, ServerMoves
    <2>5. CASE EnvironmentMoves
      BY <2>5, ProcessKeepsServer DEF EnvironmentMoves, ServerMoves
    <2> QED BY <2>1, <2>2, <2>3, <2>4, <2>5 DEF Next
  <1> QED BY <1>1, <1>2, PTL DEF Spec

\* PublishReady checks and sets the state in one critical section, so an exit that
\* waitProcess has recorded, before, between or after the probes, is never
\* reported as ready.
THEOREM ServerNeverReadyAfterExit == Spec => []ReadyNotAfterExit
  <1>1. ServerInv => ReadyNotAfterExit
    BY DEF ServerInv, ExitIsRecorded, ReadyNotAfterExit
  <1> QED BY <1>1, ServerIsSafe, PTL

\* LLM-009: whatever start failed and whenever the process exits, a runtime that is
\* down has a reaped process, or one it has killed and whose loss Stop has reported.
THEOREM ServerNeverLeft == Spec => []NoServerLeft
  <1>1. ServerInv => NoServerLeft
    BY DEF ServerInv
  <1> QED BY <1>1, ServerIsSafe, PTL

-----------------------------------------------------------------------------
(* Sums and sizes.                                                         *)

SumStep(s) == [i \in 1..Len(s) |-> [t \in Nat |-> t + s[i]]]

LEMMA SumIterates ==
    ASSUME NEW s \in Seq(Nat), NEW n, n = Len(s)
    PROVE  \E f : Iterates(f, Nat, n, 0, SumStep(s)) /\ Sum(s) = f[n]
  <1> DEFINE Sums(f) == f = [i \in 0..n |-> IF i = 0 THEN 0 ELSE f[i - 1] + s[i]]
             step == SumStep(s)
             c == CHOOSE f : Sums(f)
  <1>1. n \in Nat /\ 0 \in Nat /\ \A i \in 1..n : s[i] \in Nat
    OBVIOUS
  <1>2. step \in Steps(Nat, n) /\ \A i \in 1..n, t \in Nat : step[i][t] = t + s[i]
    BY <1>1 DEF SumStep, Steps
  <1> HIDE DEF step
  <1>3. PICK f \in [0..n -> Nat] : Iterates(f, Nat, n, 0, step)
    BY <1>1, <1>2, Recursion
  <1>4. Sums(f)
    <2>1. f[0] = 0
      BY <1>3 DEF Iterates
    <2>2. ASSUME NEW i \in 0..n, i # 0 PROVE f[i] = f[i - 1] + s[i]
      <3>1. i \in 1..n /\ i - 1 \in 0..n
        BY <1>1, <2>2
      <3>2. f[i] = step[i][f[i - 1]] /\ f[i - 1] \in Nat
        BY <1>3, <3>1, Zenon DEF Iterates
      <3> QED BY <1>2, <3>1, <3>2, Zenon
    <2> QED BY <2>1, <2>2, Zenon
  <1>5. Sums(c)
    <2> HIDE DEF Sums
    <2> QED BY <1>4, Zenon
  <1>6. Sum(s) = c[n]
    <2> SUFFICES n = Len(s)
      BY Zenon DEF Sum
    <2> QED OBVIOUS
  <1> HIDE DEF c
  <1>7. Follows(c, Nat, n, 0, step)
    <2>1. 0 \in 0..n
      BY <1>1
    <2>2. c[0] = 0
      BY <1>5, <2>1, Zenon
    <2>3. ASSUME NEW i \in 1..n, c[i - 1] \in Nat PROVE c[i] = step[i][c[i - 1]]
      <3>1. i \in 0..n /\ i # 0
        BY <1>1
      <3>2. c[i] = c[i - 1] + s[i]
        BY <1>5, <3>1, Zenon
      <3> QED BY <1>2, <2>3, <3>2, Zenon
    <2> QED BY <2>2, <2>3 DEF Follows
  <1>8. Iterates(c, Nat, n, 0, step)
    BY <1>1, <1>2, <1>7, RecursionTyped
  <1> QED BY <1>6, <1>8 DEF step

LEMMA SumFacts ==
    ASSUME NEW s \in Seq(Nat), NEW k \in Nat
    PROVE  /\ Sum(s) \in Nat /\ Sum(<<>>) = 0
           /\ Sum(Append(s, k)) = Sum(s) + k
  <1>1. Sum(<<>>) = 0
    <2>1. <<>> \in Seq(Nat) /\ Len(<<>>) = 0
      OBVIOUS
    <2>2. PICK f : Iterates(f, Nat, 0, 0, SumStep(<<>>)) /\ Sum(<<>>) = f[0]
      BY <2>1, SumIterates, Zenon
    <2> QED BY <2>2 DEF Iterates
  <1> SUFFICES ASSUME NEW t, t = Append(s, k), NEW n, n = Len(s)
               PROVE  Sum(s) \in Nat /\ Sum(t) = Sum(s) + k
    BY <1>1
  <1>2. PICK f : Iterates(f, Nat, n, 0, SumStep(s)) /\ Sum(s) = f[n]
    BY SumIterates
  <1>3. t \in Seq(Nat) /\ n \in Nat /\ Len(t) = n + 1 /\ t[n + 1] = k /\ \A i \in 1..n : t[i] = s[i]
    OBVIOUS
  <1>4. PICK g : Iterates(g, Nat, n + 1, 0, SumStep(t)) /\ Sum(t) = g[n + 1]
    BY <1>3, SumIterates
  <1>5. \A i \in 1..n : SumStep(s)[i] = SumStep(t)[i]
    BY <1>3 DEF SumStep
  <1>6. g[n + 1] = SumStep(t)[n + 1][f[n]]
    BY <1>2, <1>3, <1>4, <1>5, RecursionExtends
  <1>7. f[n] \in Nat
    BY <1>2, <1>3 DEF Iterates
  <1>8. SumStep(t)[n + 1][f[n]] = f[n] + k
    BY <1>3, <1>7 DEF SumStep
  <1> QED BY <1>2, <1>4, <1>6, <1>7, <1>8

-----------------------------------------------------------------------------
Role == {"system", "user", "assistant", "tool"}
CallRecord == [id : STRING, name : STRING]
CallIds == STRING \cup {NoCall}

\* The texts and messages about the turns C; 0 is the manager's own label.
Units(C) == [of : C, cost : Nat]
Messages(C) == [role : Role, text : Seq(Units(C)), calls : Seq(CallRecord), callId : CallIds]

LEMMA MessageCostType ==
    ASSUME NEW C, NEW m \in Messages(C)
    PROVE  MessageCost(m) \in Nat
  <1>1. m.text \in Seq(Units(C)) /\ m.calls \in Seq(CallRecord)
    BY DEF Messages
  <1> SUFFICES ASSUME NEW text, text = m.text, NEW n, n = Len(m.calls)
               PROVE  1 + Sum([i \in DOMAIN text |-> text[i].cost]) + n
                        + (IF m.callId = NoCall THEN 0 ELSE 1) \in Nat
    BY Zenon DEF MessageCost
  <1>2. [i \in DOMAIN text |-> text[i].cost] \in Seq(Nat)
    <2>1. DOMAIN text = 1..Len(text) /\ Len(text) \in Nat /\ \A i \in 1..Len(text) : text[i] \in Units(C)
      BY <1>1
    <2>2. \A i \in 1..Len(text) : text[i].cost \in Nat
      BY <2>1 DEF Units
    <2> QED BY <2>1, <2>2
  <1>3. Sum([i \in DOMAIN text |-> text[i].cost]) \in Nat
    BY <1>2, SumFacts
  <1>4. n \in Nat
    BY <1>1
  <1> QED BY <1>3, <1>4

Costs(messages) == [i \in DOMAIN messages |-> MessageCost(messages[i])]

LEMMA MeasureType ==
    ASSUME NEW C, NEW ms \in Seq(Messages(C))
    PROVE  Costs(ms) \in Seq(Nat) /\ Measure(ms) = Sum(Costs(ms)) /\ Measure(ms) \in Nat
  <1>1. \A i \in 1..Len(ms) : ms[i] \in Messages(C)
    OBVIOUS
  <1>2. \A i \in 1..Len(ms) : MessageCost(ms[i]) \in Nat
    BY <1>1, MessageCostType
  <1>3. DOMAIN ms = 1..Len(ms) /\ Len(ms) \in Nat
    OBVIOUS
  <1>4. Costs(ms) \in Seq(Nat)
    BY <1>2, <1>3 DEF Costs
  <1>5. Measure(ms) = Sum(Costs(ms))
    BY Zenon DEF Costs, Measure
  <1>6. Sum(Costs(ms)) \in Nat
    BY <1>4, SumFacts
  <1> QED BY <1>4, <1>5, <1>6

LEMMA MeasureEmpty == Measure(<<>>) = 0
  <1>1. Measure(<<>>) = Sum(Costs(<<>>))
    BY Zenon DEF Costs, Measure
  <1>2. Costs(<<>>) = <<>>
    <2>1. Costs(<<>>) \in Seq(Nat) /\ Len(Costs(<<>>)) = 0
      BY DEF Costs
    <2> QED BY <2>1, EmptySeq
  <1>3. Sum(<<>>) = 0
    <2>1. <<>> \in Seq(Nat) /\ 0 \in Nat
      OBVIOUS
    <2> QED BY <2>1, SumFacts
  <1> QED BY <1>1, <1>2, <1>3

LEMMA MeasureAppend ==
    ASSUME NEW C, NEW ms \in Seq(Messages(C)), NEW m \in Messages(C)
    PROVE  Measure(Append(ms, m)) = Measure(ms) + MessageCost(m)
  <1>1. Append(ms, m) \in Seq(Messages(C)) /\ MessageCost(m) \in Nat
    BY MessageCostType
  <1>2. Costs(ms) \in Seq(Nat) /\ Measure(ms) = Sum(Costs(ms))
    BY MeasureType
  <1>3. Measure(Append(ms, m)) = Sum(Costs(Append(ms, m)))
    BY <1>1, MeasureType
  <1>4. Costs(Append(ms, m)) = Append(Costs(ms), MessageCost(m))
    BY <1>2 DEF Costs
  <1>5. Sum(Append(Costs(ms), MessageCost(m))) = Sum(Costs(ms)) + MessageCost(m)
    BY <1>1, <1>2, SumFacts
  <1> QED BY <1>2, <1>3, <1>4, <1>5

LEMMA MeasureConcat ==
    ASSUME NEW C, NEW a \in Seq(Messages(C)), NEW b \in Seq(Messages(C))
    PROVE  Measure(a \o b) = Measure(a) + Measure(b)
  <1> DEFINE P == {s \in Seq(Messages(C)) : Measure(a \o s) = Measure(a) + Measure(s)}
  <1>1. <<>> \in P
    <2>1. a \o <<>> = a /\ <<>> \in Seq(Messages(C))
      BY ConcatEmptySeq
    <2>2. Measure(a) + Measure(<<>>) = Measure(a)
      <3>1. Measure(a) \in Nat
        BY MeasureType
      <3> QED BY <3>1, MeasureEmpty
    <2> QED BY <2>1, <2>2
  <1>2. ASSUME NEW s \in Seq(Messages(C)), NEW m \in Messages(C), s \in P PROVE Append(s, m) \in P
    <2>1. a \o s \in Seq(Messages(C)) /\ Append(s, m) \in Seq(Messages(C))
      BY ConcatProperties
    <2>2. a \o Append(s, m) = Append(a \o s, m)
      BY ConcatAppend
    <2>3. Measure(Append(a \o s, m)) = Measure(a \o s) + MessageCost(m)
      BY <2>1, MeasureAppend
    <2>4. Measure(Append(s, m)) = Measure(s) + MessageCost(m)
      BY MeasureAppend
    <2>5. Measure(a) \in Nat /\ Measure(s) \in Nat /\ MessageCost(m) \in Nat
      BY MeasureType, MessageCostType
    <2>6. Measure(a \o s) = Measure(a) + Measure(s)
      BY <1>2
    <2>7. Measure(a \o Append(s, m)) = Measure(a) + Measure(Append(s, m))
      BY <2>2, <2>3, <2>4, <2>5, <2>6
    <2> QED BY <2>1, <2>7
  <1>3. Seq(Messages(C)) \subseteq P
    <2> HIDE DEF P
    <2> QED BY <1>1, <1>2, SeqInduction
  <1> QED BY <1>3

-----------------------------------------------------------------------------
(* Turns.                                                                  *)

\* What a turn is made of, whatever its contents: a sequence of messages that
\* the user begins.
OneTurn(t) == t # <<>> /\ t[1].role = "user" /\ \A i \in 2..Len(t) : t[i].role # "user"

SplitStep(M, ms) == [i \in 1..Len(ms) |-> [t \in Seq(Seq(M)) |-> continueTurns(t, ms[i])]]

LEMMA ContinueType ==
    ASSUME NEW M, NEW ts \in Seq(Seq(M)), NEW m \in M
    PROVE  continueTurns(ts, m) \in Seq(Seq(M))
  <1>1. <<m>> \in Seq(M)
    OBVIOUS
  <1>2. Append(ts, <<m>>) \in Seq(Seq(M))
    BY <1>1, AppendProperties
  <1>3. ASSUME ts # <<>> PROVE Append(Front(ts), Append(Last(ts), m)) \in Seq(Seq(M))
    <2>1. PICK us \in Seq(Seq(M)), u \in Seq(M) : ts = Append(us, u)
      BY <1>3, SequenceEmptyOrAppend
    <2>2. Front(ts) = us /\ Last(ts) = u
      BY <2>1, FrontLastAppend
    <2>3. Append(u, m) \in Seq(M)
      BY AppendProperties
    <2> QED BY <2>2, <2>3, AppendProperties
  <1> QED BY <1>2, <1>3, Zenon DEF continueTurns

LEMMA SplitIterates ==
    ASSUME NEW M, NEW ms \in Seq(M), NEW n, n = Len(ms)
    PROVE  \E f : Iterates(f, Seq(Seq(M)), n, <<>>, SplitStep(M, ms)) /\ splitTurns(ms) = f[n]
  <1> DEFINE Splits(f) == f = [i \in 0..n |-> IF i = 0 THEN <<>> ELSE continueTurns(f[i - 1], ms[i])]
             step == SplitStep(M, ms)
             T == Seq(Seq(M))
             c == CHOOSE f : Splits(f)
  <1>1. n \in Nat /\ <<>> \in T /\ \A i \in 1..n : ms[i] \in M
    BY EmptySeq
  <1>2. step \in Steps(T, n) /\ \A i \in 1..n, t \in T : step[i][t] = continueTurns(t, ms[i])
    <2>1. \A i \in 1..n, t \in T : continueTurns(t, ms[i]) \in T
      BY <1>1, ContinueType
    <2> HIDE DEF T
    <2>2. step = [i \in 1..n |-> [t \in T |-> continueTurns(t, ms[i])]]
      BY Zenon DEF SplitStep, T
    <2> HIDE DEF step
    <2>3. \A i \in 1..n : step[i] = [t \in T |-> continueTurns(t, ms[i])]
      BY <2>2, Zenon
    <2>4. ASSUME NEW i \in 1..n PROVE step[i] \in [T -> T]
      <3>1. \A t \in T : continueTurns(t, ms[i]) \in T
        BY <2>1, Zenon
      <3>2. [t \in T |-> continueTurns(t, ms[i])] \in [T -> T]
        BY <3>1, Zenon
      <3> QED BY <2>3, <3>2, Zenon
    <2>5. step \in [1..n -> [T -> T]]
      BY <2>2, <2>4, Zenon
    <2>6. ASSUME NEW i \in 1..n, NEW t \in T PROVE step[i][t] = continueTurns(t, ms[i])
      <3>1. step[i] = [u \in T |-> continueTurns(u, ms[i])]
        BY <2>3, Zenon
      <3> QED BY <3>1, Zenon
    <2> QED BY <2>5, <2>6, Zenon DEF Steps
  <1> HIDE DEF step, T
  <1>3. PICK f \in [0..n -> T] : Iterates(f, T, n, <<>>, step)
    BY <1>1, <1>2, Recursion
  <1>4. Splits(f)
    <2>1. f[0] = <<>>
      BY <1>3 DEF Iterates
    <2>2. ASSUME NEW i \in 0..n, i # 0 PROVE f[i] = continueTurns(f[i - 1], ms[i])
      <3>1. i \in 1..n /\ i - 1 \in 0..n
        BY <1>1, <2>2
      <3>2. f[i] = step[i][f[i - 1]] /\ f[i - 1] \in T
        BY <1>3, <3>1, Zenon DEF Iterates
      <3> QED BY <1>2, <3>1, <3>2, Zenon
    <2> QED BY <2>1, <2>2, Zenon
  <1>5. Splits(c)
    <2> HIDE DEF Splits
    <2> QED BY <1>4, Zenon
  <1>6. splitTurns(ms) = c[n]
    <2> SUFFICES n = Len(ms)
      BY Zenon DEF splitTurns
    <2> QED OBVIOUS
  <1> HIDE DEF c
  <1>7. Follows(c, T, n, <<>>, step)
    <2>1. 0 \in 0..n
      BY <1>1
    <2>2. c[0] = <<>>
      BY <1>5, <2>1, Zenon
    <2>3. ASSUME NEW i \in 1..n, c[i - 1] \in T PROVE c[i] = step[i][c[i - 1]]
      <3>1. i \in 0..n /\ i # 0
        BY <1>1
      <3>2. c[i] = continueTurns(c[i - 1], ms[i])
        BY <1>5, <3>1, Zenon
      <3> QED BY <1>2, <2>3, <3>2, Zenon
    <2> QED BY <2>2, <2>3 DEF Follows
  <1>8. Iterates(c, T, n, <<>>, step)
    BY <1>1, <1>2, <1>7, RecursionTyped
  <1> QED BY <1>6, <1>8, Zenon DEF step, T

LEMMA SplitEmpty == splitTurns(<<>>) = <<>>
  <1>1. <<>> \in Seq({}) /\ Len(<<>>) = 0
    OBVIOUS
  <1>2. PICK f : Iterates(f, Seq(Seq({})), 0, <<>>, SplitStep({}, <<>>)) /\ splitTurns(<<>>) = f[0]
    BY <1>1, SplitIterates, Zenon
  <1> QED BY <1>2, Zenon DEF Iterates

LEMMA SplitAppend ==
    ASSUME NEW M, NEW ms \in Seq(M), NEW m \in M
    PROVE  /\ splitTurns(ms) \in Seq(Seq(M))
           /\ splitTurns(Append(ms, m)) = continueTurns(splitTurns(ms), m)
  <1> SUFFICES ASSUME NEW t, t = Append(ms, m), NEW n, n = Len(ms), NEW T, T = Seq(Seq(M))
               PROVE  splitTurns(ms) \in T /\ splitTurns(t) = continueTurns(splitTurns(ms), m)
    BY Zenon
  <1>2. PICK f : Iterates(f, T, n, <<>>, SplitStep(M, ms)) /\ splitTurns(ms) = f[n]
    BY SplitIterates
  <1>3. t \in Seq(M) /\ n \in Nat /\ Len(t) = n + 1 /\ t[n + 1] = m /\ \A i \in 1..n : t[i] = ms[i]
    OBVIOUS
  <1>4. PICK g : Iterates(g, T, n + 1, <<>>, SplitStep(M, t)) /\ splitTurns(t) = g[n + 1]
    <2>1. n + 1 = Len(t) /\ t \in Seq(M)
      BY <1>3
    <2>2. \E g : Iterates(g, Seq(Seq(M)), n + 1, <<>>, SplitStep(M, t)) /\ splitTurns(t) = g[n + 1]
      BY <2>1, SplitIterates, Zenon
    <2> QED BY <2>2, Zenon
  <1>5. \A i \in 1..n : SplitStep(M, ms)[i] = SplitStep(M, t)[i]
    <2> TAKE i \in 1..n
    <2>1. i \in 1..Len(ms) /\ i \in 1..Len(t)
      BY <1>3
    <2>2. SplitStep(M, ms)[i] = [u \in T |-> continueTurns(u, ms[i])]
      BY <2>1, Zenon DEF SplitStep
    <2>3. SplitStep(M, t)[i] = [u \in T |-> continueTurns(u, t[i])]
      BY <2>1, Zenon DEF SplitStep
    <2> QED BY <1>3, <2>2, <2>3, Zenon
  <1>6. g[n + 1] = SplitStep(M, t)[n + 1][f[n]]
    BY <1>2, <1>3, <1>4, <1>5, RecursionExtends
  <1>7. f[n] \in T
    <2>1. n \in 0..n
      BY <1>3
    <2> QED BY <1>2, <2>1, Zenon DEF Iterates
  <1>8. SplitStep(M, t)[n + 1][f[n]] = continueTurns(f[n], m)
    <2>1. n + 1 \in 1..Len(t)
      BY <1>3
    <2>2. SplitStep(M, t)[n + 1] = [u \in T |-> continueTurns(u, t[n + 1])]
      BY <2>1, Zenon DEF SplitStep
    <2>3. SplitStep(M, t)[n + 1][f[n]] = continueTurns(f[n], t[n + 1])
      BY <1>7, <2>2, Zenon
    <2> QED BY <1>3, <2>3, Zenon
  <1> QED BY <1>2, <1>4, <1>6, <1>7, <1>8, Zenon

\* A turn that is put after other messages is split off as one turn.
LEMMA SplitTurn ==
    ASSUME NEW M, NEW ms \in Seq(M), NEW t \in Seq(M), OneTurn(t)
    PROVE  splitTurns(ms \o t) = Append(splitTurns(ms), t)
  <1> DEFINE P == {u \in Seq(M) : OneTurn(u) => splitTurns(ms \o u) = Append(splitTurns(ms), u)}
  <1>1. <<>> \in P
    BY DEF OneTurn
  <1>2. ASSUME NEW u \in Seq(M), NEW m \in M, u \in P PROVE Append(u, m) \in P
    <2>0. Append(u, m) \in Seq(M)
      OBVIOUS
    <2> SUFFICES ASSUME OneTurn(Append(u, m))
                 PROVE  splitTurns(ms \o Append(u, m)) = Append(splitTurns(ms), Append(u, m))
      BY <2>0
    <2>1. ms \o u \in Seq(M) /\ ms \o Append(u, m) = Append(ms \o u, m)
      BY ConcatProperties, ConcatAppend
    <2>2. splitTurns(ms \o Append(u, m)) = continueTurns(splitTurns(ms \o u), m)
      BY <2>1, SplitAppend
    <2>3. splitTurns(ms) \in Seq(Seq(M))
      BY SplitAppend
    <2>4. CASE u = <<>>
      <3>1. m.role = "user" /\ Append(u, m) = <<m>> /\ ms \o u = ms
        BY <2>4, ConcatEmptySeq DEF OneTurn
      <3> QED BY <2>2, <3>1, Zenon DEF continueTurns
    <2>5. CASE u # <<>>
      <3>1. Len(u) \in Nat \ {0} /\ Append(u, m)[Len(u) + 1] = m
            /\ Len(Append(u, m)) = Len(u) + 1 /\ \A i \in 1..Len(u) : Append(u, m)[i] = u[i]
        BY <2>5, EmptySeq
      <3>2. OneTurn(u) /\ m.role # "user"
        <4> SUFFICES ASSUME NEW v, v = Append(u, m), OneTurn(v) PROVE OneTurn(u) /\ m.role # "user"
          BY Zenon
        <4>1. Len(u) + 1 \in 2..Len(v) /\ v[Len(u) + 1] = m /\ v[1] = u[1]
          BY <3>1
        <4>2. m.role # "user" /\ u[1].role = "user"
          BY <4>1, Zenon DEF OneTurn
        <4>3. ASSUME NEW i \in 2..Len(u) PROVE u[i].role # "user"
          <5>1. i \in 2..Len(v) /\ v[i] = u[i]
            BY <3>1
          <5> QED BY <5>1, Zenon DEF OneTurn
        <4> QED BY <4>2, <4>3, <2>5, Zenon DEF OneTurn
      <3>3. splitTurns(ms \o u) = Append(splitTurns(ms), u)
        BY <1>2, <3>2
      <3>4. Append(splitTurns(ms), u) # <<>>
        BY <2>3, AppendProperties, SMTT(30)
      <3>5. Front(Append(splitTurns(ms), u)) = splitTurns(ms) /\ Last(Append(splitTurns(ms), u)) = u
        BY <2>3, FrontLastAppend
      <3> QED BY <2>2, <3>2, <3>3, <3>4, <3>5, Zenon DEF continueTurns
    <2> QED BY <2>4, <2>5
  <1>3. Seq(M) \subseteq P
    <2> HIDE DEF P
    <2> QED BY <1>1, <1>2, SeqInduction
  <1> QED BY <1>3

\* Splitting undoes concatenating the turns.
LEMMA SplitFlatten ==
    ASSUME NEW M, NEW ts \in Seq(Seq(M)), \A i \in 1..Len(ts) : OneTurn(ts[i])
    PROVE  splitTurns(FlattenSeq(ts)) = ts
  <1> DEFINE P == {us \in Seq(Seq(M)) :
                    (\A i \in 1..Len(us) : OneTurn(us[i])) => splitTurns(FlattenSeq(us)) = us}
  <1>1. <<>> \in P
    BY EmptySeq, FlattenEmpty, SplitEmpty, Zenon
  <1>2. ASSUME NEW us \in Seq(Seq(M)), NEW u \in Seq(M), us \in P PROVE Append(us, u) \in P
    <2>1. /\ Append(us, u) \in Seq(Seq(M)) /\ Len(us) \in Nat /\ Len(Append(us, u)) = Len(us) + 1
          /\ Append(us, u)[Len(us) + 1] = u /\ \A i \in 1..Len(us) : Append(us, u)[i] = us[i]
      BY AppendProperties, LenProperties
    <2> SUFFICES ASSUME \A i \in 1..Len(Append(us, u)) : OneTurn(Append(us, u)[i])
                 PROVE  splitTurns(FlattenSeq(Append(us, u))) = Append(us, u)
      BY <2>1, Zenon
    <2>2. Len(us) + 1 \in 1..(Len(us) + 1) /\ \A i \in 1..Len(us) : i \in 1..(Len(us) + 1)
      BY <2>1
    <2>3. OneTurn(u) /\ \A i \in 1..Len(us) : OneTurn(us[i])
      BY <2>1, <2>2, Zenon
    <2>4. splitTurns(FlattenSeq(us)) = us
      BY <1>2, <2>3, Zenon
    <2>5. FlattenSeq(Append(us, u)) = FlattenSeq(us) \o u /\ FlattenSeq(us) \in Seq(M)
      BY FlattenAppend, FlattenType
    <2>6. splitTurns(FlattenSeq(us) \o u) = Append(splitTurns(FlattenSeq(us)), u)
      BY <2>3, <2>5, SplitTurn
    <2> QED BY <2>4, <2>5, <2>6, Zenon
  <1>3. Seq(Seq(M)) \subseteq P
    <2> HIDE DEF P
    <2> QED BY <1>1, <1>2, SeqInduction
  <1> QED BY <1>3, Zenon

-----------------------------------------------------------------------------
(* Exchanges with the tools.                                               *)

AnyMessage == Messages(Nat)

LEMMA MessagesMonotone ==
    ASSUME NEW A, NEW B, A \subseteq B
    PROVE  Units(A) \subseteq Units(B) /\ Messages(A) \subseteq Messages(B)
  <1>1. Units(A) \subseteq Units(B)
    BY DEF Units
  <1>2. \A text \in Seq(Units(A)) : text \in Seq(Units(B))
    BY <1>1, SeqMonotonic
  <1> HIDE DEF Units
  <1>3. \A m \in Messages(A) : m \in Messages(B)
    BY <1>2 DEF Messages
  <1> QED BY <1>1, <1>3

LEMMA MessageFields ==
    ASSUME NEW m \in AnyMessage
    PROVE  /\ m.calls \in Seq(CallRecord) /\ Len(m.calls) \in Nat
           /\ m.calls = <<>> <=> Len(m.calls) = 0
           /\ DOMAIN m.calls = 1..Len(m.calls)
           /\ m.text \in Seq(Units(Nat)) /\ m.callId \in CallIds /\ m.role \in Role
  <1>1. m.calls \in Seq(CallRecord) /\ m.text \in Seq(Units(Nat)) /\ m.callId \in CallIds /\ m.role \in Role
    BY DEF AnyMessage, Messages
  <1> QED BY <1>1, EmptySeq, LenProperties

\* The calls of message i are answered by the messages that follow it.
AnswersIn(t, i) ==
    /\ i + Len(t[i].calls) <= Len(t)
    /\ \A j \in 1..Len(t[i].calls) : t[i + j].role = "tool" /\ t[i + j].callId = t[i].calls[j].id

\* They are, and something else than a tool speaks next.
ClosedAt(t, i) ==
    /\ AnswersIn(t, i)
    /\ i + Len(t[i].calls) < Len(t) /\ t[i + Len(t[i].calls) + 1].role # "tool"

Closed(t) == \A i \in 1..Len(t) : t[i].calls # <<>> => ClosedAt(t, i)

\* As Closed, but the last answer may be the last message.
CompleteAt(t, i) ==
    /\ AnswersIn(t, i)
    /\ i + Len(t[i].calls) < Len(t) => t[i + Len(t[i].calls) + 1].role # "tool"

Complete(t) == \A i \in 1..Len(t) : t[i].calls # <<>> => CompleteAt(t, i)

\* The calls of message p are being answered, and rest are the ones left.
PendingAt(t, rest, p) ==
    /\ p \in 1..Len(t)
    /\ Len(t[p].calls) = Len(t) - p + Len(rest)
    /\ \A i \in 1..(p - 1) : t[i].calls # <<>> => ClosedAt(t, i)
    /\ \A j \in 1..(Len(t) - p) :
          t[p + j].role = "tool" /\ t[p + j].calls = <<>> /\ t[p + j].callId = t[p].calls[j].id
    /\ \A j \in 1..Len(rest) : rest[j] = t[p].calls[Len(t) - p + j]

Pending(t, rest) == \E p \in Nat : PendingAt(t, rest, p)

LEMMA CompleteExchanges ==
    ASSUME NEW t \in Seq(AnyMessage), Complete(t)
    PROVE  Exchanges(t)
  <1> SUFFICES ASSUME NEW i \in 1..Len(t), t[i].calls # <<>>
               PROVE  Results(t, i) = [j \in DOMAIN t[i].calls |-> t[i].calls[j].id]
    BY DEF Exchanges
  <1> DEFINE c == t[i].calls
             n == Len(t[i].calls)
             others == {j \in i + 1..Len(t) : t[j].role # "tool"}
             end == IF others = {} THEN Len(t) ELSE Min(others) - 1
  <1>1. t[i] \in AnyMessage /\ Len(t) \in Nat /\ i \in Nat
    OBVIOUS
  <1>2. n \in Nat \ {0} /\ DOMAIN c = 1..n
    BY <1>1, MessageFields
  <1>3. CompleteAt(t, i)
    BY DEF Complete
  <1> HIDE DEF n
  <1>4. /\ i + n <= Len(t)
        /\ i + n < Len(t) => t[i + n + 1].role # "tool"
        /\ \A j \in 1..n : t[i + j].role = "tool" /\ t[i + j].callId = c[j].id
    BY <1>3 DEF CompleteAt, AnswersIn, n
  <1> HIDE DEF c
  <1>5. \A j \in i + 1..i + n : t[j].role = "tool"
    <2> TAKE j \in i + 1..i + n
    <2>1. j - i \in 1..n /\ i + (j - i) = j
      BY <1>1, <1>2
    <2> QED BY <1>4, <2>1
  <1>6. end = i + n
    <2>1. CASE i + n = Len(t)
      <3>1. others = {}
        BY <1>5, <2>1
      <3> QED BY <2>1, <3>1
    <2>2. CASE i + n < Len(t)
      <3>1. i + n + 1 \in others
        BY <1>1, <1>2, <1>4, <2>2
      <3>2. others \subseteq Int /\ \A y \in others : i + n + 1 <= y
        BY <1>1, <1>2, <1>5
      <3>3. Min(others) = i + n + 1
        <4> HIDE DEF others
        <4> QED BY <3>1, <3>2, MinIs
      <3> HIDE DEF others
      <3>4. others # {}
        BY <3>1, Zenon
      <3>5. end = Min(others) - 1
        BY <3>4, Zenon
      <3> HIDE DEF end
      <3> QED BY <1>1, <1>2, <3>3, <3>5
    <2>3. i + n = Len(t) \/ i + n < Len(t)
      BY <1>1, <1>2, <1>4
    <2> QED BY <2>1, <2>2, <2>3, Zenon
  <1>7. Results(t, i) = [k \in 1..end - i |-> t[i + k].callId]
    BY Zenon DEF Results
  <1> HIDE DEF end
  <1>8. end - i = n
    BY <1>1, <1>2, <1>6
  <1>9. Results(t, i) = [k \in 1..n |-> c[k].id]
    BY <1>4, <1>7, <1>8, Zenon
  <1> QED BY <1>2, <1>9, Zenon DEF c

LEMMA ClosedIsComplete ==
    ASSUME NEW t, Closed(t)
    PROVE  Complete(t)
  BY DEF Closed, Complete, ClosedAt, CompleteAt

\* Where a message stands does not matter to its exchange.
LEMMA ConcatRight ==
    ASSUME NEW a \in Seq(AnyMessage), NEW b \in Seq(AnyMessage), NEW i \in 1..Len(b)
    PROVE  /\ (a \o b)[Len(a) + i] = b[i]
           /\ CompleteAt(b, i) => CompleteAt(a \o b, Len(a) + i)
           /\ ClosedAt(b, i) => ClosedAt(a \o b, Len(a) + i)
  <1> DEFINE c == a \o b
             n == Len(b[i].calls)
             k == Len(a)
  <1>1. b[i] \in AnyMessage /\ k \in Nat /\ Len(b) \in Nat /\ i \in Nat
    OBVIOUS
  <1>2. n \in Nat
    BY <1>1, MessageFields
  <1>3. Len(c) = k + Len(b) /\ \A j \in 1..Len(b) : c[k + j] = b[j]
    BY ConcatProperties
  <1>4. c[k + i] = b[i]
    BY <1>3
  <1> HIDE DEF c, k
  <1>5. AnswersIn(b, i) => AnswersIn(c, k + i)
    <2> HAVE AnswersIn(b, i)
    <2>1. i + n <= Len(b) /\ \A j \in 1..n : b[i + j].role = "tool" /\ b[i + j].callId = b[i].calls[j].id
      BY DEF AnswersIn
    <2> HIDE DEF n
    <2>2. \A j \in 1..n : i + j \in 1..Len(b) /\ (k + i) + j = k + (i + j)
      BY <1>1, <1>2, <2>1
    <2>3. (k + i) + n <= Len(c)
      BY <1>1, <1>2, <1>3, <2>1
    <2>4. \A j \in 1..n : c[(k + i) + j].role = "tool" /\ c[(k + i) + j].callId = c[k + i].calls[j].id
      BY <1>3, <1>4, <2>1, <2>2, Zenon
    <2> QED BY <1>4, <2>3, <2>4 DEF AnswersIn, n
  <1>6. ASSUME i + n < Len(b)
        PROVE  (k + i) + n < Len(c) /\ c[(k + i) + n + 1] = b[i + n + 1]
    <2> HIDE DEF n
    <2>1. i + n + 1 \in 1..Len(b) /\ (k + i) + n + 1 = k + (i + n + 1)
      BY <1>1, <1>2, <1>6
    <2>2. c[(k + i) + n + 1] = b[i + n + 1]
      <3> SUFFICES ASSUME NEW x, x = i + n + 1, NEW y, y = (k + i) + n + 1 PROVE c[y] = b[x]
        OBVIOUS
      <3>1. y = k + x /\ x \in 1..Len(b)
        BY <2>1
      <3> QED BY <1>3, <3>1, Zenon
    <2> QED BY <1>1, <1>2, <1>3, <1>6, <2>2
  <1>7. (k + i) + n < Len(c) => i + n < Len(b)
    <2> HIDE DEF n
    <2> QED BY <1>1, <1>2, <1>3
  <1>8. c[k + i].calls = b[i].calls /\ Len(c[k + i].calls) = n
    BY <1>4
  <1>9. CompleteAt(b, i) => CompleteAt(c, k + i)
    BY <1>5, <1>6, <1>7, <1>8 DEF CompleteAt
  <1>10. ClosedAt(b, i) => ClosedAt(c, k + i)
    BY <1>5, <1>6, <1>8 DEF ClosedAt
  <1> QED BY <1>4, <1>9, <1>10 DEF c, k

\* What follows does not matter to a closed exchange.
LEMMA ConcatLeft ==
    ASSUME NEW a \in Seq(AnyMessage), NEW b \in Seq(AnyMessage), NEW i \in 1..Len(a), ClosedAt(a, i)
    PROVE  ClosedAt(a \o b, i)
  <1> DEFINE c == a \o b
             n == Len(a[i].calls)
  <1>1. a[i] \in AnyMessage /\ Len(a) \in Nat /\ i \in Nat /\ Len(b) \in Nat
    OBVIOUS
  <1>2. n \in Nat
    BY <1>1, MessageFields
  <1>3. Len(c) = Len(a) + Len(b) /\ \A j \in 1..Len(a) : c[j] = a[j]
    BY ConcatProperties
  <1>4. c[i] = a[i]
    BY <1>3
  <1> HIDE DEF c
  <1>5. /\ i + n <= Len(a) /\ \A j \in 1..n : a[i + j].role = "tool" /\ a[i + j].callId = a[i].calls[j].id
        /\ i + n < Len(a) /\ a[i + n + 1].role # "tool"
    BY DEF ClosedAt, AnswersIn
  <1>6. /\ i + n <= Len(c) /\ \A j \in 1..n : c[i + j].role = "tool" /\ c[i + j].callId = c[i].calls[j].id
        /\ i + n < Len(c) /\ c[i + n + 1].role # "tool"
    <2> HIDE DEF n
    <2>1. i + n + 1 \in 1..Len(a) /\ i + n < Len(c) /\ i + n <= Len(c) /\ \A j \in 1..n : i + j \in 1..Len(a)
      BY <1>1, <1>2, <1>3, <1>5
    <2> QED BY <1>3, <1>4, <1>5, <2>1, Zenon
  <1> QED BY <1>4, <1>6, Zenon DEF ClosedAt, AnswersIn, c

LEMMA ClosedConcat ==
    ASSUME NEW a \in Seq(AnyMessage), NEW b \in Seq(AnyMessage), Closed(a)
    PROVE  /\ Complete(b) => Complete(a \o b)
           /\ Closed(b) => Closed(a \o b)
  <1> DEFINE c == a \o b
  <1>1. Len(a) \in Nat /\ Len(b) \in Nat /\ Len(c) = Len(a) + Len(b) /\ \A j \in 1..Len(a) : c[j] = a[j]
    BY ConcatProperties
  <1>2. ASSUME NEW i \in 1..Len(a), c[i].calls # <<>> PROVE ClosedAt(c, i)
    <2>1. ClosedAt(a, i)
      BY <1>1, <1>2 DEF Closed
    <2> QED BY <2>1, ConcatLeft
  <1>3. ASSUME NEW i \in 1..Len(c), i \notin 1..Len(a) PROVE \E j \in 1..Len(b) : i = Len(a) + j
    <2>1. i - Len(a) \in 1..Len(b) /\ i = Len(a) + (i - Len(a))
      BY <1>1, <1>3
    <2> QED BY <2>1
  <1>4. ASSUME Complete(b), NEW i \in 1..Len(c), c[i].calls # <<>> PROVE CompleteAt(c, i)
    <2>1. CASE i \in 1..Len(a)
      BY <1>2, <1>4, <2>1 DEF ClosedAt, CompleteAt
    <2>2. CASE i \notin 1..Len(a)
      <3>1. PICK j \in 1..Len(b) : i = Len(a) + j
        BY <1>3, <2>2
      <3>2. c[i] = b[j] /\ (CompleteAt(b, j) => CompleteAt(c, i))
        BY <3>1, ConcatRight
      <3> QED BY <1>4, <3>2 DEF Complete
    <2> QED BY <2>1, <2>2
  <1>5. ASSUME Closed(b), NEW i \in 1..Len(c), c[i].calls # <<>> PROVE ClosedAt(c, i)
    <2>1. CASE i \in 1..Len(a)
      BY <1>2, <1>5, <2>1
    <2>2. CASE i \notin 1..Len(a)
      <3>1. PICK j \in 1..Len(b) : i = Len(a) + j
        BY <1>3, <2>2
      <3>2. c[i] = b[j] /\ (ClosedAt(b, j) => ClosedAt(c, i))
        BY <3>1, ConcatRight
      <3> QED BY <1>5, <3>2 DEF Closed
    <2> QED BY <2>1, <2>2
  <1> HIDE DEF c
  <1>6. Complete(b) => Complete(c)
    BY <1>4 DEF Complete
  <1>7. Closed(b) => Closed(c)
    BY <1>5 DEF Closed
  <1> QED BY <1>6, <1>7 DEF c

LEMMA ClosedFlatten ==
    ASSUME NEW ts \in Seq(Seq(AnyMessage)), \A i \in 1..Len(ts) : Closed(ts[i])
    PROVE  Closed(FlattenSeq(ts))
  <1> DEFINE P == {us \in Seq(Seq(AnyMessage)) :
                    (\A i \in 1..Len(us) : Closed(us[i])) => Closed(FlattenSeq(us))}
  <1>1. <<>> \in P
    <2>1. Closed(<<>>)
      BY DEF Closed
    <2> QED BY <2>1, EmptySeq, FlattenEmpty, Zenon
  <1>2. ASSUME NEW us \in Seq(Seq(AnyMessage)), NEW u \in Seq(AnyMessage), us \in P PROVE Append(us, u) \in P
    <2>1. /\ Append(us, u) \in Seq(Seq(AnyMessage)) /\ Len(us) \in Nat /\ Len(Append(us, u)) = Len(us) + 1
          /\ Append(us, u)[Len(us) + 1] = u /\ \A i \in 1..Len(us) : Append(us, u)[i] = us[i]
      BY AppendProperties, LenProperties
    <2> SUFFICES ASSUME \A i \in 1..Len(Append(us, u)) : Closed(Append(us, u)[i])
                 PROVE  Closed(FlattenSeq(Append(us, u)))
      BY <2>1, Zenon
    <2>2. Len(us) + 1 \in 1..(Len(us) + 1) /\ \A i \in 1..Len(us) : i \in 1..(Len(us) + 1)
      BY <2>1
    <2>3. Closed(u) /\ \A i \in 1..Len(us) : Closed(us[i])
      BY <2>1, <2>2, Zenon
    <2>4. Closed(FlattenSeq(us))
      BY <1>2, <2>3, Zenon
    <2>5. FlattenSeq(Append(us, u)) = FlattenSeq(us) \o u /\ FlattenSeq(us) \in Seq(AnyMessage)
      BY FlattenAppend, FlattenType
    <2>6. Closed(FlattenSeq(us) \o u)
      BY <2>3, <2>4, <2>5, ClosedConcat
    <2> QED BY <2>5, <2>6, Zenon
  <1>3. Seq(Seq(AnyMessage)) \subseteq P
    <2> HIDE DEF P
    <2> QED BY <1>1, <1>2, SeqInduction
  <1> QED BY <1>3, Zenon

-----------------------------------------------------------------------------
(* A turn grows by one message at a time.                                  *)

\* Turn k as far as it has come, and when it is over.
Started(t, k) ==
    /\ t \in Seq(Messages({k})) /\ t # <<>>
    /\ t[1].role = "user" /\ t[1].text # <<>>
    /\ \A i \in 2..Len(t) : t[i].role \in {"assistant", "tool"}

Finished(t, k) == Started(t, k) /\ Closed(t) /\ Last(t).role = "assistant"

LEMMA StartedType ==
    ASSUME NEW k \in Nat, NEW t, Started(t, k)
    PROVE  t \in Seq(AnyMessage) /\ OneTurn(t)
  <1>1. Messages({k}) \subseteq Messages(Nat)
    BY MessagesMonotone
  <1>2. t \in Seq(Messages({k}))
    BY DEF Started
  <1>3. t \in Seq(AnyMessage)
    BY <1>1, <1>2, SeqMonotonic DEF AnyMessage
  <1> QED BY <1>3 DEF Started, OneTurn

LEMMA StartedAppend ==
    ASSUME NEW k \in Nat, NEW t, Started(t, k),
           NEW m \in Messages({k}), m.role \in {"assistant", "tool"}
    PROVE  Started(Append(t, m), k) /\ Last(Append(t, m)) = m
  <1> DEFINE M == Messages({k})
             u == Append(t, m)
  <1> HIDE DEF M
  <1>1. t \in Seq(M) /\ t # <<>> /\ m \in M
    BY DEF Started, M
  <1>2. u \in Seq(M) /\ u # <<>> /\ Len(t) \in Nat \ {0} /\ Len(u) = Len(t) + 1
        /\ (\A i \in 1..Len(t) : u[i] = t[i]) /\ u[Len(t) + 1] = m
    BY <1>1, AppendProperties, EmptySeq
  <1> HIDE DEF u
  <1>3. u[1] = t[1] /\ \A i \in 2..Len(u) : i = Len(t) + 1 \/ (i \in 2..Len(t) /\ u[i] = t[i])
    BY <1>2
  <1>4. \A i \in 2..Len(u) : u[i].role \in {"assistant", "tool"}
    BY <1>2, <1>3, Zenon DEF Started
  <1>5. Started(u, k)
    BY <1>2, <1>3, <1>4, Zenon DEF Started, M
  <1>6. Last(u) = m
    BY <1>1, FrontLastAppend DEF u
  <1> QED BY <1>5, <1>6 DEF u

\* What Append does to exchanges that are over, or over but for the next message.
LEMMA AppendAt ==
    ASSUME NEW t \in Seq(AnyMessage), NEW m \in AnyMessage, NEW i \in 1..Len(t)
    PROVE  /\ Append(t, m)[i] = t[i]
           /\ ClosedAt(t, i) => ClosedAt(Append(t, m), i)
           /\ CompleteAt(t, i) /\ m.role # "tool" => ClosedAt(Append(t, m), i)
  <1> DEFINE u == Append(t, m)
             n == Len(t[i].calls)
  <1>1. t[i] \in AnyMessage /\ Len(t) \in Nat /\ i \in Nat
    OBVIOUS
  <1>2. n \in Nat
    BY <1>1, MessageFields
  <1>3. Len(u) = Len(t) + 1 /\ (\A j \in 1..Len(t) : u[j] = t[j]) /\ u[Len(t) + 1] = m
    BY AppendProperties
  <1>4. u[i] = t[i]
    BY <1>3
  <1> HIDE DEF u
  <1>5. AnswersIn(t, i) => AnswersIn(u, i) /\ i + n < Len(u)
    <2> HAVE AnswersIn(t, i)
    <2>1. i + n <= Len(t) /\ \A j \in 1..n : t[i + j].role = "tool" /\ t[i + j].callId = t[i].calls[j].id
      BY DEF AnswersIn
    <2>2. i + n <= Len(u) /\ i + n < Len(u) /\ \A j \in 1..n : u[i + j].role = "tool" /\ u[i + j].callId = u[i].calls[j].id
      <3> HIDE DEF n
      <3>1. i + n <= Len(u) /\ i + n < Len(u) /\ \A j \in 1..n : i + j \in 1..Len(t)
        BY <1>1, <1>2, <1>3, <2>1
      <3> QED BY <1>3, <1>4, <2>1, <3>1, Zenon
    <2> QED BY <1>4, <2>2, Zenon DEF AnswersIn
  <1>6. i + n < Len(t) => u[i + n + 1] = t[i + n + 1]
    <2> HIDE DEF n
    <2> QED BY <1>1, <1>2, <1>3
  <1>7. i + n = Len(t) => u[i + n + 1] = m
    <2> HIDE DEF n
    <2> QED BY <1>3
  <1>8. ClosedAt(t, i) => ClosedAt(u, i)
    BY <1>4, <1>5, <1>6 DEF ClosedAt
  <1>9. CompleteAt(t, i) => i + n <= Len(t) /\ AnswersIn(t, i) /\ (i + n < Len(t) => t[i + n + 1].role # "tool")
    BY DEF CompleteAt, AnswersIn
  <1>10. CompleteAt(t, i) => i + n < Len(t) \/ i + n = Len(t)
    <2> HIDE DEF n
    <2> QED BY <1>1, <1>2, <1>9
  <1>11. CompleteAt(t, i) /\ m.role # "tool" => ClosedAt(u, i)
    <2> HAVE CompleteAt(t, i) /\ m.role # "tool"
    <2>1. u[i + n + 1].role # "tool"
      <3> HIDE DEF n
      <3> QED BY <1>6, <1>7, <1>9, <1>10, Zenon
    <2>2. AnswersIn(u, i) /\ i + n < Len(u)
      BY <1>5, <1>9
    <2> QED BY <1>4, <2>1, <2>2, Zenon DEF ClosedAt
  <1> QED BY <1>4, <1>8, <1>11 DEF u

\* The reply ends the turn.
LEMMA ReplyCloses ==
    ASSUME NEW t \in Seq(AnyMessage), Complete(t), NEW m \in AnyMessage,
           m.role = "assistant", m.calls = <<>>
    PROVE  Closed(Append(t, m))
  <1> DEFINE u == Append(t, m)
  <1>1. Len(u) = Len(t) + 1 /\ u[Len(t) + 1] = m /\ Len(t) \in Nat
    BY AppendProperties
  <1> SUFFICES ASSUME NEW i \in 1..Len(u), u[i].calls # <<>> PROVE ClosedAt(u, i)
    BY DEF Closed
  <1> HIDE DEF u
  <1>2. i \in 1..Len(t)
    BY <1>1
  <1>3. u[i] = t[i] /\ (CompleteAt(t, i) /\ m.role # "tool" => ClosedAt(u, i))
    BY <1>2, AppendAt DEF u
  <1> QED BY <1>2, <1>3 DEF Complete

\* Its calls open an exchange.
LEMMA CallsOpen ==
    ASSUME NEW t \in Seq(AnyMessage), Complete(t), NEW m \in AnyMessage, m.role = "assistant"
    PROVE  Pending(Append(t, m), m.calls)
  <1> DEFINE u == Append(t, m)
             p == Len(t) + 1
             n == Len(m.calls)
  <1>1. Len(u) = p /\ u[p] = m /\ Len(t) \in Nat /\ n \in Nat
    BY AppendProperties, MessageFields
  <1>2. ASSUME NEW i \in 1..(p - 1), u[i].calls # <<>> PROVE ClosedAt(u, i)
    <2>1. i \in 1..Len(t)
      BY <1>1
    <2>2. u[i] = t[i] /\ (CompleteAt(t, i) /\ m.role # "tool" => ClosedAt(u, i))
      BY <2>1, AppendAt
    <2> QED BY <1>2, <2>1, <2>2 DEF Complete
  <1> HIDE DEF u, n
  <1>3. p \in 1..Len(u) /\ n = Len(u) - p + n /\ 1..(Len(u) - p) = {} /\ \A j \in 1..n : Len(u) - p + j = j
    BY <1>1
  <1> HIDE DEF p
  <1>4. p \in Nat
    BY <1>1 DEF p
  <1>5. PendingAt(u, m.calls, p)
    <2>1. Len(u[p].calls) = n /\ Len(m.calls) = n
      BY <1>1 DEF n
    <2> QED BY <1>1, <1>2, <1>3, <2>1, Zenon DEF PendingAt
  <1> QED BY <1>4, <1>5 DEF Pending, u

\* A result answers the first of the calls that are left.
LEMMA ResultAnswers ==
    ASSUME NEW t \in Seq(AnyMessage), NEW rest \in Seq(CallRecord), rest # <<>>, Pending(t, rest),
           NEW m \in AnyMessage, m.role = "tool", m.calls = <<>>, m.callId = rest[1].id
    PROVE  Pending(Append(t, m), Tail(rest))
  <1> DEFINE u == Append(t, m)
             left == Tail(rest)
  <1>1. PICK p \in Nat : PendingAt(t, rest, p)
    BY DEF Pending
  <1> DEFINE n == Len(t[p].calls)
             done == Len(t) - p
  <1>2. Len(rest) \in Nat \ {0} /\ Len(left) = Len(rest) - 1 /\ \A j \in 1..Len(left) : left[j] = rest[j + 1]
    BY HeadTailProperties, EmptySeq
  <1>3. /\ p \in 1..Len(t) /\ n = done + Len(rest)
        /\ \A i \in 1..(p - 1) : t[i].calls # <<>> => ClosedAt(t, i)
        /\ \A j \in 1..done : t[p + j].role = "tool" /\ t[p + j].calls = <<>> /\ t[p + j].callId = t[p].calls[j].id
        /\ \A j \in 1..Len(rest) : rest[j] = t[p].calls[done + j]
    BY <1>1 DEF PendingAt
  <1>4. Len(t) \in Nat /\ Len(u) = Len(t) + 1 /\ (\A j \in 1..Len(t) : u[j] = t[j]) /\ u[Len(t) + 1] = m
    BY AppendProperties
  <1>5. u[p] = t[p]
    BY <1>3, <1>4
  <1>6. ASSUME NEW i \in 1..(p - 1), u[i].calls # <<>> PROVE ClosedAt(u, i)
    <2>1. i \in 1..Len(t)
      BY <1>3, <1>4
    <2>2. u[i] = t[i] /\ (ClosedAt(t, i) => ClosedAt(u, i))
      BY <2>1, AppendAt
    <2> QED BY <1>3, <1>6, <2>2, Zenon
  <1> HIDE DEF u, left, n
  <1>7. p \in 1..Len(u) /\ n = Len(u) - p + Len(left)
    BY <1>2, <1>3, <1>4
  <1>8. ASSUME NEW j \in 1..(Len(u) - p)
        PROVE  u[p + j].role = "tool" /\ u[p + j].calls = <<>> /\ u[p + j].callId = u[p].calls[j].id
    <2>1. CASE j \in 1..done
      <3>1. p + j \in 1..Len(t)
        BY <1>3, <1>4, <2>1
      <3> HIDE DEF done
      <3> QED BY <1>3, <1>4, <1>5, <2>1, <3>1, Zenon
    <2>2. CASE j \notin 1..done
      <3>0. p \in 1..Len(t) /\ Len(t) \in Nat /\ Len(u) = Len(t) + 1 /\ Len(rest) \in Nat \ {0}
        BY <1>2, <1>3, <1>4
      <3>1. p + j = Len(t) + 1 /\ j = done + 1 /\ 1 \in 1..Len(rest)
        BY <3>0, <2>2
      <3> HIDE DEF done
      <3>2. rest[1] = t[p].calls[j] /\ u[p + j] = m
        BY <1>3, <1>4, <3>1, Zenon
      <3> QED BY <1>5, <3>2, Zenon
    <2> QED BY <2>1, <2>2
  <1>9. ASSUME NEW j \in 1..Len(left) PROVE left[j] = u[p].calls[Len(u) - p + j]
    <2>1. j + 1 \in 1..Len(rest) /\ Len(u) - p + j = done + (j + 1)
      BY <1>2, <1>3, <1>4
    <2> HIDE DEF done
    <2> QED BY <1>2, <1>3, <1>5, <2>1, Zenon
  <1>10. PendingAt(u, left, p)
    <2>1. Len(u[p].calls) = n
      BY <1>5 DEF n
    <2> QED BY <1>6, <1>7, <1>8, <1>9, <2>1, Zenon DEF PendingAt
  <1> QED BY <1>10 DEF Pending, u, left

\* With no call left, the exchange is complete.
LEMMA RoundCompletes ==
    ASSUME NEW t \in Seq(AnyMessage), Pending(t, <<>>)
    PROVE  Complete(t)
  <1>1. PICK p \in Nat : PendingAt(t, <<>>, p)
    BY DEF Pending
  <1> DEFINE n == Len(t[p].calls)
  <1>2. /\ p \in 1..Len(t) /\ n = Len(t) - p + Len(<<>>)
        /\ \A i \in 1..(p - 1) : t[i].calls # <<>> => ClosedAt(t, i)
        /\ \A j \in 1..(Len(t) - p) : t[p + j].role = "tool" /\ t[p + j].calls = <<>> /\ t[p + j].callId = t[p].calls[j].id
    BY <1>1 DEF PendingAt
  <1>3. Len(t) \in Nat /\ Len(<<>>) = 0
    OBVIOUS
  <1> SUFFICES ASSUME NEW i \in 1..Len(t), t[i].calls # <<>> PROVE CompleteAt(t, i)
    BY DEF Complete
  <1>4. CASE i < p
    <2>1. i \in 1..(p - 1)
      BY <1>2, <1>3, <1>4
    <2> QED BY <1>2, <2>1 DEF ClosedAt, CompleteAt
  <1>5. CASE i = p
    <2> HIDE DEF n
    <2>1. n = Len(t) - p /\ p + n = Len(t) /\ p + n <= Len(t) /\ ~(p + n < Len(t))
      BY <1>2, <1>3
    <2>2. \A j \in 1..n : t[p + j].role = "tool" /\ t[p + j].callId = t[p].calls[j].id
      BY <1>2, <2>1, Zenon
    <2> QED BY <1>5, <2>1, <2>2, Zenon DEF CompleteAt, AnswersIn, n
  <1>6. CASE i > p
    <2>1. i - p \in 1..(Len(t) - p) /\ p + (i - p) = i
      BY <1>2, <1>3, <1>6
    <2>2. t[i].calls = <<>>
      BY <1>2, <2>1, Zenon
    <2> QED BY <2>2
  <1> QED BY <1>4, <1>5, <1>6

-----------------------------------------------------------------------------
(* What the memory publishes.                                              *)

LEMMA OwnMessages ==
    ASSUME NEW C, 0 \in C, NEW summary \in Seq(Units(C))
    PROVE  /\ Label \in Units(C) /\ SystemMessage \in Messages(C)
           /\ summaryMessage(summary) \in Messages(C)
           /\ SystemMessage.calls = <<>> /\ summaryMessage(summary).calls = <<>>
  <1>1. Label \in Units(C)
    BY DEF Label, Unit, Units
  <1>2. <<Label>> \in Seq(Units(C)) /\ <<Label>> \o summary \in Seq(Units(C))
    BY <1>1, ConsFacts
  <1>3. <<>> \in Seq(CallRecord)
    OBVIOUS
  <1>4. NoCall \in CallIds
    BY DEF CallIds
  <1> HIDE DEF Units
  <1> QED BY <1>1, <1>2, <1>3, <1>4 DEF SystemMessage, summaryMessage, Message, Messages, Role

\* The summary message, if there is one.
SummaryMessages(summary) == IF summary = <<>> THEN <<>> ELSE <<summaryMessage(summary)>>

LEMMA HistoryFacts ==
    ASSUME NEW C, 0 \in C, NEW summary \in Seq(Units(C)), NEW turns \in Seq(Seq(Messages(C)))
    PROVE  /\ buildHistory(summary, turns) = (<<SystemMessage>> \o SummaryMessages(summary)) \o FlattenSeq(turns)
           /\ buildHistory(summary, turns) \in Seq(Messages(C))
           /\ <<SystemMessage>> \o SummaryMessages(summary) \in Seq(Messages(C))
           /\ SummaryMessages(summary) \in Seq(Messages(C))
           /\ FlattenSeq(turns) \in Seq(Messages(C))
  <1> DEFINE M == Messages(C)
             sm == SummaryMessages(summary)
  <1>1. SystemMessage \in M /\ summaryMessage(summary) \in M
    BY OwnMessages
  <1> HIDE DEF M
  <1>2. sm \in Seq(M)
    BY <1>1 DEF SummaryMessages
  <1>3. <<SystemMessage>> \o sm \in Seq(M)
    <2> HIDE DEF sm
    <2> QED BY <1>1, <1>2, ConsFacts
  <1>4. FlattenSeq(turns) \in Seq(M)
    BY FlattenType DEF M
  <1>5. buildHistory(summary, turns) = (<<SystemMessage>> \o sm) \o FlattenSeq(turns)
    BY Zenon DEF buildHistory, SummaryMessages
  <1>6. (<<SystemMessage>> \o sm) \o FlattenSeq(turns) \in Seq(M)
    <2> HIDE DEF sm
    <2> QED BY <1>3, <1>4, ConcatProperties
  <1> QED BY <1>2, <1>3, <1>4, <1>5, <1>6 DEF M

\* The exchanges in the history are those of its turns.
LEMMA HistoryClosed ==
    ASSUME NEW summary \in Seq(Units(Nat)), NEW turns \in Seq(Seq(AnyMessage)),
           \A i \in 1..Len(turns) : Closed(turns[i])
    PROVE  Closed(buildHistory(summary, turns))
  <1> DEFINE a == <<SystemMessage>>
             b == SummaryMessages(summary)
  <1>1. /\ SystemMessage \in AnyMessage /\ b \in Seq(AnyMessage) /\ a \o b \in Seq(AnyMessage)
        /\ FlattenSeq(turns) \in Seq(AnyMessage)
        /\ buildHistory(summary, turns) = (a \o b) \o FlattenSeq(turns)
        /\ SystemMessage.calls = <<>> /\ summaryMessage(summary).calls = <<>>
    BY HistoryFacts, OwnMessages DEF AnyMessage
  <1>2. a \in Seq(AnyMessage) /\ Closed(a)
    BY <1>1 DEF Closed
  <1>3. Closed(b)
    BY <1>1 DEF Closed, SummaryMessages
  <1> HIDE DEF a, b
  <1>4. Closed(a \o b)
    BY <1>1, <1>2, <1>3, ClosedConcat
  <1>5. Closed(FlattenSeq(turns))
    BY ClosedFlatten
  <1> QED BY <1>1, <1>4, <1>5, ClosedConcat

\* Update finds its own turns again in a history that was built from them.
LEMMA HistoryConversation ==
    ASSUME NEW m, NEW C, 0 \in C, m.summary \in Seq(Units(C)), m.turns \in Seq(Seq(Messages(C))),
           NEW now \in Seq(Messages(C))
    PROVE  conversationMessages(m, buildHistory(m.summary, m.turns) \o now) = FlattenSeq(m.turns) \o now
  <1> DEFINE M == Messages(C)
             sm == SummaryMessages(m.summary)
             flat == FlattenSeq(m.turns)
             h == buildHistory(m.summary, m.turns) \o now
             rest == Tail(h)
             own == m.summary # <<>> /\ rest # <<>> /\ rest[1] = summaryMessage(m.summary)
  <1>1. /\ SystemMessage \in M /\ summaryMessage(m.summary) \in M /\ sm \in Seq(M) /\ flat \in Seq(M)
        /\ buildHistory(m.summary, m.turns) = (<<SystemMessage>> \o sm) \o flat
        /\ <<SystemMessage>> \o sm \in Seq(M)
    BY HistoryFacts, OwnMessages
  <1>2. now \in Seq(M) /\ <<SystemMessage>> \in Seq(M)
    BY <1>1
  <1>3. conversationMessages(m, h) = IF own THEN Tail(rest) ELSE rest
    BY Zenon DEF conversationMessages
  <1>4. h = ((<<SystemMessage>> \o sm) \o flat) \o now
    BY <1>1, Zenon
  <1> HIDE DEF M, sm, flat, h
  <1>5. flat \o now \in Seq(M) /\ sm \o (flat \o now) \in Seq(M)
    BY <1>1, <1>2, ConcatProperties
  <1>6. Joined(h, SystemMessage, sm, flat, now)
    BY <1>4, Zenon DEF Joined
  <1>7. rest = sm \o (flat \o now)
    <2>1. Rest(h, sm, flat, now)
      BY <1>1, <1>2, <1>6, RestOfJoined, Zenon
    <2> QED BY <2>1, Zenon DEF Rest
  <1> HIDE DEF rest
  <1>8. CASE m.summary = <<>>
    <2>1. sm = <<>>
      BY <1>8, Zenon DEF sm, SummaryMessages
    <2>2. rest = flat \o now
      BY <1>5, <1>7, <2>1, ConcatEmptySeq
    <2> QED BY <1>3, <1>8, <2>2, Zenon DEF h, flat
  <1>9. CASE m.summary # <<>>
    <2>1. sm = <<summaryMessage(m.summary)>>
      BY <1>9, Zenon DEF sm, SummaryMessages
    <2>2. rest # <<>> /\ rest[1] = summaryMessage(m.summary) /\ Tail(rest) = flat \o now
      BY <1>1, <1>5, <1>7, <2>1, ConsFacts
    <2> QED BY <1>3, <1>9, <2>2, Zenon DEF h, flat
  <1> QED BY <1>8, <1>9

\* Room for more is room.
LEMMA FitsWithout ==
    ASSUME NEW C, 0 \in C, NEW summary \in Seq(Units(C)), NEW turns \in Seq(Seq(Messages(C))),
           NEW more \in Seq(Messages(C)), Fits(summary, turns, more)
    PROVE  Fits(summary, turns, <<>>)
  <1> DEFINE h == buildHistory(summary, turns)
  <1>1. h \in Seq(Messages(C)) /\ <<>> \in Seq(Messages(C))
    BY HistoryFacts
  <1> HIDE DEF h
  <1>2. Measure(h \o more) = Measure(h) + Measure(more) /\ h \o <<>> = h
    BY <1>1, MeasureConcat, ConcatEmptySeq
  <1>3. Measure(h) \in Nat /\ Measure(more) \in Nat /\ MaxHistory \in Nat
    BY <1>1, MeasureType, SessionAssumption
  <1>4. Measure(h \o more) <= MaxHistory
    BY DEF Fits, h
  <1>5. Measure(h \o <<>>) <= MaxHistory
    BY <1>2, <1>3, <1>4
  <1> QED BY <1>5 DEF Fits, h

LEMMA DropCountType ==
    ASSUME NEW S, NEW summary, NEW turns \in Seq(S), NEW more
    PROVE  DropCount(summary, turns, more) \in 0..Len(turns)
  <1> DEFINE D == {i \in 0..Len(turns) : i = Len(turns) \/ Fits(summary, SubSeq(turns, i + 1, Len(turns)), more)}
  <1>1. Len(turns) \in Nat /\ Len(turns) \in 0..Len(turns)
    BY LenProperties
  <1>2. D \subseteq Nat /\ D \subseteq 0..Len(turns) /\ Len(turns) \in D
    BY <1>1
  <1>3. DropCount(summary, turns, more) = Min(D)
    BY Zenon DEF DropCount
  <1> HIDE DEF D
  <1>4. Min(D) \in D
    BY <1>2, MinOfNaturals
  <1> QED BY <1>2, <1>3, <1>4, Zenon

LEMMA KeptDropped ==
    ASSUME NEW S, NEW turns \in Seq(Seq(S)), NEW n \in 0..Len(turns)
    PROVE  /\ Kept(turns, n) \in Seq(Seq(S)) /\ Len(Kept(turns, n)) = Len(turns) - n
           /\ \A i \in 1..(Len(turns) - n) : Kept(turns, n)[i] = turns[n + i]
           /\ Dropped(turns, n) \in Seq(S)
           /\ Kept(turns, 0) = turns
  <1>1. Len(turns) \in Nat /\ n \in Nat /\ n <= Len(turns) /\ 0 \in Nat /\ 0 <= n /\ 0 + 1 = 1
    BY LenProperties
  <1> DEFINE L == Len(turns)
             T == Seq(S)
  <1> HIDE DEF T
  <1>2. turns \in Seq(T)
    BY DEF T
  <1>3. /\ SubSeq(turns, n + 1, L) \in Seq(T) /\ Len(SubSeq(turns, n + 1, L)) = L - n
        /\ \A i \in 1..(L - n) : SubSeq(turns, n + 1, L)[i] = turns[n + i]
    BY <1>1, <1>2, SubSeqFacts
  <1>4. SubSeq(turns, 0 + 1, n) \in Seq(T)
    BY <1>1, <1>2, SubSeqFacts
  <1>5. FlattenSeq(SubSeq(turns, 1, n)) \in Seq(S)
    BY <1>1, <1>4, FlattenType DEF T
  <1>6. SubSeq(turns, 0 + 1, L) = turns
    BY <1>1, <1>2, SubSeqFull
  <1> QED BY <1>3, <1>5, <1>6, Zenon DEF Kept, Dropped, T

\* A summary speaks of what it was made from, and is short enough.
LEMMA SummaryPartType ==
    ASSUME NEW C, 0 \in C, NEW m \in Messages(C)
    PROVE  SummaryPart(m) \in Seq(Units(C))
  <1> DEFINE named == {i \in DOMAIN m.calls : m.calls[i].name # ""}
             names == Cardinality(named)
             content == IF names = 0 THEN m.text ELSE [i \in 1..names |-> Label]
  <1>1. m.calls \in Seq(CallRecord) /\ m.text \in Seq(Units(C))
    BY DEF Messages
  <1>2. Label \in Units(C)
    BY DEF Label, Unit, Units
  <1>3. names \in Nat
    <2>1. DOMAIN m.calls = 1..Len(m.calls) /\ Len(m.calls) \in Nat
      BY <1>1, LenProperties
    <2>2. IsFiniteSet(1..Len(m.calls)) /\ named \subseteq 1..Len(m.calls)
      <3>1. named \subseteq 1..Len(m.calls)
        BY <2>1
      <3>2. 1 \in Int /\ Len(m.calls) \in Int
        BY <2>1
      <3> HIDE DEF named
      <3> QED BY <3>1, <3>2, FS_Interval
    <2>3. IsFiniteSet(named)
      <3> HIDE DEF named
      <3> QED BY <2>2, FS_Subset
    <2> HIDE DEF named
    <2> QED BY <2>3, FS_CardinalityType
  <1> HIDE DEF names
  <1>4. [i \in 1..names |-> Label] \in Seq(Units(C))
    BY <1>2, <1>3
  <1>5. content \in Seq(Units(C))
    BY <1>1, <1>4, Zenon
  <1>6. SummaryPart(m) = IF content = <<>> THEN <<>> ELSE <<Label>> \o content
    BY Zenon DEF SummaryPart, names
  <1> HIDE DEF content
  <1>7. <<Label>> \o content \in Seq(Units(C)) /\ <<>> \in Seq(Units(C))
    BY <1>2, <1>5, ConsFacts, EmptySeq
  <1> QED BY <1>6, <1>7, Zenon

LEMMA SummarizeType ==
    ASSUME NEW C, 0 \in C, NEW previous \in Seq(Units(C)), NEW dropped \in Seq(Messages(C))
    PROVE  Summarize(previous, dropped) \in Seq(Units(C)) /\ Len(Summarize(previous, dropped)) <= MaxSummary
  <1> DEFINE U == Units(C)
             old == IF previous = <<>> THEN <<>> ELSE <<Label>> \o previous
             parts == [i \in DOMAIN dropped |-> SummaryPart(dropped[i])]
             text == old \o FlattenSeq(parts)
  <1>1. Label \in U
    BY DEF Label, Unit, Units
  <1>2. DOMAIN dropped = 1..Len(dropped) /\ Len(dropped) \in Nat /\ \A i \in 1..Len(dropped) : dropped[i] \in Messages(C)
    BY LenProperties, ElementOfSeq
  <1>3. \A i \in 1..Len(dropped) : SummaryPart(dropped[i]) \in Seq(U)
    BY <1>2, SummaryPartType
  <1> HIDE DEF U
  <1>4. parts \in Seq(Seq(U))
    <2> DEFINE T == Seq(U)
    <2> HIDE DEF T
    <2>1. \A i \in 1..Len(dropped) : SummaryPart(dropped[i]) \in T
      BY <1>3 DEF T
    <2>2. parts \in Seq(T)
      BY <1>2, <2>1
    <2> QED BY <2>2 DEF T
  <1>5. previous \in Seq(U)
    BY DEF U
  <1>6. old \in Seq(U)
    <2>1. <<Label>> \o previous \in Seq(U) /\ <<>> \in Seq(U)
      BY <1>1, <1>5, ConsFacts, EmptySeq
    <2> QED BY <2>1, Zenon
  <1> HIDE DEF old, parts
  <1>7. text \in Seq(U)
    BY <1>4, <1>6, FlattenType, ConcatProperties
  <1>8. Summarize(previous, dropped) = truncateUTF8(text, MaxSummary)
    BY Zenon DEF Summarize, old, parts
  <1> HIDE DEF text
  <1>9. MaxSummary \in Nat /\ Len(text) \in Nat
    BY <1>7, SessionAssumption
  <1>10. truncateUTF8(text, MaxSummary) = IF Len(text) <= MaxSummary THEN text ELSE SubSeq(text, 1, MaxSummary)
    BY DEF truncateUTF8
  <1>11. ASSUME ~(Len(text) <= MaxSummary)
         PROVE  SubSeq(text, 1, MaxSummary) \in Seq(U) /\ Len(SubSeq(text, 1, MaxSummary)) <= MaxSummary
    <2>1. 0 \in Nat /\ 0 + 1 = 1 /\ 0 <= MaxSummary /\ MaxSummary <= Len(text) /\ MaxSummary - 0 = MaxSummary
      BY <1>9, <1>11
    <2>2. SubSeq(text, 0 + 1, MaxSummary) \in Seq(U) /\ Len(SubSeq(text, 0 + 1, MaxSummary)) = MaxSummary - 0
      BY <1>7, <1>9, <2>1, SubSeqFacts
    <2>3. MaxSummary <= MaxSummary
      BY <1>9
    <2> QED BY <2>1, <2>2, <2>3, Zenon
  <1> QED BY <1>7, <1>8, <1>10, <1>11, Zenon DEF U

\* What Prepare and Update leave when they succeed: the latest turns, all of them
\* whole, and a summary, that fit together.
Compacted(r, turns, C, more) ==
    /\ r.mem.summary \in Seq(Units(C)) /\ Len(r.mem.summary) <= MaxSummary
    /\ \E n \in 0..Len(turns) : r.mem.turns = Kept(turns, n)
    /\ Fits(r.mem.summary, r.mem.turns, more)
    /\ r.history = buildHistory(r.mem.summary, r.mem.turns)

LEMMA PublishCompacts ==
    ASSUME NEW m, NEW C, NEW summary \in Seq(Units(C)), Len(summary) <= MaxSummary,
           NEW turns, NEW n \in 0..Len(turns), NEW more,
           NEW r, r = Publish(m, summary, Kept(turns, n), more)
    PROVE  r.err \in {"ok", "budget_exceeded"} /\ (r.err = "ok" => Compacted(r, turns, C, more))
  <1>1. CASE Fits(summary, Kept(turns, n), more)
    <2>1. r = Outcome("ok", [summary |-> summary, turns |-> Kept(turns, n)], buildHistory(summary, Kept(turns, n)))
      BY <1>1, Zenon DEF Publish
    <2>2. r.err = "ok" /\ r.mem.summary = summary /\ r.mem.turns = Kept(turns, n)
          /\ r.history = buildHistory(summary, Kept(turns, n))
      BY <2>1 DEF Outcome
    <2> QED BY <1>1, <2>2, Zenon DEF Compacted
  <1>2. CASE ~Fits(summary, Kept(turns, n), more)
    <2>1. r = Outcome("budget_exceeded", m, <<>>)
      BY <1>2, Zenon DEF Publish
    <2>2. r.err = "budget_exceeded"
      BY <2>1 DEF Outcome
    <2> QED BY <2>2
  <1> QED BY <1>1, <1>2

LEMMA UpdateCompacts ==
    ASSUME NEW m, NEW C, 0 \in C, m.summary \in Seq(Units(C)), Len(m.summary) <= MaxSummary,
           NEW turns \in Seq(Seq(Messages(C))), NEW r, r = UpdateTurns(m, turns)
    PROVE  r.err \in {"ok", "budget_exceeded"} /\ (r.err = "ok" => Compacted(r, turns, C, <<>>))
  <1> DEFINE n == IF Fits(m.summary, turns, <<>>) THEN 0 ELSE DropCount(ReservedSummary, turns, <<>>)
             summary == IF n = 0 THEN m.summary ELSE Summarize(m.summary, Dropped(turns, n))
  <1>1. r = Publish(m, summary, Kept(turns, n), <<>>)
    BY Zenon DEF UpdateTurns
  <1>2. n \in 0..Len(turns)
    <2>1. 0 \in 0..Len(turns)
      BY LenProperties
    <2>2. DropCount(ReservedSummary, turns, <<>>) \in 0..Len(turns)
      BY DropCountType
    <2> QED BY <2>1, <2>2, Zenon
  <1> HIDE DEF n
  <1>3. Dropped(turns, n) \in Seq(Messages(C))
    BY <1>2, KeptDropped
  <1>4. Summarize(m.summary, Dropped(turns, n)) \in Seq(Units(C)) /\ Len(Summarize(m.summary, Dropped(turns, n))) <= MaxSummary
    BY <1>3, SummarizeType
  <1>5. summary \in Seq(Units(C)) /\ Len(summary) <= MaxSummary
    BY <1>4, Zenon
  <1> HIDE DEF summary
  <1> QED BY <1>1, <1>2, <1>5, PublishCompacts

LEMMA PrepareCompacts ==
    ASSUME NEW m, NEW C, 0 \in C, m.summary \in Seq(Units(C)), Len(m.summary) <= MaxSummary,
           m.turns \in Seq(Seq(Messages(C))), NEW text, NEW r, r = Prepare(m, text)
    PROVE  /\ r.err \in {"ok", "budget_exceeded"}
           /\ r.err = "ok" => Compacted(r, m.turns, C, <<Message("user", text, <<>>, NoCall)>>)
  <1> DEFINE user == <<Message("user", text, <<>>, NoCall)>>
             n == DropCount(ReservedSummary, m.turns, user)
             room == Fits(ReservedSummary, Kept(m.turns, n), user)
             summary == CASE ~room -> <<>>
                          [] room /\ n = 0 -> m.summary
                          [] room /\ n > 0 -> Summarize(m.summary, Dropped(m.turns, n))
  <1>1. r = IF Fits(m.summary, m.turns, user)
            THEN Outcome("ok", m, buildHistory(m.summary, m.turns))
            ELSE Publish(m, summary, Kept(m.turns, n), user)
    BY Zenon DEF Prepare
  <1>2. n \in 0..Len(m.turns)
    BY DropCountType
  <1> HIDE DEF n, user, room
  <1>3. Dropped(m.turns, n) \in Seq(Messages(C)) /\ Kept(m.turns, 0) = m.turns
    BY <1>2, KeptDropped
  <1>4. Summarize(m.summary, Dropped(m.turns, n)) \in Seq(Units(C))
        /\ Len(Summarize(m.summary, Dropped(m.turns, n))) <= MaxSummary
    BY <1>3, SummarizeType
  <1>5. summary \in Seq(Units(C)) /\ Len(summary) <= MaxSummary
    <2>1. n = 0 \/ n > 0
      BY <1>2, LenProperties
    <2>2. <<>> \in Seq(Units(C)) /\ Len(<<>>) <= MaxSummary
      BY SessionAssumption
    <2>3. summary \in {<<>>, m.summary, Summarize(m.summary, Dropped(m.turns, n))}
      BY <2>1
    <2> HIDE DEF summary
    <2> QED BY <1>4, <2>2, <2>3, Zenon
  <1> HIDE DEF summary
  <1>6. CASE Fits(m.summary, m.turns, user)
    <2>1. r = Outcome("ok", m, buildHistory(m.summary, m.turns))
      BY <1>1, <1>6, Zenon
    <2>2. r.err = "ok" /\ r.mem = m /\ r.history = buildHistory(m.summary, m.turns)
      BY <2>1 DEF Outcome
    <2>3. 0 \in 0..Len(m.turns)
      BY LenProperties
    <2>4. Compacted(r, m.turns, C, user)
      BY <1>3, <1>6, <2>2, <2>3, Zenon DEF Compacted
    <2> QED BY <2>2, <2>4, Zenon DEF user
  <1>7. CASE ~Fits(m.summary, m.turns, user)
    <2>1. r = Publish(m, summary, Kept(m.turns, n), user)
      BY <1>1, <1>7, Zenon
    <2>2. r.err \in {"ok", "budget_exceeded"} /\ (r.err = "ok" => Compacted(r, m.turns, C, user))
      BY <1>2, <1>5, <2>1, PublishCompacts
    <2> QED BY <2>2, Zenon DEF user
  <1> QED BY <1>6, <1>7

-----------------------------------------------------------------------------
(* The memory and the turns it has accepted.                               *)

\* turns are the latest of the turns with these numbers.
Recent(turns, numbers) ==
    /\ turns \in Seq(Seq(AnyMessage)) /\ Len(turns) <= Len(numbers)
    /\ \A i \in 1..Len(turns) : Finished(turns[i], numbers[Len(numbers) - Len(turns) + i])

\* What a summary may speak of.
Known(numbers) == {numbers[i] : i \in DOMAIN numbers} \cup {0}

MemoryOf(m, numbers) ==
    /\ numbers \in Seq(1..MaxTurns)
    /\ m.summary \in Seq(Units(Known(numbers))) /\ Len(m.summary) <= MaxSummary
    /\ Recent(m.turns, numbers)
    /\ Fits(m.summary, m.turns, <<>>)

LEMMA KnownFacts ==
    ASSUME NEW numbers \in Seq(1..MaxTurns)
    PROVE  /\ 0 \in Known(numbers) /\ Known(numbers) \subseteq 0..MaxTurns /\ Known(numbers) \subseteq Nat
           /\ \A i \in 1..Len(numbers) : numbers[i] \in Known(numbers) /\ numbers[i] \in Nat
           /\ Len(numbers) \in Nat
  <1>1. DOMAIN numbers = 1..Len(numbers) /\ Len(numbers) \in Nat /\ \A i \in 1..Len(numbers) : numbers[i] \in 1..MaxTurns
    BY LenProperties, ElementOfSeq
  <1>2. MaxTurns \in Nat
    BY SessionAssumption
  <1> QED BY <1>1, <1>2 DEF Known

LEMMA RecentTyped ==
    ASSUME NEW numbers \in Seq(1..MaxTurns), NEW turns, Recent(turns, numbers)
    PROVE  /\ turns \in Seq(Seq(Messages(Known(numbers))))
           /\ \A i \in 1..Len(turns) : turns[i] \in Seq(AnyMessage) /\ OneTurn(turns[i]) /\ Closed(turns[i])
  <1> DEFINE C == Known(numbers)
             T == Seq(Messages(C))
             off == Len(numbers) - Len(turns)
  <1>1. turns \in Seq(Seq(AnyMessage)) /\ Len(turns) \in Nat /\ Len(turns) <= Len(numbers)
    BY LenProperties DEF Recent
  <1>2. ASSUME NEW i \in 1..Len(turns) PROVE turns[i] \in T /\ turns[i] \in Seq(AnyMessage) /\ OneTurn(turns[i]) /\ Closed(turns[i])
    <2>1. PICK k : k = numbers[off + i] /\ Finished(turns[i], k)
      BY DEF Recent
    <2>2. off + i \in 1..Len(numbers)
      BY <1>1, KnownFacts
    <2>3. k \in C /\ k \in Nat
      BY <2>1, <2>2, KnownFacts
    <2>4. Started(turns[i], k) /\ Closed(turns[i])
      BY <2>1 DEF Finished
    <2>5. turns[i] \in Seq(Messages({k}))
      BY <2>4 DEF Started
    <2>6. Messages({k}) \subseteq Messages(C)
      <3>1. {k} \subseteq C
        BY <2>3
      <3> HIDE DEF C
      <3> QED BY <3>1, MessagesMonotone
    <2>7. turns[i] \in T
      <3> HIDE DEF C
      <3> QED BY <2>5, <2>6, SeqMonotonic
    <2> QED BY <2>3, <2>4, <2>7, StartedType
  <1> HIDE DEF C, T
  <1>3. turns \in Seq(T)
    <2>1. turns \in [1..Len(turns) -> Seq(AnyMessage)]
      BY <1>1, LenProperties
    <2>2. turns \in [1..Len(turns) -> T]
      BY <1>2, <2>1, Zenon
    <2> QED BY <1>1, <2>2, FunctionIsSeq
  <1> QED BY <1>2, <1>3 DEF C, T

LEMMA RecentKept ==
    ASSUME NEW numbers \in Seq(1..MaxTurns), NEW turns, Recent(turns, numbers), NEW n \in 0..Len(turns)
    PROVE  Recent(Kept(turns, n), numbers)
  <1> DEFINE u == Kept(turns, n)
  <1>1. turns \in Seq(Seq(AnyMessage)) /\ Len(turns) \in Nat /\ Len(turns) <= Len(numbers) /\ Len(numbers) \in Nat
    BY LenProperties DEF Recent
  <1>2. u \in Seq(Seq(AnyMessage)) /\ Len(u) = Len(turns) - n /\ \A i \in 1..(Len(turns) - n) : u[i] = turns[n + i]
    BY <1>1, KeptDropped
  <1> HIDE DEF u
  <1>3. Len(u) <= Len(numbers)
    BY <1>1, <1>2
  <1>4. ASSUME NEW i \in 1..Len(u) PROVE Finished(u[i], numbers[Len(numbers) - Len(u) + i])
    <2>1. i \in 1..(Len(turns) - n) /\ n + i \in 1..Len(turns)
          /\ Len(numbers) - Len(u) + i = Len(numbers) - Len(turns) + (n + i)
      BY <1>1, <1>2
    <2>2. Finished(turns[n + i], numbers[Len(numbers) - Len(turns) + (n + i)])
      BY <2>1 DEF Recent
    <2> QED BY <1>2, <2>1, <2>2, Zenon
  <1> QED BY <1>2, <1>3, <1>4 DEF Recent, u

LEMMA RecentAppend ==
    ASSUME NEW numbers \in Seq(1..MaxTurns), NEW turns, Recent(turns, numbers),
           NEW k \in 1..MaxTurns, NEW t, Finished(t, k)
    PROVE  Recent(Append(turns, t), Append(numbers, k))
  <1> DEFINE u == Append(turns, t)
             c == Append(numbers, k)
  <1>0. k \in Nat
    OBVIOUS
  <1>1. turns \in Seq(Seq(AnyMessage)) /\ Len(turns) \in Nat /\ Len(turns) <= Len(numbers) /\ Len(numbers) \in Nat
    BY LenProperties DEF Recent
  <1>2. t \in Seq(AnyMessage)
    BY <1>0, StartedType DEF Finished
  <1>3. /\ u \in Seq(Seq(AnyMessage)) /\ Len(u) = Len(turns) + 1 /\ u[Len(turns) + 1] = t
        /\ \A i \in 1..Len(turns) : u[i] = turns[i]
    BY <1>1, <1>2, AppendProperties
  <1>4. Len(c) = Len(numbers) + 1 /\ c[Len(numbers) + 1] = k /\ \A i \in 1..Len(numbers) : c[i] = numbers[i]
    BY AppendProperties
  <1> HIDE DEF u, c
  <1>5. ASSUME NEW i \in 1..Len(u) PROVE Finished(u[i], c[Len(c) - Len(u) + i])
    <2>1. CASE i \in 1..Len(turns)
      <3>1. Len(c) - Len(u) + i = Len(numbers) - Len(turns) + i /\ Len(numbers) - Len(turns) + i \in 1..Len(numbers)
        BY <1>1, <1>3, <1>4, <2>1
      <3>2. Finished(turns[i], numbers[Len(numbers) - Len(turns) + i])
        BY <2>1 DEF Recent
      <3> QED BY <1>3, <1>4, <2>1, <3>1, <3>2, Zenon
    <2>2. CASE i \notin 1..Len(turns)
      <3>1. i = Len(turns) + 1 /\ Len(c) - Len(u) + i = Len(numbers) + 1
        <4>1. Len(turns) \in Nat /\ Len(u) = Len(turns) + 1 /\ Len(c) = Len(numbers) + 1 /\ Len(numbers) \in Nat
          BY <1>1, <1>3, <1>4
        <4> QED BY <2>2, <4>1
      <3> QED BY <1>3, <1>4, <3>1, Zenon
    <2> QED BY <2>1, <2>2
  <1>6. Len(u) <= Len(c)
    BY <1>1, <1>3, <1>4
  <1> QED BY <1>3, <1>5, <1>6 DEF Recent, u, c

\* The numbers of the turns are the last of the numbers.
LEMMA RecentSuffix ==
    ASSUME NEW numbers \in Seq(1..MaxTurns), NEW turns, Recent(turns, numbers)
    PROVE  IsSuffix([i \in DOMAIN turns |-> TurnNumber(turns[i])], numbers)
  <1> DEFINE n == Len(turns)
             L == Len(numbers)
             s == [i \in DOMAIN turns |-> TurnNumber(turns[i])]
             rs == Reverse(s)
             rn == Reverse(numbers)
  <1>1. turns \in Seq(Seq(AnyMessage)) /\ n \in Nat /\ n <= L /\ L \in Nat /\ DOMAIN turns = 1..n
    BY LenProperties DEF Recent
  <1>2. ASSUME NEW i \in 1..n PROVE s[i] = numbers[L - n + i] /\ numbers[L - n + i] \in 1..MaxTurns
    <2>1. PICK k : k = numbers[L - n + i] /\ Finished(turns[i], k)
      BY DEF Recent
    <2>2. L - n + i \in 1..L
      BY <1>1
    <2>3. k \in 1..MaxTurns
      BY <2>1, <2>2, ElementOfSeq
    <2>4. /\ turns[i] \in Seq(Messages({k})) /\ turns[i] # <<>> /\ turns[i][1].text # <<>>
      BY <2>1 DEF Finished, Started
    <2>5. turns[i][1] \in Messages({k})
      BY <2>4, EmptySeq, ElementOfSeq
    <2>6. turns[i][1].text \in Seq(Units({k}))
      BY <2>5 DEF Messages
    <2>7. turns[i][1].text[1] \in Units({k})
      BY <2>4, <2>6, EmptySeq, ElementOfSeq
    <2>8. turns[i][1].text[1].of = k
      BY <2>7 DEF Units
    <2>9. s[i] = turns[i][1].text[1].of
      BY <1>1, Zenon DEF TurnNumber
    <2> QED BY <2>1, <2>3, <2>8, <2>9, Zenon
  <1>3. s = [i \in 1..n |-> TurnNumber(turns[i])]
    BY <1>1, Zenon
  <1> HIDE DEF s
  <1>4. s \in Seq(1..MaxTurns) /\ Len(s) = n
    <2>1. \A i \in 1..n : s[i] \in 1..MaxTurns
      BY <1>2, Zenon
    <2>2. s \in [1..n -> 1..MaxTurns]
      BY <1>3, <2>1, Zenon
    <2> QED BY <1>1, <2>2, FunctionIsSeq
  <1> HIDE DEF n, L
  <1>5. /\ rs = [i \in 1..n |-> s[(n - i) + 1]] /\ rn = [i \in 1..L |-> numbers[(L - i) + 1]]
    BY <1>4, Zenon DEF Reverse, L
  <1> HIDE DEF rs, rn
  <1>6. ASSUME NEW i \in 1..n PROVE rs[i] = rn[i] /\ rs[i] \in 1..MaxTurns
    <2>1. (n - i) + 1 \in 1..n /\ L - n + ((n - i) + 1) = (L - i) + 1 /\ i \in 1..L
      BY <1>1
    <2>2. s[(n - i) + 1] = numbers[(L - i) + 1] /\ s[(n - i) + 1] \in 1..MaxTurns
      <3>1. PICK x \in 1..n : x = (n - i) + 1 /\ L - n + x = (L - i) + 1
        BY <2>1
      <3>2. s[x] = numbers[L - n + x] /\ numbers[L - n + x] \in 1..MaxTurns
        BY <1>2
      <3> QED BY <3>1, <3>2, Zenon
    <2> QED BY <1>5, <2>1, <2>2, Zenon
  <1>7. rs \in Seq(1..MaxTurns) /\ Len(rs) = n /\ Len(rn) = L
    <2>1. \A i \in 1..n : s[(n - i) + 1] \in 1..MaxTurns
      BY <1>5, <1>6, Zenon
    <2> QED BY <1>1, <1>5, <2>1
  <1>8. SubSeq(rs, 1, n) = SubSeq(rn, 1, n)
    BY <1>1, <1>6, <1>7
  <1>9. Len(rs) <= Len(rn) /\ SubSeq(rs, 1, Len(rs)) = SubSeq(rn, 1, Len(rs))
    BY <1>1, <1>7, <1>8
  <1>10. IsPrefix(rs, rn)
    BY <1>9, Zenon DEF IsPrefix
  <1> QED BY <1>10, Zenon DEF IsSuffix, rs, rn, s

-----------------------------------------------------------------------------
(* Prepare and Update keep the memory to what was committed.               *)

LEMMA MemoryTyped ==
    ASSUME NEW m, NEW numbers, MemoryOf(m, numbers)
    PROVE  /\ numbers \in Seq(1..MaxTurns) /\ 0 \in Known(numbers)
           /\ m.summary \in Seq(Units(Known(numbers))) /\ m.summary \in Seq(Units(Nat))
           /\ Len(m.summary) <= MaxSummary
           /\ m.turns \in Seq(Seq(Messages(Known(numbers)))) /\ m.turns \in Seq(Seq(AnyMessage))
           /\ \A i \in 1..Len(m.turns) : OneTurn(m.turns[i]) /\ Closed(m.turns[i])
           /\ buildHistory(m.summary, m.turns) \in Seq(AnyMessage)
           /\ Closed(buildHistory(m.summary, m.turns))
  <1>1. /\ numbers \in Seq(1..MaxTurns) /\ m.summary \in Seq(Units(Known(numbers)))
        /\ Len(m.summary) <= MaxSummary /\ Recent(m.turns, numbers)
    BY DEF MemoryOf
  <1>2. 0 \in Known(numbers) /\ Known(numbers) \subseteq Nat
    BY <1>1, KnownFacts
  <1>3. m.summary \in Seq(Units(Nat))
    <2>1. Units(Known(numbers)) \subseteq Units(Nat)
      BY <1>2, MessagesMonotone
    <2> QED BY <1>1, <2>1, SeqMonotonic
  <1>4. m.turns \in Seq(Seq(Messages(Known(numbers))))
        /\ \A i \in 1..Len(m.turns) : OneTurn(m.turns[i]) /\ Closed(m.turns[i])
    BY <1>1, RecentTyped
  <1>5. m.turns \in Seq(Seq(AnyMessage))
    BY <1>1 DEF Recent
  <1>6. buildHistory(m.summary, m.turns) \in Seq(AnyMessage)
    <2>1. 0 \in Nat /\ m.turns \in Seq(Seq(Messages(Nat)))
      BY <1>5 DEF AnyMessage
    <2> QED BY <1>3, <2>1, HistoryFacts DEF AnyMessage
  <1>7. Closed(buildHistory(m.summary, m.turns))
    BY <1>3, <1>4, <1>5, HistoryClosed
  <1> QED BY <1>1, <1>2, <1>3, <1>4, <1>5, <1>6, <1>7

\* A compacted memory is a memory of the same turns.
LEMMA CompactedMemory ==
    ASSUME NEW numbers \in Seq(1..MaxTurns), NEW turns, Recent(turns, numbers),
           NEW r, NEW more \in Seq(AnyMessage), Compacted(r, turns, Known(numbers), more)
    PROVE  MemoryOf(r.mem, numbers)
  <1>1. PICK n \in 0..Len(turns) : r.mem.turns = Kept(turns, n)
    BY DEF Compacted
  <1>2. Recent(Kept(turns, n), numbers)
    BY RecentKept
  <1>3. Recent(r.mem.turns, numbers)
    BY <1>1, <1>2, Zenon
  <1>4. r.mem.summary \in Seq(Units(Known(numbers))) /\ Len(r.mem.summary) <= MaxSummary
        /\ Fits(r.mem.summary, r.mem.turns, more)
    BY DEF Compacted
  <1>5. r.mem.summary \in Seq(Units(Nat)) /\ r.mem.turns \in Seq(Seq(AnyMessage))
    <2>1. Known(numbers) \subseteq Nat
      BY KnownFacts
    <2>2. Units(Known(numbers)) \subseteq Units(Nat)
      BY <2>1, MessagesMonotone
    <2>3. r.mem.summary \in Seq(Units(Nat))
      BY <1>4, <2>2, SeqMonotonic
    <2> QED BY <1>3, <2>3 DEF Recent
  <1>6. Fits(r.mem.summary, r.mem.turns, <<>>)
    <2>1. 0 \in Nat /\ r.mem.turns \in Seq(Seq(Messages(Nat))) /\ more \in Seq(Messages(Nat))
      BY <1>5 DEF AnyMessage
    <2> QED BY <1>4, <1>5, <2>1, FitsWithout
  <1> QED BY <1>3, <1>4, <1>6 DEF MemoryOf

UserMessage(text) == Message("user", text, <<>>, NoCall)

LEMMA MessageTyped ==
    ASSUME NEW C, NEW role \in Role, NEW text \in Seq(Units(C)),
           NEW batch \in Seq(CallRecord), NEW id \in CallIds
    PROVE  /\ Message(role, text, batch, id) \in Messages(C)
           /\ Message(role, text, batch, id).role = role /\ Message(role, text, batch, id).calls = batch
           /\ Message(role, text, batch, id).callId = id /\ Message(role, text, batch, id).text = text
  <1> DEFINE T == Seq(Units(C))
             B == Seq(CallRecord)
  <1> HIDE DEF T, B
  <1>1. text \in T /\ batch \in B /\ Messages(C) = [role : Role, text : T, calls : B, callId : CallIds]
    BY Zenon DEF T, B, Messages
  <1> QED BY <1>1 DEF Message

LEMMA UserMessageTyped ==
    ASSUME NEW k \in Nat, NEW text \in Seq(Units({k}))
    PROVE  UserMessage(text) \in AnyMessage
  <1>1. Units({k}) \subseteq Units(Nat)
    BY MessagesMonotone
  <1>2. text \in Seq(Units(Nat))
    BY <1>1, SeqMonotonic
  <1>3. "user" \in Role /\ <<>> \in Seq(CallRecord) /\ NoCall \in CallIds
    BY EmptySeq DEF Role, CallIds
  <1> QED BY <1>2, <1>3, MessageTyped DEF UserMessage, AnyMessage

LEMMA PrepareRemembers ==
    ASSUME NEW m, NEW numbers, MemoryOf(m, numbers), NEW k \in Nat, NEW text \in Seq(Units({k})),
           NEW r, r = Prepare(m, text)
    PROVE  /\ r.err \in {"ok", "budget_exceeded"}
           /\ r.err = "ok" =>
                /\ MemoryOf(r.mem, numbers)
                /\ r.history = buildHistory(r.mem.summary, r.mem.turns)
                /\ Measure(r.history \o <<UserMessage(text)>>) <= MaxHistory
  <1> DEFINE C == Known(numbers)
             more == <<UserMessage(text)>>
  <1>1. /\ numbers \in Seq(1..MaxTurns) /\ 0 \in C /\ m.summary \in Seq(Units(C)) /\ Len(m.summary) <= MaxSummary
        /\ m.turns \in Seq(Seq(Messages(C)))
    BY MemoryTyped
  <1>2. Recent(m.turns, numbers)
    BY DEF MemoryOf
  <1> HIDE DEF C
  <1>3. r.err \in {"ok", "budget_exceeded"} /\ (r.err = "ok" => Compacted(r, m.turns, C, more))
    BY <1>1, PrepareCompacts DEF UserMessage
  <1>4. more \in Seq(AnyMessage)
    <2>1. UserMessage(text) \in AnyMessage
      BY UserMessageTyped
    <2> QED BY <2>1
  <1> HIDE DEF more
  <1>5. ASSUME r.err = "ok" PROVE MemoryOf(r.mem, numbers)
    BY <1>1, <1>2, <1>3, <1>4, <1>5, CompactedMemory DEF C
  <1>6. ASSUME r.err = "ok"
        PROVE  r.history = buildHistory(r.mem.summary, r.mem.turns) /\ Measure(r.history \o more) <= MaxHistory
    <2>1. r.history = buildHistory(r.mem.summary, r.mem.turns) /\ Fits(r.mem.summary, r.mem.turns, more)
      BY <1>3, <1>6, Zenon DEF Compacted
    <2> QED BY <2>1, Zenon DEF Fits
  <1> QED BY <1>3, <1>5, <1>6, Zenon DEF more

LEMMA UpdateRemembers ==
    ASSUME NEW m, NEW numbers, MemoryOf(m, numbers), NEW k \in 1..MaxTurns, NEW now, Finished(now, k),
           NEW r, r = Update(m, buildHistory(m.summary, m.turns) \o now)
    PROVE  /\ r.err \in {"ok", "budget_exceeded", "invalid_history"}
           /\ r.err = "ok" => MemoryOf(r.mem, Append(numbers, k))
  <1> DEFINE h == buildHistory(m.summary, m.turns) \o now
             turns == Append(m.turns, now)
             c == Append(numbers, k)
             C == Known(c)
  <1>1. CASE ~ValidHistory(m, h)
    <2>1. r = Outcome("invalid_history", m, <<>>)
      BY <1>1, Zenon DEF Update
    <2>2. r.err = "invalid_history"
      BY <2>1 DEF Outcome
    <2> QED BY <2>2
  <1>2. CASE ValidHistory(m, h)
    <2>1. r = UpdateTurns(m, splitTurns(conversationMessages(m, h)))
      BY <1>2, Zenon DEF Update
    <2>2. k \in Nat /\ now \in Seq(AnyMessage) /\ OneTurn(now)
      <3>1. k \in Nat /\ Started(now, k)
        BY DEF Finished
      <3> QED BY <3>1, StartedType
    <2>3. /\ numbers \in Seq(1..MaxTurns) /\ m.summary \in Seq(Units(Nat)) /\ m.summary \in Seq(Units(Known(numbers)))
          /\ Len(m.summary) <= MaxSummary
          /\ m.turns \in Seq(Seq(AnyMessage)) /\ \A i \in 1..Len(m.turns) : OneTurn(m.turns[i])
      BY MemoryTyped
    <2>4. conversationMessages(m, h) = FlattenSeq(m.turns) \o now
      <3>1. 0 \in Nat /\ m.turns \in Seq(Seq(Messages(Nat))) /\ now \in Seq(Messages(Nat))
        BY <2>2, <2>3 DEF AnyMessage
      <3> QED BY <2>3, <3>1, HistoryConversation
    <2>5. splitTurns(FlattenSeq(m.turns) \o now) = turns
      <3>1. FlattenSeq(m.turns) \in Seq(AnyMessage)
        BY <2>3, FlattenType
      <3>2. splitTurns(FlattenSeq(m.turns)) = m.turns
        BY <2>3, SplitFlatten
      <3> QED BY <2>2, <3>1, <3>2, SplitTurn
    <2>6. r = UpdateTurns(m, turns)
      BY <2>1, <2>4, <2>5, Zenon
    <2>7. c \in Seq(1..MaxTurns)
      BY <2>3, AppendProperties
    <2>8. Recent(turns, c)
      BY <2>3, RecentAppend DEF MemoryOf
    <2>9. m.summary \in Seq(Units(C))
      <3>1. Known(numbers) \subseteq C
        <4>1. DOMAIN numbers = 1..Len(numbers) /\ DOMAIN c = 1..(Len(numbers) + 1) /\ Len(numbers) \in Nat
              /\ \A i \in 1..Len(numbers) : c[i] = numbers[i]
          BY <2>3, <2>7, LenProperties, AppendProperties
        <4> HIDE DEF c
        <4> QED BY <4>1 DEF Known
      <3> HIDE DEF C
      <3>2. Units(Known(numbers)) \subseteq Units(C)
        BY <3>1, MessagesMonotone
      <3> QED BY <2>3, <3>2, SeqMonotonic
    <2> HIDE DEF turns, c
    <2>10. turns \in Seq(Seq(Messages(C))) /\ 0 \in C
      BY <2>7, <2>8, RecentTyped, KnownFacts
    <2>11. r.err \in {"ok", "budget_exceeded"} /\ (r.err = "ok" => Compacted(r, turns, C, <<>>))
      <3> HIDE DEF C
      <3> QED BY <2>3, <2>6, <2>9, <2>10, UpdateCompacts
    <2>12. <<>> \in Seq(AnyMessage)
      BY EmptySeq
    <2>13. r.err = "ok" => MemoryOf(r.mem, c)
      BY <2>7, <2>8, <2>11, <2>12, CompactedMemory
    <2> QED BY <2>11, <2>13, Zenon DEF c
  <1> QED BY <1>1, <1>2

-----------------------------------------------------------------------------
(* Where the agent loop is in its turn.                                    *)

\* The history ends with turn k: ready for the model, with calls left to run, or
\* with the reply.
Asking(m, k, h) ==
    \E now : h = buildHistory(m.summary, m.turns) \o now /\ Started(now, k) /\ Complete(now)

Calling(m, k, h, rest) ==
    \E now : h = buildHistory(m.summary, m.turns) \o now /\ Started(now, k) /\ Pending(now, rest)

Replied(m, k, h) ==
    \E now : h = buildHistory(m.summary, m.turns) \o now /\ Finished(now, k)

LEMMA FirstPrompt ==
    ASSUME NEW m, NEW numbers, MemoryOf(m, numbers), NEW k \in Nat,
           NEW text \in Seq(Units({k})), text # <<>>
    PROVE  Asking(m, k, Append(buildHistory(m.summary, m.turns), UserMessage(text)))
  <1> DEFINE now == <<UserMessage(text)>>
             h == buildHistory(m.summary, m.turns)
  <1>1. "user" \in Role /\ <<>> \in Seq(CallRecord) /\ NoCall \in CallIds
    BY EmptySeq DEF Role, CallIds
  <1>2. /\ UserMessage(text) \in Messages({k}) /\ UserMessage(text).role = "user"
        /\ UserMessage(text).calls = <<>> /\ UserMessage(text).text = text
    <2> DEFINE C == {k}
    <2> HIDE DEF C
    <2>1. text \in Seq(Units(C))
      BY DEF C
    <2>2. UserMessage(text) \in Messages(C)
      BY <1>1, <2>1, MessageTyped DEF UserMessage
    <2> QED BY <2>2 DEF C, UserMessage, Message
  <1>3. now \in Seq(Messages({k})) /\ now # <<>> /\ Len(now) = 1 /\ now[1] = UserMessage(text)
    BY <1>2
  <1>4. Started(now, k)
    <2> HIDE DEF now
    <2> QED BY <1>2, <1>3 DEF Started
  <1>5. Complete(now)
    <2> HIDE DEF now
    <2> QED BY <1>2, <1>3 DEF Complete
  <1>6. h \in Seq(AnyMessage) /\ UserMessage(text) \in AnyMessage
    <2>1. Messages({k}) \subseteq AnyMessage
      BY MessagesMonotone DEF AnyMessage
    <2> QED BY <1>2, <2>1, MemoryTyped
  <1>7. Append(h, UserMessage(text)) = h \o now
    <2> HIDE DEF h
    <2> QED BY <1>6, AppendIsConcat
  <1> HIDE DEF now
  <1> QED BY <1>4, <1>5, <1>7, Zenon DEF Asking

\* A message behind the running turn stays behind the remembered history.
Grows(m, k, now, msg) ==
    /\ now \in Seq(AnyMessage) /\ msg \in AnyMessage
    /\ Append(buildHistory(m.summary, m.turns) \o now, msg)
         = buildHistory(m.summary, m.turns) \o Append(now, msg)
    /\ Started(Append(now, msg), k) /\ Last(Append(now, msg)) = msg

LEMMA GrowsByAppend ==
    ASSUME NEW m, NEW numbers, MemoryOf(m, numbers), NEW k \in Nat, NEW now, Started(now, k),
           NEW msg \in Messages({k}), msg.role \in {"assistant", "tool"}
    PROVE  Grows(m, k, now, msg)
  <1> DEFINE h == buildHistory(m.summary, m.turns)
  <1>1. h \in Seq(AnyMessage)
    BY MemoryTyped
  <1>2. now \in Seq(AnyMessage)
    BY StartedType
  <1>3. msg \in AnyMessage
    <2>1. Messages({k}) \subseteq AnyMessage
      BY MessagesMonotone DEF AnyMessage
    <2> QED BY <2>1
  <1> HIDE DEF h
  <1>4. h \o Append(now, msg) = Append(h \o now, msg)
    BY <1>1, <1>2, <1>3, ConcatAppend
  <1>5. Started(Append(now, msg), k) /\ Last(Append(now, msg)) = msg
    BY StartedAppend
  <1> QED BY <1>2, <1>3, <1>4, <1>5, Zenon DEF h, Grows

LEMMA AskingReplied ==
    ASSUME NEW m, NEW numbers, MemoryOf(m, numbers), NEW k \in Nat, NEW h, Asking(m, k, h),
           NEW msg \in Messages({k}), msg.role = "assistant", msg.calls = <<>>
    PROVE  Replied(m, k, Append(h, msg))
  <1>1. PICK now : h = buildHistory(m.summary, m.turns) \o now /\ Started(now, k) /\ Complete(now)
    BY DEF Asking
  <1>2. /\ now \in Seq(AnyMessage) /\ msg \in AnyMessage
        /\ Append(h, msg) = buildHistory(m.summary, m.turns) \o Append(now, msg)
        /\ Started(Append(now, msg), k) /\ Last(Append(now, msg)) = msg
    <2>1. msg.role \in {"assistant", "tool"} /\ Started(now, k)
      BY <1>1
    <2>2. Grows(m, k, now, msg)
      BY <2>1, GrowsByAppend, Zenon
    <2> QED BY <1>1, <2>2, Zenon DEF Grows
  <1>3. Closed(Append(now, msg))
    BY <1>1, <1>2, ReplyCloses
  <1>4. Finished(Append(now, msg), k)
    BY <1>2, <1>3, Zenon DEF Finished
  <1> QED BY <1>2, <1>4, Zenon DEF Replied

LEMMA AskingCalls ==
    ASSUME NEW m, NEW numbers, MemoryOf(m, numbers), NEW k \in Nat, NEW h, Asking(m, k, h),
           NEW msg \in Messages({k}), msg.role = "assistant"
    PROVE  Calling(m, k, Append(h, msg), msg.calls)
  <1>1. PICK now : h = buildHistory(m.summary, m.turns) \o now /\ Started(now, k) /\ Complete(now)
    BY DEF Asking
  <1>2. /\ now \in Seq(AnyMessage) /\ msg \in AnyMessage
        /\ Append(h, msg) = buildHistory(m.summary, m.turns) \o Append(now, msg)
        /\ Started(Append(now, msg), k)
    <2>1. msg.role \in {"assistant", "tool"} /\ Started(now, k)
      BY <1>1
    <2>2. Grows(m, k, now, msg)
      BY <2>1, GrowsByAppend, Zenon
    <2> QED BY <1>1, <2>2, Zenon DEF Grows
  <1>3. Pending(Append(now, msg), msg.calls)
    BY <1>1, <1>2, CallsOpen
  <1> QED BY <1>2, <1>3, Zenon DEF Calling

LEMMA CallingResult ==
    ASSUME NEW m, NEW numbers, MemoryOf(m, numbers), NEW k \in Nat, NEW h,
           NEW rest \in Seq(CallRecord), rest # <<>>, Calling(m, k, h, rest),
           NEW msg \in Messages({k}), msg.role = "tool", msg.calls = <<>>, msg.callId = rest[1].id
    PROVE  Calling(m, k, Append(h, msg), Tail(rest))
  <1>1. PICK now : h = buildHistory(m.summary, m.turns) \o now /\ Started(now, k) /\ Pending(now, rest)
    BY DEF Calling
  <1>2. /\ now \in Seq(AnyMessage) /\ msg \in AnyMessage
        /\ Append(h, msg) = buildHistory(m.summary, m.turns) \o Append(now, msg)
        /\ Started(Append(now, msg), k)
    <2>1. msg.role \in {"assistant", "tool"} /\ Started(now, k)
      BY <1>1
    <2>2. Grows(m, k, now, msg)
      BY <2>1, GrowsByAppend, Zenon
    <2> QED BY <1>1, <2>2, Zenon DEF Grows
  <1>3. Pending(Append(now, msg), Tail(rest))
    BY <1>1, <1>2, ResultAnswers
  <1> QED BY <1>2, <1>3, Zenon DEF Calling

LEMMA CallingDone ==
    ASSUME NEW m, NEW k \in Nat, NEW h, Calling(m, k, h, <<>>)
    PROVE  Asking(m, k, h)
  <1>1. PICK now : h = buildHistory(m.summary, m.turns) \o now /\ Started(now, k) /\ Pending(now, <<>>)
    BY DEF Calling
  <1>2. Complete(now)
    BY <1>1, StartedType, RoundCompletes
  <1> QED BY <1>1, <1>2, Zenon DEF Asking

LEMMA AskingExchanges ==
    ASSUME NEW m, NEW numbers, MemoryOf(m, numbers), NEW k \in Nat, NEW h, Asking(m, k, h)
    PROVE  Exchanges(h)
  <1>1. PICK now : h = buildHistory(m.summary, m.turns) \o now /\ Started(now, k) /\ Complete(now)
    BY DEF Asking
  <1> DEFINE b == buildHistory(m.summary, m.turns)
  <1>2. b \in Seq(AnyMessage) /\ Closed(b) /\ now \in Seq(AnyMessage)
    BY <1>1, MemoryTyped, StartedType
  <1> HIDE DEF b
  <1>3. Complete(b \o now) /\ b \o now \in Seq(AnyMessage)
    BY <1>1, <1>2, ClosedConcat, ConcatProperties
  <1>4. Exchanges(b \o now)
    BY <1>3, CompleteExchanges
  <1> QED BY <1>1, <1>4, Zenon DEF b

-----------------------------------------------------------------------------
(* The inductive invariant of the session.                                 *)

Outcomes == {"none", "ok", "empty", "cancelled", "model_error", "round_limit",
             "budget_exceeded", "invalid_history"}

SessionTypes ==
    /\ tools \in ToolConfigs /\ turn \in 0..MaxTurns /\ pc \in {"idle"} \cup Active
    /\ ctxDone \in BOOLEAN /\ toolRounds \in 0..MaxToolRounds /\ outcome \in Outcomes
    /\ input \in Seq(Units({turn})) /\ calls \in Seq(CallRecord)

RespondAt ==
    /\ pc # "idle" => turn \in 1..MaxTurns
    /\ pc \in {"idle", "prepare"} => toolRounds = 0
    /\ pc = "prepare" => input # <<>>
    /\ pc \in {"model", "generating"} =>
          Asking(mem, turn, Prompt) /\ (toolRounds = 0 => Measure(Prompt) <= MaxHistory)
    /\ pc \in {"tools", "running"} => Calling(mem, turn, history, calls) /\ toolRounds < MaxToolRounds
    /\ pc = "running" => calls # <<>>
    /\ pc = "update" => Replied(mem, turn, history)

SessionInv == SessionTypes /\ MemoryOf(mem, committed) /\ RespondAt

\* memory.New has made sure that the empty memory fits.
LEMMA EmptyMemory == MemoryOf([summary |-> <<>>, turns |-> <<>>], <<>>)
  <1> DEFINE Z == Nat
             M == Messages(Z)
             r == summaryMessage(ReservedSummary)
             T == Seq(Seq(M))
  <1>1. 0 \in Z /\ <<>> \in T /\ <<>> \in Seq(Units(Z))
    BY EmptySeq
  <1>2. MaxSummary \in Nat /\ MaxHistory \in Nat /\ 0 < MaxSummary
        /\ Measure(buildHistory(ReservedSummary, <<>>)) <= MaxHistory
    BY SessionAssumption DEF BudgetsValid
  <1>3. ReservedSummary \in Seq(Units(Z)) /\ Len(ReservedSummary) = MaxSummary
    <2>1. Label \in Units(Z)
      BY DEF Label, Unit, Units
    <2>2. ReservedSummary \in [1..MaxSummary -> Units(Z)]
      BY <2>1 DEF ReservedSummary
    <2> HIDE DEF Z
    <2> QED BY <1>2, <2>2, FunctionIsSeq
  <1>4. ReservedSummary # <<>>
    BY <1>2, <1>3, EmptySeq
  <1>5. SystemMessage \in M /\ r \in M
    BY <1>1, <1>3, OwnMessages
  <1>6. buildHistory(ReservedSummary, <<>>) = (<<SystemMessage>> \o <<r>>) \o <<>>
    BY <1>4, FlattenEmpty, Zenon DEF buildHistory
  <1>7. buildHistory(<<>>, <<>>) = (<<SystemMessage>> \o <<>>) \o <<>>
    BY FlattenEmpty, Zenon DEF buildHistory
  <1> HIDE DEF M, r, Z
  <1>8. <<SystemMessage>> \in Seq(M) /\ <<r>> \in Seq(M) /\ <<SystemMessage>> \o <<r>> \in Seq(M)
    BY <1>5, ConcatProperties
  <1>9. buildHistory(ReservedSummary, <<>>) = <<SystemMessage>> \o <<r>>
    BY <1>6, <1>8, ConcatEmptySeq
  <1>10. buildHistory(<<>>, <<>>) = <<SystemMessage>>
    BY <1>7, <1>8, ConcatEmptySeq
  <1>11. Measure(<<SystemMessage>> \o <<r>>) = Measure(<<SystemMessage>>) + Measure(<<r>>)
         /\ Measure(<<SystemMessage>>) \in Nat /\ Measure(<<r>>) \in Nat
    BY <1>8, MeasureConcat, MeasureType DEF M
  <1>12. Measure(<<SystemMessage>>) <= MaxHistory
    <2>1. Measure(<<SystemMessage>> \o <<r>>) <= MaxHistory
      BY <1>2, <1>9
    <2> QED BY <1>2, <1>11, <2>1
  <1>13. Fits(<<>>, <<>>, <<>>)
    BY <1>8, <1>10, <1>12, ConcatEmptySeq DEF Fits
  <1>14. Recent(<<>>, <<>>)
    BY EmptySeq DEF Recent
  <1>15. <<>> \in Seq(1..MaxTurns) /\ <<>> \in Seq(Units(Known(<<>>))) /\ Len(<<>>) <= MaxSummary
    BY <1>2, EmptySeq
  <1> QED BY <1>13, <1>14, <1>15 DEF MemoryOf

LEMMA SessionStarts ==
    ASSUME SessionInit
    PROVE  SessionInv
  <1>1. MaxTurns \in Nat /\ MaxToolRounds \in Nat
    BY SessionAssumption
  <1>2. input \in Seq(Units({turn})) /\ calls \in Seq(CallRecord)
    BY EmptySeq DEF SessionInit
  <1>3. SessionTypes
    <2>1. ctxDone \in BOOLEAN
      BY Zenon DEF SessionInit
    <2> QED BY <1>1, <1>2, <2>1 DEF SessionInit, SessionTypes, Outcomes
  <1>4. MemoryOf(mem, committed)
    BY EmptyMemory DEF SessionInit
  <1>5. RespondAt
    BY DEF SessionInit, RespondAt
  <1> QED BY <1>3, <1>4, <1>5 DEF SessionInv

\* Respond returns.
LEMMA ReturnKeeps ==
    ASSUME SessionInv, NEW how \in Outcomes, Return(how), MemoryOf(mem', committed')
    PROVE  SessionInv'
  <1>1. input' \in Seq(Units({turn'})) /\ calls' \in Seq(CallRecord)
    BY EmptySeq DEF Return
  <1>2. 0 \in 0..MaxToolRounds
    BY SessionAssumption
  <1>3. SessionTypes'
    BY <1>1, <1>2 DEF SessionInv, SessionTypes, Return
  <1>4. RespondAt'
    BY DEF Return, RespondAt
  <1> QED BY <1>3, <1>4 DEF SessionInv

LEMMA FailKeeps ==
    ASSUME SessionInv, NEW code \in Outcomes, Fail(code)
    PROVE  SessionInv'
  <1> DEFINE how == IF ctxDone THEN "cancelled" ELSE code
  <1>1. how \in Outcomes
    <2>1. "cancelled" \in Outcomes
      BY DEF Outcomes
    <2> QED BY <2>1, Zenon
  <1>2. Return(how) /\ mem' = mem /\ committed' = committed
    BY DEF Fail
  <1>3. MemoryOf(mem', committed')
    BY <1>2 DEF SessionInv
  <1> HIDE DEF how
  <1> QED BY <1>1, <1>2, <1>3, ReturnKeeps

\* The steps of Respond, in its order.
LEMMA RespondKeeps ==
    ASSUME SessionInv, NEW costs \in UserTexts, Respond(costs)
    PROVE  SessionInv'
  <1>1. costs \in Seq(Nat) /\ MaxTurns \in Nat
    BY SessionAssumption
  <1>2. turn' = turn + 1 /\ turn' \in 1..MaxTurns /\ turn' \in 0..MaxTurns
    BY <1>1 DEF Respond, SessionInv, SessionTypes
  <1>3. input' \in Seq(Units({turn'})) /\ (costs # <<>> => input' # <<>>)
    <2> DEFINE n == Len(costs)
    <2>1. DOMAIN costs = 1..n /\ n \in Nat /\ \A i \in 1..n : costs[i] \in Nat
      BY <1>1
    <2>2. input' = [i \in 1..n |-> Unit(turn', costs[i])]
      BY <1>2, <2>1 DEF Respond
    <2>3. \A i \in 1..n : Unit(turn', costs[i]) \in Units({turn'})
      BY <2>1 DEF Unit, Units
    <2> HIDE DEF n
    <2>4. input' \in [1..n -> Units({turn'})]
      BY <2>2, <2>3, Zenon
    <2>5. input' \in Seq(Units({turn'})) /\ Len(input') = n
      BY <2>1, <2>4, FunctionIsSeq
    <2> QED BY <1>1, <2>5, EmptySeq DEF n
  <1>4. SessionTypes'
    BY <1>2, <1>3 DEF SessionInv, SessionTypes, Respond, Outcomes, Active
  <1>5. MemoryOf(mem, committed)'
    BY DEF SessionInv, Respond
  <1>6. RespondAt'
    <2>1. CASE costs = <<>>
      BY <2>1 DEF Respond, RespondAt, SessionInv
    <2>2. CASE costs # <<>>
      <3>1. pc' = "prepare" /\ toolRounds' = 0
        BY <2>2 DEF Respond, SessionInv, RespondAt
      <3> QED BY <1>2, <1>3, <2>2, <3>1 DEF RespondAt
    <2> QED BY <2>1, <2>2
  <1> QED BY <1>4, <1>5, <1>6 DEF SessionInv

LEMMA PrepareKeeps ==
    ASSUME SessionInv, PrepareMemory
    PROVE  SessionInv'
  <1> DEFINE r == Prepare(mem, input)
  <1>1. /\ pc = "prepare" /\ turn \in 1..MaxTurns /\ turn \in Nat /\ input # <<>>
        /\ input \in Seq(Units({turn})) /\ MemoryOf(mem, committed)
        /\ toolRounds = 0
    BY SessionAssumption DEF PrepareMemory, SessionInv, RespondAt, SessionTypes
  <1>2. /\ r.err \in {"ok", "budget_exceeded"}
        /\ r.err = "ok" =>
             /\ MemoryOf(r.mem, committed)
             /\ r.history = buildHistory(r.mem.summary, r.mem.turns)
             /\ Measure(r.history \o <<UserMessage(input)>>) <= MaxHistory
    BY <1>1, PrepareRemembers
  <1>3. IF ctxDone \/ r.err # "ok"
        THEN Fail(r.err)
        ELSE /\ mem' = r.mem /\ history' = r.history /\ pc' = "model"
             /\ UNCHANGED <<tools, turn, ctxDone, input, calls, toolRounds, committed, outcome>>
    BY DEF PrepareMemory
  <1> HIDE DEF r
  <1>4. CASE ctxDone \/ r.err # "ok"
    <2>1. Fail(r.err)
      BY <1>3, <1>4, Zenon
    <2>2. r.err \in Outcomes
      BY <1>2 DEF Outcomes
    <2> QED BY <2>1, <2>2, FailKeeps
  <1>5. CASE ~(ctxDone \/ r.err # "ok")
    <2>1. /\ mem' = r.mem /\ history' = r.history /\ pc' = "model"
          /\ UNCHANGED <<tools, turn, ctxDone, input, calls, toolRounds, committed, outcome>>
      BY <1>3, <1>5, Zenon
    <2>2. MemoryOf(mem', committed')
      BY <1>2, <1>5, <2>1
    <2>3. SessionTypes'
      BY <2>1 DEF SessionInv, SessionTypes, Active
    <2>4. history' = buildHistory(mem'.summary, mem'.turns)
      BY <1>2, <1>5, <2>1
    <2>5. Prompt' = Append(history', UserMessage(input))
      BY <1>1, <2>1 DEF Prompt, UserMessage
    <2>6. Asking(mem', turn, Append(buildHistory(mem'.summary, mem'.turns), UserMessage(input)))
      BY <1>1, <2>2, FirstPrompt
    <2>7. Asking(mem', turn', Prompt')
      BY <2>1, <2>4, <2>5, <2>6, Zenon
    <2>8. Measure(Prompt') <= MaxHistory
      <3>1. history' \in Seq(AnyMessage)
        BY <2>2, <2>4, MemoryTyped
      <3>2. UserMessage(input) \in AnyMessage
        BY <1>1, UserMessageTyped
      <3>3. Append(history', UserMessage(input)) = history' \o <<UserMessage(input)>>
        BY <3>1, <3>2, AppendIsConcat
      <3> QED BY <1>2, <1>5, <2>1, <2>5, <3>3
    <2>9. RespondAt'
      BY <1>1, <2>1, <2>7, <2>8 DEF RespondAt
    <2> QED BY <2>2, <2>3, <2>9 DEF SessionInv
  <1> QED BY <1>4, <1>5

LEMMA CallModelKeeps ==
    ASSUME SessionInv, CallModel
    PROVE  SessionInv'
  <1>1. CASE ctxDone
    <2>1. Fail("cancelled") /\ "cancelled" \in Outcomes
      BY <1>1 DEF CallModel, Outcomes
    <2> QED BY <2>1, FailKeeps
  <1>2. CASE ~ctxDone
    <2>1. /\ pc = "model" /\ pc' = "generating"
          /\ UNCHANGED <<tools, mem, turn, ctxDone, history, input, calls, toolRounds, committed, outcome>>
      BY <1>2 DEF CallModel
    <2>2. SessionTypes' /\ MemoryOf(mem, committed)'
      BY <2>1 DEF SessionInv, SessionTypes, Active
    <2>3. Prompt' = Prompt
      BY <2>1 DEF Prompt
    <2>4. RespondAt'
      BY <2>1, <2>3 DEF SessionInv, RespondAt
    <2> QED BY <2>2, <2>4 DEF SessionInv
  <1> QED BY <1>1, <1>2

\* The text of the turn, as a message of the given role.
LEMMA SaidTyped ==
    ASSUME SessionInv, NEW costs \in ReplyTexts \cup ToolTexts,
           NEW role \in Role, NEW batch \in Seq(CallRecord), NEW id \in CallIds
    PROVE  /\ Message(role, Said(costs), batch, id) \in Messages({turn})
           /\ Message(role, Said(costs), batch, id).role = role
           /\ Message(role, Said(costs), batch, id).calls = batch
           /\ Message(role, Said(costs), batch, id).callId = id
  <1> DEFINE n == Len(costs)
             C == {turn}
  <1>1. costs \in Seq(Nat)
    BY SessionAssumption
  <1>2. DOMAIN costs = 1..n /\ n \in Nat /\ \A i \in 1..n : costs[i] \in Nat
    BY <1>1
  <1>3. Said(costs) = [i \in 1..n |-> Unit(turn, costs[i])]
    BY <1>2, Zenon DEF Said
  <1>4. \A i \in 1..n : Unit(turn, costs[i]) \in Units(C)
    BY <1>2 DEF Unit, Units
  <1> HIDE DEF n, C
  <1>5. Said(costs) \in Seq(Units(C))
    <2>1. Said(costs) \in [1..n -> Units(C)]
      BY <1>3, <1>4, Zenon
    <2> QED BY <1>2, <2>1, FunctionIsSeq
  <1>6. Message(role, Said(costs), batch, id) \in Messages(C)
    BY <1>5, MessageTyped
  <1> QED BY <1>6 DEF C, Message

LEMMA ModelAnswersKeeps ==
    ASSUME SessionInv, NEW costs \in ReplyTexts, NEW batch \in CallBatches, ModelAnswers(costs, batch)
    PROVE  SessionInv'
  <1> DEFINE msg == Message("assistant", Said(costs), batch, NoCall)
             h == Append(Prompt, msg)
  <1>1. /\ pc = "generating" /\ turn \in 1..MaxTurns /\ turn \in Nat /\ MemoryOf(mem, committed)
        /\ Asking(mem, turn, Prompt)
    BY SessionAssumption DEF ModelAnswers, SessionInv, RespondAt
  <1>2. batch \in Seq(CallRecord) /\ "assistant" \in Role /\ NoCall \in CallIds
    BY SessionAssumption DEF CallRecord, Role, CallIds
  <1>3. msg \in Messages({turn}) /\ msg.role = "assistant" /\ msg.calls = batch
    <2>1. costs \in ReplyTexts \cup ToolTexts
      OBVIOUS
    <2>2. Message("assistant", Said(costs), batch, NoCall) \in Messages({turn})
      BY <1>2, <2>1, SaidTyped
    <2> QED BY <2>2 DEF Message
  <1> HIDE DEF msg
  <1>4. CASE batch = <<>>
    <2>1. /\ history' = h /\ pc' = "update"
          /\ UNCHANGED <<tools, mem, turn, ctxDone, input, calls, toolRounds, committed, outcome>>
      BY <1>4 DEF ModelAnswers, msg
    <2>2. Replied(mem, turn, h)
      BY <1>1, <1>3, <1>4, AskingReplied
    <2> HIDE DEF h
    <2>3. SessionTypes' /\ MemoryOf(mem, committed)'
      BY <2>1 DEF SessionInv, SessionTypes, Active
    <2>4. RespondAt'
      BY <1>1, <2>1, <2>2 DEF RespondAt
    <2> QED BY <2>3, <2>4 DEF SessionInv
  <1>5. CASE batch # <<>> /\ toolRounds >= MaxToolRounds
    <2>1. Fail("round_limit") /\ "round_limit" \in Outcomes
      BY <1>5 DEF ModelAnswers, Outcomes
    <2> QED BY <2>1, FailKeeps
  <1>6. CASE batch # <<>> /\ ~(toolRounds >= MaxToolRounds)
    <2>1. /\ history' = h /\ calls' = batch /\ pc' = "tools"
          /\ UNCHANGED <<tools, mem, turn, ctxDone, input, toolRounds, committed, outcome>>
      BY <1>6 DEF ModelAnswers, msg
    <2>2. Calling(mem, turn, h, batch)
      BY <1>1, <1>3, AskingCalls
    <2>3. toolRounds < MaxToolRounds
      BY <1>6, SessionAssumption DEF SessionInv, SessionTypes
    <2> HIDE DEF h
    <2>4. SessionTypes' /\ MemoryOf(mem, committed)'
      BY <1>2, <2>1 DEF SessionInv, SessionTypes, Active
    <2>5. RespondAt'
      BY <1>1, <2>1, <2>2, <2>3 DEF RespondAt
    <2> QED BY <2>4, <2>5 DEF SessionInv
  <1> QED BY <1>4, <1>5, <1>6

\* A result, of a tool that ran or of one that is refused.
LEMMA AnswerKeeps ==
    ASSUME SessionInv, NEW costs \in ToolTexts, pc \in {"tools", "running"}, calls # <<>>,
           pc' = "tools", history' = Answer(costs), calls' = Tail(calls),
           UNCHANGED <<tools, mem, turn, ctxDone, input, toolRounds, committed, outcome>>
    PROVE  SessionInv'
  <1> DEFINE msg == Message("tool", Said(costs), <<>>, calls[1].id)
  <1>1. /\ turn \in 1..MaxTurns /\ turn \in Nat /\ MemoryOf(mem, committed) /\ calls \in Seq(CallRecord)
        /\ Calling(mem, turn, history, calls) /\ toolRounds < MaxToolRounds
    BY SessionAssumption DEF SessionInv, RespondAt, SessionTypes
  <1>2. <<>> \in Seq(CallRecord) /\ "tool" \in Role /\ calls[1].id \in CallIds
    <2>1. calls[1] \in CallRecord
      BY <1>1, EmptySeq, ElementOfSeq
    <2>2. calls[1].id \in STRING
      BY <2>1 DEF CallRecord
    <2> QED BY <2>2, EmptySeq DEF Role, CallIds
  <1>3. msg \in Messages({turn}) /\ msg.role = "tool" /\ msg.calls = <<>> /\ msg.callId = calls[1].id
    <2>1. costs \in ReplyTexts \cup ToolTexts
      OBVIOUS
    <2>2. msg \in Messages({turn})
      <3>1. PICK id : id = calls[1].id
        OBVIOUS
      <3>2. Message("tool", Said(costs), <<>>, id) \in Messages({turn})
        BY <1>2, <2>1, <3>1, SaidTyped
      <3> QED BY <3>1, <3>2
    <2> QED BY <2>2 DEF Message
  <1>4. history' = Append(history, msg)
    BY DEF Answer
  <1> HIDE DEF msg
  <1>5. Calling(mem, turn, Append(history, msg), Tail(calls))
    BY <1>1, <1>3, CallingResult
  <1>6. Tail(calls) \in Seq(CallRecord)
    BY <1>1, HeadTailProperties
  <1>7. SessionTypes' /\ MemoryOf(mem, committed)'
    BY <1>6 DEF SessionInv, SessionTypes, Active
  <1>8. RespondAt'
    BY <1>1, <1>4, <1>5 DEF RespondAt
  <1> QED BY <1>7, <1>8 DEF SessionInv

LEMMA ToolBeginsKeeps ==
    ASSUME SessionInv, NEW costs \in ToolTexts, ToolBegins(costs)
    PROVE  SessionInv'
  <1>1. /\ pc = "tools" /\ calls # <<>>
        /\ UNCHANGED <<tools, mem, turn, ctxDone, input, toolRounds, committed, outcome>>
    BY DEF ToolBegins
  <1>2. CASE calls[1].name \in Registered
    <2>1. pc' = "running" /\ history' = history /\ calls' = calls
      BY <1>2 DEF ToolBegins
    <2>2. SessionTypes' /\ MemoryOf(mem, committed)'
      BY <1>1, <2>1 DEF SessionInv, SessionTypes, Active
    <2>3. RespondAt'
      BY <1>1, <2>1 DEF SessionInv, RespondAt
    <2> QED BY <2>2, <2>3 DEF SessionInv
  <1>3. CASE calls[1].name \notin Registered
    <2>1. pc' = "tools" /\ history' = Answer(costs) /\ calls' = Tail(calls)
      BY <1>1, <1>3 DEF ToolBegins
    <2> QED BY <1>1, <2>1, AnswerKeeps
  <1> QED BY <1>2, <1>3

LEMMA ToolReturnsKeeps ==
    ASSUME SessionInv, NEW costs \in ToolTexts, ToolReturns(costs)
    PROVE  SessionInv'
  <1>1. /\ pc = "running" /\ pc' = "tools" /\ history' = Answer(costs) /\ calls' = Tail(calls)
        /\ UNCHANGED <<tools, mem, turn, ctxDone, input, toolRounds, committed, outcome>>
    BY DEF ToolReturns
  <1>2. calls # <<>>
    BY <1>1 DEF SessionInv, RespondAt
  <1> QED BY <1>1, <1>2, AnswerKeeps

LEMMA RoundEndsKeeps ==
    ASSUME SessionInv, RoundEnds
    PROVE  SessionInv'
  <1>1. CASE ctxDone
    <2>1. Fail("cancelled") /\ "cancelled" \in Outcomes
      BY <1>1 DEF RoundEnds, Outcomes
    <2> QED BY <2>1, FailKeeps
  <1>2. CASE ~ctxDone
    <2>1. /\ pc = "tools" /\ calls = <<>> /\ pc' = "model" /\ toolRounds' = toolRounds + 1 /\ input' = <<>>
          /\ UNCHANGED <<tools, mem, turn, ctxDone, history, calls, committed, outcome>>
      BY <1>2 DEF RoundEnds
    <2>2. /\ turn \in 1..MaxTurns /\ turn \in Nat
          /\ Calling(mem, turn, history, <<>>) /\ toolRounds < MaxToolRounds
      BY <2>1, SessionAssumption DEF SessionInv, RespondAt
    <2>3. Asking(mem, turn, history)
      BY <2>2, CallingDone
    <2>4. Prompt' = history
      BY <2>1 DEF Prompt
    <2>5. toolRounds' \in 0..MaxToolRounds /\ toolRounds' # 0
      BY <2>1, <2>2, SessionAssumption DEF SessionInv, SessionTypes
    <2>6. SessionTypes' /\ MemoryOf(mem, committed)'
      <3>1. input' \in Seq(Units({turn'}))
        BY <2>1, EmptySeq
      <3> QED BY <2>1, <2>5, <3>1 DEF SessionInv, SessionTypes, Active
    <2>7. RespondAt'
      BY <2>1, <2>2, <2>3, <2>4, <2>5 DEF RespondAt
    <2> QED BY <2>6, <2>7 DEF SessionInv
  <1> QED BY <1>1, <1>2

LEMMA UpdateKeeps ==
    ASSUME SessionInv, UpdateMemory
    PROVE  SessionInv'
  <1> DEFINE r == Update(mem, history)
  <1>1. /\ pc = "update" /\ turn \in 1..MaxTurns /\ MemoryOf(mem, committed)
        /\ Replied(mem, turn, history)
    BY DEF UpdateMemory, SessionInv, RespondAt
  <1>2. PICK now : history = buildHistory(mem.summary, mem.turns) \o now /\ Finished(now, turn)
    BY <1>1 DEF Replied
  <1>3. /\ r.err \in {"ok", "budget_exceeded", "invalid_history"}
        /\ r.err = "ok" => MemoryOf(r.mem, Append(committed, turn))
    BY <1>1, <1>2, UpdateRemembers
  <1>4. IF ctxDone \/ r.err # "ok"
        THEN Fail(r.err)
        ELSE mem' = r.mem /\ committed' = Append(committed, turn) /\ Return("ok")
    BY DEF UpdateMemory
  <1> HIDE DEF r
  <1>5. r.err \in Outcomes /\ "ok" \in Outcomes
    BY <1>3 DEF Outcomes
  <1>6. CASE ctxDone \/ r.err # "ok"
    <2>1. Fail(r.err)
      BY <1>4, <1>6, Zenon
    <2> QED BY <1>5, <2>1, FailKeeps
  <1>7. CASE ~(ctxDone \/ r.err # "ok")
    <2>1. mem' = r.mem /\ committed' = Append(committed, turn) /\ Return("ok") /\ r.err = "ok"
      BY <1>4, <1>7, Zenon
    <2>2. MemoryOf(mem', committed')
      BY <1>3, <2>1, Zenon
    <2> QED BY <1>5, <2>1, <2>2, ReturnKeeps
  <1> QED BY <1>6, <1>7

LEMMA SessionUnchanged ==
    ASSUME SessionInv, UNCHANGED sessionVars
    PROVE  SessionInv'
  <1>1. SessionTypes' /\ MemoryOf(mem, committed)'
    BY DEF SessionInv, SessionTypes, sessionVars
  <1>2. Prompt' = Prompt
    BY DEF Prompt, sessionVars
  <1>3. RespondAt'
    BY <1>2 DEF SessionInv, RespondAt, sessionVars
  <1> QED BY <1>1, <1>3 DEF SessionInv

LEMMA CancelKeeps ==
    ASSUME SessionInv, CancelTurn
    PROVE  SessionInv'
  <1>1. /\ ctxDone' = TRUE
        /\ UNCHANGED <<tools, mem, turn, pc, history, input, calls, toolRounds, committed, outcome>>
    BY DEF CancelTurn
  <1>2. SessionTypes' /\ MemoryOf(mem, committed)'
    <2>1. ctxDone' \in BOOLEAN
      BY <1>1, Zenon
    <2> QED BY <1>1, <2>1 DEF SessionInv, SessionTypes
  <1>3. Prompt' = Prompt
    BY <1>1 DEF Prompt
  <1>4. RespondAt'
    BY <1>1, <1>3 DEF SessionInv, RespondAt
  <1> QED BY <1>2, <1>4 DEF SessionInv

LEMMA SessionIsSafe == Spec => []SessionInv
  <1>1. Init => SessionInv
    BY SessionStarts DEF Init
  <1>2. SessionInv /\ [Next]_vars => SessionInv'
    <2> SUFFICES ASSUME SessionInv, [Next]_vars PROVE SessionInv'
      OBVIOUS
    <2>1. CASE TurnBegins
      BY <2>1, RespondKeeps DEF TurnBegins, SessionMoves
    <2>2. CASE TurnCancelled
      BY <2>2, CancelKeeps DEF TurnCancelled, SessionMoves
    <2>3. CASE ModelReplies
      BY <2>3, ModelAnswersKeeps DEF ModelReplies, SessionMoves
    <2>4. CASE TurnAdvances
      <3>1. CASE PrepareMemory
        BY <3>1, PrepareKeeps
      <3>2. CASE CallModel
        BY <3>2, CallModelKeeps
      <3>3. CASE ModelFails
        <4>1. Fail("model_error") /\ "model_error" \in Outcomes
          BY <3>3 DEF ModelFails, Outcomes
        <4> QED BY <4>1, FailKeeps
      <3>4. CASE RoundEnds
        BY <3>4, RoundEndsKeeps
      <3>5. CASE UpdateMemory
        BY <3>5, UpdateKeeps
      <3>6. CASE \E costs \in ToolTexts : ToolBegins(costs) \/ ToolReturns(costs)
        BY <3>6, ToolBeginsKeeps, ToolReturnsKeeps
      <3> QED BY <2>4, <3>1, <3>2, <3>3, <3>4, <3>5, <3>6 DEF TurnAdvances, SessionMoves, SessionStep
    <2>5. CASE CloseRuntime
      BY <2>5, SessionUnchanged DEF CloseRuntime, ServerMoves
    <2>6. CASE ManagerAdvances
      BY <2>6, SessionUnchanged DEF ManagerAdvances, ServerMoves
    <2>7. CASE EnvironmentMoves
      BY <2>7, SessionUnchanged DEF EnvironmentMoves, ServerMoves
    <2>8. CASE UNCHANGED vars
      BY <2>8, SessionUnchanged DEF vars
    <2> QED BY <2>1, <2>2, <2>3, <2>4, <2>5, <2>6, <2>7, <2>8 DEF Next
  <1> QED BY <1>1, <1>2, PTL DEF Spec

\* Types, and the bound on a summary whatever it was made from.
THEOREM LegacyTyped == Spec => []LegacyTypeOK
  <1>1. SessionInv => SessionTypeOK
    <2> SUFFICES ASSUME SessionInv PROVE SessionTypeOK
      OBVIOUS
    <2>1. /\ committed \in Seq(1..MaxTurns) /\ mem.summary \in Seq(Units(Known(committed)))
          /\ Len(mem.summary) <= MaxSummary
      BY DEF SessionInv, MemoryOf
    <2>2. Known(committed) \subseteq 0..MaxTurns
      BY <2>1, KnownFacts
    <2>3. Units(Known(committed)) \subseteq Units(0..MaxTurns)
      BY <2>2, MessagesMonotone
    <2>4. mem.summary \in Seq(Units(0..MaxTurns))
      BY <2>1, <2>3, SeqMonotonic
    <2>5. mem.summary \in Seq([of : 0..MaxTurns, cost : Nat])
      BY <2>4, Zenon DEF Units
    <2> QED BY <2>1, <2>5 DEF SessionInv, SessionTypes, SessionTypeOK, Outcomes
  <1>2. ServerInv => ServerTypeOK
    BY DEF ServerInv
  <1>3. SessionInv /\ ServerInv => LegacyTypeOK
    BY <1>1, <1>2 DEF LegacyTypeOK
  <1> QED BY <1>3, SessionIsSafe, ServerIsSafe, PTL

\* The memory, and the first prompt of every turn, stay within MaxHistoryBytes,
\* for every text, every cost of its characters and every budget that memory.New
\* accepts.
THEOREM HistoryBounded == Spec => []HistoryWithinBudget
  <1>1. SessionInv => HistoryWithinBudget
    BY DEF SessionInv, MemoryOf, RespondAt, HistoryWithinBudget
  <1> QED BY <1>1, SessionIsSafe, PTL

\* Whatever is cancelled, fails or is compacted on the way, the memory is a suffix
\* of what was committed and its summary speaks of nothing else.
THEOREM OnlyCommittedRemembered == Spec => []MemoryIsRecentCommitted
  <1>1. SessionInv => MemoryIsRecentCommitted
    <2> SUFFICES ASSUME SessionInv PROVE MemoryIsRecentCommitted
      OBVIOUS
    <2>1. /\ committed \in Seq(1..MaxTurns) /\ Recent(mem.turns, committed)
          /\ mem.summary \in Seq(Units(Known(committed)))
      BY DEF SessionInv, MemoryOf
    <2>2. IsSuffix([i \in DOMAIN mem.turns |-> TurnNumber(mem.turns[i])], committed)
      BY <2>1, RecentSuffix
    <2>3. ASSUME NEW i \in DOMAIN mem.summary PROVE mem.summary[i].of \in Committed \cup {0}
      <3>1. mem.summary[i] \in Units(Known(committed))
        BY <2>1, LenProperties, ElementOfSeq
      <3>2. mem.summary[i].of \in Known(committed)
        BY <3>1 DEF Units
      <3> QED BY <3>2, Zenon DEF Known, Committed
    <2> QED BY <2>2, <2>3 DEF MemoryIsRecentCommitted
  <1> QED BY <1>1, SessionIsSafe, PTL

\* No prompt and no stored turn has a call without its answer, for any number of
\* calls in a message and any number of rounds.
THEOREM ExchangesAreComplete == Spec => []ToolExchangesComplete
  <1>1. SessionInv => ToolExchangesComplete
    <2> SUFFICES ASSUME SessionInv PROVE ToolExchangesComplete
      OBVIOUS
    <2>1. MemoryOf(mem, committed) /\ committed \in Seq(1..MaxTurns) /\ Recent(mem.turns, committed)
      BY DEF SessionInv, MemoryOf
    <2>2. ASSUME pc = "generating" PROVE Exchanges(Prompt)
      <3>1. turn \in Nat /\ Asking(mem, turn, Prompt)
        BY <2>2 DEF SessionInv, RespondAt
      <3> QED BY <2>1, <3>1, AskingExchanges
    <2>3. ASSUME NEW i \in DOMAIN mem.turns
          PROVE  /\ Exchanges(mem.turns[i])
                 /\ mem.turns[i][1].role = "user" /\ Last(mem.turns[i]).role = "assistant"
      <3>1. i \in 1..Len(mem.turns)
        BY <2>1, MemoryTyped, LenProperties
      <3>2. PICK k : Finished(mem.turns[i], k)
        BY <2>1, <3>1 DEF Recent
      <3>3. mem.turns[i] \in Seq(AnyMessage) /\ Closed(mem.turns[i])
        BY <2>1, <3>1, RecentTyped
      <3>4. Exchanges(mem.turns[i])
        BY <3>3, ClosedIsComplete, CompleteExchanges
      <3> QED BY <3>2, <3>4 DEF Finished, Started
    <2> QED BY <2>2, <2>3 DEF ToolExchangesComplete
  <1> QED BY <1>1, SessionIsSafe, PTL
=============================================================================
