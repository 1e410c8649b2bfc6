--------------------------- MODULE TurnTextProofs ---------------------------
(***************************************************************************)
(* Proofs about the text of a turn, for every vocabulary, every list of    *)
(* wake phrases, every reply and every cap on the length of a phrase.      *)
(*                                                                         *)
(*   SpokenWhole   the sentence buffer loses, repeats and reorders nothing *)
(*   GateIsExact   the gate accepts what addresses the assistant           *)
(***************************************************************************)
EXTENDS TurnText, SequenceFacts, TLAPS

-----------------------------------------------------------------------------
(* Without: what is left of a text, one element at a time.                 *)

Keep(D, kept, e) == IF e \in D THEN kept ELSE Append(kept, e)

KeepStep(D, M, text) == [i \in 1..Len(text) |-> [t \in Seq(M) |-> Keep(D, t, text[i])]]

LEMMA SeqOfLarger ==
    ASSUME NEW S, NEW T, S \subseteq T, NEW s \in Seq(S)
    PROVE  s \in Seq(T)
  OBVIOUS

LEMMA KeepType ==
    ASSUME NEW M, NEW D, NEW t \in Seq(M), NEW e \in M
    PROVE  Keep(D, t, e) \in Seq(M)
  <1>1. Append(t, e) \in Seq(M)
    BY AppendProperties
  <1> QED BY <1>1 DEF Keep

KeepsStepwise(D, M, text, n) ==
    \E f : Iterates(f, Seq(M), n, <<>>, KeepStep(D, M, text)) /\ Without(D, text) = f[n]

LEMMA WithoutIterates ==
    ASSUME NEW M, NEW D, NEW text \in Seq(M), NEW n, n = Len(text)
    PROVE  KeepsStepwise(D, M, text, n)
  <1> DEFINE Keeps(f) == f = [i \in 0..n |-> IF i = 0 THEN <<>> ELSE Keep(D, f[i - 1], text[i])]
             step == KeepStep(D, M, text)
             T == Seq(M)
             c == CHOOSE f : Keeps(f)
  <1>1. n \in Nat /\ <<>> \in T /\ \A i \in 1..n : text[i] \in M
    BY EmptySeq
  <1>2. step \in Steps(T, n) /\ \A i \in 1..n, t \in T : step[i][t] = Keep(D, t, text[i])
    <2>1. \A i \in 1..n, t \in T : Keep(D, t, text[i]) \in T
      BY <1>1, KeepType
    <2> HIDE DEF T
    <2>2. step = [i \in 1..n |-> [t \in T |-> Keep(D, t, text[i])]]
      BY Zenon DEF KeepStep, T
    <2> HIDE DEF step
    <2>3. \A i \in 1..n : step[i] = [t \in T |-> Keep(D, t, text[i])]
      BY <2>2, Zenon
    <2>4. ASSUME NEW i \in 1..n PROVE step[i] \in [T -> T]
      <3>1. \A t \in T : Keep(D, t, text[i]) \in T
        BY <2>1, Zenon
      <3>2. [t \in T |-> Keep(D, t, text[i])] \in [T -> T]
        BY <3>1, Zenon
      <3> QED BY <2>3, <3>2, Zenon
    <2>5. step \in [1..n -> [T -> T]]
      BY <2>2, <2>4, Zenon
    <2>6. ASSUME NEW i \in 1..n, NEW t \in T PROVE step[i][t] = Keep(D, t, text[i])
      <3>1. step[i] = [u \in T |-> Keep(D, u, text[i])]
        BY <2>3, Zenon
      <3> QED BY <3>1, Zenon
    <2> QED BY <2>5, <2>6, Zenon DEF Steps
  <1> HIDE DEF step, T
  <1>3. PICK f \in [0..n -> T] : Iterates(f, T, n, <<>>, step)
    BY <1>1, <1>2, Recursion
  <1>4. Keeps(f)
    <2>1. f[0] = <<>>
      BY <1>3 DEF Iterates
    <2>2. ASSUME NEW i \in 0..n, i # 0 PROVE f[i] = Keep(D, f[i - 1], text[i])
      <3>1. i \in 1..n /\ i - 1 \in 0..n
        BY <1>1, <2>2
      <3>2. f[i] = step[i][f[i - 1]] /\ f[i - 1] \in T
        BY <1>3, <3>1, Zenon DEF Iterates
      <3> QED BY <1>2, <3>1, <3>2, Zenon
    <2> QED BY <2>1, <2>2, Zenon
  <1>5. Keeps(c)
    <2> HIDE DEF Keeps
    <2> QED BY <1>4, Zenon
  <1>6. Without(D, text) = c[n]
    <2> SUFFICES n = Len(text)
      BY Zenon DEF Without, Keep
    <2> QED OBVIOUS
  <1> HIDE DEF c
  <1>7. Follows(c, T, n, <<>>, step)
    <2>1. 0 \in 0..n
      BY <1>1
    <2>2. c[0] = <<>>
      BY <1>5, <2>1, Zenon
    <2>3. ASSUME NEW i \in 1..n, c[i - 1] \in T PROVE c[i] = step[i][c[i - 1]]
      <3>1. i \in 0..n /\ i # 0
        BY <1>1
      <3>2. c[i] = Keep(D, c[i - 1], text[i])
        BY <1>5, <3>1, Zenon
      <3> QED BY <1>2, <2>3, <3>2, Zenon
    <2> QED BY <2>2, <2>3 DEF Follows
  <1>8. Iterates(c, T, n, <<>>, step)
    BY <1>1, <1>2, <1>7, RecursionTyped
  <1> QED BY <1>6, <1>8, Zenon DEF step, T, KeepsStepwise

LEMMA WithoutEmpty ==
    ASSUME NEW D
    PROVE  Without(D, <<>>) = <<>>
  <1>1. <<>> \in Seq({}) /\ Len(<<>>) = 0
    OBVIOUS
  <1>2. PICK f : Iterates(f, Seq({}), 0, <<>>, KeepStep(D, {}, <<>>)) /\ Without(D, <<>>) = f[0]
    <2>1. KeepsStepwise(D, {}, <<>>, 0)
      BY <1>1, WithoutIterates
    <2> QED BY <2>1, Zenon DEF KeepsStepwise
  <1> QED BY <1>2, Zenon DEF Iterates

LEMMA WithoutAppend ==
    ASSUME NEW M, NEW D, NEW text \in Seq(M), NEW e \in M
    PROVE  /\ Without(D, text) \in Seq(M)
           /\ Without(D, Append(text, e)) = Keep(D, Without(D, text), e)
  <1> SUFFICES ASSUME NEW t, t = Append(text, e), NEW n, n = Len(text)
               PROVE  Without(D, text) \in Seq(M) /\ Without(D, t) = Keep(D, Without(D, text), e)
    BY Zenon
  <1>2. PICK f : Iterates(f, Seq(M), n, <<>>, KeepStep(D, M, text)) /\ Without(D, text) = f[n]
    <2>1. KeepsStepwise(D, M, text, n)
      BY WithoutIterates
    <2> QED BY <2>1, Zenon DEF KeepsStepwise
  <1>3. t \in Seq(M) /\ n \in Nat /\ Len(t) = n + 1 /\ t[n + 1] = e /\ \A i \in 1..n : t[i] = text[i]
    OBVIOUS
  <1>4. PICK g : Iterates(g, Seq(M), n + 1, <<>>, KeepStep(D, M, t)) /\ Without(D, t) = g[n + 1]
    <2>1. n + 1 = Len(t) /\ t \in Seq(M)
      BY <1>3
    <2>2. KeepsStepwise(D, M, t, n + 1)
      BY <2>1, WithoutIterates
    <2> QED BY <2>2, Zenon DEF KeepsStepwise
  <1>5. \A i \in 1..n : KeepStep(D, M, text)[i] = KeepStep(D, M, t)[i]
    <2> TAKE i \in 1..n
    <2>1. i \in 1..Len(text) /\ i \in 1..Len(t)
      BY <1>3
    <2>2. KeepStep(D, M, text)[i] = [u \in Seq(M) |-> Keep(D, u, text[i])]
      BY <2>1, Zenon DEF KeepStep
    <2>3. KeepStep(D, M, t)[i] = [u \in Seq(M) |-> Keep(D, u, t[i])]
      BY <2>1, Zenon DEF KeepStep
    <2> QED BY <1>3, <2>2, <2>3, Zenon
  <1>6. g[n + 1] = KeepStep(D, M, t)[n + 1][f[n]]
    BY <1>2, <1>3, <1>4, <1>5, RecursionExtends
  <1>7. f[n] \in Seq(M)
    <2>1. n \in 0..n
      BY <1>3
    <2> QED BY <1>2, <2>1, Zenon DEF Iterates
  <1>8. KeepStep(D, M, t)[n + 1][f[n]] = Keep(D, f[n], e)
    <2>1. n + 1 \in 1..Len(t)
      BY <1>3
    <2>2. KeepStep(D, M, t)[n + 1] = [u \in Seq(M) |-> Keep(D, u, t[n + 1])]
      BY <2>1, Zenon DEF KeepStep
    <2>3. KeepStep(D, M, t)[n + 1][f[n]] = Keep(D, f[n], t[n + 1])
      BY <1>7, <2>2, Zenon
    <2> QED BY <1>3, <2>3, Zenon
  <1> QED BY <1>2, <1>4, <1>6, <1>7, <1>8, Zenon

LEMMA WithoutType ==
    ASSUME NEW M, NEW D, NEW text \in Seq(M)
    PROVE  Without(D, text) \in Seq(M \ D)
  <1> DEFINE P == {t \in Seq(M) : Without(D, t) \in Seq(M \ D)}
  <1>1. <<>> \in P
    BY WithoutEmpty, EmptySeq
  <1>2. ASSUME NEW t \in Seq(M), NEW e \in M, t \in P PROVE Append(t, e) \in P
    <2>1. Append(t, e) \in Seq(M) /\ Without(D, Append(t, e)) = Keep(D, Without(D, t), e)
      BY WithoutAppend, AppendProperties
    <2>2. Keep(D, Without(D, t), e) \in Seq(M \ D)
      BY <1>2, AppendProperties DEF Keep
    <2> QED BY <2>1, <2>2
  <1>3. Seq(M) \subseteq P
    <2> HIDE DEF P
    <2> QED BY <1>1, <1>2, SeqInduction
  <1> QED BY <1>3

LEMMA WithoutConcat ==
    ASSUME NEW M, NEW D, NEW s \in Seq(M), NEW text \in Seq(M)
    PROVE  Without(D, s \o text) = Without(D, s) \o Without(D, text)
  <1> DEFINE P == {t \in Seq(M) : Without(D, s \o t) = Without(D, s) \o Without(D, t)}
  <1>0. Without(D, s) \in Seq(M)
    <2>1. Without(D, s) \in Seq(M \ D)
      BY WithoutType
    <2> QED BY <2>1, SeqOfLarger
  <1>1. <<>> \in P
    <2>1. <<>> \in Seq(M) /\ s \o <<>> = s
      BY EmptySeq, ConcatEmptySeq
    <2>2. Without(D, s) \o <<>> = Without(D, s)
      BY <1>0, ConcatEmptySeq
    <2> QED BY <2>1, <2>2, WithoutEmpty, Zenon
  <1>2. ASSUME NEW t \in Seq(M), NEW e \in M, t \in P PROVE Append(t, e) \in P
    <2>1. Append(t, e) \in Seq(M) /\ s \o t \in Seq(M) /\ s \o Append(t, e) = Append(s \o t, e)
      BY AppendProperties, ConcatProperties, ConcatAppend
    <2>2. /\ Without(D, Append(t, e)) = Keep(D, Without(D, t), e)
          /\ Without(D, Append(s \o t, e)) = Keep(D, Without(D, s \o t), e)
      <3> HIDE DEF P
      <3>1. ASSUME NEW u, u = s \o t
            PROVE  Without(D, Append(u, e)) = Keep(D, Without(D, u), e)
        <4>1. u \in Seq(M)
          BY <2>1, <3>1, Zenon
        <4> QED BY <4>1, WithoutAppend
      <3>2. Without(D, Append(t, e)) = Keep(D, Without(D, t), e)
        BY WithoutAppend
      <3> QED BY <3>1, <3>2, Zenon
    <2>3. Without(D, t) \in Seq(M)
      BY WithoutAppend, Zenon
    <2>4. Without(D, s) \o Append(Without(D, t), e) = Append(Without(D, s) \o Without(D, t), e)
      BY <1>0, <2>3, ConcatAppend
    <2>5. Keep(D, Without(D, s) \o Without(D, t), e) = Without(D, s) \o Keep(D, Without(D, t), e)
      BY <2>4, Zenon DEF Keep
    <2> QED BY <1>2, <2>1, <2>2, <2>5, Zenon
  <1>3. Seq(M) \subseteq P
    <2> HIDE DEF P
    <2> QED BY <1>1, <1>2, SeqInduction
  <1> QED BY <1>3

\* A text of which everything is dropped, and one of which nothing is.
LEMMA WithoutAll ==
    ASSUME NEW D, NEW text \in Seq(D)
    PROVE  Without(D, text) = <<>>
  <1> DEFINE P == {t \in Seq(D) : Without(D, t) = <<>>}
  <1>1. <<>> \in P
    BY WithoutEmpty, EmptySeq
  <1>2. ASSUME NEW t \in Seq(D), NEW e \in D, t \in P PROVE Append(t, e) \in P
    <2>1. Append(t, e) \in Seq(D) /\ Without(D, Append(t, e)) = Keep(D, Without(D, t), e)
      BY WithoutAppend, AppendProperties
    <2> QED BY <1>2, <2>1 DEF Keep
  <1>3. Seq(D) \subseteq P
    <2> HIDE DEF P
    <2> QED BY <1>1, <1>2, SeqInduction
  <1> QED BY <1>3

LEMMA WithoutNone ==
    ASSUME NEW M, NEW D, NEW text \in Seq(M \ D)
    PROVE  Without(D, text) = text
  <1> DEFINE P == {t \in Seq(M \ D) : Without(D, t) = t}
  <1>1. <<>> \in P
    BY WithoutEmpty, EmptySeq
  <1>2. ASSUME NEW t \in Seq(M \ D), NEW e \in M \ D, t \in P PROVE Append(t, e) \in P
    <2>1. Append(t, e) \in Seq(M \ D) /\ Without(D, Append(t, e)) = Keep(D, Without(D, t), e)
      BY WithoutAppend, AppendProperties
    <2> QED BY <1>2, <2>1 DEF Keep
  <1>3. Seq(M \ D) \subseteq P
    <2> HIDE DEF P
    <2> QED BY <1>1, <1>2, SeqInduction
  <1> QED BY <1>3

-----------------------------------------------------------------------------
(* The sentence buffer.                                                    *)

LEMMA TrimKeepsTrimmed ==
    ASSUME NEW M, NEW s \in Seq(M), s # <<>>, s[1] \notin Blanks, s[Len(s)] \notin Blanks
    PROVE  TrimSpace(s) = s
  <1> DEFINE solid == {i \in DOMAIN s : s[i] \notin Blanks}
             n == Len(s)
  <1>1. n \in Nat /\ n >= 1 /\ DOMAIN s = 1..n
    BY EmptySeq, LenProperties
  <1>2. 1 \in solid /\ n \in solid /\ solid \subseteq 1..n
    BY <1>1
  <1> HIDE DEF solid, n
  <1>3. solid # {} /\ solid \subseteq Nat
    BY <1>1, <1>2
  <1>4. Min(solid) = 1 /\ Max(solid) = n
    <2>1. Min(solid) \in solid /\ Min(solid) <= 1
      BY <1>2, <1>3, MinOfNaturals
    <2>2. Max(solid) \in solid /\ n <= Max(solid)
      BY <1>1, <1>2, <1>3, MaxOfPlaces
    <2>3. Min(solid) \in 1..n /\ Max(solid) \in 1..n
      BY <1>2, <2>1, <2>2, Zenon
    <2> QED BY <1>1, <2>1, <2>2, <2>3
  <1>5. SubSeq(s, 1, n) = s
    BY SubSeqFull DEF n
  <1> QED BY <1>3, <1>4, <1>5, Zenon DEF TrimSpace, solid

LEMMA TrimOfBlank ==
    ASSUME NEW M, NEW text \in Seq(M), \A i \in 1..Len(text) : text[i] \in Blanks
    PROVE  TrimSpace(text) = <<>> /\ text \in Seq(Blanks)
  <1>1. DOMAIN text = 1..Len(text) /\ Len(text) \in Nat
    BY LenProperties
  <1>2. {i \in DOMAIN text : text[i] \notin Blanks} = {}
    BY <1>1
  <1>3. TrimSpace(text) = <<>>
    BY <1>2, Zenon DEF TrimSpace
  <1>4. text \in [1..Len(text) -> Blanks]
    BY <1>1
  <1>5. text \in Seq(Blanks)
    BY <1>1, <1>4, FunctionIsSeq
  <1> QED BY <1>3, <1>5

BlankAround(M, mid, text) ==
    \E left \in Seq(M \cap Blanks), right \in Seq(M \cap Blanks) : text = (left \o mid) \o right

\* What TrimSpace takes off is blank, and it leaves nothing to take off.
LEMMA TrimParts ==
    ASSUME NEW M, NEW text \in Seq(M), NEW k \in 1..Len(text), text[k] \notin Blanks
    PROVE  /\ TrimSpace(text) \in Seq(M) \ {<<>>} /\ TrimSpace(TrimSpace(text)) = TrimSpace(text)
           /\ BlankAround(M, TrimSpace(text), text)
  <1> DEFINE solid == {i \in DOMAIN text : text[i] \notin Blanks}
             n == Len(text)
             a == Min(solid)
             b == Max(solid)
             left == SubSeq(text, 1, a - 1)
             mid == SubSeq(text, a, b)
             right == SubSeq(text, b + 1, n)
  <1>1. n \in Nat /\ DOMAIN text = 1..n /\ \A i \in 1..n : text[i] \in M
    BY LenProperties, ElementOfSeq
  <1>2. k \in solid /\ solid \subseteq 1..n /\ \A i \in 1..n : i \notin solid => text[i] \in Blanks
    BY <1>1
  <1>3. TrimSpace(text) = mid
    BY <1>2, Zenon DEF TrimSpace
  <1>4. a \in solid /\ b \in solid /\ \A i \in solid : a <= i /\ i <= b
    <2> HIDE DEF solid, n
    <2>1. solid # {} /\ solid \subseteq Nat
      BY <1>1, <1>2
    <2> QED BY <1>1, <1>2, <2>1, MinOfNaturals, MaxOfPlaces
  <1>5. text[a] \notin Blanks /\ text[b] \notin Blanks
    BY <1>4
  <1> HIDE DEF solid, n, a, b
  <1>6. a \in 1..n /\ b \in a..n
    BY <1>1, <1>2, <1>4
  <1>7. mid \in Seq(M) /\ Len(mid) = b - a + 1 /\ mid[1] = text[a] /\ mid[b - a + 1] = text[b]
    <2>1. /\ mid \in Seq(M) /\ Len(mid) = (IF a <= b THEN b - a + 1 ELSE 0)
          /\ \A i \in 1..(b - a + 1) : mid[i] = text[a + i - 1]
      <3>1. a \in Int /\ b \in Int /\ \A i \in a..b : text[i] \in M
        BY <1>1, <1>6
      <3> QED BY <3>1, SubSeqProperties
    <2> HIDE DEF mid
    <2>2. 1 \in 1..(b - a + 1) /\ a + 1 - 1 = a /\ b - a + 1 \in 1..(b - a + 1) /\ a + (b - a + 1) - 1 = b
      BY <1>1, <1>6
    <2> QED BY <1>6, <2>1, <2>2
  <1>8. left \in Seq(M \cap Blanks)
    <2>1. \A i \in 1..(a - 1) : text[i] \in M \cap Blanks
      BY <1>1, <1>2, <1>4, <1>6
    <2>2. 1 \in Int /\ a - 1 \in Int
      BY <1>1, <1>6
    <2> QED BY <2>1, <2>2, SubSeqProperties
  <1>9. right \in Seq(M \cap Blanks)
    <2>1. \A i \in (b + 1)..n : text[i] \in M \cap Blanks
      BY <1>1, <1>2, <1>4, <1>6
    <2>2. b + 1 \in Int /\ n \in Int
      BY <1>1, <1>6
    <2> QED BY <2>1, <2>2, SubSeqProperties
  <1>10. text = (left \o mid) \o right
    <2>1. left \o mid = SubSeq(text, 1, b)
      <3>1. 1 \in 1..(Len(text) + 1) /\ a - 1 \in (1 - 1)..Len(text) /\ b \in (a - 1)..Len(text)
            /\ (a - 1) + 1 = a
        BY <1>1, <1>6 DEF n
      <3>2. SubSeq(text, 1, a - 1) \o SubSeq(text, (a - 1) + 1, b) = SubSeq(text, 1, b)
        BY <3>1, ConcatAdjacentSubSeq
      <3> QED BY <3>1, <3>2, Zenon
    <2>2. SubSeq(text, 1, b) \o right = SubSeq(text, 1, n)
      <3>1. 1 \in 1..(Len(text) + 1) /\ b \in (1 - 1)..Len(text) /\ n \in b..Len(text)
        BY <1>1, <1>6 DEF n
      <3> QED BY <3>1, ConcatAdjacentSubSeq
    <2>3. SubSeq(text, 1, n) = text
      BY SubSeqFull DEF n
    <2> QED BY <2>1, <2>2, <2>3, Zenon
  <1> HIDE DEF left, mid, right
  <1>11. mid # <<>> /\ mid[Len(mid)] = text[b]
    BY <1>1, <1>6, <1>7, EmptySeq
  <1>12. TrimSpace(mid) = mid
    BY <1>5, <1>7, <1>11, TrimKeepsTrimmed
  <1> QED BY <1>3, <1>7, <1>8, <1>9, <1>10, <1>11, <1>12, Zenon DEF BlankAround

LEMMA SolidConcat ==
    ASSUME NEW M, NEW s \in Seq(M), NEW t \in Seq(M)
    PROVE  Solid(s \o t) = Solid(s) \o Solid(t)
  <1>1. Without(Blanks, s \o t) = Without(Blanks, s) \o Without(Blanks, t)
    BY WithoutConcat
  <1> QED BY <1>1, Zenon DEF Solid

LEMMA TrimSolid ==
    ASSUME NEW M, NEW text \in Seq(M)
    PROVE  /\ TrimSpace(text) \in Seq(M) /\ Solid(TrimSpace(text)) = Solid(text)
           /\ TrimSpace(TrimSpace(text)) = TrimSpace(text)
  <1>1. CASE \A i \in 1..Len(text) : text[i] \in Blanks
    <2>1. TrimSpace(text) = <<>> /\ text \in Seq(Blanks)
      BY <1>1, TrimOfBlank
    <2>2. Solid(text) = <<>> /\ Solid(<<>>) = <<>>
      BY <2>1, WithoutAll, WithoutEmpty DEF Solid
    <2>3. <<>> \in Seq(M) /\ \A i \in 1..Len(<<>>) : <<>>[i] \in Blanks
      BY EmptySeq
    <2>4. TrimSpace(<<>>) = <<>>
      BY <2>3, TrimOfBlank
    <2> QED BY <2>1, <2>2, <2>3, <2>4, Zenon
  <1>2. ASSUME NEW k \in 1..Len(text), text[k] \notin Blanks
        PROVE  /\ TrimSpace(text) \in Seq(M) /\ Solid(TrimSpace(text)) = Solid(text)
               /\ TrimSpace(TrimSpace(text)) = TrimSpace(text)
    <2> DEFINE mid == TrimSpace(text)
    <2>1. mid \in Seq(M) /\ TrimSpace(mid) = mid
      BY <1>2, TrimParts
    <2>2. PICK left \in Seq(M \cap Blanks), right \in Seq(M \cap Blanks) : text = (left \o mid) \o right
      <3>1. BlankAround(M, mid, text)
        BY <1>2, TrimParts
      <3> QED BY <3>1, Zenon DEF BlankAround
    <2> HIDE DEF mid
    <2>3. left \in Seq(Blanks) /\ right \in Seq(Blanks) /\ left \in Seq(M) /\ right \in Seq(M)
      BY SeqOfLarger
    <2>4. Solid(left) = <<>> /\ Solid(right) = <<>> /\ Solid(mid) \in Seq(M \ Blanks)
      BY <2>1, <2>3, WithoutAll, WithoutType DEF Solid
    <2>5. left \o mid \in Seq(M)
      BY <2>1, <2>3, ConcatProperties
    <2>6. Solid(left \o mid) = Solid(left) \o Solid(mid)
      BY <2>1, <2>3, SolidConcat
    <2>7. Solid((left \o mid) \o right) = Solid(left \o mid) \o Solid(right)
      BY <2>3, <2>5, SolidConcat
    <2>8. <<>> \o Solid(mid) = Solid(mid) /\ Solid(mid) \o <<>> = Solid(mid)
      BY <2>4, ConcatEmptySeq
    <2>9. Solid(text) = Solid(mid)
      BY <2>2, <2>4, <2>6, <2>7, <2>8, Zenon
    <2> QED BY <2>1, <2>9 DEF mid
  <1> QED BY <1>1, <1>2

\* A boundary is in the text, and where there is none the text has to wait.
LEMMA BoundaryFacts ==
    ASSUME NEW M, NEW text \in Seq(M)
    PROVE  /\ boundary(text) \in 0..Len(text)
           /\ boundary(text) = 0 =>
                 Len(text) < maxRunes /\ \A i \in 1..Len(text) : text[i] \notin Marks
  <1> DEFINE n == Len(text)
             marks == {i \in DOMAIN text : text[i] \in Marks}
             spaces == {i \in 1..maxRunes : text[i] \in Spaces}
             strong == strongSentenceBoundary(text)
             bounded == boundedPhraseBoundary(text)
  <1>1. n \in Nat /\ DOMAIN text = 1..n /\ maxRunes \in Nat \ {0}
    BY LenProperties, TurnTextAssumption
  <1>2. strong \in 0..n /\ (strong = 0 => marks = {})
    <2>1. marks \subseteq 1..n
      BY <1>1
    <2>2. strong = IF marks = {} THEN 0 ELSE Min(marks)
      BY Zenon DEF strongSentenceBoundary
    <2> HIDE DEF marks, strong
    <2>3. ASSUME marks # {} PROVE Min(marks) \in 1..n
      <3>1. marks \subseteq Nat
        BY <2>1
      <3>2. Min(marks) \in marks
        BY <2>3, <3>1, MinOfNaturals
      <3> QED BY <2>1, <3>2
    <2> QED BY <1>1, <2>2, <2>3
  <1>3. bounded \in 1..maxRunes
    <2>1. bounded = IF Len(text) = maxRunes \/ spaces = {} THEN maxRunes ELSE Max(spaces)
      BY Zenon DEF boundedPhraseBoundary
    <2>2. spaces \subseteq 1..maxRunes
      OBVIOUS
    <2> HIDE DEF spaces, bounded
    <2>3. ASSUME spaces # {} PROVE Max(spaces) \in 1..maxRunes
      BY <1>1, <2>2, <2>3, MaxOfPlaces
    <2>4. maxRunes \in 1..maxRunes
      BY <1>1
    <2> QED BY <2>1, <2>3, <2>4, Zenon
  <1>4. boundary(text) = IF strong = 0 /\ n >= maxRunes THEN bounded ELSE strong
    BY Zenon DEF boundary
  <1>5. marks = {} => \A i \in 1..n : text[i] \notin Marks
    BY <1>1
  <1> HIDE DEF strong, bounded, marks, n
  <1>6. /\ boundary(text) \in 0..n
        /\ boundary(text) = 0 => n < maxRunes /\ \A i \in 1..n : text[i] \notin Marks
    BY <1>1, <1>2, <1>3, <1>4, <1>5
  <1> QED BY <1>6 DEF n

\* The buffer inside takeReady: what it has cut off and what it still holds.
Buffer(M) == [pending : Seq(M), phrases : Seq(Seq(M))]

Carried(b) == Solid(FlattenSeq(b.phrases) \o b.pending)

Neat(ps) == \A i \in 1..Len(ps) : ps[i] # <<>> /\ TrimSpace(ps[i]) = ps[i]

LEMMA NeatConcat ==
    ASSUME NEW M, NEW ps \in Seq(Seq(M)), NEW qs \in Seq(Seq(M)), Neat(ps), Neat(qs)
    PROVE  ps \o qs \in Seq(Seq(M)) /\ Neat(ps \o qs)
  <1> SUFFICES ASSUME NEW rs, rs = ps \o qs PROVE rs \in Seq(Seq(M)) /\ Neat(rs)
    BY Zenon
  <1>1. /\ rs \in Seq(Seq(M)) /\ Len(rs) = Len(ps) + Len(qs)
        /\ \A i \in 1..(Len(ps) + Len(qs)) :
              rs[i] = IF i <= Len(ps) THEN ps[i] ELSE qs[i - Len(ps)]
    BY ConcatProperties
  <1>2. Len(ps) \in Nat /\ Len(qs) \in Nat
    BY LenProperties
  <1>3. ASSUME NEW i \in 1..Len(rs) PROVE rs[i] # <<>> /\ TrimSpace(rs[i]) = rs[i]
    <2>1. i \in 1..(Len(ps) + Len(qs))
      BY <1>1
    <2>2. CASE i <= Len(ps)
      <3>1. i \in 1..Len(ps) /\ rs[i] = ps[i]
        BY <1>1, <1>2, <2>1, <2>2
      <3> QED BY <3>1, Zenon DEF Neat
    <2>3. CASE ~(i <= Len(ps))
      <3>1. i - Len(ps) \in 1..Len(qs) /\ rs[i] = qs[i - Len(ps)]
        BY <1>1, <1>2, <2>1, <2>3
      <3> QED BY <3>1, Zenon DEF Neat
    <2> QED BY <2>2, <2>3
  <1> QED BY <1>1, <1>3 DEF Neat

LEMMA NonEmptyFacts ==
    ASSUME NEW M, NEW text \in Seq(M), TrimSpace(text) = text
    PROVE  /\ NonEmpty(text) \in Seq(Seq(M)) /\ Neat(NonEmpty(text))
           /\ FlattenSeq(NonEmpty(text)) = text
  <1>1. CASE text = <<>>
    <2>1. NonEmpty(text) = <<>>
      BY <1>1 DEF NonEmpty
    <2>2. <<>> \in Seq(Seq(M)) /\ Neat(<<>>)
      BY EmptySeq DEF Neat
    <2> QED BY <1>1, <2>1, <2>2, FlattenEmpty, Zenon
  <1>2. CASE text # <<>>
    <2>1. NonEmpty(text) = <<text>>
      BY <1>2 DEF NonEmpty
    <2>2. <<text>> \in Seq(Seq(M)) /\ Len(<<text>>) = 1 /\ <<text>>[1] = text
      OBVIOUS
    <2>3. Neat(<<text>>)
      BY <1>2, <2>2 DEF Neat
    <2>4. <<>> \in Seq(Seq(M)) /\ Append(<<>>, text) = <<text>>
      OBVIOUS
    <2>5. FlattenSeq(Append(<<>>, text)) = FlattenSeq(<<>>) \o text
      BY <2>4, FlattenAppend
    <2>6. <<>> \o text = text
      BY ConcatEmptySeq
    <2> QED BY <2>1, <2>2, <2>3, <2>4, <2>5, <2>6, FlattenEmpty, Zenon
  <1> QED BY <1>1, <1>2

\* A part of a text may be exchanged for one with the same runes.
LEMMA SolidExchange ==
    ASSUME NEW M, NEW f \in Seq(M), NEW s \in Seq(M), NEW t \in Seq(M), NEW u \in Seq(M),
           Solid(s) = Solid(t)
    PROVE  Solid((f \o s) \o u) = Solid(f \o (t \o u))
  <1>1. f \o s \in Seq(M) /\ t \o u \in Seq(M)
    BY ConcatProperties
  <1>2. /\ Solid(f \o s) = Solid(f) \o Solid(s) /\ Solid(t \o u) = Solid(t) \o Solid(u)
    BY SolidConcat
  <1>3. Solid((f \o s) \o u) = Solid(f \o s) \o Solid(u)
    BY <1>1, SolidConcat
  <1>4. Solid(f \o (t \o u)) = Solid(f) \o Solid(t \o u)
    BY <1>1, SolidConcat
  <1>5. Solid(f) \in Seq(M \ Blanks) /\ Solid(t) \in Seq(M \ Blanks) /\ Solid(u) \in Seq(M \ Blanks)
    BY WithoutType DEF Solid
  <1>6. Associates(Solid(f), Solid(t), Solid(u))
    BY <1>5, Associative
  <1> QED BY <1>2, <1>3, <1>4, <1>6, Zenon DEF Associates

\* One phrase off the buffer: nothing is lost, and the rest is shorter.
TakesOne(M, b, c) ==
    /\ c \in Buffer(M) /\ Carried(c) = Carried(b) /\ Neat(c.phrases)
    /\ boundary(b.pending) = 0 => c = b
    /\ boundary(b.pending) # 0 => Len(c.pending) < Len(b.pending)

LEMMA PhraseTaken ==
    ASSUME NEW M, NEW b \in Buffer(M), Neat(b.phrases)
    PROVE  TakesOne(M, b, takePhrase(b))
  <1> DEFINE at == boundary(b.pending)
             n == Len(b.pending)
             front == SubSeq(b.pending, 1, at)
             back == SubSeq(b.pending, at + 1, n)
             said == NonEmpty(TrimSpace(front))
             c == [pending |-> back, phrases |-> b.phrases \o said]
  <1>1. b.pending \in Seq(M) /\ b.phrases \in Seq(Seq(M))
    BY DEF Buffer
  <1>2. n \in Nat /\ at \in 0..n
    BY <1>1, BoundaryFacts, LenProperties
  <1>3. takePhrase(b) = IF at = 0 THEN b ELSE c
    BY Zenon DEF takePhrase
  <1>4. CASE at = 0
    <2>1. takePhrase(b) = b
      BY <1>3, <1>4
    <2> QED BY <1>4, <2>1, Zenon DEF TakesOne
  <1>5. CASE at # 0
    <2>1. takePhrase(b) = c
      BY <1>3, <1>5
    <2>2. front \in Seq(M) /\ back \in Seq(M) /\ Len(back) < n
      <3> HIDE DEF at
      <3>1. \A i \in 1..n : b.pending[i] \in M
        BY <1>1, ElementOfSeq
      <3>2. \A i \in 1..at : b.pending[i] \in M
        BY <1>2, <3>1
      <3>3. \A i \in (at + 1)..n : b.pending[i] \in M
        BY <1>2, <3>1
      <3>4. 1 \in Int /\ at \in Int /\ at + 1 \in Int /\ n \in Int
        BY <1>2
      <3>5. front \in Seq(M)
        BY <3>2, <3>4, SubSeqProperties
      <3>6. back \in Seq(M) /\ Len(back) = (IF at + 1 <= n THEN n - (at + 1) + 1 ELSE 0)
        BY <3>3, <3>4, SubSeqProperties
      <3> HIDE DEF back, n
      <3>7. Len(back) < n
        BY <1>2, <1>5, <3>6
      <3> QED BY <3>5, <3>6, <3>7
    <2>3. b.pending = front \o back
      <3>1. 1 \in 1..(Len(b.pending) + 1) /\ at \in (1 - 1)..Len(b.pending) /\ n \in at..Len(b.pending)
        BY <1>2
      <3>2. front \o back = SubSeq(b.pending, 1, n)
        BY <1>1, <3>1, ConcatAdjacentSubSeq
      <3>3. SubSeq(b.pending, 1, n) = b.pending
        BY <1>1, SubSeqFull
      <3> QED BY <3>2, <3>3, Zenon
    <2> HIDE DEF front, back, at, n
    <2>4. /\ TrimSpace(front) \in Seq(M) /\ Solid(TrimSpace(front)) = Solid(front)
          /\ TrimSpace(TrimSpace(front)) = TrimSpace(front)
      BY <2>2, TrimSolid
    <2>5. said \in Seq(Seq(M)) /\ Neat(said) /\ FlattenSeq(said) = TrimSpace(front)
      BY <2>4, NonEmptyFacts
    <2> HIDE DEF said
    <2>6. b.phrases \o said \in Seq(Seq(M)) /\ Neat(b.phrases \o said)
      BY <1>1, <2>5, NeatConcat
    <2>7. FlattenSeq(b.phrases \o said) = FlattenSeq(b.phrases) \o TrimSpace(front)
      <3>1. FlattenSeq(b.phrases \o said) = FlattenSeq(b.phrases) \o FlattenSeq(said)
        BY <1>1, <2>5, FlattenConcat
      <3> QED BY <2>5, <3>1, Zenon
    <2>8. FlattenSeq(b.phrases) \in Seq(M)
      BY <1>1, FlattenType
    <2>9. Solid((FlattenSeq(b.phrases) \o TrimSpace(front)) \o back)
            = Solid(FlattenSeq(b.phrases) \o (front \o back))
      BY <2>2, <2>4, <2>8, SolidExchange
    <2>10. c.pending = back /\ c.phrases = b.phrases \o said
      BY Zenon
    <2>11. c \in Buffer(M)
      BY <2>2, <2>6, Zenon DEF Buffer
    <2> HIDE DEF c
    <2>12. Carried(c) = Carried(b)
      BY <2>3, <2>7, <2>9, <2>10, Zenon DEF Carried
    <2>13. Neat(c.phrases) /\ Len(c.pending) < Len(b.pending)
      BY <2>2, <2>6, <2>10, Zenon DEF n
    <2> QED BY <1>5, <2>1, <2>11, <2>12, <2>13, Zenon DEF TakesOne, at
  <1> QED BY <1>4, <1>5

\* What a call of takeReady has cut off and left.
Takes(M, text, b) ==
    /\ b \in Buffer(M) /\ Carried(b) = Solid(text) /\ Neat(b.phrases)
    /\ Len(b.pending) < maxRunes /\ \A i \in 1..Len(b.pending) : b.pending[i] \notin Marks

NeatBuffer(M) == {b \in Buffer(M) : Neat(b.phrases)}

TakeStep(M, n) == [i \in 1..n |-> [b \in NeatBuffer(M) |-> takePhrase(b)]]

LEMMA ReadyTaken ==
    ASSUME NEW M, NEW text \in Seq(M)
    PROVE  Takes(M, text, takeReady(text))
  <1> DEFINE n == Len(text)
             T == NeatBuffer(M)
             base == [pending |-> text, phrases |-> <<>>]
             step == TakeStep(M, n)
             Ready(f) == f = [i \in 0..n |-> IF i = 0 THEN base ELSE takePhrase(f[i - 1])]
             c == CHOOSE f : Ready(f)
  <1>1. n \in Nat
    BY LenProperties
  <1>2. base \in T /\ Carried(base) = Solid(text) /\ base.pending = text
    <2>1. <<>> \in Seq(Seq(M)) /\ Neat(<<>>)
      BY EmptySeq DEF Neat
    <2>2. base.pending = text /\ base.phrases = <<>>
      BY Zenon
    <2>3. base \in T
      BY <2>1, <2>2, Zenon DEF NeatBuffer, Buffer
    <2>4. <<>> \o text = text
      BY ConcatEmptySeq
    <2> HIDE DEF base
    <2> QED BY <2>2, <2>3, <2>4, FlattenEmpty, Zenon DEF Carried
  <1>3. \A b \in T : takePhrase(b) \in T
    BY PhraseTaken DEF TakesOne, NeatBuffer
  <1> HIDE DEF T, base
  <1>4. step \in Steps(T, n) /\ \A i \in 1..n, b \in T : step[i][b] = takePhrase(b)
    <2>1. step = [i \in 1..n |-> [b \in T |-> takePhrase(b)]]
      BY Zenon DEF TakeStep, T
    <2> HIDE DEF step
    <2>2. [b \in T |-> takePhrase(b)] \in [T -> T]
      BY <1>3, Zenon
    <2>3. \A i \in 1..n : step[i] = [b \in T |-> takePhrase(b)]
      BY <2>1, Zenon
    <2>4. step \in [1..n -> [T -> T]]
      BY <2>1, <2>2, Zenon
    <2>5. ASSUME NEW i \in 1..n, NEW b \in T PROVE step[i][b] = takePhrase(b)
      <3>1. step[i] = [d \in T |-> takePhrase(d)]
        BY <2>3, Zenon
      <3> QED BY <3>1, Zenon
    <2> QED BY <2>4, <2>5, Zenon DEF Steps
  <1>5. takeReady(text) = c[n]
    BY Zenon DEF takeReady, base
  <1> HIDE DEF step
  <1>6. Ready(c)
    <2>1. PICK f \in [0..n -> T] : Iterates(f, T, n, base, step)
      BY <1>1, <1>2, <1>4, Recursion
    <2>2. f[0] = base
      BY <2>1, Zenon DEF Iterates
    <2>3. ASSUME NEW i \in 0..n, i # 0 PROVE f[i] = takePhrase(f[i - 1])
      <3>1. i \in 1..n /\ i - 1 \in 0..n
        BY <1>1, <2>3
      <3>2. f[i] = step[i][f[i - 1]] /\ f[i - 1] \in T
        BY <2>1, <3>1, Zenon DEF Iterates
      <3> QED BY <1>4, <3>1, <3>2, Zenon
    <2>4. Ready(f)
      BY <2>2, <2>3, Zenon
    <2> HIDE DEF Ready
    <2> QED BY <2>4, Zenon
  <1> HIDE DEF c, n
  <1>7. c[0] = base
    <2>1. 0 \in 0..n
      BY <1>1
    <2> QED BY <1>6, <2>1, Zenon
  <1>8. ASSUME NEW k \in Nat, k + 1 \in 0..n PROVE c[k + 1] = takePhrase(c[k])
    <2>1. k + 1 # 0 /\ (k + 1) - 1 = k
      OBVIOUS
    <2> QED BY <1>6, <1>8, <2>1, Zenon
  <1> HIDE DEF Ready
  <1> DEFINE Good(b, k) ==
                /\ b \in T /\ Carried(b) = Solid(text)
                /\ boundary(b.pending) = 0 \/ Len(b.pending) + k <= n
             N == {k \in Nat : k \in 0..n => Good(c[k], k)}
  <1>9. 0 \in N
    <2>1. Len(text) + 0 <= n
      BY <1>1 DEF n
    <2> QED BY <1>2, <1>7, <2>1, Zenon
  <1>10. ASSUME NEW k \in Nat, k \in N PROVE k + 1 \in N
    <2>0. k + 1 \in Nat
      OBVIOUS
    <2> SUFFICES ASSUME k + 1 \in 0..n PROVE Good(c[k + 1], k + 1)
      BY <2>0, Zenon
    <2>1. k \in 0..n
      BY <1>1
    <2>2. Good(c[k], k)
      BY <1>10, <2>1, Zenon
    <2> DEFINE b == c[k]
               d == takePhrase(b)
    <2>3. c[k + 1] = d
      BY <1>8, Zenon
    <2> HIDE DEF b
    <2>4. TakesOne(M, b, d) /\ d \in T
      <3>1. b \in T
        BY <2>2, Zenon DEF b
      <3>2. b \in Buffer(M) /\ Neat(b.phrases)
        BY <3>1, Zenon DEF T, NeatBuffer
      <3> QED BY <1>3, <3>1, <3>2, PhraseTaken, Zenon
    <2> HIDE DEF d
    <2>5. Carried(d) = Solid(text)
      BY <2>2, <2>4, Zenon DEF TakesOne, b
    <2>6. boundary(d.pending) = 0 \/ Len(d.pending) + (k + 1) <= n
      <3>1. CASE boundary(b.pending) = 0
        <4>1. d = b
          BY <2>4, <3>1, Zenon DEF TakesOne
        <4> QED BY <3>1, <4>1, Zenon
      <3>2. CASE boundary(b.pending) # 0
        <4>1. Len(b.pending) + k <= n
          BY <2>2, <3>2, Zenon DEF b
        <4>2. Len(d.pending) < Len(b.pending)
          BY <2>4, <3>2, Zenon DEF TakesOne
        <4>3. b \in Buffer(M) /\ d \in Buffer(M)
          BY <2>2, <2>4, Zenon DEF T, NeatBuffer, b
        <4>4. Len(b.pending) \in Nat /\ Len(d.pending) \in Nat
          BY <4>3, LenProperties DEF Buffer
        <4>5. ASSUME NEW x \in Nat, NEW y \in Nat, x + k <= n, y < x PROVE y + (k + 1) <= n
          BY <1>1, <4>5
        <4> QED BY <4>1, <4>2, <4>4, <4>5, Zenon
      <3> QED BY <3>1, <3>2
    <2>7. Good(d, k + 1)
      BY <2>4, <2>5, <2>6, Zenon
    <2> QED BY <2>3, <2>7, Zenon
  <1>11. Nat \subseteq N
    <2> HIDE DEF N
    <2> QED BY <1>9, <1>10, InductiveSet
  <1>12. Good(c[n], n)
    <2>1. n \in 0..n /\ n \in Nat
      BY <1>1
    <2> QED BY <1>11, <2>1, Zenon
  <1> DEFINE b == c[n]
  <1> HIDE DEF b
  <1>13. b \in Buffer(M) /\ Neat(b.phrases) /\ Carried(b) = Solid(text)
         /\ (boundary(b.pending) = 0 \/ Len(b.pending) + n <= n)
    BY <1>12, Zenon DEF T, NeatBuffer, b
  <1>14. b.pending \in Seq(M) /\ Len(b.pending) \in Nat
    BY <1>13, LenProperties DEF Buffer
  <1>15. /\ boundary(b.pending) \in 0..Len(b.pending)
         /\ boundary(b.pending) = 0 =>
               Len(b.pending) < maxRunes /\ \A i \in 1..Len(b.pending) : b.pending[i] \notin Marks
    BY <1>14, BoundaryFacts
  <1>16. boundary(b.pending) = 0
    BY <1>1, <1>13, <1>14, <1>15
  <1> QED BY <1>5, <1>13, <1>15, <1>16, Zenon DEF Takes, b

\* Waiting for more text takes a short text without a mark.
Waits(text) == Len(text) < maxRunes /\ \A i \in 1..Len(text) : text[i] \notin Marks

\* What ReplySpokenWhole rests on: before the reply the buffer is already in order.
ReplyInv ==
    /\ given \in Seq(Runes) /\ pending \in Seq(Runes) /\ phrases \in Seq(Seq(Runes))
    /\ Solid(FlattenSeq(phrases) \o pending) = Solid(given)
    /\ Neat(phrases)
    /\ phase # "spoken" => Waits(pending)
    /\ phase = "spoken" => pending = <<>>

\* The phrases of a call behind those of the earlier ones.
LEMMA CarriedOn ==
    ASSUME NEW M, NEW ps \in Seq(Seq(M)), NEW old \in Seq(M), NEW all \in Seq(M), NEW delta \in Seq(M),
           NEW b, Takes(M, old \o delta, b), Neat(ps),
           Solid(FlattenSeq(ps) \o old) = Solid(all)
    PROVE  /\ ps \o b.phrases \in Seq(Seq(M)) /\ Neat(ps \o b.phrases) /\ b.pending \in Seq(M)
           /\ Solid(FlattenSeq(ps \o b.phrases) \o b.pending) = Solid(all \o delta)
           /\ Waits(b.pending)
  <1> DEFINE f == FlattenSeq(ps)
             g == FlattenSeq(b.phrases)
  <1>1. b.pending \in Seq(M) /\ b.phrases \in Seq(Seq(M)) /\ Neat(b.phrases) /\ Waits(b.pending)
        /\ Carried(b) = Solid(old \o delta)
    BY Zenon DEF Takes, Waits, Buffer
  <1>2. ps \o b.phrases \in Seq(Seq(M)) /\ Neat(ps \o b.phrases)
    BY <1>1, NeatConcat
  <1>3. FlattenSeq(ps \o b.phrases) = f \o g
    BY <1>1, FlattenConcat
  <1>4. f \in Seq(M) /\ g \in Seq(M)
    BY <1>1, FlattenType
  <1> HIDE DEF f
  <1>5. Solid(g \o b.pending) = Solid(old \o delta)
    BY <1>1, Zenon DEF Carried
  <1> HIDE DEF g
  <1>6. Solid((f \o g) \o b.pending) = Solid(f \o (old \o delta))
    <2>1. g \o b.pending \in Seq(M) /\ old \o delta \in Seq(M)
      BY <1>1, <1>4, ConcatProperties
    <2>2. Associates(f, g, b.pending)
      BY <1>1, <1>4, Associative
    <2>3. Solid(f \o (g \o b.pending)) = Solid(f) \o Solid(g \o b.pending)
      BY <1>4, <2>1, SolidConcat
    <2>4. Solid(f \o (old \o delta)) = Solid(f) \o Solid(old \o delta)
      BY <1>4, <2>1, SolidConcat
    <2> QED BY <1>5, <2>2, <2>3, <2>4, Zenon DEF Associates
  <1>7. Solid(f \o (old \o delta)) = Solid(all \o delta)
    <2>1. f \o old \in Seq(M)
      BY <1>4, ConcatProperties
    <2>2. Associates(f, old, delta)
      BY <1>4, Associative
    <2>3. Solid((f \o old) \o delta) = Solid(f \o old) \o Solid(delta)
      BY <2>1, SolidConcat
    <2>4. Solid(all \o delta) = Solid(all) \o Solid(delta)
      BY SolidConcat
    <2>5. Solid(f \o old) = Solid(all)
      BY Zenon DEF f
    <2> QED BY <2>2, <2>3, <2>4, <2>5, Zenon DEF Associates
  <1> QED BY <1>1, <1>2, <1>3, <1>6, <1>7, Zenon

LEMMA ReplyInit == Init => ReplyInv
  <1> SUFFICES ASSUME Init PROVE ReplyInv
    OBVIOUS
  <1>1. given = <<>> /\ pending = <<>> /\ phrases = <<>> /\ phase # "spoken"
    BY DEF Init
  <1>2. <<>> \in Seq(Runes) /\ <<>> \in Seq(Seq(Runes)) /\ <<>> \o <<>> = <<>> /\ Neat(<<>>)
    BY EmptySeq, ConcatEmptySeq DEF Neat
  <1>3. Waits(<<>>)
    BY TurnTextAssumption, EmptySeq DEF Waits
  <1> QED BY <1>1, <1>2, <1>3, FlattenEmpty, Zenon DEF ReplyInv

LEMMA ReplyStep ==
    ASSUME ReplyInv, [Next]_vars
    PROVE  ReplyInv'
  <1>0. /\ given \in Seq(Runes) /\ pending \in Seq(Runes) /\ phrases \in Seq(Seq(Runes))
        /\ Solid(FlattenSeq(phrases) \o pending) = Solid(given) /\ Neat(phrases)
    BY Zenon DEF ReplyInv
  <1>1. ASSUME UNCHANGED <<given, pending, phrases>>, phase' # "spoken", phase # "spoken"
        PROVE  ReplyInv'
    BY <1>1 DEF ReplyInv, Neat, Waits, Solid
  <1>2. CASE Hear
    BY <1>1, <1>2 DEF Hear
  <1>3. CASE Judge
    BY <1>1, <1>3 DEF Judge
  <1>4. CASE DeltaArrives
    <2>1. PICK n \in 1..MaxDelta : \E delta \in [1..n -> Runes] :
             Push(delta) /\ given' = given \o delta
      BY <1>4, Zenon DEF DeltaArrives
    <2>2. PICK delta \in [1..n -> Runes] : Push(delta) /\ given' = given \o delta
      BY <2>1, Zenon
    <2>3. delta \in Seq(Runes)
      <3>1. n \in Nat
        BY TurnTextAssumption
      <3> QED BY <3>1, FunctionIsSeq
    <2>4. phase' # "spoken"
      BY <1>4 DEF DeltaArrives
    <2> DEFINE b == takeReady(pending \o delta)
    <2>5. pending' = b.pending /\ phrases' = phrases \o b.phrases
      BY <2>2, Zenon DEF Push
    <2>6. Takes(Runes, pending \o delta, b)
      <3>1. pending \o delta \in Seq(Runes)
        BY <1>0, <2>3, ConcatProperties
      <3> QED BY <3>1, ReadyTaken
    <2> HIDE DEF b
    <2>7. /\ phrases \o b.phrases \in Seq(Seq(Runes)) /\ Neat(phrases \o b.phrases)
          /\ b.pending \in Seq(Runes)
          /\ Solid(FlattenSeq(phrases \o b.phrases) \o b.pending) = Solid(given \o delta)
          /\ Waits(b.pending)
      BY <1>0, <2>3, <2>6, CarriedOn
    <2>8. given \o delta \in Seq(Runes)
      BY <1>0, <2>3, ConcatProperties
    <2>9. /\ phrases' \in Seq(Seq(Runes)) /\ Neat(phrases') /\ pending' \in Seq(Runes)
          /\ Solid(FlattenSeq(phrases') \o pending') = Solid(given')
          /\ Waits(pending') /\ given' \in Seq(Runes)
      BY <2>2, <2>5, <2>7, <2>8, Zenon
    <2> QED BY <2>4, <2>9, Zenon DEF ReplyInv, Solid, Neat, Waits
  <1>5. CASE ReplyEnds
    <2>1. Flush /\ phase' = "spoken" /\ given' = given
      BY <1>5 DEF ReplyEnds
    <2> DEFINE b == takeReady(pending)
               last == NonEmpty(TrimSpace(b.pending))
               said == phrases \o b.phrases
    <2>2. pending' = <<>> /\ phrases' = (phrases \o b.phrases) \o last
      BY <2>1, Zenon DEF Flush
    <2>3. pending \o <<>> = pending /\ given \o <<>> = given /\ <<>> \in Seq(Runes)
      BY <1>0, ConcatEmptySeq, EmptySeq
    <2>4. Takes(Runes, pending \o <<>>, b)
      BY <1>0, <2>3, ReadyTaken
    <2> HIDE DEF b
    <2>5. /\ said \in Seq(Seq(Runes)) /\ Neat(said) /\ b.pending \in Seq(Runes)
          /\ Solid(FlattenSeq(said) \o b.pending) = Solid(given \o <<>>)
      <3>1. ASSUME NEW old \in Seq(Runes), old = pending, NEW all \in Seq(Runes), all = given,
                   NEW none \in Seq(Runes), none = <<>>
            PROVE  /\ said \in Seq(Seq(Runes)) /\ Neat(said) /\ b.pending \in Seq(Runes)
                   /\ Solid(FlattenSeq(said) \o b.pending) = Solid(all \o none)
        <4>1. Takes(Runes, old \o none, b) /\ Solid(FlattenSeq(phrases) \o old) = Solid(all)
          BY <1>0, <2>4, <3>1, Zenon
        <4> QED BY <1>0, <4>1, CarriedOn
      <3> QED BY <1>0, <2>3, <3>1, Zenon
    <2> HIDE DEF said
    <2>6. /\ TrimSpace(b.pending) \in Seq(Runes) /\ Solid(TrimSpace(b.pending)) = Solid(b.pending)
          /\ TrimSpace(TrimSpace(b.pending)) = TrimSpace(b.pending)
      BY <2>5, TrimSolid
    <2>7. last \in Seq(Seq(Runes)) /\ Neat(last) /\ FlattenSeq(last) = TrimSpace(b.pending)
      BY <2>6, NonEmptyFacts
    <2> HIDE DEF last
    <2>8. said \o last \in Seq(Seq(Runes)) /\ Neat(said \o last)
      BY <2>5, <2>7, NeatConcat
    <2>9. FlattenSeq(said \o last) = FlattenSeq(said) \o FlattenSeq(last) /\ FlattenSeq(said) \in Seq(Runes)
      BY <2>5, <2>7, FlattenConcat, FlattenType
    <2>10. Solid((FlattenSeq(said) \o TrimSpace(b.pending)) \o <<>>)
             = Solid(FlattenSeq(said) \o (b.pending \o <<>>))
      <3>1. ASSUME NEW none \in Seq(Runes)
            PROVE  Solid((FlattenSeq(said) \o TrimSpace(b.pending)) \o none)
                     = Solid(FlattenSeq(said) \o (b.pending \o none))
        BY <2>5, <2>6, <2>9, SolidExchange
      <3> QED BY <2>3, <3>1, Zenon
    <2>11. b.pending \o <<>> = b.pending
      BY <2>5, ConcatEmptySeq
    <2>12. phrases' = said \o last
      BY <2>2, Zenon DEF said
    <2>13. Solid(FlattenSeq(phrases') \o pending') = Solid(given')
      BY <2>1, <2>2, <2>3, <2>5, <2>7, <2>9, <2>10, <2>11, <2>12, Zenon
    <2>14. phrases' \in Seq(Seq(Runes)) /\ Neat(phrases') /\ pending' \in Seq(Runes) /\ given' \in Seq(Runes)
      BY <1>0, <2>1, <2>2, <2>3, <2>8, <2>12, Zenon
    <2> QED BY <2>1, <2>2, <2>13, <2>14, Zenon DEF ReplyInv, Solid, Neat, Waits
  <1>6. CASE UNCHANGED vars
    BY <1>6 DEF vars, ReplyInv, Neat, Waits, Solid
  <1> QED BY <1>2, <1>3, <1>4, <1>5, <1>6 DEF Next

\* However the agent cuts its reply into deltas, the sentence buffer (Push, Flush)
\* hands all of it to the synthesizer, once and in order, in phrases that are not
\* blank, and holds back only a short text without a sentence mark.
THEOREM SpokenWhole == Spec => []ReplySpokenWhole
  <1>1. ReplyInv => ReplySpokenWhole
    <2> SUFFICES ASSUME ReplyInv PROVE ReplySpokenWhole
      OBVIOUS
    <2>1. pending \in Seq(Runes) /\ phrases \in Seq(Seq(Runes))
      BY Zenon DEF ReplyInv
    <2>2. DOMAIN pending = 1..Len(pending) /\ DOMAIN phrases = 1..Len(phrases)
      BY <2>1, LenProperties
    <2>3. phase = "reply" => phase # "spoken"
      OBVIOUS
    <2> QED BY <2>2, <2>3, Zenon DEF ReplyInv, ReplySpokenWhole, Neat, Waits
  <1> QED BY <1>1, ReplyInit, ReplyStep, PTL DEF Spec

-----------------------------------------------------------------------------
(* The wake gate.                                                          *)

\* A phrase stands at a place of words exactly if words is what comes before it,
\* the phrase, and what comes after it.
LEMMA AroundIff ==
    ASSUME NEW S, NEW words \in Seq(S), NEW phrase \in Seq(S), NEW i \in Nat,
           i + Len(phrase) <= Len(words)
    PROVE  tokenSequenceMatches(words, i, phrase) <=> Around(words, i, phrase)
  <1> DEFINE n == Len(words)
             p == Len(phrase)
             front == SubSeq(words, 1, i)
             mid == SubSeq(words, i + 1, i + p)
             back == SubSeq(words, i + p + 1, n)
  <1>1. n \in Nat /\ p \in Nat /\ i + p <= n
    BY LenProperties
  <1>2. words = (front \o mid) \o back
    <2>1. front \o mid = SubSeq(words, 1, i + p)
      <3>1. 1 \in 1..(Len(words) + 1) /\ i \in (1 - 1)..Len(words) /\ i + p \in i..Len(words)
        BY <1>1
      <3> QED BY <3>1, ConcatAdjacentSubSeq
    <2>2. SubSeq(words, 1, i + p) \o back = SubSeq(words, 1, n)
      <3>1. 1 \in 1..(Len(words) + 1) /\ i + p \in (1 - 1)..Len(words) /\ n \in (i + p)..Len(words)
        BY <1>1
      <3> QED BY <3>1, ConcatAdjacentSubSeq
    <2>3. SubSeq(words, 1, n) = words
      BY SubSeqFull
    <2> QED BY <2>1, <2>2, <2>3, Zenon
  <1>3. /\ tokenSequenceMatches(words, i, phrase) <=> mid = phrase
        /\ Around(words, i, phrase) <=> words = (front \o phrase) \o back
    BY Zenon DEF tokenSequenceMatches, Around
  <1>4. ASSUME words = (front \o phrase) \o back PROVE mid = phrase
    <2>1. front \in Seq(S) /\ Len(front) = i
      <3>1. 0 \in Nat /\ 0 <= i /\ i <= Len(words) /\ 0 + 1 = 1 /\ i - 0 = i
        BY <1>1
      <3>2. SubSeq(words, 0 + 1, i) \in Seq(S) /\ Len(SubSeq(words, 0 + 1, i)) = i - 0
        BY <3>1, SubSeqFacts
      <3> QED BY <3>1, <3>2, Zenon
    <2>2. /\ mid \in Seq(S) /\ Len(mid) = p /\ \A j \in 1..p : mid[j] = words[i + j]
      <3>1. i + p \in Nat /\ i <= i + p /\ i + p <= Len(words) /\ (i + p) - i = p
        BY <1>1
      <3>2. /\ mid \in Seq(S) /\ Len(mid) = (i + p) - i
            /\ \A j \in 1..((i + p) - i) : mid[j] = words[i + j]
        BY <3>1, SubSeqFacts
      <3> HIDE DEF mid, p
      <3> QED BY <3>1, <3>2
    <2>3. back \in Seq(S)
      <3>1. i + p \in Nat /\ i + p <= n /\ n <= Len(words) /\ n \in Nat
        BY <1>1
      <3> QED BY <3>1, SubSeqFacts
    <2> HIDE DEF front, mid, back
    <2> DEFINE a == front \o phrase
    <2>4. /\ a \in Seq(S) /\ Len(a) = i + p
          /\ \A k \in 1..(i + p) : a[k] = IF k <= i THEN front[k] ELSE phrase[k - i]
      BY <2>1, ConcatProperties
    <2> HIDE DEF a
    <2>5. \A k \in 1..(Len(a) + Len(back)) :
             (a \o back)[k] = IF k <= Len(a) THEN a[k] ELSE back[k - Len(a)]
      BY <2>3, <2>4, ConcatProperties
    <2>6. words = a \o back
      BY <1>4, Zenon DEF a
    <2>7. ASSUME NEW j \in 1..p PROVE mid[j] = phrase[j]
      <3>1. i + j \in 1..(i + p) /\ ~(i + j <= i) /\ (i + j) - i = j
        BY <1>1
      <3>2. a[i + j] = phrase[j]
        BY <2>4, <3>1
      <3>3. Len(back) \in Nat
        BY <2>3, LenProperties
      <3>4. i + j \in 1..(Len(a) + Len(back)) /\ i + j <= Len(a)
        BY <1>1, <2>4, <3>1, <3>3
      <3>5. words[i + j] = a[i + j]
        BY <2>5, <2>6, <3>4
      <3> QED BY <2>2, <3>2, <3>5
    <2> QED BY <2>2, <2>7, SeqEqual
  <1> QED BY <1>2, <1>3, <1>4, Zenon

\* The two halves of a concatenation.
LEMMA ConcatHalves ==
    ASSUME NEW S, NEW s \in Seq(S), NEW t \in Seq(S)
    PROVE  /\ SubSeq(s \o t, 1, Len(s)) = s
           /\ SubSeq(s \o t, Len(s) + 1, Len(s \o t)) = t
  <1> SUFFICES ASSUME NEW u, u = s \o t, NEW m, m = Len(s), NEW n, n = Len(t)
               PROVE  SubSeq(u, 1, m) = s /\ SubSeq(u, m + 1, Len(u)) = t
    BY Zenon
  <1>1. m \in Nat /\ n \in Nat
    BY LenProperties
  <1>2. u \in Seq(S) /\ Len(u) = m + n /\ \A i \in 1..(m + n) : u[i] = IF i <= m THEN s[i] ELSE t[i - m]
    BY ConcatProperties
  <1>3. SubSeq(u, 1, m) = s
    <2>1. 0 \in Nat /\ 0 <= m /\ m <= Len(u) /\ 0 + 1 = 1 /\ m - 0 = m
      BY <1>1, <1>2
    <2> DEFINE v == SubSeq(u, 0 + 1, m)
    <2>2. v \in Seq(S) /\ Len(v) = m - 0 /\ \A i \in 1..(m - 0) : v[i] = u[0 + i]
      BY <1>1, <1>2, <2>1, SubSeqFacts
    <2> HIDE DEF v
    <2>3. ASSUME NEW i \in 1..m PROVE v[i] = s[i]
      <3>1. i \in 1..(m + n) /\ i <= m /\ 0 + i = i /\ i \in 1..(m - 0)
        BY <1>1
      <3> QED BY <1>2, <2>2, <3>1
    <2>4. v = s
      BY <2>1, <2>2, <2>3, SeqEqual
    <2> QED BY <2>1, <2>4, Zenon DEF v
  <1>4. SubSeq(u, m + 1, Len(u)) = t
    <2>1. m + n \in Nat /\ m <= m + n /\ m + n <= Len(u) /\ (m + n) - m = n
      BY <1>1, <1>2
    <2> DEFINE v == SubSeq(u, m + 1, m + n)
    <2>2. v \in Seq(S) /\ Len(v) = (m + n) - m /\ \A i \in 1..((m + n) - m) : v[i] = u[m + i]
      BY <1>1, <1>2, <2>1, SubSeqFacts
    <2> HIDE DEF v
    <2>3. ASSUME NEW i \in 1..n PROVE v[i] = t[i]
      <3>1. m + i \in 1..(m + n) /\ ~(m + i <= m) /\ (m + i) - m = i /\ i \in 1..((m + n) - m)
        BY <1>1
      <3> QED BY <1>2, <2>2, <3>1
    <2>4. v = t
      BY <2>1, <2>2, <2>3, SeqEqual
    <2> QED BY <1>2, <2>4, Zenon DEF v
  <1> QED BY <1>3, <1>4

Text == Seq(Words \cup Punctuation)

\* The normalised spelling of tokens, word by word.
Spelled(tokens) == [i \in DOMAIN tokens |-> normalizeWord[tokens[i]]]

LEMMA SpelledFacts ==
    ASSUME NEW tokens \in Seq(Words)
    PROVE  /\ Spelled(tokens) \in Seq(STRING) /\ Len(Spelled(tokens)) = Len(tokens)
           /\ \A i \in 1..Len(tokens) : Spelled(tokens)[i] = normalizeWord[tokens[i]]
  <1> DEFINE n == Len(tokens)
  <1>1. n \in Nat /\ DOMAIN tokens = 1..n /\ \A i \in 1..n : tokens[i] \in Words
    BY LenProperties, ElementOfSeq
  <1>2. Spelled(tokens) = [i \in 1..n |-> normalizeWord[tokens[i]]]
    BY <1>1, Zenon DEF Spelled
  <1>3. \A i \in 1..n : normalizeWord[tokens[i]] \in STRING
    BY <1>1, TurnTextAssumption
  <1> HIDE DEF n
  <1>4. Spelled(tokens) \in [1..n -> STRING]
    BY <1>2, <1>3, Zenon
  <1>5. Spelled(tokens) \in Seq(STRING) /\ Len(Spelled(tokens)) = n
    BY <1>1, <1>4, FunctionIsSeq
  <1>6. \A i \in 1..n : Spelled(tokens)[i] = normalizeWord[tokens[i]]
    BY <1>2, Zenon
  <1> QED BY <1>5, <1>6 DEF n

LEMMA SpelledConcat ==
    ASSUME NEW s \in Seq(Words), NEW t \in Seq(Words)
    PROVE  Spelled(s \o t) = Spelled(s) \o Spelled(t)
  <1> SUFFICES ASSUME NEW u, u = s \o t, NEW a, a = Spelled(s), NEW b, b = Spelled(t), NEW c, c = Spelled(u),
                      NEW m, m = Len(s), NEW n, n = Len(t)
               PROVE  c = a \o b
    BY Zenon
  <1>1. m \in Nat /\ n \in Nat
    BY LenProperties
  <1>2. /\ u \in Seq(Words) /\ Len(u) = m + n
        /\ \A i \in 1..(m + n) : u[i] = IF i <= m THEN s[i] ELSE t[i - m]
    BY ConcatProperties
  <1>3. /\ a \in Seq(STRING) /\ Len(a) = m /\ \A i \in 1..m : a[i] = normalizeWord[s[i]]
        /\ b \in Seq(STRING) /\ Len(b) = n /\ \A i \in 1..n : b[i] = normalizeWord[t[i]]
    BY SpelledFacts
  <1>4. c \in Seq(STRING) /\ Len(c) = m + n /\ \A i \in 1..(m + n) : c[i] = normalizeWord[u[i]]
    BY <1>2, SpelledFacts
  <1> DEFINE d == a \o b
  <1>5. d \in Seq(STRING) /\ Len(d) = m + n /\ \A i \in 1..(m + n) : d[i] = IF i <= m THEN a[i] ELSE b[i - m]
    <2>1. /\ a \o b \in Seq(STRING) /\ Len(a \o b) = Len(a) + Len(b)
          /\ \A i \in 1..(Len(a) + Len(b)) : (a \o b)[i] = IF i <= Len(a) THEN a[i] ELSE b[i - Len(a)]
      <3>1. a \in Seq(STRING) /\ b \in Seq(STRING)
        BY <1>3, Zenon
      <3> QED BY <3>1, ConcatProperties, Zenon
    <2> QED BY <1>3, <2>1, Zenon
  <1> HIDE DEF d
  <1>6. ASSUME NEW i \in 1..(m + n) PROVE c[i] = d[i]
    <2>1. CASE i <= m
      <3>1. i \in 1..m
        BY <1>1, <2>1
      <3>2. u[i] = s[i] /\ d[i] = a[i]
        BY <1>2, <1>5, <2>1
      <3>3. a[i] = normalizeWord[s[i]]
        BY <1>3, <3>1, Zenon
      <3>4. c[i] = normalizeWord[u[i]]
        BY <1>4, Zenon
      <3> QED BY <3>2, <3>3, <3>4, Zenon
    <2>2. CASE ~(i <= m)
      <3>1. i - m \in 1..n
        BY <1>1, <2>2
      <3>2. u[i] = t[i - m] /\ d[i] = b[i - m]
        BY <1>2, <1>5, <2>2
      <3>3. b[i - m] = normalizeWord[t[i - m]]
        BY <1>3, <3>1, Zenon
      <3>4. c[i] = normalizeWord[u[i]]
        BY <1>4, Zenon
      <3> QED BY <3>2, <3>3, <3>4, Zenon
    <2> QED BY <2>1, <2>2
  <1>7. c = d
    BY <1>4, <1>5, <1>6, SeqEqual
  <1> QED BY <1>7 DEF d

LEMMA SpelledSubSeq ==
    ASSUME NEW s \in Seq(Words), NEW m \in Nat, NEW n \in Nat, m <= n, n <= Len(s)
    PROVE  Spelled(SubSeq(s, m + 1, n)) = SubSeq(Spelled(s), m + 1, n)
  <1> DEFINE u == SubSeq(s, m + 1, n)
             a == Spelled(s)
             c == Spelled(u)
             d == SubSeq(a, m + 1, n)
             k == n - m
  <1>1. k \in Nat /\ Len(s) \in Nat
    BY LenProperties
  <1>2. u \in Seq(Words) /\ Len(u) = k /\ \A i \in 1..k : u[i] = s[m + i]
    BY SubSeqFacts
  <1> HIDE DEF u
  <1>3. a \in Seq(STRING) /\ Len(a) = Len(s) /\ \A i \in 1..Len(s) : a[i] = normalizeWord[s[i]]
    BY SpelledFacts
  <1>4. c \in Seq(STRING) /\ Len(c) = k /\ \A i \in 1..k : c[i] = normalizeWord[u[i]]
    <2>1. /\ c \in Seq(STRING) /\ Len(c) = Len(u) /\ \A i \in 1..Len(u) : c[i] = normalizeWord[u[i]]
      BY <1>2, SpelledFacts
    <2> QED BY <1>2, <2>1, Zenon
  <1> HIDE DEF a, c
  <1>5. d \in Seq(STRING) /\ Len(d) = k /\ \A i \in 1..k : d[i] = a[m + i]
    BY <1>3, SubSeqFacts
  <1> HIDE DEF d
  <1>6. ASSUME NEW i \in 1..k PROVE c[i] = d[i]
    <2>1. m + i \in 1..Len(s)
      BY <1>1
    <2>2. d[i] = normalizeWord[s[m + i]]
      BY <1>3, <1>5, <2>1, Zenon
    <2>3. c[i] = normalizeWord[s[m + i]]
      BY <1>2, <1>4, Zenon
    <2> QED BY <2>2, <2>3, Zenon
  <1>7. c = d
    <2> HIDE DEF k
    <2> QED BY <1>4, <1>5, <1>6, SeqEqual
  <1> QED BY <1>7, Zenon DEF a, c, d, u

\* Tokens are words, and of tokens nothing is dropped.
LEMMA TokensOf ==
    ASSUME NEW text \in Text
    PROVE  tokenize(text) \in Seq(Words) /\ normalizedWords(text) = Spelled(tokenize(text))
  <1>1. Without(Punctuation, text) \in Seq((Words \cup Punctuation) \ Punctuation)
    BY WithoutType DEF Text
  <1>2. (Words \cup Punctuation) \ Punctuation \subseteq Words
    OBVIOUS
  <1>3. Without(Punctuation, text) \in Seq(Words)
    BY <1>1, <1>2, SeqOfLarger
  <1> QED BY <1>3, Zenon DEF tokenize, normalizedWords, Spelled

LEMMA TokensAreTokens ==
    ASSUME NEW tokens \in Seq(Words)
    PROVE  tokenize(tokens) = tokens /\ normalizedWords(tokens) = Spelled(tokens)
  <1>1. Words \subseteq Words \ Punctuation
    BY TurnTextAssumption
  <1>2. tokens \in Seq(Words \ Punctuation)
    BY <1>1, SeqOfLarger
  <1>3. Without(Punctuation, tokens) = tokens
    BY <1>2, WithoutNone
  <1> QED BY <1>3, Zenon DEF tokenize, normalizedWords, Spelled

LEMMA PhraseType ==
    ASSUME NEW p \in DOMAIN Phrases
    PROVE  p \in Nat /\ Phrases[p] \in Seq(STRING) /\ Len(Phrases[p]) \in Nat \ {0}
  <1>1. Phrases \in Seq(Seq(STRING)) /\ Phrases[p] # <<>>
    BY TurnTextAssumption
  <1>2. DOMAIN Phrases = 1..Len(Phrases) /\ Len(Phrases) \in Nat
    BY <1>1, LenProperties
  <1>3. p \in Nat /\ Phrases[p] \in Seq(STRING)
    BY <1>1, <1>2, ElementOfSeq
  <1>4. Len(Phrases[p]) \in Nat \ {0}
    <2> SUFFICES ASSUME NEW s \in Seq(STRING), s # <<>> PROVE Len(s) \in Nat \ {0}
      BY <1>1, <1>3, Zenon
    <2> QED BY EmptySeq, LenProperties
  <1> QED BY <1>3, <1>4, Zenon

\* A hit of Detect is a split of the text, and the other way round.
LEMMA HitIsSplit ==
    ASSUME NEW text \in Text, NEW p \in DOMAIN Phrases, NEW start
    PROVE  start \in Hits(normalizedWords(text), Phrases[p]) <=> <<start, p>> \in Splits(text)
  <1> SUFFICES ASSUME NEW words, words = normalizedWords(text), NEW phrase, phrase = Phrases[p]
               PROVE  start \in Hits(words, phrase) <=> <<start, p>> \in Splits(text)
    BY Zenon
  <1> DEFINE n == Len(words)
             k == Len(phrase)
  <1>1. words \in Seq(STRING) /\ n \in Nat
    <2>1. tokenize(text) \in Seq(Words) /\ words = Spelled(tokenize(text))
      BY TokensOf, Zenon
    <2>2. words \in Seq(STRING)
      BY <2>1, SpelledFacts
    <2> QED BY <2>2, LenProperties
  <1>2. phrase \in Seq(STRING) /\ k \in Nat \ {0}
    BY PhraseType
  <1>3. start \in Hits(words, phrase) <=>
           /\ start \in 0..(n - k)
           /\ tokenSequenceMatches(words, start, phrase)
           /\ (start <= 2 \/ n - start - k <= 1)
    BY Zenon DEF Hits, Addressed
  <1>4. <<start, p>> \in Splits(text) <=>
           /\ start \in 0..n
           /\ n - start - k >= 0 /\ (start < 3 \/ n - start - k < 2) /\ Around(words, start, phrase)
    <2> DEFINE Fits(s) == LET after == Len(words) - s[1] - Len(Phrases[s[2]]) IN
                          after >= 0 /\ (s[1] < 3 \/ after < 2) /\ Around(words, s[1], Phrases[s[2]])
               s == <<start, p>>
    <2>1. Splits(text) = {x \in (0..n) \X DOMAIN Phrases : Fits(x)}
      BY Zenon DEF Splits
    <2>2. s[1] = start /\ s[2] = p
      OBVIOUS
    <2>3. s \in (0..n) \X DOMAIN Phrases <=> start \in 0..n
      OBVIOUS
    <2> HIDE DEF s
    <2>4. Fits(s) <=> /\ n - start - k >= 0 /\ (start < 3 \/ n - start - k < 2)
                      /\ Around(words, start, phrase)
      BY <2>2, Zenon
    <2> HIDE DEF Fits
    <2>5. s \in Splits(text) <=> start \in 0..n /\ Fits(s)
      BY <2>1, <2>3, Zenon
    <2> QED BY <2>4, <2>5, Zenon DEF s
  <1>5. ASSUME start \in 0..n, start <= n - k
        PROVE  tokenSequenceMatches(words, start, phrase) <=> Around(words, start, phrase)
    <2>1. start \in Nat /\ start + Len(phrase) <= Len(words)
      BY <1>1, <1>2, <1>5
    <2> QED BY <1>1, <1>2, <2>1, AroundIff
  <1> HIDE DEF n, k
  <1>6. start \in 0..(n - k) <=> start \in 0..n /\ n - start - k >= 0
    BY <1>1, <1>2
  <1>7. start \in 0..n => /\ (start <= 2 <=> start < 3)
                          /\ (n - start - k <= 1 <=> n - start - k < 2)
                          /\ (n - start - k >= 0 <=> start <= n - k)
    BY <1>1, <1>2
  <1> QED BY <1>3, <1>4, <1>5, <1>6, <1>7, Zenon

\* The phrases of the configuration that have a hit.
Found(text) == {i \in DOMAIN Phrases : Hits(normalizedWords(text), Phrases[i]) # {}}

LEMMA FoundSplits ==
    ASSUME NEW text \in Text
    PROVE  Found(text) # {} <=> Splits(text) # {}
  <1>1. ASSUME NEW p \in Found(text) PROVE Splits(text) # {}
    <2>1. p \in DOMAIN Phrases
      BY Zenon DEF Found
    <2>2. PICK start : start \in Hits(normalizedWords(text), Phrases[p])
      BY Zenon DEF Found
    <2>3. <<start, p>> \in Splits(text)
      BY <2>1, <2>2, HitIsSplit, Zenon
    <2> QED BY <2>3, Zenon
  <1>2. ASSUME NEW s \in Splits(text) PROVE Found(text) # {}
    <2>1. s \in (0..Len(normalizedWords(text))) \X DOMAIN Phrases
      BY Zenon DEF Splits
    <2>2. s = <<s[1], s[2]>> /\ s[2] \in DOMAIN Phrases
      BY <2>1
    <2>3. s[1] \in Hits(normalizedWords(text), Phrases[s[2]])
      <3>1. <<s[1], s[2]>> \in Splits(text)
        BY <2>2, Zenon
      <3> QED BY <2>2, <3>1, HitIsSplit, Zenon
    <2>4. s[2] \in Found(text)
      BY <2>2, <2>3, Zenon DEF Found
    <2> QED BY <2>4, Zenon
  <1> QED BY <1>1, <1>2, Zenon

\* words has the phrase of split s where command has nothing.
Removed(words, command, s) ==
    words = SubSeq(command, 1, s[1]) \o Phrases[s[2]] \o SubSeq(command, s[1] + 1, Len(command))

LEMMA MatchedFacts ==
    ASSUME NEW text \in Text
    PROVE  Detect(text).matched = (Found(text) # {})
  BY Zenon DEF Detect, Found

\* What Detect passes on: the bare address, or the words around the first hit.
LEMMA CommandFacts ==
    ASSUME NEW text \in Text, Found(text) # {}
    PROVE  \/ /\ Detect(text).command = text
              /\ \E p \in DOMAIN Phrases : normalizedWords(text) = Phrases[p]
           \/ \E s \in Splits(text) :
                 Removed(normalizedWords(text), normalizedWords(Detect(text).command), s)
  <1> DEFINE tokens == tokenize(text)
             words == normalizedWords(text)
             found == Found(text)
             p == Min(found)
             phrase == Phrases[p]
             start == Min(Hits(words, phrase))
             k == Len(phrase)
             n == Len(tokens)
             front == SubSeq(tokens, 1, start)
             back == SubSeq(tokens, start + k + 1, n)
             rest == front \o back
  <1>1. Detect(text).command = CASE found = {}  -> <<>>
                                 [] rest = <<>> -> text
                                 [] OTHER       -> rest
    BY Zenon DEF Detect, Found
  <1>2. p \in DOMAIN Phrases /\ Hits(words, phrase) # {}
    <2>1. found \subseteq Nat
      BY PhraseType DEF Found
    <2>2. p \in found
      BY <2>1, MinOfNaturals
    <2> QED BY <2>2, Zenon DEF Found
  <1> HIDE DEF found, p
  <1>3. phrase \in Seq(STRING) /\ k \in Nat \ {0}
    BY <1>2, PhraseType
  <1>4. tokens \in Seq(Words) /\ words = Spelled(tokens) /\ n \in Nat
    BY TokensOf, LenProperties
  <1>5. words \in Seq(STRING) /\ Len(words) = n
    BY <1>4, SpelledFacts
  <1> HIDE DEF tokens, words, phrase, k, n
  <1>6. start \in Hits(words, phrase)
    <2>1. Hits(words, phrase) \subseteq Nat
      <3>1. Hits(words, phrase) \subseteq 0..(Len(words) - Len(phrase))
        BY Zenon DEF Hits
      <3>2. Len(words) - Len(phrase) \in Int
        BY <1>3, <1>4, <1>5 DEF k
      <3> QED BY <3>1, <3>2
    <2> QED BY <1>2, <2>1, MinOfNaturals
  <1> HIDE DEF start
  <1>7. start \in Nat /\ start + k <= n /\ start <= n /\ start + k \in Nat
    <2>1. start \in 0..(n - k)
      BY <1>5, <1>6, Zenon DEF Hits, k
    <2> QED BY <1>3, <1>4, <2>1
  <1>8. <<start, p>> \in Splits(text)
    BY <1>2, <1>6, HitIsSplit, Zenon DEF words, phrase
  <1>9. front \in Seq(Words) /\ Len(front) = start /\ Spelled(front) = SubSeq(words, 1, start)
    <2>1. 0 \in Nat /\ 0 <= start /\ start <= Len(tokens) /\ 0 + 1 = 1 /\ start - 0 = start
      BY <1>7 DEF n
    <2>2. SubSeq(tokens, 0 + 1, start) \in Seq(Words) /\ Len(SubSeq(tokens, 0 + 1, start)) = start - 0
      BY <1>4, <1>7, <2>1, SubSeqFacts
    <2>3. Spelled(SubSeq(tokens, 0 + 1, start)) = SubSeq(Spelled(tokens), 0 + 1, start)
      BY <1>4, <1>7, <2>1, SpelledSubSeq
    <2> QED BY <1>4, <2>1, <2>2, <2>3, Zenon
  <1>10. back \in Seq(Words) /\ Len(back) = n - (start + k) /\ Spelled(back) = SubSeq(words, start + k + 1, n)
    <2>1. n <= Len(tokens) /\ start + k <= n
      BY <1>4, <1>7 DEF n
    <2>2. back \in Seq(Words) /\ Len(back) = n - (start + k)
      BY <1>4, <1>7, <2>1, SubSeqFacts
    <2>3. Spelled(back) = SubSeq(Spelled(tokens), start + k + 1, n)
      BY <1>4, <1>7, <2>1, SpelledSubSeq
    <2> QED BY <1>4, <2>2, <2>3, Zenon
  <1> HIDE DEF front, back
  <1>11. rest \in Seq(Words) /\ Len(rest) = start + (n - (start + k)) /\ Spelled(rest) = Spelled(front) \o Spelled(back)
    <2>1. rest \in Seq(Words) /\ Len(rest) = Len(front) + Len(back)
      BY <1>9, <1>10, ConcatProperties
    <2>2. Spelled(front \o back) = Spelled(front) \o Spelled(back)
      BY <1>9, <1>10, SpelledConcat, Zenon
    <2> QED BY <1>9, <1>10, <2>1, <2>2, Zenon
  <1>12. tokenSequenceMatches(words, start, phrase) /\ Around(words, start, phrase)
    <2>1. tokenSequenceMatches(words, start, phrase)
      BY <1>6, Zenon DEF Hits
    <2>2. start + Len(phrase) <= Len(words)
      BY <1>5, <1>7 DEF k
    <2> QED BY <1>3, <1>5, <1>7, <2>1, <2>2, AroundIff
  <1> HIDE DEF rest
  <1>13. CASE rest = <<>>
    <2>1. Detect(text).command = text
      BY <1>1, <1>13 DEF found
    <2>2. Len(rest) = 0
      BY <1>13
    <2>3. start = 0 /\ k = n
      BY <1>3, <1>4, <1>7, <1>11, <2>2
    <2>4. SubSeq(words, 0 + 1, 0 + k) = phrase
      BY <1>12, <2>3, Zenon DEF tokenSequenceMatches, k
    <2>5. 0 + 1 = 1 /\ 0 + k = n
      BY <1>3, <1>4, <2>3
    <2>6. SubSeq(words, 1, n) = words
      BY <1>5, SubSeqFull
    <2>7. words = phrase
      BY <2>4, <2>5, <2>6, Zenon
    <2> QED BY <1>2, <2>1, <2>7, Zenon DEF words, phrase
  <1>14. CASE rest # <<>>
    <2>1. Detect(text).command = rest
      BY <1>1, <1>14 DEF found
    <2> DEFINE command == normalizedWords(rest)
               a == Spelled(front)
               b == Spelled(back)
    <2>2. command = a \o b
      BY <1>11, TokensAreTokens
    <2>3. a \in Seq(STRING) /\ b \in Seq(STRING) /\ Len(a) = start
      BY <1>9, <1>10, SpelledFacts
    <2>4. a = SubSeq(words, 1, start) /\ b = SubSeq(words, start + k + 1, n)
      BY <1>9, <1>10
    <2> HIDE DEF command, a, b
    <2>5. SubSeq(command, 1, start) = a /\ SubSeq(command, start + 1, Len(command)) = b
      <3>1. SubSeq(a \o b, 1, Len(a)) = a /\ SubSeq(a \o b, Len(a) + 1, Len(a \o b)) = b
        BY <2>3, ConcatHalves, Zenon
      <3> QED BY <2>2, <2>3, <3>1, Zenon
    <2>6. words = (a \o phrase) \o b
      <3>1. words = (SubSeq(words, 1, start) \o phrase) \o SubSeq(words, start + k + 1, n)
        BY <1>5, <1>12, Zenon DEF Around, k
      <3> QED BY <2>4, <3>1, Zenon
    <2> DEFINE s == <<start, p>>
    <2>7. s[1] = start /\ s[2] = p /\ s \in Splits(text)
      BY <1>8
    <2> HIDE DEF s
    <2>8. Removed(words, command, s)
      BY <2>5, <2>6, <2>7, Zenon DEF Removed, phrase
    <2> QED BY <2>1, <2>7, <2>8, Zenon DEF words, command
  <1> QED BY <1>13, <1>14

\* The verdict is that of the transcript until the first delta arrives.
GateInv ==
    /\ transcript \in Text
    /\ phase \in {"ignored", "reply"} /\ transcript # <<>> =>
          \E gate \in BOOLEAN : verdict = Verdict(gate, transcript)

LEMMA GateInit == Init => GateInv
  <1> SUFFICES ASSUME Init PROVE GateInv
    OBVIOUS
  <1> QED BY EmptySeq DEF Init, GateInv, Text

LEMMA GateStep ==
    ASSUME GateInv, [Next]_vars
    PROVE  GateInv'
  <1>1. CASE Hear
    <2>1. PICK n \in 1..MaxWords : transcript' \in [1..n -> Words \cup Punctuation]
      BY <1>1, Zenon DEF Hear
    <2>2. n \in Nat
      BY TurnTextAssumption
    <2>3. transcript' \in Text
      BY <2>1, <2>2, FunctionIsSeq DEF Text
    <2>4. phase' \notin {"ignored", "reply"}
      BY <1>1 DEF Hear
    <2> QED BY <2>3, <2>4, Zenon DEF GateInv, Text
  <1>2. CASE Judge
    <2>1. transcript' = transcript /\ \E gate \in BOOLEAN : verdict' = Verdict(gate, transcript)
      BY <1>2, Zenon DEF Judge
    <2> QED BY <2>1, Zenon DEF GateInv, Text
  <1>3. CASE DeltaArrives
    <2>1. transcript' = <<>>
      BY <1>3 DEF DeltaArrives
    <2>2. <<>> \in Text
      BY EmptySeq DEF Text
    <2> QED BY <2>1, <2>2, Zenon DEF GateInv, Text
  <1>4. CASE ReplyEnds
    <2>1. transcript' = transcript /\ phase' \notin {"ignored", "reply"}
      BY <1>4 DEF ReplyEnds
    <2> QED BY <2>1, Zenon DEF GateInv, Text
  <1>5. CASE UNCHANGED vars
    <2>1. transcript' = transcript /\ phase' = phase /\ verdict' = verdict
      BY <1>5 DEF vars
    <2> QED BY <2>1, Zenon DEF GateInv, Text
  <1> QED BY <1>1, <1>2, <1>3, <1>4, <1>5 DEF Next

LEMMA GateVerdict ==
    ASSUME GateInv
    PROVE  WakeGateExact
  <1> SUFFICES ASSUME phase \in {"ignored", "reply"}, transcript # <<>>
               PROVE  /\ verdict.accepted <=> ~verdict.gate \/ Splits(transcript) # {}
                      /\ verdict.gate /\ verdict.accepted =>
                            \/ /\ verdict.command = transcript
                               /\ \E p \in DOMAIN Phrases : normalizedWords(transcript) = Phrases[p]
                            \/ \E s \in Splits(transcript) :
                                  Removed(normalizedWords(transcript), normalizedWords(verdict.command), s)
                      /\ verdict.stop =>
                            /\ Splits(transcript) # {}
                            /\ verdict.gate => normalizedWords(verdict.command)[1] \in Stops
    BY Zenon DEF WakeGateExact, Removed
  <1>1. transcript \in Text
    BY Zenon DEF GateInv
  <1>2. PICK gate \in BOOLEAN : verdict = Verdict(gate, transcript)
    BY Zenon DEF GateInv
  <1> DEFINE detected == Detect(transcript)
             heard == applyWakeGate(gate, transcript)
  <1>3. /\ verdict.gate = gate /\ verdict.accepted = heard.accepted
        /\ verdict.command = heard.command /\ verdict.stop = Confirm(transcript)
    BY <1>2, Zenon DEF Verdict
  <1>4. detected.matched = (Splits(transcript) # {})
    BY <1>1, MatchedFacts, FoundSplits, Zenon
  <1>5. Confirm(transcript) => detected.matched /\ normalizedWords(detected.command)[1] \in Stops
    BY Zenon DEF Confirm
  <1>6. CASE gate
    <2>1. heard.accepted = detected.matched /\ heard.command = detected.command
      BY <1>6, Zenon DEF applyWakeGate
    <2>2. ASSUME detected.matched
          PROVE  \/ /\ detected.command = transcript
                    /\ \E p \in DOMAIN Phrases : normalizedWords(transcript) = Phrases[p]
                 \/ \E s \in Splits(transcript) :
                       Removed(normalizedWords(transcript), normalizedWords(detected.command), s)
      <3>1. Found(transcript) # {}
        BY <1>1, <2>2, MatchedFacts, Zenon
      <3> QED BY <1>1, <3>1, CommandFacts, Zenon
    <2> HIDE DEF detected, heard
    <2> QED BY <1>3, <1>4, <1>5, <1>6, <2>1, <2>2, Zenon
  <1>7. CASE ~gate
    <2>1. heard.accepted = TRUE
      BY <1>7, Zenon DEF applyWakeGate
    <2> HIDE DEF detected, heard
    <2> QED BY <1>3, <1>4, <1>5, <1>7, <2>1, Zenon
  <1> QED BY <1>6, <1>7

\* The gate (applyWakeGate, PhraseDetector.Detect) accepts a transcript exactly if
\* it has a wake phrase near its beginning or at its end, and passes on the words
\* around one; the stop policy (Confirm) hears a stop only in such a text.
THEOREM GateIsExact == Spec => []WakeGateExact
  BY GateInit, GateStep, GateVerdict, PTL DEF Spec

=============================================================================
