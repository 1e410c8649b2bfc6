--------------------------- MODULE SequenceFacts ---------------------------
(***************************************************************************)
(* Induction over sequences in a form the provers can use: a set stands    *)
(* for the predicate, a function for the step of a recursion. With it, the *)
(* equations of FlattenSeq.                                                *)
(***************************************************************************)
EXTENDS SequencesExt, Integers, SequenceTheorems, WellFoundedInduction, TLAPS

\* A set that has 0 and the successor of each of its members has all naturals.
LEMMA InductiveSet ==
    ASSUME NEW S, 0 \in S, \A n \in Nat : n \in S => n + 1 \in S
    PROVE  Nat \subseteq S
  <1> DEFINE T == Nat \ S
             R == {p \in Nat \X Nat : p[1] < p[2]}
  <1> SUFFICES ASSUME T # {} PROVE FALSE
    OBVIOUS
  <1>1. IsWellFoundedOn(R, Nat)
    BY NatLessThanWellFounded DEF OpToRel
  <1>2. T \subseteq Nat
    OBVIOUS
  <1> HIDE DEF T, R
  <1>3. PICK x \in T : \A y \in T : <<y, x>> \notin R
    BY <1>1, <1>2, WFMin
  <1>4. x \in Nat /\ x \notin S
    BY DEF T
  <1>5. x # 0
    BY <1>4
  <1>6. x - 1 \in Nat /\ x - 1 < x
    BY <1>4, <1>5
  <1>7. x - 1 \notin T
    BY <1>3, <1>4, <1>6 DEF R
  <1>8. x - 1 \in S
    BY <1>6, <1>7 DEF T
  <1> QED BY <1>4, <1>6, <1>8

\* Min is the member that is below all members, and a set of naturals has one.
LEMMA MinIs ==
    ASSUME NEW S, NEW x \in S, S \subseteq Int, \A y \in S : x <= y
    PROVE  Min(S) = x
  <1> DEFINE Least(y) == y \in S /\ \A z \in S : y <= z
  <1>1. Min(S) = CHOOSE y : Least(y)
    BY Zenon DEF Min
  <1>2. Least(x)
    OBVIOUS
  <1>3. \A y : Least(y) => y = x
    <2> TAKE y
    <2> HAVE Least(y)
    <2>1. y \in Int /\ x \in Int /\ y <= x /\ x <= y
      OBVIOUS
    <2> QED BY <2>1
  <1> HIDE DEF Least
  <1> QED BY <1>1, <1>2, <1>3, Zenon

LEMMA MinOfNaturals ==
    ASSUME NEW S, S \subseteq Nat, S # {}
    PROVE  Min(S) \in S /\ \A y \in S : Min(S) <= y
  <1> DEFINE R == {p \in Nat \X Nat : p[1] < p[2]}
  <1>1. IsWellFoundedOn(R, Nat)
    BY NatLessThanWellFounded DEF OpToRel
  <1> HIDE DEF R
  <1>2. PICK x \in S : \A y \in S : <<y, x>> \notin R
    BY <1>1, WFMin
  <1>3. ASSUME NEW y \in S PROVE x <= y
    <2>1. x \in Nat /\ y \in Nat /\ <<y, x>> \notin R
      BY <1>2
    <2>2. ~(y < x)
      BY <2>1 DEF R
    <2> QED BY <2>1, <2>2
  <1>4. S \subseteq Int
    OBVIOUS
  <1>5. Min(S) = x
    BY <1>3, <1>4, MinIs
  <1> QED BY <1>3, <1>5

\* Max of places in a sequence.
LEMMA MaxOfPlaces ==
    ASSUME NEW n \in Nat, NEW S, S \subseteq 1..n, S # {}
    PROVE  Max(S) \in S /\ \A y \in S : y <= Max(S)
  <1> DEFINE D == {k \in 1..n : n + 1 - k \in S}
             Greatest(x) == \A y \in S : x >= y
  <1>1. \A y \in S : n + 1 - y \in D
    OBVIOUS
  <1>2. D \subseteq 1..n /\ D # {}
    BY <1>1
  <1>3. D \subseteq Nat
    OBVIOUS
  <1>4. Min(D) \in D /\ \A k \in D : Min(D) <= k
    <2> HIDE DEF D
    <2> QED BY <1>2, <1>3, MinOfNaturals
  <1>5. PICK x \in S : x = n + 1 - Min(D)
    BY <1>4
  <1>6. Greatest(x)
    <2> SUFFICES ASSUME NEW y \in S PROVE x >= y
      OBVIOUS
    <2>1. Min(D) \in 1..n /\ Min(D) <= n + 1 - y /\ y \in 1..n
      BY <1>1, <1>4
    <2> QED BY <1>5, <2>1
  <1>7. Max(S) = CHOOSE z \in S : Greatest(z)
    BY Zenon DEF Max
  <1>8. Max(S) \in S /\ Greatest(Max(S))
    <2> HIDE DEF Greatest
    <2> QED BY <1>6, <1>7, Zenon
  <1> QED
    <2> SUFFICES ASSUME NEW y \in S PROVE y <= Max(S)
      BY <1>8
    <2>1. Max(S) >= y /\ y \in 1..n /\ Max(S) \in 1..n
      BY <1>8
    <2> QED BY <2>1

\* A set that has the empty sequence and, with a sequence, the ones that are one
\* element longer, has all sequences.
LEMMA SeqInduction ==
    ASSUME NEW S, NEW P, <<>> \in P,
           \A s \in Seq(S), e \in S : s \in P => Append(s, e) \in P
    PROVE  Seq(S) \subseteq P
  <1> DEFINE N == {n \in Nat : \A s \in Seq(S) : Len(s) = n => s \in P}
  <1>1. 0 \in N
    <2> SUFFICES ASSUME NEW s \in Seq(S), Len(s) = 0 PROVE s \in P
      OBVIOUS
    <2>1. s = <<>>
      OBVIOUS
    <2> QED BY <2>1
  <1>2. ASSUME NEW n \in Nat, n \in N PROVE n + 1 \in N
    <2> SUFFICES ASSUME NEW s \in Seq(S), Len(s) = n + 1 PROVE s \in P
      OBVIOUS
    <2>1. PICK t \in Seq(S), e \in S : s = Append(t, e)
      BY SequenceEmptyOrAppend
    <2>2. Len(t) = n
      BY <2>1, AppendProperties
    <2>3. t \in P
      BY <1>2, <2>2
    <2> QED BY <2>1, <2>3
  <1>3. Nat \subseteq N
    <2> HIDE DEF N
    <2> QED BY <1>1, <1>2, InductiveSet
  <1> QED BY <1>3

\* A function that is defined by its first value and by a step.
Iterates(f, T, n, base, step) ==
    /\ f[0] = base /\ \A i \in 1..n : f[i] = step[i][f[i - 1]]
    /\ \A i \in 0..n : f[i] \in T

Steps(T, n) == [1..n -> [T -> T]]

\* There is one, if the step stays in a set of values.
LEMMA Recursion ==
    ASSUME NEW T, NEW base \in T, NEW n \in Nat, NEW step \in Steps(T, n)
    PROVE  \E f \in [0..n -> T] : Iterates(f, T, n, base, step)
  <1> USE DEF Steps
  <1> DEFINE N == {k \in Nat : k <= n => \E f \in [0..k -> T] : Iterates(f, T, k, base, step)}
  <1>1. 0 \in N
    <2> DEFINE f == [i \in 0..0 |-> base]
    <2>1. f \in [0..0 -> T] /\ Iterates(f, T, 0, base, step)
      BY DEF Iterates
    <2> QED BY <2>1
  <1>2. ASSUME NEW k \in Nat, k \in N PROVE k + 1 \in N
    <2> SUFFICES ASSUME k + 1 <= n
                 PROVE  \E f \in [0..(k + 1) -> T] : Iterates(f, T, k + 1, base, step)
      OBVIOUS
    <2>1. PICK f \in [0..k -> T] : Iterates(f, T, k, base, step)
      BY <1>2
    <2> DEFINE g == [i \in 0..(k + 1) |-> IF i <= k THEN f[i] ELSE step[k + 1][f[k]]]
    <2>2. step[k + 1][f[k]] \in T
      OBVIOUS
    <2>3. g \in [0..(k + 1) -> T]
      BY <2>2
    <2>4. Iterates(g, T, k + 1, base, step)
      BY <2>1 DEF Iterates
    <2> QED BY <2>3, <2>4
  <1>3. Nat \subseteq N
    <2> HIDE DEF N
    <2> QED BY <1>1, <1>2, InductiveSet
  <1> QED BY <1>3

Follows(f, T, n, base, step) ==
    f[0] = base /\ \A i \in 1..n : f[i - 1] \in T => f[i] = step[i][f[i - 1]]

\* Any function that takes the steps has its values in that set.
LEMMA RecursionTyped ==
    ASSUME NEW T, NEW base \in T, NEW n \in Nat, NEW step \in Steps(T, n), NEW f,
           Follows(f, T, n, base, step)
    PROVE  Iterates(f, T, n, base, step)
  <1> USE DEF Follows, Steps
  <1> DEFINE N == {k \in Nat : k <= n => f[k] \in T}
  <1>1. 0 \in N
    OBVIOUS
  <1>2. ASSUME NEW k \in Nat, k \in N PROVE k + 1 \in N
    <2> SUFFICES ASSUME k + 1 <= n PROVE f[k + 1] \in T
      OBVIOUS
    <2>1. f[k] \in T /\ k + 1 \in 1..n /\ (k + 1) - 1 = k
      BY <1>2
    <2>2. f[k + 1] = step[k + 1][f[k]]
      BY <2>1
    <2> QED BY <2>1, <2>2
  <1>3. Nat \subseteq N
    <2> HIDE DEF N
    <2> QED BY <1>1, <1>2, InductiveSet
  <1>4. \A i \in 0..n : f[i] \in T
    BY <1>3
  <1>5. ASSUME NEW i \in 1..n PROVE f[i] = step[i][f[i - 1]]
    <2>1. i - 1 \in 0..n
      OBVIOUS
    <2> QED BY <1>4, <2>1
  <1> QED BY <1>4, <1>5 DEF Iterates

\* One step more, after the same steps.
LEMMA RecursionExtends ==
    ASSUME NEW T, NEW n \in Nat, NEW base, NEW f, NEW g, NEW a, NEW b,
           Iterates(f, T, n, base, a), Iterates(g, T, n + 1, base, b),
           \A i \in 1..n : a[i] = b[i]
    PROVE  g[n + 1] = b[n + 1][f[n]]
  <1> DEFINE N == {k \in Nat : k <= n => f[k] = g[k]}
  <1>1. 0 \in N
    BY DEF Iterates
  <1>2. ASSUME NEW k \in Nat, k \in N PROVE k + 1 \in N
    <2> SUFFICES ASSUME k + 1 <= n PROVE f[k + 1] = g[k + 1]
      OBVIOUS
    <2>1. f[k] = g[k] /\ k + 1 \in 1..n /\ k + 1 \in 1..(n + 1) /\ (k + 1) - 1 = k
      BY <1>2
    <2> QED BY <2>1 DEF Iterates
  <1>3. Nat \subseteq N
    <2> HIDE DEF N
    <2> QED BY <1>1, <1>2, InductiveSet
  <1>4. f[n] = g[n]
    BY <1>3
  <1>5. n + 1 \in 1..(n + 1) /\ (n + 1) - 1 = n
    OBVIOUS
  <1> QED BY <1>4, <1>5 DEF Iterates

\* Append and concatenation.
LEMMA ConcatAppend ==
    ASSUME NEW S, NEW s \in Seq(S), NEW t \in Seq(S), NEW e \in S
    PROVE  s \o Append(t, e) = Append(s \o t, e)
  <1>1. <<e>> \in Seq(S) /\ s \o t \in Seq(S)
    BY ConcatProperties
  <1>2. Append(t, e) = t \o <<e>> /\ Append(s \o t, e) = (s \o t) \o <<e>>
    BY <1>1, AppendIsConcat
  <1> QED BY <1>1, <1>2, ConcatAssociative

LEMMA FunctionIsSeq ==
    ASSUME NEW S, NEW n \in Nat, NEW f \in [1..n -> S]
    PROVE  f \in Seq(S) /\ Len(f) = n
  OBVIOUS

\* What SubSeq takes out of a sequence.
LEMMA SubSeqFacts ==
    ASSUME NEW S, NEW s \in Seq(S), NEW m \in Nat, NEW n \in Nat, m <= n, n <= Len(s)
    PROVE  /\ SubSeq(s, m + 1, n) \in Seq(S) /\ Len(SubSeq(s, m + 1, n)) = n - m
           /\ \A i \in 1..(n - m) : SubSeq(s, m + 1, n)[i] = s[m + i]
  <1>1. \A i \in (m + 1)..n : i \in 1..Len(s)
    BY LenProperties
  <1>2. \A i \in (m + 1)..n : s[i] \in S
    BY <1>1, ElementOfSeq
  <1>3. m + 1 \in Int /\ n \in Int
    OBVIOUS
  <1> DEFINE u == SubSeq(s, m + 1, n)
             len == n - (m + 1) + 1
  <1>4. /\ u \in Seq(S) /\ Len(u) = (IF m + 1 <= n THEN len ELSE 0)
        /\ \A i \in 1..len : u[i] = s[(m + 1) + i - 1]
    BY <1>2, <1>3, SubSeqProperties
  <1> HIDE DEF u
  <1>5. Len(u) = n - m /\ \A i \in 1..(n - m) : i \in 1..len /\ (m + 1) + i - 1 = m + i
    BY <1>4
  <1>6. \A i \in 1..(n - m) : u[i] = s[m + i]
    <2> HIDE DEF len
    <2> QED BY <1>4, <1>5, Zenon
  <1> QED BY <1>4, <1>5, <1>6 DEF u

\* One element before the others.
LEMMA ConsFacts ==
    ASSUME NEW S, NEW e \in S, NEW s \in Seq(S)
    PROVE  /\ <<e>> \o s \in Seq(S) /\ <<e>> \o s # <<>>
           /\ (<<e>> \o s)[1] = e /\ Tail(<<e>> \o s) = s
  <1> DEFINE t == <<e>> \o s
             u == Tail(t)
  <1>1. <<e>> \in Seq(S) /\ Len(<<e>>) = 1 /\ <<e>>[1] = e /\ Len(s) \in Nat
    OBVIOUS
  <1>2. /\ t \in Seq(S) /\ Len(t) = 1 + Len(s)
        /\ \A i \in 1..(1 + Len(s)) : t[i] = IF i <= 1 THEN <<e>>[i] ELSE s[i - 1]
    BY <1>1, ConcatProperties
  <1> HIDE DEF t
  <1>3. t # <<>> /\ t[1] = e
    BY <1>1, <1>2, EmptySeq
  <1>4. u \in Seq(S) /\ Len(u) = Len(t) - 1 /\ \A i \in 1..Len(u) : u[i] = t[i + 1]
    BY <1>2, <1>3, HeadTailProperties
  <1> HIDE DEF u
  <1>5. Len(u) = Len(s) /\ \A i \in 1..Len(u) : u[i] = s[i]
    <2>1. Len(u) = Len(s)
      BY <1>1, <1>2, <1>4
    <2> SUFFICES ASSUME NEW i \in 1..Len(u) PROVE u[i] = s[i]
      BY <2>1
    <2>2. i + 1 \in 1..(1 + Len(s)) /\ ~(i + 1 <= 1) /\ (i + 1) - 1 = i
      BY <1>1, <2>1
    <2>3. t[i + 1] = s[(i + 1) - 1]
      BY <1>2, <2>2
    <2> QED BY <1>4, <2>2, <2>3
  <1>6. u = s
    BY <1>4, <1>5, SeqEqual
  <1> QED BY <1>2, <1>3, <1>6 DEF t, u

\* Associativity by name: the provers do not see through nested concatenations.
Associates(a, b, c) == (a \o b) \o c = a \o (b \o c)

LEMMA Associative ==
    ASSUME NEW S, NEW a \in Seq(S), NEW b \in Seq(S), NEW c \in Seq(S)
    PROVE  Associates(a, b, c)
  <1>1. (a \o b) \o c = a \o (b \o c)
    BY ConcatAssociative
  <1> QED BY <1>1 DEF Associates

\* An element and three sequences, and what follows the element.
Joined(s, e, b, c, d) == s = ((<<e>> \o b) \o c) \o d
Rest(s, b, c, d) == Tail(s) = b \o (c \o d)

LEMMA RestOfJoined ==
    ASSUME NEW S, NEW e \in S, NEW b \in Seq(S), NEW c \in Seq(S), NEW d \in Seq(S),
           NEW s, Joined(s, e, b, c, d)
    PROVE  Rest(s, b, c, d)
  <1> DEFINE a == <<e>>
             t == b \o (c \o d)
  <1>1. a \in Seq(S)
    OBVIOUS
  <1>2. Tail(a \o t) = t
    <2>1. t \in Seq(S)
      BY ConcatProperties
    <2> HIDE DEF t
    <2> QED BY <2>1, ConsFacts
  <1>3. Joined(s, e, b, c, d) <=> s = ((a \o b) \o c) \o d
    BY Zenon DEF Joined
  <1> HIDE DEF a
  <1>4. a \o b \in Seq(S) /\ c \o d \in Seq(S)
    BY <1>1, ConcatProperties
  <1>5. Associates(a \o b, c, d) /\ Associates(a, b, c \o d)
    BY <1>1, <1>4, Associative, Zenon
  <1>6. s = a \o t
    BY <1>3, <1>5, Zenon DEF Associates
  <1> QED BY <1>2, <1>6, Zenon DEF Rest

\* Append's two parts.
LEMMA FrontLastAppend ==
    ASSUME NEW S, NEW s \in Seq(S), NEW e \in S
    PROVE  Front(Append(s, e)) = s /\ Last(Append(s, e)) = e
  <1> SUFFICES ASSUME NEW t, t = Append(s, e), NEW n, n = Len(s)
               PROVE  SubSeq(t, 1, Len(t) - 1) = s /\ t[Len(t)] = e
    BY Zenon DEF Front, Last
  <1>1. t \in Seq(S) /\ n \in Nat /\ Len(t) = n + 1 /\ t[n + 1] = e /\ \A i \in 1..n : t[i] = s[i]
    BY AppendProperties, LenProperties
  <1>2. Len(t) - 1 = n /\ n <= Len(t) /\ 0 \in Nat /\ 0 <= n /\ n - 0 = n /\ 0 + 1 = 1 /\ \A i \in 1..n : 0 + i = i
    BY <1>1
  <1>3. /\ SubSeq(t, 0 + 1, n) \in Seq(S) /\ Len(SubSeq(t, 0 + 1, n)) = n - 0
        /\ \A i \in 1..(n - 0) : SubSeq(t, 0 + 1, n)[i] = t[0 + i]
    BY <1>1, <1>2, SubSeqFacts
  <1> DEFINE u == SubSeq(t, 1, n)
  <1>4. u \in Seq(S) /\ Len(u) = n /\ \A i \in 1..n : u[i] = s[i]
    BY <1>1, <1>2, <1>3, Zenon
  <1> HIDE DEF u
  <1>5. u = s
    BY <1>4, SeqEqual
  <1> QED BY <1>1, <1>2, <1>5 DEF u

-----------------------------------------------------------------------------
(* FlattenSeq.                                                             *)

\* g holds the concatenations of the first sequences of ss, up to n of them.
Concatenates(g, S, ss, n) ==
    g \in [0..n -> Seq(S)] /\ g[0] = <<>> /\ \A i \in 1..n : g[i] = g[i - 1] \o ss[i]

LEMMA ConcatIterates ==
    ASSUME NEW S, NEW n \in Nat, NEW ss, \A i \in 1..n : ss[i] \in Seq(S)
    PROVE  \E g : Concatenates(g, S, ss, n)
  <1> DEFINE step == [i \in 1..n |-> [t \in Seq(S) |-> t \o ss[i]]]
  <1>1. ASSUME NEW i \in 1..n, NEW t \in Seq(S) PROVE t \o ss[i] \in Seq(S)
    <2>1. ss[i] \in Seq(S)
      OBVIOUS
    <2> QED BY <2>1, ConcatProperties
  <1>2. step \in Steps(Seq(S), n)
    BY <1>1, Zenon DEF Steps
  <1>3. <<>> \in Seq(S)
    OBVIOUS
  <1>4. PICK g \in [0..n -> Seq(S)] : Iterates(g, Seq(S), n, <<>>, step)
    <2> HIDE DEF step
    <2> QED BY <1>2, <1>3, Recursion
  <1>5. ASSUME NEW i \in 1..n PROVE g[i] = g[i - 1] \o ss[i]
    <2>1. i - 1 \in 0..n
      OBVIOUS
    <2>2. g[i] = step[i][g[i - 1]] /\ g[i - 1] \in Seq(S)
      BY <1>4, <2>1, Zenon DEF Iterates
    <2> QED BY <2>2, Zenon
  <1> QED BY <1>4, <1>5, Zenon DEF Iterates, Concatenates

\* The last of them is what FlattenSeq returns.
Flattening(g, S, ss, n) == Concatenates(g, S, ss, n) /\ FlattenSeq(ss) = g[n]

LEMMA FlattenIterates ==
    ASSUME NEW S, NEW ss \in Seq(Seq(S)), NEW n, n = Len(ss)
    PROVE  \E g : Flattening(g, S, ss, n)
  <1> DEFINE Flattens(f) == f = [i \in 1..n |-> IF i = 1 THEN ss[i] ELSE f[i - 1] \o ss[i]]
  <1>1. n \in Nat /\ \A i \in 1..n : ss[i] \in Seq(S)
    OBVIOUS
  <1>2. PICK g : Concatenates(g, S, ss, n)
    BY <1>1, ConcatIterates
  <1> USE <1>2 DEF Concatenates
  <1>3. CASE n = 0
    <2>1. ss = <<>>
      BY <1>3, EmptySeq
    <2>2. Len(ss) = 0 => FlattenSeq(ss) = ss
      BY Zenon DEF FlattenSeq
    <2>3. FlattenSeq(ss) = g[n]
      BY <1>2, <1>3, <2>1, <2>2, Zenon
    <2> QED BY <1>1, <1>2, <2>3, Zenon DEF Flattening, Concatenates
  <1>4. CASE n # 0
    <2> DEFINE h == [i \in 1..n |-> g[i]]
               c == CHOOSE f : Flattens(f)
    <2>1. n \in 1..n /\ 1 \in 1..n
      BY <1>1, <1>4
    <2>2. g[1] = ss[1]
      <3>0. 1 - 1 = 0
        OBVIOUS
      <3>1. g[1] = g[1 - 1] \o ss[1]
        BY <1>2, <2>1, Zenon
      <3>2. g[1] = <<>> \o ss[1]
        BY <1>2, <3>0, <3>1, Zenon
      <3>3. ss[1] \in Seq(S)
        BY <1>1, <2>1
      <3> QED BY <3>2, <3>3, ConcatEmptySeq
    <2>3. Flattens(h)
      <3>1. ASSUME NEW i \in 1..n PROVE h[i] = IF i = 1 THEN ss[i] ELSE h[i - 1] \o ss[i]
        <4>1. CASE i = 1
          BY <4>1, <2>2, Zenon
        <4>2. CASE i # 1
          <5>1. i - 1 \in 1..n
            BY <1>1, <4>2
          <5> QED BY <1>2, <4>2, <5>1, Zenon
        <4> QED BY <4>1, <4>2
      <3> QED BY <3>1, Zenon
    <2>4. Flattens(c)
      <3> HIDE DEF Flattens, h
      <3> QED BY <2>3, Zenon
    <2>5. FlattenSeq(ss) = c[n]
      <3> SUFFICES n = Len(ss) /\ Len(ss) # 0
        BY Zenon DEF FlattenSeq
      <3> QED BY <1>4
    <2> HIDE DEF c
    <2> DEFINE N == {k \in Nat : k + 1 \in 1..n => c[k + 1] = g[k + 1]}
    <2>6. 0 \in N
      <3>1. c[1] = ss[1]
        BY <2>1, <2>4, Zenon
      <3> QED BY <2>2, <3>1
    <2>7. ASSUME NEW k \in Nat, k \in N PROVE k + 1 \in N
      <3>0. k + 1 \in Nat
        OBVIOUS
      <3> SUFFICES ASSUME NEW i, i = (k + 1) + 1, i \in 1..n PROVE c[i] = g[i]
        BY <3>0, Zenon
      <3>1. i # 1 /\ i - 1 \in 1..n /\ i - 1 = k + 1
        BY <1>1
      <3>2. c[i] = c[i - 1] \o ss[i]
        BY <2>4, <3>1, Zenon
      <3>3. c[i - 1] = g[i - 1]
        BY <2>7, <3>1, Zenon
      <3> QED BY <1>2, <3>2, <3>3, Zenon
    <2>8. Nat \subseteq N
      <3> HIDE DEF N
      <3> QED BY <2>6, <2>7, InductiveSet
    <2>9. n - 1 \in Nat /\ (n - 1) + 1 = n
      BY <1>1, <1>4
    <2>10. c[n] = g[n]
      BY <2>1, <2>8, <2>9, Zenon
    <2> QED BY <1>1, <1>2, <2>5, <2>10, Zenon DEF Flattening, Concatenates
  <1> QED BY <1>3, <1>4

LEMMA FlattenEmpty == FlattenSeq(<<>>) = <<>>
  BY DEF FlattenSeq

LEMMA FlattenType ==
    ASSUME NEW S, NEW ss \in Seq(Seq(S))
    PROVE  FlattenSeq(ss) \in Seq(S)
  <1>1. PICK g : Flattening(g, S, ss, Len(ss))
    BY FlattenIterates
  <1>2. Len(ss) \in 0..Len(ss)
    OBVIOUS
  <1> QED BY <1>1, <1>2, Zenon DEF Flattening, Concatenates

LEMMA FlattenAppend ==
    ASSUME NEW S, NEW ss \in Seq(Seq(S)), NEW s \in Seq(S)
    PROVE  FlattenSeq(Append(ss, s)) = FlattenSeq(ss) \o s
  <1> SUFFICES ASSUME NEW n, n = Len(ss), NEW tt, tt = Append(ss, s)
               PROVE  FlattenSeq(tt) = FlattenSeq(ss) \o s
    BY Zenon
  <1>1. /\ tt \in Seq(Seq(S)) /\ n \in Nat /\ Len(tt) = n + 1 /\ tt[n + 1] = s
        /\ \A i \in 1..n : tt[i] = ss[i]
    BY AppendProperties
  <1>2. PICK g : Flattening(g, S, ss, n)
    BY FlattenIterates
  <1>3. PICK h : Flattening(h, S, tt, n + 1)
    BY <1>1, FlattenIterates
  <1> DEFINE N == {k \in Nat : k \in 0..n => g[k] = h[k]}
  <1>4. 0 \in N
    BY <1>2, <1>3, Zenon DEF Flattening, Concatenates
  <1>5. ASSUME NEW k \in Nat, k \in N PROVE k + 1 \in N
    <2>0. k + 1 \in Nat
      OBVIOUS
    <2> SUFFICES ASSUME NEW i, i = k + 1, i \in 0..n PROVE g[i] = h[i]
      BY <2>0, Zenon
    <2>1. i \in 1..n /\ i \in 1..(n + 1) /\ i - 1 = k /\ k \in 0..n
      BY <1>1
    <2>2. g[i - 1] = h[i - 1]
      BY <1>5, <2>1, Zenon
    <2>3. g[i] = g[i - 1] \o ss[i]
      BY <1>2, <2>1, Zenon DEF Flattening, Concatenates
    <2>4. h[i] = h[i - 1] \o tt[i]
      BY <1>3, <2>1, Zenon DEF Flattening, Concatenates
    <2>5. tt[i] = ss[i]
      BY <1>1, <2>1, Zenon
    <2> QED BY <2>2, <2>3, <2>4, <2>5, Zenon
  <1>6. Nat \subseteq N
    <2> HIDE DEF N
    <2> QED BY <1>4, <1>5, InductiveSet
  <1>7. n \in 0..n /\ n + 1 \in 1..(n + 1) /\ (n + 1) - 1 = n
    BY <1>1
  <1>8. g[n] = h[n]
    BY <1>1, <1>6, <1>7, Zenon
  <1>9. h[n + 1] = h[(n + 1) - 1] \o s
    BY <1>1, <1>3, <1>7, Zenon DEF Flattening, Concatenates
  <1>10. h[n + 1] = h[n] \o s
    BY <1>9, <1>7, Zenon
  <1> QED BY <1>2, <1>3, <1>8, <1>10, Zenon DEF Flattening, Concatenates

LEMMA FlattenConcat ==
    ASSUME NEW S, NEW ss \in Seq(Seq(S)), NEW tt \in Seq(Seq(S))
    PROVE  FlattenSeq(ss \o tt) = FlattenSeq(ss) \o FlattenSeq(tt)
  <1> DEFINE P == {u \in Seq(Seq(S)) : FlattenSeq(ss \o u) = FlattenSeq(ss) \o FlattenSeq(u)}
  <1>1. <<>> \in P
    <2>1. <<>> \in Seq(Seq(S)) /\ ss \o <<>> = ss
      BY EmptySeq, ConcatEmptySeq
    <2>2. FlattenSeq(ss) \o <<>> = FlattenSeq(ss)
      BY FlattenType, ConcatEmptySeq
    <2> QED BY <2>1, <2>2, FlattenEmpty, Zenon
  <1>2. ASSUME NEW u \in Seq(Seq(S)), NEW s \in Seq(S), u \in P PROVE Append(u, s) \in P
    <2>1. Append(u, s) \in Seq(Seq(S)) /\ ss \o u \in Seq(Seq(S))
      BY AppendProperties, ConcatProperties
    <2>2. ss \o Append(u, s) = Append(ss \o u, s)
      BY ConcatAppend
    <2>3. FlattenSeq(Append(ss \o u, s)) = FlattenSeq(ss \o u) \o s
      BY <2>1, FlattenAppend
    <2>4. FlattenSeq(Append(u, s)) = FlattenSeq(u) \o s
      BY FlattenAppend
    <2>5. FlattenSeq(ss) \in Seq(S) /\ FlattenSeq(u) \in Seq(S)
      BY FlattenType
    <2>6. Associates(FlattenSeq(ss), FlattenSeq(u), s)
      BY <2>5, Associative, Zenon
    <2> QED BY <1>2, <2>1, <2>2, <2>3, <2>4, <2>6, Zenon DEF Associates
  <1>3. Seq(Seq(S)) \subseteq P
    <2> HIDE DEF P
    <2> QED BY <1>1, <1>2, SeqInduction
  <1> QED BY <1>3
=============================================================================
