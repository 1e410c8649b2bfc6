------------------------- MODULE VoiceInputProofs -------------------------
(***************************************************************************)
(* Proofs about the recorder and the turns that drive it, for every depth  *)
(* of the channels and every number of turns, utterances and restarts.     *)
(*                                                                         *)
(*   Lifecycle   who may run when the recorder starts, fails and closes    *)
(*   PreRolls    what a recording may begin with                           *)
(*   Accounting  where every utterance is                                  *)
(*   Numbered    what the turn of a candidate is                           *)
(***************************************************************************)
EXTENDS VoiceInput, FiniteSetTheorems, TLAPS

\* Only Close sets closed, and a recorder that is not closed has a reader
\* exactly while running is set; a reader is not counted before it has started.
Lifecycle ==
    /\ closed <=> closing # "no"
    /\ closed => ~running
    /\ ~closed => (running <=> reader.pc # "off")
    /\ closing \in {"join", "done"} => mic = "none"
    /\ closing = "done" => reader.pc = "off" /\ reports = 0
    /\ NoDeafWait
    /\ reports + (IF reader.pc = "off" THEN 0 ELSE 1) <= starts

\* A recording is never stale, the pre-roll only while the reader still remembers
\* the stretch that made it so, and nothing is kept when a reader begins.
PreRolls ==
    /\ NoMixedAudio
    /\ reader.pc = "begin" => preRoll = "empty"
    /\ reader.pc # "off" /\ preRoll = "stale" => reader.was

InHand == reader.pc \in {"drop", "resend"}

\* Earlier speech comes first, not only before its neighbour.
InOrder(s) == \A i, j \in 1..Len(s) : i < j => s[i] < s[j]

\* An utterance is in one place, and the reader only begins one it may publish.
Accounting ==
    /\ taken \subseteq 1..published
    /\ \A i \in 1..Len(utterances) :
          utterances[i] \in 1..published /\ utterances[i] \notin taken
    /\ InHand => published > 0 /\ published \notin taken
                 /\ \A i \in 1..Len(utterances) : utterances[i] # published
    /\ reader.pc = "publish" => reader.finish
    /\ reader.pc \in {"preview", "publish"} /\ reader.finish => published < MaxUtterances
    /\ reader.pc = "resend" => Len(utterances) < QueueDepth
    /\ InOrder(utterances) /\ UtterancesAccounted

\* Nothing runs before the first turn, so a candidate has a turn.
Numbered ==
    /\ phase # "loop" \/ next.pc # "idle" \/ reader.pc # "off" => turn > 0
    /\ reader.pc = "offer" => reader.from \in Turn

VoiceInputInv == VoiceInputTypeOK /\ Lifecycle /\ PreRolls /\ Accounting /\ Numbered

-----------------------------------------------------------------------------
(* The records and functions, field by field.                              *)

ReaderPC == {"off", "begin", "read", "hear", "offer", "preview", "publish", "drop",
             "resend", "failed", "stop"}
Barge == {"warmup", "armed", "recording"}
Reader == [pc : ReaderPC, from : 0..MaxTurns, size : 0..3, audio : Kept, sent : BOOLEAN,
           was : BOOLEAN, barge : Barge, finish : BOOLEAN, last : BOOLEAN, seen : Nat]
NextCall == [pc : {"idle", "peek", "ensure", "wait"}, out : {"none", "utterance", "error"},
             turn : 0..MaxTurns]
Sub == [pc : {"off", "select", "decode"}, from : 0..MaxTurns]
Phase == {"loop", "open", "flush", "listen", "capture", "respond", "speak", "end",
          "flushed", "ended"}
Context == {"live", "interrupted", "ended"}

\* The types of the recorder, and of the turns.
RecorderTypes ==
    /\ reader \in Reader /\ next \in NextCall
    /\ stretches \in Nat /\ preRoll \in Kept /\ mic \in {"none", "alive", "dead"}
    /\ partials \in 0..1 /\ sourceErr \in BOOLEAN
    /\ running \in BOOLEAN /\ closed \in BOOLEAN /\ suppressed \in BOOLEAN /\ waiting \in BOOLEAN
    /\ reports \in 0..MaxStarts /\ starts \in 0..MaxStarts
    /\ closing \in {"no", "stop", "join", "done"}

ChannelTypes ==
    /\ utterances \in Seq(1..MaxUtterances) /\ Len(utterances) <= QueueDepth
    /\ dropped \in 0..MaxUtterances /\ published \in 0..MaxUtterances
    /\ taken \subseteq 1..MaxUtterances

CandidateTypes == candidates \in Seq(Turn) /\ Len(candidates) <= CandidateDepth

TurnTypes ==
    /\ turn \in 0..MaxTurns /\ phase \in Phase
    /\ ctx \in [Turn -> Context] /\ sub \in [Turn -> Sub]
    /\ heard \in 0..MaxTurns /\ stopped \in BOOLEAN

LEMMA Types ==
    VoiceInputTypeOK <=> RecorderTypes /\ ChannelTypes /\ CandidateTypes /\ TurnTypes
  BY DEF VoiceInputTypeOK, RecorderTypes, ChannelTypes, CandidateTypes, TurnTypes, Reader, ReaderPC,
         Barge, NextCall, Sub, Phase, Context

LEMMA TypesNext ==
    ASSUME RecorderTypes', ChannelTypes', CandidateTypes', TurnTypes'
    PROVE  VoiceInputTypeOK'
  BY DEF VoiceInputTypeOK, RecorderTypes, ChannelTypes, CandidateTypes, TurnTypes, Reader, ReaderPC,
         Barge, NextCall, Sub, Phase, Context

LEMMA Bounds ==
    /\ QueueDepth \in Nat \ {0} /\ CandidateDepth \in Nat \ {0}
    /\ MaxUtterances \in Nat /\ MaxStarts \in Nat \ {0} /\ MaxTurns \in Nat \ {0}
    /\ Turn = 1..MaxTurns
  BY RecorderAssumption, VoiceInputAssumption DEF Turn

\* The recording spans audio that was discarded.
Mixed(r) == r.audio = "stale"

IsReader(r, pc, from, mixed, was, finish) ==
    r \in Reader /\ r.pc = pc /\ r.from = from /\ Mixed(r) = mixed /\ r.was = was /\ r.finish = finish

LEMMA AgedFacts ==
    ASSUME NEW kept \in Kept, NEW gap \in {"fresh", "slipped", "stale"}
    PROVE  /\ Aged(kept, gap) \in Kept
           /\ kept # "stale" /\ gap # "stale" => Aged(kept, gap) # "stale"
  BY DEF Aged, Kept

LEMMA ReaderFields ==
    ASSUME NEW r \in Reader
    PROVE  /\ IsReader(r, r.pc, r.from, Mixed(r), r.was, r.finish)
           /\ r.pc \in ReaderPC /\ r.from \in 0..MaxTurns /\ r.size \in 0..3 /\ r.audio \in Kept
           /\ r.was \in BOOLEAN /\ r.barge \in Barge /\ r.finish \in BOOLEAN /\ r.last \in BOOLEAN
           /\ r.sent \in BOOLEAN /\ r.seen \in Nat /\ Mixed(r) \in BOOLEAN
  BY DEF Reader, IsReader, Mixed

LEMMA NewReaderFields ==
    /\ IsReader(NewReader, "begin", 0, FALSE, FALSE, FALSE)
    /\ IsReader(NoReader, "off", 0, FALSE, FALSE, FALSE)
  <1>1. IsReader(NewReader, "begin", 0, FALSE, FALSE, FALSE)
    BY Bounds DEF NewReader, IsReader, Mixed, Reader, ReaderPC, Barge, Kept
  <1>2. ASSUME NEW r \in Reader
        PROVE  IsReader([r EXCEPT !.pc = "off"], "off", r.from, Mixed(r), r.was, r.finish)
    BY DEF Reader, IsReader, Mixed, ReaderPC
  <1> QED BY <1>1, <1>2 DEF NoReader, IsReader

\* The updates of the reader's variables.
LEMMA ReaderMoves ==
    ASSUME NEW r \in Reader, NEW p \in ReaderPC, NEW b \in BOOLEAN
    PROVE  /\ IsReader([r EXCEPT !.pc = p], p, r.from, Mixed(r), r.was, r.finish)
           /\ \A e \in Nat :
                 IsReader([r EXCEPT !.pc = p, !.was = b, !.seen = e], p, r.from, Mixed(r), b, r.finish)
           /\ IsReader([r EXCEPT !.pc = p, !.last = b], p, r.from, Mixed(r), r.was, r.finish)
  BY DEF Reader, IsReader, Mixed

LEMMA SentFields ==
    ASSUME NEW r \in Reader, NEW b \in BOOLEAN
    PROVE  IsReader([r EXCEPT !.sent = b], r.pc, r.from, Mixed(r), r.was, r.finish)
  BY DEF Reader, IsReader, Mixed

LEMMA AfterChunkFields ==
    ASSUME NEW r \in Reader
    PROVE  IsReader(AfterChunk(r), IF r.last THEN "failed" ELSE "read", 0, Mixed(r), r.was, FALSE)
  <1>1. ASSUME NEW p \in ReaderPC, NEW b \in BOOLEAN, NEW n \in 0..MaxTurns
        PROVE  IsReader([r EXCEPT !.pc = p, !.finish = b, !.from = n], p, n, Mixed(r), r.was, b)
    BY DEF Reader, IsReader, Mixed
  <1>2. (IF r.last THEN "failed" ELSE "read") \in ReaderPC /\ 0 \in 0..MaxTurns
    BY Bounds DEF ReaderPC
  <1> QED BY <1>1, <1>2 DEF AfterChunk

\* A suppressed chunk leaves nothing of a recording.
LEMMA QuietFields ==
    ASSUME NEW r \in Reader, NEW w \in BOOLEAN, NEW f \in BOOLEAN, NEW n \in 0..3,
           NEW a \in Kept, a # "stale", NEW e \in Nat
    PROVE  LET q == [r EXCEPT !.was = w, !.size = n, !.audio = a, !.sent = f, !.seen = e] IN
           /\ IsReader(q, r.pc, r.from, FALSE, w, r.finish)
           /\ \A t \in 0..MaxTurns :
                 IsReader([q EXCEPT !.pc = "offer", !.barge = "warmup", !.from = t],
                          "offer", t, FALSE, w, r.finish)
           /\ \A b \in Barge : IsReader([q EXCEPT !.barge = b], r.pc, r.from, FALSE, w, r.finish)
  <1> DEFINE q == [r EXCEPT !.was = w, !.size = n, !.audio = a, !.sent = f, !.seen = e]
  <1>1. IsReader(q, r.pc, r.from, FALSE, w, r.finish)
    BY DEF Reader, IsReader, Mixed
  <1>2. ASSUME NEW p \in Reader
        PROVE /\ \A t \in 0..MaxTurns :
                    IsReader([p EXCEPT !.pc = "offer", !.barge = "warmup", !.from = t],
                             "offer", t, Mixed(p), p.was, p.finish)
              /\ \A b \in Barge : IsReader([p EXCEPT !.barge = b], p.pc, p.from, Mixed(p), p.was, p.finish)
    <2>1. ASSUME NEW b \in Barge
          PROVE  IsReader([p EXCEPT !.barge = b], p.pc, p.from, Mixed(p), p.was, p.finish)
      BY DEF Reader, IsReader, Mixed
    <2>2. ASSUME NEW c \in ReaderPC, NEW b \in Barge, NEW t \in 0..MaxTurns
          PROVE  IsReader([p EXCEPT !.pc = c, !.barge = b, !.from = t], c, t, Mixed(p), p.was, p.finish)
      BY DEF Reader, IsReader, Mixed
    <2>3. "offer" \in ReaderPC /\ "warmup" \in Barge
      BY DEF ReaderPC, Barge
    <2> QED BY <2>1, <2>2, <2>3
  <1> HIDE DEF q
  <1>3. q \in Reader /\ q.pc = r.pc /\ q.from = r.from /\ Mixed(q) = FALSE /\ q.was = w /\ q.finish = r.finish
    BY <1>1 DEF IsReader
  <1>4. /\ \A t \in 0..MaxTurns :
                 IsReader([q EXCEPT !.pc = "offer", !.barge = "warmup", !.from = t],
                          "offer", t, FALSE, w, r.finish)
        /\ \A b \in Barge : IsReader([q EXCEPT !.barge = b], r.pc, r.from, FALSE, w, r.finish)
    BY <1>2, <1>3
  <1> QED BY <1>1, <1>4 DEF q

\* The end of a recording.
LEMMA EndRecordingFields ==
    ASSUME NEW r \in Reader, NEW f \in BOOLEAN, NEW n \in 0..3, NEW a \in Kept, a # "stale"
    PROVE  LET q == [r EXCEPT !.size = n, !.audio = a, !.sent = f] IN
           IsReader(q, r.pc, r.from, FALSE, r.was, r.finish) /\ q.last = r.last
  BY DEF Reader, IsReader, Mixed

\* A chunk that is heard: it goes on with the recording, or begins one with the
\* pre-roll, and the recording is as old as the older of them.
LEMMA RecordFields ==
    ASSUME NEW r \in Reader, NEW kept \in Kept, kept # "stale", NEW speaking \in BOOLEAN, ~Mixed(r),
           NEW q \in Record(kept, speaking, r)
    PROVE  IsReader(q, r.pc, r.from, FALSE, r.was, r.finish)
  <1>1. \A n \in 0..3, a \in Kept :
           a # "stale" => IsReader([r EXCEPT !.size = n, !.audio = a], r.pc, r.from, FALSE, r.was, r.finish)
    BY DEF Reader, IsReader, Mixed
  <1>2. \A n \in 0..3 : IsReader([r EXCEPT !.size = n], r.pc, r.from, Mixed(r), r.was, r.finish)
    BY DEF Reader, IsReader, Mixed
  <1>3. r.size \in 0..3 /\ Mixed(r) = FALSE /\ IsReader(r, r.pc, r.from, FALSE, r.was, r.finish)
    BY ReaderFields
  <1>4. CASE ~speaking
    BY <1>3, <1>4 DEF Record
  <1>5. CASE speaking /\ r.size = 0
    <2>1. PICK n \in {1, 2} :
             q = [r EXCEPT !.size = n, !.audio = IF kept = "empty" THEN "fresh" ELSE kept]
      BY <1>5 DEF Record
    <2>2. n \in 0..3 /\ (IF kept = "empty" THEN "fresh" ELSE kept) \in Kept \ {"stale"}
      BY DEF Kept
    <2> QED BY <1>1, <2>1, <2>2
  <1>6. CASE speaking /\ r.size # 0
    <2>1. PICK n \in {r.size, IF r.size < 3 THEN r.size + 1 ELSE 3} : q = [r EXCEPT !.size = n]
      BY <1>6 DEF Record
    <2>2. n \in 0..3
      BY <1>3, <2>1
    <2> QED BY <1>2, <1>3, <2>1, <2>2
  <1> QED BY <1>4, <1>5, <1>6

LEMMA HearFields ==
    ASSUME NEW r \in Reader, NEW w \in BOOLEAN, NEW f \in BOOLEAN, NEW b \in Barge,
           NEW a \in Kept, a # "stale", NEW e \in Nat
    PROVE  IsReader([r EXCEPT !.was = w, !.pc = "preview", !.finish = f, !.barge = b,
                              !.audio = a, !.seen = e],
                    "preview", r.from, FALSE, w, f)
  BY DEF Reader, IsReader, Mixed, ReaderPC

-----------------------------------------------------------------------------
(* The channel of utterances.                                              *)

\* Publishing, taking and dropping keep the order.
LEMMA AppendNewest ==
    ASSUME NEW s \in Seq(Nat), NEW n \in Nat, \A i \in 1..Len(s) : s[i] < n, InOrder(s)
    PROVE  /\ InOrder(Append(s, n)) /\ Append(s, n) \in Seq(Nat) /\ Append(s, n) # <<>>
           /\ Len(Append(s, n)) = Len(s) + 1
           /\ Append(s, n)[Len(s) + 1] = n /\ \A i \in 1..Len(s) : Append(s, n)[i] = s[i]
  <1>1. /\ Append(s, n) \in Seq(Nat) /\ Append(s, n) # <<>> /\ Len(Append(s, n)) = Len(s) + 1
        /\ Append(s, n)[Len(s) + 1] = n /\ \A i \in 1..Len(s) : Append(s, n)[i] = s[i]
    OBVIOUS
  <1>2. InOrder(Append(s, n))
    BY <1>1, SMTT(20) DEF InOrder
  <1> QED BY <1>1, <1>2

LEMMA TailKeepsOrder ==
    ASSUME NEW S, NEW s \in Seq(S), s # <<>>
    PROVE  /\ Tail(s) \in Seq(S) /\ Len(Tail(s)) = Len(s) - 1 /\ Len(s) > 0 /\ Head(s) = s[1]
           /\ \A i \in 1..Len(Tail(s)) : Tail(s)[i] = s[i + 1]
           /\ InOrder(s) => InOrder(Tail(s))
  <1>1. /\ Tail(s) \in Seq(S) /\ Len(Tail(s)) = Len(s) - 1 /\ Len(s) > 0 /\ Head(s) = s[1]
        /\ \A i \in 1..Len(Tail(s)) : Tail(s)[i] = s[i + 1]
    OBVIOUS
  <1>2. InOrder(s) => InOrder(Tail(s))
    BY <1>1 DEF InOrder
  <1> QED BY <1>1, <1>2

LEMMA TakenIsFinite ==
    ASSUME ChannelTypes, Accounting
    PROVE  IsFiniteSet(taken) /\ Cardinality(taken) \in Nat
  <1>1. published \in Int /\ taken \subseteq 1..published
    BY DEF ChannelTypes, Accounting
  <1>2. IsFiniteSet(1..published)
    BY <1>1, FS_Interval
  <1> QED BY <1>1, <1>2, FS_Subset, FS_CardinalityType

Hand == IF InHand THEN 1 ELSE 0

LEMMA AccountedParts ==
    ASSUME UtterancesAccounted
    PROVE  /\ published = Cardinality(taken) + dropped + Len(utterances) + Hand
           /\ published > 0 /\ ~InHand /\ published \notin taken
                => utterances # <<>> /\ utterances[Len(utterances)] = published
  BY DEF UtterancesAccounted, InHand, Hand

LEMMA AccountedPartsNext ==
    ASSUME utterances' \in Seq(1..MaxUtterances),
           published' = Cardinality(taken') + dropped' + Len(utterances') + Hand',
           InOrder(utterances'),
           published' > 0 /\ ~InHand' /\ published' \notin taken'
              => utterances' # <<>> /\ utterances'[Len(utterances')] = published'
    PROVE  UtterancesAccounted'
  <1>1. \A i \in 1..(Len(utterances') - 1) : utterances'[i] < utterances'[i + 1]
    BY DEF InOrder
  <1> QED BY <1>1 DEF UtterancesAccounted, InHand, Hand

\* A step that leaves the channel and the reader's hands alone.
LEMMA Untouched ==
    ASSUME Accounting, ~InHand, reader'.pc \notin {"drop", "resend"},
           reader'.pc = "publish" => reader'.finish,
           reader'.pc \in {"preview", "publish"} /\ reader'.finish => published < MaxUtterances,
           UNCHANGED <<utterances, counts>>
    PROVE  Accounting'
  <1>1. UNCHANGED <<utterances, dropped, published, taken>> /\ ~InHand'
    BY DEF counts, InHand
  <1>2. UtterancesAccounted'
    BY <1>1 DEF Accounting, UtterancesAccounted, InHand
  <1> QED BY <1>1, <1>2 DEF Accounting, InHand

\* Next takes the oldest utterance.
LEMMA TakingAccounted ==
    ASSUME ChannelTypes, Accounting, TakeUtterance, UNCHANGED <<reader, dropped, published>>
    PROVE  ChannelTypes' /\ Accounting'
  <1> DEFINE n == Head(utterances)
  <1>1. /\ utterances # <<>> /\ utterances' = Tail(utterances) /\ taken' = taken \cup {n}
        /\ utterances \in Seq(1..MaxUtterances) /\ published \in 0..MaxUtterances
        /\ dropped \in 0..MaxUtterances /\ Len(utterances) <= QueueDepth
    BY DEF TakeUtterance, ChannelTypes
  <1>2. /\ utterances' \in Seq(1..MaxUtterances) /\ Len(utterances') = Len(utterances) - 1
        /\ Len(utterances) \in Nat /\ Len(utterances) > 0
        /\ n = utterances[1] /\ \A i \in 1..Len(utterances') : utterances'[i] = utterances[i + 1]
    BY <1>1, TailKeepsOrder
  <1> HIDE DEF n
  <1>3. n \in 1..published /\ n \notin taken /\ (InHand => n # published)
    BY <1>2 DEF Accounting
  <1>4. InOrder(utterances) /\ InOrder(utterances')
    BY <1>1, TailKeepsOrder DEF Accounting
  <1>5. \A i \in 1..Len(utterances') : utterances'[i] # n
    <2>1. \A i \in 1..Len(utterances') : utterances[1] < utterances[i + 1]
      BY <1>2, <1>4 DEF InOrder
    <2>2. utterances[1] \in Int
      BY <1>2, <1>3
    <2> QED BY <1>2, <2>1, <2>2
  <1>6. Cardinality(taken') = Cardinality(taken) + 1 /\ Cardinality(taken) \in Nat
    <2>1. IsFiniteSet(taken) /\ Cardinality(taken) \in Nat
      BY TakenIsFinite
    <2>2. Cardinality(taken \cup {n}) = Cardinality(taken) + 1
      BY <1>3, <2>1, FS_AddElement
    <2> QED BY <1>1, <2>1, <2>2
  <1>7. InHand' = InHand /\ Hand' = Hand /\ Hand \in {0, 1}
    BY DEF InHand, Hand
  <1>8. published' = Cardinality(taken') + dropped' + Len(utterances') + Hand'
    BY <1>1, <1>2, <1>6, <1>7, AccountedParts DEF Accounting
  <1>9. published' > 0 /\ ~InHand' /\ published' \notin taken'
          => utterances' # <<>> /\ utterances'[Len(utterances')] = published'
    <2> SUFFICES ASSUME published' > 0, ~InHand', published' \notin taken'
                 PROVE  utterances' # <<>> /\ utterances'[Len(utterances')] = published'
      OBVIOUS
    <2>1. utterances[Len(utterances)] = published
      BY <1>1, <1>7, AccountedParts DEF Accounting
    <2>2. Len(utterances) # 1
      BY <1>1, <1>2, <2>1
    <2> QED BY <1>2, <2>1, <2>2
  <1>10. UtterancesAccounted'
    BY <1>2, <1>4, <1>8, <1>9, AccountedPartsNext
  <1>11. taken' \subseteq 1..MaxUtterances /\ taken' \subseteq 1..published
    <2>1. ASSUME NEW p \in 0..MaxUtterances, NEW k \in 1..p PROVE k \in 1..MaxUtterances
      BY <2>1, Bounds
    <2>2. n \in 1..MaxUtterances
      BY <1>1, <1>3, <2>1
    <2> QED BY <1>1, <1>3, <2>2 DEF Accounting, ChannelTypes
  <1>12. ChannelTypes'
    BY <1>1, <1>2, <1>11, Bounds DEF ChannelTypes
  <1>13. \A i \in 1..Len(utterances') : utterances'[i] \in 1..published /\ utterances'[i] \notin taken'
                                        /\ (InHand => utterances'[i] # published)
    BY <1>1, <1>2, <1>5 DEF Accounting
  <1> QED BY <1>1, <1>2, <1>3, <1>4, <1>7, <1>10, <1>11, <1>12, <1>13, Bounds DEF Accounting

LEMMA PublishAccounted ==
    ASSUME ChannelTypes, Accounting, reader.pc \in {"publish", "resend"}, taken' = taken, dropped' = dropped,
           reader.pc = "publish" => published' = published + 1,
           reader.pc = "resend" => published' = published,
           Len(utterances) < QueueDepth, utterances' = Append(utterances, published'),
           reader'.pc \in {"read", "failed"}
    PROVE  ChannelTypes' /\ Accounting'
  <1>1. /\ utterances \in Seq(1..MaxUtterances) /\ published \in 0..MaxUtterances
        /\ dropped \in 0..MaxUtterances /\ Len(utterances) \in Nat
    BY DEF ChannelTypes
  <1>2. published' \in 1..MaxUtterances /\ published <= published'
    BY <1>1, Bounds DEF Accounting, InHand
  <1>3. utterances \in Seq(Nat) /\ \A i \in 1..Len(utterances) : utterances[i] < published' /\ utterances[i] \in Nat
    <2>1. \A i \in 1..Len(utterances) : utterances[i] \in 1..published /\ (reader.pc = "resend" => utterances[i] # published)
      BY DEF Accounting, InHand
    <2> QED BY <1>1, <1>2, <2>1
  <1>4. /\ InOrder(utterances') /\ utterances' # <<>> /\ Len(utterances') = Len(utterances) + 1
        /\ utterances'[Len(utterances')] = published'
        /\ \A i \in 1..Len(utterances) : utterances'[i] = utterances[i]
    BY <1>2, <1>3, AppendNewest DEF Accounting
  <1>5. utterances' \in Seq(1..MaxUtterances)
    BY <1>1, <1>2
  <1>6. ~InHand' /\ Hand' = 0 /\ (reader.pc = "publish" => Hand = 0) /\ (reader.pc = "resend" => Hand = 1)
    BY DEF InHand, Hand
  <1>7. Cardinality(taken) \in Nat
    BY TakenIsFinite
  <1>8. published' = Cardinality(taken') + dropped' + Len(utterances') + Hand'
    BY <1>1, <1>4, <1>6, <1>7, AccountedParts DEF Accounting
  <1>9. UtterancesAccounted'
    BY <1>4, <1>5, <1>8, AccountedPartsNext
  <1>10. ChannelTypes'
    BY <1>1, <1>2, <1>4, <1>5, Bounds DEF ChannelTypes
  <1>11. taken' \subseteq 1..published' /\ published' \notin taken'
    BY <1>1, <1>2 DEF Accounting, InHand
  <1>12. \A i \in 1..Len(utterances') : utterances'[i] \in 1..published' /\ utterances'[i] \notin taken'
    <2> TAKE i \in 1..Len(utterances')
    <2>1. CASE i = Len(utterances')
      BY <1>2, <1>4, <1>11, <2>1
    <2>2. CASE i # Len(utterances')
      <3>1. i \in 1..Len(utterances)
        BY <1>1, <1>4, <2>2
      <3> QED BY <1>1, <1>2, <1>4, <3>1 DEF Accounting
    <2> QED BY <2>1, <2>2
  <1> QED BY <1>4, <1>6, <1>9, <1>10, <1>11, <1>12 DEF Accounting

\* The channel is full: the new utterance stays in the reader's hands.
LEMMA FullAccounted ==
    ASSUME ChannelTypes, Accounting, reader.pc = "publish", reader'.pc = "drop",
           published' = published + 1, UNCHANGED <<utterances, dropped, taken>>
    PROVE  ChannelTypes' /\ Accounting'
  <1>1. /\ utterances \in Seq(1..MaxUtterances) /\ published \in 0..MaxUtterances
        /\ dropped \in 0..MaxUtterances /\ Len(utterances) \in Nat
    BY DEF ChannelTypes
  <1>2. published < MaxUtterances
    BY DEF Accounting
  <1>3. InHand' /\ Hand' = 1 /\ Hand = 0
    BY DEF InHand, Hand
  <1>4. Cardinality(taken) \in Nat
    BY TakenIsFinite
  <1>5. published' = Cardinality(taken') + dropped' + Len(utterances') + Hand'
    BY <1>1, <1>3, <1>4, AccountedParts DEF Accounting
  <1>6. UtterancesAccounted'
    BY <1>1, <1>3, <1>5, AccountedPartsNext DEF Accounting
  <1>7. ChannelTypes'
    BY <1>1, <1>2, Bounds DEF ChannelTypes
  <1>8. taken' \subseteq 1..published' /\ published' \notin taken' /\ published' > 0
    BY <1>1 DEF Accounting
  <1>9. \A i \in 1..Len(utterances') : utterances'[i] \in 1..published' /\ utterances'[i] \notin taken'
                                       /\ utterances'[i] # published'
    BY <1>1 DEF Accounting
  <1> QED BY <1>6, <1>7, <1>8, <1>9 DEF Accounting

\* The oldest utterance makes room, if Next has not made it already.
MakesRoom ==
    \/ utterances = <<>> /\ UNCHANGED <<utterances, dropped>>
    \/ utterances # <<>> /\ utterances' = Tail(utterances) /\ dropped' = dropped + 1

LEMMA DropAccounted ==
    ASSUME ChannelTypes, Accounting, reader.pc = "drop", reader'.pc = "resend",
           UNCHANGED <<published, taken>>, MakesRoom
    PROVE  ChannelTypes' /\ Accounting'
  <1>1. /\ utterances \in Seq(1..MaxUtterances) /\ published \in 0..MaxUtterances
        /\ dropped \in 0..MaxUtterances /\ Len(utterances) \in Nat /\ Len(utterances) <= QueueDepth
    BY DEF ChannelTypes
  <1>2. InHand' /\ InHand /\ Hand' = 1 /\ Hand = 1
    BY DEF InHand, Hand
  <1>3. Cardinality(taken) \in Nat
    BY TakenIsFinite
  <1>4. /\ utterances' \in Seq(1..MaxUtterances) /\ InOrder(utterances') /\ Len(utterances') \in Nat
        /\ dropped' + Len(utterances') = dropped + Len(utterances) /\ dropped' \in Nat
        /\ Len(utterances') < QueueDepth
        /\ \A i \in 1..Len(utterances') : \E j \in 1..Len(utterances) : utterances'[i] = utterances[j]
    <2>1. CASE utterances = <<>> /\ UNCHANGED <<utterances, dropped>>
      BY <1>1, <2>1, Bounds DEF Accounting
    <2>2. CASE utterances # <<>> /\ utterances' = Tail(utterances) /\ dropped' = dropped + 1
      <3>1. /\ utterances' \in Seq(1..MaxUtterances) /\ Len(utterances') = Len(utterances) - 1
            /\ Len(utterances) > 0 /\ InOrder(utterances')
            /\ \A i \in 1..Len(utterances') : utterances'[i] = utterances[i + 1]
        BY <1>1, <2>2, TailKeepsOrder DEF Accounting
      <3>2. \A i \in 1..Len(utterances') : i + 1 \in 1..Len(utterances)
        BY <1>1, <3>1
      <3>3. \A i \in 1..Len(utterances') : \E j \in 1..Len(utterances) : utterances'[i] = utterances[j]
        BY <3>1, <3>2
      <3>4. /\ dropped' + Len(utterances') = dropped + Len(utterances) /\ dropped' \in Nat
            /\ Len(utterances') < QueueDepth /\ Len(utterances') \in Nat
        <4>1. ASSUME NEW d \in Nat, NEW l \in Nat, l > 0, l <= QueueDepth
              PROVE  /\ (d + 1) + (l - 1) = d + l /\ d + 1 \in Nat
                     /\ l - 1 < QueueDepth /\ l - 1 \in Nat
          BY <4>1, Bounds
        <4>2. dropped \in Nat /\ Len(utterances) \in Nat /\ Len(utterances) <= QueueDepth
          BY <1>1
        <4>3. Len(utterances') = Len(utterances) - 1 /\ Len(utterances) > 0 /\ dropped' = dropped + 1
          BY <2>2, <3>1
        <4> QED BY <4>1, <4>2, <4>3
      <3> QED BY <3>1, <3>3, <3>4
    <2> QED BY <2>1, <2>2 DEF MakesRoom
  <1>5. published' = Cardinality(taken') + dropped' + Len(utterances') + Hand'
    <2>1. published = Cardinality(taken) + dropped + Len(utterances) + Hand
      BY AccountedParts DEF Accounting
    <2>2. UNCHANGED <<published, taken>>
      OBVIOUS
    <2>3. dropped \in Nat /\ Len(utterances) \in Nat
      BY <1>1
    <2>4. dropped' + Len(utterances') = dropped + Len(utterances) /\ dropped' \in Nat /\ Len(utterances') \in Nat
      BY <1>4
    <2>5. Cardinality(taken) + dropped + Len(utterances) + 1 = Cardinality(taken) + dropped' + Len(utterances') + 1
      BY <1>3, <2>3, <2>4, SMTT(20)
    <2> QED BY <1>2, <2>1, <2>2, <2>5
  <1>6. UtterancesAccounted'
    BY <1>2, <1>4, <1>5, AccountedPartsNext
  <1>7. ChannelTypes'
    BY <1>1, <1>2, <1>3, <1>4, <1>5, Bounds, SMTT(20) DEF ChannelTypes
  <1>8. \A i \in 1..Len(utterances') : utterances'[i] \in 1..published /\ utterances'[i] \notin taken
                                       /\ utterances'[i] # published
    BY <1>2, <1>4 DEF Accounting
  <1> QED BY <1>2, <1>4, <1>6, <1>7, <1>8 DEF Accounting

-----------------------------------------------------------------------------
(* The steps of readLoop.                                                  *)

Around == <<sourceErr, flags, next, reports, closing, starts, turn>>

\* A reader that goes on: only its recording and the channels matter.
LEMMA ReaderGoesOn ==
    ASSUME VoiceInputInv, UNCHANGED mic, UNCHANGED Around, UNCHANGED turnVars,
           reader.pc # "off", reader' \in Reader, reader'.pc \notin {"off", "begin"}, Mixed(reader') = FALSE,
           preRoll' \in Kept, preRoll' = "stale" => reader'.was,
           reader'.pc = "offer" => reader'.from \in Turn,
           partials' \in 0..1, CandidateTypes', ChannelTypes', Accounting'
    PROVE  VoiceInputInv'
  <1>1. VoiceInputTypeOK /\ RecorderTypes /\ TurnTypes /\ Lifecycle /\ Numbered
    BY Types DEF VoiceInputInv
  <1>2. UNCHANGED <<mic, sourceErr, running, closed, suppressed, stretches, waiting, next, reports, closing, starts, turn,
                    phase, stopped, ctx, sub, heard>>
    BY DEF Around, flags, gate, turnVars
  <1>3. RecorderTypes' /\ TurnTypes'
    BY <1>1, <1>2 DEF RecorderTypes, TurnTypes
  <1>4. VoiceInputTypeOK'
    BY <1>3, TypesNext
  <1>5. Lifecycle'
    BY <1>1, <1>2 DEF Lifecycle, NoDeafWait
  <1>6. PreRolls'
    BY DEF PreRolls, NoMixedAudio, Mixed
  <1>7. Numbered'
    BY <1>1, <1>2 DEF Numbered
  <1> QED BY <1>4, <1>5, <1>6, <1>7 DEF VoiceInputInv

\* What every step of readLoop may start from.
LEMMA ReaderFacts ==
    ASSUME VoiceInputInv
    PROVE  /\ VoiceInputTypeOK /\ RecorderTypes /\ ChannelTypes /\ CandidateTypes /\ TurnTypes
           /\ Lifecycle /\ PreRolls /\ Accounting /\ Numbered
           /\ reader \in Reader /\ Mixed(reader) = FALSE
           /\ reader.pc \notin {"off", "begin"} /\ preRoll = "stale" => reader.was
           /\ preRoll \in Kept /\ partials \in 0..1 /\ suppressed \in BOOLEAN
           /\ stretches \in Nat /\ reader.audio \in Kept /\ reader.audio # "stale"
  <1>1. RecorderTypes /\ PreRolls
    BY Types DEF VoiceInputInv
  <1>2. reader \in Reader /\ Mixed(reader) = FALSE
    BY <1>1, ReaderFields DEF RecorderTypes, PreRolls, NoMixedAudio, Mixed
  <1>3. reader.audio \in Kept /\ reader.audio # "stale"
    BY <1>1, <1>2, ReaderFields DEF Mixed
  <1> QED BY <1>1, <1>2, <1>3, Types DEF VoiceInputInv, RecorderTypes, PreRolls

LEMMA ReaderBeginsKeeps ==
    ASSUME VoiceInputInv, ReaderBegins, UNCHANGED Around, UNCHANGED turnVars PROVE VoiceInputInv'
  <1>1. /\ reader.pc = "begin" /\ reader' = [reader EXCEPT !.pc = "read", !.was = suppressed, !.seen = stretches]
        /\ UNCHANGED <<preRoll, utterances, partials, candidates, mic, counts>>
    BY DEF ReaderBegins
  <1>2. IsReader(reader', "read", reader.from, FALSE, suppressed, reader.finish)
    BY <1>1, ReaderFacts, ReaderMoves DEF ReaderPC
  <1>3. Accounting'
    BY <1>1, <1>2, ReaderFacts, Untouched DEF IsReader, InHand
  <1>4. ChannelTypes' /\ CandidateTypes'
    BY <1>1, ReaderFacts DEF ChannelTypes, CandidateTypes, counts
  <1>5. preRoll = "empty"
    BY <1>1, ReaderFacts DEF PreRolls
  <1> QED BY <1>1, <1>2, <1>3, <1>4, <1>5, ReaderFacts, ReaderGoesOn DEF IsReader

LEMMA ReadKeeps ==
    ASSUME VoiceInputInv, Read, UNCHANGED Around, UNCHANGED turnVars PROVE VoiceInputInv'
  <1>1. reader.pc = "read" /\ UNCHANGED <<preRoll, utterances, partials, candidates, mic, counts>>
    BY DEF Read
  <1>2. \E p \in {"hear", "failed"} : IsReader(reader', p, reader.from, FALSE, reader.was, reader.finish)
    <2>1. TRUE \in BOOLEAN /\ "hear" \in ReaderPC /\ "failed" \in ReaderPC
      BY DEF ReaderPC
    <2>2. IsReader([reader EXCEPT !.pc = "hear"], "hear", reader.from, FALSE, reader.was, reader.finish)
      BY <2>1, ReaderFacts, ReaderMoves
    <2>3. IsReader([reader EXCEPT !.pc = "hear", !.last = TRUE], "hear", reader.from, FALSE, reader.was, reader.finish)
      BY <2>1, ReaderFacts, ReaderMoves
    <2>4. IsReader([reader EXCEPT !.pc = "failed"], "failed", reader.from, FALSE, reader.was, reader.finish)
      BY <2>1, ReaderFacts, ReaderMoves
    <2> QED BY <2>2, <2>3, <2>4 DEF Read
  <1>3. Accounting'
    BY <1>1, <1>2, ReaderFacts, Untouched DEF IsReader, InHand
  <1>4. ChannelTypes' /\ CandidateTypes'
    BY <1>1, ReaderFacts DEF ChannelTypes, CandidateTypes, counts
  <1> QED BY <1>1, <1>2, <1>3, <1>4, ReaderFacts, ReaderGoesOn DEF IsReader

LEMMA HearSuppressedKeeps ==
    ASSUME VoiceInputInv, HearSuppressed, UNCHANGED Around, UNCHANGED turnVars PROVE VoiceInputInv'
  <1>1. /\ reader.pc = "hear" /\ preRoll' = IF reader.was THEN Aged(preRoll, "stale") ELSE "empty"
        /\ partials' = 0 /\ UNCHANGED <<utterances, candidates, mic, counts>>
    BY DEF HearSuppressed
  <1> DEFINE quiet == [reader EXCEPT !.was = TRUE, !.size = 0, !.audio = "empty", !.sent = FALSE,
                                     !.seen = stretches]
  <1>2. PICK b \in BargeStates(IF reader.was THEN reader.barge ELSE "warmup") :
            reader' = IF b = "ready" THEN [quiet EXCEPT !.pc = "offer", !.barge = "warmup", !.from = turn]
                                     ELSE AfterChunk([quiet EXCEPT !.barge = b])
    BY DEF HearSuppressed
  <1>3. b \in Barge \cup {"ready"}
    <2>1. (IF reader.was THEN reader.barge ELSE "warmup") \in Barge
      BY ReaderFacts, ReaderFields DEF Barge
    <2> QED BY <1>2, <2>1 DEF BargeStates, Barge
  <1>4. turn \in Turn /\ turn \in 0..MaxTurns
    BY <1>1, ReaderFacts, Bounds DEF TurnTypes, Numbered
  <1>5. /\ IsReader(quiet, "hear", reader.from, FALSE, TRUE, reader.finish)
        /\ IsReader([quiet EXCEPT !.pc = "offer", !.barge = "warmup", !.from = turn],
                    "offer", turn, FALSE, TRUE, reader.finish)
        /\ \A c \in Barge : IsReader([quiet EXCEPT !.barge = c], "hear", reader.from, FALSE, TRUE, reader.finish)
    <2>1. reader \in Reader /\ reader.pc = "hear"
      BY <1>1, ReaderFacts
    <2>2. \A w, f \in BOOLEAN, n \in 0..3, a \in Kept :
             a # "stale" =>
             LET q == [reader EXCEPT !.was = w, !.size = n, !.audio = a, !.sent = f, !.seen = stretches] IN
             /\ IsReader(q, "hear", reader.from, FALSE, w, reader.finish)
             /\ IsReader([q EXCEPT !.pc = "offer", !.barge = "warmup", !.from = turn],
                         "offer", turn, FALSE, w, reader.finish)
             /\ \A c \in Barge : IsReader([q EXCEPT !.barge = c], "hear", reader.from, FALSE, w, reader.finish)
      <3> SUFFICES ASSUME NEW w \in BOOLEAN, NEW f \in BOOLEAN, NEW n \in 0..3, NEW a \in Kept, a # "stale"
                   PROVE  LET q == [reader EXCEPT !.was = w, !.size = n, !.audio = a, !.sent = f,
                                                  !.seen = stretches] IN
                          /\ IsReader(q, "hear", reader.from, FALSE, w, reader.finish)
                          /\ IsReader([q EXCEPT !.pc = "offer", !.barge = "warmup", !.from = turn],
                                      "offer", turn, FALSE, w, reader.finish)
                          /\ \A c \in Barge :
                                IsReader([q EXCEPT !.barge = c], "hear", reader.from, FALSE, w, reader.finish)
        OBVIOUS
      <3> DEFINE q == [reader EXCEPT !.was = w, !.size = n, !.audio = a, !.sent = f, !.seen = stretches]
      <3>1. /\ IsReader(q, reader.pc, reader.from, FALSE, w, reader.finish)
            /\ \A t \in 0..MaxTurns :
                  IsReader([q EXCEPT !.pc = "offer", !.barge = "warmup", !.from = t],
                           "offer", t, FALSE, w, reader.finish)
            /\ \A b2 \in Barge : IsReader([q EXCEPT !.barge = b2], reader.pc, reader.from, FALSE, w, reader.finish)
        BY <2>1, ReaderFacts, QuietFields, Zenon
      <3> HIDE DEF q
      <3>2. /\ IsReader(q, "hear", reader.from, FALSE, w, reader.finish)
            /\ IsReader([q EXCEPT !.pc = "offer", !.barge = "warmup", !.from = turn],
                         "offer", turn, FALSE, w, reader.finish)
            /\ \A c \in Barge : IsReader([q EXCEPT !.barge = c], "hear", reader.from, FALSE, w, reader.finish)
        BY <1>4, <2>1, <3>1
      <3> QED BY <3>2 DEF q
    <2>3. TRUE \in BOOLEAN /\ FALSE \in BOOLEAN /\ 0 \in 0..3 /\ "empty" \in Kept /\ "empty" # "stale"
      BY DEF Kept
    <2> QED BY <2>2, <2>3, Zenon
  <1> HIDE DEF quiet
  <1>6. \/ IsReader(reader', "offer", turn, FALSE, TRUE, reader.finish)
        \/ IsReader(reader', "read", 0, FALSE, TRUE, FALSE)
        \/ IsReader(reader', "failed", 0, FALSE, TRUE, FALSE)
    <2>1. CASE b = "ready"
      BY <1>2, <1>5, <2>1
    <2>2. CASE b # "ready"
      <3>1. PICK r \in Reader : r = [quiet EXCEPT !.barge = b] /\ Mixed(r) = FALSE /\ r.was = TRUE
        BY <1>3, <1>5, <2>2 DEF IsReader
      <3>2. reader' = AfterChunk(r)
        BY <1>2, <2>2, <3>1
      <3> QED BY <3>1, <3>2, AfterChunkFields
    <2> QED BY <2>1, <2>2
  <1>7. Accounting'
    BY <1>1, <1>6, ReaderFacts, Untouched DEF IsReader, InHand
  <1>8. ChannelTypes' /\ CandidateTypes'
    BY <1>1, ReaderFacts DEF ChannelTypes, CandidateTypes, counts
  <1>9. preRoll' \in Kept /\ (preRoll' = "stale" => reader'.was)
    BY <1>1, <1>6, ReaderFacts, AgedFacts DEF IsReader, Kept
  <1>10. /\ reader' \in Reader /\ reader'.pc \notin {"off", "begin"} /\ Mixed(reader') = FALSE
         /\ reader'.pc = "offer" => reader'.from \in Turn
    BY <1>4, <1>6 DEF IsReader
  <1>11. reader.pc # "off" /\ partials' \in 0..1 /\ UNCHANGED mic
    BY <1>1
  <1> QED BY <1>7, <1>8, <1>9, <1>10, <1>11, ReaderGoesOn

LEMMA OfferKeeps ==
    ASSUME VoiceInputInv, Offer, UNCHANGED Around, UNCHANGED turnVars PROVE VoiceInputInv'
  <1>1. /\ reader.pc = "offer" /\ reader' = AfterChunk(reader)
        /\ UNCHANGED <<preRoll, utterances, partials, mic, counts>>
    BY DEF Offer
  <1>2. \E p \in {"read", "failed"} : IsReader(reader', p, 0, FALSE, reader.was, FALSE)
    BY <1>1, ReaderFacts, AfterChunkFields
  <1>3. Accounting'
    BY <1>1, <1>2, ReaderFacts, Untouched DEF IsReader, InHand
  <1>4. ChannelTypes'
    BY <1>1, ReaderFacts DEF ChannelTypes, counts
  <1>5. CandidateTypes'
    <2>1. reader.from \in Turn /\ candidates \in Seq(Turn) /\ Len(candidates) <= CandidateDepth
      BY <1>1, ReaderFacts DEF Numbered, CandidateTypes
    <2>2. ASSUME NEW s \in Seq(Turn), Len(s) < CandidateDepth
          PROVE  Append(s, reader.from) \in Seq(Turn) /\ Len(Append(s, reader.from)) <= CandidateDepth
      BY <2>1, <2>2, Bounds
    <2>3. CASE Len(candidates) < CandidateDepth
      BY <2>1, <2>2, <2>3 DEF Offer, CandidateTypes
    <2>4. CASE ~(Len(candidates) < CandidateDepth)
      <3>1. Tail(candidates) \in Seq(Turn) /\ Len(Tail(candidates)) < CandidateDepth
        BY <2>1, <2>4, Bounds
      <3> QED BY <2>2, <2>4, <3>1 DEF Offer, CandidateTypes
    <2> QED BY <2>3, <2>4
  <1> QED BY <1>1, <1>2, <1>3, <1>4, <1>5, ReaderFacts, ReaderGoesOn DEF IsReader

LEMMA HearFreeKeeps ==
    ASSUME VoiceInputInv, HearFree, UNCHANGED Around, UNCHANGED turnVars PROVE VoiceInputInv'
  <1> DEFINE gap == IF reader.seen = stretches THEN "fresh" ELSE "slipped"
             kept == IF reader.was THEN "empty" ELSE Aged(preRoll, gap)
             heardBy(finish) == [reader EXCEPT !.was = FALSE, !.pc = "preview", !.finish = finish,
                                               !.barge = IF reader.was THEN "warmup" ELSE @,
                                               !.audio = Aged(@, gap), !.seen = stretches]
  <1>1. reader.pc = "hear" /\ UNCHANGED <<utterances, partials, candidates, mic, counts>>
    BY DEF HearFree
  <1>2. PICK speaking, finish \in BOOLEAN :
            /\ finish => published < MaxUtterances
            /\ reader' \in Record(kept, speaking, heardBy(finish))
            /\ preRoll' = CASE reader.size = 0 /\ speaking  -> "empty"
                            [] reader.size = 0 /\ ~speaking -> IF kept = "empty" THEN "fresh" ELSE kept
                            [] OTHER                        -> kept
    BY DEF HearFree
  <1>3. kept # "stale" /\ kept \in Kept /\ Aged(reader.audio, gap) \in Kept /\ Aged(reader.audio, gap) # "stale"
    <2>1. gap \in {"fresh", "slipped", "stale"} /\ gap # "stale" /\ "empty" \in Kept /\ "empty" # "stale"
      BY DEF Kept
    <2> HIDE DEF gap
    <2>2. ASSUME NEW k \in Kept, k # "stale" PROVE Aged(k, gap) \in Kept /\ Aged(k, gap) # "stale"
      BY <2>1, <2>2, AgedFacts
    <2>3. reader.pc \notin {"off", "begin"}
      BY <1>1
    <2>4. preRoll \in Kept /\ (preRoll = "stale" => reader.was) /\ reader.audio \in Kept /\ reader.audio # "stale"
      BY <2>3, ReaderFacts
    <2> QED BY <2>1, <2>2, <2>4
  <1>4. preRoll' \in Kept /\ preRoll' # "stale"
    <2> HIDE DEF kept
    <2>1. "empty" \in Kept /\ "fresh" \in Kept
      BY DEF Kept
    <2> QED BY <1>2, <1>3, <2>1
  <1>5. IsReader(heardBy(finish), "preview", reader.from, FALSE, FALSE, finish)
    <2>1. FALSE \in BOOLEAN /\ (IF reader.was THEN "warmup" ELSE reader.barge) \in Barge
      BY ReaderFacts, ReaderFields DEF Barge
    <2>2. \A w, f \in BOOLEAN, b \in Barge, a \in Kept :
             a # "stale" => IsReader([reader EXCEPT !.was = w, !.pc = "preview", !.finish = f, !.barge = b,
                                                    !.audio = a, !.seen = stretches],
                                     "preview", reader.from, FALSE, w, f)
      BY ReaderFacts, HearFields
    <2> HIDE DEF gap
    <2> QED BY <1>3, <2>1, <2>2
  <1> HIDE DEF kept, heardBy
  <1>6. IsReader(reader', "preview", reader.from, FALSE, FALSE, finish)
    <2>1. PICK r \in Reader : r = heardBy(finish) /\ r.pc = "preview" /\ r.from = reader.from
                              /\ Mixed(r) = FALSE /\ r.was = FALSE /\ r.finish = finish
      BY <1>5 DEF IsReader
    <2>2. reader' \in Record(kept, speaking, r)
      BY <1>2, <2>1
    <2> QED BY <1>3, <2>1, <2>2, RecordFields
  <1>7. Accounting'
    BY <1>1, <1>2, <1>6, ReaderFacts, Untouched DEF IsReader, InHand
  <1>8. ChannelTypes' /\ CandidateTypes'
    BY <1>1, ReaderFacts DEF ChannelTypes, CandidateTypes, counts
  <1> QED BY <1>1, <1>4, <1>6, <1>7, <1>8, ReaderFacts, ReaderGoesOn DEF IsReader

LEMMA PreviewKeeps ==
    ASSUME VoiceInputInv, Preview, UNCHANGED Around, UNCHANGED turnVars PROVE VoiceInputInv'
  <1> DEFINE send == waiting /\ ~reader.sent /\ reader.size = 3
             r    == [reader EXCEPT !.sent = @ \/ send]
  <1>1. /\ reader.pc = "preview" /\ partials' = IF send THEN 1 ELSE partials
        /\ reader' = IF reader.finish THEN [r EXCEPT !.pc = "publish"] ELSE AfterChunk(r)
        /\ UNCHANGED <<preRoll, utterances, candidates, mic, counts>>
    BY DEF Preview
  <1>2. IsReader(r, "preview", reader.from, FALSE, reader.was, reader.finish)
    <2>1. (reader.sent \/ send) \in BOOLEAN
      OBVIOUS
    <2>2. reader.pc = "preview" /\ reader \in Reader /\ Mixed(reader) = FALSE
      BY <1>1, ReaderFacts
    <2>3. \A b \in BOOLEAN : IsReader([reader EXCEPT !.sent = b], "preview", reader.from, FALSE,
                                     reader.was, reader.finish)
      BY <2>2, SentFields DEF IsReader
    <2> QED BY <2>1, <2>3
  <1> HIDE DEF r
  <1>3. \/ reader.finish /\ IsReader(reader', "publish", reader.from, FALSE, reader.was, reader.finish)
        \/ IsReader(reader', "read", 0, FALSE, reader.was, FALSE)
        \/ IsReader(reader', "failed", 0, FALSE, reader.was, FALSE)
    <2>1. CASE reader.finish
      <3>1. r \in Reader /\ "publish" \in ReaderPC
        BY <1>2 DEF IsReader, ReaderPC
      <3>2. IsReader([r EXCEPT !.pc = "publish"], "publish", r.from, Mixed(r), r.was, r.finish)
        BY <3>1, ReaderMoves
      <3> QED BY <1>1, <1>2, <2>1, <3>2 DEF IsReader
    <2>2. CASE ~reader.finish
      BY <1>1, <1>2, <2>2, AfterChunkFields DEF IsReader
    <2> QED BY <2>1, <2>2
  <1>4. Accounting'
    <2>1. reader.finish => published < MaxUtterances
      BY <1>1, ReaderFacts DEF Accounting
    <2> QED BY <1>1, <1>3, <2>1, ReaderFacts, Untouched DEF IsReader, InHand
  <1>5. ChannelTypes' /\ CandidateTypes'
    BY <1>1, ReaderFacts DEF ChannelTypes, CandidateTypes, counts
  <1>6. partials' \in 0..1
    BY <1>1, ReaderFacts
  <1> QED BY <1>1, <1>3, <1>4, <1>5, <1>6, ReaderFacts, ReaderGoesOn DEF IsReader

\* A recording ends: the reader reads on, or stops at the end of its source.
LEMMA RecordingEnds ==
    ASSUME VoiceInputInv, EndRecording
    PROVE  /\ preRoll' = "empty"
           /\ \E p \in {"read", "failed"} : IsReader(reader', p, 0, FALSE, reader.was, FALSE)
  <1> DEFINE r == [reader EXCEPT !.size = 0, !.audio = "empty", !.sent = FALSE]
  <1>1. FALSE \in BOOLEAN /\ 0 \in 0..3 /\ reader \in Reader /\ "empty" \in Kept /\ "empty" # "stale"
    BY ReaderFacts DEF Kept
  <1>2. IsReader(r, reader.pc, reader.from, FALSE, reader.was, reader.finish)
    BY <1>1, EndRecordingFields, Zenon
  <1>3. preRoll' = "empty" /\ reader' = AfterChunk(r)
    BY DEF EndRecording
  <1> HIDE DEF r
  <1>4. r \in Reader /\ Mixed(r) = FALSE /\ r.was = reader.was /\ r.last \in BOOLEAN
    BY <1>2, ReaderFields DEF IsReader
  <1> QED BY <1>3, <1>4, AfterChunkFields

LEMMA PublishKeeps ==
    ASSUME VoiceInputInv, Publish, UNCHANGED Around, UNCHANGED turnVars PROVE VoiceInputInv'
  <1>1. reader.pc = "publish" /\ UNCHANGED <<partials, candidates, mic, dropped, taken>>
    BY DEF Publish
  <1>2. CandidateTypes'
    BY <1>1, ReaderFacts DEF CandidateTypes
  <1>3. CASE EndRecording /\ UNCHANGED <<utterances, published>>
    <2>1. Accounting'
      BY <1>1, <1>3, RecordingEnds, ReaderFacts, Untouched DEF IsReader, InHand, counts
    <2>2. ChannelTypes'
      BY <1>1, <1>3, ReaderFacts DEF ChannelTypes
    <2> QED BY <1>1, <1>2, <1>3, <2>1, <2>2, RecordingEnds, ReaderFacts, ReaderGoesOn DEF IsReader, Kept
  <1>4. CASE /\ EndRecording /\ Len(utterances) < QueueDepth /\ published' = published + 1
             /\ utterances' = Append(utterances, published')
    <2>1. ChannelTypes' /\ Accounting'
      BY <1>1, <1>4, RecordingEnds, ReaderFacts, PublishAccounted DEF IsReader
    <2> QED BY <1>1, <1>2, <1>4, <2>1, RecordingEnds, ReaderFacts, ReaderGoesOn DEF IsReader, Kept
  <1>5. CASE /\ reader' = [reader EXCEPT !.pc = "drop"] /\ published' = published + 1
             /\ UNCHANGED <<preRoll, utterances>>
    <2>1. IsReader(reader', "drop", reader.from, FALSE, reader.was, reader.finish)
      BY <1>5, ReaderFacts, ReaderMoves DEF ReaderPC
    <2>2. ChannelTypes' /\ Accounting'
      BY <1>1, <1>5, <2>1, ReaderFacts, FullAccounted DEF IsReader
    <2> QED BY <1>1, <1>2, <1>5, <2>1, <2>2, ReaderFacts, ReaderGoesOn DEF IsReader
  <1> QED BY <1>3, <1>4, <1>5 DEF Publish

LEMMA DropOldestKeeps ==
    ASSUME VoiceInputInv, DropOldest, UNCHANGED Around, UNCHANGED turnVars PROVE VoiceInputInv'
  <1>1. /\ reader.pc = "drop" /\ reader' = [reader EXCEPT !.pc = "resend"]
        /\ UNCHANGED <<preRoll, partials, candidates, mic, published, taken>>
    BY DEF DropOldest
  <1>2. MakesRoom
    BY DEF DropOldest, MakesRoom
  <1>3. IsReader(reader', "resend", reader.from, FALSE, reader.was, reader.finish)
    BY <1>1, ReaderFacts, ReaderMoves DEF ReaderPC
  <1>4. ChannelTypes' /\ Accounting'
    BY <1>1, <1>2, <1>3, ReaderFacts, DropAccounted DEF IsReader
  <1>5. CandidateTypes'
    BY <1>1, ReaderFacts DEF CandidateTypes
  <1> QED BY <1>1, <1>3, <1>4, <1>5, ReaderFacts, ReaderGoesOn DEF IsReader

LEMMA ResendKeeps ==
    ASSUME VoiceInputInv, Resend, UNCHANGED Around, UNCHANGED turnVars PROVE VoiceInputInv'
  <1>1. /\ reader.pc = "resend" /\ utterances' = Append(utterances, published) /\ EndRecording
        /\ UNCHANGED <<partials, candidates, mic, dropped, published, taken>>
    BY DEF Resend, counts
  <1>2. Len(utterances) < QueueDepth
    BY <1>1, ReaderFacts DEF Accounting
  <1>3. ChannelTypes' /\ Accounting'
    BY <1>1, <1>2, RecordingEnds, ReaderFacts, PublishAccounted DEF IsReader
  <1>4. CandidateTypes'
    BY <1>1, ReaderFacts DEF CandidateTypes
  <1> QED BY <1>1, <1>3, <1>4, RecordingEnds, ReaderFacts, ReaderGoesOn DEF IsReader, Kept

LEMMA ReadLoopKeeps ==
    ASSUME VoiceInputInv, MicStep(ReadLoop) PROVE VoiceInputInv'
  <1>1. UNCHANGED Around /\ UNCHANGED turnVars
    BY DEF MicStep, ReadLoop, Around
  <1> QED BY <1>1, ReaderBeginsKeeps, ReadKeeps, HearSuppressedKeeps, OfferKeeps, HearFreeKeeps,
             PreviewKeeps, PublishKeeps, DropOldestKeeps, ResendKeeps DEF MicStep, ReadLoop

-----------------------------------------------------------------------------
(* The end of a reader.                                                    *)

LEMMA ReaderFailsKeeps ==
    ASSUME VoiceInputInv, MicStep(ReaderFails) PROVE VoiceInputInv'
  <1>1. UNCHANGED <<preRoll, utterances, partials, candidates, closed, suppressed, stretches, waiting,
                    next, closing, starts, dropped, published, taken, turn, phase, stopped, ctx, sub, heard>>
    BY DEF MicStep, ReaderFails, counts, gate, turnVars
  <1>2. ChannelTypes' /\ CandidateTypes' /\ TurnTypes'
    BY <1>1, ReaderFacts DEF ChannelTypes, CandidateTypes, TurnTypes
  <1>3. CASE ReadFailed /\ UNCHANGED sourceErr
    <2>1. reader.pc = "failed" /\ UNCHANGED <<mic, running, reports>>
      BY <1>3 DEF ReadFailed
    <2>2. \/ closed /\ IsReader(reader', "off", 0, FALSE, FALSE, FALSE)
          \/ ~closed /\ IsReader(reader', "stop", reader.from, FALSE, reader.was, reader.finish)
      BY <1>3, ReaderFacts, NewReaderFields, ReaderMoves DEF ReadFailed, ReaderPC
    <2>3. RecorderTypes'
      BY <1>1, <1>3, <2>1, <2>2, ReaderFacts DEF RecorderTypes, IsReader
    <2>4. Lifecycle'
      BY <1>1, <1>3, <2>1, <2>2, <2>3, ReaderFacts DEF Lifecycle, NoDeafWait, IsReader, RecorderTypes
    <2>5. PreRolls' /\ Numbered'
      BY <1>1, <2>1, <2>2, ReaderFacts DEF PreRolls, NoMixedAudio, Mixed, Numbered, IsReader
    <2>6. Accounting'
      BY <1>1, <2>1, <2>2, ReaderFacts, Untouched DEF IsReader, InHand, counts
    <2> QED BY <1>2, <2>3, <2>4, <2>5, <2>6, TypesNext DEF VoiceInputInv
  <1>4. CASE SourceFailed /\ UNCHANGED sourceErr
    <2>1. /\ reader.pc = "stop" /\ mic' = "none" /\ running' = FALSE
          /\ reports' = IF closed THEN reports ELSE reports + 1
      BY <1>4 DEF SourceFailed
    <2>2. IsReader(reader', "off", 0, FALSE, FALSE, FALSE)
      BY <1>4, NewReaderFields DEF SourceFailed
    <2>3. reports' \in 0..MaxStarts
      BY <2>1, ReaderFacts, Bounds DEF Lifecycle, RecorderTypes
    <2>4. RecorderTypes'
      BY <1>1, <1>4, <2>1, <2>2, <2>3, ReaderFacts DEF RecorderTypes, IsReader
    <2>5. Lifecycle'
      BY <1>1, <1>4, <2>1, <2>2, <2>3, ReaderFacts DEF Lifecycle, NoDeafWait, IsReader, RecorderTypes
    <2>6. PreRolls' /\ Numbered'
      BY <1>1, <2>1, <2>2, ReaderFacts DEF PreRolls, NoMixedAudio, Mixed, Numbered, IsReader
    <2>7. Accounting'
      BY <1>1, <2>1, <2>2, ReaderFacts, Untouched DEF IsReader, InHand, counts
    <2> QED BY <1>2, <2>4, <2>5, <2>6, <2>7, TypesNext DEF VoiceInputInv
  <1>5. CASE Report
    <2>1. reports > 0 /\ reports' = reports - 1 /\ sourceErr' = TRUE /\ UNCHANGED <<reader, mic, running>>
      BY <1>5 DEF Report
    <2>2. RecorderTypes'
      BY <1>1, <2>1, ReaderFacts, Bounds DEF RecorderTypes
    <2>3. Lifecycle'
      BY <1>1, <2>1, ReaderFacts DEF Lifecycle, NoDeafWait, RecorderTypes
    <2>4. PreRolls' /\ Numbered'
      BY <1>1, <2>1, ReaderFacts DEF PreRolls, NoMixedAudio, Mixed, Numbered
    <2>5. Accounting'
      BY <1>1, <2>1, ReaderFacts DEF Accounting, InHand, UtterancesAccounted
    <2> QED BY <1>2, <2>2, <2>3, <2>4, <2>5, TypesNext DEF VoiceInputInv
  <1> QED BY <1>3, <1>4, <1>5 DEF MicStep, ReaderFails

LEMMA ArecordDiesKeeps ==
    ASSUME VoiceInputInv, MicStep(ArecordDies) PROVE VoiceInputInv'
  <1>1. /\ mic = "alive" /\ mic' = "dead"
        /\ UNCHANGED <<reader, preRoll, utterances, partials, candidates, sourceErr, running, closed, suppressed, stretches,
                       waiting, next, reports, closing, starts, dropped, published, taken, turn,
                       phase, stopped, ctx, sub, heard>>
    BY DEF MicStep, ArecordDies, counts, flags, gate, turnVars
  <1>2. RecorderTypes' /\ ChannelTypes' /\ CandidateTypes' /\ TurnTypes'
    BY <1>1, ReaderFacts DEF RecorderTypes, ChannelTypes, CandidateTypes, TurnTypes
  <1>3. Lifecycle' /\ PreRolls' /\ Numbered'
    BY <1>1, ReaderFacts DEF Lifecycle, NoDeafWait, PreRolls, NoMixedAudio, Mixed, Numbered
  <1>4. Accounting'
    BY <1>1, ReaderFacts DEF Accounting, InHand, UtterancesAccounted
  <1> QED BY <1>2, <1>3, <1>4, TypesNext DEF VoiceInputInv

-----------------------------------------------------------------------------
(* Next.                                                                   *)

\* Steps that do not touch the recording and the channel of utterances.
LEMMA SameRecording ==
    ASSUME VoiceInputInv, UNCHANGED <<reader, preRoll, utterances, dropped, published, taken>>
    PROVE  PreRolls' /\ Accounting' /\ ChannelTypes'
  <1>1. PreRolls'
    BY ReaderFacts DEF PreRolls, NoMixedAudio, Mixed
  <1>2. Accounting'
    BY ReaderFacts DEF Accounting, InHand, UtterancesAccounted
  <1>3. ChannelTypes'
    BY ReaderFacts DEF ChannelTypes
  <1> QED BY <1>1, <1>2, <1>3

NextTo(p, o, t) == next' \in NextCall /\ next'.pc = p /\ next'.out = o /\ next'.turn = t

LEMMA NextFields ==
    ASSUME VoiceInputInv
    PROVE  /\ next \in NextCall /\ next.pc \in {"idle", "peek", "ensure", "wait"}
           /\ next.turn \in 0..MaxTurns /\ next.out \in {"none", "utterance", "error"}
  BY ReaderFacts DEF RecorderTypes, NextCall

LEMMA NextMoves ==
    ASSUME VoiceInputInv, NEW p \in {"idle", "peek", "ensure", "wait"},
           NEW o \in {"none", "utterance", "error"}, NEW t \in 0..MaxTurns
    PROVE  /\ next' = [pc |-> p, out |-> o, turn |-> t] => NextTo(p, o, t)
           /\ next' = [next EXCEPT !.pc = p] => NextTo(p, next.out, next.turn)
  BY NextFields DEF NextTo, NextCall

Aside == <<candidates, closed, suppressed, stretches, reports, closing, dropped, published>>

\* A step of Next that leaves the source alone: it never goes on to wait unless
\* a reader runs.
LEMMA NextGoesOn ==
    ASSUME VoiceInputInv, UNCHANGED Aside, UNCHANGED <<turn, stopped, ctx, sub, heard>>,
           UNCHANGED <<reader, preRoll, mic, running, starts>>,
           next' \in NextCall, turn > 0, waiting' \in BOOLEAN, partials' \in 0..1, sourceErr' \in BOOLEAN,
           phase' \in Phase,
           \/ UNCHANGED <<utterances, taken>>
           \/ TakeUtterance,
           next'.pc = "wait" => running /\ ~closed
    PROVE  VoiceInputInv'
  <1>1. UNCHANGED <<candidates, closed, suppressed, stretches, reports, closing, dropped, published>>
    BY DEF Aside
  <1>2. Accounting' /\ ChannelTypes'
    BY <1>1, ReaderFacts, TakingAccounted, SameRecording
  <1>3. PreRolls'
    BY ReaderFacts DEF PreRolls, NoMixedAudio, Mixed
  <1>4. RecorderTypes' /\ CandidateTypes' /\ TurnTypes'
    BY <1>1, ReaderFacts DEF RecorderTypes, CandidateTypes, TurnTypes
  <1>5. Lifecycle'
    BY <1>1, ReaderFacts DEF Lifecycle, NoDeafWait
  <1>6. Numbered'
    BY ReaderFacts DEF Numbered
  <1> QED BY <1>2, <1>3, <1>4, <1>5, <1>6, TypesNext DEF VoiceInputInv

LEMMA NextBeginsKeeps ==
    ASSUME VoiceInputInv, NextStep(NextBegins), phase = "listen", phase' = "capture",
           UNCHANGED <<stopped, ctx, sub, heard>>
    PROVE  VoiceInputInv'
  <1>1. /\ waiting' = TRUE /\ partials' = 0 /\ UNCHANGED Aside /\ UNCHANGED turn
        /\ UNCHANGED <<reader, preRoll, utterances, sourceErr, mic, running, starts, taken>>
    BY DEF NextStep, NextBegins, Aside, gate
  <1>2. turn > 0 /\ turn \in 0..MaxTurns /\ sourceErr \in BOOLEAN
    BY ReaderFacts DEF Numbered, TurnTypes, RecorderTypes
  <1>3. NextTo("peek", "none", turn)
    BY <1>2, NextMoves DEF NextStep, NextBegins
  <1> QED BY <1>1, <1>2, <1>3, NextGoesOn DEF NextTo, Phase

LEMMA NextReturnsFields ==
    ASSUME VoiceInputInv, NEW o \in {"utterance", "error"}, NextReturns(o)
    PROVE  NextTo("idle", o, 0) /\ waiting' = FALSE
  <1>1. 0 \in 0..MaxTurns
    BY Bounds
  <1> QED BY <1>1, NextMoves DEF NextReturns

LEMMA PeekKeeps ==
    ASSUME VoiceInputInv, NextStep(Peek), UNCHANGED turnVars PROVE VoiceInputInv'
  <1>1. /\ next.pc = "peek" /\ UNCHANGED Aside /\ UNCHANGED turn
        /\ UNCHANGED <<reader, preRoll, partials, sourceErr, mic, running, starts>>
        /\ UNCHANGED <<phase, stopped, ctx, sub, heard>>
    BY DEF NextStep, Peek, Aside, gate, turnVars
  <1>2. turn > 0 /\ sourceErr \in BOOLEAN /\ partials \in 0..1 /\ waiting \in BOOLEAN /\ phase \in Phase
    BY <1>1, ReaderFacts DEF Numbered, RecorderTypes, TurnTypes
  <1>3. CASE TakeUtterance
    <2>1. NextTo("idle", "utterance", 0) /\ waiting' = FALSE
      BY <1>3, NextReturnsFields DEF TakeUtterance
    <2> QED BY <1>1, <1>2, <1>3, <2>1, NextGoesOn DEF NextTo
  <1>4. CASE next' = [next EXCEPT !.pc = "ensure"] /\ UNCHANGED <<utterances, waiting, taken>>
    <2>1. NextTo("ensure", next.out, next.turn)
      BY <1>4, NextFields, NextMoves
    <2> QED BY <1>1, <1>2, <1>4, <2>1, NextGoesOn DEF NextTo
  <1> QED BY <1>3, <1>4 DEF NextStep, Peek

LEMMA WaitKeeps ==
    ASSUME VoiceInputInv, NextStep(Wait(Over(next.turn))), UNCHANGED turnVars PROVE VoiceInputInv'
  <1>1. /\ next.pc = "wait" /\ UNCHANGED Aside /\ UNCHANGED turn
        /\ UNCHANGED <<reader, preRoll, partials, mic, running, starts>>
        /\ UNCHANGED <<phase, stopped, ctx, sub, heard>>
    BY DEF NextStep, Wait, Aside, gate, turnVars
  <1>2. turn > 0 /\ sourceErr \in BOOLEAN /\ partials \in 0..1 /\ phase \in Phase
    BY <1>1, ReaderFacts DEF Numbered, RecorderTypes, TurnTypes
  <1>3. \E o \in {"utterance", "error"} : NextTo("idle", o, 0) /\ waiting' = FALSE
    BY NextReturnsFields DEF NextStep, Wait, TakeUtterance
  <1>4. /\ TakeUtterance \/ UNCHANGED <<utterances, taken>>
        /\ sourceErr' \in BOOLEAN
    BY <1>2 DEF NextStep, Wait
  <1> QED BY <1>1, <1>2, <1>3, <1>4, NextGoesOn DEF NextTo

LEMMA EnsureRunningKeeps ==
    ASSUME VoiceInputInv, NextStep(EnsureRunning), UNCHANGED turnVars PROVE VoiceInputInv'
  <1>1. /\ next.pc = "ensure" /\ UNCHANGED Aside /\ UNCHANGED turn
        /\ UNCHANGED <<utterances, partials, sourceErr, taken>>
        /\ UNCHANGED <<phase, stopped, ctx, sub, heard>>
    BY DEF NextStep, EnsureRunning, Aside, gate, turnVars
  <1>2. /\ turn > 0 /\ sourceErr \in BOOLEAN /\ partials \in 0..1 /\ waiting \in BOOLEAN /\ phase \in Phase
        /\ starts \in 0..MaxStarts /\ reports \in 0..MaxStarts /\ running \in BOOLEAN
    BY <1>1, ReaderFacts DEF Numbered, RecorderTypes, TurnTypes
  <1>3. CASE NextReturns("error") /\ UNCHANGED <<reader, preRoll, mic, running, starts>>
    <2>1. NextTo("idle", "error", 0) /\ waiting' = FALSE
      BY <1>3, NextReturnsFields
    <2> QED BY <1>1, <1>2, <1>3, <2>1, NextGoesOn DEF NextTo
  <1>4. CASE /\ ~closed /\ running /\ next' = [next EXCEPT !.pc = "wait"]
             /\ UNCHANGED <<reader, preRoll, mic, running, starts, waiting>>
    <2>1. NextTo("wait", next.out, next.turn)
      BY <1>4, NextFields, NextMoves
    <2> QED BY <1>1, <1>2, <1>4, <2>1, NextGoesOn DEF NextTo
  <1>5. CASE /\ ~closed /\ ~running /\ starts < MaxStarts /\ next' = [next EXCEPT !.pc = "wait"]
             /\ StartReader /\ UNCHANGED waiting
    <2>1. NextTo("wait", next.out, next.turn)
      BY <1>5, NextFields, NextMoves
    <2>2. /\ mic' = "alive" /\ running' = TRUE /\ starts' = starts + 1 /\ preRoll' = "empty"
          /\ IsReader(reader', "begin", 0, FALSE, FALSE, FALSE)
      BY <1>5, NewReaderFields DEF StartReader
    <2>3. UNCHANGED <<candidates, closed, suppressed, stretches, reports, closing, dropped, published>>
      BY <1>1 DEF Aside
    <2>4. reader.pc = "off" /\ closing = "no"
      BY <1>5, ReaderFacts DEF Lifecycle
    <2>5. RecorderTypes'
      <3>1. preRoll' \in Kept
        BY <2>2 DEF Kept
      <3> QED BY <1>1, <1>2, <1>5, <2>1, <2>2, <2>3, <3>1, ReaderFacts, Bounds
              DEF RecorderTypes, NextTo, IsReader
    <2>6. ChannelTypes' /\ CandidateTypes' /\ TurnTypes'
      BY <1>1, <2>3, ReaderFacts DEF ChannelTypes, CandidateTypes, TurnTypes
    <2>7. Lifecycle'
      BY <1>1, <1>2, <1>5, <2>1, <2>2, <2>3, <2>4, ReaderFacts
         DEF Lifecycle, NoDeafWait, NextTo, IsReader
    <2>8. PreRolls' /\ Numbered'
      BY <1>1, <1>2, <2>2 DEF PreRolls, NoMixedAudio, Mixed, Numbered, IsReader
    <2>9. Accounting'
      BY <1>1, <2>2, <2>3, <2>4, ReaderFacts, Untouched DEF IsReader, InHand, counts
    <2> QED BY <2>5, <2>6, <2>7, <2>8, <2>9, TypesNext DEF VoiceInputInv
  <1> QED BY <1>3, <1>4, <1>5 DEF NextStep, EnsureRunning

-----------------------------------------------------------------------------
(* The gate, Close, the turns and the subscriptions.                       *)

\* Steps outside the recorder's goroutines: the reader and Next stay where they are.
LEMMA RecorderStays ==
    ASSUME VoiceInputInv,
           UNCHANGED <<reader, preRoll, utterances, dropped, published, taken, sourceErr, mic, running,
                       closed, next, reports, closing, starts, waiting>>,
           suppressed' \in BOOLEAN, stretches' \in Nat, partials' \in 0..1, CandidateTypes', TurnTypes',
           turn' >= turn, phase' # "loop" => turn' > 0
    PROVE  VoiceInputInv'
  <1>1. RecorderTypes'
    BY ReaderFacts DEF RecorderTypes
  <1>2. Lifecycle'
    BY ReaderFacts DEF Lifecycle, NoDeafWait
  <1>3. Numbered'
    BY ReaderFacts DEF Numbered, TurnTypes
  <1> QED BY <1>1, <1>2, <1>3, SameRecording, TypesNext DEF VoiceInputInv

LEMMA EmptyChannel ==
    <<>> \in Seq(Turn) /\ Len(<<>>) <= CandidateDepth
  BY Bounds

\* What the types say of the turns.
LEMMA TurnFacts ==
    ASSUME VoiceInputInv
    PROVE  /\ turn \in 0..MaxTurns /\ phase \in Phase /\ ctx \in [Turn -> Context]
           /\ sub \in [Turn -> Sub] /\ heard \in 0..MaxTurns /\ stopped \in BOOLEAN
           /\ phase # "loop" => turn > 0
           /\ suppressed \in BOOLEAN /\ stretches \in Nat /\ partials \in 0..1
           /\ candidates \in Seq(Turn) /\ Len(candidates) <= CandidateDepth
  BY ReaderFacts DEF TurnTypes, RecorderTypes, CandidateTypes, Numbered

LEMMA TurnBeginsKeeps ==
    ASSUME VoiceInputInv, TurnBegins PROVE VoiceInputInv'
  <1>1. /\ turn < MaxTurns /\ turn' = turn + 1 /\ phase' = "open"
        /\ ctx' = [ctx EXCEPT ![turn'] = "live"] /\ sub' = [sub EXCEPT ![turn'].pc = "select"]
        /\ UNCHANGED <<reader, preRoll, utterances, partials, candidates, sourceErr, mic, running, closed,
                       suppressed, stretches, waiting, next, reports, closing, starts, dropped, published, taken,
                       stopped, heard>>
    BY DEF TurnBegins, flags, gate, counts
  <1>2. turn' \in 1..MaxTurns /\ turn' \in Turn
    BY <1>1, TurnFacts, Bounds
  <1>3. ctx' \in [Turn -> Context] /\ sub' \in [Turn -> Sub]
    BY <1>1, <1>2, TurnFacts DEF Context, Sub
  <1>4. TurnTypes'
    BY <1>1, <1>2, <1>3, TurnFacts DEF TurnTypes, Phase
  <1>5. CandidateTypes'
    BY <1>1, TurnFacts DEF CandidateTypes
  <1> QED BY <1>1, <1>2, <1>4, <1>5, TurnFacts, RecorderStays

\* SetSuppressed in its two steps, and the steps that only move the turn.
LEMMA GateKeeps ==
    ASSUME VoiceInputInv, NEW b \in BOOLEAN,
           \/ StoreSuppressed(b) /\ UNCHANGED turn
           \/ FlushCandidates /\ UNCHANGED turn
           \/ UNCHANGED recorderVars,
           phase # "loop", phase' \in Phase, UNCHANGED <<stopped, sub>>,
           ctx' \in [Turn -> Context], heard' \in 0..MaxTurns
    PROVE  VoiceInputInv'
  <1>1. UNCHANGED <<reader, preRoll, utterances, partials, sourceErr, mic, running, closed, waiting, next,
                    reports, closing, starts, dropped, published, taken, turn>>
    BY DEF StoreSuppressed, FlushCandidates, recorderVars, flags, gate, counts
  <1>2. suppressed' \in BOOLEAN /\ stretches' \in Nat
    BY TurnFacts DEF StoreSuppressed, FlushCandidates, recorderVars, flags, gate
  <1>3. candidates' = candidates \/ candidates' = <<>>
    BY DEF StoreSuppressed, FlushCandidates, recorderVars
  <1>4. CandidateTypes'
    BY <1>3, TurnFacts, EmptyChannel DEF CandidateTypes
  <1>5. TurnTypes'
    BY <1>1, TurnFacts DEF TurnTypes
  <1> QED BY <1>1, <1>2, <1>4, <1>5, TurnFacts, RecorderStays

LEMMA TurnStepKeeps ==
    ASSUME VoiceInputInv, TurnStep PROVE VoiceInputInv'
  <1>1. CASE GateOpens \/ GateFlushes
    <2>1. /\ phase # "loop" /\ phase' \in Phase /\ UNCHANGED <<turn, stopped, ctx, sub, heard>>
          /\ StoreSuppressed(FALSE) \/ FlushCandidates
      BY <1>1 DEF GateOpens, GateFlushes, Open, Flush, Phase
    <2> QED BY <2>1, TurnFacts, GateKeeps
  <1>2. CASE CaptureBegins
    <2>1. phase = "listen" /\ UNCHANGED <<stopped, ctx, sub, heard>>
      BY <1>2 DEF CaptureBegins
    <2>2. CASE NextStep(NextBegins) /\ phase' = "capture"
      BY <2>1, <2>2, NextBeginsKeeps
    <2>3. CASE phase' = "end" /\ UNCHANGED recorderVars
      BY <2>1, <2>3, TurnFacts, GateKeeps DEF Phase
    <2> QED BY <1>2, <2>2, <2>3 DEF CaptureBegins
  <1>3. CASE CaptureEnds \/ SpeechEnds
    <2>1. phase # "loop" /\ phase' \in Phase /\ UNCHANGED <<stopped, ctx, sub, heard>> /\ UNCHANGED recorderVars
      BY <1>3 DEF CaptureEnds, SpeechEnds, Phase
    <2> QED BY <2>1, TurnFacts, GateKeeps
  <1>4. CASE Speaks
    <2>1. /\ phase # "loop" /\ phase' \in Phase /\ UNCHANGED <<stopped, ctx, sub, heard>>
          /\ (StoreSuppressed(TRUE) /\ UNCHANGED turn) \/ UNCHANGED recorderVars
      BY <1>4 DEF Speaks, Phase
    <2> QED BY <2>1, TurnFacts, GateKeeps
  <1>5. CASE TurnEnds
    <2>1. /\ phase = "ended" /\ phase' = "loop" /\ heard' = 0 /\ UNCHANGED <<stopped, sub>>
          /\ ctx' = [ctx EXCEPT ![turn] = IF @ = "live" THEN "ended" ELSE @] /\ UNCHANGED recorderVars
      BY <1>5 DEF TurnEnds
    <2>2. turn \in Turn
      BY <2>1, TurnFacts, Bounds
    <2>3. ctx' \in [Turn -> Context]
      BY <2>1, <2>2, TurnFacts DEF Context
    <2>4. heard' \in 0..MaxTurns
      BY <2>1, Bounds
    <2> QED BY <2>1, <2>3, <2>4, GateKeeps DEF Phase
  <1>6. CASE Shutdown
    <2>1. /\ stopped' = TRUE /\ UNCHANGED <<phase, sub, heard>> /\ UNCHANGED recorderVars
          /\ ctx' = [t \in Turn |-> IF ctx[t] = "live" THEN "ended" ELSE ctx[t]]
      BY <1>6 DEF Shutdown
    <2>2. ctx' \in [Turn -> Context]
      BY <2>1, TurnFacts DEF Context
    <2>3. UNCHANGED <<reader, preRoll, utterances, partials, candidates, sourceErr, mic, running, closed,
                      suppressed, stretches, waiting, next, reports, closing, starts, dropped, published, taken, turn>>
      BY <2>1 DEF recorderVars, flags, gate, counts
    <2>4. TurnTypes' /\ CandidateTypes'
      BY <2>1, <2>2, <2>3, TurnFacts DEF TurnTypes, CandidateTypes
    <2> QED BY <2>1, <2>3, <2>4, TurnFacts, RecorderStays
  <1> QED BY <1>1, <1>2, <1>3, <1>4, <1>5, <1>6, TurnBeginsKeeps DEF TurnStep

LEMMA SubscriptionKeeps ==
    ASSUME VoiceInputInv, NEW t \in Turn, Subscription(t) PROVE VoiceInputInv'
  <1>1. UNCHANGED <<reader, preRoll, utterances, partials, sourceErr, mic, running, closed, suppressed, stretches, waiting,
                    next, reports, closing, starts, dropped, published, taken, turn, phase, stopped>>
    BY DEF Subscription, flags, gate, counts
  <1>2. sub[t] \in Sub /\ sub[t].from \in 0..MaxTurns /\ ctx[t] \in Context
    BY TurnFacts DEF Sub
  <1>3. CASE Select(t)
    <2>1. UNCHANGED <<ctx, heard>>
      BY <1>3 DEF Select
    <2>2. CASE sub' = [sub EXCEPT ![t].pc = "off"] /\ UNCHANGED candidates
      <3>1. TurnTypes' /\ CandidateTypes'
        BY <1>1, <2>1, <2>2, TurnFacts DEF TurnTypes, CandidateTypes, Sub
      <3> QED BY <1>1, <3>1, TurnFacts, RecorderStays
    <2>3. CASE /\ candidates # <<>> /\ candidates' = Tail(candidates)
               /\ sub' = [sub EXCEPT ![t] = [pc |-> "decode", from |-> Head(candidates)]]
      <3>1. Head(candidates) \in Turn /\ candidates' \in Seq(Turn) /\ Len(candidates') <= CandidateDepth
        <4>1. Len(Tail(candidates)) = Len(candidates) - 1 /\ Len(candidates) \in Nat /\ Len(candidates) > 0
              /\ Tail(candidates) \in Seq(Turn) /\ Head(candidates) = candidates[1]
          BY <2>3, TurnFacts, TailKeepsOrder
        <4> QED BY <2>3, <4>1, TurnFacts, Bounds
      <3>2. Head(candidates) \in 0..MaxTurns
        BY <3>1, Bounds
      <3>3. ASSUME NEW h \in 0..MaxTurns, sub' = [sub EXCEPT ![t] = [pc |-> "decode", from |-> h]]
            PROVE  sub' \in [Turn -> Sub]
        BY <3>3, TurnFacts DEF Sub
      <3>4. TurnTypes' /\ CandidateTypes'
        BY <1>1, <2>1, <2>3, <3>1, <3>2, <3>3, TurnFacts DEF TurnTypes, CandidateTypes
      <3> QED BY <1>1, <3>4, TurnFacts, RecorderStays
    <2> QED BY <1>3, <2>2, <2>3 DEF Select
  <1>4. CASE Decode(t)
    <2>1. UNCHANGED candidates
      BY <1>4 DEF Decode
    <2>2. sub' \in [Turn -> Sub]
      <3>1. ASSUME NEW p \in {"select", "off"}, sub' = [sub EXCEPT ![t] = [pc |-> p, from |-> 0]]
            PROVE  sub' \in [Turn -> Sub]
        BY <3>1, TurnFacts, Bounds DEF Sub
      <3> QED BY <1>4, <3>1 DEF Decode
    <2>3. ctx' \in [Turn -> Context] /\ heard' \in 0..MaxTurns
      BY <1>2, <1>4, TurnFacts DEF Decode, Context
    <2>4. TurnTypes' /\ CandidateTypes'
      BY <1>1, <2>1, <2>2, <2>3, TurnFacts DEF TurnTypes, CandidateTypes
    <2> QED BY <1>1, <2>4, TurnFacts, RecorderStays
  <1> QED BY <1>3, <1>4 DEF Subscription

LEMMA PreviewTakenKeeps ==
    ASSUME VoiceInputInv, MicStep(PreviewTaken) PROVE VoiceInputInv'
  <1>1. /\ partials' = 0
        /\ UNCHANGED <<reader, preRoll, utterances, candidates, sourceErr, mic, running, closed, suppressed, stretches, waiting,
                       next, reports, closing, starts, dropped, published, taken, turn,
                       phase, stopped, ctx, sub, heard>>
    BY DEF MicStep, PreviewTaken, flags, gate, counts, turnVars
  <1>2. TurnTypes' /\ CandidateTypes'
    BY <1>1, TurnFacts DEF TurnTypes, CandidateTypes
  <1> QED BY <1>1, <1>2, TurnFacts, RecorderStays

LEMMA CloseKeeps ==
    ASSUME VoiceInputInv, MicStep(Close) PROVE VoiceInputInv'
  <1>1. UNCHANGED <<reader, preRoll, utterances, partials, candidates, sourceErr, suppressed, stretches,
                    waiting, next, reports, starts, dropped, published, taken, turn,
                    phase, stopped, ctx, sub, heard>>
    BY DEF MicStep, Close, gate, counts, turnVars
  <1>2. \/ closing = "no" /\ closing' = "stop" /\ closed' = TRUE /\ running' = FALSE /\ UNCHANGED mic
        \/ closing = "stop" /\ closing' = "join" /\ mic' = "none" /\ UNCHANGED <<closed, running>>
        \/ /\ closing = "join" /\ reader.pc = "off" /\ reports = 0
           /\ closing' = "done" /\ UNCHANGED <<closed, running, mic>>
    BY DEF MicStep, Close
  <1>3. TurnTypes' /\ CandidateTypes' /\ RecorderTypes'
    BY <1>1, <1>2, ReaderFacts DEF TurnTypes, CandidateTypes, RecorderTypes
  <1>4. Lifecycle'
    BY <1>1, <1>2, ReaderFacts DEF Lifecycle, NoDeafWait
  <1>5. Numbered'
    BY <1>1, ReaderFacts DEF Numbered
  <1> QED BY <1>1, <1>3, <1>4, <1>5, SameRecording, TypesNext DEF VoiceInputInv

-----------------------------------------------------------------------------
(* The theorems.                                                           *)

LEMMA InitIsSafe ==
    ASSUME Init PROVE VoiceInputInv
  <1>1. IsReader(reader, "off", 0, FALSE, FALSE, FALSE)
    BY NewReaderFields DEF Init, RecorderInit
  <1>2. next \in NextCall /\ next.pc = "idle"
    BY Bounds DEF Init, RecorderInit, NextCall
  <1>3. ctx \in [Turn -> Context] /\ sub \in [Turn -> Sub]
    BY Bounds DEF Init, Context, Sub
  <1>4. RecorderTypes /\ CandidateTypes /\ TurnTypes
    <2>1. RecorderTypes
      <3>1. /\ preRoll = "empty" /\ mic = "none" /\ partials = 0 /\ sourceErr = FALSE
            /\ running = FALSE /\ closed = FALSE /\ suppressed = FALSE /\ stretches = 0 /\ waiting = FALSE
            /\ reports = 0 /\ closing = "no" /\ starts = 0
        BY DEF Init, RecorderInit
      <3>2. 0 \in 0..MaxStarts /\ 0 \in 0..1
        BY Bounds
      <3>3. preRoll \in Kept /\ stretches \in Nat
        BY <3>1 DEF Kept
      <3> QED BY <1>1, <1>2, <3>1, <3>2, <3>3 DEF RecorderTypes, IsReader
    <2>2. CandidateTypes
      BY EmptyChannel DEF Init, RecorderInit, CandidateTypes
    <2>3. TurnTypes
      <3>1. turn = 0 /\ phase = "loop" /\ heard = 0 /\ stopped = FALSE
        BY DEF Init, RecorderInit
      <3>2. 0 \in 0..MaxTurns
        BY Bounds
      <3> QED BY <1>3, <3>1, <3>2 DEF TurnTypes, Phase
    <2> QED BY <2>1, <2>2, <2>3
  <1>5. ChannelTypes /\ Len(utterances) = 0 /\ Cardinality(taken) = 0
    BY Bounds, FS_EmptySet DEF Init, RecorderInit, ChannelTypes
  <1>6. Lifecycle /\ PreRolls /\ Numbered
    BY <1>1, <1>2 DEF Init, RecorderInit, Lifecycle, NoDeafWait, PreRolls, NoMixedAudio, Mixed, Numbered, IsReader
  <1>7. Accounting
    BY <1>1, <1>5 DEF Init, RecorderInit, Accounting, InHand, InOrder, UtterancesAccounted, IsReader
  <1> QED BY <1>4, <1>5, <1>6, <1>7, Types DEF VoiceInputInv

LEMMA StepIsSafe ==
    ASSUME VoiceInputInv, [Next]_vars PROVE VoiceInputInv'
  <1>1. CASE TurnStep
    BY <1>1, TurnStepKeeps
  <1>2. CASE CaptureWorker
    BY <1>2, PeekKeeps, EnsureRunningKeeps, WaitKeeps DEF CaptureWorker
  <1>3. CASE \E t \in Turn : Subscription(t)
    BY <1>3, SubscriptionKeeps
  <1>4. CASE MicStep(ReadLoop) \/ MicStep(ReaderFails) \/ MicStep(ArecordDies) \/ MicStep(PreviewTaken)
    BY <1>4, ReadLoopKeeps, ReaderFailsKeeps, ArecordDiesKeeps, PreviewTakenKeeps
  <1>5. CASE MicStep(stopped /\ Close)
    BY <1>5, CloseKeeps DEF MicStep
  <1>6. CASE UNCHANGED vars
    <2>1. UNCHANGED <<reader, preRoll, utterances, partials, candidates, sourceErr, mic, running, closed,
                      suppressed, stretches, waiting, next, reports, closing, starts, dropped, published, taken, turn,
                      phase, stopped, ctx, sub, heard>>
      BY <1>6 DEF vars, recorderVars, flags, gate, counts, turnVars
    <2>2. TurnTypes' /\ CandidateTypes'
      BY <2>1, TurnFacts DEF TurnTypes, CandidateTypes
    <2> QED BY <2>1, <2>2, TurnFacts, RecorderStays
  <1> QED BY <1>1, <1>2, <1>3, <1>4, <1>5, <1>6 DEF Next, Terminated

LEMMA VoiceInputIsSafe == Spec => []VoiceInputInv
  BY InitIsSafe, StepIsSafe, PTL DEF Spec

\* The state stays in its types: in particular no channel exceeds its capacity,
\* although the reader sends to a channel in three selects.
THEOREM VoiceInputTyped == Spec => []VoiceInputTypeOK
  <1>1. VoiceInputInv => VoiceInputTypeOK
    BY DEF VoiceInputInv
  <1> QED BY VoiceInputIsSafe, <1>1, PTL

\* No recording spans chunks that readLoop discarded while the gate was closed, or two
\* arecord processes, however the gate moves against the chunks of the reader: it is
\* dropped, and its pre-roll with it. (A stretch that no chunk is heard in is not seen
\* by readLoop, and not excluded here: NoRecordingSpansSpeech is not kept.)
THEOREM AudioNeverMixed == Spec => []NoMixedAudio
  <1>1. VoiceInputInv => NoMixedAudio
    BY DEF VoiceInputInv, PreRolls
  <1> QED BY VoiceInputIsSafe, <1>1, PTL

\* Every published utterance is returned, queued in order, counted as dropped or
\* in the reader's hands, for every depth of the channel.
THEOREM EveryUtteranceAccounted == Spec => []UtterancesAccounted
  <1>1. VoiceInputInv => UtterancesAccounted
    BY DEF VoiceInputInv, Accounting
  <1> QED BY VoiceInputIsSafe, <1>1, PTL

\* While Next waits on an open recorder, a reader runs or its error is on the way.
THEOREM NextIsNotDeaf == Spec => []NoDeafWait
  <1>1. VoiceInputInv => NoDeafWait
    BY DEF VoiceInputInv, Lifecycle
  <1> QED BY VoiceInputIsSafe, <1>1, PTL

\* After Close no reader and no arecord process is left, and none comes back.
THEOREM ClosedRecorderIsQuiet == Spec => []CloseIsFinal
  <1>1. VoiceInputInv => CloseIsFinal
    BY DEF VoiceInputInv, Lifecycle, CloseIsFinal
  <1> QED BY VoiceInputIsSafe, <1>1, PTL

=============================================================================
