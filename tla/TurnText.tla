------------------------------ MODULE TurnText ------------------------------
(***************************************************************************)
(* The text of a turn on its way in and out: the wake gate of              *)
(* internal/application/wake.go with the detector of                       *)
(* internal/wake/detector.go, the stop policy of internal/barge/policy.go, *)
(* and the sentence buffer of internal/application/sentence_buffer.go. A   *)
(* transcript is a sequence of words and punctuation, a reply a sequence   *)
(* of runes that arrives in deltas of any length.                          *)
(***************************************************************************)
EXTENDS SequencesExt, Integers

CONSTANTS
    Words,          \* words as the transcriber spells them
    Punctuation,    \* what separates words and is not one
    normalizeWord,  \* the spelling without case and accents
    Phrases,        \* the wake phrases, normalised: the primary one, then its aliases
    Stops,          \* explicitStops
    Runes,          \* the runes of a reply, among them " " and "."
    maxRunes,       \* length from which text without a mark is cut
    MaxWords,       \* bound: length of a transcript
    MaxReply,       \* bound: runes of a reply
    MaxDelta        \* bound: runes of a delta

ASSUME TurnTextAssumption ==
    /\ Words \cap Punctuation = {}
    /\ normalizeWord \in [Words -> STRING]
    /\ Phrases \in Seq(Seq(STRING)) \ {<<>>} /\ \A i \in DOMAIN Phrases : Phrases[i] # <<>>
    /\ {maxRunes, MaxWords, MaxReply, MaxDelta} \subseteq Nat \ {0}

VARIABLES
    phase,       \* "listening", "heard", "ignored", "reply", "spoken"
    transcript,  \* the transcript of the turn, final or of a barge-in candidate
    verdict,     \* what the gate, if it is enabled, and the policy made of it
    given,       \* history: the runes of the reply so far
    pending,     \* b.pending
    phrases      \* history: the phrases handed to the synthesizer

vars == <<phase, transcript, verdict, given, pending, phrases>>

NoVerdict == [gate |-> FALSE, accepted |-> FALSE, command |-> <<>>, stop |-> FALSE]

Init ==
    /\ phase = "listening" /\ transcript = <<>> /\ verdict = NoVerdict
    /\ given = <<>> /\ pending = <<>> /\ phrases = <<>>

-----------------------------------------------------------------------------
(* Wake phrase and stop command.                                           *)

\* The elements of text, in order, that are not in Dropped.
Without(Dropped, text) ==
    LET kept[i \in 0..Len(text)] ==
            IF i = 0 THEN <<>>
            ELSE IF text[i] \in Dropped THEN kept[i - 1] ELSE Append(kept[i - 1], text[i])
    IN  kept[Len(text)]

tokenize(text) == Without(Punctuation, text)

normalizedWords(text) == LET tokens == tokenize(text) IN [i \in DOMAIN tokens |-> normalizeWord[tokens[i]]]

\* phrase stands in words behind the first start ones.
tokenSequenceMatches(words, start, phrase) ==
    SubSeq(words, start + 1, start + Len(phrase)) = phrase

\* Mutant: an address at the end is the very last word.
LastOnly(start, after) == start <= 2 \/ after = 0

\* Near the beginning, or as an address at the end.
Addressed(start, after) == start <= 2 \/ after <= 1

\* Starts of a phrase at which Detect does not pass it over.
Hits(words, phrase) ==
    {start \in 0..(Len(words) - Len(phrase)) :
        /\ tokenSequenceMatches(words, start, phrase)
        /\ Addressed(start, Len(words) - start - Len(phrase))}

\* The first phrase of the configuration that has a hit, at its first one. A
\* transcript that is nothing but the phrase is kept as it is.
Detect(text) ==
    LET tokens == tokenize(text)
        words  == normalizedWords(text)
        found  == {i \in DOMAIN Phrases : Hits(words, Phrases[i]) # {}}
        phrase == Phrases[Min(found)]
        start  == Min(Hits(words, phrase))
        rest   == SubSeq(tokens, 1, start) \o SubSeq(tokens, start + Len(phrase) + 1, Len(tokens))
    IN  [matched |-> found # {},
         command |-> CASE found = {}  -> <<>>
                       [] rest = <<>> -> text
                       [] OTHER       -> rest]

Confirm(text) ==
    LET words == normalizedWords(Detect(text).command) IN
    Detect(text).matched /\ words # <<>> /\ words[1] \in Stops

\* Without a detector everything is accepted.
applyWakeGate(gate, text) ==
    IF gate THEN LET found == Detect(text) IN [accepted |-> found.matched, command |-> found.command]
            ELSE [accepted |-> TRUE, command |-> text]

\* The transcriber returns; an empty transcript ends the turn.
Hear ==
    /\ phase = "listening"
    /\ \E n \in 1..MaxWords : transcript' \in [1..n -> Words \cup Punctuation]
    /\ phase' = "heard"
    /\ UNCHANGED <<verdict, given, pending, phrases>>

\* The transcript as a final one, and as one of a barge-in candidate.
Verdict(gate, text) ==
    LET found == applyWakeGate(gate, text) IN
    [gate |-> gate, accepted |-> found.accepted, command |-> found.command, stop |-> Confirm(text)]

Judge ==
    /\ phase = "heard"
    /\ \E gate \in BOOLEAN : verdict' = Verdict(gate, transcript)
    /\ phase' = IF verdict'.accepted THEN "reply" ELSE "ignored"
    /\ UNCHANGED <<transcript, given, pending, phrases>>

-----------------------------------------------------------------------------
(* The sentence buffer.                                                    *)

Spaces == {" ", "\t"}
Blanks == Spaces \cup {"\n"}
Marks == {".", "!", "?", "\n"}

TrimSpace(text) ==
    LET solid == {i \in DOMAIN text : text[i] \notin Blanks} IN
    IF solid = {} THEN <<>> ELSE SubSeq(text, Min(solid), Max(solid))

\* Behind the first mark, or 0.
strongSentenceBoundary(text) ==
    LET marks == {i \in DOMAIN text : text[i] \in Marks} IN
    IF marks = {} THEN 0 ELSE Min(marks)

\* A text of exactly maxRunes is taken whole, a longer one up to the last space
\* among its first maxRunes, or to maxRunes when there is none.
boundedPhraseBoundary(text) ==
    LET spaces == {i \in 1..maxRunes : text[i] \in Spaces} IN
    IF Len(text) = maxRunes \/ spaces = {} THEN maxRunes ELSE Max(spaces)

boundary(text) ==
    LET strong == strongSentenceBoundary(text) IN
    IF strong = 0 /\ Len(text) >= maxRunes THEN boundedPhraseBoundary(text) ELSE strong

NonEmpty(text) == IF text = <<>> THEN <<>> ELSE <<text>>

\* One phrase off the front of b.pending, if one is complete.
takePhrase(b) ==
    LET at == boundary(b.pending) IN
    IF at = 0 THEN b
    ELSE [pending |-> SubSeq(b.pending, at + 1, Len(b.pending)),
          phrases |-> b.phrases \o NonEmpty(TrimSpace(SubSeq(b.pending, 1, at)))]

\* The loop of takeReady: every phrase has a rune or more.
takeReady(text) ==
    LET b[n \in 0..Len(text)] ==
            IF n = 0 THEN [pending |-> text, phrases |-> <<>>] ELSE takePhrase(b[n - 1])
    IN  b[Len(text)]

\* Mutant: one phrase per delta.
PushOnce(delta) ==
    LET ready == takePhrase([pending |-> pending \o delta, phrases |-> <<>>]) IN
    pending' = ready.pending /\ phrases' = phrases \o ready.phrases

Push(delta) ==
    LET ready == takeReady(pending \o delta) IN
    pending' = ready.pending /\ phrases' = phrases \o ready.phrases

Flush ==
    LET ready == takeReady(pending) IN
    pending' = <<>> /\ phrases' = phrases \o ready.phrases \o NonEmpty(TrimSpace(ready.pending))

\* From here on nothing depends on the transcript.
DeltaArrives ==
    /\ phase = "reply"
    /\ \E n \in 1..MaxDelta : \E delta \in [1..n -> Runes] :
          Len(given) + n <= MaxReply /\ Push(delta) /\ given' = given \o delta
    /\ transcript' = <<>> /\ verdict' = NoVerdict
    /\ UNCHANGED phase

ReplyEnds ==
    /\ phase = "reply" /\ given # <<>> /\ Flush /\ phase' = "spoken"
    /\ UNCHANGED <<transcript, verdict, given>>

-----------------------------------------------------------------------------
Next == Hear \/ Judge \/ DeltaArrives \/ ReplyEnds

Spec == Init /\ [][Next]_vars

-----------------------------------------------------------------------------
(* Properties.                                                             *)

Solid(text) == Without(Blanks, text)

\* However a reply is cut into deltas, the phrases carry every rune of it once and
\* in order, spaces around them aside; no phrase is blank; what waits for more text
\* has no sentence mark and is shorter than maxRunes; Flush leaves nothing behind.
ReplySpokenWhole ==
    /\ Solid(FlattenSeq(phrases) \o pending) = Solid(given)
    /\ \A i \in DOMAIN phrases : phrases[i] # <<>> /\ TrimSpace(phrases[i]) = phrases[i]
    /\ phase = "reply" => Len(pending) < maxRunes /\ \A i \in DOMAIN pending : pending[i] \notin Marks
    /\ phase = "spoken" => pending = <<>>

\* words around a phrase that stands behind the first i of them.
Around(words, i, phrase) ==
    words = SubSeq(words, 1, i) \o phrase \o SubSeq(words, i + Len(phrase) + 1, Len(words))

\* Where a text addresses the assistant, in front or at its end, and by which phrase.
Splits(text) ==
    LET words == normalizedWords(text) IN
    {s \in (0..Len(words)) \X DOMAIN Phrases :
        LET after == Len(words) - s[1] - Len(Phrases[s[2]]) IN
        after >= 0 /\ (s[1] < 3 \/ after < 2) /\ Around(words, s[1], Phrases[s[2]])}

\* The gate accepts what addresses the assistant, whatever the spelling, and what
\* it passes on is the transcript without one address, or the bare address itself; a
\* stop is a text that the gate would accept too, and whose command is a stop verb.
WakeGateExact ==
    LET words   == normalizedWords(transcript)
        command == normalizedWords(verdict.command)
    IN  phase \in {"ignored", "reply"} /\ transcript # <<>> =>
            /\ verdict.accepted <=> ~verdict.gate \/ Splits(transcript) # {}
            /\ verdict.gate /\ verdict.accepted =>
                  \/ verdict.command = transcript /\ \E p \in DOMAIN Phrases : words = Phrases[p]
                  \/ \E s \in Splits(transcript) :
                        words = SubSeq(command, 1, s[1]) \o Phrases[s[2]]
                                \o SubSeq(command, s[1] + 1, Len(command))
            /\ verdict.stop => /\ Splits(transcript) # {}
                               /\ verdict.gate => command[1] \in Stops
=============================================================================
