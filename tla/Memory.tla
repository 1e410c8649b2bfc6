------------------------------ MODULE Memory ------------------------------
(***************************************************************************)
(* The bounded conversation memory of internal/memory: what Prepare and    *)
(* Update make of the stored summary and turns. Both hold the manager's    *)
(* lock from the first read to the last assignment, so each is an operator *)
(* from a memory to an outcome.                                            *)
(*                                                                         *)
(* A text is a sequence of units [of, cost]: `of` is the turn it comes     *)
(* from (0 for the manager's own labels) and `cost` the bytes it takes in  *)
(* JSON. A quote, a newline or an angle bracket is one byte of text that   *)
(* JSON writes with more: lengths of texts and of their JSON differ.       *)
(***************************************************************************)
EXTENDS Naturals, FiniteSets, SequencesExt

CONSTANTS
    MaxHistory,  \* config.MaxHistoryBytes, in units of JSON
    MaxSummary   \* config.MaxSummaryBytes, in units of text

NoCall == ""  \* an absent tool_call_id, and the id of a call that has none

Unit(n, c) == [of |-> n, cost |-> c]
Label == Unit(0, 1)

Message(role, text, calls, callId) ==
    [role |-> role, text |-> text, calls |-> calls, callId |-> callId]

SystemMessage == Message("system", <<Label>>, <<>>, NoCall)
summaryMessage(summary) == Message("user", <<Label>> \o summary, <<>>, NoCall)

-----------------------------------------------------------------------------
(* Sizes.                                                                  *)

Sum(s) ==
    LET sum[i \in 0..Len(s)] == IF i = 0 THEN 0 ELSE sum[i - 1] + s[i]
    IN  sum[Len(s)]

\* Braces and role; the content; a unit for each tool call and for a call id.
MessageCost(m) ==
    1 + Sum([i \in DOMAIN m.text |-> m.text[i].cost]) + Len(m.calls)
      + (IF m.callId = NoCall THEN 0 ELSE 1)

Measure(messages) == Sum([i \in DOMAIN messages |-> MessageCost(messages[i])])

buildHistory(summary, turns) ==
    <<SystemMessage>> \o (IF summary = <<>> THEN <<>> ELSE <<summaryMessage(summary)>>)
                      \o FlattenSeq(turns)

\* strings.Repeat("x", MaxSummaryBytes): the reserve is plain text.
ReservedSummary == [i \in 1..MaxSummary |-> Label]

\* memory.New refuses budgets that cannot hold the prompt and the reserve.
BudgetsValid ==
    /\ 0 < MaxSummary /\ MaxSummary < MaxHistory
    /\ Measure(buildHistory(ReservedSummary, <<>>)) <= MaxHistory

-----------------------------------------------------------------------------
(* The summary.                                                            *)

\* Mutant: a summary of any length is accepted.
TruncateNothing(text, max) == text

truncateUTF8(text, max) == IF Len(text) <= max THEN text ELSE SubSeq(text, 1, max)

\* A message with tool calls is summarised by the names of its tools.
SummaryPart(m) ==
    LET names == Cardinality({i \in DOMAIN m.calls : m.calls[i].name # ""})
        content == IF names = 0 THEN m.text ELSE [i \in 1..names |-> Label]
    IN  IF content = <<>> THEN <<>> ELSE <<Label>> \o content

Summarize(previous, dropped) ==
    LET old == IF previous = <<>> THEN <<>> ELSE <<Label>> \o previous
        parts == [i \in DOMAIN dropped |-> SummaryPart(dropped[i])]
    IN  truncateUTF8(old \o FlattenSeq(parts), MaxSummary)

-----------------------------------------------------------------------------
(* Turns.                                                                  *)

\* The ids of the tool messages that follow message i, up to one of another role.
Results(messages, i) ==
    LET others == {j \in i + 1..Len(messages) : messages[j].role # "tool"}
        end == IF others = {} THEN Len(messages) ELSE Min(others) - 1
    IN  [k \in 1..end - i |-> messages[i + k].callId]

Distinct(ids) == Cardinality(ToSet(ids)) = Len(ids)

\* The protocol checks of splitTurns: a user message closes the exchange before it,
\* an assistant message opens one with each of its calls pending, and every tool
\* message takes one pending call away.
WellFormed(messages) ==
    /\ messages # <<>> => messages[1].role = "user"
    /\ \A i \in DOMAIN messages :
        LET m == messages[i]
            ids == [k \in DOMAIN m.calls |-> m.calls[k].id]
        IN  CASE m.role = "user" -> m.callId = NoCall /\ m.calls = <<>>
              [] m.role = "assistant" ->
                    /\ m.callId = NoCall /\ NoCall \notin ToSet(ids) /\ Distinct(ids)
                    /\ Distinct(Results(messages, i)) /\ ToSet(Results(messages, i)) = ToSet(ids)
              [] m.role = "tool" -> m.calls = <<>> /\ messages[i - 1].role # "user"
              [] OTHER -> FALSE

\* A user message begins a turn, any other continues the last one.
continueTurns(turns, m) ==
    IF m.role = "user" \/ turns = <<>>
    THEN Append(turns, <<m>>)
    ELSE Append(Front(turns), Append(Last(turns), m))

\* The loop of splitTurns.
splitTurns(messages) ==
    LET turns[i \in 0..Len(messages)] ==
            IF i = 0 THEN <<>> ELSE continueTurns(turns[i - 1], messages[i])
    IN  turns[Len(messages)]

\* The messages after the system prompt and after the summary it was built with.
conversationMessages(mem, history) ==
    LET rest == Tail(history)
        own == mem.summary # <<>> /\ rest # <<>> /\ rest[1] = summaryMessage(mem.summary)
    IN  IF own THEN Tail(rest) ELSE rest

\* The trusted prompt comes first, and no other system message follows.
ValidHistory(mem, history) ==
    /\ history # <<>> /\ history[1] = SystemMessage
    /\ WellFormed(conversationMessages(mem, history))

-----------------------------------------------------------------------------
(* Eviction: the oldest turns go until the rest fits beside the reserve.   *)

Fits(summary, turns, more) == Measure(buildHistory(summary, turns) \o more) <= MaxHistory

DropCount(summary, turns, more) ==
    Min({i \in 0..Len(turns) : i = Len(turns) \/ Fits(summary, SubSeq(turns, i + 1, Len(turns)), more)})

Kept(turns, n) == SubSeq(turns, n + 1, Len(turns))
Dropped(turns, n) == FlattenSeq(SubSeq(turns, 1, n))

Outcome(err, mem, history) == [err |-> err, mem |-> mem, history |-> history]

\* The new state is published if it fits, and nothing changes otherwise.
Publish(mem, summary, turns, more) ==
    IF Fits(summary, turns, more)
    THEN Outcome("ok", [summary |-> summary, turns |-> turns], buildHistory(summary, turns))
    ELSE Outcome("budget_exceeded", mem, <<>>)

UpdateTurns(mem, turns) ==
    LET n == IF Fits(mem.summary, turns, <<>>) THEN 0 ELSE DropCount(ReservedSummary, turns, <<>>)
        summary == IF n = 0 THEN mem.summary ELSE Summarize(mem.summary, Dropped(turns, n))
    IN  Publish(mem, summary, Kept(turns, n), <<>>)

Update(mem, history) ==
    IF ValidHistory(mem, history)
    THEN UpdateTurns(mem, splitTurns(conversationMessages(mem, history)))
    ELSE Outcome("invalid_history", mem, <<>>)

\* Mutant: the text the user is about to say is not counted.
PrepareWithoutInput(mem, text) ==
    IF Fits(mem.summary, mem.turns, <<>>)
    THEN Outcome("ok", mem, buildHistory(mem.summary, mem.turns))
    ELSE UpdateTurns(mem, mem.turns)

\* Without room for the reserve the summary is given up; by then no turn is left.
Prepare(mem, text) ==
    LET user == <<Message("user", text, <<>>, NoCall)>>
        n == DropCount(ReservedSummary, mem.turns, user)
        room == Fits(ReservedSummary, Kept(mem.turns, n), user)
        summary == CASE ~room -> <<>>
                     [] room /\ n = 0 -> mem.summary
                     [] room /\ n > 0 -> Summarize(mem.summary, Dropped(mem.turns, n))
    IN  IF Fits(mem.summary, mem.turns, user)
        THEN Outcome("ok", mem, buildHistory(mem.summary, mem.turns))
        ELSE Publish(mem, summary, Kept(mem.turns, n), user)
=============================================================================
