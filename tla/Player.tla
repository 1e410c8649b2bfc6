------------------------------ MODULE Player ------------------------------
(***************************************************************************)
(* The player as the coordinator relies on it: operations of the playback  *)
(* worker, one at a time, each with an outcome and an effect on the        *)
(* session, and a Stop from outside. Playback is shown to implement it.    *)
(***************************************************************************)
EXTENDS Integers, PlaybackEffects

CONSTANT Turns  \* the turns whose audio is played

VARIABLES
    op,      \* the operation in progress, "none" if there is none
    turn,    \* the turn of the latest operation
    ctx,     \* its context: "live" or "done"
    out,     \* the outcome of the latest operation that returned
    player   \* the session

playerVars == <<op, turn, ctx, out, player>>

PlayerInit == op = "none" /\ turn \in Turns /\ ctx = "done" /\ out = "ok" /\ player = 0

Begins ==
    /\ op = "none"
    /\ op' \in PlayerOp /\ turn' \in Turns /\ ctx' = "live"
    /\ UNCHANGED <<out, player>>

ContextEnds == ctx = "live" /\ ctx' = "done" /\ UNCHANGED <<op, turn, out, player>>

\* Only an operation whose context has ended is cancelled, and Stop has none.
PlayerOutcome ==
    {"ok"} \cup {o \in {"err"} : op # "stop"} \cup {o \in {"cancel"} : op # "stop" /\ ctx = "done"}

Returns ==
    /\ op # "none" /\ op' = "none" /\ ctx' = "done"
    /\ out' \in PlayerOutcome
    /\ player' \in SessionAfter(op, out', turn, player)
    /\ UNCHANGED turn

StopFromOutside ==
    player' \in SessionAfterStop(op, player) /\ UNCHANGED <<op, turn, ctx, out>>

PlayerNext == Begins \/ ContextEnds \/ Returns \/ StopFromOutside

PlayerSpec == PlayerInit /\ [][PlayerNext]_playerVars
=============================================================================
