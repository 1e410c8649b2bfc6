-------------------------- MODULE PlaybackEffects --------------------------
(***************************************************************************)
(* What the operations of a player leave in the playback session: the      *)
(* vocabulary that the coordinator and the player share. A session is      *)
(* named by the turn whose audio it received last, 0 if there is none.     *)
(***************************************************************************)

PlayerOp == {"write", "play", "finish", "stop"}

\* The session after operation op of turn t ended with outcome o, if it was
\* held before. A cancelled Write or Play either returned before it touched the
\* session or killed it; an error discards it.
SessionAfter(op, o, t, held) ==
    CASE op = "write" /\ o = "ok"                 -> {t}
      [] op \in {"write", "play"} /\ o = "cancel" -> {held, 0}
      [] op \notin PlayerOp                        -> {held}
      [] OTHER                                     -> {0}

\* The session after a Stop from outside, while operation op is in progress
\* ("none" if there is none): Stop finds no session that a Finish is draining,
\* and a Write that waited for the lock starts another one.
SessionAfterStop(op, held) == IF op \in {"write", "play", "finish"} THEN {held, 0} ELSE {0}
=============================================================================
