---------------------------- MODULE PlaySession ----------------------------
(***************************************************************************)
(* What rtsp.c promises of the play lock: at any time one connection, or   *)
(* none, owns the player; a newcomer takes it when it is free, or ends the *)
(* session of the owner and takes it in one go; and a session that has     *)
(* been ended never owns the player again.                                 *)
(***************************************************************************)
CONSTANTS Conns, None

VARIABLES
  owner,   \* the connection that owns the player, or None
  ended    \* the connections whose conversation has been, or is being, ended

vars == <<owner, ended>>

Init == owner = None /\ ended = {}

Acquire(c) ==
  /\ owner = None
  /\ c \notin ended
  /\ owner' = c
  /\ UNCHANGED ended

BreakIn(c) ==
  /\ owner \notin {None, c}
  /\ c \notin ended
  /\ owner' = c
  /\ ended' = ended \union {owner}

Release ==
  /\ owner /= None
  /\ owner' = None
  /\ UNCHANGED ended

\* Connections leave of their own accord, or are told to: their sessions are
\* over, and the player is free if one of them owned it.
End(leaving) ==
  /\ ended' = ended \union leaving
  /\ owner' = IF owner \in leaving THEN None ELSE owner

Next ==
  \/ Release
  \/ \E c \in Conns : Acquire(c) \/ BreakIn(c)
  \/ \E leaving \in SUBSET Conns : End(leaving)

Spec == Init /\ [][Next]_vars
=============================================================================
