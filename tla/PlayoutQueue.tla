---------------------------- MODULE PlayoutQueue ----------------------------
(***************************************************************************)
(* What the player's buffer promises its two users, without sequence       *)
(* numbers that wrap, slots that are reused or a network: a queue of       *)
(* numbered packets that starts anywhere, from which each packet is taken  *)
(* at most once and in order, with a gap where one did not come, and from  *)
(* which packets vanish only because they are late or flushed.             *)
(***************************************************************************)
EXTENDS Integers

CONSTANTS
  Packet,    \* the packets
  Nothing    \* no packet is being played

VARIABLES
  started,   \* whether the queue has a head
  head,      \* the next packet to take
  held,      \* the packets in the queue
  playing,   \* the packet taken and not yet played out, or Nothing
  deadline,  \* packets before this one are too late to play
  flushing   \* packets before this one are to be flushed

vars == <<started, head, held, playing>>

Init == started = FALSE /\ held = {} /\ playing = Nothing

Arrive(n) ==
  /\ IF started
     THEN /\ IF n >= head THEN held' = held \union {n} ELSE held' = held
          /\ UNCHANGED head
     ELSE head' = n /\ held' = {n}
  /\ started'
  /\ UNCHANGED playing

\* The head moves past packets that never came, or came and may be given up,
\* and the packet it reaches, if it is there, may be taken.
Advance ==
  /\ started /\ started'
  /\ head' >= head
  /\ held' = {n \in held : n >= head'}
  /\ \A n \in held \ held' : n < deadline \/ n < flushing \/ playing' = n
  /\ playing' /= playing => playing = Nothing /\ playing' = head' - 1

Empty ==
  /\ \A n \in held : n < flushing
  /\ ~started' /\ held' = {}
  /\ UNCHANGED playing

PlayedOut == playing' = Nothing /\ UNCHANGED <<started, head, held>>

Next == (\E n \in Packet : Arrive(n)) \/ Advance \/ Empty \/ PlayedOut

Spec == Init /\ [][Next]_vars
=============================================================================
