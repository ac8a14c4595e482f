---------------------------- MODULE ResendControl ----------------------------
(***************************************************************************)
(* Packets that are missing and asked for again: the resend check that     *)
(* ends player_put_packet, rtp_request_resend, and the receivers of audio  *)
(* and control packets of both protocols, with a network that loses        *)
(* packets, requests and retransmissions.                                  *)
(*                                                                         *)
(* A unit of time is the length of a packet: the source sends packet n at  *)
(* time n and the player takes it, there or not, Lead before time          *)
(* n + Latency.  Slots do not go round here (PlayerBuffer has the ring and *)
(* its numbers), and the check runs from ab_read (PlayerBuffer has the     *)
(* place where it may start).                                              *)
(***************************************************************************)
EXTENDS Integers, FiniteSets, FiniteSetsExt

CONSTANTS
  Protocol,     \* "classic" or "realtime", of AirPlay 2
  Latency,      \* conn->latency
  Lead,         \* audio_backend_buffer_desired_length
  FirstCheck,   \* resend_control_first_check_time
  Interval,     \* resend_control_check_interval_time
  LastCheck,    \* resend_control_last_check_time
  Backoff,      \* 0.3 seconds
  Fails,        \* may sendto fail?
  MaxGap,       \* bounds: packets lost in a row,
  MaxLost,      \* and all in all,
  MaxPacket     \* and packets

Packets == 0 .. MaxPacket - 1

VARIABLES
  now,
  sent,         \* how many packets the source has sent
  slot,         \* audio_buffer: whether the packet is ready, when it was noticed to be
                \* missing, when it was last marked as asked for
  ab_read, ab_write,
  error_time,   \* rtp_time_of_last_resend_request_error_ns, NONE for 0
  address,      \* is ap2_remote_control_socket_addr known?
  asked,        \* how often each packet was asked for
  excused,      \* packets that were marked when no request could be sent
  lost,         \* packets that the network lost and the player still waits for
  losses,       \* how many there were
  strayed,      \* has a check asked for other packets than it marked? (history)
  neglected     \* was a packet asked for less than there was time for? (history)

resendVars ==
  <<now, sent, slot, ab_read, ab_write, error_time, address, asked, excused, lost, losses,
    strayed, neglected>>

NONE == -1
NewSlot == [ready |-> FALSE, initialisation_time |-> NONE, resend_time |-> NONE]

ResendInit ==
  /\ now = 0 /\ sent = 0 /\ ab_read = 0 /\ ab_write = 0
  /\ slot = [n \in Packets |-> NewSlot]
  /\ error_time = NONE
  /\ address = (Protocol = "classic")
  /\ asked = [n \in Packets |-> 0] /\ excused = {}
  /\ lost = {} /\ losses = 0
  /\ strayed = FALSE /\ neglected = FALSE

-----------------------------------------------------------------------------
(* The check. *)

RemainingTime == LastCheck + Lead

TooLate(s) == s.initialisation_time + Latency - now < RemainingTime
TooEarly(s) == now - s.initialisation_time < FirstCheck
TooSoon(s) == s.resend_time /= NONE /\ now - s.resend_time < Interval

Missing(slots, write) == {n \in ab_read .. write - 1 : ~slots[n].ready}
Due(slots, write) ==
  {n \in Missing(slots, write) :
     ~TooLate(slots[n]) /\ ~TooEarly(slots[n]) /\ ~TooSoon(slots[n])}

\* A run of missing packets goes on to the next packet that is ready; what is asked for are
\* as many packets as are due in it, from the first of these on.
RunOf(n, slots, write) ==
  {m \in Missing(slots, write) :
     \A k \in (IF m < n THEN m .. n ELSE n .. m) : ~slots[k].ready}
Requests(slots, write) ==
  UNION {LET due == RunOf(n, slots, write) \cap Due(slots, write)
         IN  Min(due) .. Min(due) + Cardinality(due) - 1 : n \in Due(slots, write)}

\* rtp_request_resend, for one run after the other.  A failure keeps quiet those that follow
\* it, for a while.
Quiet == ~address \/ (error_time /= NONE /\ now - error_time <= Backoff)

Ask(marked, requests) ==
  /\ asked' = [n \in Packets |-> IF n \in requests THEN asked[n] + 1 ELSE asked[n]]
  /\ excused' = excused \cup (marked \ requests)

RequestResend(marked, meant) ==
  \/ /\ meant = {} \/ Quiet
     /\ Ask(marked, {}) /\ UNCHANGED error_time
  \/ /\ meant /= {} /\ ~Quiet
     /\ Ask(marked, meant) /\ error_time' = NONE
  \/ /\ Fails /\ ~Quiet
     /\ \E n \in meant :
          /\ n - 1 \notin meant
          /\ Ask(marked, {m \in meant : m < n}) /\ error_time' = now

Check(slots, write) ==
  LET due == Due(slots, write)
      meant == Requests(slots, write)
  IN  /\ slot' = [n \in Packets |-> IF n \in due THEN [slots[n] EXCEPT !.resend_time = now]
                                    ELSE slots[n]]
      /\ strayed' = (strayed \/ due /= meant)
      /\ RequestResend(due, meant)

-----------------------------------------------------------------------------
(* player_put_packet. *)

Ready(s) == [s EXCEPT !.ready = TRUE, !.initialisation_time = now, !.resend_time = NONE]

\* The packets that are passed over are noticed to be missing now.
BugNoticed(s) == [NewSlot EXCEPT !.initialisation_time = 0]
Noticed(s) == [NewSlot EXCEPT !.initialisation_time = now]

PutPacket(n) ==
  IF n >= ab_write
  THEN /\ Check([m \in Packets |-> CASE m = n -> Ready(slot[m])
                                     [] m \in ab_write .. n - 1 -> Noticed(slot[m])
                                     [] OTHER -> slot[m]], n + 1)
       /\ ab_write' = n + 1
  ELSE /\ Check(IF n < ab_read THEN slot ELSE [slot EXCEPT ![n] = Ready(slot[n])], ab_write)
       /\ UNCHANGED ab_write

-----------------------------------------------------------------------------
(* The network and the player. *)

\* rtp_audio_receiver, rtp_realtime_audio_receiver: a packet comes when it is sent.
Receive ==
  /\ sent = now /\ now < MaxPacket
  /\ PutPacket(now)
  /\ sent' = sent + 1
  /\ UNCHANGED <<now, ab_read, address, lost, losses, neglected>>

Lose ==
  /\ sent = now /\ 0 < now /\ now < MaxPacket
  /\ losses < MaxLost /\ ~(now - MaxGap .. now - 1 \subseteq lost)
  /\ lost' = lost \cup {now} /\ losses' = losses + 1
  /\ sent' = sent + 1
  /\ UNCHANGED <<now, slot, ab_read, ab_write, error_time, address, asked, excused, strayed,
                 neglected>>

\* rtp_audio_receiver, or the control receivers: a packet that was asked for comes again.
Retransmitted ==
  /\ \E n \in lost : asked[n] > 0 /\ PutPacket(n) /\ lost' = lost \ {n}
  /\ UNCHANGED <<now, sent, ab_read, address, losses, neglected>>

\* rtp_ap2_control_receiver: the first control packet tells where requests go.
ControlPacket ==
  /\ ~address
  /\ address' = TRUE
  /\ UNCHANGED <<now, sent, slot, ab_read, ab_write, error_time, asked, excused, lost, losses,
                 strayed, neglected>>

\* How often there is time to ask for a packet.
Attempts ==
  1 + (Latency - RemainingTime - FirstCheck - MaxGap) \div (Interval + MaxGap)

\* buffer_get_frame takes the packet that is due, or goes on without it.
Taken == now + 1 - Latency + Lead

Pass ==
  /\ sent > now /\ now' = now + 1
  /\ ab_read' = IF Taken >= 0 THEN Taken + 1 ELSE ab_read
  /\ neglected' = (neglected \/ (Taken \in lost \ excused /\ asked[Taken] < Attempts))
  /\ lost' = lost \ {Taken} /\ excused' = excused \ {Taken}
  /\ slot' = [n \in Packets |-> IF n = Taken THEN NewSlot ELSE slot[n]]
  /\ asked' = [n \in Packets |-> IF n = Taken THEN 0 ELSE asked[n]]
  /\ UNCHANGED <<sent, ab_write, error_time, address, losses, strayed>>

ResendNext == Receive \/ Lose \/ Retransmitted \/ ControlPacket \/ Pass

ResendSpec == ResendInit /\ [][ResendNext]_resendVars

-----------------------------------------------------------------------------
ResendTypeOK ==
  /\ now \in 0 .. MaxPacket /\ ab_read \in 0 .. MaxPacket /\ ab_write \in 0 .. MaxPacket
  /\ slot \in [Packets -> [ready : BOOLEAN, initialisation_time : 0 .. MaxPacket \cup {NONE},
                           resend_time : 0 .. MaxPacket \cup {NONE}]]
  /\ error_time \in 0 .. MaxPacket \cup {NONE} /\ address \in BOOLEAN
  /\ excused \subseteq Packets /\ lost \subseteq Packets
  /\ asked \in [Packets -> Nat]

\* A run of missing packets is asked for by its first packet that is due and the number of
\* those that are: this names the packets that were marked, and no others, only because the
\* packets of a run are all due or all not; a packet that was marked and not asked for
\* would wait for the next interval.  And a packet that the player finds missing has been
\* asked for as often as there was time for, however the losses fall, if it was not marked
\* when a request could not be sent.
ResendsRight == ~strayed /\ ~neglected
=============================================================================
