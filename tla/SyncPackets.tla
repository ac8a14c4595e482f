----------------------------- MODULE SyncPackets -----------------------------
(***************************************************************************)
(* The latency of a stream and the line from timestamps to times: the sync *)
(* packets of Classic AirPlay and the anchoring packets of AirPlay 2 as    *)
(* rtp_control_receiver and rtp_ap2_control_receiver take them, from a     *)
(* network that loses and reorders them, and the two conversions that the  *)
(* player makes of them.                                                   *)
(*                                                                         *)
(* Times are whole units, Second to the second.  The source sends frame k  *)
(* of its stream at time k * Second / Rate; a timestamp is the number of a *)
(* frame modulo Wrap, which stands for 2^32.                               *)
(***************************************************************************)
EXTENDS Integers, FiniteSets

CONSTANTS
  Wrap,            \* 2^32
  Second,          \* 10^9
  Rate,            \* conn->input_rate
  FirstFrame,      \* the frame the source sends at time 0
  Latencies,       \* what a source may ask for
  MaxFrames,       \* max_frames
  Room,            \* frames_per_packet * (BUFFER_FRAMES - minimum_free_buffer_headroom)
  FixedLatencyOffset,
  Differences,     \* of the two clocks, none of them 0
  Settings,        \* sets of settings and requests, see below
  MaxTime, MaxFlight

VARIABLES
  setting,         \* user, minimum, maximum (0 for none), offset (of the audio back end),
                   \* buffer (the length desired of it), protocol, and fixed: do the flags
                   \* and the version of the source call for the fixed offset?
  now,             \* the source's clock
  flight,          \* packets on their way
  local_to_remote_time_difference,
  latency, anchor_rtptime, anchor_time, anchor_remote_info_is_valid,
  receiver,        \* the packet in the receiver's hands, whose latency is set
  anchored         \* the latency that went into the anchor (history)

syncVars ==
  <<setting, now, flight, local_to_remote_time_difference, latency, anchor_rtptime, anchor_time,
    anchor_remote_info_is_valid, receiver, anchored>>

NoPacket == [time |-> -1, rtptime |-> 0, less_latency |-> 0]

Packet == [time : 0 .. MaxTime, rtptime : 0 .. Wrap - 1, less_latency : 0 .. Wrap - 1]

SyncInit ==
  /\ setting \in Settings
  /\ now = 0 /\ flight = {}
  /\ local_to_remote_time_difference = 0
  /\ latency = 0 /\ anchor_rtptime = 0 /\ anchor_time = 0
  /\ anchor_remote_info_is_valid = FALSE
  /\ receiver = NoPacket /\ anchored = 0

\* uint32_t, int32_t, and division towards zero
Unsigned(x) == x % Wrap
Signed(x) == IF x % Wrap < Wrap \div 2 THEN x % Wrap ELSE (x % Wrap) - Wrap
Quotient(a, b) == IF a >= 0 THEN a \div b ELSE -((-a) \div b)

-----------------------------------------------------------------------------
(* The source and the network. *)

FrameAt(time) == FirstFrame + (time * Rate) \div Second

\* A packet says which frame is sent, and which would be played were there no delay.
SendPacket ==
  /\ Cardinality(flight) < MaxFlight
  /\ \A packet \in flight : packet.time < now
  /\ \E asked \in Latencies :
       flight' = flight \cup {[time |-> now, rtptime |-> Unsigned(FrameAt(now)),
                              less_latency |-> Unsigned(FrameAt(now) - asked)]}
  /\ UNCHANGED <<setting, now, local_to_remote_time_difference, latency, anchor_rtptime,
                 anchor_time, anchor_remote_info_is_valid, receiver, anchored>>

Pass ==
  /\ now < MaxTime /\ now' = now + 1
  /\ flight' \in {flight} \cup {flight \ {packet} : packet \in flight}
  /\ UNCHANGED <<setting, local_to_remote_time_difference, latency, anchor_rtptime, anchor_time,
                 anchor_remote_info_is_valid, receiver, anchored>>

\* rtp_timing_receiver: see ClassicTiming
TimingReply ==
  /\ local_to_remote_time_difference = 0
  /\ local_to_remote_time_difference' \in Differences
  /\ UNCHANGED <<setting, now, flight, latency, anchor_rtptime, anchor_time,
                 anchor_remote_info_is_valid, receiver, anchored>>

-----------------------------------------------------------------------------
(* rtp_control_receiver *)

Clamped(la) ==
  LET most == IF setting.maximum /= 0 /\ setting.maximum < la THEN setting.maximum ELSE la
  IN  IF setting.minimum /= 0 /\ setting.minimum > most THEN setting.minimum ELSE most

Adjusted(la) == IF setting.offset + la \in 0 .. Room THEN setting.offset + la ELSE la

\* The latency that follows from a sync packet.  A request that is out of range changes
\* nothing.
SyncLatency(packet) ==
  IF setting.user /= 0 THEN setting.user
  ELSE LET asked == Unsigned(packet.rtptime - packet.less_latency)
           la == Clamped(Unsigned(asked + IF setting.fixed THEN FixedLatencyOffset ELSE 0))
       IN  IF la > MaxFrames THEN latency ELSE Adjusted(la)

TakeSync(packet) ==
  /\ setting.protocol = "classic" /\ local_to_remote_time_difference /= 0
  /\ latency' = SyncLatency(packet)

\* rtp_ap2_control_receiver: the offset counts for the latency if what is left of it is
\* more than the back end holds.
TakeAnchoring(packet) ==
  /\ setting.protocol = "realtime"
  /\ LET notified == Signed(packet.rtptime - packet.less_latency) + FixedLatencyOffset
     IN  latency' = IF notified + setting.offset - setting.buffer <= 0 THEN notified
                    ELSE notified + setting.offset

Take ==
  /\ receiver = NoPacket
  /\ \E packet \in flight :
       /\ TakeSync(packet) \/ TakeAnchoring(packet)
       /\ receiver' = packet
       /\ flight' = flight \ {packet}
  /\ UNCHANGED <<setting, now, local_to_remote_time_difference, anchor_rtptime, anchor_time,
                 anchor_remote_info_is_valid, anchored>>

\* "Sync packet received before we got a timing packet back."
Ignore ==
  /\ receiver = NoPacket
  /\ setting.protocol = "classic" /\ local_to_remote_time_difference = 0
  /\ \E packet \in flight : flight' = flight \ {packet}
  /\ UNCHANGED <<setting, now, local_to_remote_time_difference, latency, anchor_rtptime,
                 anchor_time, anchor_remote_info_is_valid, receiver, anchored>>

\* What the time of a packet is the time of
BugAnchorFrame == Unsigned(receiver.rtptime)
AnchorFrame ==
  IF setting.protocol = "classic" THEN Unsigned(receiver.rtptime - latency)
  ELSE Unsigned(receiver.less_latency - FixedLatencyOffset - setting.offset)

\* With reference_time_mutex, or set_ptp_anchor_info
SetAnchor ==
  /\ receiver /= NoPacket
  /\ anchor_rtptime' = AnchorFrame
  /\ anchor_time' = receiver.time
  /\ anchor_remote_info_is_valid' = TRUE
  /\ anchored' = latency
  /\ receiver' = NoPacket
  /\ UNCHANGED <<setting, now, flight, local_to_remote_time_difference, latency>>

SyncNext ==
  SendPacket \/ Pass \/ TimingReply \/ Take \/ Ignore \/ SetAnchor

SyncSpec == SyncInit /\ [][SyncNext]_syncVars

-----------------------------------------------------------------------------
(* The conversions, while there is an anchor. *)

\* frame_to_ntp_local_time
FrameToTime(timestamp) ==
  anchor_time + Quotient(Signed(timestamp - anchor_rtptime) * Second, Rate)
    - local_to_remote_time_difference

\* local_ntp_time_to_frame
TimeToFrame(time) ==
  Unsigned(anchor_rtptime
           + Quotient((time + local_to_remote_time_difference - anchor_time) * Rate, Second))

\* When the source means frame k of its stream to be heard, on the clock of the player
Due(k, delay) ==
  ((k + delay - FirstFrame) * Second) \div Rate - local_to_remote_time_difference

\* Frames that may be asked for: half the numbers lie before the anchor and half after it
Within == -(Wrap \div 2) + 1 .. Wrap \div 2 - 1
AnchorNumber == FrameAt(anchor_time) - anchored

-----------------------------------------------------------------------------
SyncTypeOK ==
  /\ now \in 0 .. MaxTime /\ flight \subseteq Packet
  /\ local_to_remote_time_difference \in Differences \cup {0}
  /\ latency \in Int /\ anchored \in Int
  /\ anchor_rtptime \in 0 .. Wrap - 1 /\ anchor_time \in 0 .. MaxTime
  /\ receiver \in Packet \cup {NoPacket}
  /\ anchor_remote_info_is_valid \in BOOLEAN

\* The length of a frame, rounded up, and the rounding of its time
Tolerance == Second \div Rate + 2

\* Whatever packets were lost or came in another order, and wherever the timestamps wrap, a
\* frame is given the time at which the source means it to be heard with the latency that
\* the anchor was made with; and that time leads back to the frame, or to the next one on
\* the side of the anchor.
TimesFollowSource ==
  anchor_remote_info_is_valid =>
    \A d \in Within :
      LET k == AnchorNumber + d
          time == FrameToTime(Unsigned(k))
      IN  /\ time - Due(k, anchored) \in -Tolerance .. Tolerance
          /\ Unsigned(k) - TimeToFrame(time) \in {0, IF d > 0 THEN 1 ELSE -1,
                                                  IF d > 0 THEN 1 - Wrap ELSE Wrap - 1}

\* The anchor is made with the latency that the rest of the program goes by, except while
\* the receiver is between the two.
LatencyAgrees == anchor_remote_info_is_valid /\ receiver = NoPacket => latency = anchored

=============================================================================
