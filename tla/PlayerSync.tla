----------------------------- MODULE PlayerSync -----------------------------
(***************************************************************************)
(* How the player thread keeps time (player.c): the silence that           *)
(* buffer_get_frame sends ahead of the first packet of a stream, and what  *)
(* player_thread_func does with a packet that would be heard early or      *)
(* late: skip frames, insert silence, add or drop a frame ("stuffing"),    *)
(* drop the packet, or ask for a resynchronisation.                        *)
(*                                                                         *)
(* Time is in frames, and the rates of the stream and of the output device *)
(* are the same but for a drift.  error is how late the first frame of the *)
(* next packet would be heard if the packet followed the last one: the     *)
(* length of the device's queue, on top of the time, less the time at      *)
(* which it should be heard.  It grows with every frame that is played and *)
(* falls by the length of every packet that has been dealt with.           *)
(***************************************************************************)
EXTENDS Integers, FiniteSetsExt

CONSTANTS
  Length,      \* frames in a packet
  History,     \* sync_history_length
  Tolerance,   \* config.tolerance
  Threshold,   \* config.resync_threshold; 0 is "never"
  Settling,    \* packets to play before stuffing: 10 * 1024 frames
  Chunk,       \* the silence sent at a time: 100 ms
  LeadIn,      \* config.audio_backend_silent_lead_in_time
  Desired,     \* config.audio_backend_buffer_desired_length
  Wake,        \* bound: the longest time between two passes of buffer_get_frame
  Leads,       \* how long before its time the first packet may come, negative for late
  Gaps,        \* the timestamp_gaps of packets
  Gone,        \* what a missing packet may leave in its slot, a subset of
               \* {"length", "nothing"}: see MissingPacket
  Apart,       \* whether discontinuities come one at a time
  MaxTroubles, \* bound: gaps, drifts, stalls and missing packets
  MaxStall     \* bound: how much later a stall makes the stream

VARIABLES
  ab_buffering,
  lead,         \* the time until the first packet is due, while buffering
  queue,        \* frames in the output device, while buffering
  primed,       \* output_device_has_been_primed
  inTime,       \* history: the lead-in ended before the first packet was due
  first,        \* the next packet is the one with first_packet_timestamp
  error,
  frames_to_skip,
  skipping,     \* skipping_frames_at_start_of_play
  sync_samples, \* the samples that count: the last History of them, newest first
  last_sample_index,
  play_number,  \* up to Settling
  target,       \* history: the error that the skip under way is to end with
  landed,       \* history: the last skip ended with that error
  replaced,     \* history: the last missing packet was replaced by silence
  troubles      \* what has gone wrong, for the bound

leadVars == <<lead, queue, primed, inTime>>
skipVars == <<frames_to_skip, skipping, target, landed>>
history == <<sync_samples, last_sample_index>>
syncVars == <<ab_buffering, leadVars, first, error, skipVars, history, play_number,
              replaced, troubles>>

SyncTypeOK ==
  /\ {ab_buffering, primed, inTime, first, skipping, landed, replaced} \subseteq BOOLEAN
  /\ {lead, error, target} \subseteq Int
  /\ queue \in Nat /\ frames_to_skip \in Nat
  /\ DOMAIN sync_samples = 1 .. Cardinality(DOMAIN sync_samples)
  /\ Cardinality(DOMAIN sync_samples) <= History
  /\ last_sample_index \in 0 .. History - 1
  /\ play_number \in 0 .. Settling /\ troubles \in 0 .. MaxTroubles

SyncInit ==
  /\ ab_buffering = TRUE /\ first = TRUE
  /\ lead \in Leads /\ queue = 0 /\ primed = FALSE /\ inTime = FALSE
  /\ error = 0
  /\ frames_to_skip = 0 /\ skipping = FALSE /\ target = 0 /\ landed = TRUE
  /\ sync_samples = <<>> /\ last_sample_index = History - 1 /\ play_number = 0
  /\ replaced = TRUE /\ troubles = 0

(***************************************************************************)
(* buffer_get_frame, before the first packet                               *)
(***************************************************************************)

\* Silence for what is left of the time, no more than a chunk of it at once.  A
\* device that nothing has been sent to is taken to be empty.
BugQueued == 0
Queued == IF primed THEN queue ELSE 0

Silence == Min({Chunk, lead - Queued})

\* What a wait of buffer_get_frame takes, if there is one: the time to the first
\* packet gets shorter, and so does the device's queue.
PassTime(wait, queued) ==
  \E t \in IF wait THEN 1 .. Wake ELSE {0} :
    /\ lead' = lead - t
    /\ queue' = Max({0, queued - t})

\* The first packet waits until the device's queue may be filled with it.
TooEarly == lead > Desired

\* A pass before the lead-in, in which the delay is asked for, if the device has
\* been sent anything, and the silence is sent.  The lead-in ends when what is
\* sent is less than a chunk, or there is no time for any.
LeadInPass ==
  /\ ab_buffering
  /\ \E delayKnown \in {TRUE, ~primed} :
       LET now == lead >= 0 /\ lead <= LeadIn /\ delayKnown
           sent == IF now THEN Max({0, Silence}) ELSE 0
       IN  /\ ab_buffering' = (lead >= 0 /\ (now => Silence >= Chunk))
           /\ primed' = (primed \/ sent > 0)
           /\ PassTime(ab_buffering' \/ TooEarly, queue + sent)
           /\ inTime' = (~ab_buffering' /\ lead >= 0)
  /\ UNCHANGED <<first, error, skipVars, history, play_number, replaced, troubles>>

WaitPass ==
  /\ ~ab_buffering /\ first /\ TooEarly
  /\ PassTime(TRUE, queue)
  /\ UNCHANGED <<ab_buffering, primed, inTime, first, error, skipVars, history,
                 play_number, replaced, troubles>>

(***************************************************************************)
(* The error of a packet                                                   *)
(***************************************************************************)

\* The next packet, with the gap before it: how late it would be heard.
Lateness(gap) == IF first THEN queue - lead ELSE error - gap

\* A skip at the start of play is estimated anew with every packet.
Estimate(late) ==
  IF ~skipping THEN frames_to_skip ELSE IF late > 0 THEN late ELSE 0

\* What a first packet, or one after a gap, asks to be made good: of a negative
\* gap, no more than the gap.
BugToFix(gap, late) == IF first \/ gap /= 0 THEN late ELSE 0
ToFix(gap, late) == IF first \/ gap > 0 THEN late ELSE IF gap < 0 THEN -gap ELSE 0

\* The frames to skip, the first of them in this packet, unless silence is put
\* in its way.
Skip(late, fix) == IF fix < 0 THEN 0 ELSE Estimate(late) + fix
StillSkipping(late, fix) == fix >= 0 /\ (first \/ (skipping /\ late > 0))

(***************************************************************************)
(* The history of errors                                                   *)
(***************************************************************************)

Add(sample) ==
  [k \in 1 .. Min({Cardinality(DOMAIN sync_samples) + 1, History}) |->
     IF k = 1 THEN sample ELSE sync_samples[k - 1]]

Highest(s) == Max({s[k] : k \in DOMAIN s})
Lowest(s) == Min({s[k] : k \in DOMAIN s})
Others(s, n) == {s[k] : k \in DOMAIN s \ {CHOOSE j \in DOMAIN s : s[j] = n}}

\* The second highest and the second lowest sample, in code that takes the first
\* of its array for them until it finds others: it finds none if that is the
\* highest, or the lowest.  The array's first is the one of age last_sample_index.
SecondHighest(s, i) ==
  IF s[i + 1] = Highest(s) THEN Highest(s) ELSE Max(Others(s, Highest(s)))
SecondLowest(s, i) ==
  IF s[i + 1] = Lowest(s) THEN Lowest(s) ELSE Min(Others(s, Lowest(s)))

\* The C quotient of a number by 2.
Half(n) == IF n >= 0 THEN n \div 2 ELSE -((-n) \div 2)

Centred(s, i) == Half(SecondHighest(s, i) + SecondLowest(s, i))

\* The stream is out of bounds: not when there are errors on both sides of zero,
\* nor before the history is full.
OutOfBounds(s, centred) ==
  /\ Threshold > 0 /\ (centred > Threshold \/ centred < -Threshold)
  /\ ~(Highest(s) >= 0 /\ Lowest(s) <= 0)
  /\ Cardinality(DOMAIN s) = History

\* amount_to_stuff
BugStuff(centred) == IF centred > Tolerance THEN 1 ELSE IF centred < -Tolerance THEN -1 ELSE 0
Stuff(centred) ==
  IF play_number + 1 < Settling THEN 0
  ELSE IF centred > Tolerance THEN -1 ELSE IF centred < -Tolerance THEN 1 ELSE 0

(***************************************************************************)
(* player_thread_func: a packet                                            *)
(***************************************************************************)
Trouble == troubles < MaxTroubles /\ troubles' = troubles + 1

\* The packet is there and is played, or as much of it as is not to be skipped;
\* the skip may end with it.
PlaySamples(samples, skip, still, e) ==
  LET over == skip /= 0 /\ skip <= samples IN
  /\ frames_to_skip' = IF skip > samples THEN skip - samples ELSE 0
  /\ skipping' = (still /\ ~over)
  /\ error' = e + Max({0, samples - skip}) - Length
  /\ landed' = IF over THEN error' = target' ELSE landed

Playing == ~ab_buffering /\ (first => ~TooEarly)

\* The error that is left when a discontinuity has been dealt with.
Aim(gap) ==
  IF first \/ gap > 0 \/ (gap = 0 /\ skipping) THEN 0
  ELSE IF gap < 0 THEN error ELSE target

\* What the source and the network may bring next.
Steady == frames_to_skip = 0 /\ ~skipping
TakeGap(gap) ==
  IF gap = 0 THEN UNCHANGED troubles ELSE ~first /\ (Apart => Steady) /\ Trouble

\* A packet of which the error can be measured: it is brought to its time; or it
\* is dropped, and if it is early a resynchronisation is asked for.
PlayInTime(gap) ==
  /\ Playing
  /\ TakeGap(gap)
  /\ target' = Aim(gap)
  /\ \E late \in {Lateness(gap)} : \E fix \in {ToFix(gap, late)} :
     \E skip \in {Skip(late, fix)} :
     \* the sample of a packet whose error has just been made good is 0; none is
     \* taken while frames are skipped
     \E samples \in {IF skip = 0 THEN Add(IF fix = 0 THEN late ELSE 0) ELSE sync_samples},
        index \in {IF skip = 0 THEN (last_sample_index + 1) % History ELSE last_sample_index} :
     \E centred \in {IF skip = 0 THEN Centred(samples, index) ELSE 0} :
     \E out \in {OutOfBounds(samples, centred)} :
       LET e == late + Max({0, -fix}) IN
       /\ sync_samples' = samples /\ last_sample_index' = index
       /\ IF out
          THEN /\ error' = e - Length
               /\ frames_to_skip' = skip /\ skipping' = StillSkipping(late, fix)
               /\ UNCHANGED landed
          ELSE PlaySamples(Length + Stuff(centred), skip, StillSkipping(late, fix), e)
       /\ first' = (out /\ centred < 0) /\ ab_buffering' = first'
       /\ IF first'
          THEN queue' = Desired /\ lead' = Desired - error' /\ primed' = TRUE
          ELSE UNCHANGED <<queue, lead, primed>>
  /\ play_number' = Min({play_number + 1, Settling})
  /\ UNCHANGED <<inTime, replaced>>

\* The measurement takes too long, or there is none: the packet is played as it
\* is, but for what was left to skip when the measurement took too long.
PlayUnmeasured(gap) ==
  /\ Playing /\ Trouble
  /\ gap /= 0 => ~first /\ (Apart => Steady)
  /\ target' = target - gap
  /\ \/ PlaySamples(Length, frames_to_skip, skipping, Lateness(gap))
     \/ error' = Lateness(gap) /\ UNCHANGED <<frames_to_skip, skipping, landed>>
  /\ first' = FALSE
  /\ play_number' = Min({play_number + 1, Settling})
  /\ UNCHANGED <<ab_buffering, leadVars, history, replaced>>

\* A packet that is missing.  There is data in its slot only if the decoder is
\* FFmpeg's and an earlier packet has left its length there; then there is silence
\* in its place, else nothing is played.
MissingPacket ==
  /\ Playing /\ ~first /\ Trouble
  /\ \E left \in Gone :
       LET played == IF left = "length" THEN Length ELSE 0 IN
       /\ error' = error + played - Length
       /\ target' = target + played - Length
       /\ replaced' = (played = Length)
       /\ play_number' = IF played > 0 THEN Min({play_number + 1, Settling}) ELSE play_number
  /\ UNCHANGED <<ab_buffering, leadVars, first, frames_to_skip, skipping, landed, history>>

\* A flush: the device is emptied and there is going to be another first packet;
\* what player_thread_func remembers stays.
Flush ==
  /\ Apart => Steady
  /\ Trouble
  /\ ab_buffering' = TRUE /\ first' = TRUE
  /\ lead' \in Leads /\ queue' = 0 /\ primed' = FALSE /\ inTime' = FALSE
  /\ UNCHANGED <<error, skipVars, history, play_number, replaced>>

(***************************************************************************)
(* The output device and the clocks                                        *)
(***************************************************************************)
\* The device's clock and the source's drift apart by a frame, or the device has
\* nothing to play for a while.
Drift ==
  /\ ~first /\ Trouble
  /\ \E d \in -1 .. MaxStall : error' = error + d /\ target' = target + d
  /\ UNCHANGED <<ab_buffering, leadVars, first, frames_to_skip, skipping, landed, history,
                 play_number, replaced>>

PlayStep == LeadInPass \/ WaitPass \/ PlayInTime(0)

SyncNext ==
  \/ LeadInPass \/ WaitPass \/ MissingPacket \/ Flush \/ Drift
  \/ \E gap \in Gaps \union {0} : PlayInTime(gap) \/ PlayUnmeasured(gap)

SyncSpec == SyncInit /\ [][SyncNext]_syncVars

\* Packets come, and their errors can be measured.
FairSyncSpec == SyncSpec /\ WF_syncVars(PlayStep)

(***************************************************************************)
(* Properties                                                              *)
(***************************************************************************)

\* buffer_get_frame: however many chunks and passes it takes, and however long
\* they are, when the lead-in ends before the first packet is due the silence in
\* the device ends just then.
FirstFrameOnTime == ~ab_buffering /\ first /\ inTime => queue = lead

\* A skip, over as many packets and measurements as it takes, ends with the error
\* that was aimed at: none, or after a negative gap that before it.  (It need not
\* when there is a discontinuity while the skip for another is under way: what is
\* left of that, which is part of the new error, is added to it again.)
SkipLandsOnTarget == landed

\* Silence and skips, which come in pieces, end to the frame.
FramesOnTarget == FirstFrameOnTime /\ SkipLandsOnTarget

\* Whatever has happened, the stream gets back to its time and keeps to it: the
\* corrections, which come late by half the history, do not rock it.
SyncRegained == <>[](~first /\ error \in -(Tolerance + 1) .. Tolerance + 1)

\* player.c: of a missing packet, "indicate a silent frame should be substituted".
MissingIsSilence == replaced
=============================================================================
