------------------------------ MODULE FrameRates ------------------------------
(***************************************************************************)
(* How the rate of the output device is measured: player_thread_func asks  *)
(* the back end now and then how many frames it was sent and how many of   *)
(* them wait to be played (stats and its two ways to find the delay in     *)
(* audio_alsa.c), and divides what was played since the measurement began  *)
(* by the time since then.  Whatever disturbs the count of frames is       *)
(* flagged until the next call, which then begins anew.                    *)
(* The device plays one frame in a unit of time, so that the frames of a   *)
(* right measurement are as many as the units of its interval; the two     *)
(* clocks that stats reads are one.  An interrupt updates the device's     *)
(* status every Period.                                                    *)
(***************************************************************************)
EXTENDS Integers

CONSTANTS
  Room, Threshold,  \* of the device's buffer, and the frames at which it starts
  Period,
  Chunk,       \* frames that are played at a time
  Precision,   \* are the status's timestamps used?
  AskedWhile,  \* the device's states in which the player asks
  MaxLate,     \* between the time and the delay in a call of stats
  MaxTime, MaxTroubles  \* bounds

VARIABLES
  now,
  state, waiting, \* of the device, "none" when it is not open, and the frames it holds
  timestamp,      \* of its status, set when it starts and at interrupts
  frames_sent_for_playing, frames_sent_break_occurred,
  raw_measurement_time,   \* that a call of stats has read; -1 when there is no call
  previous,       \* measurement: previous_frames_played_valid, time and frames
  frame_rate,     \* frame_rate_valid, frames and interval
  troubles

deviceVars == <<state, waiting, timestamp>>
sentVars == <<frames_sent_for_playing, frames_sent_break_occurred>>
measureVars == <<raw_measurement_time, previous, frame_rate>>
rateVars == <<now, deviceVars, sentVars, measureVars, troubles>>

Nothing == [valid |-> FALSE, time |-> 0, frames |-> 0]

RateInit ==
  /\ now = 0
  /\ state = "none" /\ waiting = 0 /\ timestamp = 0
  /\ frames_sent_for_playing = 0 /\ frames_sent_break_occurred = FALSE
  /\ raw_measurement_time = -1
  /\ previous = Nothing /\ frame_rate = Nothing
  /\ troubles = 0

\* Every call has the back end's mutex.
MutexFree == raw_measurement_time = -1

------------------------------------------------------------------------------
(* The device.                                                             *)

\* It stops when it has nothing left to play.
Tick ==
  /\ now < MaxTime
  /\ ~MutexFree => now - raw_measurement_time < MaxLate
  /\ now' = now + 1
  /\ waiting' = IF state = "running" THEN waiting - 1 ELSE waiting
  /\ state' = IF state = "running" /\ waiting' = 0 THEN "xrun" ELSE state
  /\ timestamp' = IF now' % Period = 0 THEN now' ELSE timestamp
  /\ UNCHANGED <<sentVars, measureVars, troubles>>

BugBreakAtOpen == UNCHANGED frames_sent_break_occurred
BreakAtOpen == frames_sent_break_occurred' = TRUE

\* do_open.
Open ==
  /\ MutexFree /\ state = "none"
  /\ state' = "prepared" /\ waiting' = 0
  /\ frames_sent_for_playing' = 0 /\ BreakAtOpen
  /\ UNCHANGED <<now, timestamp, measureVars, troubles>>

\* do_play: frames are written, or the device recovers from an underrun.
Play ==
  /\ MutexFree
  /\ \/ /\ state \in {"prepared", "running"} /\ waiting + Chunk <= Room
        /\ waiting' = waiting + Chunk
        /\ frames_sent_for_playing' = frames_sent_for_playing + Chunk
        /\ IF state = "prepared" /\ waiting' >= Threshold
             THEN state' = "running" /\ timestamp' = now
             ELSE UNCHANGED <<state, timestamp>>
        /\ UNCHANGED frames_sent_break_occurred
     \/ /\ state = "xrun" /\ state' = "prepared"
        /\ frames_sent_break_occurred' = TRUE
        /\ UNCHANGED <<waiting, timestamp, frames_sent_for_playing>>
  /\ UNCHANGED <<now, measureVars, troubles>>

\* sub_flush.
Flush ==
  /\ MutexFree /\ state /= "none" /\ troubles < MaxTroubles
  /\ troubles' = troubles + 1
  /\ state' = "prepared" /\ waiting' = 0
  /\ frames_sent_break_occurred' = TRUE
  /\ UNCHANGED <<now, timestamp, frames_sent_for_playing, measureVars>>

\* do_close, after a failure, or by the monitor thread.
Close ==
  /\ MutexFree /\ state /= "none" /\ troubles < MaxTroubles
  /\ troubles' = troubles + 1
  /\ state' = "none" /\ waiting' = 0
  /\ UNCHANGED <<now, timestamp, sentVars, measureVars>>

------------------------------------------------------------------------------
(* The measurement.                                                        *)

\* stats reads the time first, if the device is open; otherwise the player's variable was never
\* set.
AskTime ==
  /\ MutexFree /\ state \in AskedWhile
  /\ raw_measurement_time' \in IF state = "none" THEN {0, now} ELSE {now}
  /\ UNCHANGED <<now, deviceVars, sentVars, previous, frame_rate, troubles>>

\* The library tells of the delay as it was at the timestamp, with what was written since.
LibraryDelay == waiting + (now - timestamp)

\* precision_delay_and_status takes off what was played since the timestamp, and
\* standard_delay_and_status asks for the delay of now.
Delay ==
  IF state /= "running" THEN 0
    ELSE IF Precision THEN LibraryDelay - (now - timestamp) ELSE waiting

\* What stats returns: 0 when there were no output problems since it was last called.
StatsStatus == IF state = "none" \/ frames_sent_break_occurred THEN 1 ELSE 0

\* When there was a problem, or nothing to start from, the measurement begins here.
BugBegins == ~previous.valid
Begins == StatsStatus /= 0 \/ ~previous.valid

AskDelay ==
  /\ ~MutexFree
  /\ LET played == frames_sent_for_playing - Delay
         interval == raw_measurement_time - previous.time
     IN /\ frame_rate' =
             IF StatsStatus /= 0 THEN [frame_rate EXCEPT !.valid = FALSE]
               ELSE IF previous.valid /\ interval /= 0
                 THEN [valid |-> TRUE, time |-> interval, frames |-> played - previous.frames]
                 ELSE frame_rate
        /\ previous' =
             IF Begins THEN [valid |-> TRUE, time |-> raw_measurement_time, frames |-> played]
                       ELSE previous
  /\ frames_sent_break_occurred' = FALSE
  /\ raw_measurement_time' = -1
  /\ UNCHANGED <<now, deviceVars, frames_sent_for_playing, troubles>>

RateNext == Tick \/ Open \/ Play \/ Flush \/ Close \/ AskTime \/ AskDelay

------------------------------------------------------------------------------
(* Properties.                                                             *)

RateTypeOK ==
  /\ now \in 0 .. MaxTime /\ troubles \in 0 .. MaxTroubles
  /\ state \in {"none", "prepared", "running", "xrun"} /\ waiting \in 0 .. Room
  /\ timestamp \in 0 .. now
  /\ frames_sent_for_playing \in Nat /\ frames_sent_break_occurred \in BOOLEAN
  /\ raw_measurement_time \in -1 .. MaxTime
  /\ previous.valid \in BOOLEAN /\ frame_rate.valid \in BOOLEAN

\* A rate that is valid is the device's, but for how late stats was with the delay: no
\* underrun, flush, closing or opening is within its interval.  False when the player asks
\* while the device is prepared, whose waiting frames count as played, or has underrun and
\* nobody has tried to play since.
\* From the flag in stats, and when player_thread_func begins a measurement.
RateIsTheDevices ==
  frame_rate.valid => frame_rate.frames - frame_rate.time \in -MaxLate .. MaxLate
=============================================================================
