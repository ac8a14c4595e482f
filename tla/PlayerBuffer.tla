---------------------------- MODULE PlayerBuffer ----------------------------
(***************************************************************************)
(* The audio buffer of a connection (player.c): a ring of BufFrames slots  *)
(* indexed by 16-bit sequence numbers.  The RTP receiver threads put       *)
(* packets in it, out of order, late, twice or never; the player thread    *)
(* takes one at a time and plays it while the receivers go on; the RTSP    *)
(* thread leaves a flush request for the player thread to find.            *)
(*                                                                         *)
(* The packets of the stream are numbered from 0.  Packet n has timestamp  *)
(* n + 1, so that 0 means what it means in the code, no timestamp, and is  *)
(* due at time n.  Its payload is represented by n itself.                 *)
(*                                                                         *)
(* ab_mutex is held by player_put_packet from end to end and by            *)
(* buffer_get_frame except while it waits, so that each of them, and each  *)
(* pass of the latter's loop, is one step.  do_flush takes only            *)
(* flush_mutex, but buffer_get_frame looks at the request only once, and   *)
(* under that mutex.                                                       *)
(***************************************************************************)
EXTENDS Integers, FiniteSetsExt

CONSTANTS
  SeqMod,         \* 2^16: sequence numbers are seq_t, i.e. uint16_t
  BufFrames,      \* BUFFER_FRAMES, which divides SeqMod
  FirstSeq,       \* the sequence number of packet 0
  MaxPacket,      \* bound: packets of the stream
  MaxTime,        \* bound: how far time goes
  MaxGap,         \* bound: packets lost in a row
  MaxLate,        \* bound: how many packets may overtake a packet
  MaxWindow,      \* how far the source may be ahead of the player
  DacLead,        \* audio_backend_buffer_desired_length, in packets
  PacketLength,   \* the length in a slot before conversion: 0 with the FFmpeg
                  \* decoder, else that of a packet, i.e. 1
  HighTimestamps  \* whether timestamp 0 comes after those of the stream, mod 2^32

ASSUME BufferAssumption ==
  /\ SeqMod \in Nat /\ BufFrames \in Nat \ {0} /\ 2 * BufFrames <= SeqMod
  /\ SeqMod % BufFrames = 0
  /\ FirstSeq \in 0 .. SeqMod - 1
  /\ MaxPacket \in Nat /\ MaxTime \in Nat /\ MaxGap \in Nat /\ MaxLate \in Nat
  /\ MaxWindow \in 1 .. SeqMod \div 2
  /\ DacLead \in Nat /\ PacketLength \in {0, 1} /\ HighTimestamps \in BOOLEAN

Packet == 0 .. MaxPacket - 1
SeqNo == 0 .. SeqMod - 1
Slots == 0 .. BufFrames - 1
NULL == -1

VARIABLES
  slot,        \* audio_buffer: [ready, sequence_number, timestamp, payload]
  ab_read, ab_write, ab_synced, ab_buffering,
  first_packet_timestamp,
  cursor,      \* first_possibly_missing_frame, a global variable
  flush,       \* flush_requested, flush_rtp_timestamp, flush_output_flushed
  counted,     \* packet_count is not 0
  output,      \* connection_state_to_output
  inUse,       \* the slot whose frame the player thread is playing, or NULL
  resync,      \* request_resync of the player thread
  now,         \* the time: packets before now are out of date
  top,         \* the latest packet that came, for the environment's bounds
  readN        \* the packet ab_read stands for, were numbers not to wrap

bufferVars == <<slot, ab_read, ab_write, ab_synced, ab_buffering, readN>>
vars == <<bufferVars, first_packet_timestamp, cursor, flush, counted, output,
          inUse, resync, now, top>>

TypeOK ==
  /\ slot \in [Slots -> [ready: BOOLEAN, sequence_number: SeqNo,
                         timestamp: 0 .. MaxPacket, payload: Packet \union {NULL}]]
  /\ ab_read \in SeqNo /\ ab_write \in SeqNo
  /\ ab_synced \in BOOLEAN /\ ab_buffering \in BOOLEAN
  /\ first_packet_timestamp \in 0 .. MaxPacket
  /\ cursor \in SeqNo \union {NULL}
  /\ flush \in [requested: BOOLEAN, timestamp: 0 .. MaxPacket, flushed: BOOLEAN]
  /\ counted \in BOOLEAN /\ output \in BOOLEAN /\ resync \in BOOLEAN
  /\ inUse \in Slots \union {NULL}
  /\ now \in 0 .. MaxTime
  /\ top \in Packet \union {NULL}
  /\ readN \in 0 .. MaxPacket

EmptySlot == [ready |-> FALSE, sequence_number |-> 0, timestamp |-> 0, payload |-> NULL]
NoRequest == [requested |-> FALSE, timestamp |-> 0, flushed |-> FALSE]

Init ==
  /\ slot = [k \in Slots |-> EmptySlot]
  /\ ab_read = 0 /\ ab_write = 0 /\ readN = 0
  /\ ab_synced = FALSE /\ ab_buffering = TRUE
  /\ first_packet_timestamp = 0
  /\ cursor = NULL
  /\ flush = NoRequest
  /\ counted = FALSE /\ output = TRUE /\ resync = FALSE
  /\ inUse = NULL
  /\ now = 0 /\ top = NULL

(***************************************************************************)
(* Arithmetic on sequence numbers and positions in the buffer              *)
(***************************************************************************)
Seq(n) == (FirstSeq + n) % SeqMod
BUFIDX(s) == s % BufFrames

\* the int16_t difference of two sequence numbers
Minus(s, t) ==
  LET d == (s - t) % SeqMod IN IF 2 * d < SeqMod THEN d ELSE d - SeqMod

\* A definition whose name starts with Bug is a plausible slip in the one that
\* follows it; it is used only to see that the properties notice.

Fill == (ab_write - ab_read) % SeqMod
BugPlus(s, i) == s + i
Plus(s, i) == (s + i) % SeqMod
At(i) == slot[BUFIDX(ab_read + i)]

(***************************************************************************)
(* player_put_packet                                                       *)
(***************************************************************************)

BugNextCursor(read, write, missing) == write
NextCursor(read, write, missing) ==
  IF missing = {} THEN write ELSE Plus(read, Min(missing))

\* The resend check: the scan for missing packets starts where the last one
\* found the first of them, if that is still in the buffer, else at ab_read,
\* and leaves first_possibly_missing_frame where the next is to start.
ResendCheck(slots, read, write) ==
  LET size == Minus(write, read)
      start == IF cursor /= NULL /\ Minus(cursor, read) \in 0 .. size - 1
               THEN Minus(cursor, read)
               ELSE 0
      missing == {i \in start .. ((write - read) % SeqMod) - 1 :
                    ~slots[BUFIDX(read + i)].ready}
  IN  cursor' = NextCursor(read, write, missing)

BugMissing(s) == [s EXCEPT !.timestamp = 0, !.sequence_number = 0]
Missing(s) == [s EXCEPT !.ready = FALSE, !.timestamp = 0, !.sequence_number = 0]

BugOffByOneTooLate(s, read) == Minus(s, read) < -1
TooLate(s, read) == Minus(s, read) < 0

\* Packet n comes, for the first time or not: it is what is expected next, or
\* it leaves a gap of slots that are marked missing, or it is late but not too
\* late, or it is ignored.
Accept(n) ==
  LET read == IF ab_synced THEN ab_read ELSE Seq(n)
      write == IF ab_synced THEN ab_write ELSE Seq(n)
      gap == Minus(Seq(n), write)
      skipped == {BUFIDX(write + i) : i \in 0 .. gap - 1}
      packet == [ready |-> TRUE, sequence_number |-> Seq(n), timestamp |-> n + 1,
                 payload |-> n]
      stored == gap >= 0 \/ ~TooLate(Seq(n), read)
  IN  /\ slot' = [k \in Slots |->
                    CASE stored /\ k = BUFIDX(Seq(n)) -> packet
                      [] k \in skipped \ {BUFIDX(Seq(n))} -> Missing(slot[k])
                      [] OTHER -> slot[k]]
      /\ ab_read' = read
      /\ ab_write' = IF gap >= 0 THEN Plus(Seq(n), 1) ELSE write
      /\ ab_synced' = TRUE
      /\ readN' = IF ab_synced THEN readN ELSE n
      /\ first_packet_timestamp' = IF ab_synced THEN first_packet_timestamp ELSE 0
      /\ ResendCheck(slot', read, ab_write')

\* What the network may bring: nothing that is too old or too far ahead.
MayCome(n) ==
  /\ top - MaxLate <= n /\ n <= top + 1 + MaxGap
  /\ ab_synced => n < readN + MaxWindow

player_put_packet(n) ==
  /\ MayCome(n)
  /\ flush' = IF counted THEN flush ELSE [flush EXCEPT !.requested = FALSE, !.timestamp = 0]
  /\ counted' = TRUE
  /\ IF output
     THEN Accept(n)
     ELSE UNCHANGED <<slot, ab_read, ab_write, ab_synced, readN, first_packet_timestamp, cursor>>
  /\ top' = IF n > top THEN n ELSE top
  /\ UNCHANGED <<ab_buffering, output, inUse, resync, now>>

(***************************************************************************)
(* do_flush, called by player_flush                                        *)
(***************************************************************************)
do_flush(timestamp) ==
  /\ flush' = [flush EXCEPT !.requested = TRUE, !.timestamp = timestamp]
  /\ UNCHANGED <<bufferVars, first_packet_timestamp, cursor, counted, output, inUse,
                 resync, now, top>>

(***************************************************************************)
(* buffer_get_frame                                                        *)
(***************************************************************************)

\* The start of a pass: the output has been switched off, or the back end is not
\* running, and whatever there is must go; or the output has been switched on.
OutputOff ==
  /\ inUse = NULL
  /\ output' \in {output, FALSE}
  /\ flush' = [flush EXCEPT !.requested = TRUE, !.timestamp = 0]
  /\ UNCHANGED <<bufferVars, first_packet_timestamp, cursor, counted, inUse, resync,
                 now, top>>

OutputOn ==
  /\ inUse = NULL /\ ~output
  /\ output' = TRUE
  /\ UNCHANGED <<bufferVars, first_packet_timestamp, cursor, flush, counted, inUse,
                 resync, now, top>>

\* `conn->ab_synced && (conn->ab_write - conn->ab_read) > 0': the operands are
\* promoted to int, so this is false when only ab_write has wrapped.
NotEmptyAsInt == ab_synced /\ ab_write > ab_read

LastFrame(s) == s.timestamp + PacketLength - 1

BugEndsBeforeFlush(s) == s.timestamp /= 0 /\ flush.timestamp < LastFrame(s)

\* (int32_t)(flush_rtp_timestamp - last frame of the packet) > 0
EndsBeforeFlush(s) ==
  IF s.timestamp = 0 THEN ~HighTimestamps ELSE LastFrame(s) < flush.timestamp

Decidable == NotEmptyAsInt /\ At(0).ready /\ At(Fill - 1).ready
FlushAll == flush.timestamp = 0
FlushExpired == Decidable /\ flush.timestamp <= At(0).timestamp
FlushInside ==
  Decidable /\ ~FlushExpired /\ flush.timestamp <= LastFrame(At(Fill - 1))
FlushBeyond ==
  Decidable /\ ~FlushExpired /\ flush.timestamp > LastFrame(At(Fill - 1))

FlushNeeded == flush.requested /\ (FlushAll \/ FlushBeyond)
DropRequest ==
  flush.requested /\ \/ FlushAll \/ FlushExpired \/ FlushInside
                     \/ FlushBeyond /\ flush.timestamp = LastFrame(At(Fill - 1)) + 1

\* What becomes of the request.
AnswerRequest ==
  flush' = IF DropRequest THEN NoRequest
           ELSE IF flush.requested
           THEN [flush EXCEPT !.requested = FlushAll \/ NotEmptyAsInt, !.flushed = TRUE]
           ELSE flush

\* A flush of the whole buffer is a resynchronisation, which a wait follows.
ab_resync ==
  /\ slot' = [k \in Slots |-> [slot[k] EXCEPT !.ready = FALSE, !.sequence_number = 0,
                                              !.payload = NULL]]
  /\ ab_synced' = FALSE
  /\ ab_buffering' = TRUE
  /\ UNCHANGED <<ab_read, ab_write, readN>>

FlushBuffer ==
  /\ inUse = NULL
  /\ FlushNeeded
  /\ AnswerRequest
  /\ ab_resync
  /\ first_packet_timestamp' = 0
  /\ UNCHANGED <<cursor, counted, output, inUse, resync, now, top>>

\* The packets a flush request inside the buffer passes over, from ab_read.
Flushed ==
  IF flush.requested /\ ~FlushAll /\ FlushInside
  THEN Min({i \in 0 .. Fill - 1 : ~EndsBeforeFlush(At(i))})
  ELSE 0

BugMaySkip(s) == s.ready /\ s.timestamp - 1 < now
BugTooEagerSkip(s) == ~s.ready \/ s.timestamp - 1 <= now
MaySkip(s) == ~s.ready \/ s.timestamp - 1 < now

\* Then, unless only ab_write has wrapped, those that are missing or late.
Skipped ==
  IF NotEmptyAsInt
  THEN Min({i \in Flushed .. Fill : i = Fill \/ ~MaySkip(At(i))})
  ELSE 0

\* The slots with their payloads freed on the way.
SlotsAfterSkip ==
  LET late == {BUFIDX(ab_read + i) : i \in Flushed .. Skipped - 1} IN
  [k \in Slots |-> IF k \in late /\ slot[k].ready THEN [slot[k] EXCEPT !.payload = NULL]
                   ELSE slot[k]]

\* Where the next frame is: there may be packets from another turn of the ring.
Aliased(s) ==
  /\ SlotsAfterSkip[BUFIDX(s)].ready
  /\ SlotsAfterSkip[BUFIDX(s)].sequence_number /= s
  /\ BUFIDX(SlotsAfterSkip[BUFIDX(s)].sequence_number) = BUFIDX(s)

\* A pass with a frame to look at, curframe, which is released or waited for.
\* A frame that is not ready is released at once, as silence; the first one
\* when buffering ends and its time comes; others no later than their time, but
\* earlier if the output device needs them.
LookAtFrame ==
  LET s == Plus(ab_read, Skipped)
      cur == SlotsAfterSkip[BUFIDX(s)]
      n == cur.timestamp - 1
      read == IF Aliased(s) THEN cur.sequence_number ELSE s
      buffering == ab_buffering \/ resync
      first == IF resync THEN 0 ELSE first_packet_timestamp
  IN  /\ inUse = NULL /\ ~FlushNeeded
      /\ ab_synced /\ Skipped < Fill
      /\ AnswerRequest
      /\ first_packet_timestamp' =
           IF cur.ready /\ buffering /\ first = 0 THEN cur.timestamp ELSE first
      /\ ab_buffering' \in
           IF cur.ready /\ buffering /\ now >= first_packet_timestamp' - 1 THEN {FALSE}
           ELSE IF cur.ready /\ buffering THEN BOOLEAN
           ELSE {buffering}
      /\ \E do_wait \in BOOLEAN :
           /\ do_wait => cur.ready /\ now < n
           /\ cur.ready /\ first_packet_timestamp' = cur.timestamp =>
                do_wait = (now + DacLead < n)
           /\ IF ab_buffering' \/ do_wait
              THEN /\ ab_read' = read
                   /\ readN' = IF Aliased(s) THEN n ELSE readN + Skipped
                   /\ slot' = SlotsAfterSkip
                   /\ UNCHANGED <<inUse, resync>>
              ELSE /\ ab_read' = Plus(read, 1)
                   /\ readN' = 1 + IF Aliased(s) THEN n ELSE readN + Skipped
                   /\ slot' = [SlotsAfterSkip EXCEPT ![BUFIDX(s)] =
                                 [@ EXCEPT !.ready = FALSE,
                                           !.timestamp =
                                             IF cur.ready THEN cur.timestamp ELSE 0]]
                   /\ inUse' = BUFIDX(s)
                   /\ resync' = FALSE
      /\ UNCHANGED <<ab_write, ab_synced, cursor, counted, output, now, top>>

\* A pass that finds nothing, or nothing any more, in the buffer.
LookAtNothing ==
  /\ inUse = NULL /\ ~FlushNeeded
  /\ ~ab_synced \/ Skipped = Fill
  /\ AnswerRequest
  /\ ab_read' = Plus(ab_read, Skipped)
  /\ readN' = readN + Skipped
  /\ slot' = SlotsAfterSkip
  /\ UNCHANGED <<ab_write, ab_synced, ab_buffering, first_packet_timestamp, cursor,
                 counted, output, inUse, resync, now, top>>

buffer_get_frame == FlushBuffer \/ LookAtFrame \/ LookAtNothing

(***************************************************************************)
(* The rest of the player thread, and the passing of time                  *)
(***************************************************************************)

\* The player thread has played the frame and lets its payload go; it may have
\* found that it is out of synchronisation.
PlayFrame ==
  /\ inUse /= NULL
  /\ slot' = [slot EXCEPT ![inUse] =
                IF @.payload = NULL THEN @
                ELSE [@ EXCEPT !.timestamp = 0, !.sequence_number = 0, !.payload = NULL]]
  /\ inUse' = NULL
  /\ resync' \in {FALSE, slot[inUse].timestamp /= 0}
  /\ UNCHANGED <<ab_read, ab_write, ab_synced, ab_buffering, readN, first_packet_timestamp,
                 cursor, flush, counted, output, now, top>>

Tick ==
  /\ now < MaxTime
  /\ now' = now + 1
  /\ UNCHANGED <<bufferVars, first_packet_timestamp, cursor, flush, counted, output,
                 inUse, resync, top>>

Next ==
  \/ \E n \in Packet : player_put_packet(n)
  \/ \E timestamp \in 0 .. MaxPacket : do_flush(timestamp)
  \/ OutputOff \/ OutputOn
  \/ buffer_get_frame \/ PlayFrame \/ Tick

Spec == Init /\ [][Next]_vars

\* The player thread wakes up at least once in the time of four packets, and
\* plays what it has taken; time passes.
FairSpec == Spec /\ WF_vars(buffer_get_frame) /\ WF_vars(PlayFrame) /\ WF_vars(Tick)

(***************************************************************************)
(* Properties                                                              *)
(***************************************************************************)

\* The buffer holds a window of consecutive packets, no wider than the ring,
\* and a slot in it that is ready holds the packet that belongs there: nothing
\* from an earlier turn of the ring or from before a flush.
WindowHoldsItsPackets ==
  ab_synced =>
    /\ ab_read = Seq(readN)
    /\ Fill <= BufFrames
    /\ \A i \in 0 .. Fill - 1 :
         At(i).ready => /\ At(i).payload = readN + i
                        /\ At(i).timestamp = readN + i + 1
                        /\ At(i).sequence_number = Plus(ab_read, i)

\* While the player thread plays a frame, without the lock, nobody frees or
\* replaces its payload.
FrameInUseKept ==
  [][inUse /= NULL => slot'[inUse] = slot[inUse] \/ inUse' = NULL]_vars

\* After a resend check no missing packet lies between ab_read and the place
\* where the next check is going to start: each will be looked at again.
CursorCoversMissing ==
  ab_synced /\ cursor /= NULL /\ Minus(cursor, ab_read) \in 0 .. Fill =>
    \A i \in 0 .. Minus(cursor, ab_read) - 1 : At(i).ready

\* The ring holds what it says, and the resend check leaves nothing behind.
BufferKept == WindowHoldsItsPackets /\ CursorCoversMissing

\* The buffer as a queue: the window is the queue, the frame in use, unless it
\* stands for silence, is the packet being played.
Held == IF ab_synced THEN {readN + i : i \in {j \in 0 .. Fill - 1 : At(j).ready}} ELSE {}
Playing ==
  IF inUse = NULL THEN NULL
  ELSE IF slot[inUse].timestamp = 0 THEN NULL ELSE slot[inUse].payload

Queue == INSTANCE PlayoutQueue WITH
  Nothing <- NULL, started <- ab_synced, head <- IF ab_synced THEN readN ELSE 0,
  held <- Held, playing <- Playing, deadline <- now,
  flushing <- IF ~flush.requested THEN 0
              ELSE IF FlushAll THEN MaxPacket ELSE flush.timestamp - 1

\* The ring implements the queue.
ImplementsQueue == Queue!Spec

\* A request for a frame in the buffer, which the first and the last packet
\* show it to be, leaves nothing in the buffer that comes before it, except
\* while only ab_write has wrapped.  Where timestamp 0 comes after those of the
\* stream this takes all packets before it: the scan ends at a missing one.
FlushDropsEarlier ==
  [][buffer_get_frame /\ flush.requested /\ ~FlushAll /\ ab_read < ab_write =>
       LET end == readN + Fill - 1
           before == readN .. flush.timestamp - 2
       IN  /\ {readN, end} \subseteq Held
           /\ flush.timestamp - 1 \in readN .. end
           /\ HighTimestamps => before \subseteq Held
           => before \intersect Held' = {}]_vars

\* What no step may do: replace a payload that is being played, or leave behind what
\* a flush is for.
StepsRight == FrameInUseKept /\ FlushDropsEarlier

\* do_flush: "flush all packets up to, but not including, this one".
FlushSparesItsPacket ==
  [][buffer_get_frame /\ flush.requested /\ flush.timestamp - 1 \in Held =>
       \/ flush.timestamp - 1 \in Held' \/ Playing' = flush.timestamp - 1
       \/ flush.timestamp - 1 < now]_vars
=============================================================================
