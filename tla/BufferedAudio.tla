---------------------------- MODULE BufferedAudio ----------------------------
(***************************************************************************)
(* The buffered audio processor of a connection                            *)
(* (ap2_buffered_audio_processor.c) and the requests that steer it         *)
(* (handle_flushbuffered and handle_setrateanchori of rtsp.c).             *)
(*                                                                         *)
(* The source sends blocks numbered modulo 2^23, far ahead of their time.  *)
(* The processor reads one block at a time, drops it if a flush request    *)
(* covers it, keeps it while it is too early, and passes it to the player  *)
(* when play is enabled.  Meanwhile the RTSP thread files flush requests   *)
(* and switches play on and off.                                           *)
(*                                                                         *)
(* Blocks are represented by their place in the stream, 0, 1, ...; block n *)
(* has sequence number SeqOf(n).  flush_mutex protects the requests; what  *)
(* is done with it held is one step.  The processor reads ap2_play_enabled *)
(* without it, three times in each pass.                                   *)
(***************************************************************************)
EXTENDS Integers, Sequences

CONSTANTS
  SeqMod,       \* 2^23
  PlayerMod,    \* 2^16, the sequence numbers of the player's buffer
  MaxDeferred,  \* MAX_DEFERRED_FLUSH_REQUESTS
  FirstSeq,     \* the sequence number of block 0
  MaxBlock,     \* bound: blocks of the stream
  MaxQueue,     \* bound: blocks the player holds, i.e. how early one may be
  CalmSources,  \* subset of BOOLEAN: see calm
  Watched       \* the kinds of deferred request the history keeps: see Undecided

ASSUME BufferedAssumption ==
  /\ SeqMod \in Nat \ {0} /\ PlayerMod \in Nat \ {0} /\ SeqMod % PlayerMod = 0
  /\ MaxDeferred \in Nat \ {0}
  /\ FirstSeq \in 0 .. SeqMod - 1
  /\ MaxBlock \in Nat /\ 2 * MaxBlock < SeqMod
  /\ MaxQueue \in Nat
  /\ CalmSources \subseteq BOOLEAN
  /\ Watched \subseteq {"early", "ahead", "held"}

Blocks == 0 .. MaxBlock - 1
Bounds == 0 .. MaxBlock
Slots == 1 .. MaxDeferred
NULL == -1

VARIABLES
  proc,          \* where the processor is in its loop
  block,         \* the last block read, or NULL
  needed,        \* new_audio_block_needed
  play_enabled,  \* the processor's copy of ap2_play_enabled
  beginning,     \* blocks_read_since_play_began = 0
  played,        \* packets_played_in_this_sequence > 0
  playerSeq,     \* sequence_number_for_player
  ap2_play_enabled,
  immediate,     \* ap2_immediate_flush_requested, ..._until_sequence_number
  deferred,      \* ap2_deferred_flush_requests
  anchored,      \* there is an anchor for the clock
  rate,          \* where the RTSP thread is in handle_setrateanchori
  queue,         \* the player's buffer, as block numbers
  write,         \* its ab_write, or NULL when it is not synchronised
  calm,          \* the source waits for each change of play to be noticed
  flushedTo,     \* the furthest point an immediate flush got to (history)
  promised       \* the ranges of deferred flushes still to be met (history)

rtspVars == <<ap2_play_enabled, immediate, deferred, anchored, rate, promised>>
playerVars == <<queue, write>>
vars == <<proc, block, needed, play_enabled, beginning, played, playerSeq, rtspVars,
          playerVars, calm, flushedTo>>

\* Nothing reads the numbers of a request that is over: they are taken to be 0.
Free == [inUse |-> FALSE, active |-> FALSE, from |-> 0, until |-> 0]
NoFlush == [requested |-> FALSE, until |-> 0]

TypeOK ==
  /\ proc \in {"start", "began", "stopped", "copy", "read", "check", "play", "ended"}
  /\ block \in Blocks \union {NULL}
  /\ {needed, play_enabled, beginning, played} \subseteq BOOLEAN
  /\ playerSeq \in 0 .. PlayerMod - 1
  /\ {ap2_play_enabled, anchored, calm} \subseteq BOOLEAN
  /\ immediate \in [requested: BOOLEAN, until: 0 .. SeqMod - 1]
  /\ deferred \in [Slots -> [inUse: BOOLEAN, active: BOOLEAN,
                             from: 0 .. SeqMod - 1, until: 0 .. SeqMod - 1]]
  /\ rate \in {"idle", "anchored"}
  /\ queue \in Seq(Blocks) /\ Len(queue) <= MaxQueue
  /\ write \in 0 .. PlayerMod - 1 \union {NULL}
  /\ flushedTo \in Bounds
  /\ promised \subseteq [from: Bounds, until: Bounds]

Init ==
  /\ proc = "start" /\ block = NULL /\ needed = FALSE
  /\ play_enabled = FALSE /\ beginning = TRUE /\ played = FALSE
  /\ playerSeq = 0
  /\ ap2_play_enabled = FALSE /\ anchored = FALSE /\ rate = "idle"
  /\ immediate = NoFlush
  /\ deferred = [f \in Slots |-> Free]
  /\ queue = <<>> /\ write = NULL
  /\ calm \in CalmSources
  /\ flushedTo = 0 /\ promised = {}

\* (A definition whose name starts with Bug is a plausible slip in the one that
\* follows it; it is used only to see that the properties notice.)

(***************************************************************************)
(* Sequence numbers                                                        *)
(***************************************************************************)
BugSeqOf(n) == FirstSeq + n
SeqOf(n) == (FirstSeq + n) % SeqMod

\* seq_no is 0 until a block has been read.
seq_no == IF block = NULL THEN 0 ELSE SeqOf(block)

BugMinus(a, b) == a - b
\* a_minus_b_mod23: the difference as a signed number of 23 bits.
Minus(a, b) ==
  LET d == (a - b) % SeqMod IN IF 2 * d < SeqMod THEN d ELSE d - SeqMod

(***************************************************************************)
(* The processor                                                           *)
(***************************************************************************)

BugResetBuffer == queue' = <<>> /\ UNCHANGED write
\* reset_buffer: the player's buffer is emptied and loses its place.
ResetBuffer == queue' = <<>> /\ write' = NULL

\* It waits for timing information, and clears what may be left in the player.
AwaitTiming ==
  /\ proc = "start" /\ anchored
  /\ proc' = "began"
  /\ ResetBuffer
  /\ UNCHANGED <<block, needed, play_enabled, beginning, played, playerSeq, rtspVars,
                 calm, flushedTo>>

\* The first look at the flag: has play begun?
SeePlayBegin ==
  /\ proc = "began"
  /\ proc' = "stopped"
  /\ IF ~play_enabled /\ ap2_play_enabled
     THEN needed' = TRUE /\ beginning' = TRUE
     ELSE UNCHANGED <<needed, beginning>>
  /\ UNCHANGED <<block, play_enabled, played, playerSeq, rtspVars, playerVars, calm,
                 flushedTo>>

\* The second: has it stopped?
SeePlayStop ==
  /\ proc = "stopped"
  /\ proc' = "copy"
  /\ IF play_enabled /\ ~ap2_play_enabled
     THEN played' = FALSE /\ ResetBuffer
     ELSE UNCHANGED <<played, playerVars>>
  /\ UNCHANGED <<block, needed, play_enabled, beginning, playerSeq, rtspVars, calm,
                 flushedTo>>

\* The third copies it.
CopyPlayFlag ==
  /\ proc = "copy"
  /\ play_enabled' = ap2_play_enabled
  /\ proc' = IF needed THEN "read" ELSE "check"
  /\ UNCHANGED <<block, needed, beginning, played, playerSeq, rtspVars, playerVars,
                 calm, flushedTo>>

\* The next block comes; a first one since play began starts a new count of the
\* player's sequence numbers.
ReadBlock ==
  /\ proc = "read" /\ block + 1 \in Blocks
  /\ block' = block + 1
  /\ needed' = FALSE
  /\ beginning' = FALSE
  /\ playerSeq' = IF beginning THEN SeqOf(block') % PlayerMod ELSE playerSeq
  /\ proc' = "check"
  /\ UNCHANGED <<play_enabled, played, rtspVars, playerVars, calm, flushedTo>>

\* The source has closed the connection, or it has failed.
ReadNothing ==
  /\ proc = "read"
  /\ proc' = "ended"
  /\ UNCHANGED <<block, needed, play_enabled, beginning, played, playerSeq, rtspVars,
                 playerVars, calm, flushedTo>>

Reached(until) == Minus(seq_no, until) >= 0

Completed == immediate.requested /\ block /= NULL /\ Reached(immediate.until)
BugFlushing == FALSE
Flushing == immediate.requested /\ block /= NULL /\ ~Reached(immediate.until)

\* The block the immediate flush goes up to, which it does not drop.
EndOfFlush == block - Minus(seq_no, immediate.until)

\* A completed immediate flush turns all deferred requests off.
Remaining == IF Completed THEN [f \in Slots |-> Free] ELSE deferred

Activated(r) == r.active \/ (r.from = seq_no /\ r.until /= seq_no)
Passed(r) == seq_no = r.until \/ Minus(seq_no, r.until) > 0

\* A deferred request after a look at the current block: it is active from the
\* block it names on, and over when its end has been reached or passed.
Updated(r) ==
  IF ~r.inUse THEN r
  ELSE IF Passed(r) THEN Free
  ELSE [r EXCEPT !.active = Activated(r)]

\* A request drops the block if it begins with it, or is active and not over.
Drops(r) ==
  r.inUse /\ \/ r.from = seq_no /\ r.until /= seq_no
             \/ r.active /\ ~Passed(r)

\* Under flush_mutex: the immediate request, then the deferred ones.
CheckFlushes ==
  /\ proc = "check"
  /\ immediate' = IF Completed THEN NoFlush ELSE immediate
  /\ deferred' = [f \in Slots |-> Updated(Remaining[f])]
  /\ needed' = (needed \/ Flushing \/ \E f \in Slots : Drops(Remaining[f]))
  /\ proc' = IF needed' THEN "began" ELSE "play"
  /\ flushedTo' = IF Completed /\ calm /\ EndOfFlush > flushedTo THEN EndOfFlush ELSE flushedTo
  /\ promised' = IF Completed THEN {} ELSE {r \in promised : r.until > block}
  /\ UNCHANGED <<block, play_enabled, beginning, played, playerSeq,
                 ap2_play_enabled, anchored, rate, playerVars, calm>>

\* player_put_packet, from the processor's side.
PutPacket ==
  /\ Len(queue) < MaxQueue
  /\ queue' = Append(queue, block)
  /\ write' = (playerSeq + 1) % PlayerMod
  /\ playerSeq' = (playerSeq + 1) % PlayerMod
  /\ played' = TRUE

\* The block is kept for another pass: play is off, its time is not known, or
\* it is early.
KeepBlock ==
  /\ proc = "play"
  /\ proc' = "began"
  /\ UNCHANGED <<block, needed, play_enabled, beginning, played, playerSeq, rtspVars,
                 playerVars, calm, flushedTo>>

\* It is passed to the player; or it cannot be used (it is late, it overlaps
\* what was played, its encoding is unknown, it cannot be deciphered), which is
\* always so when no block has been read.
UseBlock ==
  /\ proc = "play" /\ play_enabled /\ anchored
  /\ \/ block /= NULL /\ PutPacket
     \/ UNCHANGED <<playerVars, playerSeq, played>>
  /\ needed' = TRUE
  /\ proc' = "began"
  /\ UNCHANGED <<block, play_enabled, beginning, rtspVars, calm, flushedTo>>

Processor ==
  \/ AwaitTiming \/ SeePlayBegin \/ SeePlayStop \/ CopyPlayFlag
  \/ ReadBlock \/ ReadNothing \/ CheckFlushes \/ KeepBlock \/ UseBlock

(***************************************************************************)
(* The RTSP thread                                                         *)
(***************************************************************************)

\* A calm source changes the flag only when the processor has noticed the last
\* change and is not between its looks at it.
MaySwitch(to) ==
  calm /\ ap2_play_enabled /= to =>
    ap2_play_enabled = play_enabled /\ proc \notin {"stopped", "copy"}

BugStopTrying == UNCHANGED ap2_play_enabled
StopTrying == ap2_play_enabled' = FALSE

\* handle_flushbuffered without flushFromSeq: drop everything before block n,
\* and stop the clock.
FlushImmediate(n) ==
  /\ rate = "idle" /\ MaySwitch(FALSE)
  /\ immediate' = [requested |-> TRUE, until |-> SeqOf(n)]
  /\ StopTrying
  /\ anchored' = FALSE
  /\ UNCHANGED <<proc, block, needed, play_enabled, beginning, played, playerSeq,
                 deferred, rate, playerVars, calm, flushedTo, promised>>

\* In what way, if at all, the processor has still to decide on block n: it has
\* read nothing yet, it is to read block n, or it holds it.
Undecided(n) ==
  {k \in {"early", "ahead", "held"} :
     CASE k = "early" -> block = NULL
       [] k = "ahead" -> block /= NULL /\ block < n
       [] k = "held" -> block = n /\ ~needed /\ proc /= "play"}

FreeSlots == {f \in Slots : ~deferred[f].inUse}

\* handle_flushbuffered with flushFromSeq: when block n comes, drop it and all up
\* to, but not including, block m.  The request is lost when the table is full.
FlushDeferred(n, m) ==
  /\ rate = "idle"
  /\ IF FreeSlots = {}
     THEN UNCHANGED <<deferred, promised>>
     ELSE /\ deferred' = [deferred EXCEPT ![CHOOSE f \in FreeSlots :
                                              \A g \in FreeSlots : f <= g] =
                [inUse |-> TRUE, active |-> FALSE, from |-> SeqOf(n), until |-> SeqOf(m)]]
          /\ promised' = promised \union
                {[from |-> n, until |-> m] : k \in Undecided(n) \intersect Watched}
  /\ UNCHANGED <<proc, block, needed, play_enabled, beginning, played, playerSeq,
                 ap2_play_enabled, immediate, anchored, rate, playerVars, calm, flushedTo>>

\* handle_setrateanchori: the anchor first,
SetAnchor ==
  /\ rate = "idle"
  /\ anchored' = TRUE
  /\ rate' = "anchored"
  /\ UNCHANGED <<proc, block, needed, play_enabled, beginning, played, playerSeq,
                 ap2_play_enabled, immediate, deferred, promised, playerVars, calm, flushedTo>>

\* then play, under flush_mutex,
StartPlay ==
  /\ rate = "anchored" /\ MaySwitch(TRUE)
  /\ ap2_play_enabled' = TRUE
  /\ rate' = "idle"
  /\ UNCHANGED <<proc, block, needed, play_enabled, beginning, played, playerSeq,
                 immediate, deferred, anchored, promised, playerVars, calm, flushedTo>>

\* or a pause.
Pause ==
  /\ MaySwitch(FALSE)
  /\ anchored' = FALSE
  /\ ap2_play_enabled' = FALSE
  /\ rate' = "idle"
  /\ UNCHANGED <<proc, block, needed, play_enabled, beginning, played, playerSeq,
                 immediate, deferred, promised, playerVars, calm, flushedTo>>

(***************************************************************************)
(* The player takes a block                                                *)
(***************************************************************************)
PlayerTakes ==
  /\ queue /= <<>>
  /\ queue' = Tail(queue)
  /\ UNCHANGED <<proc, block, needed, play_enabled, beginning, played, playerSeq,
                 rtspVars, write, calm, flushedTo>>

Next ==
  \/ Processor
  \/ \E n \in 1 .. MaxBlock : FlushImmediate(n)
  \/ \E n, m \in Bounds : n < m /\ FlushDeferred(n, m)
  \/ SetAnchor \/ StartPlay \/ Pause
  \/ PlayerTakes

Spec == Init /\ [][Next]_vars

LoopStep == SeePlayBegin \/ SeePlayStop \/ CopyPlayFlag \/ CheckFlushes \/ KeepBlock

\* The processor is scheduled; the source goes on sending.
FairSpec == Spec /\ WF_vars(LoopStep) /\ WF_vars(ReadBlock)

(***************************************************************************)
(* Properties                                                              *)
(***************************************************************************)

Put == write' /= write /\ queue' /= <<>> /\ Len(queue') = Len(queue) + 1

\* A deferred flush that is filed before its first block has been decided on
\* spares no block of its range, whatever other requests do.
DeferredFlushHonoured ==
  [][Put => \A r \in promised : block \notin r.from .. r.until - 1]_vars

\* Once an immediate flush is complete, nothing from before its end is in the
\* player's buffer or is passed to it, from the moment that the processor has
\* noticed that play is off.
ImmediateFlushClears ==
  calm /\ ~immediate.requested /\ (play_enabled => ap2_play_enabled) =>
    \A i \in 1 .. Len(queue) : queue[i] >= flushedTo

\* Both kinds of flush do what they are for.
FlushesHonoured == []ImmediateFlushClears /\ DeferredFlushHonoured

\* "the sequence_number_for_player numbers will be sequential irrespective of
\* seq_no jumps": what is put is what the player expects next.  It takes a source that
\* waits for each change of play to be noticed: the flag is read three times in a pass.
Sequential == [][Put => write \in {NULL, playerSeq}]_vars
SequentialIfCalm == [][Put /\ calm => write \in {NULL, playerSeq}]_vars

\* An immediate flush comes to an end, though play is off, unless the stream does.
StreamOver == proc = "ended" \/ (proc = "read" /\ block + 1 = MaxBlock)
FlushCompletes ==
  immediate.requested /\ block /= NULL ~> ~immediate.requested \/ StreamOver
=============================================================================
