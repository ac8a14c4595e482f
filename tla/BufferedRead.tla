---------------------------- MODULE BufferedRead ----------------------------
(***************************************************************************)
(* The buffer of an AirPlay 2 buffered audio stream                        *)
(* (utilities/buffered_read.c).  buffered_tcp_reader fills a ring of bytes *)
(* from a TCP socket; rtp_buffered_audio_processor takes blocks out of it  *)
(* with read_sized_block, which calls buffered_read until it has them.  A  *)
(* mutex guards the occupancy and the flags, two condition variables tell  *)
(* of space and of data; the reader computes how much to ask for, and      *)
(* receives into the ring, without the mutex.                              *)
(*                                                                         *)
(* The bytes of the stream are numbered 1, 2, ...; each action is a        *)
(* critical section, or a step between two.  A thread in pthread_cond_wait *)
(* is asleep until the other one signals.                                  *)
(*                                                                         *)
(* A definition whose name begins with Bug is the one after it with a      *)
(* mistake in it; it is not part of the specification.                     *)
(***************************************************************************)
EXTENDS Integers, Sequences

CONSTANTS
  Max,        \* buffer_max_size
  Packet,     \* STANDARD_PACKET_SIZE
  Counts,     \* the sizes of the blocks asked for
  MaxBytes    \* how many bytes the client sends at most

ASSUME SizesAssumption ==
  /\ Max \in Nat \ {0} /\ Packet \in Nat \ {0} /\ MaxBytes \in Nat
  /\ Counts \subseteq Nat \ {0}

VARIABLES
  buffer,     \* the ring
  toq,        \* where buffered_read takes the next byte from
  eoq,        \* where the reader puts the next byte; may be one past the end
  occupancy,  \* buffer_occupancy
  closed,     \* the flag of that name
  error,      \* error_code: none, one to be retried (EAGAIN, EINTR), another
  reader,     \* where buffered_tcp_reader is
  request,    \* its bytes_to_request
  nread,      \* what recv returned to it
  errno,      \* and the error, if any
  cancelled,  \* whether it has been cancelled
  socket,     \* the client's end: not connected, open or closed
  received,   \* how many bytes recv has put in the ring so far
  consumer,   \* where rtp_buffered_audio_processor is
  wanted,     \* how many bytes its block still lacks
  block,      \* the bytes it has
  taken       \* how many bytes buffered_read has taken out so far

ringVars == <<buffer, toq, eoq, occupancy, received, taken>>
flagVars == <<closed, error>>
readerVars == <<reader, request, nread, errno, cancelled, socket>>
consumerVars == <<consumer, wanted, block>>
vars == <<ringVars, flagVars, readerVars, consumerVars>>

Least(m, n) == IF m <= n THEN m ELSE n

TypeOK ==
  /\ buffer \in [0 .. Max - 1 -> 0 .. MaxBytes]
  /\ toq \in 0 .. Max - 1
  /\ eoq \in 0 .. Max
  /\ occupancy \in 0 .. Max
  /\ closed \in BOOLEAN
  /\ error \in {"none", "retry", "fatal"}
  /\ reader \in {"accept", "check", "asleep", "request", "recv", "record", "gone"}
  /\ request \in 0 .. Packet
  /\ nread \in -1 .. Packet
  /\ errno \in {"none", "retry", "fatal"}
  /\ cancelled \in BOOLEAN
  /\ socket \in {"unconnected", "open", "closed"}
  /\ received \in 0 .. MaxBytes
  /\ consumer \in {"idle", "read", "asleep", "woken", "ending", "joining", "over"}
  /\ wanted \in Nat
  /\ block \in Seq(0 .. MaxBytes)
  /\ taken \in 0 .. MaxBytes

Init ==
  /\ buffer = [k \in 0 .. Max - 1 |-> 0]
  /\ toq = 0 /\ eoq = 0 /\ occupancy = 0
  /\ closed = FALSE /\ error = "none"
  /\ reader = "accept" /\ request = 0 /\ nread = 0 /\ errno = "none"
  /\ cancelled = FALSE
  /\ socket = "unconnected" /\ received = 0
  /\ consumer = "idle" /\ wanted = 0 /\ block = <<>> /\ taken = 0

\* pthread_cond_signal(&not_full_cv), pthread_cond_signal(&not_empty_cv)
SignalNotFull == reader' = IF reader = "asleep" THEN "check" ELSE reader
SignalNotEmpty == consumer' = IF consumer = "asleep" THEN "woken" ELSE consumer

(***************************************************************************)
(* The client                                                              *)
(***************************************************************************)

Connect ==
  /\ socket = "unconnected"
  /\ socket' = "open"
  /\ UNCHANGED <<ringVars, flagVars, reader, request, nread, errno, cancelled, consumerVars>>

Close ==
  /\ socket = "open"
  /\ socket' = "closed"
  /\ UNCHANGED <<ringVars, flagVars, reader, request, nread, errno, cancelled, consumerVars>>

(***************************************************************************)
(* buffered_tcp_reader                                                     *)
(***************************************************************************)

AcceptClient ==
  /\ reader = "accept" /\ ~cancelled
  /\ socket /= "unconnected"
  /\ reader' = "check"
  /\ UNCHANGED <<ringVars, flagVars, request, nread, errno, cancelled, socket, consumerVars>>

\* Under the mutex: wait for space, on not_full_cv.
WaitNotFull ==
  /\ reader = "check"
  /\ reader' = IF occupancy = Max THEN "asleep" ELSE "request"
  /\ UNCHANGED <<ringVars, flagVars, request, nread, errno, cancelled, socket, consumerVars>>

\* Without the mutex: wrap eoq, and ask for a packet, or as much of it as there
\* is space for, or as reaches to the end of the ring.
Wrapped == IF eoq = Max THEN 0 ELSE eoq

BugFreeSpace == Max             \* the ring taken to be empty
FreeSpace == Max - occupancy

ComputeRequest ==
  /\ reader = "request"
  /\ eoq' = Wrapped
  /\ request' = Least(Packet, Least(FreeSpace, Max - eoq'))
  /\ reader' = "recv"
  /\ UNCHANGED <<buffer, toq, occupancy, received, taken, flagVars, nread, errno,
                 cancelled, socket, consumerVars>>

\* recv has got n bytes, which are in the ring from now on.
ReceiveData(n) ==
  /\ reader = "recv" /\ ~cancelled
  /\ socket = "open"
  /\ n <= request /\ received + n <= MaxBytes
  /\ buffer' = [k \in DOMAIN buffer |->
                  IF k \in eoq .. eoq + n - 1 THEN received + (k - eoq) + 1 ELSE buffer[k]]
  /\ received' = received + n
  /\ nread' = n
  /\ reader' = "record"
  /\ UNCHANGED <<toq, eoq, occupancy, taken, flagVars, request, errno, cancelled, socket,
                 consumerVars>>

\* recv fails; a connection that was reset is closed from then on.
ReceiveError(e) ==
  /\ reader = "recv" /\ ~cancelled
  /\ socket = "open"
  /\ nread' = -1
  /\ errno' = e
  /\ socket' = IF e = "fatal" THEN "closed" ELSE socket
  /\ reader' = "record"
  /\ UNCHANGED <<ringVars, flagVars, request, cancelled, consumerVars>>

\* recv returns 0: the client has closed the connection.
ReceiveClosed ==
  /\ reader = "recv" /\ ~cancelled
  /\ socket = "closed"
  /\ nread' = 0
  /\ reader' = "record"
  /\ UNCHANGED <<ringVars, flagVars, request, errno, cancelled, socket, consumerVars>>

\* Under the mutex again: note what recv did, and tell the consumer.  Only the
\* end of the connection ends the thread.
Noted ==
  /\ eoq' = IF nread > 0 THEN eoq + nread ELSE eoq
  /\ occupancy' = IF nread > 0 THEN occupancy + nread ELSE occupancy
  /\ closed' = (closed \/ nread = 0)
  /\ error' = IF nread < 0 THEN errno ELSE error

\* signals data only
BugRecord ==
  /\ reader = "record"
  /\ Noted
  /\ IF nread > 0 THEN SignalNotEmpty ELSE UNCHANGED consumer
  /\ reader' = IF nread = 0 THEN "gone" ELSE "check"
  /\ UNCHANGED <<buffer, toq, received, taken, request, nread, errno, cancelled, socket,
                 wanted, block>>

Record ==
  /\ reader = "record"
  /\ Noted
  /\ SignalNotEmpty
  /\ reader' = IF nread = 0 THEN "gone" ELSE "check"
  /\ UNCHANGED <<buffer, toq, received, taken, request, nread, errno, cancelled, socket,
                 wanted, block>>

\* accept, pthread_cond_wait and recv are cancellation points; the cleanup
\* handler of the wait unlocks the mutex, others close the socket.
ReaderCancelled ==
  /\ cancelled
  /\ reader \in {"accept", "asleep", "recv"}
  /\ reader' = "gone"
  /\ UNCHANGED <<ringVars, flagVars, request, nread, errno, cancelled, socket, consumerVars>>

ReaderStep ==
  \/ AcceptClient \/ WaitNotFull \/ ComputeRequest \/ ReceiveClosed \/ Record
  \/ ReaderCancelled

(***************************************************************************)
(* rtp_buffered_audio_processor, read_sized_block, buffered_read           *)
(***************************************************************************)

\* The processor calls read_sized_block for a length, or for a packet.
ReadSizedBlock(count) ==
  /\ consumer = "idle"
  /\ consumer' = "read"
  /\ wanted' = count
  /\ block' = <<>>
  /\ UNCHANGED <<ringVars, flagVars, readerVars>>

\* As many bytes as are wanted, there, and before the end of the ring.
BugMovable == Least(wanted, Max - toq)
Movable == Least(wanted, Least(occupancy, Max - toq))

BugAdvanced(n) == toq + n
Advanced(n) == IF toq + n = Max THEN 0 ELSE toq + n

Move ==
  LET n == Movable IN
  /\ block' = block \o [i \in 1 .. n |-> buffer[toq + i - 1]]
  /\ toq' = Advanced(n)
  /\ occupancy' = occupancy - n
  /\ taken' = taken + n
  /\ wanted' = wanted - n
  /\ consumer' = IF wanted' = 0 THEN "idle" ELSE "read"
  /\ SignalNotFull
  /\ UNCHANGED <<buffer, eoq, received, request, nread, errno, cancelled, socket>>

\* buffered_read: whatever the flags were, they are cleared; and if there is
\* nothing in the ring, the thread waits on not_empty_cv.
EnterBufferedRead ==
  /\ consumer = "read"
  /\ closed' = FALSE
  /\ error' = "none"
  /\ IF occupancy = 0
     THEN /\ consumer' = "asleep"
          /\ UNCHANGED <<ringVars, readerVars, wanted, block>>
     ELSE Move

\* It was signalled, so one of them is there: an error comes first, then the end,
\* then data.  read_sized_block tries again after EAGAIN or EINTR; the processor
\* ends on any other failure.
LeaveBufferedRead ==
  /\ consumer = "woken"
  /\ IF error /= "none" \/ closed
     THEN /\ consumer' = IF error = "retry" THEN "read" ELSE "ending"
          /\ UNCHANGED <<ringVars, readerVars, wanted, block>>
     ELSE Move
  /\ UNCHANGED flagVars

\* The processor is cancelled when the player stops: it acts on that when it
\* waits for data, or sleeps between blocks.
CancelConsumer ==
  /\ consumer \in {"idle", "asleep"}
  /\ consumer' = "ending"
  /\ UNCHANGED <<ringVars, flagVars, readerVars, wanted, block>>

\* thread_cleanup, the cleanup handler pushed last, cancels the reader and
\* joins it before the ring, the mutex and the condition variables go.
BugCancelReader ==
  /\ consumer = "ending"
  /\ consumer' = "joining"
  /\ UNCHANGED <<ringVars, flagVars, readerVars, wanted, block>>

CancelReader ==
  /\ consumer = "ending"
  /\ cancelled' = TRUE
  /\ consumer' = "joining"
  /\ UNCHANGED <<ringVars, flagVars, reader, request, nread, errno, socket, wanted, block>>

JoinReader ==
  /\ consumer = "joining"
  /\ reader = "gone"
  /\ consumer' = "over"
  /\ UNCHANGED <<ringVars, flagVars, readerVars, wanted, block>>

ConsumerStep == EnterBufferedRead \/ LeaveBufferedRead \/ CancelReader \/ JoinReader

Next ==
  \/ Connect \/ Close
  \/ ReaderStep
  \/ \E n \in 1 .. Packet : ReceiveData(n)
  \/ \E e \in {"retry", "fatal"} : ReceiveError(e)
  \/ \E count \in Counts : ReadSizedBlock(count)
  \/ ConsumerStep \/ CancelConsumer

Spec == Init /\ [][Next]_vars

\* Both threads are scheduled, and recv returns once the connection is closed.
\* The client need not send, nor the processor ask for another block.
FairSpec == Spec /\ WF_vars(ReaderStep) /\ WF_vars(ConsumerStep)

(***************************************************************************)
(* Properties                                                              *)
(***************************************************************************)

Slot(i) == IF toq + i < Max THEN toq + i ELSE toq + i - Max

\* What buffered_read will copy out next is the rest of the stream, in order and
\* without a gap, through any number of wraps of toq and eoq; and what it has
\* copied into the block is contiguous too.
RingInOrder == \A i \in 0 .. occupancy - 1 : buffer[Slot(i)] = taken + i + 1
BlockInOrder == \A i \in 1 .. Len(block) : block[i] = taken - Len(block) + i
RingHoldsStream == RingInOrder /\ BlockInOrder

\* recv is told of a region that the mutex no longer guards: it lies within the
\* ring, holds at least one byte, for a request of none would look like the end
\* of the connection, and has no byte in it that is still to be taken.
RecvFits ==
  reader = "recv" =>
    /\ request > 0
    /\ eoq + request <= Max
    /\ \A i \in 0 .. occupancy - 1 : Slot(i) \notin eoq .. eoq + request - 1

\* No wakeup is lost: a thread sleeps only while what it waits for has not come.
NoLostWakeup ==
  /\ reader = "asleep" => occupancy = Max
  /\ consumer = "asleep" => occupancy = 0 /\ ~closed /\ error = "none"

\* The ring between its two threads: what is in it, what recv may write while the
\* mutex is free, and who sleeps.
ReaderSafe == RingHoldsStream /\ RecvFits /\ NoLostWakeup

\* Whatever the reader is waiting for, ending the processor ends it too.
TeardownCompletes == consumer = "ending" ~> consumer = "over"

\* read_sized_block comes back with the block or with an error: it does not
\* wait for the data of a connection that has been closed.
ReadReturns ==
  socket = "closed" /\ consumer = "asleep" ~> consumer /= "asleep"
=============================================================================
