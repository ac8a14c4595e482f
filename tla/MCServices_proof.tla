---------------------------- MODULE MCServices_proof ----------------------------
(***************************************************************************)
(* Proofs about the components of MCServices, for any of them in whatever  *)
(* size and number its constants say.  Each component has an invariant     *)
(* that its steps keep:                                                    *)
(*   Inv         of the buffered reader: the two threads never disturb     *)
(*               each other's bytes although the reader computes its       *)
(*               request and receives without the mutex;                   *)
(*   EndingInv   of the end of the program: who may still run an exit      *)
(*               function, and what has been stopped before it;            *)
(*   MonitorInv  of the activity monitor: its properties, and that it runs *)
(*               its hook awake;                                           *)
(*   SyncInv     of the player's synchronisation: what the statistics may  *)
(*               be, and that a skip never overshoots;                     *)
(*   QueuesInv   of the metadata queues: what a queue holds of what it     *)
(*               accepted, and who holds a reference to a message.         *)
(* The type correctness of the DACP monitor is its own invariant.  The     *)
(* last part puts them together: a step is one of a single component, and  *)
(* disturbs no other.                                                      *)
(***************************************************************************)
EXTENDS MCServices, SequenceTheorems, FiniteSetTheorems, WellFoundedInduction, TLAPS

(***************************************************************************)
(* The buffered reader: the bytes of the stream, in order                  *)
(***************************************************************************)

\* The reader's position is where the bytes in the ring end.
Positions == Wrapped = Slot(occupancy)

\* What the reader has received and not noted yet.
Pending == IF reader = "record" /\ nread > 0 THEN nread ELSE 0

\* Every byte received has been taken, is in the ring, or is pending.
Accounting == received = taken + occupancy + Pending

\* What the reader worked out before it received holds until it has: the
\* consumer, meanwhile, only makes room.
RequestInv ==
  /\ reader = "request" => occupancy < Max
  /\ reader = "recv" =>
       request > 0 /\ eoq + request <= Max /\ occupancy + request <= Max
  /\ Pending > 0 => eoq + nread <= Max /\ occupancy + nread <= Max

\* The pending bytes are next to those in the ring.
PendingInOrder == \A j \in 0 .. Pending - 1 : buffer[eoq + j] = taken + occupancy + j + 1

\* recv fails for a reason.
Reason == nread < 0 => errno /= "none"

\* A thread that was woken has something to see.
Woken == consumer = "woken" => occupancy > 0 \/ closed \/ error /= "none"

Inv ==
  /\ TypeOK /\ Positions /\ Accounting /\ RequestInv /\ PendingInOrder
  /\ RingInOrder /\ BlockInOrder /\ NoLostWakeup /\ Reason /\ Woken

\* The ring is empty to begin with.
LEMMA InitInv == Init => Inv
<1> SUFFICES ASSUME Init
             PROVE  Inv
  OBVIOUS
<1> USE SizesAssumption DEF Init
<1>1. TypeOK
  <2>1. block \in Seq(0 .. MaxBytes)
    BY EmptySeq
  <2>2. buffer \in [0 .. Max - 1 -> 0 .. MaxBytes]
    OBVIOUS
  <2>3. /\ toq \in 0 .. Max - 1 /\ eoq \in 0 .. Max /\ occupancy \in 0 .. Max
        /\ request \in 0 .. Packet /\ nread \in -1 .. Packet
        /\ received \in 0 .. MaxBytes /\ wanted \in Nat /\ taken \in 0 .. MaxBytes
    OBVIOUS
  <2>4. closed \in BOOLEAN /\ cancelled \in BOOLEAN
    OBVIOUS
  <2> QED
    BY <2>1, <2>2, <2>3, <2>4 DEF TypeOK
<1>2. Positions /\ Accounting /\ RequestInv /\ PendingInOrder
  BY DEF Positions, Wrapped, Slot, Accounting, Pending, RequestInv, PendingInOrder
<1>3. RingInOrder /\ BlockInOrder /\ NoLostWakeup /\ Reason /\ Woken
  BY DEF RingInOrder, BlockInOrder, NoLostWakeup, Reason, Woken
<1> QED
  BY <1>1, <1>2, <1>3 DEF Inv

\* Steps that leave the ring, the flags and the block as they are.
LEMMA QuietKeeps ==
  ASSUME Inv,
         \/ Connect \/ Close \/ AcceptClient \/ WaitNotFull \/ ReaderCancelled
         \/ ReceiveClosed \/ \E e \in {"retry", "fatal"} : ReceiveError(e)
         \/ CancelReader \/ JoinReader \/ CancelConsumer
         \/ UNCHANGED vars
  PROVE  Inv'
<1> USE SizesAssumption DEF Inv, ringVars, flagVars, readerVars, consumerVars
<1>1. /\ UNCHANGED <<ringVars, flagVars, request, block, wanted>>
      /\ consumer' \in {consumer, "ending", "joining", "over"}
      /\ socket' \in {"unconnected", "open", "closed"}
      /\ reader' \in {reader, "check", "asleep", "request", "record", "gone"}
      /\ nread' \in -1 .. Packet /\ errno' \in {"none", "retry", "fatal"}
      /\ cancelled' \in BOOLEAN
  <2>1. CASE Connect \/ Close \/ AcceptClient \/ WaitNotFull \/ ReaderCancelled
    BY <2>1 DEF TypeOK, Connect, Close, AcceptClient, WaitNotFull, ReaderCancelled
  <2>2. CASE ReceiveClosed
    BY <2>2 DEF TypeOK, ReceiveClosed
  <2>3. CASE \E e \in {"retry", "fatal"} : ReceiveError(e)
    BY <2>3 DEF TypeOK, ReceiveError
  <2>4. CASE CancelReader \/ JoinReader \/ CancelConsumer \/ UNCHANGED vars
    BY <2>4 DEF TypeOK, CancelReader, JoinReader, CancelConsumer, vars
  <2> QED
    BY <2>1, <2>2, <2>3, <2>4
<1>2. /\ reader' = "asleep" => occupancy = Max
      /\ reader' = "request" => occupancy < Max
      /\ reader' = "recv" => reader = "recv"
      /\ Pending' = Pending
      /\ Pending > 0 => nread' = nread
  <2> USE DEF NoLostWakeup, RequestInv, Pending
  <2>1. CASE AcceptClient \/ WaitNotFull \/ ReaderCancelled
    <3>1. occupancy \in 0 .. Max
      BY DEF TypeOK
    <3> QED
      BY <2>1, <3>1 DEF AcceptClient, WaitNotFull, ReaderCancelled
  <2>2. CASE ReceiveClosed \/ \E e \in {"retry", "fatal"} : ReceiveError(e)
    BY <2>2 DEF ReceiveClosed, ReceiveError
  <2>3. CASE Connect \/ Close \/ CancelReader \/ JoinReader \/ CancelConsumer \/ UNCHANGED vars
    BY <2>3 DEF Connect, Close, CancelReader, JoinReader, CancelConsumer, vars
  <2> QED
    BY <2>1, <2>2, <2>3
<1>3. TypeOK'
  BY <1>1 DEF TypeOK
<1>4. Positions' /\ Accounting' /\ RingInOrder' /\ BlockInOrder' /\ PendingInOrder'
  BY <1>1, <1>2 DEF Positions, Wrapped, Slot, Accounting, RingInOrder, BlockInOrder,
     PendingInOrder
<1>5. RequestInv'
  BY <1>1, <1>2 DEF RequestInv
<1>6. NoLostWakeup' /\ Woken'
  BY <1>1, <1>2 DEF NoLostWakeup, Woken
<1>7. Reason'
  BY DEF Reason, TypeOK, Connect, Close, AcceptClient, WaitNotFull, ReaderCancelled,
     ReceiveClosed, ReceiveError, CancelReader, JoinReader, CancelConsumer, vars
<1> QED
  BY <1>3, <1>4, <1>5, <1>6, <1>7

\* The request that the reader works out without the mutex fits.
LEMMA ComputeRequestKeeps ==
  ASSUME Inv, ComputeRequest
  PROVE  Inv'
<1> USE SizesAssumption DEF Inv, ComputeRequest, flagVars, consumerVars
<1>1. /\ eoq' = Wrapped /\ eoq' \in 0 .. Max - 1
      /\ request' \in 1 .. Packet
      /\ eoq' + request' <= Max /\ occupancy + request' <= Max
  <2>1. occupancy < Max /\ occupancy \in 0 .. Max /\ eoq \in 0 .. Max
    BY DEF TypeOK, RequestInv
  <2>2. eoq' = Wrapped /\ Wrapped \in 0 .. Max - 1
    BY <2>1 DEF Wrapped
  <2> QED
    BY <2>1, <2>2 DEF FreeSpace, Least
<1>2. TypeOK'
  BY <1>1, SMTT(30) DEF TypeOK
<1>3. Positions'
  BY <1>1 DEF TypeOK, Positions, Wrapped, Slot
<1>4. Pending = 0 /\ Pending' = 0
  BY DEF Pending
<1>5. Accounting' /\ PendingInOrder'
  BY <1>4 DEF Accounting, PendingInOrder
<1>6. RequestInv'
  BY <1>1, <1>4 DEF RequestInv
<1>7. RingInOrder' /\ BlockInOrder' /\ NoLostWakeup' /\ Reason' /\ Woken'
  BY DEF RingInOrder, BlockInOrder, NoLostWakeup, Reason, Woken, Slot
<1> QED
  BY <1>2, <1>3, <1>5, <1>6, <1>7

\* recv puts its bytes after those in the ring, and on none of them.
LEMMA ReceiveDataKeeps ==
  ASSUME Inv, NEW n \in 1 .. Packet, ReceiveData(n)
  PROVE  Inv'
<1> USE SizesAssumption DEF Inv, ReceiveData, flagVars, consumerVars
<1>1. /\ n > 0 /\ n <= request
      /\ eoq + n <= Max /\ occupancy + n <= Max
      /\ eoq < Max
      /\ received + n <= MaxBytes
  BY DEF TypeOK, RequestInv
<1>2. eoq = Slot(occupancy)
  BY <1>1 DEF TypeOK, Positions, Wrapped
<1>3. Pending = 0 /\ Pending' = n
  BY DEF Pending
<1>4. received = taken + occupancy
  BY <1>3 DEF Accounting, TypeOK
<1>5. TypeOK'
  <2>1. buffer' \in [0 .. Max - 1 -> 0 .. MaxBytes]
    BY <1>1 DEF TypeOK
  <2>2. received' \in 0 .. MaxBytes /\ nread' \in -1 .. Packet
    BY <1>1 DEF TypeOK
  <2> QED
    BY <2>1, <2>2 DEF TypeOK
<1>6. \A i \in 0 .. occupancy - 1 : Slot(i) \in 0 .. Max - 1 /\ Slot(i) \notin eoq .. eoq + n - 1
  BY <1>1, <1>2 DEF TypeOK, Slot
<1>7. RingInOrder'
  <2>1. \A i \in 0 .. occupancy - 1 : buffer'[Slot(i)] = buffer[Slot(i)]
    BY <1>6 DEF TypeOK
  <2> QED
    BY <2>1 DEF RingInOrder, Slot
<1>8. PendingInOrder'
  <2>1. \A j \in 0 .. n - 1 : eoq + j \in 0 .. Max - 1 /\ eoq + j \in eoq .. eoq + n - 1
    BY <1>1 DEF TypeOK
  <2>2. \A j \in 0 .. n - 1 : buffer'[eoq + j] = received + j + 1
    <3> TAKE j \in 0 .. n - 1
    <3>1. (eoq + j) - eoq = j
      BY DEF TypeOK
    <3>2. eoq + j \in DOMAIN buffer
      BY <2>1 DEF TypeOK
    <3> QED
      BY <3>1, <3>2, <2>1
  <2> QED
    BY <2>2, <1>3, <1>4 DEF PendingInOrder, TypeOK
<1>9. Positions' /\ Accounting'
  BY <1>3, <1>4 DEF Positions, Wrapped, Slot, Accounting, TypeOK
<1>10. RequestInv'
  BY <1>1, <1>3 DEF RequestInv
<1>11. BlockInOrder' /\ NoLostWakeup' /\ Reason' /\ Woken'
  BY DEF BlockInOrder, NoLostWakeup, Reason, Woken
<1> QED
  BY <1>5, <1>7, <1>8, <1>9, <1>10, <1>11

\* Noting what was received makes the pending bytes part of the ring.
LEMMA RecordKeeps ==
  ASSUME Inv, Record
  PROVE  Inv'
<1> USE SizesAssumption DEF Inv, Record, Noted
<1>0. Pending \in Nat /\ (Pending = 0 \/ Pending > 0)
  BY DEF TypeOK, Pending
<1>1. /\ eoq' = eoq + Pending /\ eoq' \in 0 .. Max
      /\ occupancy' = occupancy + Pending /\ occupancy' \in 0 .. Max
      /\ Pending' = 0
  BY DEF TypeOK, Pending, RequestInv
<1>2. TypeOK'
  <2>1. consumer' \in {consumer, "woken"}
    BY DEF SignalNotEmpty
  <2> QED
    BY <1>1, <2>1 DEF TypeOK
<1>3. Accounting' /\ PendingInOrder' /\ RequestInv'
  <2>1. Accounting'
    BY <1>0, <1>1 DEF TypeOK, Accounting
  <2>2. PendingInOrder'
    BY <1>1 DEF PendingInOrder
  <2>3. RequestInv'
    BY <1>1 DEF RequestInv
  <2> QED
    BY <2>1, <2>2, <2>3
<1>4. Pending = 0 => eoq' = eoq /\ occupancy' = occupancy
  BY <1>0, <1>1 DEF TypeOK
<1>5. Pending > 0 => eoq = Slot(occupancy) /\ eoq + Pending <= Max /\ occupancy + Pending <= Max
  BY DEF TypeOK, Pending, RequestInv, Positions, Wrapped
<1>6. Positions'
  <2>1. CASE Pending = 0
    BY <2>1, <1>4 DEF Positions, Wrapped, Slot
  <2>2. CASE Pending > 0
    BY <2>2, <1>0, <1>1, <1>5 DEF TypeOK, Positions, Wrapped, Slot
  <2> QED
    BY <1>0, <2>1, <2>2
<1>7. RingInOrder'
  <2>1. CASE Pending > 0
    <3>1. \A i \in 0 .. occupancy - 1 : buffer[Slot(i)] = taken + i + 1
      BY DEF RingInOrder
    <3>2. \A i \in occupancy .. occupancy + Pending - 1 :
            Slot(i) = eoq + (i - occupancy) /\ i - occupancy \in 0 .. Pending - 1
      BY <2>1, <1>0, <1>5 DEF TypeOK, Slot
    <3>3. \A i \in occupancy .. occupancy + Pending - 1 : buffer[Slot(i)] = taken + i + 1
      <4> TAKE i \in occupancy .. occupancy + Pending - 1
      <4>1. buffer[eoq + (i - occupancy)] = taken + occupancy + (i - occupancy) + 1
        BY <3>2 DEF PendingInOrder
      <4> QED
        BY <4>1, <3>2, <1>0 DEF TypeOK
    <3>4. \A i \in 0 .. occupancy' - 1 :
            i \in 0 .. occupancy - 1 \/ i \in occupancy .. occupancy + Pending - 1
      BY <1>0, <1>1 DEF TypeOK
    <3>5. \A i \in 0 .. occupancy' - 1 : buffer[Slot(i)] = taken + i + 1
      BY <3>1, <3>3, <3>4
    <3> QED
      BY <3>5 DEF RingInOrder, Slot
  <2>2. CASE Pending = 0
    BY <2>2, <1>4 DEF RingInOrder, Slot
  <2> QED
    BY <2>1, <2>2, <1>0
<1>8. BlockInOrder'
  BY DEF BlockInOrder
<1>9. NoLostWakeup' /\ Reason' /\ Woken'
  <2>1. reader' /= "asleep" /\ consumer' /= "asleep"
    BY DEF SignalNotEmpty
  <2>2. nread > 0 => Woken'
    BY <1>1 DEF Woken, TypeOK, Pending
  <2>3. nread = 0 => Woken'
    BY DEF Woken
  <2>4. nread < 0 => Woken'
    BY DEF Woken, Reason, TypeOK
  <2>5. Reason'
    BY DEF Reason
  <2>6. nread > 0 \/ nread = 0 \/ nread < 0
    BY DEF TypeOK
  <2>7. Woken'
    BY <2>2, <2>3, <2>4, <2>6
  <2> QED
    BY <2>1, <2>5, <2>7 DEF NoLostWakeup
<1> QED
  BY <1>2, <1>3, <1>6, <1>7, <1>8, <1>9

\* A new block has no bytes yet.
LEMMA ReadSizedBlockKeeps ==
  ASSUME Inv, NEW n \in Counts, ReadSizedBlock(n)
  PROVE  Inv'
<1> USE SizesAssumption DEF Inv, ReadSizedBlock, ringVars, flagVars, readerVars
<1>1. TypeOK'
  <2>1. block' \in Seq(0 .. MaxBytes) /\ wanted' \in Nat
    BY EmptySeq
  <2> QED
    BY <2>1 DEF TypeOK
<1>2. BlockInOrder'
  BY DEF BlockInOrder
<1>3. Positions' /\ Accounting' /\ RequestInv' /\ PendingInOrder' /\ RingInOrder'
  BY DEF Positions, Wrapped, Slot, Accounting, Pending, RequestInv, PendingInOrder,
     RingInOrder
<1>4. NoLostWakeup' /\ Reason' /\ Woken'
  BY DEF NoLostWakeup, Reason, Woken
<1> QED
  BY <1>1, <1>2, <1>3, <1>4

\* What buffered_read moves is there, is wanted, and does not wrap.
LEMMA MoveStep ==
  ASSUME Inv, Move
  PROVE  \E n \in Nat :
           /\ n <= occupancy /\ n <= wanted /\ toq + n <= Max
           /\ block' = block \o [i \in 1 .. n |-> buffer[toq + i - 1]]
           /\ toq' = Advanced(n) /\ occupancy' = occupancy - n
           /\ taken' = taken + n /\ wanted' = wanted - n
           /\ consumer' \in {"idle", "read"}
           /\ reader' = (IF reader = "asleep" THEN "check" ELSE reader)
           /\ UNCHANGED <<buffer, eoq, received, request, nread, errno, cancelled, socket>>
<1>1. /\ Movable \in Nat /\ Movable <= occupancy /\ Movable <= wanted
      /\ toq + Movable <= Max
  BY SizesAssumption DEF Inv, TypeOK, Movable, Least
<1>2. consumer' \in {"idle", "read"}
  BY DEF Move
<1> QED
  BY <1>1, <1>2 DEF Move, SignalNotFull

\* What Move does to the ring and the block: the bytes taken are the first in the
\* ring, they follow those in the block, and the reader's request still fits.
LEMMA MoveKeeps ==
  ASSUME Inv, Move, closed' \in BOOLEAN, error' \in {"none", "retry", "fatal"}
  PROVE  /\ TypeOK' /\ Positions' /\ Accounting' /\ RequestInv' /\ PendingInOrder'
         /\ RingInOrder' /\ BlockInOrder' /\ Reason'
         /\ reader' /= "asleep" /\ consumer' \in {"idle", "read"}
<1> USE SizesAssumption
<1>1. PICK n \in Nat :
           /\ n <= occupancy /\ n <= wanted /\ toq + n <= Max
           /\ block' = block \o [i \in 1 .. n |-> buffer[toq + i - 1]]
           /\ toq' = Advanced(n) /\ occupancy' = occupancy - n
           /\ taken' = taken + n /\ wanted' = wanted - n
           /\ consumer' \in {"idle", "read"}
           /\ reader' = (IF reader = "asleep" THEN "check" ELSE reader)
           /\ UNCHANGED <<buffer, eoq, received, request, nread, errno, cancelled, socket>>
  BY MoveStep
<1>2. TypeOK /\ Pending \in Nat /\ Pending' = Pending
  BY <1>1 DEF Inv, TypeOK, Pending
<1>3. /\ buffer \in [0 .. Max - 1 -> 0 .. MaxBytes] /\ block \in Seq(0 .. MaxBytes)
      /\ toq \in 0 .. Max - 1 /\ eoq \in 0 .. Max /\ occupancy \in 0 .. Max
      /\ received \in 0 .. MaxBytes /\ taken \in 0 .. MaxBytes /\ wanted \in Nat
      /\ Len(block) \in Nat
  BY <1>2, LenProperties DEF TypeOK
<1> DEFINE moved == [i \in 1 .. n |-> buffer[toq + i - 1]]
<1>4. moved \in Seq(0 .. MaxBytes) /\ Len(moved) = n /\ \A i \in 1 .. n : moved[i] = buffer[toq + i - 1]
  <2>1. \A i \in 1 .. n : toq + i - 1 \in 0 .. Max - 1
    BY <1>1, <1>3
  <2>2. moved \in [1 .. n -> 0 .. MaxBytes]
    BY <2>1, <1>3
  <2> QED
    BY <2>2, IsASeq, LenProperties
<1>5. block' = block \o moved
  BY <1>1
<1> HIDE DEF moved
<1>6. block' \in Seq(0 .. MaxBytes) /\ Len(block') = Len(block) + n
  BY <1>3, <1>4, <1>5, ConcatProperties
<1>7. toq' \in 0 .. Max - 1 /\ occupancy' \in 0 .. Max /\ wanted' \in Nat
  BY <1>1, <1>3 DEF Advanced
<1>8. Accounting' /\ taken' \in 0 .. MaxBytes
  BY <1>1, <1>2, <1>3 DEF Inv, Accounting
<1>9. TypeOK'
  <2>1. reader' \in {"accept", "check", "asleep", "request", "recv", "record", "gone"}
    BY <1>1, <1>2 DEF TypeOK
  <2>2. /\ buffer' \in [0 .. Max - 1 -> 0 .. MaxBytes] /\ eoq' \in 0 .. Max
        /\ request' \in 0 .. Packet /\ nread' \in -1 .. Packet
        /\ errno' \in {"none", "retry", "fatal"} /\ cancelled' \in BOOLEAN
        /\ socket' \in {"unconnected", "open", "closed"} /\ received' \in 0 .. MaxBytes
    BY <1>1, <1>2 DEF TypeOK
  <2>3. consumer' \in {"idle", "read", "asleep", "woken", "ending", "joining", "over"}
    BY <1>1
  <2> QED
    BY <2>1, <2>2, <2>3, <1>6, <1>7, <1>8 DEF TypeOK
<1>10. Positions'
  <2>1. Wrapped' = Wrapped
    BY <1>1 DEF Wrapped
  <2>2. Slot(occupancy)' = Slot(occupancy)
    BY <1>1, <1>3 DEF Slot, Advanced
  <2> QED
    BY <2>1, <2>2 DEF Inv, Positions
<1>11. PendingInOrder'
  <2>1. taken' + occupancy' = taken + occupancy
    BY <1>1, <1>3
  <2>2. \A j \in 0 .. Pending - 1 : buffer[eoq + j] = taken' + occupancy' + j + 1
    BY <2>1 DEF Inv, PendingInOrder
  <2> QED
    BY <2>2, <1>1, <1>2 DEF PendingInOrder
<1>12. RequestInv'
  <2>1. reader' = "request" => occupancy' < Max
    BY <1>1, <1>3 DEF Inv, RequestInv
  <2>2. reader' = "recv" =>
          request' > 0 /\ eoq' + request' <= Max /\ occupancy' + request' <= Max
    BY <1>1, <1>2, <1>3 DEF Inv, RequestInv, TypeOK
  <2>3. Pending' > 0 => eoq' + nread' <= Max /\ occupancy' + nread' <= Max
    BY <1>1, <1>2, <1>3 DEF Inv, RequestInv, TypeOK
  <2> QED
    BY <2>1, <2>2, <2>3 DEF RequestInv
<1>13. RingInOrder'
  <2>1. \A i \in 0 .. occupancy' - 1 : Slot(i)' = Slot(i + n) /\ i + n \in 0 .. occupancy - 1
    BY <1>1, <1>3 DEF Slot, Advanced
  <2>2. \A i \in 0 .. occupancy' - 1 : buffer'[Slot(i)'] = taken' + i + 1
    <3> TAKE i \in 0 .. occupancy' - 1
    <3>1. buffer[Slot(i + n)] = taken + (i + n) + 1
      BY <2>1 DEF Inv, RingInOrder
    <3> QED
      BY <3>1, <2>1, <1>1, <1>3
  <2> QED
    BY <2>2 DEF RingInOrder
<1>14. BlockInOrder'
  <2>1. \A i \in 1 .. n : moved[i] = taken + i
    <3> TAKE i \in 1 .. n
    <3>1. i - 1 \in 0 .. occupancy - 1 /\ Slot(i - 1) = toq + i - 1
      BY <1>1, <1>3 DEF Slot
    <3>2. buffer[Slot(i - 1)] = taken + (i - 1) + 1
      BY <3>1 DEF Inv, RingInOrder
    <3>3. moved[i] = buffer[Slot(i - 1)]
      BY <3>1, <1>4
    <3>4. taken + (i - 1) + 1 = taken + i
      BY <1>3
    <3> QED
      BY <3>2, <3>3, <3>4
  <2>2. \A i \in 1 .. Len(block') : block'[i] = taken' - Len(block') + i
    <3> TAKE i \in 1 .. Len(block')
    <3>1. CASE i <= Len(block)
      <4>1. block'[i] = block[i]
        BY <3>1, <1>3, <1>4, <1>5, <1>6, ConcatProperties
      <4>2. block[i] = taken - Len(block) + i
        BY <3>1, <1>3, <1>6 DEF Inv, BlockInOrder
      <4> QED
        BY <4>1, <4>2, <1>1, <1>3, <1>6
    <3>2. CASE i > Len(block)
      <4>1. i - Len(block) \in 1 .. n
        BY <3>2, <1>3, <1>6
      <4>2. block'[i] = moved[i - Len(block)]
        BY <3>2, <4>1, <1>3, <1>4, <1>5, <1>6, ConcatProperties
      <4>3. block'[i] = taken + (i - Len(block))
        BY <4>1, <4>2, <2>1
      <4> QED
        BY <4>3, <1>1, <1>3, <1>6
    <3> QED
      BY <3>1, <3>2, <1>3, <1>6
  <2> QED
    BY <2>2 DEF BlockInOrder
<1>15. Reason'
  BY <1>1 DEF Inv, Reason
<1> QED
  BY <1>1, <1>8, <1>9, <1>10, <1>11, <1>12, <1>13, <1>14, <1>15

\* buffered_read from its beginning to its wait, or to its end.
LEMMA EnterBufferedReadKeeps ==
  ASSUME Inv, EnterBufferedRead
  PROVE  Inv'
<1> USE SizesAssumption DEF Inv, EnterBufferedRead
<1>1. CASE occupancy = 0
  <2> USE <1>1 DEF ringVars, readerVars
  <2>1. TypeOK'
    BY DEF TypeOK
  <2>2. Positions' /\ Accounting' /\ RequestInv' /\ PendingInOrder' /\ RingInOrder'
    BY DEF Positions, Wrapped, Slot, Accounting, Pending, RequestInv, PendingInOrder,
       RingInOrder
  <2>3. BlockInOrder'
    BY DEF BlockInOrder
  <2>4. NoLostWakeup' /\ Reason' /\ Woken'
    BY DEF NoLostWakeup, Reason, Woken
  <2> QED
    BY <2>1, <2>2, <2>3, <2>4
<1>2. CASE occupancy /= 0
  <2>1. Move
    BY <1>2
  <2>2. closed' \in BOOLEAN /\ error' \in {"none", "retry", "fatal"}
    OBVIOUS
  <2>3. NoLostWakeup' /\ Woken'
    BY <2>1, <2>2, MoveKeeps DEF NoLostWakeup, Woken
  <2> QED
    BY <2>1, <2>2, <2>3, MoveKeeps
<1> QED
  BY <1>1, <1>2

\* buffered_read from its wakeup to its end.
LEMMA LeaveBufferedReadKeeps ==
  ASSUME Inv, LeaveBufferedRead
  PROVE  Inv'
<1> USE SizesAssumption DEF Inv, LeaveBufferedRead
<1>1. CASE error /= "none" \/ closed
  <2> USE <1>1 DEF ringVars, readerVars, flagVars
  <2>1. TypeOK'
    BY SMTT(30) DEF TypeOK
  <2>2. Positions' /\ Accounting' /\ RequestInv' /\ PendingInOrder' /\ RingInOrder'
    BY DEF Positions, Wrapped, Slot, Accounting, Pending, RequestInv, PendingInOrder,
       RingInOrder
  <2>3. BlockInOrder'
    BY DEF BlockInOrder
  <2>4. NoLostWakeup' /\ Reason' /\ Woken'
    BY DEF NoLostWakeup, Reason, Woken
  <2> QED
    BY <2>1, <2>2, <2>3, <2>4
<1>2. CASE ~(error /= "none" \/ closed)
  <2>1. Move
    BY <1>2
  <2>2. closed' \in BOOLEAN /\ error' \in {"none", "retry", "fatal"}
    BY DEF TypeOK, flagVars
  <2>3. NoLostWakeup' /\ Woken'
    BY <2>1, <2>2, MoveKeeps DEF NoLostWakeup, Woken
  <2> QED
    BY <2>1, <2>2, <2>3, MoveKeeps
<1> QED
  BY <1>1, <1>2

\* Every step keeps the invariant.
LEMMA ReaderKept ==
  ASSUME Inv, [Next]_vars
  PROVE  Inv'
<1>1. CASE ReaderStep
  BY <1>1, QuietKeeps, ComputeRequestKeeps, RecordKeeps DEF ReaderStep
<1>2. CASE ConsumerStep
  BY <1>2, QuietKeeps, EnterBufferedReadKeeps, LeaveBufferedReadKeeps DEF ConsumerStep
<1>3. CASE \E n \in 1 .. Packet : ReceiveData(n)
  BY <1>3, ReceiveDataKeeps
<1>4. CASE \E n \in Counts : ReadSizedBlock(n)
  BY <1>4, ReadSizedBlockKeeps
<1>5. CASE \/ Connect \/ Close \/ CancelConsumer \/ UNCHANGED vars
           \/ \E e \in {"retry", "fatal"} : ReceiveError(e)
  BY <1>5, QuietKeeps
<1> QED
  BY <1>1, <1>2, <1>3, <1>4, <1>5 DEF Next

\* The invariant holds in every reachable state.
LEMMA Invariance == Spec => []Inv
<1>1. Inv /\ [Next]_vars => Inv'
  BY ReaderKept
<1> QED
  BY <1>1, InitInv, PTL DEF Spec

\* Every variable keeps to its type.
THEOREM TypeCorrect == Spec => []TypeOK
<1>1. Inv => TypeOK
  BY DEF Inv
<1> QED
  BY <1>1, Invariance, PTL

\* The consumer gets the bytes of the stream in order, each of them once: the
\* ring holds the next ones and a block is made of consecutive ones.
THEOREM StreamInOrder == Spec => []RingHoldsStream
<1>1. Inv => RingHoldsStream
  BY DEF Inv, RingHoldsStream
<1> QED
  BY <1>1, Invariance, PTL

\* The region given to recv, worked out without the mutex, is in the ring, is not
\* empty, and holds no byte that is still to be taken.
THEOREM ReceiveFits == Spec => []RecvFits
<1>1. Inv => RecvFits
  <2> SUFFICES ASSUME Inv, reader = "recv"
               PROVE  /\ request > 0
                      /\ eoq + request <= Max
                      /\ \A i \in 0 .. occupancy - 1 : Slot(i) \notin eoq .. eoq + request - 1
    BY DEF RecvFits
  <2>1. request > 0 /\ eoq + request <= Max /\ occupancy + request <= Max
    BY DEF Inv, RequestInv
  <2>2. eoq = Slot(occupancy)
    BY <2>1, SizesAssumption DEF Inv, TypeOK, Positions, Wrapped
  <2>3. \A i \in 0 .. occupancy - 1 : Slot(i) \notin eoq .. eoq + request - 1
    BY <2>1, <2>2, SizesAssumption DEF Inv, TypeOK, Slot
  <2> QED
    BY <2>1, <2>3
<1> QED
  BY <1>1, Invariance, PTL

\* Neither thread sleeps when what it waits for is there.
THEOREM WakeupNotLost == Spec => []NoLostWakeup
<1>1. Inv => NoLostWakeup
  BY DEF Inv
<1> QED
  BY <1>1, Invariance, PTL

\* The ring buffer is right: order, space and wakeups.
THEOREM ReaderCorrect == Spec => []ReaderSafe
<1> QED
  BY StreamInOrder, ReceiveFits, WakeupNotLost, PTL DEF ReaderSafe

(***************************************************************************)
(* The end of the program: users first, and everything                     *)
(***************************************************************************)

Threads == {"main", "glib"}
BothFunctions == <<"exit_rtsp_listener", "exit_function">>
InExitFunction(t) ==
  exiting[t] \in {"activity", "hook", "monitor", "dacp", "loop", "metadata", "output", "rest"}

\* exit_function is only begun when the listener, and so the conversation, has ended, and by one
\* thread alone: Quit and the return of main cannot both be asked for before that.
ListenerGoesFirst ==
  /\ functions \in {BothFunctions, <<"exit_function">>, <<>>}
  /\ requests = 0 => functions = BothFunctions /\ \A t \in Threads : exiting[t] = "out"
  /\ functions = BothFunctions =>
       /\ listener = "accepts" /\ \A t \in Threads : exiting[t] \in {"out", "next"}
       /\ \E t \in Threads : exiting[t] = "out"
  /\ functions = <<"exit_function">> => \A t \in Threads : exiting[t] = "next" => listener = "ended"
  /\ functions = <<>> => listener = "ended"
  /\ listener = "ended" => conversation \in {"none", "ended"}
  /\ \A t \in Threads : InExitFunction(t) => functions = <<>>
  /\ ~(InExitFunction("main") /\ InExitFunction("glib"))

\* How far exit_function has come is what it has stopped.
StoppedInOrder ==
  /\ stopped /= {} => functions = <<>>
  /\ \A t \in Threads :
       /\ exiting[t] \in {"activity", "hook", "monitor"} => stopped = {}
       /\ exiting[t] = "dacp" => stopped = {"activity"}
       /\ exiting[t] \in {"loop", "metadata"} => stopped = {"activity", "dacp"}
       /\ exiting[t] = "output" => stopped = {"activity", "dacp", "metadata"}
       /\ exiting[t] = "rest" => stopped = {"activity", "dacp", "metadata", "output"}
  /\ ~quit_requested_from_glib_mainloop =>
       /\ exiting["glib"] = "out"
       /\ functions = <<>> =>
            \/ InExitFunction("main")
            \/ exiting["main"] = "next" /\ stopped = {"activity", "dacp", "metadata", "output"}
  /\ process = "ended" =>
       /\ functions = <<>>
       /\ ~quit_requested_from_glib_mainloop => exiting["main"] = "next"

\* Activity has been announced for as long as it lasts, and its end has been announced or is about
\* to be, by one of those who may do so.
EndAnnouncedOnce ==
  /\ conversation \in {"plays", "stops", "signifies"} => am_state = "active"
  /\ am_state \in {"active", "timing_out"} =>
       announced = "active" /\ exit_monitor /= "hook" /\ conversation /= "hook"
  /\ conversation = "hook" \/ exit_monitor = "hook" => announced = "active"
  /\ ~(conversation = "hook" /\ exit_monitor = "hook")
  /\ am_state = "inactive" /\ conversation /= "hook" /\ exit_monitor /= "hook" =>
       announced = "inactive"
  /\ \A t \in Threads :
       /\ exiting[t] = "hook" => am_state /= "inactive"
       /\ exiting[t] = "monitor" => am_state = "inactive"
  /\ "activity" \in stopped => am_state = "inactive" /\ announced = "inactive"
  /\ exit_monitor = "ended" => "activity" \in stopped

EndingInv ==
  Ending!ShutdownTypeOK /\ ListenerGoesFirst /\ StoppedInOrder /\ EndAnnouncedOnce

\* The functions of atexit, as exit takes them.
LEMMA FunctionsTaken ==
  /\ Head(BothFunctions) = "exit_rtsp_listener" /\ Tail(BothFunctions) = <<"exit_function">>
  /\ Head(<<"exit_function">>) = "exit_function" /\ Tail(<<"exit_function">>) = <<>>
  /\ BothFunctions /= <<"exit_function">> /\ BothFunctions /= <<>> /\ <<"exit_function">> /= <<>>
  BY DEF BothFunctions

\* exit_function begins only when the listener has ended, and in one thread.
LEMMA ListenerGoesFirstKept ==
  ASSUME EndingInv, Ending!ShutdownNext
  PROVE  ListenerGoesFirst'
<1> USE FunctionsTaken
        DEF EndingInv, Threads, ListenerGoesFirst, InExitFunction, Ending!ShutdownTypeOK,
            Ending!Go, Ending!activityVars, Ending!hubVars, Ending!exitVars,
            Ending!GoingInactive, Ending!Joined
<1>1. ASSUME NEW t \in Threads, Ending!AskToExit(t) PROVE ListenerGoesFirst'
  BY <1>1 DEF Ending!AskToExit
<1>2. ASSUME NEW t \in Threads, Ending!Exit(t) PROVE ListenerGoesFirst'
  BY <1>2, ZenonT(40) DEF Ending!Exit
<1>3. ASSUME NEW t \in Threads, Ending!CancelListener(t) PROVE ListenerGoesFirst'
  BY <1>3 DEF Ending!CancelListener
<1>4. ASSUME NEW t \in Threads, Ending!JoinListener(t) PROVE ListenerGoesFirst'
  BY <1>4 DEF Ending!JoinListener
<1>5. ASSUME NEW t \in Threads, Ending!StopActivity(t) PROVE ListenerGoesFirst'
  BY <1>5 DEF Ending!StopActivity
<1>6. ASSUME NEW t \in Threads, Ending!SayInactive(t) PROVE ListenerGoesFirst'
  BY <1>6 DEF Ending!SayInactive
<1>7. ASSUME NEW t \in Threads, Ending!StopMonitor(t) PROVE ListenerGoesFirst'
  BY <1>7 DEF Ending!StopMonitor
<1>8. ASSUME NEW t \in Threads, Ending!StopDacp(t) PROVE ListenerGoesFirst'
  BY <1>8 DEF Ending!StopDacp
<1>9. ASSUME NEW t \in Threads, Ending!QuitLoop(t) PROVE ListenerGoesFirst'
  BY <1>9 DEF Ending!QuitLoop
<1>10. ASSUME NEW t \in Threads, Ending!StopMetadata(t) PROVE ListenerGoesFirst'
  BY <1>10 DEF Ending!StopMetadata
<1>11. ASSUME NEW t \in Threads, Ending!StopOutput(t) PROVE ListenerGoesFirst'
  BY <1>11 DEF Ending!StopOutput
<1>12. ASSUME NEW t \in Threads, Ending!FinishExitFunction(t) PROVE ListenerGoesFirst'
  BY <1>12 DEF Ending!FinishExitFunction
<1>13. CASE Ending!MainReturns
  BY <1>13 DEF Ending!MainReturns
<1>14. CASE Ending!CleanUpListener
  BY <1>14 DEF Ending!CleanUpListener, Ending!Cancelled
<1>15. CASE Ending!SourceEnds
  BY <1>15 DEF Ending!SourceEnds
<1>16. CASE Ending!StopPlayer
  BY <1>16 DEF Ending!StopPlayer
<1>17. CASE Ending!Signify
  BY <1>17 DEF Ending!Signify
<1>18. CASE Ending!ConversationHook
  BY <1>18 DEF Ending!ConversationHook
<1>19. CASE Ending!TimeUp
  BY <1>19 DEF Ending!TimeUp
<1>20. CASE Ending!MonitorHook
  BY <1>20 DEF Ending!MonitorHook
<1>21. CASE Ending!RunWatchers
  BY <1>21 DEF Ending!RunWatchers
<1>22. CASE Ending!WatchersDone
  BY <1>22 DEF Ending!WatchersDone
<1>23. CASE Ending!HubStep
  BY <1>23 DEF Ending!HubStep
<1> QED
  BY <1>1, <1>2, <1>3, <1>4, <1>5, <1>6, <1>7, <1>8, <1>9, <1>10, <1>11,
     <1>12, <1>13, <1>14, <1>15, <1>16, <1>17, <1>18, <1>19, <1>20, <1>21, <1>22, <1>23
     DEF Ending!ShutdownNext, Ending!ExitStep, Ending!ConversationStep

\* Each part is stopped after the ones before it.
LEMMA StoppedInOrderKept ==
  ASSUME EndingInv, Ending!ShutdownNext
  PROVE  StoppedInOrder'
<1> USE FunctionsTaken
        DEF EndingInv, Threads, StoppedInOrder, ListenerGoesFirst, InExitFunction,
            Ending!ShutdownTypeOK, Ending!Go, Ending!activityVars, Ending!hubVars,
            Ending!exitVars, Ending!GoingInactive
<1>1. ASSUME NEW t \in Threads, Ending!AskToExit(t) PROVE StoppedInOrder'
  BY <1>1 DEF Ending!AskToExit
<1>2. ASSUME NEW t \in Threads, Ending!Exit(t) PROVE StoppedInOrder'
  BY <1>2 DEF Ending!Exit
<1>3. ASSUME NEW t \in Threads, Ending!CancelListener(t) PROVE StoppedInOrder'
  BY <1>3 DEF Ending!CancelListener
<1>4. ASSUME NEW t \in Threads, Ending!JoinListener(t) PROVE StoppedInOrder'
  BY <1>4 DEF Ending!JoinListener
<1>5. ASSUME NEW t \in Threads, Ending!StopActivity(t) PROVE StoppedInOrder'
  BY <1>5 DEF Ending!StopActivity
<1>6. ASSUME NEW t \in Threads, Ending!SayInactive(t) PROVE StoppedInOrder'
  BY <1>6 DEF Ending!SayInactive
<1>7. ASSUME NEW t \in Threads, Ending!StopMonitor(t) PROVE StoppedInOrder'
  BY <1>7 DEF Ending!StopMonitor
<1>8. ASSUME NEW t \in Threads, Ending!StopDacp(t) PROVE StoppedInOrder'
  BY <1>8 DEF Ending!StopDacp
<1>9. ASSUME NEW t \in Threads, Ending!QuitLoop(t) PROVE StoppedInOrder'
  BY <1>9 DEF Ending!QuitLoop
<1>10. ASSUME NEW t \in Threads, Ending!StopMetadata(t) PROVE StoppedInOrder'
  BY <1>10 DEF Ending!StopMetadata
<1>11. ASSUME NEW t \in Threads, Ending!StopOutput(t) PROVE StoppedInOrder'
  BY <1>11 DEF Ending!StopOutput
<1>12. ASSUME NEW t \in Threads, Ending!FinishExitFunction(t) PROVE StoppedInOrder'
  BY <1>12 DEF Ending!FinishExitFunction
<1>13. CASE Ending!MainReturns
  BY <1>13 DEF Ending!MainReturns
<1>14. CASE Ending!CleanUpListener
  BY <1>14 DEF Ending!CleanUpListener, Ending!Cancelled
<1>15. CASE Ending!SourceEnds
  BY <1>15 DEF Ending!SourceEnds
<1>16. CASE Ending!StopPlayer
  BY <1>16 DEF Ending!StopPlayer
<1>17. CASE Ending!Signify
  BY <1>17 DEF Ending!Signify
<1>18. CASE Ending!ConversationHook
  BY <1>18 DEF Ending!ConversationHook
<1>19. CASE Ending!TimeUp
  BY <1>19 DEF Ending!TimeUp
<1>20. CASE Ending!MonitorHook
  BY <1>20 DEF Ending!MonitorHook
<1>21. CASE Ending!RunWatchers
  BY <1>21 DEF Ending!RunWatchers
<1>22. CASE Ending!WatchersDone
  BY <1>22 DEF Ending!WatchersDone
<1>23. CASE Ending!HubStep
  BY <1>23 DEF Ending!HubStep
<1> QED
  BY <1>1, <1>2, <1>3, <1>4, <1>5, <1>6, <1>7, <1>8, <1>9, <1>10, <1>11,
     <1>12, <1>13, <1>14, <1>15, <1>16, <1>17, <1>18, <1>19, <1>20, <1>21, <1>22, <1>23
     DEF Ending!ShutdownNext, Ending!ExitStep, Ending!ConversationStep

\* The hook that announces the end of activity runs once, in one of three threads.
LEMMA EndAnnouncedOnceKept ==
  ASSUME EndingInv, Ending!ShutdownNext
  PROVE  EndAnnouncedOnce'
<1> USE FunctionsTaken
        DEF EndingInv, Threads, EndAnnouncedOnce, StoppedInOrder, ListenerGoesFirst,
            InExitFunction, Ending!ShutdownTypeOK, Ending!CountsAsActive, Ending!Go,
            Ending!activityVars, Ending!hubVars, Ending!exitVars, Ending!GoingInactive
<1>1. ASSUME NEW t \in Threads, Ending!AskToExit(t) PROVE EndAnnouncedOnce'
  BY <1>1 DEF Ending!AskToExit
<1>2. ASSUME NEW t \in Threads, Ending!Exit(t) PROVE EndAnnouncedOnce'
  BY <1>2 DEF Ending!Exit
<1>3. ASSUME NEW t \in Threads, Ending!CancelListener(t) PROVE EndAnnouncedOnce'
  BY <1>3 DEF Ending!CancelListener
<1>4. ASSUME NEW t \in Threads, Ending!JoinListener(t) PROVE EndAnnouncedOnce'
  BY <1>4 DEF Ending!JoinListener
<1>5. ASSUME NEW t \in Threads, Ending!StopActivity(t) PROVE EndAnnouncedOnce'
  BY <1>5 DEF Ending!StopActivity
<1>6. ASSUME NEW t \in Threads, Ending!SayInactive(t) PROVE EndAnnouncedOnce'
  BY <1>6 DEF Ending!SayInactive
<1>7. ASSUME NEW t \in Threads, Ending!StopMonitor(t) PROVE EndAnnouncedOnce'
  BY <1>7 DEF Ending!StopMonitor
<1>8. ASSUME NEW t \in Threads, Ending!StopDacp(t) PROVE EndAnnouncedOnce'
  BY <1>8 DEF Ending!StopDacp
<1>9. ASSUME NEW t \in Threads, Ending!QuitLoop(t) PROVE EndAnnouncedOnce'
  BY <1>9 DEF Ending!QuitLoop
<1>10. ASSUME NEW t \in Threads, Ending!StopMetadata(t) PROVE EndAnnouncedOnce'
  BY <1>10 DEF Ending!StopMetadata
<1>11. ASSUME NEW t \in Threads, Ending!StopOutput(t) PROVE EndAnnouncedOnce'
  BY <1>11 DEF Ending!StopOutput
<1>12. ASSUME NEW t \in Threads, Ending!FinishExitFunction(t) PROVE EndAnnouncedOnce'
  BY <1>12 DEF Ending!FinishExitFunction
<1>13. CASE Ending!MainReturns
  BY <1>13 DEF Ending!MainReturns
<1>14. CASE Ending!CleanUpListener
  BY <1>14 DEF Ending!CleanUpListener, Ending!Cancelled
<1>15. CASE Ending!SourceEnds
  BY <1>15 DEF Ending!SourceEnds
<1>16. CASE Ending!StopPlayer
  BY <1>16 DEF Ending!StopPlayer
<1>17. CASE Ending!Signify
  BY <1>17 DEF Ending!Signify
<1>18. CASE Ending!ConversationHook
  BY <1>18 DEF Ending!ConversationHook
<1>19. CASE Ending!TimeUp
  BY <1>19 DEF Ending!TimeUp
<1>20. CASE Ending!MonitorHook
  BY <1>20 DEF Ending!MonitorHook
<1>21. CASE Ending!RunWatchers
  BY <1>21 DEF Ending!RunWatchers
<1>22. CASE Ending!WatchersDone
  BY <1>22 DEF Ending!WatchersDone
<1>23. CASE Ending!HubStep
  BY <1>23 DEF Ending!HubStep
<1> QED
  BY <1>1, <1>2, <1>3, <1>4, <1>5, <1>6, <1>7, <1>8, <1>9, <1>10, <1>11,
     <1>12, <1>13, <1>14, <1>15, <1>16, <1>17, <1>18, <1>19, <1>20, <1>21, <1>22, <1>23
     DEF Ending!ShutdownNext, Ending!ExitStep, Ending!ConversationStep

\* A step keeps each variable of the ending within its type.
LEMMA EndingTypesKept ==
  ASSUME EndingInv, Ending!ShutdownNext
  PROVE  Ending!ShutdownTypeOK'
<1> USE FunctionsTaken
        DEF EndingInv, Threads, EndAnnouncedOnce, ListenerGoesFirst, Ending!ShutdownTypeOK,
            Ending!Services, Ending!Go, Ending!activityVars, Ending!hubVars, Ending!exitVars,
            Ending!GoingInactive
<1>1. ASSUME NEW t \in Threads, Ending!AskToExit(t) PROVE Ending!ShutdownTypeOK'
  BY <1>1 DEF Ending!AskToExit
<1>2. ASSUME NEW t \in Threads, Ending!Exit(t) PROVE Ending!ShutdownTypeOK'
  BY <1>2, SMTT(30) DEF Ending!Exit
<1>3. ASSUME NEW t \in Threads, Ending!CancelListener(t) PROVE Ending!ShutdownTypeOK'
  BY <1>3 DEF Ending!CancelListener
<1>4. ASSUME NEW t \in Threads, Ending!JoinListener(t) PROVE Ending!ShutdownTypeOK'
  BY <1>4 DEF Ending!JoinListener
<1>5. ASSUME NEW t \in Threads, Ending!StopActivity(t) PROVE Ending!ShutdownTypeOK'
  BY <1>5 DEF Ending!StopActivity
<1>6. ASSUME NEW t \in Threads, Ending!SayInactive(t) PROVE Ending!ShutdownTypeOK'
  BY <1>6 DEF Ending!SayInactive
<1>7. ASSUME NEW t \in Threads, Ending!StopMonitor(t) PROVE Ending!ShutdownTypeOK'
  BY <1>7 DEF Ending!StopMonitor
<1>8. ASSUME NEW t \in Threads, Ending!StopDacp(t) PROVE Ending!ShutdownTypeOK'
  BY <1>8 DEF Ending!StopDacp
<1>9. ASSUME NEW t \in Threads, Ending!QuitLoop(t) PROVE Ending!ShutdownTypeOK'
  BY <1>9 DEF Ending!QuitLoop
<1>10. ASSUME NEW t \in Threads, Ending!StopMetadata(t) PROVE Ending!ShutdownTypeOK'
  BY <1>10 DEF Ending!StopMetadata
<1>11. ASSUME NEW t \in Threads, Ending!StopOutput(t) PROVE Ending!ShutdownTypeOK'
  BY <1>11 DEF Ending!StopOutput
<1>12. ASSUME NEW t \in Threads, Ending!FinishExitFunction(t) PROVE Ending!ShutdownTypeOK'
  BY <1>12 DEF Ending!FinishExitFunction
<1>13. CASE Ending!MainReturns
  BY <1>13 DEF Ending!MainReturns
<1>14. CASE Ending!CleanUpListener
  BY <1>14 DEF Ending!CleanUpListener, Ending!Cancelled
<1>15. CASE Ending!SourceEnds
  BY <1>15 DEF Ending!SourceEnds
<1>16. CASE Ending!StopPlayer
  BY <1>16 DEF Ending!StopPlayer
<1>17. CASE Ending!Signify
  BY <1>17 DEF Ending!Signify
<1>18. CASE Ending!ConversationHook
  BY <1>18 DEF Ending!ConversationHook
<1>19. CASE Ending!TimeUp
  BY <1>19 DEF Ending!TimeUp
<1>20. CASE Ending!MonitorHook
  BY <1>20 DEF Ending!MonitorHook
<1>21. CASE Ending!RunWatchers
  BY <1>21 DEF Ending!RunWatchers
<1>22. CASE Ending!WatchersDone
  BY <1>22 DEF Ending!WatchersDone
<1>23. CASE Ending!HubStep
  BY <1>23 DEF Ending!HubStep
<1> QED
  BY <1>1, <1>2, <1>3, <1>4, <1>5, <1>6, <1>7, <1>8, <1>9, <1>10, <1>11,
     <1>12, <1>13, <1>14, <1>15, <1>16, <1>17, <1>18, <1>19, <1>20, <1>21, <1>22, <1>23
     DEF Ending!ShutdownNext, Ending!ExitStep, Ending!ConversationStep

\* When the program runs, nothing was stopped and no end announced.
LEMMA EndingStart == Ending!ShutdownInit => EndingInv
<1> SUFFICES ASSUME Ending!ShutdownInit
             PROVE  EndingInv
  OBVIOUS
<1> USE FunctionsTaken DEF Ending!ShutdownInit, Threads, BothFunctions
<1>1. Ending!ShutdownTypeOK
  <2>1. functions \in Seq({"exit_rtsp_listener", "exit_function"})
    OBVIOUS
  <2>2. {quit_requested_from_glib_mainloop, exit_timed} \subseteq BOOLEAN
    BY Zenon
  <2>3. exiting \in [{"main", "glib"} -> {"out", "next", "cancel", "join", "activity", "hook",
                                          "monitor", "dacp", "loop", "metadata", "output", "rest"}]
    OBVIOUS
  <2>4. stopped \subseteq Ending!Services /\ requests \in 0 .. 1 /\ hub_items \in 0 .. 2
    OBVIOUS
  <2> QED
    BY <2>1, <2>2, <2>3, <2>4 DEF Ending!ShutdownTypeOK
<1>2. ListenerGoesFirst
  BY DEF ListenerGoesFirst, InExitFunction
<1>3. StoppedInOrder /\ EndAnnouncedOnce
  BY DEF StoppedInOrder, EndAnnouncedOnce
<1> QED
  BY <1>1, <1>2, <1>3 DEF EndingInv

\* The four parts together are inductive.
LEMMA EndingKept == EndingInv /\ [Ending!ShutdownNext]_shutdownVars => EndingInv'
<1> SUFFICES ASSUME EndingInv, [Ending!ShutdownNext]_shutdownVars
             PROVE  EndingInv'
  OBVIOUS
<1>1. CASE Ending!ShutdownNext
  BY <1>1, ListenerGoesFirstKept, StoppedInOrderKept, EndAnnouncedOnceKept, EndingTypesKept
  DEF EndingInv
<1>2. CASE UNCHANGED shutdownVars
  BY <1>2 DEF EndingInv, shutdownVars, Ending!ShutdownTypeOK, ListenerGoesFirst, StoppedInOrder,
     EndAnnouncedOnce, InExitFunction
<1> QED
  BY <1>1, <1>2

\* A conversation that still needs anything is there before the listener has ended, and so before
\* exit_function has stopped anything; the thread that ends the process after a signal is main,
\* which has been through all of exit_function.
LEMMA EndingRight == EndingInv => Ending!UsersGoFirst /\ Ending!StopsEverything
<1> SUFFICES ASSUME EndingInv
             PROVE  Ending!UsersGoFirst /\ Ending!StopsEverything
  OBVIOUS
<1> USE FunctionsTaken DEF EndingInv, ListenerGoesFirst, StoppedInOrder, Threads, Ending!Services
<1>1. stopped = {} \/ Ending!Needs = {}
  BY DEF Ending!Needs
<1>2. Ending!UsersGoFirst
  BY <1>1 DEF Ending!UsersGoFirst
<1>3. Ending!StopsEverything
  BY DEF Ending!StopsEverything, EndAnnouncedOnce, InExitFunction
<1> QED
  BY <1>2, <1>3

(***************************************************************************)
(* The activity monitor, for any number of callers: the safety invariants  *)
(* are inductive together with AwakeInHook.                                *)
(***************************************************************************)

\* The monitor runs its hook awake, and goes on from there without sleeping.
AwakeInHook == monitor = "going_inactive" => ~asleep

MonitorInv == MonitorTypeOK /\ StateFollowsPlayer /\ NoLostSignal /\ AwakeInHook

\* Nothing is active to begin with.
LEMMA MonitorInitInv == MonitorInit => MonitorInv
BY DEF MonitorInit, MonitorInv, MonitorTypeOK, StateFollowsPlayer, NoLostSignal, AwakeInHook

\* A caller's first critical section: it changes the state with the player when
\* the monitor would come too late for that, and has its signal still to send.
LEMMA SignifyKeeps ==
  ASSUME MonitorInv, NEW t \in Callers, NEW active \in BOOLEAN, Signify(t, active)
  PROVE  MonitorInv'
<1> USE DEF MonitorInv, Signify, Begins, Ends
<1>1. MonitorTypeOK'
  BY DEF MonitorTypeOK, StateFollowsPlayer
<1>2. StateFollowsPlayer'
  BY DEF MonitorTypeOK, StateFollowsPlayer
<1>3. NoLostSignal'
  <2>1. timed /\ ~active => pc'[t] = "signal"
    BY DEF MonitorTypeOK
  <2>2. player_state' = "inactive" => ~active
    OBVIOUS
  <2> QED
    BY <2>1, <2>2 DEF NoLostSignal
<1>4. AwakeInHook'
  BY DEF AwakeInHook
<1> QED
  BY <1>1, <1>2, <1>3, <1>4

\* The rest of a caller, cancelled or not.
LEMMA CallerKeeps ==
  ASSUME MonitorInv, NEW t \in Callers, CallerStep(t) \/ CancelledInHook(t)
  PROVE  MonitorInv'
<1> USE DEF MonitorInv, MonitorTypeOK, StateFollowsPlayer, NoLostSignal, AwakeInHook
<1>1. CASE Hook(t)
  BY <1>1 DEF Hook
<1>2. CASE SignalMonitor(t)
  BY <1>2 DEF SignalMonitor
<1>3. CASE CancelledInHook(t)
  BY <1>3 DEF CancelledInHook
<1> QED
  BY <1>1, <1>2, <1>3 DEF CallerStep

\* The monitor: each case of its switch, and its hook.
LEMMA MonitorKeeps ==
  ASSUME MonitorInv, MonitorStep
  PROVE  MonitorInv'
<1> USE DEF MonitorInv, MonitorTypeOK, StateFollowsPlayer, NoLostSignal, AwakeInHook
<1>1. CASE Sleep
  BY <1>1 DEF Sleep
<1>2. CASE SeeActive
  BY <1>2 DEF SeeActive
<1>3. CASE SeeInactive
  BY <1>3 DEF SeeInactive
<1>4. CASE Resume
  BY <1>4 DEF Resume
<1>5. CASE TimeUp
  BY <1>5 DEF TimeUp
<1>6. CASE MonitorHook
  BY <1>6 DEF MonitorHook
<1> QED
  BY <1>1, <1>2, <1>3, <1>4, <1>5, <1>6 DEF MonitorStep

\* Every step keeps the invariant.
LEMMA MonitorKept ==
  ASSUME MonitorInv, [MonitorNext]_monitorVars
  PROVE  MonitorInv'
<1>1. CASE UNCHANGED monitorVars
  BY <1>1 DEF monitorVars, MonitorInv, MonitorTypeOK, StateFollowsPlayer, NoLostSignal, AwakeInHook
<1> QED
  BY <1>1, SignifyKeeps, CallerKeeps, MonitorKeeps DEF MonitorNext

\* The invariant holds in every reachable state.
LEMMA MonitorInvariance == MonitorSpec => []MonitorInv
<1>1. MonitorInv /\ [MonitorNext]_monitorVars => MonitorInv'
  BY MonitorKept
<1> QED
  BY <1>1, MonitorInitInv, PTL DEF MonitorSpec

\* Every variable keeps to its type, and without active_state_timeout nothing
\* ever times out.
THEOREM MonitorTypeCorrect == MonitorSpec => []MonitorTypeOK
<1>1. MonitorInv => MonitorTypeOK
  BY DEF MonitorInv
<1> QED
  BY <1>1, MonitorInvariance, PTL

\* The program is never inactive while the player is active, however callers
\* and the monitor interleave; without active_state_timeout it is active only
\* while the player is.
THEOREM StateCorrect == MonitorSpec => []StateFollowsPlayer
<1>1. MonitorInv => StateFollowsPlayer
  BY DEF MonitorInv
<1> QED
  BY <1>1, MonitorInvariance, PTL

\* The monitor never sleeps through the end of the player's activity.
THEOREM SignalNotLost == MonitorSpec => []NoLostSignal
<1>1. MonitorInv => NoLostSignal
  BY DEF MonitorInv
<1> QED
  BY <1>1, MonitorInvariance, PTL

\* However callers and the monitor interleave, the program follows the player.
THEOREM FollowsPlayer == MonitorSpec => []ActivityFollows
<1> QED
  BY StateCorrect, SignalNotLost, PTL DEF ActivityFollows

(***************************************************************************)
(* The DACP monitor: its types                                             *)
(***************************************************************************)

LEMMA MaxBadIsNat == MaxBad \in Nat
  BY DacpAssumption, Zenon DEF DacpAssumption

\* The result is debounced within its bounds.
LEMMA BadCountBounded ==
  ASSUME bad_result_count \in 0 .. MaxBad
  PROVE  0 \in 0 .. MaxBad /\ Dacp!BadNow \in 0 .. MaxBad
  BY MaxBadIsNat DEF Dacp!BadNow

\* A membership is a truth value, for the monitor's flags.
LEMMA MembershipIsBoolean ==
  ASSUME NEW x, NEW S
  PROVE  (x \in S) \in BOOLEAN
  BY SMT

\* The DACP monitor starts without a server.
LEMMA DacpStart == Dacp!Init => Dacp!TypeOK
<1> SUFFICES ASSUME Dacp!Init
             PROVE  Dacp!TypeOK
  OBVIOUS
<1>1. {port, scan_enable, dacp_server_active, news} \subseteq BOOLEAN
  BY ZenonT(60) DEF Dacp!Init
<1>2. bad_result_count \in 0 .. MaxBad
  BY MaxBadIsNat DEF Dacp!Init
<1> QED
  BY <1>1, <1>2, ZenonT(60) DEF Dacp!Init, Dacp!TypeOK

\* Every step of the DACP monitor keeps the types.
LEMMA DacpKept == Dacp!TypeOK /\ [Dacp!Next]_dacpVars => Dacp!TypeOK'
<1> SUFFICES ASSUME Dacp!TypeOK, [Dacp!Next]_dacpVars
             PROVE  Dacp!TypeOK'
  OBVIOUS
<1> USE DEF Dacp!server, Dacp!thread, Dacp!browser, Dacp!network
<1>0. /\ port \in BOOLEAN /\ scan_enable \in BOOLEAN /\ dacp_server_active \in BOOLEAN
      /\ news \in BOOLEAN
      /\ dacp_id \in Servers \union {"no id"} /\ browsed \in Servers \union {"no id"}
      /\ dacp_monitor \in {"look", "wait", "talk", "got"}
      /\ result \in {"none", "answer", "bad", "no port"} /\ bad_result_count \in 0 .. MaxBad
      /\ advertised \subseteq Servers /\ reachable \subseteq Servers
  BY ZenonT(60) DEF Dacp!TypeOK, Dacp!NoId
<1>1. port' \in BOOLEAN /\ scan_enable' \in BOOLEAN
  <2>1. CASE \E s \in Servers : Dacp!Leave(s) \/ Dacp!Vanish(s) \/ Dacp!Come(s)
    BY <1>0, <2>1, Zenon DEF Dacp!Leave, Dacp!Vanish, Dacp!Come
  <2>2. CASE \E c \in Clients : Dacp!SetServer(c)
    <3>1. PICK c \in Clients : Dacp!SetServer(c)
      BY <2>2
    <3>2. CASE c = "no id" \/ c /= dacp_id
      BY <3>1, <3>2, Zenon DEF Dacp!SetServer, Dacp!NoId
    <3>3. CASE ~(c = "no id" \/ c /= dacp_id)
      BY <1>0, <3>1, <3>3, Zenon DEF Dacp!SetServer, Dacp!NoId
    <3> QED
      BY <3>2, <3>3
  <2>3. CASE Dacp!PortUpdate
    <3>1. CASE browsed = dacp_id
      <4>1. port' = (browsed \in advertised) /\ scan_enable' = (browsed \in advertised)
        BY <2>3, <3>1, Zenon DEF Dacp!PortUpdate, Dacp!PortFound
      <4> QED
        BY <4>1, MembershipIsBoolean, Zenon
    <3>2. CASE browsed /= dacp_id
      BY <1>0, <2>3, <3>2, Zenon DEF Dacp!PortUpdate
    <3> QED
      BY <3>1, <3>2
  <2>4. CASE Dacp!MonitorStep \/ UNCHANGED dacpVars
    BY <1>0, <2>4, Zenon DEF Dacp!MonitorStep, Dacp!Look, Dacp!Wake, Dacp!Talk, Dacp!Browse, Dacp!Judge,
       dacpVars
  <2> QED
    BY <2>1, <2>2, <2>3, <2>4 DEF Dacp!Next
<1>2. dacp_server_active' \in BOOLEAN
  BY <1>0 DEF Dacp!Leave, Dacp!Vanish, Dacp!Come, Dacp!SetServer, Dacp!PortUpdate,
     Dacp!MonitorStep, Dacp!Look, Dacp!Wake, Dacp!Talk, Dacp!Browse, Dacp!Judge, Dacp!Next, dacpVars
<1>3. news' \in BOOLEAN
  <2>1. CASE \E s \in Servers : Dacp!Leave(s) \/ Dacp!Vanish(s) \/ Dacp!Come(s)
    BY <1>0, <2>1, Zenon DEF Dacp!Leave, Dacp!Vanish, Dacp!Come
  <2>2. CASE Dacp!Browse
    <3>1. CASE dacp_id \notin {"no id", browsed}
      <4>1. news' = (dacp_id \in advertised)
        BY <2>2, <3>1, Zenon DEF Dacp!Browse, Dacp!NoId
      <4> QED
        BY <4>1, MembershipIsBoolean, Zenon
    <3>2. CASE dacp_id \in {"no id", browsed}
      BY <1>0, <2>2, <3>2, Zenon DEF Dacp!Browse, Dacp!NoId
    <3> QED
      BY <3>1, <3>2
  <2>3. CASE news' = FALSE \/ news' = news
    BY <1>0, <2>3, Zenon
  <2> QED
    BY <2>1, <2>2, <2>3, Zenon DEF Dacp!Next, Dacp!SetServer, Dacp!PortUpdate, Dacp!MonitorStep,
       Dacp!Look, Dacp!Wake, Dacp!Talk, Dacp!Judge, dacpVars
<1>4. /\ dacp_id' \in Servers \union {"no id"} /\ browsed' \in Servers \union {"no id"}
      /\ advertised' \subseteq Servers /\ reachable' \subseteq Servers
  BY <1>0, DacpAssumption DEF DacpAssumption, Dacp!NoId, Dacp!Leave, Dacp!Vanish, Dacp!Come,
     Dacp!SetServer, Dacp!PortUpdate, Dacp!MonitorStep, Dacp!Look, Dacp!Wake, Dacp!Talk,
     Dacp!Browse, Dacp!Judge, Dacp!Next, dacpVars
<1>5. /\ dacp_monitor' \in {"look", "wait", "talk", "got"}
      /\ result' \in {"none", "answer", "bad", "no port"}
      /\ bad_result_count' \in 0 .. MaxBad
  <2>1. /\ dacp_monitor \in {"look", "wait", "talk", "got"}
        /\ result \in {"none", "answer", "bad", "no port"}
        /\ bad_result_count \in 0 .. MaxBad
    BY <1>0
  <2>2. CASE \E s \in Servers : Dacp!Leave(s) \/ Dacp!Vanish(s) \/ Dacp!Come(s)
    BY <2>1, <2>2 DEF Dacp!Leave, Dacp!Vanish, Dacp!Come
  <2>3. CASE (\E c \in Clients : Dacp!SetServer(c)) \/ Dacp!PortUpdate \/ UNCHANGED dacpVars
    BY <2>1, <2>3 DEF Dacp!SetServer, Dacp!PortUpdate, dacpVars
  <2>4. CASE Dacp!MonitorStep
    <3>1. CASE Dacp!Look \/ Dacp!Wake
      BY <2>1, <3>1, BadCountBounded, Zenon DEF Dacp!Look, Dacp!Wake
    <3>2. CASE Dacp!Talk
      BY <2>1, <3>2 DEF Dacp!Talk
    <3>3. CASE Dacp!Browse
      BY <2>1, <3>3 DEF Dacp!Browse
    <3>4. CASE Dacp!Judge
      <4>1. Dacp!BadNow \in 0 .. MaxBad
        BY <2>1, BadCountBounded, Zenon
      <4>2. dacp_monitor' = "look" /\ result' = "none" /\ bad_result_count' = Dacp!BadNow
        BY <3>4, Zenon DEF Dacp!Judge
      <4> QED
        BY <4>1, <4>2
    <3> QED
      BY <2>4, <3>1, <3>2, <3>3, <3>4 DEF Dacp!MonitorStep
  <2> QED
    BY <2>2, <2>3, <2>4 DEF Dacp!Next
<1> QED
  BY <1>1, <1>2, <1>3, <1>4, <1>5, ZenonT(60) DEF Dacp!TypeOK, Dacp!NoId

(***************************************************************************)
(* The player's synchronisation: frames on their target                    *)
(***************************************************************************)

LEMMA LeastNumber ==
  ASSUME NEW S, S \subseteq Nat, S /= {}
  PROVE  \E x \in S : \A y \in S : x <= y
<1> DEFINE R == {ss \in Nat \X Nat : ss[1] < ss[2]}
<1>1. IsWellFoundedOn(R, Nat)
  BY NatLessThanWellFounded DEF OpToRel
<1> HIDE DEF R
<1>2. PICK x \in S : \A y \in S : ~(<<y, x>> \in R)
  BY <1>1, WFMin
<1> SUFFICES ASSUME NEW y \in S, y < x
             PROVE  FALSE
  BY <1>2
<1>3. <<y, x>> \in Nat \X Nat /\ <<y, x>>[1] = y /\ <<y, x>>[2] = x
  BY <1>2
<1>4. <<y, x>> \in R
  BY <1>3 DEF R
<1> QED
  BY <1>2, <1>4

\* Of some of a row of numbers one is the highest: else there would be a least k such that
\* those among the first k have no highest.
LEMMA HighestExists ==
  ASSUME NEW n \in Nat, NEW s \in [1 .. n -> Int], NEW D, D \subseteq 1 .. n, D /= {}
  PROVE  \E x \in D : \A y \in D : s[y] <= s[x]
<1> DEFINE Without == {k \in Nat : /\ k <= n /\ D \cap (1 .. k) /= {}
                                   /\ ~\E x \in D \cap (1 .. k) : \A y \in D \cap (1 .. k) : s[y] <= s[x]}
<1> SUFFICES ASSUME ~\E x \in D : \A y \in D : s[y] <= s[x]
             PROVE  FALSE
  OBVIOUS
<1>1. D \cap (1 .. n) = D
  OBVIOUS
<1>2. n \in Without
  BY <1>1, SMTT(30)
<1>3. PICK k \in Without : \A j \in Without : k <= j
  <2>1. Without \subseteq Nat /\ Without /= {}
    BY <1>2
  <2> HIDE DEF Without
  <2> QED
    BY <2>1, LeastNumber
<1>4. /\ k \in Nat /\ k <= n /\ k >= 1 /\ k - 1 \in Nat
      /\ D \cap (1 .. k) /= {}
      /\ ~\E x \in D \cap (1 .. k) : \A y \in D \cap (1 .. k) : s[y] <= s[x]
  BY <1>3
<1>5. k - 1 \notin Without
  <2> HIDE DEF Without
  <2>1. ~(k <= k - 1)
    BY <1>4
  <2> QED
    BY <1>3, <2>1
<1>6. \/ D \cap (1 .. k - 1) = {}
      \/ \E x \in D \cap (1 .. k - 1) : \A y \in D \cap (1 .. k - 1) : s[y] <= s[x]
  <2>1. k - 1 \in Nat /\ k - 1 <= n
    BY <1>4
  <2> QED
    BY <1>5, <2>1, Zenon
<1> HIDE DEF Without
<1>7. \A y \in D \cap (1 .. k) : y \in Int /\ s[y] \in Int /\ (y = k \/ y \in D \cap (1 .. k - 1))
  BY <1>4
<1>8. CASE D \cap (1 .. k - 1) = {}
  <2>1. \A y \in D \cap (1 .. k) : y = k
    BY <1>7, <1>8
  <2> QED
    BY <1>4, <1>7, <2>1
<1>9. ASSUME NEW x \in D \cap (1 .. k - 1), \A y \in D \cap (1 .. k - 1) : s[y] <= s[x]
      PROVE  FALSE
  <2>1. x \in D \cap (1 .. k) /\ s[x] \in Int
    BY <1>4
  <2>2. CASE k \in D /\ s[x] < s[k]
    <3>1. k \in D \cap (1 .. k) /\ s[k] \in Int
      BY <1>4, <2>2
    <3>2. ASSUME NEW y \in D \cap (1 .. k)
          PROVE  s[y] <= s[k]
      <4>1. CASE y = k
        BY <3>1, <4>1
      <4>2. CASE y \in D \cap (1 .. k - 1)
        <5>1. s[y] <= s[x] /\ s[y] \in Int
          BY <1>7, <1>9, <4>2, Zenon
        <5> QED
          BY <2>1, <2>2, <3>1, <5>1, SMTT(30)
      <4> QED
        BY <1>7, <4>1, <4>2, Zenon
    <3> QED
      BY <1>4, <3>1, <3>2
  <2>3. CASE k \notin D \/ ~(s[x] < s[k])
    <3>1. ASSUME NEW y \in D \cap (1 .. k)
          PROVE  s[y] <= s[x]
      <4>1. CASE y = k
        BY <1>7, <2>1, <2>3, <4>1
      <4>2. CASE y \in D \cap (1 .. k - 1)
        BY <1>9, <4>2, Zenon
      <4> QED
        BY <1>7, <4>1, <4>2, Zenon
    <3> QED
      BY <1>4, <2>1, <3>1
  <2> QED
    BY <2>2, <2>3
<1> QED
  BY <1>6, <1>8, <1>9

\* Among finitely many positions of a sequence of integers one holds the least.
LEMMA LowestExists ==
  ASSUME NEW n \in Nat, NEW s \in [1 .. n -> Int], NEW D, D \subseteq 1 .. n, D /= {}
  PROVE  \E x \in D : \A y \in D : s[x] <= s[y]
<1> DEFINE t == [k \in 1 .. n |-> -s[k]]
<1>1. t \in [1 .. n -> Int] /\ \A k \in 1 .. n : s[k] \in Int /\ t[k] = -s[k]
  OBVIOUS
<1> HIDE DEF t
<1>2. PICK x \in D : \A y \in D : t[y] <= t[x]
  BY <1>1, HighestExists
<1>3. \A y \in D : s[x] <= s[y]
  BY <1>1, <1>2
<1> QED
  BY <1>3

\* Max and Min of the community modules are of the set, and its bounds.
LEMMA MaxOfSome ==
  ASSUME NEW n \in Nat, NEW s \in [1 .. n -> Int], NEW D, D \subseteq 1 .. n, D /= {}
  PROVE  /\ \E k \in D : Sync!Max({s[j] : j \in D}) = s[k]
         /\ \A k \in D : s[k] <= Sync!Max({s[j] : j \in D})
<1> DEFINE T == {s[j] : j \in D}
<1>1. PICK x \in D : \A y \in D : s[y] <= s[x]
  BY HighestExists
<1>2. s[x] \in T /\ \A t \in T : s[x] >= t
  BY <1>1
<1>3. Sync!Max(T) \in T /\ \A t \in T : Sync!Max(T) >= t
  <2> HIDE DEF T
  <2> QED
    BY <1>2 DEF Sync!Max
<1>4. \A k \in D : s[k] \in Int
  OBVIOUS
<1> QED
  BY <1>3, <1>4

\* The minimum of the samples at some positions is one of them and is below all of them.
LEMMA MinOfSome ==
  ASSUME NEW n \in Nat, NEW s \in [1 .. n -> Int], NEW D, D \subseteq 1 .. n, D /= {}
  PROVE  /\ \E k \in D : Sync!Min({s[j] : j \in D}) = s[k]
         /\ \A k \in D : Sync!Min({s[j] : j \in D}) <= s[k]
<1> DEFINE T == {s[j] : j \in D}
<1>1. PICK x \in D : \A y \in D : s[x] <= s[y]
  BY LowestExists
<1>2. s[x] \in T /\ \A t \in T : s[x] <= t
  BY <1>1
<1>3. Sync!Min(T) \in T /\ \A t \in T : Sync!Min(T) <= t
  <2> HIDE DEF T
  <2> QED
    BY <1>2 DEF Sync!Min
<1>4. \A k \in D : s[k] \in Int
  OBVIOUS
<1> QED
  BY <1>3, <1>4

\* The larger and the smaller of two integers.
LEMMA OfTwo ==
  ASSUME NEW a \in Int, NEW b \in Int
  PROVE  /\ Sync!Max({a, b}) = IF a >= b THEN a ELSE b
         /\ Sync!Min({a, b}) = IF a <= b THEN a ELSE b
<1>1. \E x \in {a, b} : \A y \in {a, b} : x >= y
  OBVIOUS
<1>2. \E x \in {a, b} : \A y \in {a, b} : x <= y
  OBVIOUS
<1>3. Sync!Max({a, b}) \in {a, b} /\ \A y \in {a, b} : Sync!Max({a, b}) >= y
  BY <1>1 DEF Sync!Max
<1>4. Sync!Min({a, b}) \in {a, b} /\ \A y \in {a, b} : Sync!Min({a, b}) <= y
  BY <1>2 DEF Sync!Min
<1> QED
  BY <1>3, <1>4

\* The second highest and the second lowest of errors that are all positive are too.
LEMMA LateIfAllAre ==
  ASSUME NEW n \in Nat, NEW s \in [1 .. n -> Int], NEW i \in 0 .. n - 1,
         \A k \in 1 .. n : s[k] > 0
  PROVE  Sync!Centred(s, i) \in Nat
<1>1. DOMAIN s = 1 .. n /\ i + 1 \in 1 .. n
  OBVIOUS
<1>2. /\ \E k \in 1 .. n : Sync!Highest(s) = s[k]
      /\ \E k \in 1 .. n : Sync!Lowest(s) = s[k]
  <2>1. 1 .. n \subseteq 1 .. n /\ 1 .. n /= {}
    BY <1>1
  <2>2. /\ Sync!Highest(s) = Sync!Max({s[j] : j \in 1 .. n})
        /\ Sync!Lowest(s) = Sync!Min({s[j] : j \in 1 .. n})
    BY <1>1, Zenon DEF Sync!Highest, Sync!Lowest
  <2>3. \E k \in 1 .. n : Sync!Max({s[j] : j \in 1 .. n}) = s[k]
    BY <2>1, MaxOfSome, Zenon
  <2>4. \E k \in 1 .. n : Sync!Min({s[j] : j \in 1 .. n}) = s[k]
    BY <2>1, MinOfSome, Zenon
  <2> QED
    BY <2>2, <2>3, <2>4, Zenon
<1>3. \E k \in 1 .. n : Sync!SecondHighest(s, i) = s[k]
  <2>1. CASE s[i + 1] = Sync!Highest(s)
    BY <1>2, <2>1 DEF Sync!SecondHighest
  <2>2. CASE s[i + 1] /= Sync!Highest(s)
    <3> DEFINE c == CHOOSE j \in DOMAIN s : s[j] = Sync!Highest(s)
               D == DOMAIN s \ {c}
    <3>1. c \in 1 .. n /\ s[c] = Sync!Highest(s)
      BY <1>1, <1>2
    <3>2. i + 1 \in D
      BY <1>1, <2>2, <3>1
    <3>3. D \subseteq 1 .. n
      BY <1>1
    <3>4. Sync!SecondHighest(s, i) = Sync!Max({s[k] : k \in D})
      BY <2>2 DEF Sync!SecondHighest, Sync!Others
    <3> HIDE DEF c, D
    <3> QED
      BY <3>2, <3>3, <3>4, MaxOfSome
  <2> QED
    BY <2>1, <2>2
<1>4. \E k \in 1 .. n : Sync!SecondLowest(s, i) = s[k]
  <2>1. CASE s[i + 1] = Sync!Lowest(s)
    BY <1>2, <2>1 DEF Sync!SecondLowest
  <2>2. CASE s[i + 1] /= Sync!Lowest(s)
    <3> DEFINE c == CHOOSE j \in DOMAIN s : s[j] = Sync!Lowest(s)
               D == DOMAIN s \ {c}
    <3>1. c \in 1 .. n /\ s[c] = Sync!Lowest(s)
      BY <1>1, <1>2
    <3>2. i + 1 \in D
      BY <1>1, <2>2, <3>1
    <3>3. D \subseteq 1 .. n
      BY <1>1
    <3>4. Sync!SecondLowest(s, i) = Sync!Min({s[k] : k \in D})
      BY <2>2 DEF Sync!SecondLowest, Sync!Others
    <3> HIDE DEF c, D
    <3> QED
      BY <3>2, <3>3, <3>4, MinOfSome
  <2> QED
    BY <2>1, <2>2
<1> DEFINE h == Sync!SecondHighest(s, i)
           l == Sync!SecondLowest(s, i)
<1>5. h \in Int /\ h > 0 /\ l \in Int /\ l > 0
  BY <1>3, <1>4
<1>6. Sync!Centred(s, i) = Sync!Half(h + l)
  BY DEF Sync!Centred
<1> HIDE DEF h, l
<1> QED
  BY <1>5, <1>6 DEF Sync!Half

SyncNumbers ==
  /\ lead \in Int /\ syncError \in Int /\ target \in Int
  /\ queue \in Nat /\ frames_to_skip \in Nat
  /\ last_sample_index \in 0 .. History - 1
  /\ play_number \in 0 .. Settling /\ troubles \in 0 .. MaxTroubles

SyncFlags == {ab_buffering, primed, inTime, first, skipping, landed, replaced} \subseteq BOOLEAN

SyncSamples == \E n \in 0 .. History : sync_samples \in [1 .. n -> Int]

\* While buffering, what the device has to play ends before the first packet is due.
SilenceFits ==
  /\ ab_buffering => first
  /\ ab_buffering /\ ~primed => queue = 0
  /\ ab_buffering /\ primed => queue <= lead \/ lead < 0

\* What is left to skip is what the error has too much; a first packet follows no skip.
SkipIsError ==
  /\ first => frames_to_skip = 0 /\ ~skipping
  /\ frames_to_skip > 0 => syncError = target + frames_to_skip

SyncInv ==
  /\ SyncNumbers /\ SyncFlags /\ SyncSamples /\ SilenceFits /\ SkipIsError
  /\ Sync!FirstFrameOnTime /\ landed

\* The assumption, in parts.
LEMMA SyncSizes ==
  /\ Length \in Nat /\ Length > 0 /\ History \in Nat /\ History > 0 /\ Chunk \in Nat /\ Chunk > 0
  /\ Tolerance \in Nat /\ Threshold \in Nat /\ Settling \in Nat /\ LeadIn \in Nat
  /\ Desired \in Nat /\ LongestWait \in Nat /\ LongestWait > 0 /\ LongestWait <= Desired + 1
  /\ MaxTroubles \in Nat /\ MaxStall \in Nat
  /\ \A l \in Leads : l \in Int
  /\ \A g \in Gaps : g \in Int
<1>1. \A l \in Leads : l \in Int
  BY SyncAssumption, Zenon DEF SyncAssumption
<1>2. \A g \in Gaps : g \in Int
  BY SyncAssumption, Zenon DEF SyncAssumption
<1>3. /\ Length \in Nat \ {0} /\ History \in Nat \ {0} /\ Chunk \in Nat \ {0}
      /\ Tolerance \in Nat /\ Threshold \in Nat /\ Settling \in Nat /\ LeadIn \in Nat
      /\ Desired \in Nat /\ LongestWait \in 1 .. Desired + 1
      /\ MaxTroubles \in Nat /\ MaxStall \in Nat
  BY SyncAssumption, Zenon DEF SyncAssumption
<1> QED
  BY <1>1, <1>2, <1>3

\* PlayerSync counts as this module does.
LEMMA SyncCounts == \A S : Sync!Cardinality(S) = Cardinality(S)
  BY Zenon DEF Sync!Cardinality, Cardinality

\* What the invariant says of each variable is its type.
LEMMA SyncInvTypes == SyncInv => Sync!SyncTypeOK
<1> SUFFICES ASSUME SyncInv
             PROVE  Sync!SyncTypeOK
  OBVIOUS
<1>1. PICK n \in 0 .. History : sync_samples \in [1 .. n -> Int]
  BY DEF SyncInv, SyncSamples
<1>2. DOMAIN sync_samples = 1 .. n
  BY <1>1
<1>3. n \in Nat /\ n <= History
  BY SyncSizes, <1>1
<1>4. Cardinality(1 .. n) = n
  BY <1>3, FS_Interval
<1>5. {lead, syncError, target} \subseteq Int
  BY DEF SyncInv, SyncNumbers
<1>6. Cardinality(DOMAIN sync_samples) = n
  BY <1>2, <1>4, Zenon
<1>7. /\ DOMAIN sync_samples = 1 .. Sync!Cardinality(DOMAIN sync_samples)
      /\ Sync!Cardinality(DOMAIN sync_samples) <= History
  BY <1>2, <1>3, <1>6, SyncCounts
<1>8. /\ queue \in Nat /\ frames_to_skip \in Nat
      /\ last_sample_index \in 0 .. History - 1
      /\ play_number \in 0 .. Settling /\ troubles \in 0 .. MaxTroubles
  BY DEF SyncInv, SyncNumbers
<1>9. {ab_buffering, primed, inTime, first, skipping, landed, replaced} \subseteq BOOLEAN
  BY Zenon DEF SyncInv, SyncFlags
<1> QED
  BY <1>5, <1>7, <1>8, <1>9, ZenonT(60) DEF Sync!SyncTypeOK

\* A player that has just started has measured nothing and skips nothing.
LEMMA SyncStart == Sync!SyncInit => SyncInv
<1> SUFFICES ASSUME Sync!SyncInit
             PROVE  SyncInv
  OBVIOUS
<1>1. SyncNumbers
  BY SyncSizes DEF Sync!SyncInit, SyncNumbers
<1>2. SyncFlags
  BY ZenonT(60) DEF Sync!SyncInit, SyncFlags
<1>3. SyncSamples
  <2>1. sync_samples \in [1 .. 0 -> Int] /\ 0 \in 0 .. History
    BY SyncSizes DEF Sync!SyncInit
  <2> QED
    BY <2>1 DEF SyncSamples
<1>4. SilenceFits /\ SkipIsError /\ Sync!FirstFrameOnTime /\ landed
  BY DEF Sync!SyncInit, SilenceFits, SkipIsError, Sync!FirstFrameOnTime
<1> QED
  BY <1>1, <1>2, <1>3, <1>4 DEF SyncInv

\* A wait that the device's queue, or the time to the first packet, outlasts.
LEMMA PassKeeps ==
  ASSUME SyncNumbers, NEW wait \in BOOLEAN, NEW queued \in Nat, Sync!PassTime(wait, queued)
  PROVE  /\ lead' \in Int /\ queue' \in Nat
         /\ queued = 0 => queue' = 0
         /\ queued <= lead => queue' <= lead' \/ lead' < 0
         /\ ~wait => lead' = lead /\ queue' = queued
         /\ queued = lead /\ lead > Desired => queue' = lead'
<1>1. PICK t \in IF wait THEN 1 .. LongestWait ELSE {0} :
        lead' = lead - t /\ queue' = Sync!Max({0, queued - t})
  BY DEF Sync!PassTime
<1>2. t \in Nat /\ t <= LongestWait /\ (~wait => t = 0)
  BY <1>1, SyncSizes
<1>3. Sync!Max({0, queued - t}) = IF 0 >= queued - t THEN 0 ELSE queued - t
  BY <1>2, OfTwo
<1>4. lead \in Int
  BY DEF SyncNumbers
<1> QED
  BY <1>1, <1>2, <1>3, <1>4, SyncSizes

\* The silence that is sent ends before the first packet is due, and just then when it is less
\* than a chunk.
LEMMA LeadInKeeps ==
  ASSUME SyncInv, Sync!LeadInPass
  PROVE  SyncInv'
<1>0. /\ lead \in Int /\ queue \in Nat /\ ab_buffering /\ first
      /\ primed \in BOOLEAN
      /\ ~primed => queue = 0
      /\ primed => queue <= lead \/ lead < 0
  <2>1. primed \in BOOLEAN
    BY Zenon DEF SyncInv, SyncFlags
  <2> QED
    BY <2>1 DEF SyncInv, SyncNumbers, SilenceFits, Sync!LeadInPass
<1> DEFINE sent(now) == IF now THEN Sync!Max({0, Sync!Silence}) ELSE 0
<1>1. PICK delayKnown \in {TRUE, ~primed} :
        LET now == lead >= 0 /\ lead <= LeadIn /\ delayKnown IN
        /\ ab_buffering' = (lead >= 0 /\ (now => Sync!Silence >= Chunk))
        /\ primed' = (primed \/ sent(now) > 0)
        /\ Sync!PassTime(ab_buffering' \/ Sync!TooEarly, queue + sent(now))
        /\ inTime' = (~ab_buffering' /\ lead >= 0)
  BY DEF Sync!LeadInPass
<1> DEFINE now == lead >= 0 /\ lead <= LeadIn /\ delayKnown
           queued == queue + sent(now)
<1>2. Sync!Silence = IF Chunk <= lead - queue THEN Chunk ELSE lead - queue
  <2>1. Sync!Queued = queue
    BY <1>0 DEF Sync!Queued
  <2>2. Sync!Silence = Sync!Min({Chunk, lead - queue})
    BY <2>1, Zenon DEF Sync!Silence
  <2>3. Chunk \in Int /\ lead - queue \in Int
    BY <1>0, SyncSizes
  <2> QED
    BY <2>2, <2>3, OfTwo
<1>3. sent(now) = IF now /\ Sync!Silence > 0 THEN Sync!Silence ELSE 0
  BY <1>0, <1>2, SyncSizes, OfTwo
<1>4. /\ queued \in Nat
      /\ lead >= 0 => queued <= lead
      /\ now /\ ~(Sync!Silence >= Chunk) => queued = lead
      /\ ~(sent(now) > 0) => queued = queue
  BY <1>0, <1>2, <1>3, SyncSizes
<1>5. /\ ab_buffering' <=> (lead >= 0 /\ (now => Sync!Silence >= Chunk))
      /\ primed' <=> primed \/ sent(now) > 0
      /\ inTime' <=> ~ab_buffering' /\ lead >= 0
      /\ Sync!PassTime(ab_buffering' \/ Sync!TooEarly, queued)
  BY <1>1
<1> HIDE DEF now, queued, sent
<1>6. /\ lead' \in Int /\ queue' \in Nat
      /\ queued = 0 => queue' = 0
      /\ queued <= lead => queue' <= lead' \/ lead' < 0
      /\ ~(ab_buffering' \/ Sync!TooEarly) => lead' = lead /\ queue' = queued
      /\ queued = lead /\ lead > Desired => queue' = lead'
  <2>1. SyncNumbers
    BY DEF SyncInv
  <2>2. (ab_buffering' \/ Sync!TooEarly) \in BOOLEAN
    BY Zenon
  <2> QED
    BY <1>4, <1>5, <2>1, <2>2, PassKeeps, Zenon
<1>7. SyncNumbers'
  BY <1>6 DEF SyncInv, SyncNumbers, Sync!LeadInPass, Sync!skipVars, Sync!history
<1>8. SyncFlags'
  <2>1. ab_buffering' \in BOOLEAN /\ primed' \in BOOLEAN /\ inTime' \in BOOLEAN
    BY <1>1, Zenon
  <2>2. UNCHANGED <<first, skipping, landed, replaced>>
    BY DEF Sync!LeadInPass, Sync!skipVars
  <2> QED
    BY <2>1, <2>2, ZenonT(60) DEF SyncInv, SyncFlags
<1>9. SyncSamples'
  BY DEF SyncInv, SyncSamples, Sync!LeadInPass, Sync!history
<1>10. SilenceFits' /\ Sync!FirstFrameOnTime'
  <2>1. first' = first
    BY DEF Sync!LeadInPass
  <2>2. ab_buffering' /\ ~primed' => queue' = 0
    BY <1>0, <1>4, <1>5, <1>6
  <2>3. ab_buffering' /\ primed' => queue' <= lead' \/ lead' < 0
    BY <1>0, <1>4, <1>5, <1>6
  <2>4. ~ab_buffering' /\ inTime' => queue' = lead'
    <3> SUFFICES ASSUME ~ab_buffering', inTime'
                 PROVE  queue' = lead'
      OBVIOUS
    <3>1. queued = lead
      BY <1>0, <1>4, <1>5
    <3> QED
      BY <1>0, <1>6, <3>1 DEF Sync!TooEarly
  <2> QED
    BY <1>0, <2>1, <2>2, <2>3, <2>4 DEF SilenceFits, Sync!FirstFrameOnTime
<1>11. SkipIsError' /\ landed'
  BY DEF SyncInv, SkipIsError, Sync!LeadInPass, Sync!skipVars
<1> QED
  BY <1>7, <1>8, <1>9, <1>10, <1>11 DEF SyncInv

\* A sample is added, and is the newest.
LEMMA AddIs ==
  ASSUME SyncSamples, NEW x \in Int
  PROVE  \E n \in 1 .. History : Sync!Add(x) \in [1 .. n -> Int] /\ Sync!Add(x)[1] = x
<1>1. PICK m \in 0 .. History : sync_samples \in [1 .. m -> Int]
  BY DEF SyncSamples
<1>2. m \in Nat /\ m <= History /\ History \in Nat /\ History > 0
  BY SyncSizes
<1>3. Sync!Cardinality(DOMAIN sync_samples) = m
  <2>1. DOMAIN sync_samples = 1 .. m
    BY <1>1
  <2>2. Cardinality(1 .. m) = m
    BY <1>2, FS_Interval
  <2> QED
    BY <2>1, <2>2, SyncCounts, Zenon
<1> DEFINE n == IF m + 1 <= History THEN m + 1 ELSE History
<1>4. Sync!Min({m + 1, History}) = n
  BY <1>2, OfTwo
<1>5. n \in 1 .. History /\ n <= m + 1
  BY <1>2
<1>6. Sync!Add(x) = [k \in 1 .. n |-> IF k = 1 THEN x ELSE sync_samples[k - 1]]
  <2>1. 1 .. Sync!Min({Sync!Cardinality(DOMAIN sync_samples) + 1, History}) = 1 .. n
    BY <1>3, <1>4, Zenon
  <2> HIDE DEF n
  <2> QED
    BY <2>1 DEF Sync!Add
<1> HIDE DEF n
<1>7. \A k \in 1 .. n : k /= 1 => k - 1 \in 1 .. m
  BY <1>2, <1>5
<1>8. \A k \in 1 .. m : sync_samples[k] \in Int
  BY <1>1
<1>9. \A k \in 1 .. n : (IF k = 1 THEN x ELSE sync_samples[k - 1]) \in Int
  BY <1>7, <1>8
<1>10. Sync!Add(x) \in [1 .. n -> Int] /\ Sync!Add(x)[1] = x
  BY <1>2, <1>5, <1>6, <1>9
<1> QED
  BY <1>5, <1>10

\* A stream that is out of bounds is so in its newest sample too, and on the same side.
LEMMA OutIsOut ==
  ASSUME NEW s \in [1 .. History -> Int], NEW i \in 0 .. History - 1,
         Sync!OutOfBounds(s, Sync!Centred(s, i))
  PROVE  s[1] /= 0 /\ (Sync!Centred(s, i) < 0 => s[1] < 0)
<1>1. DOMAIN s = 1 .. History /\ 1 \in 1 .. History /\ History \in Nat
  BY SyncSizes
<1>2. /\ 1 .. History \subseteq 1 .. History /\ 1 .. History /= {}
      /\ Sync!Highest(s) = Sync!Max({s[j] : j \in 1 .. History})
      /\ Sync!Lowest(s) = Sync!Min({s[j] : j \in 1 .. History})
  BY <1>1, Zenon DEF Sync!Highest, Sync!Lowest
<1>3. /\ \E k \in 1 .. History : Sync!Highest(s) = s[k]
      /\ \A k \in 1 .. History : s[k] <= Sync!Highest(s)
  BY <1>1, <1>2, MaxOfSome, Zenon
<1>4. /\ \E k \in 1 .. History : Sync!Lowest(s) = s[k]
      /\ \A k \in 1 .. History : Sync!Lowest(s) <= s[k]
  BY <1>1, <1>2, MinOfSome, Zenon
<1>5. \A k \in 1 .. History : s[k] \in Int
  OBVIOUS
<1>6. /\ Sync!Highest(s) \in Int /\ Sync!Lowest(s) \in Int /\ s[1] \in Int
      /\ Sync!Lowest(s) <= s[1] /\ s[1] <= Sync!Highest(s)
  BY <1>1, <1>3, <1>4, <1>5
<1>7. ~(Sync!Highest(s) >= 0 /\ Sync!Lowest(s) <= 0)
  BY DEF Sync!OutOfBounds
<1>8. s[1] /= 0
  BY <1>6, <1>7
<1>9. ASSUME s[1] > 0
      PROVE  ~(Sync!Centred(s, i) < 0)
  <2>1. Sync!Lowest(s) > 0
    BY <1>6, <1>7, <1>9
  <2>2. \A k \in 1 .. History : s[k] > 0
    BY <1>4, <1>5, <1>6, <2>1
  <2>3. Sync!Centred(s, i) \in Nat
    BY <1>1, <2>2, LateIfAllAre
  <2> QED
    BY <2>3
<1> QED
  BY <1>6, <1>8, <1>9

\* What is left to skip after a packet is what the error has too much, and the error is the one
\* that was aimed at when nothing is.
LEMMA SkipEnds ==
  ASSUME NEW samples \in Nat, NEW skip \in Nat, NEW still, NEW e \in Int, NEW aim \in Int,
         skip > 0 => samples = Length /\ e = aim + skip,
         Sync!PlaySamples(samples, skip, still, e)
  PROVE  /\ syncError' \in Int /\ frames_to_skip' \in Nat
         /\ frames_to_skip' > 0 => syncError' = aim + frames_to_skip'
         /\ skip /= 0 /\ skip <= samples => syncError' = aim
<1>1. /\ frames_to_skip' = IF skip > samples THEN skip - samples ELSE 0
      /\ syncError' = e + Sync!Max({0, samples - skip}) - Length
  BY Zenon DEF Sync!PlaySamples
<1> QED
  BY <1>1, OfTwo, SyncSizes

\* What is skipped of a packet brings the error as much nearer its target.
LEMMA PlaySamplesKeeps ==
  ASSUME NEW samples \in Nat, NEW skip \in Nat, NEW still, NEW e \in Int,
         target' \in Int, landed,
         skip > 0 => samples = Length /\ e = target' + skip,
         Sync!PlaySamples(samples, skip, still, e)
  PROVE  /\ syncError' \in Int /\ frames_to_skip' \in Nat
         /\ frames_to_skip' > 0 => syncError' = target' + frames_to_skip'
         /\ landed' /\ (landed \in BOOLEAN => landed' \in BOOLEAN) /\ skipping' \in BOOLEAN
<1>2. /\ syncError' \in Int /\ frames_to_skip' \in Nat
      /\ frames_to_skip' > 0 => syncError' = target' + frames_to_skip'
      /\ skip /= 0 /\ skip <= samples => syncError' = target'
  BY SkipEnds, Zenon
<1> DEFINE over == skip /= 0 /\ skip <= samples
<1>3. /\ skipping' = (still /\ ~over)
      /\ landed' = IF over THEN syncError' = target' ELSE landed
  BY Zenon DEF Sync!PlaySamples
<1>4. over => syncError' = target'
  BY <1>2
<1> HIDE DEF over
<1>6. skipping' \in BOOLEAN
  BY <1>3, Zenon
<1>7. landed' /\ (landed \in BOOLEAN => landed' \in BOOLEAN)
  <2>1. CASE over
    BY <1>3, <1>4, <2>1, Zenon
  <2>2. CASE ~over
    <3>1. landed' = landed
      BY <1>3, <2>2, Zenon
    <3> QED
      BY <3>1, Zenon
  <2> QED
    BY <2>1, <2>2
<1> QED
  BY <1>2, <1>6, <1>7, Zenon

\* What PlayInTime works out of a packet.
WorkedOut(gap, late, fix, skip, aim) ==
  /\ late = Sync!Lateness(gap) /\ fix = Sync!ToFix(gap, late) /\ skip = Sync!Skip(late, fix)
  /\ aim = Sync!Aim(gap)

\* What is to be skipped is what the packet would be late, but for the error that is aimed at.
LEMMA WhatToSkip ==
  ASSUME SyncNumbers, SkipIsError, NEW gap \in Int, gap = 0 \/ (~first /\ Sync!Steady),
         NEW late, NEW fix, NEW skip, NEW aim, WorkedOut(gap, late, fix, skip, aim)
  PROVE  /\ late \in Int /\ fix \in Int /\ skip \in Nat /\ aim \in Int
         /\ late + Sync!Max({0, -fix}) \in Int
         /\ skip > 0 => late + Sync!Max({0, -fix}) = aim + skip
         /\ first /\ fix = 0 => late = 0
<1>1. PICK ld \in Int, er \in Int, tg \in Int, qu \in Nat, fr \in Nat :
        ld = lead /\ er = syncError /\ tg = target /\ qu = queue /\ fr = frames_to_skip
  BY DEF SyncNumbers
<1>2. /\ late = IF first THEN qu - ld ELSE er - gap
      /\ fix = IF first \/ gap > 0 THEN late ELSE IF gap < 0 THEN -gap ELSE 0
      /\ aim = IF first \/ gap > 0 \/ (gap = 0 /\ skipping) THEN 0 ELSE IF gap < 0 THEN er ELSE tg
  BY <1>1, Zenon DEF WorkedOut, Sync!Lateness, Sync!ToFix, Sync!Aim
<1>3. late \in Int /\ fix \in Int /\ aim \in Int
  BY <1>2
<1>4. Sync!Max({0, -fix}) = IF 0 >= -fix THEN 0 ELSE -fix
  BY <1>3, OfTwo
<1>5. /\ first => fr = 0 /\ ~skipping
      /\ gap /= 0 => fr = 0 /\ ~skipping /\ ~first
      /\ fr > 0 => er = tg + fr
  BY <1>1 DEF SkipIsError, Sync!Steady
<1>6. skip = IF fix < 0 THEN 0
             ELSE (IF ~skipping THEN fr ELSE IF late > 0 THEN late ELSE 0) + fix
  BY <1>1, Zenon DEF WorkedOut, Sync!Skip, Sync!Estimate
<1>7. CASE first
  BY <1>2, <1>3, <1>4, <1>5, <1>6, <1>7
<1>8. CASE ~first /\ gap /= 0
  BY <1>2, <1>3, <1>4, <1>5, <1>6, <1>8
<1>9. CASE ~first /\ gap = 0
  BY <1>2, <1>3, <1>4, <1>5, <1>6, <1>9
<1> QED
  BY <1>7, <1>8, <1>9

\* What PlayInTime does, given what it works out.
Played(gap, late, fix, skip, samples, index, centred, out) ==
  LET e == late + Sync!Max({0, -fix}) IN
  /\ sync_samples' = samples /\ last_sample_index' = index
  /\ IF out
     THEN /\ syncError' = e - Length
          /\ frames_to_skip' = skip /\ skipping' = Sync!StillSkipping(late, fix)
          /\ UNCHANGED landed
     ELSE Sync!PlaySamples(Length + Sync!Stuff(centred), skip, Sync!StillSkipping(late, fix), e)
  /\ first' = (out /\ centred < 0) /\ ab_buffering' = first'
  /\ IF first'
     THEN queue' = Desired /\ lead' = Desired - syncError' /\ primed' = TRUE
     ELSE UNCHANGED <<queue, lead, primed>>

\* A packet that is measured: played, skipped in part or in whole, or dropped.
LEMMA PlayInTimeKeeps ==
  ASSUME SyncInv, NEW gap \in Int, Sync!PlayInTime(gap)
  PROVE  SyncInv'
<1>1. PICK late, fix, skip, samples, index, centred, out :
        /\ late = Sync!Lateness(gap) /\ fix = Sync!ToFix(gap, late) /\ skip = Sync!Skip(late, fix)
        /\ samples = IF skip = 0 THEN Sync!Add(IF fix = 0 THEN late ELSE 0) ELSE sync_samples
        /\ index = IF skip = 0 THEN (last_sample_index + 1) % History ELSE last_sample_index
        /\ centred = IF skip = 0 THEN Sync!Centred(samples, index) ELSE 0
        /\ out = Sync!OutOfBounds(samples, centred)
        /\ Played(gap, late, fix, skip, samples, index, centred, out)
  <2>1. \E late \in {Sync!Lateness(gap)} : \E fix \in {Sync!ToFix(gap, late)} :
        \E skip \in {Sync!Skip(late, fix)} :
        \E samples \in {IF skip = 0 THEN Sync!Add(IF fix = 0 THEN late ELSE 0) ELSE sync_samples},
           index \in {IF skip = 0 THEN (last_sample_index + 1) % History ELSE last_sample_index} :
        \E centred \in {IF skip = 0 THEN Sync!Centred(samples, index) ELSE 0} :
        \E out \in {Sync!OutOfBounds(samples, centred)} :
          Played(gap, late, fix, skip, samples, index, centred, out)
    BY ZenonT(60) DEF Sync!PlayInTime, Played
  <2>2. PICK late \in {Sync!Lateness(gap)} : \E fix \in {Sync!ToFix(gap, late)} :
        \E skip \in {Sync!Skip(late, fix)} :
        \E samples \in {IF skip = 0 THEN Sync!Add(IF fix = 0 THEN late ELSE 0) ELSE sync_samples},
           index \in {IF skip = 0 THEN (last_sample_index + 1) % History ELSE last_sample_index} :
        \E centred \in {IF skip = 0 THEN Sync!Centred(samples, index) ELSE 0} :
        \E out \in {Sync!OutOfBounds(samples, centred)} :
          Played(gap, late, fix, skip, samples, index, centred, out)
    BY <2>1, Zenon
  <2>3. PICK fix \in {Sync!ToFix(gap, late)} :
        \E skip \in {Sync!Skip(late, fix)} :
        \E samples \in {IF skip = 0 THEN Sync!Add(IF fix = 0 THEN late ELSE 0) ELSE sync_samples},
           index \in {IF skip = 0 THEN (last_sample_index + 1) % History ELSE last_sample_index} :
        \E centred \in {IF skip = 0 THEN Sync!Centred(samples, index) ELSE 0} :
        \E out \in {Sync!OutOfBounds(samples, centred)} :
          Played(gap, late, fix, skip, samples, index, centred, out)
    BY <2>2, Zenon
  <2> QED
    BY <2>2, <2>3, ZenonT(60)
<1>2. /\ ~ab_buffering
      /\ gap = 0 \/ (~first /\ Sync!Steady)
      /\ troubles' = troubles \/ (troubles < MaxTroubles /\ troubles' = troubles + 1)
      /\ target' = Sync!Aim(gap)
      /\ play_number' = Sync!Min({play_number + 1, Settling})
      /\ inTime' = inTime /\ replaced' = replaced
  BY Zenon DEF Sync!PlayInTime, Sync!Playing, Sync!TakeGap, Sync!Trouble
<1> DEFINE e == late + Sync!Max({0, -fix})
           sample == IF fix = 0 THEN late ELSE 0
           still == Sync!StillSkipping(late, fix)
<1>3. PICK aim : aim = Sync!Aim(gap)
  OBVIOUS
<1>4. /\ late \in Int /\ fix \in Int /\ skip \in Nat /\ aim \in Int /\ e \in Int
      /\ skip > 0 => e = aim + skip
      /\ first /\ fix = 0 => late = 0
  <2>1. SyncNumbers /\ SkipIsError
    BY DEF SyncInv
  <2> QED
    <3>1. WorkedOut(gap, late, fix, skip, aim)
      BY <1>1, <1>3, Zenon DEF WorkedOut
    <3>2. gap = 0 \/ (~first /\ Sync!Steady)
      BY <1>2, Zenon
    <3>3. /\ late \in Int /\ fix \in Int /\ skip \in Nat /\ aim \in Int
          /\ late + Sync!Max({0, -fix}) \in Int
          /\ skip > 0 => late + Sync!Max({0, -fix}) = aim + skip
          /\ first /\ fix = 0 => late = 0
      BY <2>1, <3>1, <3>2, WhatToSkip
    <3> QED
      BY <3>3
<1>5. /\ \E n \in 0 .. History : samples \in [1 .. n -> Int]
      /\ skip = 0 => \E n \in 1 .. History : samples \in [1 .. n -> Int] /\ samples[1] = sample
  <2>1. sample \in Int
    BY <1>4
  <2>2. CASE skip = 0
    <3>1. PICK n \in 1 .. History : samples \in [1 .. n -> Int] /\ samples[1] = sample
      BY <1>1, <2>1, <2>2, AddIs, Zenon DEF SyncInv
    <3>2. n \in 0 .. History
      BY <3>1, SyncSizes
    <3> QED
      BY <3>1, <3>2, Zenon
  <2>3. CASE skip /= 0
    BY <1>1, <2>3, Zenon DEF SyncInv, SyncSamples
  <2> QED
    BY <2>2, <2>3
<1>6. index \in 0 .. History - 1
  <2>1. last_sample_index \in 0 .. History - 1
    BY DEF SyncInv, SyncNumbers
  <2>2. (last_sample_index + 1) % History \in 0 .. History - 1
    BY <2>1, SyncSizes
  <2> QED
    BY <1>1, <2>1, <2>2, Zenon
\* Nothing is skipped when a resynchronisation is asked for, and the packet was early.
<1>7. out => skip = 0 /\ (centred < 0 => ~first /\ fix = 0 /\ late < 0 /\ ~still)
  <2> SUFFICES ASSUME out
               PROVE  skip = 0 /\ (centred < 0 => ~first /\ fix = 0 /\ late < 0 /\ ~still)
    OBVIOUS
  <2>1. Sync!OutOfBounds(samples, centred)
    BY <1>1
  <2>2. skip = 0
    <3> SUFFICES ASSUME skip /= 0
                 PROVE  FALSE
      OBVIOUS
    <3>1. centred = 0
      BY <1>1
    <3> QED
      BY <2>1, <3>1, SyncSizes DEF Sync!OutOfBounds
  <2>3. samples \in [1 .. History -> Int] /\ samples[1] = sample
    <3>1. PICK n \in 1 .. History : samples \in [1 .. n -> Int] /\ samples[1] = sample
      BY <1>5, <2>2
    <3>2. Sync!Cardinality(DOMAIN samples) = History
      BY <2>1 DEF Sync!OutOfBounds
    <3>3. DOMAIN samples = 1 .. n /\ n \in Nat
      BY <3>1, SyncSizes
    <3>4. Cardinality(1 .. n) = n
      BY <3>3, FS_Interval
    <3>5. n = History
      BY <3>2, <3>3, <3>4, SyncCounts, Zenon
    <3> QED
      BY <3>1, <3>5, Zenon
  <2>4. centred = Sync!Centred(samples, index)
    BY <1>1, <2>2, Zenon
  <2>5. sample /= 0 /\ (centred < 0 => sample < 0)
    BY <1>6, <2>1, <2>3, <2>4, OutIsOut, Zenon
  <2>6. fix = 0 /\ sample = late
    BY <2>5
  <2>7. ~first
    BY <1>4, <2>5, <2>6
  <2>8. centred < 0 => late < 0 /\ ~still
    BY <1>4, <2>5, <2>6, <2>7 DEF Sync!StillSkipping
  <2> QED
    BY <2>2, <2>6, <2>7, <2>8
<1>8. out /\ centred < 0 => e = late
  BY <1>4, <1>7, OfTwo
<1>9. Played(gap, late, fix, skip, samples, index, centred, out)
  BY <1>1, Zenon
<1> HIDE DEF e, sample
<1>10. /\ sync_samples' = samples /\ last_sample_index' = index
       /\ first' = (out /\ centred < 0) /\ ab_buffering' = first'
       /\ IF first'
          THEN queue' = Desired /\ lead' = Desired - syncError' /\ primed' = TRUE
          ELSE UNCHANGED <<queue, lead, primed>>
       /\ target' = aim
  BY <1>2, <1>3, <1>9, Zenon DEF Played
<1>11. /\ syncError' \in Int /\ frames_to_skip' \in Nat
       /\ frames_to_skip' > 0 => syncError' = aim + frames_to_skip'
       /\ first' => frames_to_skip' = 0 /\ ~skipping' /\ syncError' <= 0
       /\ landed' /\ landed' \in BOOLEAN /\ skipping' \in BOOLEAN
  <2>1. landed /\ landed \in BOOLEAN
    BY Zenon DEF SyncInv, SyncFlags
  <2>2. CASE out
    <3>1. /\ syncError' = e - Length /\ frames_to_skip' = skip /\ skipping' = still
          /\ landed' = landed
      BY <1>9, <2>2, Zenon DEF Played, e
    <3>2. syncError' \in Int /\ frames_to_skip' = 0
      BY <1>4, <1>7, <2>2, <3>1, SyncSizes
    <3>3. still \in BOOLEAN
      BY Zenon DEF Sync!StillSkipping
    <3>4. first' => ~skipping' /\ syncError' <= 0
      <4>1. first' => centred < 0
        BY <1>10, Zenon
      <4> QED
        BY <1>4, <1>7, <1>8, <2>2, <3>1, <4>1, SyncSizes
    <3>5. frames_to_skip' \in Nat /\ ~(frames_to_skip' > 0)
      BY <3>2
    <3> HIDE DEF still
    <3> QED
      BY <2>1, <3>1, <3>2, <3>3, <3>4, <3>5, Zenon
  <2>3. CASE ~out
    <3> DEFINE played == Length + Sync!Stuff(centred)
    <3>1. Sync!Stuff(centred) \in {-1, 0, 1} /\ (centred = 0 => Sync!Stuff(centred) = 0)
      BY SyncSizes DEF Sync!Stuff
    <3>2. skip /= 0 => centred = 0
      BY <1>1, Zenon
    <3>3. played \in Nat /\ (skip /= 0 => played = Length)
      BY <3>1, <3>2, SyncSizes
    <3>4. Sync!PlaySamples(played, skip, still, e)
      BY <1>9, <2>3, Zenon DEF Played, e
    <3>5. ~first'
      BY <1>10, <2>3, Zenon
    <3>6. skip > 0 => played = Length /\ e = target' + skip
      BY <1>4, <1>10, <3>3
    <3> HIDE DEF played, still
    <3>7. target' \in Int /\ landed
      BY <1>4, <1>10, <2>1, Zenon
    <3>8. /\ syncError' \in Int /\ frames_to_skip' \in Nat
          /\ frames_to_skip' > 0 => syncError' = target' + frames_to_skip'
          /\ landed' /\ (landed \in BOOLEAN => landed' \in BOOLEAN) /\ skipping' \in BOOLEAN
      BY <1>4, <3>3, <3>4, <3>6, <3>7, PlaySamplesKeeps, Zenon
    <3> QED
      BY <1>10, <2>1, <3>5, <3>8, Zenon
  <2> QED
    BY <2>2, <2>3
<1>12. SyncNumbers'
  <2>1. lead' \in Int /\ queue' \in Nat
    <3>1. CASE first'
      BY <1>10, <1>11, <3>1, SyncSizes
    <3>2. CASE ~first'
      BY <1>10, <3>2 DEF SyncInv, SyncNumbers
    <3> QED
      BY <3>1, <3>2
  <2>2. play_number' \in 0 .. Settling /\ troubles' \in 0 .. MaxTroubles
    <3>1. play_number \in 0 .. Settling /\ troubles \in 0 .. MaxTroubles
      BY DEF SyncInv, SyncNumbers
    <3>2. Sync!Min({play_number + 1, Settling})
            = IF play_number + 1 <= Settling THEN play_number + 1 ELSE Settling
      <4>1. play_number + 1 \in Int /\ Settling \in Int
        BY <3>1, SyncSizes
      <4> QED
        BY <4>1, OfTwo, Zenon
    <3>3. play_number' \in 0 .. Settling
      BY <1>2, <3>1, <3>2, SyncSizes
    <3>4. troubles' \in 0 .. MaxTroubles
      <4>1. troubles' = troubles \/ (troubles < MaxTroubles /\ troubles' = troubles + 1)
        BY <1>2, Zenon
      <4> QED
        BY <3>1, <4>1, SyncSizes
    <3> QED
      BY <3>3, <3>4, Zenon
  <2>3. last_sample_index' \in 0 .. History - 1 /\ target' \in Int
    BY <1>4, <1>6, <1>10
  <2> QED
    BY <1>11, <2>1, <2>2, <2>3 DEF SyncNumbers
<1>13. SyncFlags'
  <2>1. {ab_buffering, primed, inTime, first, skipping, landed, replaced} \subseteq BOOLEAN
    BY Zenon DEF SyncInv, SyncFlags
  <2>2. first' \in BOOLEAN /\ ab_buffering' \in BOOLEAN
    BY <1>10, Zenon
  <2>3. primed' \in BOOLEAN
    BY <1>10, <2>1, Zenon
  <2>4. inTime' = inTime /\ replaced' = replaced
    BY <1>2
  <2> QED
    BY <1>11, <2>1, <2>2, <2>3, <2>4, ZenonT(60) DEF SyncFlags
<1>14. SyncSamples'
  BY <1>5, <1>10 DEF SyncSamples
<1>15. SilenceFits' /\ Sync!FirstFrameOnTime'
  <2>1. ab_buffering' <=> first'
    BY <1>10, Zenon
  <2>2. first' => primed' /\ queue' <= lead'
    <3> SUFFICES ASSUME first'
                 PROVE  primed' /\ queue' <= lead'
      OBVIOUS
    <3>1. queue' = Desired /\ lead' = Desired - syncError' /\ primed'
      BY <1>10, Zenon
    <3>2. PICK er \in Int : er = syncError' /\ er <= 0
      BY <1>11, Zenon
    <3>3. \A z \in Int : z <= 0 => Desired <= Desired - z
      BY SyncSizes
    <3> QED
      BY <3>1, <3>2, <3>3, Zenon
  <2> QED
    BY <2>1, <2>2 DEF SilenceFits, Sync!FirstFrameOnTime
<1>16. SkipIsError'
  BY <1>10, <1>11 DEF SkipIsError
<1> QED
  BY <1>11, <1>12, <1>13, <1>14, <1>15, <1>16 DEF SyncInv

\* A pass in which the first packet is not due yet.
LEMMA WaitPassKeeps ==
  ASSUME SyncInv, Sync!WaitPass
  PROVE  SyncInv'
<1>1. /\ lead \in Int /\ queue \in Nat /\ ~ab_buffering /\ first /\ lead > Desired
      /\ inTime => queue = lead
  BY DEF SyncInv, SyncNumbers, Sync!WaitPass, Sync!TooEarly, Sync!FirstFrameOnTime
<1>2. /\ lead' \in Int /\ queue' \in Nat
      /\ queue = lead /\ lead > Desired => queue' = lead'
  <2>1. SyncNumbers /\ Sync!PassTime(TRUE, queue)
    BY DEF SyncInv, Sync!WaitPass
  <2> QED
    BY <1>1, <2>1, PassKeeps, Zenon
<1>3. /\ ab_buffering' = ab_buffering /\ primed' = primed /\ inTime' = inTime /\ first' = first
      /\ syncError' = syncError /\ frames_to_skip' = frames_to_skip /\ skipping' = skipping
      /\ target' = target /\ landed' = landed /\ sync_samples' = sync_samples
      /\ last_sample_index' = last_sample_index /\ play_number' = play_number
      /\ replaced' = replaced /\ troubles' = troubles
  BY DEF Sync!WaitPass, Sync!skipVars, Sync!history
<1>4. SyncNumbers'
  BY <1>2, <1>3 DEF SyncInv, SyncNumbers
<1>5. SyncFlags' /\ SyncSamples'
  BY <1>3, Zenon DEF SyncInv, SyncFlags, SyncSamples
<1>6. SilenceFits' /\ SkipIsError' /\ Sync!FirstFrameOnTime'
  BY <1>1, <1>2, <1>3 DEF SyncInv, SilenceFits, SkipIsError, Sync!FirstFrameOnTime
<1> QED
  BY <1>3, <1>4, <1>5, <1>6 DEF SyncInv

\* What the bounds count.
LEMMA BoundsKept ==
  ASSUME SyncNumbers
  PROVE  /\ Sync!Min({play_number + 1, Settling}) \in 0 .. Settling
         /\ Sync!Trouble => troubles' \in 0 .. MaxTroubles
<1>1. play_number \in 0 .. Settling /\ troubles \in 0 .. MaxTroubles
  BY DEF SyncNumbers
<1>2. Sync!Min({play_number + 1, Settling})
        = IF play_number + 1 <= Settling THEN play_number + 1 ELSE Settling
  <2>1. play_number + 1 \in Int /\ Settling \in Int
    BY <1>1, SyncSizes
  <2> QED
    BY <2>1, OfTwo, Zenon
<1> QED
  BY <1>1, <1>2, SyncSizes DEF Sync!Trouble

\* A packet that is played with the error unknown.
LEMMA PlayUnmeasuredKeeps ==
  ASSUME SyncInv, NEW gap \in Int, Sync!PlayUnmeasured(gap)
  PROVE  SyncInv'
<1>1. PICK ld \in Int, er \in Int, tg \in Int, qu \in Nat, fr \in Nat :
        ld = lead /\ er = syncError /\ tg = target /\ qu = queue /\ fr = frames_to_skip
  BY DEF SyncInv, SyncNumbers
<1>2. PICK late, tgn : late = Sync!Lateness(gap) /\ tgn = target - gap
  OBVIOUS
<1>3. /\ ~ab_buffering
      /\ gap /= 0 => ~first
      /\ Sync!Trouble
      /\ target' = tgn
      /\ \/ Sync!PlaySamples(Length, frames_to_skip, skipping, late)
         \/ syncError' = late /\ UNCHANGED <<frames_to_skip, skipping, landed>>
      /\ first' = FALSE
      /\ play_number' = Sync!Min({play_number + 1, Settling})
      /\ ab_buffering' = ab_buffering /\ lead' = lead /\ queue' = queue /\ primed' = primed
      /\ inTime' = inTime /\ sync_samples' = sync_samples
      /\ last_sample_index' = last_sample_index /\ replaced' = replaced
  BY <1>2, Zenon DEF Sync!PlayUnmeasured, Sync!Playing, Sync!leadVars, Sync!history
<1>4. late = IF first THEN qu - ld ELSE er - gap
  BY <1>1, <1>2, Zenon DEF Sync!Lateness
<1>5. first => fr = 0
  BY <1>1 DEF SyncInv, SkipIsError
<1>6. fr > 0 => er = tg + fr
  BY <1>1 DEF SyncInv, SkipIsError
<1>7. late \in Int /\ tgn \in Int /\ (fr > 0 => late = tgn + fr)
  BY <1>1, <1>2, <1>4, <1>5, <1>6
<1>8. /\ syncError' \in Int /\ frames_to_skip' \in Nat
      /\ frames_to_skip' > 0 => syncError' = target' + frames_to_skip'
      /\ landed' /\ landed' \in BOOLEAN /\ skipping' \in BOOLEAN
  <2>1. landed /\ landed \in BOOLEAN /\ skipping \in BOOLEAN
    BY Zenon DEF SyncInv, SyncFlags
  <2>2. CASE Sync!PlaySamples(Length, frames_to_skip, skipping, late)
    <3>1. Length \in Nat /\ frames_to_skip \in Nat /\ late \in Int /\ target' \in Int
      BY <1>1, <1>3, <1>7, SyncSizes, Zenon
    <3>2. frames_to_skip > 0 => Length = Length /\ late = target' + frames_to_skip
      BY <1>1, <1>3, <1>7, Zenon
    <3>3. /\ syncError' \in Int /\ frames_to_skip' \in Nat
          /\ frames_to_skip' > 0 => syncError' = target' + frames_to_skip'
          /\ landed' /\ (landed \in BOOLEAN => landed' \in BOOLEAN) /\ skipping' \in BOOLEAN
      BY <2>1, <2>2, <3>1, <3>2, PlaySamplesKeeps, Zenon
    <3> QED
      BY <2>1, <3>3, Zenon
  <2>3. CASE syncError' = late /\ UNCHANGED <<frames_to_skip, skipping, landed>>
    <3>1. /\ syncError' = late /\ frames_to_skip' = fr /\ skipping' = skipping
          /\ landed' = landed
      BY <1>1, <2>3
    <3> QED
      BY <1>1, <1>3, <1>7, <2>1, <3>1, Zenon
  <2> QED
    BY <1>3, <2>2, <2>3, Zenon
<1>9. SyncNumbers'
  <2>1. /\ lead' \in Int /\ queue' \in Nat /\ target' \in Int
        /\ last_sample_index' \in 0 .. History - 1
    BY <1>3, <1>7 DEF SyncInv, SyncNumbers
  <2>2. play_number' \in 0 .. Settling /\ troubles' \in 0 .. MaxTroubles
    BY <1>3, BoundsKept, Zenon DEF SyncInv
  <2> QED
    BY <1>8, <2>1, <2>2, Zenon DEF SyncNumbers
<1>10. SyncFlags'
  <2>1. {ab_buffering, primed, inTime, first, skipping, landed, replaced} \subseteq BOOLEAN
    BY Zenon DEF SyncInv, SyncFlags
  <2> QED
    BY <1>3, <1>8, <2>1, ZenonT(60) DEF SyncFlags
<1>11. SyncSamples'
  BY <1>3, Zenon DEF SyncInv, SyncSamples
<1>12. SilenceFits' /\ Sync!FirstFrameOnTime'
  BY <1>3, Zenon DEF SilenceFits, Sync!FirstFrameOnTime
<1>13. SkipIsError'
  BY <1>3, <1>8, Zenon DEF SkipIsError
<1> QED
  BY <1>8, <1>9, <1>10, <1>11, <1>12, <1>13, Zenon DEF SyncInv

\* A packet that is missing: silence in its place, or nothing.
LEMMA MissingPacketKeeps ==
  ASSUME SyncInv, Sync!MissingPacket
  PROVE  SyncInv'
<1>1. PICK played \in {0, Length} :
        /\ syncError' = syncError + played - Length
        /\ target' = target + played - Length
        /\ replaced' = (played = Length)
        /\ play_number' = IF played > 0 THEN Sync!Min({play_number + 1, Settling}) ELSE play_number
  BY DEF Sync!MissingPacket
<1>2. /\ ~ab_buffering /\ ~first
      /\ Sync!Trouble
      /\ ab_buffering' = ab_buffering /\ lead' = lead /\ queue' = queue /\ primed' = primed
      /\ inTime' = inTime /\ first' = first /\ frames_to_skip' = frames_to_skip
      /\ skipping' = skipping /\ landed' = landed /\ sync_samples' = sync_samples
      /\ last_sample_index' = last_sample_index
  BY Zenon DEF Sync!MissingPacket, Sync!Playing, Sync!leadVars, Sync!history
<1>3. SyncNumbers'
  <2>1. syncError' \in Int /\ target' \in Int
    BY <1>1, SyncSizes DEF SyncInv, SyncNumbers
  <2>2. /\ lead' \in Int /\ queue' \in Nat /\ frames_to_skip' \in Nat
        /\ last_sample_index' \in 0 .. History - 1
    BY <1>2, Zenon DEF SyncInv, SyncNumbers
  <2>3. play_number' \in 0 .. Settling /\ troubles' \in 0 .. MaxTroubles
    BY <1>1, <1>2, BoundsKept, Zenon DEF SyncInv, SyncNumbers
  <2> QED
    BY <2>1, <2>2, <2>3, Zenon DEF SyncNumbers
<1>4. SyncFlags'
  <2>1. {ab_buffering, primed, inTime, first, skipping, landed, replaced} \subseteq BOOLEAN
    BY Zenon DEF SyncInv, SyncFlags
  <2>2. replaced' \in BOOLEAN
    BY <1>1, Zenon
  <2> QED
    BY <1>2, <2>1, <2>2, ZenonT(60) DEF SyncFlags
<1>5. SyncSamples'
  BY <1>2, Zenon DEF SyncInv, SyncSamples
<1>6. SilenceFits' /\ Sync!FirstFrameOnTime' /\ landed'
  BY <1>2, Zenon DEF SyncInv, SilenceFits, Sync!FirstFrameOnTime
<1>7. SkipIsError'
  BY <1>1, <1>2, SyncSizes DEF SyncInv, SyncNumbers, SkipIsError
<1> QED
  BY <1>3, <1>4, <1>5, <1>6, <1>7, Zenon DEF SyncInv

\* A flush makes the next packet a first one; no skip is under way.
LEMMA FlushKeeps ==
  ASSUME SyncInv, Sync!Flush
  PROVE  SyncInv'
<1>1. /\ Sync!Steady /\ Sync!Trouble
      /\ ab_buffering' = TRUE /\ first' = TRUE
      /\ lead' \in Leads /\ queue' = 0 /\ primed' = FALSE /\ inTime' = FALSE
      /\ syncError' = syncError /\ frames_to_skip' = frames_to_skip
      /\ skipping' = skipping /\ target' = target /\ landed' = landed
      /\ sync_samples' = sync_samples /\ last_sample_index' = last_sample_index
      /\ play_number' = play_number /\ replaced' = replaced
  BY DEF Sync!Flush, Sync!skipVars, Sync!history
<1>2. SyncNumbers'
  <2>1. lead' \in Int /\ queue' \in Nat
    BY <1>1, SyncSizes
  <2>2. troubles' \in 0 .. MaxTroubles
    BY <1>1, BoundsKept, Zenon DEF SyncInv
  <2> QED
    BY <1>1, <2>1, <2>2, Zenon DEF SyncInv, SyncNumbers
<1>3. SyncFlags'
  <2>1. {ab_buffering, primed, inTime, first, skipping, landed, replaced} \subseteq BOOLEAN
    BY Zenon DEF SyncInv, SyncFlags
  <2> QED
    BY <1>1, <2>1, ZenonT(60) DEF SyncFlags
<1>4. SyncSamples'
  BY <1>1, Zenon DEF SyncInv, SyncSamples
<1>5. SilenceFits' /\ Sync!FirstFrameOnTime' /\ landed'
  BY <1>1, Zenon DEF SyncInv, SilenceFits, Sync!FirstFrameOnTime
<1>6. SkipIsError'
  BY <1>1 DEF SkipIsError, Sync!Steady
<1> QED
  BY <1>2, <1>3, <1>4, <1>5, <1>6, Zenon DEF SyncInv

\* The clocks drift apart: the error and its target with them.
LEMMA DriftKeeps ==
  ASSUME SyncInv, Sync!Drift
  PROVE  SyncInv'
<1>1. PICK d \in -1 .. MaxStall : syncError' = syncError + d /\ target' = target + d
  BY DEF Sync!Drift
<1>2. /\ ~first /\ Sync!Trouble
      /\ ab_buffering' = ab_buffering /\ lead' = lead /\ queue' = queue /\ primed' = primed
      /\ inTime' = inTime /\ first' = first /\ frames_to_skip' = frames_to_skip
      /\ skipping' = skipping /\ landed' = landed /\ sync_samples' = sync_samples
      /\ last_sample_index' = last_sample_index /\ play_number' = play_number
      /\ replaced' = replaced
  BY Zenon DEF Sync!Drift, Sync!leadVars, Sync!history
<1>3. SyncNumbers'
  <2>1. syncError' \in Int /\ target' \in Int
    BY <1>1, SyncSizes DEF SyncInv, SyncNumbers
  <2>2. troubles' \in 0 .. MaxTroubles
    BY <1>2, BoundsKept, Zenon DEF SyncInv
  <2> QED
    BY <1>2, <2>1, <2>2, Zenon DEF SyncInv, SyncNumbers
<1>4. SyncFlags' /\ SyncSamples'
  BY <1>2, Zenon DEF SyncInv, SyncFlags, SyncSamples
<1>5. SilenceFits' /\ Sync!FirstFrameOnTime' /\ landed'
  BY <1>2, Zenon DEF SyncInv, SilenceFits, Sync!FirstFrameOnTime
<1>6. SkipIsError'
  BY <1>1, <1>2, SyncSizes DEF SyncInv, SyncNumbers, SkipIsError
<1> QED
  BY <1>3, <1>4, <1>5, <1>6, Zenon DEF SyncInv

\* Every step of the player keeps the invariant.
LEMMA SyncKept ==
  ASSUME SyncInv, [Sync!SyncNext]_syncVars
  PROVE  SyncInv'
<1>1. CASE Sync!LeadInPass
  BY <1>1, LeadInKeeps
<1>2. CASE Sync!WaitPass
  BY <1>2, WaitPassKeeps
<1>3. CASE Sync!MissingPacket
  BY <1>3, MissingPacketKeeps
<1>4. CASE Sync!Flush
  BY <1>4, FlushKeeps
<1>5. CASE Sync!Drift
  BY <1>5, DriftKeeps
<1>6. ASSUME NEW gap \in Gaps \union {0}, Sync!PlayInTime(gap) \/ Sync!PlayUnmeasured(gap)
      PROVE  SyncInv'
  <2>1. gap \in Int
    BY SyncSizes
  <2> QED
    BY <1>6, <2>1, PlayInTimeKeeps, PlayUnmeasuredKeeps, Zenon
<1>7. CASE UNCHANGED syncVars
  BY <1>7, Zenon DEF SyncInv, syncVars, SyncNumbers, SyncFlags, SyncSamples, SilenceFits,
     SkipIsError, Sync!FirstFrameOnTime
<1> QED
  BY <1>1, <1>2, <1>3, <1>4, <1>5, <1>6, <1>7, Zenon DEF Sync!SyncNext

\* A skip that ends has reached its target.
LEMMA SyncRight == SyncInv => Sync!FramesOnTarget
  BY DEF SyncInv, Sync!FramesOnTarget, Sync!SkipLandsOnTarget

(***************************************************************************)
(* The metadata queues: items in order, references counted                 *)
(***************************************************************************)

\* The place in a ring of n items of the i'th item from the one at t on.
RingAt(t, i, n) == IF t + i - 1 < n THEN t + i - 1 ELSE t + i - 1 - n

\* A ring r of n items, c of them from t up to e, holds what was added and not yet taken, in order.
RingRight(r, t, e, c, n, ad, tk) ==
  /\ r \in [0 .. n - 1 -> 1 .. MaxMessage \union {0}]
  /\ t \in 0 .. n - 1 /\ e \in 0 .. n - 1 /\ c \in 0 .. n
  /\ e = RingAt(t, c + 1, n)
  /\ ad \in Seq(1 .. MaxMessage) /\ tk \in Seq(1 .. MaxMessage)
  /\ Len(ad) = Len(tk) + c
  /\ \A i \in 1 .. Len(tk) : ad[i] = tk[i]
  /\ \A i \in 1 .. c : ad[Len(tk) + i] = r[RingAt(t, i, n)]

\* pc_queue_add_item: what is written at the end of the ring is the next to be counted.
LEMMA RingAdds ==
  ASSUME NEW n \in Nat \ {0}, NEW r, NEW t, NEW e, NEW c, NEW ad, NEW tk,
         RingRight(r, t, e, c, n, ad, tk), c < n, NEW m \in 1 .. MaxMessage
  PROVE  /\ e \in 0 .. n - 1
         /\ RingRight([r EXCEPT ![e] = m], t, IF e + 1 = n THEN 0 ELSE e + 1, c + 1, n,
                      Append(ad, m), tk)
<1> DEFINE M == 1 .. MaxMessage
           r2 == [r EXCEPT ![e] = m]
           e2 == IF e + 1 = n THEN 0 ELSE e + 1
           ad2 == Append(ad, m)
<1>1. /\ r \in [0 .. n - 1 -> M \union {0}]
      /\ t \in 0 .. n - 1 /\ e \in 0 .. n - 1 /\ c \in 0 .. n
      /\ e = RingAt(t, c + 1, n)
      /\ ad \in Seq(M) /\ tk \in Seq(M)
      /\ Len(ad) = Len(tk) + c
      /\ \A i \in 1 .. Len(tk) : ad[i] = tk[i]
      /\ \A i \in 1 .. c : ad[Len(tk) + i] = r[RingAt(t, i, n)]
  BY DEF RingRight
<1> HIDE DEF M
<1>2. m \in M
  BY DEF M
<1>3. r2 \in [0 .. n - 1 -> M \union {0}] /\ e2 \in 0 .. n - 1 /\ c + 1 \in 0 .. n
  BY <1>1, <1>2
<1>4. e2 = RingAt(t, c + 1 + 1, n)
  BY <1>1 DEF RingAt
<1>5. /\ ad2 \in Seq(M) /\ Len(ad2) = Len(ad) + 1
      /\ \A i \in 1 .. Len(ad) : ad2[i] = ad[i]
      /\ ad2[Len(ad) + 1] = m
  <2>1. /\ Append(ad, m) \in Seq(M) /\ Len(Append(ad, m)) = Len(ad) + 1
        /\ \A i \in 1 .. Len(ad) : Append(ad, m)[i] = ad[i]
        /\ Append(ad, m)[Len(ad) + 1] = m
    <3>1. ad \in Seq(M) /\ m \in M
      BY <1>1, <1>2, Zenon
    <3> QED
      BY <3>1, AppendProperties
  <2> QED
    BY <2>1
<1>6. Len(tk) \in Nat /\ Len(ad) \in Nat
  BY <1>1, LenProperties, Zenon
<1>7. Len(ad2) = Len(tk) + (c + 1)
  BY <1>1, <1>5, <1>6
<1>8. \A i \in 1 .. Len(tk) : ad2[i] = tk[i]
  BY <1>1, <1>5, <1>6
<1>9. ASSUME NEW i \in 1 .. c + 1
      PROVE  ad2[Len(tk) + i] = r2[RingAt(t, i, n)]
  <2>1. CASE i = c + 1
    <3>1. Len(tk) + i = Len(ad) + 1
      BY <1>1, <1>6, <2>1
    <3>2. RingAt(t, i, n) = e
      BY <1>1, <2>1
    <3> QED
      BY <1>1, <1>5, <3>1, <3>2
  <2>2. CASE i /= c + 1
    <3>1. i \in 1 .. c /\ Len(tk) + i \in 1 .. Len(ad)
      BY <1>1, <1>6, <2>2
    <3>2. RingAt(t, i, n) /= e /\ RingAt(t, i, n) \in 0 .. n - 1
      BY <1>1, <3>1 DEF RingAt
    <3>3. r2[RingAt(t, i, n)] = r[RingAt(t, i, n)]
      BY <1>1, <3>2
    <3> QED
      BY <1>1, <1>5, <3>1, <3>3
  <2> QED
    BY <2>1, <2>2
<1> HIDE DEF r2, e2, ad2
<1>10. RingRight(r2, t, e2, c + 1, n, ad2, tk)
  BY <1>1, <1>3, <1>4, <1>5, <1>7, <1>8, <1>9, Zenon DEF RingRight, M
<1> QED
  BY <1>1, <1>10, Zenon DEF r2, e2, ad2

\* pc_queue_get_item: what is read at the front is the oldest that was not taken.
LEMMA RingTakes ==
  ASSUME NEW n \in Nat \ {0}, NEW r, NEW t, NEW e, NEW c, NEW ad, NEW tk,
         RingRight(r, t, e, c, n, ad, tk), c > 0
  PROVE  /\ r[t] \in 1 .. MaxMessage
         /\ Len(tk) \in Nat /\ Len(ad) \in Nat /\ Len(tk) + 1 <= Len(ad) /\ r[t] = ad[Len(tk) + 1]
         /\ RingRight(r, IF t + 1 = n THEN 0 ELSE t + 1, e, c - 1, n, ad, Append(tk, r[t]))
<1> DEFINE M == 1 .. MaxMessage
           t2 == IF t + 1 = n THEN 0 ELSE t + 1
           tk2 == Append(tk, r[t])
<1>1. /\ r \in [0 .. n - 1 -> M \union {0}]
      /\ t \in 0 .. n - 1 /\ e \in 0 .. n - 1 /\ c \in 0 .. n
      /\ e = RingAt(t, c + 1, n)
      /\ ad \in Seq(M) /\ tk \in Seq(M)
      /\ Len(ad) = Len(tk) + c
      /\ \A i \in 1 .. Len(tk) : ad[i] = tk[i]
      /\ \A i \in 1 .. c : ad[Len(tk) + i] = r[RingAt(t, i, n)]
  BY DEF RingRight
<1> HIDE DEF M
<1>2. Len(tk) \in Nat /\ Len(ad) \in Nat
  BY <1>1, LenProperties, Zenon
<1>3. 1 \in 1 .. c /\ RingAt(t, 1, n) = t
  BY <1>1 DEF RingAt
<1>4. r[t] = ad[Len(tk) + 1] /\ Len(tk) + 1 \in 1 .. Len(ad)
  <2>1. ad[Len(tk) + 1] = r[RingAt(t, 1, n)]
    BY <1>1, <1>3, Zenon
  <2> QED
    BY <1>1, <1>2, <1>3, <2>1
<1>5. r[t] \in M
  BY <1>1, <1>4, ElementOfSeq
<1>6. t2 \in 0 .. n - 1 /\ c - 1 \in 0 .. n /\ e = RingAt(t2, c - 1 + 1, n)
  BY <1>1 DEF RingAt
<1>7. /\ tk2 \in Seq(M) /\ Len(tk2) = Len(tk) + 1
      /\ \A i \in 1 .. Len(tk) : tk2[i] = tk[i]
      /\ tk2[Len(tk) + 1] = r[t]
  BY <1>1, <1>5, AppendProperties
<1>8. Len(ad) = Len(tk2) + (c - 1)
  BY <1>1, <1>2, <1>7
<1>9. \A i \in 1 .. Len(tk2) : ad[i] = tk2[i]
  <2> SUFFICES ASSUME NEW i \in 1 .. Len(tk2)
               PROVE  ad[i] = tk2[i]
    OBVIOUS
  <2>1. i \in 1 .. Len(tk) \/ i = Len(tk) + 1
    BY <1>2, <1>7
  <2> QED
    BY <1>1, <1>4, <1>7, <2>1, Zenon
<1>10. ASSUME NEW i \in 1 .. c - 1
       PROVE  ad[Len(tk2) + i] = r[RingAt(t2, i, n)]
  <2>1. i + 1 \in 1 .. c /\ Len(tk2) + i = Len(tk) + (i + 1)
    BY <1>1, <1>2, <1>7
  <2>2. RingAt(t2, i, n) = RingAt(t, i + 1, n)
    BY <1>1 DEF RingAt
  <2> QED
    BY <1>1, <2>1, <2>2
<1> HIDE DEF t2, tk2
<1>11. RingRight(r, t2, e, c - 1, n, ad, tk2)
  BY <1>1, <1>6, <1>7, <1>8, <1>9, <1>10, Zenon DEF RingRight, M
<1>12. Len(tk) + 1 <= Len(ad)
  BY <1>2, <1>4
<1> QED
  BY <1>2, <1>4, <1>5, <1>11, <1>12, Zenon DEF t2, tk2, M

\* The remainder of a place that has been passed once at most.
LEMMA WrappedOnce ==
  ASSUME NEW n \in Nat \ {0}, NEW x \in 0 .. 2 * n - 1
  PROVE  x % n = IF x < n THEN x ELSE x - n
<1>1. /\ x % n \in 0 .. n - 1 /\ x \div n \in Int
      /\ x = n * (x \div n) + (x % n)
  OBVIOUS
<1> DEFINE q == x \div n  y == x % n
<1>2. q \in Int /\ y \in 0 .. n - 1 /\ x = n * q + y
  BY <1>1
<1> HIDE DEF q, y
<1>3. q = 0 \/ q = 1 \/ q >= 2 \/ q <= -1
  BY <1>2
<1>4. CASE q = 0
  BY <1>2, <1>4 DEF y
<1>5. CASE q = 1
  BY <1>2, <1>5 DEF y
<1>6. CASE q >= 2
  <2>1. n * q >= n * 2
    BY <1>2, <1>6
  <2>2. n * q \in Int
    BY <1>2
  <2> QED
    BY <1>2, <2>1, <2>2
<1>7. CASE q <= -1
  <2>1. n * q <= n * (-1)
    BY <1>2, <1>7
  <2>2. n * q \in Int
    BY <1>2
  <2> QED
    BY <1>2, <2>1, <2>2
<1> QED
  BY <1>3, <1>4, <1>5, <1>6, <1>7

\* What such a ring says of what it holds.
RingHolds(r, t, c, n) == [i \in 1 .. c |-> r[(t + i - 1) % n]]

GivesInOrder(r, t, c, n, ad, tk) ==
  /\ ad = tk \o RingHolds(r, t, c, n)
  /\ Len(tk) \in Nat /\ Len(ad) \in Nat /\ c \in Nat /\ Len(ad) = Len(tk) + c
  /\ \A i \in 1 .. c : RingHolds(r, t, c, n)[i] = ad[Len(tk) + i]

\* What was taken, with what the ring still holds, is what was added, in order.
LEMMA RingGivesInOrder ==
  ASSUME NEW n \in Nat \ {0}, NEW r, NEW t, NEW e, NEW c, NEW ad, NEW tk,
         RingRight(r, t, e, c, n, ad, tk)
  PROVE  GivesInOrder(r, t, c, n, ad, tk)
<1> DEFINE M == 1 .. MaxMessage
<1> DEFINE held == RingHolds(r, t, c, n)
<1>1. /\ t \in 0 .. n - 1 /\ c \in 0 .. n
      /\ ad \in Seq(M) /\ tk \in Seq(M)
      /\ Len(ad) = Len(tk) + c
      /\ \A i \in 1 .. Len(tk) : ad[i] = tk[i]
      /\ \A i \in 1 .. c : ad[Len(tk) + i] = r[RingAt(t, i, n)]
  BY DEF RingRight
<1> HIDE DEF M
<1>2. Len(tk) \in Nat /\ Len(ad) \in Nat /\ c \in Nat
  BY <1>1, LenProperties
<1>3. \A i \in 1 .. c : held[i] = ad[Len(tk) + i]
  <2> SUFFICES ASSUME NEW i \in 1 .. c
               PROVE  held[i] = ad[Len(tk) + i]
    OBVIOUS
  <2>1. t + i - 1 \in 0 .. 2 * n - 1
    BY <1>1
  <2>2. (t + i - 1) % n = RingAt(t, i, n)
    <3>1. PICK y \in 0 .. 2 * n - 1 : y = t + i - 1
      BY <2>1
    <3>2. y % n = IF y < n THEN y ELSE y - n
      BY WrappedOnce, Zenon
    <3>3. RingAt(t, i, n) = IF y < n THEN y ELSE y - n
      BY <1>1, <3>1 DEF RingAt
    <3> QED
      BY <3>1, <3>2, <3>3, Zenon
  <2> QED
    BY <1>1, <2>2 DEF RingHolds
<1>4. \A i \in 1 .. c : ad[Len(tk) + i] \in M
  <2> SUFFICES ASSUME NEW i \in 1 .. c
               PROVE  ad[Len(tk) + i] \in M
    OBVIOUS
  <2>1. Len(tk) + i \in 1 .. Len(ad)
    BY <1>1, <1>2
  <2> QED
    BY <1>1, <2>1, ElementOfSeq
<1>5. held \in Seq(M) /\ Len(held) = c
  <2>1. held \in [1 .. c -> M]
    BY <1>3, <1>4 DEF RingHolds
  <2> HIDE DEF held
  <2>2. held \in Seq(M)
    BY <1>2, <2>1, SeqDef
  <2>3. DOMAIN held = 1 .. Len(held) /\ Len(held) \in Nat
    BY <2>2, LenProperties, Zenon
  <2>4. DOMAIN held = 1 .. c
    BY <2>1
  <2>5. \A k \in Nat : 1 .. k = 1 .. c => k = c
    BY <1>2
  <2>6. Len(held) = c
    BY <2>3, <2>4, <2>5, Zenon
  <2> QED
    BY <2>2, <2>6
<1> HIDE DEF held
<1>6. /\ tk \o held \in Seq(M)
      /\ Len(tk \o held) = Len(tk) + Len(held)
      /\ \A i \in 1 .. Len(tk) + Len(held) :
           (tk \o held)[i] = IF i <= Len(tk) THEN tk[i] ELSE held[i - Len(tk)]
  BY <1>1, <1>5, ConcatProperties, Zenon
<1>7. \A i \in 1 .. Len(ad) : ad[i] = (tk \o held)[i]
  <2> SUFFICES ASSUME NEW i \in 1 .. Len(ad)
               PROVE  ad[i] = (tk \o held)[i]
    OBVIOUS
  <2>1. (tk \o held)[i] = IF i <= Len(tk) THEN tk[i] ELSE held[i - Len(tk)]
    BY <1>1, <1>5, <1>6
  <2>2. CASE i <= Len(tk)
    <3>1. i \in 1 .. Len(tk)
      BY <1>2, <2>2
    <3> QED
      BY <1>1, <2>1, <2>2, <3>1, Zenon
  <2>3. CASE ~(i <= Len(tk))
    <3>1. i - Len(tk) \in 1 .. c /\ Len(tk) + (i - Len(tk)) = i
      BY <1>1, <1>2, <2>3
    <3>2. held[i - Len(tk)] = ad[Len(tk) + (i - Len(tk))]
      BY <1>3, <3>1, Zenon
    <3> QED
      BY <2>1, <2>3, <3>1, <3>2, Zenon
  <2> QED
    BY <2>2, <2>3
<1>8. ad = tk \o held
  <2>1. Len(ad) = Len(tk \o held)
    BY <1>1, <1>5, <1>6
  <2> QED
    BY <1>1, <1>6, <1>7, <2>1, SeqEqual
<1>9. c \in Nat /\ Len(ad) = Len(tk) + c
  BY <1>1, <1>2
<1> QED
  BY <1>2, <1>3, <1>8, <1>9, Zenon DEF held, GivesInOrder

\* The holders of message m, where the senders are at snd, the queues hold hd and the threads pk.
HoldersIn(m, snd, hd, pk) ==
  {<<"sender", s>> : s \in {s \in Senders : snd[s].msg = m}}
  \union {<<"offered", s>> : s \in {s \in Senders : snd[s].msg = m /\ snd[s].at = "add"}}
  \union {<<"queue", q>> : q \in {q \in 1 .. QueueCount : m \in hd[q]}}
  \union {<<"thread", q>> : q \in {q \in 1 .. QueueCount : pk[q] = m}}

\* Whether h is one of them.
HoldsIn(h, m, snd, hd, pk) ==
  \/ \E s \in Senders : h = <<"sender", s>> /\ snd[s].msg = m
  \/ \E s \in Senders : h = <<"offered", s>> /\ snd[s].msg = m /\ snd[s].at = "add"
  \/ \E q \in 1 .. QueueCount : h = <<"queue", q>> /\ m \in hd[q]
  \/ \E q \in 1 .. QueueCount : h = <<"thread", q>> /\ pk[q] = m

\* A holder of a message is a sender, a queue or a thread.
LEMMA HolderIs ==
  ASSUME NEW m, NEW snd, NEW hd, NEW pk, NEW h
  PROVE  h \in HoldersIn(m, snd, hd, pk) <=> HoldsIn(h, m, snd, hd, pk)
  BY DEF HoldersIn, HoldsIn

\* Two descriptions of the holders of a message agree when their members do.
LEMMA SameHolders ==
  ASSUME NEW G, NEW m, NEW snd, NEW hd, NEW pk,
         \A h : h \in G <=> HoldsIn(h, m, snd, hd, pk)
  PROVE  HoldersIn(m, snd, hd, pk) = G
<1>1. \A h : h \in HoldersIn(m, snd, hd, pk) <=> h \in G
  BY HolderIs, Zenon
<1> QED
  BY <1>1, Zenon

\* A sender that comes to add, or has added.
LEMMA SenderMoves ==
  ASSUME NEW snd, NEW snd2, NEW hd, NEW pk, NEW s \in Senders,
         \A t \in Senders \ {s} : snd2[t] = snd[t],
         snd2[s].msg = snd[s].msg, NEW m
  PROVE  HoldersIn(m, snd2, hd, pk) =
           (HoldersIn(m, snd, hd, pk) \ {<<"offered", s>>})
             \union (IF snd[s].msg = m /\ snd2[s].at = "add" THEN {<<"offered", s>>} ELSE {})
<1> DEFINE G == (HoldersIn(m, snd, hd, pk) \ {<<"offered", s>>})
             \union (IF snd[s].msg = m /\ snd2[s].at = "add" THEN {<<"offered", s>>} ELSE {})
<1>1. ASSUME NEW h
      PROVE  h \in G <=> HoldsIn(h, m, snd2, hd, pk)
  <2>1. h \in HoldersIn(m, snd, hd, pk) <=> HoldsIn(h, m, snd, hd, pk)
    BY HolderIs
  <2>2. h \in G <=> \/ HoldsIn(h, m, snd, hd, pk) /\ h /= <<"offered", s>>
                    \/ h = <<"offered", s>> /\ snd[s].msg = m /\ snd2[s].at = "add"
    BY <2>1
  <2> HIDE DEF G
  <2> QED
    BY <2>2 DEF HoldsIn
<1> HIDE DEF G
<1>2. HoldersIn(m, snd2, hd, pk) = G
  BY <1>1, SameHolders, Zenon
<1> QED
  BY <1>2 DEF G

\* A sender that begins with message new, where it had none.
LEMMA SenderBegins ==
  ASSUME NEW snd, NEW snd2, NEW hd, NEW pk, NEW s \in Senders, NEW new,
         \A t \in Senders \ {s} : snd2[t] = snd[t],
         snd[s].msg = 0, snd2[s].msg = new, snd2[s].at /= "add", new /= 0, NEW m, m /= 0
  PROVE  HoldersIn(m, snd2, hd, pk) =
           HoldersIn(m, snd, hd, pk) \union (IF m = new THEN {<<"sender", s>>} ELSE {})
<1> DEFINE G == HoldersIn(m, snd, hd, pk) \union (IF m = new THEN {<<"sender", s>>} ELSE {})
<1>1. ASSUME NEW h
      PROVE  h \in G <=> HoldsIn(h, m, snd2, hd, pk)
  <2>1. h \in HoldersIn(m, snd, hd, pk) <=> HoldsIn(h, m, snd, hd, pk)
    BY HolderIs
  <2>2. h \in G <=> HoldsIn(h, m, snd, hd, pk) \/ (h = <<"sender", s>> /\ m = new)
    BY <2>1
  <2> HIDE DEF G
  <2> QED
    BY <2>2 DEF HoldsIn
<1> HIDE DEF G
<1>2. HoldersIn(m, snd2, hd, pk) = G
  BY <1>1, SameHolders
<1> QED
  BY <1>2 DEF G

\* A sender that is done with its message.
LEMMA SenderEnds ==
  ASSUME NEW snd, NEW snd2, NEW hd, NEW pk, NEW s \in Senders,
         \A t \in Senders \ {s} : snd2[t] = snd[t],
         snd[s].at /= "add", snd2[s].msg = 0, NEW m, m /= 0
  PROVE  HoldersIn(m, snd2, hd, pk) =
           IF m = snd[s].msg THEN HoldersIn(m, snd, hd, pk) \ {<<"sender", s>>}
           ELSE HoldersIn(m, snd, hd, pk)
<1> DEFINE G == IF m = snd[s].msg THEN HoldersIn(m, snd, hd, pk) \ {<<"sender", s>>}
                ELSE HoldersIn(m, snd, hd, pk)
<1>1. ASSUME NEW h
      PROVE  h \in G <=> HoldsIn(h, m, snd2, hd, pk)
  <2>1. h \in HoldersIn(m, snd, hd, pk) <=> HoldsIn(h, m, snd, hd, pk)
    BY HolderIs
  <2>2. h \in G <=> HoldsIn(h, m, snd, hd, pk) /\ (m = snd[s].msg => h /= <<"sender", s>>)
    BY <2>1
  <2> HIDE DEF G
  <2> QED
    BY <2>2 DEF HoldsIn
<1> HIDE DEF G
<1>2. HoldersIn(m, snd2, hd, pk) = G
  BY <1>1, SameHolders, ZenonT(40)
<1> QED
  BY <1>2 DEF G

\* A queue that gets a message, or gives one.
LEMMA QueueChanges ==
  ASSUME NEW snd, NEW hd, NEW hd2, NEW pk, NEW q \in 1 .. QueueCount,
         \A p \in (1 .. QueueCount) \ {q} : hd2[p] = hd[p], NEW m
  PROVE  HoldersIn(m, snd, hd2, pk) =
           (HoldersIn(m, snd, hd, pk) \ {<<"queue", q>>})
             \union (IF m \in hd2[q] THEN {<<"queue", q>>} ELSE {})
<1> DEFINE G == (HoldersIn(m, snd, hd, pk) \ {<<"queue", q>>})
                  \union (IF m \in hd2[q] THEN {<<"queue", q>>} ELSE {})
<1>1. ASSUME NEW h
      PROVE  h \in G <=> HoldsIn(h, m, snd, hd2, pk)
  <2>1. h \in HoldersIn(m, snd, hd, pk) <=> HoldsIn(h, m, snd, hd, pk)
    BY HolderIs
  <2>2. h \in G <=> \/ HoldsIn(h, m, snd, hd, pk) /\ h /= <<"queue", q>>
                    \/ h = <<"queue", q>> /\ m \in hd2[q]
    BY <2>1
  <2> HIDE DEF G
  <2> QED
    BY <2>2 DEF HoldsIn
<1> HIDE DEF G
<1>2. HoldersIn(m, snd, hd2, pk) = G
  BY <1>1, SameHolders, Zenon
<1> QED
  BY <1>2 DEF G

\* A thread that takes a message, or releases it.
LEMMA ThreadChanges ==
  ASSUME NEW snd, NEW hd, NEW pk, NEW pk2, NEW q \in 1 .. QueueCount,
         \A p \in (1 .. QueueCount) \ {q} : pk2[p] = pk[p], NEW m
  PROVE  HoldersIn(m, snd, hd, pk2) =
           (HoldersIn(m, snd, hd, pk) \ {<<"thread", q>>})
             \union (IF pk2[q] = m THEN {<<"thread", q>>} ELSE {})
<1> DEFINE G == (HoldersIn(m, snd, hd, pk) \ {<<"thread", q>>})
                  \union (IF pk2[q] = m THEN {<<"thread", q>>} ELSE {})
<1>1. ASSUME NEW h
      PROVE  h \in G <=> HoldsIn(h, m, snd, hd, pk2)
  <2>1. h \in HoldersIn(m, snd, hd, pk) <=> HoldsIn(h, m, snd, hd, pk)
    BY HolderIs
  <2>2. h \in G <=> \/ HoldsIn(h, m, snd, hd, pk) /\ h /= <<"thread", q>>
                    \/ h = <<"thread", q>> /\ pk2[q] = m
    BY <2>1
  <2> HIDE DEF G
  <2> QED
    BY <2>2 DEF HoldsIn
<1> HIDE DEF G
<1>2. HoldersIn(m, snd, hd, pk2) = G
  BY <1>1, SameHolders, Zenon
<1> QED
  BY <1>2 DEF G

\* Which holders there are.
LEMMA HolderKinds ==
  ASSUME NEW m, NEW snd, NEW hd, NEW pk, NEW s \in Senders, NEW q \in 1 .. QueueCount
  PROVE  /\ <<"sender", s>> \in HoldersIn(m, snd, hd, pk) <=> snd[s].msg = m
         /\ <<"offered", s>> \in HoldersIn(m, snd, hd, pk) <=> snd[s].msg = m /\ snd[s].at = "add"
         /\ <<"queue", q>> \in HoldersIn(m, snd, hd, pk) <=> m \in hd[q]
         /\ <<"thread", q>> \in HoldersIn(m, snd, hd, pk) <=> pk[q] = m
  BY DEF HoldersIn

\* A count n is that of the set H.
CountOf(n, H) == IsFiniteSet(H) /\ n = Cardinality(H)

\* A holder more is a reference more.
LEMMA CountsOneMore ==
  ASSUME NEW n, NEW H, CountOf(n, H), NEW x, x \notin H
  PROVE  CountOf(n + 1, H \union {x})
<1>1. IsFiniteSet(H) /\ n = Cardinality(H)
  BY DEF CountOf
<1>2. IsFiniteSet(H \union {x}) /\ Cardinality(H \union {x}) = Cardinality(H) + 1
  BY <1>1, FS_AddElement, Zenon
<1> QED
  BY <1>1, <1>2, Zenon DEF CountOf

\* A holder less is a reference less.
LEMMA CountsOneLess ==
  ASSUME NEW n, NEW H, CountOf(n, H), NEW x \in H
  PROVE  CountOf(n - 1, H \ {x})
<1>1. IsFiniteSet(H) /\ n = Cardinality(H)
  BY DEF CountOf
<1>2. IsFiniteSet(H \ {x}) /\ Cardinality(H \ {x}) = Cardinality(H) - 1
  BY <1>1, FS_RemoveElement, Zenon
<1> QED
  BY <1>1, <1>2, Zenon DEF CountOf

\* One holder in another's place.
LEMMA CountsTheSame ==
  ASSUME NEW n, NEW H, CountOf(n, H), NEW x \in H, NEW y, y \notin H
  PROVE  CountOf(n, (H \ {x}) \union {y})
<1>1. CountOf(n - 1, H \ {x})
  BY CountsOneLess, Zenon
<1>2. CountOf(n - 1 + 1, (H \ {x}) \union {y})
  <2>1. y \notin H \ {x}
    BY Zenon
  <2> QED
    BY <1>1, <2>1, CountsOneMore, Zenon
<1>3. n \in Nat
  <2>1. IsFiniteSet(H) /\ n = Cardinality(H)
    BY DEF CountOf
  <2>2. Cardinality(H) \in Nat
    BY <2>1, FS_CardinalityType, Zenon
  <2> QED
    BY <2>1, <2>2, Zenon
<1>4. n - 1 + 1 = n
  BY <1>3
<1> QED
  BY <1>2, <1>4, Zenon

\* The records of the senders.
Sendings == [msg: 1 .. MaxMessage \union {0}, at: {"idle", "retain", "add", "release"},
             queue: 1 .. QueueCount]

\* What each queue has accepted and not given out.
QueueHolds ==
  [q \in 1 .. QueueCount |-> {added[q][k] : k \in Len(q_taken[q]) + 1 .. Len(added[q])}]

HoldersNow(m) == HoldersIn(m, sender, QueueHolds, pack)

\* A sending r that has left queue q behind it.
PastQueue(r, q) == r.at = "release" \/ r.queue > q

QueueRings ==
  /\ DOMAIN items = 1 .. QueueCount /\ DOMAIN q_toq = 1 .. QueueCount
  /\ DOMAIN q_eoq = 1 .. QueueCount /\ DOMAIN count = 1 .. QueueCount
  /\ added \in [1 .. QueueCount -> Seq(1 .. MaxMessage)]
  /\ q_taken \in [1 .. QueueCount -> Seq(1 .. MaxMessage)]
  /\ \A q \in 1 .. QueueCount :
       RingRight(items[q], q_toq[q], q_eoq[q], count[q], Capacity[q], added[q], q_taken[q])

\* A thread that uses a message has it from its queue, and has nothing newer.
QueueThreads ==
  /\ waiting \subseteq 1 .. QueueCount
  /\ thread \in [1 .. QueueCount -> {"get", "use", "ended"}]
  /\ pack \in [1 .. QueueCount -> 1 .. MaxMessage \union {0}]
  /\ \A q \in 1 .. QueueCount :
       /\ thread[q] = "use" <=> pack[q] /= 0
       /\ pack[q] /= 0 => Len(q_taken[q]) > 0 /\ pack[q] = q_taken[q][Len(q_taken[q])]

\* No two senders have one message.
QueueSenders ==
  /\ sender \in [Senders -> Sendings] /\ messages \in 0 .. MaxMessage
  /\ \A s \in Senders :
       /\ sender[s].at = "idle" <=> sender[s].msg = 0
       /\ sender[s].at = "idle" => sender[s].queue = 1
       /\ sender[s].msg <= messages
       /\ \A t \in Senders : sender[t].msg = sender[s].msg /\ sender[s].msg /= 0 => s = t

\* A queue has accepted a message once at most, and its sender, if it still has it, is past it.
QueueHistory ==
  \A q \in 1 .. QueueCount : \A i \in 1 .. Len(added[q]) :
    /\ added[q][i] <= messages
    /\ \A s \in Senders : sender[s].msg = added[q][i] => PastQueue(sender[s], q)
    /\ \A j \in 1 .. Len(added[q]) : added[q][j] = added[q][i] => i = j

QueueReferences ==
  /\ referenceCount \in [1 .. MaxMessage -> Int]
  /\ \A m \in 1 .. MaxMessage : CountOf(referenceCount[m], HoldersNow(m))

QueuesInv == QueueRings /\ QueueThreads /\ QueueSenders /\ QueueHistory /\ QueueReferences

\* What the assumptions say of the sizes, in the form the arithmetic needs.
LEMMA QueueSizes ==
  /\ QueueCount \in Nat /\ QueueCount > 0 /\ MaxMessage \in Nat
  /\ \A q \in 1 .. QueueCount : Capacity[q] \in Nat \ {0}
<1>1. /\ QueueCount \in Nat \ {0} /\ MaxMessage \in Nat
      /\ \A q \in 1 .. QueueCount : Capacity[q] \in Nat \ {0}
  <2>1. /\ QueueCount \in Nat \ {0} /\ MaxMessage \in Nat
        /\ Capacity \in [1 .. QueueCount -> Nat \ {0}]
    BY QueuesAssumption, Zenon DEF QueuesAssumption
  <2> QED
    BY <2>1
<1> QED
  BY <1>1

\* Nothing was sent: the rings are empty and no message has a holder.
LEMMA QueuesStart == Queues!Init => QueuesInv
<1> SUFFICES ASSUME Queues!Init
             PROVE  QueuesInv
  OBVIOUS
<1>1. /\ items = [q \in 1 .. QueueCount |-> [i \in 0 .. Capacity[q] - 1 |-> 0]]
      /\ q_toq = [q \in 1 .. QueueCount |-> 0] /\ q_eoq = q_toq /\ count = q_toq
      /\ waiting = {}
      /\ thread = [q \in 1 .. QueueCount |-> "get"] /\ pack = [q \in 1 .. QueueCount |-> 0]
      /\ sender = [s \in Senders |-> [msg |-> 0, at |-> "idle", queue |-> 1]] /\ messages = 0
      /\ referenceCount = [m \in 1 .. MaxMessage |-> 0]
      /\ added = [q \in 1 .. QueueCount |-> <<>>] /\ q_taken = added
  BY DEF Queues!Init, Queues!Q, Queues!Messages, Queues!None, Queues!Idle
<1>2. QueueRings
  <2>1. ASSUME NEW q \in 1 .. QueueCount
        PROVE  RingRight(items[q], q_toq[q], q_eoq[q], count[q], Capacity[q], added[q], q_taken[q])
    <3>1. Capacity[q] \in Nat /\ Capacity[q] > 0
      BY QueueSizes
    <3>2. /\ items[q] = [i \in 0 .. Capacity[q] - 1 |-> 0] /\ q_toq[q] = 0 /\ q_eoq[q] = 0
          /\ count[q] = 0 /\ added[q] = <<>> /\ q_taken[q] = <<>>
      BY <1>1
    <3> QED
      BY <3>1, <3>2 DEF RingRight, RingAt
  <2>2. <<>> \in Seq(1 .. MaxMessage)
    OBVIOUS
  <2> QED
    BY <1>1, <2>1, <2>2 DEF QueueRings
<1>3. QueueThreads
  BY <1>1 DEF QueueThreads
<1>4. QueueSenders
  BY <1>1, QueueSizes DEF QueueSenders, Sendings
<1>5. QueueHistory
  BY <1>1 DEF QueueHistory
<1>6. QueueReferences
  <2>1. ASSUME NEW m \in 1 .. MaxMessage
        PROVE  HoldersNow(m) = {}
    <3>1. m /= 0
      BY QueueSizes
    <3>2. \A q \in 1 .. QueueCount : QueueHolds[q] = {} /\ pack[q] = 0
      BY <1>1 DEF QueueHolds
    <3>3. \A s \in Senders : sender[s].msg = 0
      BY <1>1
    <3> QED
      BY <3>1, <3>2, <3>3 DEF HoldersNow, HoldersIn
  <2>2. CountOf(0, {})
    BY FS_EmptySet, Zenon DEF CountOf
  <2>3. \A m \in 1 .. MaxMessage : CountOf(referenceCount[m], HoldersNow(m))
    <3> SUFFICES ASSUME NEW m \in 1 .. MaxMessage
                 PROVE  CountOf(referenceCount[m], HoldersNow(m))
      OBVIOUS
    <3>1. referenceCount[m] = 0
      BY <1>1
    <3> QED
      BY <2>1, <2>2, <3>1, Zenon
  <2>4. referenceCount \in [1 .. MaxMessage -> Int]
    BY <1>1
  <2> QED
    BY <2>3, <2>4 DEF QueueReferences
<1> QED
  BY <1>2, <1>3, <1>4, <1>5, <1>6 DEF QueuesInv

\* The counts, when a message has one holder more, or less, or another in the place of one.
LEMMA ReferenceUp ==
  ASSUME QueueReferences, NEW m \in 1 .. MaxMessage, NEW x, x \notin HoldersNow(m),
         referenceCount' = [referenceCount EXCEPT ![m] = @ + 1],
         HoldersIn(m, sender', QueueHolds', pack') = HoldersNow(m) \union {x},
         \A k \in (1 .. MaxMessage) \ {m} : HoldersIn(k, sender', QueueHolds', pack') = HoldersNow(k)
  PROVE  QueueReferences'
<1>1. /\ referenceCount' \in [1 .. MaxMessage -> Int]
      /\ referenceCount'[m] = referenceCount[m] + 1
      /\ \A k \in (1 .. MaxMessage) \ {m} : referenceCount'[k] = referenceCount[k]
  BY DEF QueueReferences
<1>2. CountOf(referenceCount'[m], HoldersIn(m, sender', QueueHolds', pack'))
  <2>1. CountOf(referenceCount[m], HoldersNow(m))
    BY DEF QueueReferences
  <2>2. CountOf(referenceCount[m] + 1, HoldersNow(m) \union {x})
    BY <2>1, CountsOneMore, Zenon
  <2> QED
    BY <1>1, <2>2, Zenon
<1>3. ASSUME NEW k \in (1 .. MaxMessage) \ {m}
      PROVE  CountOf(referenceCount'[k], HoldersIn(k, sender', QueueHolds', pack'))
  BY <1>1, Zenon DEF QueueReferences
<1>4. \A k \in 1 .. MaxMessage : CountOf(referenceCount'[k], HoldersIn(k, sender', QueueHolds', pack'))
  BY <1>2, <1>3, Zenon
<1> QED
  BY <1>1, <1>4, Zenon DEF QueueReferences, HoldersNow

\* msg_release: the count goes down with the holder.
LEMMA ReferenceDown ==
  ASSUME QueueReferences, NEW m \in 1 .. MaxMessage, NEW x \in HoldersNow(m),
         referenceCount' = [referenceCount EXCEPT ![m] = @ - 1],
         HoldersIn(m, sender', QueueHolds', pack') = HoldersNow(m) \ {x},
         \A k \in (1 .. MaxMessage) \ {m} : HoldersIn(k, sender', QueueHolds', pack') = HoldersNow(k)
  PROVE  QueueReferences'
<1>1. /\ referenceCount' \in [1 .. MaxMessage -> Int]
      /\ referenceCount'[m] = referenceCount[m] - 1
      /\ \A k \in (1 .. MaxMessage) \ {m} : referenceCount'[k] = referenceCount[k]
  BY DEF QueueReferences
<1>2. CountOf(referenceCount'[m], HoldersIn(m, sender', QueueHolds', pack'))
  <2>1. CountOf(referenceCount[m], HoldersNow(m))
    BY DEF QueueReferences
  <2>2. CountOf(referenceCount[m] - 1, HoldersNow(m) \ {x})
    BY <2>1, CountsOneLess, Zenon
  <2> QED
    BY <1>1, <2>2, Zenon
<1>3. ASSUME NEW k \in (1 .. MaxMessage) \ {m}
      PROVE  CountOf(referenceCount'[k], HoldersIn(k, sender', QueueHolds', pack'))
  BY <1>1, Zenon DEF QueueReferences
<1>4. \A k \in 1 .. MaxMessage : CountOf(referenceCount'[k], HoldersIn(k, sender', QueueHolds', pack'))
  BY <1>2, <1>3, Zenon
<1> QED
  BY <1>1, <1>4, Zenon DEF QueueReferences, HoldersNow

\* A reference is handed from one holder to another; the count stays.
LEMMA ReferenceMoves ==
  ASSUME QueueReferences, NEW m \in 1 .. MaxMessage, NEW x \in HoldersNow(m),
         NEW y, y \notin HoldersNow(m),
         referenceCount' = referenceCount,
         HoldersIn(m, sender', QueueHolds', pack') = (HoldersNow(m) \ {x}) \union {y},
         \A k \in (1 .. MaxMessage) \ {m} : HoldersIn(k, sender', QueueHolds', pack') = HoldersNow(k)
  PROVE  QueueReferences'
<1>2. CountOf(referenceCount[m], HoldersIn(m, sender', QueueHolds', pack'))
  <2>1. CountOf(referenceCount[m], HoldersNow(m))
    BY DEF QueueReferences
  <2>2. CountOf(referenceCount[m], (HoldersNow(m) \ {x}) \union {y})
    BY <2>1, CountsTheSame, Zenon
  <2> QED
    BY <2>2, Zenon
<1>3. ASSUME NEW k \in (1 .. MaxMessage) \ {m}
      PROVE  CountOf(referenceCount[k], HoldersIn(k, sender', QueueHolds', pack'))
  BY Zenon DEF QueueReferences
<1>4. \A k \in 1 .. MaxMessage : CountOf(referenceCount[k], HoldersIn(k, sender', QueueHolds', pack'))
  BY <1>2, <1>3, Zenon
<1> QED
  BY <1>4, Zenon DEF QueueReferences, HoldersNow

\* A step that moves no message leaves the count right.
LEMMA ReferencesSame ==
  ASSUME QueueReferences, referenceCount' = referenceCount, sender' = sender,
         QueueHolds' = QueueHolds, pack' = pack
  PROVE  QueueReferences'
  BY Zenon DEF QueueReferences, HoldersNow

\* A sender with a message goes on with it, and does not go back.
LEMMA SendingGoesOn ==
  ASSUME QueueSenders, NEW s \in Senders, NEW r \in Sendings,
         sender' = [sender EXCEPT ![s] = r], messages' = messages,
         sender[s].msg /= 0, r.msg = sender[s].msg, r.at /= "idle"
  PROVE  /\ QueueSenders'
         /\ sender[s].msg \in 1 .. MaxMessage
         /\ \A t \in Senders \ {s} : sender'[t] = sender[t]
         /\ sender'[s] = r
<1>1. sender \in [Senders -> Sendings] /\ messages \in 0 .. MaxMessage
  BY DEF QueueSenders
<1>2. sender' \in [Senders -> Sendings]
  BY <1>1
<1>3. (\A t \in Senders \ {s} : sender'[t] = sender[t]) /\ sender'[s] = r
  BY <1>1
<1>4. \A t \in Senders : sender'[t].msg = sender[t].msg
  BY <1>3, Zenon
<1>5. sender[s].msg \in 1 .. MaxMessage
  BY <1>1 DEF Sendings
<1>6. \A t \in Senders :
        /\ sender'[t].at = "idle" <=> sender'[t].msg = 0
        /\ sender'[t].at = "idle" => sender'[t].queue = 1
  BY <1>3, Zenon DEF QueueSenders
<1>7. \A t \in Senders : sender'[t].msg <= messages'
  BY <1>4, Zenon DEF QueueSenders
<1>8. \A t \in Senders : \A u \in Senders : sender'[u].msg = sender'[t].msg /\ sender'[t].msg /= 0 => t = u
  BY <1>4, ZenonT(40) DEF QueueSenders
<1>9. messages' \in 0 .. MaxMessage
  BY <1>1
<1>10. QueueSenders'
  BY <1>2, <1>6, <1>7, <1>8, <1>9, Zenon DEF QueueSenders
<1> QED
  BY <1>3, <1>5, <1>10, Zenon

\* Sender s goes from snd to snd2 with the same message.
Continues(snd, snd2, s) ==
  /\ \A t \in Senders \ {s} : snd2[t] = snd[t]
  /\ snd2[s].msg = snd[s].msg

\* What a step of one sender changes of the holders of any message: its own offer.
LEMMA OfferedChanges ==
  ASSUME NEW s \in Senders, NEW k, NEW snd, NEW snd2, Continues(snd, snd2, s)
  PROVE  HoldersIn(k, snd2, QueueHolds, pack) =
           (HoldersIn(k, snd, QueueHolds, pack) \ {<<"offered", s>>})
             \union (IF snd[s].msg = k /\ snd2[s].at = "add" THEN {<<"offered", s>>} ELSE {})
  BY SenderMoves DEF Continues

\* The holders of a message the sender is not at work on stay.
LEMMA OfferedByAnother ==
  ASSUME NEW s \in Senders, NEW k, NEW snd, NEW snd2, Continues(snd, snd2, s),
         snd[s].msg /= k
  PROVE  HoldersIn(k, snd2, QueueHolds, pack) = HoldersIn(k, snd, QueueHolds, pack)
<1> DEFINE H == HoldersIn(k, snd, QueueHolds, pack)
           H2 == HoldersIn(k, snd2, QueueHolds, pack)
<1>1. H2 = (H \ {<<"offered", s>>})
             \union (IF snd[s].msg = k /\ snd2[s].at = "add" THEN {<<"offered", s>>} ELSE {})
  BY OfferedChanges, Zenon
<1>2. <<"offered", s>> \in H <=> snd[s].msg = k /\ snd[s].at = "add"
  BY DEF HoldersIn
<1> HIDE DEF H, H2
<1>3. H2 = H
  BY <1>1, <1>2
<1> QED
  BY <1>3, Zenon DEF H, H2

\* The offer to a queue is a holder of its own.
LEMMA OfferedMore ==
  ASSUME NEW s \in Senders, NEW k, NEW snd, NEW snd2, Continues(snd, snd2, s),
         snd[s].msg = k, snd[s].at /= "add", snd2[s].at = "add"
  PROVE  /\ <<"offered", s>> \notin HoldersIn(k, snd, QueueHolds, pack)
         /\ HoldersIn(k, snd2, QueueHolds, pack) = HoldersIn(k, snd, QueueHolds, pack) \union {<<"offered", s>>}
<1> DEFINE H == HoldersIn(k, snd, QueueHolds, pack)
           H2 == HoldersIn(k, snd2, QueueHolds, pack)
<1>1. H2 = (H \ {<<"offered", s>>})
             \union (IF snd[s].msg = k /\ snd2[s].at = "add" THEN {<<"offered", s>>} ELSE {})
  BY OfferedChanges
<1>2. <<"offered", s>> \in H <=> snd[s].msg = k /\ snd[s].at = "add"
  BY DEF HoldersIn
<1> HIDE DEF H, H2
<1>3. <<"offered", s>> \notin H /\ H2 = H \union {<<"offered", s>>}
  BY <1>1, <1>2
<1> QED
  BY <1>3, Zenon DEF H, H2

\* The offer has ended.
LEMMA OfferedLess ==
  ASSUME NEW s \in Senders, NEW k, NEW snd, NEW snd2, Continues(snd, snd2, s),
         snd[s].msg = k, snd[s].at = "add", snd2[s].at /= "add"
  PROVE  /\ <<"offered", s>> \in HoldersIn(k, snd, QueueHolds, pack)
         /\ HoldersIn(k, snd2, QueueHolds, pack) = HoldersIn(k, snd, QueueHolds, pack) \ {<<"offered", s>>}
<1> DEFINE H == HoldersIn(k, snd, QueueHolds, pack)
           H2 == HoldersIn(k, snd2, QueueHolds, pack)
<1>1. H2 = (H \ {<<"offered", s>>})
             \union (IF snd[s].msg = k /\ snd2[s].at = "add" THEN {<<"offered", s>>} ELSE {})
  BY OfferedChanges, Zenon
<1>2. <<"offered", s>> \in H <=> snd[s].msg = k /\ snd[s].at = "add"
  BY DEF HoldersIn
<1> HIDE DEF H, H2
<1>3. <<"offered", s>> \in H /\ H2 = H \ {<<"offered", s>>}
  BY <1>1, <1>2
<1> QED
  BY <1>3, Zenon DEF H, H2

\* The reference that a sender takes for a queue, or gives back.
LEMMA SendingReferences ==
  ASSUME QueueReferences, QueueHolds' = QueueHolds, pack' = pack,
         NEW s \in Senders, NEW m \in 1 .. MaxMessage, sender[s].msg = m, sender'[s].msg = m,
         \A t \in Senders \ {s} : sender'[t] = sender[t],
         \/ /\ sender[s].at /= "add" /\ sender'[s].at = "add"
            /\ referenceCount' = [referenceCount EXCEPT ![m] = @ + 1]
         \/ /\ sender[s].at = "add" /\ sender'[s].at /= "add"
            /\ referenceCount' = [referenceCount EXCEPT ![m] = @ - 1]
  PROVE  QueueReferences'
<1>1. PICK snd, snd2 : snd = sender /\ snd2 = sender'
  OBVIOUS
<1>2. /\ \A k : HoldersNow(k) = HoldersIn(k, snd, QueueHolds, pack)
      /\ \A k : HoldersIn(k, sender', QueueHolds', pack') = HoldersIn(k, snd2, QueueHolds, pack)
  BY <1>1, Zenon DEF HoldersNow
<1>3. Continues(snd, snd2, s) /\ snd[s].msg = m
  BY <1>1, Zenon DEF Continues
<1>4. ASSUME NEW k \in (1 .. MaxMessage) \ {m}
      PROVE  HoldersIn(k, snd2, QueueHolds, pack) = HoldersIn(k, snd, QueueHolds, pack)
  <2>1. snd[s].msg /= k
    BY <1>3
  <2> QED
    BY <1>3, <2>1, OfferedByAnother, Zenon
<1>5. CASE /\ sender[s].at /= "add" /\ sender'[s].at = "add"
           /\ referenceCount' = [referenceCount EXCEPT ![m] = @ + 1]
  <2>1. snd[s].at /= "add" /\ snd2[s].at = "add"
    BY <1>1, <1>5, Zenon
  <2>2. /\ <<"offered", s>> \notin HoldersIn(m, snd, QueueHolds, pack)
        /\ HoldersIn(m, snd2, QueueHolds, pack) =
             HoldersIn(m, snd, QueueHolds, pack) \union {<<"offered", s>>}
    BY <1>3, <2>1, OfferedMore, ZenonT(40)
  <2> QED
    BY <1>2, <1>4, <1>5, <2>2, ReferenceUp, Zenon
<1>6. CASE /\ sender[s].at = "add" /\ sender'[s].at /= "add"
           /\ referenceCount' = [referenceCount EXCEPT ![m] = @ - 1]
  <2>1. snd[s].at = "add" /\ snd2[s].at /= "add"
    BY <1>1, <1>6, Zenon
  <2>2. /\ <<"offered", s>> \in HoldersIn(m, snd, QueueHolds, pack)
        /\ HoldersIn(m, snd2, QueueHolds, pack) =
             HoldersIn(m, snd, QueueHolds, pack) \ {<<"offered", s>>}
    BY <1>3, <2>1, OfferedLess, Zenon
  <2> QED
    BY <1>2, <1>4, <1>6, <2>2, ReferenceDown, Zenon
<1> QED
  BY <1>5, <1>6

\* A reference is taken for the queue before the message is offered to it.
LEMMA RetainKeeps ==
  ASSUME QueuesInv, NEW s \in Senders, Queues!Retain(s)
  PROVE  QueuesInv'
<1> DEFINE m == sender[s].msg
           r == [sender[s] EXCEPT !.at = "add"]
<1>1. /\ sender[s].at = "retain"
      /\ referenceCount' = [referenceCount EXCEPT ![m] = @ + 1]
      /\ sender' = [sender EXCEPT ![s] = r]
      /\ UNCHANGED <<items, q_toq, q_eoq, count, waiting, thread, pack, messages, added, q_taken>>
  BY DEF Queues!Retain, Queues!Held, Queues!ring
<1>2. QueueSenders /\ QueueReferences
  BY DEF QueuesInv
<1>3. sender[s] \in Sendings /\ m /= 0
  BY <1>1, <1>2 DEF QueueSenders
<1>4. r \in Sendings /\ r.msg = m /\ r.at = "add" /\ r.queue = sender[s].queue
  BY <1>3 DEF Sendings
<1> HIDE DEF r
<1>5. /\ QueueSenders' /\ m \in 1 .. MaxMessage
      /\ \A t \in Senders \ {s} : sender'[t] = sender[t]
      /\ sender'[s] = r
  <2>1. r.at /= "idle"
    BY <1>4
  <2>2. messages' = messages
    BY <1>1
  <2> QED
    BY <1>1, <1>2, <1>3, <1>4, <2>1, <2>2, SendingGoesOn, Zenon
<1>6. QueueRings' /\ QueueThreads'
  BY <1>1, Zenon DEF QueuesInv, QueueRings, QueueThreads
<1>7. QueueHistory'
  <2>1. \A t \in Senders : \A q \in 1 .. QueueCount :
          /\ sender'[t].msg = sender[t].msg
          /\ PastQueue(sender[t], q) => PastQueue(sender'[t], q)
    BY <1>1, <1>4, <1>5 DEF PastQueue
  <2> QED
    BY <1>1, <2>1, ZenonT(40) DEF QueuesInv, QueueHistory
<1>8. QueueReferences'
  <2>1. QueueHolds' = QueueHolds /\ pack' = pack
    BY <1>1 DEF QueueHolds
  <2>2. sender'[s].msg = sender[s].msg /\ sender[s].at /= "add" /\ sender'[s].at = "add"
    BY <1>1, <1>4, <1>5
  <2> QED
    BY <1>1, <1>2, <1>5, <2>1, <2>2, SendingReferences, Zenon
<1> QED
  BY <1>5, <1>6, <1>7, <1>8 DEF QueuesInv

\* A sender that is done with a queue comes to the next, or to the end.
LEMMA NextQueueMoves ==
  ASSUME QueueSenders, NEW s \in Senders, sender[s].at = "add", Queues!NextQueue(s),
         messages' = messages
  PROVE  /\ QueueSenders'
         /\ sender[s].msg \in 1 .. MaxMessage /\ sender[s].queue \in 1 .. QueueCount
         /\ \A t \in Senders \ {s} : sender'[t] = sender[t]
         /\ sender'[s].msg = sender[s].msg /\ sender'[s].at /= "add"
         /\ PastQueue(sender'[s], sender[s].queue)
         /\ \A q \in 1 .. QueueCount : PastQueue(sender[s], q) => PastQueue(sender'[s], q)
<1> DEFINE r == IF sender[s].queue < QueueCount
                THEN [sender[s] EXCEPT !.at = "retain", !.queue = @ + 1]
                ELSE [sender[s] EXCEPT !.at = "release"]
<1>1. sender[s] \in Sendings /\ sender[s].msg /= 0
  BY DEF QueueSenders
<1>2. sender' = [sender EXCEPT ![s] = r]
  BY DEF Queues!NextQueue
<1>3. /\ r \in Sendings /\ r.msg = sender[s].msg /\ r.at \notin {"add", "idle"}
      /\ sender[s].queue \in 1 .. QueueCount
      /\ r.at = "release" \/ r.queue = sender[s].queue + 1
  <2>1. PICK g : g = sender[s]
    OBVIOUS
  <2>2. g \in Sendings /\ g.queue \in 1 .. QueueCount
    BY <1>1, <2>1 DEF Sendings
  <2>3. CASE g.queue < QueueCount
    <3>1. r = [g EXCEPT !.at = "retain", !.queue = @ + 1]
      BY <2>1, <2>3
    <3>2. g.queue + 1 \in 1 .. QueueCount
      BY <2>2, <2>3, QueueSizes
    <3> HIDE DEF r
    <3> QED
      BY <2>1, <2>2, <3>1, <3>2 DEF Sendings
  <2>4. CASE ~(g.queue < QueueCount)
    <3>1. r = [g EXCEPT !.at = "release"]
      BY <2>1, <2>4
    <3> HIDE DEF r
    <3> QED
      BY <2>1, <2>2, <3>1 DEF Sendings
  <2> QED
    BY <2>3, <2>4
<1>4. /\ PastQueue(r, sender[s].queue)
      /\ \A q \in 1 .. QueueCount : PastQueue(sender[s], q) => PastQueue(r, q)
  <2>1. sender[s].at /= "release" /\ sender[s].queue \in Int /\ \A q \in 1 .. QueueCount : q \in Int
    BY <1>3, QueueSizes
  <2> HIDE DEF r
  <2>2. PICK a \in Int : a = sender[s].queue
    BY <2>1
  <2>3. r.at = "release" \/ r.queue = a + 1
    BY <1>3, <2>2
  <2>4. a + 1 > a /\ \A q \in 1 .. QueueCount : a > q => a + 1 > q
    BY <2>1
  <2> QED
    BY <2>1, <2>2, <2>3, <2>4, Zenon DEF PastQueue
<1> HIDE DEF r
<1>5. /\ QueueSenders'
      /\ sender[s].msg \in 1 .. MaxMessage
      /\ \A t \in Senders \ {s} : sender'[t] = sender[t]
      /\ sender'[s] = r
  <2>1. r.at /= "idle"
    BY <1>3
  <2> QED
    BY <1>1, <1>2, <1>3, <2>1, SendingGoesOn, Zenon
<1>6. r.at /= "add" /\ sender[s].queue \in 1 .. QueueCount
  BY <1>3
<1> QED
  BY <1>3, <1>4, <1>5, <1>6, Zenon

\* What the queues have accepted stays so when senders go on.
LEMMA HistorySame ==
  ASSUME QueueHistory, added' = added, messages' = messages,
         \A t \in Senders : \A q \in 1 .. QueueCount :
           /\ sender'[t].msg = sender[t].msg
           /\ PastQueue(sender[t], q) => PastQueue(sender'[t], q)
  PROVE  QueueHistory'
  BY ZenonT(40) DEF QueueHistory

\* A full queue refuses the message, and the reference of the offer is given back.
LEMMA RefuseKeeps ==
  ASSUME QueuesInv, NEW s \in Senders, Queues!Refuse(s)
  PROVE  QueuesInv'
<1> DEFINE m == sender[s].msg
<1>1. /\ sender[s].at = "add" /\ Queues!NextQueue(s)
      /\ referenceCount' = [referenceCount EXCEPT ![m] = @ - 1]
      /\ UNCHANGED <<items, q_toq, q_eoq, count, waiting, thread, pack, messages, added, q_taken>>
  BY DEF Queues!Refuse, Queues!Released, Queues!ring
<1>2. QueueSenders /\ QueueReferences /\ QueueHistory
  BY DEF QueuesInv
<1>3. /\ QueueSenders'
      /\ m \in 1 .. MaxMessage
      /\ \A t \in Senders \ {s} : sender'[t] = sender[t]
      /\ sender'[s].msg = m /\ sender'[s].at /= "add"
      /\ \A q \in 1 .. QueueCount : PastQueue(sender[s], q) => PastQueue(sender'[s], q)
  <2>1. messages' = messages
    BY <1>1
  <2> QED
    BY <1>1, <1>2, <2>1, NextQueueMoves, Zenon
<1>4. QueueRings' /\ QueueThreads'
  BY <1>1, Zenon DEF QueuesInv, QueueRings, QueueThreads
<1>5. QueueHistory'
  <2>1. \A t \in Senders : \A q \in 1 .. QueueCount :
          /\ sender'[t].msg = sender[t].msg
          /\ PastQueue(sender[t], q) => PastQueue(sender'[t], q)
    BY <1>3, Zenon
  <2>2. added' = added /\ messages' = messages
    BY <1>1
  <2> QED
    BY <1>2, <2>1, <2>2, HistorySame, Zenon
<1>6. QueueReferences'
  <2>1. QueueHolds' = QueueHolds /\ pack' = pack
    BY <1>1 DEF QueueHolds
  <2> QED
    BY <1>1, <1>2, <1>3, <2>1, SendingReferences, Zenon
<1> QED
  BY <1>3, <1>4, <1>5, <1>6 DEF QueuesInv

\* The conversation is done with the message and gives up its own reference.
LEMMA ReleaseKeeps ==
  ASSUME QueuesInv, NEW s \in Senders, Queues!Release(s)
  PROVE  QueuesInv'
<1> DEFINE m == sender[s].msg
<1>1. /\ sender[s].at = "release"
      /\ referenceCount' = [referenceCount EXCEPT ![m] = @ - 1]
      /\ sender' = [sender EXCEPT ![s] = [msg |-> 0, at |-> "idle", queue |-> 1]]
      /\ UNCHANGED <<items, q_toq, q_eoq, count, waiting, thread, pack, messages, added, q_taken>>
  BY DEF Queues!Release, Queues!Released, Queues!ring, Queues!Idle, Queues!None
<1>2. QueueSenders /\ QueueReferences /\ QueueHistory
  BY DEF QueuesInv
<1>3. sender \in [Senders -> Sendings] /\ messages \in 0 .. MaxMessage
  BY <1>2 DEF QueueSenders
<1>4. m /= 0 /\ m \in 1 .. MaxMessage
  <2>1. sender[s] \in Sendings
    BY <1>3
  <2>2. m /= 0
    BY <1>1, <1>2 DEF QueueSenders
  <2> QED
    BY <2>1, <2>2 DEF Sendings
<1>5. /\ \A t \in Senders \ {s} : sender'[t] = sender[t]
      /\ sender'[s] = [msg |-> 0, at |-> "idle", queue |-> 1]
  BY <1>1, <1>3
<1>6. QueueSenders'
  <2>1. sender' \in [Senders -> Sendings]
    <3>1. [msg |-> 0, at |-> "idle", queue |-> 1] \in Sendings
      BY QueueSizes DEF Sendings
    <3> QED
      BY <1>1, <1>3, <3>1
  <2>2. sender'[s].msg = 0 /\ sender'[s].at = "idle" /\ sender'[s].queue = 1
    BY <1>5
  <2>3. messages' = messages /\ 0 <= messages
    BY <1>1, <1>3
  <2> QED
    BY <1>2, <1>3, <1>5, <2>1, <2>2, <2>3, ZenonT(40) DEF QueueSenders
<1>7. QueueRings' /\ QueueThreads'
  BY <1>1, Zenon DEF QueuesInv, QueueRings, QueueThreads
<1>8. QueueHistory'
  <2>1. \A q \in 1 .. QueueCount : \A i \in 1 .. Len(added[q]) : added[q][i] /= 0
    <3> SUFFICES ASSUME NEW q \in 1 .. QueueCount, NEW i \in 1 .. Len(added[q])
                 PROVE  added[q][i] /= 0
      OBVIOUS
    <3>1. added[q] \in Seq(1 .. MaxMessage)
      BY DEF QueuesInv, QueueRings
    <3>2. added[q][i] \in 1 .. MaxMessage
      BY <3>1, ElementOfSeq
    <3> QED
      BY <3>2
  <2>2. \A t \in Senders : \A q \in 1 .. QueueCount : \A i \in 1 .. Len(added[q]) :
          sender'[t].msg = added[q][i] => PastQueue(sender'[t], q)
    <3> SUFFICES ASSUME NEW t \in Senders, NEW q \in 1 .. QueueCount, NEW i \in 1 .. Len(added[q]),
                        sender'[t].msg = added[q][i]
                 PROVE  PastQueue(sender'[t], q)
      BY Zenon
    <3>1. t /= s
      BY <1>5, <2>1
    <3> QED
      BY <1>2, <1>5, <3>1, Zenon DEF QueueHistory
  <2>3. added' = added /\ messages' = messages
    BY <1>1
  <2> QED
    BY <1>2, <2>2, <2>3, Zenon DEF QueueHistory
<1>9. QueueReferences'
  <2>1. QueueHolds' = QueueHolds /\ pack' = pack
    BY <1>1 DEF QueueHolds
  <2>2. sender[s].at /= "add" /\ sender'[s].msg = 0
    BY <1>1, <1>5
  <2>3. \A k \in 1 .. MaxMessage : k /= 0
    OBVIOUS
  <2>4. ASSUME NEW k \in 1 .. MaxMessage
        PROVE  HoldersIn(k, sender', QueueHolds', pack') =
                 IF k = m THEN HoldersNow(k) \ {<<"sender", s>>} ELSE HoldersNow(k)
    <3>1. HoldersIn(k, sender', QueueHolds, pack) =
            IF k = sender[s].msg THEN HoldersIn(k, sender, QueueHolds, pack) \ {<<"sender", s>>}
            ELSE HoldersIn(k, sender, QueueHolds, pack)
      BY <1>5, <2>2, <2>3, SenderEnds
    <3> QED
      BY <2>1, <3>1, Zenon DEF HoldersNow
  <2>5. <<"sender", s>> \in HoldersNow(m)
    BY DEF HoldersNow, HoldersIn
  <2>6. HoldersIn(m, sender', QueueHolds', pack') = HoldersNow(m) \ {<<"sender", s>>}
    BY <1>4, <2>4, Zenon
  <2>7. \A k \in (1 .. MaxMessage) \ {m} : HoldersIn(k, sender', QueueHolds', pack') = HoldersNow(k)
    BY <2>4
  <2> QED
    BY <1>1, <1>2, <1>4, <2>5, <2>6, <2>7, ReferenceDown, Zenon
<1> QED
  BY <1>6, <1>7, <1>8, <1>9 DEF QueuesInv

\* A sender's message m on queue q: what the step does to the ring, and to the history.
AddedTo(q, m) ==
  /\ items' = [items EXCEPT ![q] = [items[q] EXCEPT ![q_eoq[q]] = m]]
  /\ q_eoq' = [q_eoq EXCEPT ![q] = IF q_eoq[q] + 1 = Capacity[q] THEN 0 ELSE q_eoq[q] + 1]
  /\ count[q] < Capacity[q] /\ count' = [count EXCEPT ![q] = count[q] + 1]
  /\ added' = [added EXCEPT ![q] = Append(added[q], m)]
  /\ UNCHANGED <<q_toq, thread, pack, messages, referenceCount, q_taken>>

\* What Add does to the rings, the queue's length and the sender.
LEMMA AddMeans ==
  ASSUME QueuesInv, NEW s \in Senders, Queues!Add(s)
  PROVE  /\ sender[s].at = "add" /\ AddedTo(sender[s].queue, sender[s].msg)
         /\ waiting' \subseteq waiting /\ Queues!NextQueue(s) /\ messages' = messages
<1>1. /\ DOMAIN items = 1 .. QueueCount /\ DOMAIN count = 1 .. QueueCount
      /\ DOMAIN q_eoq = 1 .. QueueCount
      /\ sender[s].queue \in 1 .. QueueCount
      /\ count[sender[s].queue] \in Int /\ Capacity[sender[s].queue] \in Int
  <2>1. DOMAIN items = 1 .. QueueCount /\ DOMAIN count = 1 .. QueueCount /\ DOMAIN q_eoq = 1 .. QueueCount
    BY Zenon DEF QueuesInv, QueueRings
  <2>2. PICK q : q = sender[s].queue
    OBVIOUS
  <2>3. q \in 1 .. QueueCount
    <3>1. sender[s] \in Sendings
      BY DEF QueuesInv, QueueSenders
    <3> QED
      BY <2>2, <3>1 DEF Sendings
  <2>4. RingRight(items[q], q_toq[q], q_eoq[q], count[q], Capacity[q], added[q], q_taken[q])
    BY <2>3, Zenon DEF QueuesInv, QueueRings
  <2>5. Capacity[q] \in Nat
    BY <2>3, QueueSizes
  <2>6. count[q] \in Int
    BY <2>4, <2>5 DEF RingRight
  <2> QED
    BY <2>1, <2>2, <2>3, <2>5, <2>6
<1> DEFINE q == sender[s].queue  m == sender[s].msg
<1>2. /\ sender[s].at = "add" /\ ~ (count[q] >= Capacity[q])
      /\ items' = [items EXCEPT ![q][q_eoq[q]] = m]
      /\ q_eoq' = [q_eoq EXCEPT ![q] = IF @ + 1 = Capacity[q] THEN 0 ELSE @ + 1]
      /\ count' = [count EXCEPT ![q] = @ + 1]
      /\ waiting' = waiting \ {q}
      /\ added' = [added EXCEPT ![q] = Append(@, m)]
      /\ Queues!NextQueue(s)
      /\ UNCHANGED <<q_toq, thread, pack, messages, referenceCount, q_taken>>
  BY Zenon DEF Queues!Add, Queues!Full, Queues!Slot, Queues!Folded, Queues!Signal
<1>3. count[q] < Capacity[q]
  BY <1>1, <1>2
<1>4. AddedTo(q, m)
  BY <1>2, <1>3, Zenon DEF AddedTo
<1> QED
  BY <1>2, <1>4, Zenon

\* Only the ring it is added to changes, and that ring stays right.
LEMMA AddRings ==
  ASSUME QueueRings, NEW q \in 1 .. QueueCount, NEW m \in 1 .. MaxMessage, AddedTo(q, m)
  PROVE  QueueRings'
<1>1. RingRight(items[q], q_toq[q], q_eoq[q], count[q], Capacity[q], added[q], q_taken[q])
  BY DEF QueueRings
<1>2. Capacity[q] \in Nat \ {0}
  BY QueueSizes
<1>3. count[q] < Capacity[q]
  BY DEF AddedTo
<1>4. RingRight([items[q] EXCEPT ![q_eoq[q]] = m], q_toq[q],
                IF q_eoq[q] + 1 = Capacity[q] THEN 0 ELSE q_eoq[q] + 1,
                count[q] + 1, Capacity[q], Append(added[q], m), q_taken[q])
  BY <1>1, <1>2, <1>3, RingAdds
<1>5. /\ items'[q] = [items[q] EXCEPT ![q_eoq[q]] = m] /\ q_toq'[q] = q_toq[q]
      /\ q_eoq'[q] = IF q_eoq[q] + 1 = Capacity[q] THEN 0 ELSE q_eoq[q] + 1
      /\ count'[q] = count[q] + 1 /\ added'[q] = Append(added[q], m) /\ q_taken'[q] = q_taken[q]
      /\ DOMAIN items' = 1 .. QueueCount /\ DOMAIN q_toq' = 1 .. QueueCount
      /\ DOMAIN q_eoq' = 1 .. QueueCount /\ DOMAIN count' = 1 .. QueueCount
  BY Zenon DEF QueueRings, AddedTo
<1>6. \A p \in (1 .. QueueCount) \ {q} :
        /\ items'[p] = items[p] /\ q_toq'[p] = q_toq[p] /\ q_eoq'[p] = q_eoq[p]
        /\ count'[p] = count[p] /\ added'[p] = added[p] /\ q_taken'[p] = q_taken[p]
  BY Zenon DEF QueueRings, AddedTo
<1>7. /\ added' \in [1 .. QueueCount -> Seq(1 .. MaxMessage)]
      /\ q_taken' \in [1 .. QueueCount -> Seq(1 .. MaxMessage)]
  <2>1. added \in [1 .. QueueCount -> Seq(1 .. MaxMessage)] /\ q_taken' = q_taken
        /\ added' = [added EXCEPT ![q] = Append(added[q], m)]
        /\ q_taken \in [1 .. QueueCount -> Seq(1 .. MaxMessage)]
    BY DEF QueueRings, AddedTo
  <2>2. Append(added[q], m) \in Seq(1 .. MaxMessage)
    BY <2>1
  <2> QED
    BY <2>1, <2>2
<1>8. RingRight(items'[q], q_toq'[q], q_eoq'[q], count'[q], Capacity[q], added'[q], q_taken'[q])
  BY <1>4, <1>5, Zenon
<1>9. \A p \in (1 .. QueueCount) \ {q} :
        RingRight(items'[p], q_toq'[p], q_eoq'[p], count'[p], Capacity[p], added'[p], q_taken'[p])
  BY <1>6, Zenon DEF QueueRings
<1>10. \A p \in 1 .. QueueCount :
        RingRight(items'[p], q_toq'[p], q_eoq'[p], count'[p], Capacity[p], added'[p], q_taken'[p])
  BY <1>8, <1>9, Zenon
<1> QED
  BY <1>5, <1>7, <1>10, Zenon DEF QueueRings

\* What the queues hold, after the message came to q: nothing of it was there before.
LEMMA AddHolds ==
  ASSUME QueueRings, NEW q \in 1 .. QueueCount, NEW m \in 1 .. MaxMessage, AddedTo(q, m)
  PROVE  /\ QueueHolds'[q] = QueueHolds[q] \union {m}
         /\ \A p \in (1 .. QueueCount) \ {q} : QueueHolds'[p] = QueueHolds[p]
<1>1. /\ added'[q] = Append(added[q], m) /\ q_taken' = q_taken
      /\ \A p \in (1 .. QueueCount) \ {q} : added'[p] = added[p]
  BY Zenon DEF QueueRings, AddedTo
<1>2. added[q] \in Seq(1 .. MaxMessage) /\ q_taken[q] \in Seq(1 .. MaxMessage)
      /\ count[q] \in Nat /\ Len(added[q]) = Len(q_taken[q]) + count[q]
  <2>1. RingRight(items[q], q_toq[q], q_eoq[q], count[q], Capacity[q], added[q], q_taken[q])
    BY DEF QueueRings
  <2>2. Capacity[q] \in Nat
    BY QueueSizes
  <2> QED
    BY <2>1, <2>2 DEF RingRight
<1>3. QueueHolds'[q] = QueueHolds[q] \union {m}
  <2> DEFINE a == Len(q_taken[q])  b == Len(added[q])
  <2>1. a \in Nat /\ b \in Nat /\ a <= b
    BY <1>2
  <2>2. Len(Append(added[q], m)) = b + 1 /\ Append(added[q], m)[b + 1] = m
        /\ \A k \in 1 .. b : Append(added[q], m)[k] = added[q][k]
    BY <1>2
  <2>3. QueueHolds'[q] = {Append(added[q], m)[k] : k \in a + 1 .. b + 1}
    BY <1>1, <2>2, ZenonT(40) DEF QueueHolds
  <2>4. QueueHolds[q] = {added[q][k] : k \in a + 1 .. b}
    BY DEF QueueHolds
  <2> HIDE DEF a, b
  <2>5. \A k \in a + 1 .. b + 1 : k = b + 1 \/ k \in a + 1 .. b
    BY <2>1
  <2>6. b + 1 \in a + 1 .. b + 1 /\ \A k \in a + 1 .. b : k \in a + 1 .. b + 1 /\ k \in 1 .. b
    BY <2>1
  <2> QED
    BY <2>2, <2>3, <2>4, <2>5, <2>6, Zenon
<1>4. \A p \in (1 .. QueueCount) \ {q} : QueueHolds'[p] = QueueHolds[p]
  BY <1>1, Zenon DEF QueueHolds
<1> QED
  BY <1>3, <1>4, Zenon

\* What is now in the history of q is what was, and the message m, which is not in it twice.
LEMMA AddHistory ==
  ASSUME QueueHistory, QueueSenders, QueueRings, NEW s \in Senders,
         NEW q \in 1 .. QueueCount, NEW m \in 1 .. MaxMessage, AddedTo(q, m),
         sender[s].msg = m, ~ PastQueue(sender[s], q), PastQueue(sender'[s], q), messages' = messages,
         \A t \in Senders : sender'[t].msg = sender[t].msg,
         \A t \in Senders : \A p \in 1 .. QueueCount : PastQueue(sender[t], p) => PastQueue(sender'[t], p)
  PROVE  QueueHistory'
<1>1. /\ added'[q] = Append(added[q], m)
      /\ \A p \in (1 .. QueueCount) \ {q} : added'[p] = added[p]
  BY Zenon DEF QueueRings, AddedTo
<1>2. added[q] \in Seq(1 .. MaxMessage)
  BY DEF QueueRings
<1> DEFINE b == Len(added[q])
<1>3. /\ b \in Nat /\ Len(Append(added[q], m)) = b + 1 /\ Append(added[q], m)[b + 1] = m
      /\ \A k \in 1 .. b : Append(added[q], m)[k] = added[q][k]
      /\ \A k \in 1 .. b + 1 : k = b + 1 \/ k \in 1 .. b
  BY <1>2
<1>4. \A k \in 1 .. b : added[q][k] /= m
  BY Zenon DEF QueueHistory
<1>5. m <= messages
  BY Zenon DEF QueueSenders
<1>6. \A t \in Senders : sender[t].msg = m => t = s
  <2>1. m /= 0
    BY QueueSizes
  <2> QED
    BY <2>1, Zenon DEF QueueSenders
<1>7. ASSUME NEW i \in 1 .. b + 1
      PROVE  /\ added'[q][i] <= messages'
             /\ \A t \in Senders : sender'[t].msg = added'[q][i] => PastQueue(sender'[t], q)
             /\ \A j \in 1 .. b + 1 : added'[q][j] = added'[q][i] => i = j
  <2>1. CASE i = b + 1
    <3>1. added'[q][i] = m
      BY <1>1, <1>3, <2>1
    <3>2. \A j \in 1 .. b + 1 : added'[q][j] = m => j = b + 1
      BY <1>1, <1>3, <1>4, Zenon
    <3> QED
      BY <1>5, <1>6, <2>1, <3>1, <3>2, Zenon
  <2>2. CASE i \in 1 .. b
    <3>1. added'[q][i] = added[q][i]
      BY <1>1, <1>3, <2>2, Zenon
    <3>2. \A j \in 1 .. b + 1 : added'[q][j] = added'[q][i] => i = j
      <4> SUFFICES ASSUME NEW j \in 1 .. b + 1, added'[q][j] = added'[q][i]
                   PROVE  i = j
        BY Zenon
      <4>1. j /= b + 1
        BY <1>1, <1>3, <1>4, <2>2, <3>1, Zenon
      <4>2. j \in 1 .. b /\ added'[q][j] = added[q][j]
        BY <1>1, <1>3, <4>1, Zenon
      <4> QED
        BY <2>2, <3>1, <4>2, Zenon DEF QueueHistory
    <3> QED
      BY <2>2, <3>1, <3>2, Zenon DEF QueueHistory
  <2> QED
    BY <1>3, <2>1, <2>2, Zenon
<1>8. Len(added'[q]) = b + 1
  BY <1>1, <1>3
<1>9. \A p \in (1 .. QueueCount) \ {q} : \A i \in 1 .. Len(added'[p]) :
        /\ added'[p][i] <= messages'
        /\ \A t \in Senders : sender'[t].msg = added'[p][i] => PastQueue(sender'[t], p)
        /\ \A j \in 1 .. Len(added'[p]) : added'[p][j] = added'[p][i] => i = j
  BY <1>1, Zenon DEF QueueHistory
<1> QED
  BY <1>7, <1>8, <1>9, ZenonT(40) DEF QueueHistory

\* The reference of the offer is that of the queue now.
LEMMA AddReferences ==
  ASSUME QueueReferences, QueueRings, NEW s \in Senders,
         NEW q \in 1 .. QueueCount, NEW m \in 1 .. MaxMessage, AddedTo(q, m),
         m \notin QueueHolds[q], sender[s].at = "add", sender'[s].at /= "add",
         Continues(sender, sender', s), sender[s].msg = m
  PROVE  QueueReferences'
<1>1. PICK snd, snd2, hd, hd2 : snd = sender /\ snd2 = sender' /\ hd = QueueHolds /\ hd2 = QueueHolds'
  OBVIOUS
<1>2. /\ hd2[q] = hd[q] \union {m}
      /\ \A p \in (1 .. QueueCount) \ {q} : hd2[p] = hd[p]
  BY <1>1, AddHolds, Zenon
<1>3. /\ Continues(snd, snd2, s) /\ snd[s].msg = m /\ snd[s].at = "add" /\ snd2[s].at /= "add"
      /\ m \notin hd[q] /\ pack' = pack /\ referenceCount' = referenceCount
  BY <1>1, Zenon DEF AddedTo
<1>4. /\ \A k : HoldersNow(k) = HoldersIn(k, snd, hd, pack)
      /\ \A k : HoldersIn(k, sender', QueueHolds', pack') = HoldersIn(k, snd2, hd2, pack)
  BY <1>1, <1>3, Zenon DEF HoldersNow
<1>5. \A k : HoldersIn(k, snd2, hd2, pack) =
               (HoldersIn(k, snd2, hd, pack) \ {<<"queue", q>>})
                 \union (IF k \in hd2[q] THEN {<<"queue", q>>} ELSE {})
  BY <1>2, QueueChanges
<1>6. \A k : <<"queue", q>> \in HoldersIn(k, snd2, hd, pack) <=> k \in hd[q]
  BY DEF HoldersIn
<1>7. ASSUME NEW k \in (1 .. MaxMessage) \ {m}
      PROVE  HoldersIn(k, snd2, hd2, pack) = HoldersIn(k, snd, hd, pack)
  <2>1. HoldersIn(k, snd2, hd, pack) = HoldersIn(k, snd, hd, pack)
    <3>1. snd[s].msg /= k
      BY <1>3
    <3> QED
      BY <1>1, <1>3, <3>1, OfferedByAnother, Zenon
  <2>2. k \in hd2[q] <=> k \in hd[q]
    BY <1>2
  <2> DEFINE A == HoldersIn(k, snd2, hd2, pack)  B == HoldersIn(k, snd2, hd, pack)
  <2>3. /\ A = (B \ {<<"queue", q>>}) \union (IF k \in hd2[q] THEN {<<"queue", q>>} ELSE {})
        /\ <<"queue", q>> \in B <=> k \in hd[q]
    BY <1>5, <1>6, Zenon
  <2> HIDE DEF A, B
  <2>4. A = B
    BY <2>2, <2>3
  <2> QED
    BY <2>1, <2>4, Zenon DEF A, B
<1>8. /\ <<"offered", s>> \in HoldersIn(m, snd, hd, pack)
      /\ HoldersIn(m, snd2, hd, pack) = HoldersIn(m, snd, hd, pack) \ {<<"offered", s>>}
  BY <1>1, <1>3, OfferedLess, Zenon
<1>9. HoldersIn(m, snd2, hd2, pack) =
        (HoldersIn(m, snd, hd, pack) \ {<<"offered", s>>}) \union {<<"queue", q>>}
  <2> DEFINE A == HoldersIn(m, snd2, hd2, pack)  B == HoldersIn(m, snd2, hd, pack)
  <2>1. m \in hd2[q]
    BY <1>2
  <2>2. A = (B \ {<<"queue", q>>}) \union {<<"queue", q>>}
    BY <1>5, <2>1, Zenon
  <2>3. A = B \union {<<"queue", q>>}
    <3> HIDE DEF A, B
    <3> QED
      BY <2>2
  <2> QED
    BY <1>8, <2>3, Zenon
<1>10. <<"queue", q>> \notin HoldersIn(m, snd, hd, pack)
  <2>1. <<"queue", q>> \notin HoldersIn(m, snd2, hd, pack)
    BY <1>3, <1>6, Zenon
  <2>2. <<"queue", q>> /= <<"offered", s>>
    OBVIOUS
  <2> QED
    BY <1>8, <2>1, <2>2, Zenon
<1>11. /\ <<"offered", s>> \in HoldersNow(m) /\ <<"queue", q>> \notin HoldersNow(m)
       /\ HoldersIn(m, sender', QueueHolds', pack') =
            (HoldersNow(m) \ {<<"offered", s>>}) \union {<<"queue", q>>}
  BY <1>4, <1>8, <1>9, <1>10, Zenon
<1>12. \A k \in (1 .. MaxMessage) \ {m} : HoldersIn(k, sender', QueueHolds', pack') = HoldersNow(k)
  BY <1>4, <1>7, Zenon
<1> QED
  BY <1>3, <1>11, <1>12, ReferenceMoves, Zenon

\* The queue takes over the reference of the offer.
LEMMA AddKeeps ==
  ASSUME QueuesInv, NEW s \in Senders, Queues!Add(s)
  PROVE  QueuesInv'
<1> DEFINE q == sender[s].queue  m == sender[s].msg
<1>1. /\ sender[s].at = "add" /\ AddedTo(q, m)
      /\ waiting' \subseteq waiting /\ Queues!NextQueue(s) /\ messages' = messages
  BY AddMeans, Zenon
<1>2. QueueSenders /\ QueueReferences /\ QueueHistory /\ QueueRings /\ QueueThreads
  BY Zenon DEF QueuesInv
<1>3. /\ QueueSenders'
      /\ m \in 1 .. MaxMessage /\ q \in 1 .. QueueCount
      /\ \A t \in Senders \ {s} : sender'[t] = sender[t]
      /\ sender'[s].msg = m /\ sender'[s].at /= "add" /\ PastQueue(sender'[s], q)
      /\ \A p \in 1 .. QueueCount : PastQueue(sender[s], p) => PastQueue(sender'[s], p)
  BY <1>1, <1>2, NextQueueMoves, Zenon
<1>4. ~ PastQueue(sender[s], q)
  <2>1. q \in Int /\ ~ (q > q)
    BY <1>3, QueueSizes
  <2> QED
    BY <1>1, <2>1, Zenon DEF PastQueue
<1>5. QueueRings'
  BY <1>1, <1>2, <1>3, AddRings, Zenon
<1>6. QueueThreads'
  <2>1. waiting' \subseteq 1 .. QueueCount
    BY <1>1, <1>2, Zenon DEF QueueThreads
  <2>2. thread' = thread /\ pack' = pack /\ q_taken' = q_taken
    BY <1>1, Zenon DEF AddedTo
  <2> QED
    BY <1>2, <2>1, <2>2, Zenon DEF QueueThreads
<1>7. QueueHistory'
  <2>1. \A t \in Senders : \A p \in 1 .. QueueCount : PastQueue(sender[t], p) => PastQueue(sender'[t], p)
    BY <1>3, Zenon
  <2>2. \A t \in Senders : sender'[t].msg = sender[t].msg
    BY <1>3, Zenon
  <2> QED
    BY <1>1, <1>2, <1>3, <1>4, <2>1, <2>2, AddHistory
<1>8. QueueReferences'
  <2>1. m \notin QueueHolds[q]
    <3>1. \A i \in 1 .. Len(added[q]) : added[q][i] /= m
      BY <1>2, <1>3, <1>4, Zenon DEF QueueHistory
    <3>2. added[q] \in Seq(1 .. MaxMessage) /\ q_taken[q] \in Seq(1 .. MaxMessage)
      BY <1>2, <1>3 DEF QueueRings
    <3>3. \A i \in Len(q_taken[q]) + 1 .. Len(added[q]) : i \in 1 .. Len(added[q])
      BY <3>2
    <3> QED
      BY <1>3, <3>1, <3>3 DEF QueueHolds
  <2>2. Continues(sender, sender', s)
    BY <1>3, Zenon DEF Continues
  <2> QED
    BY <1>1, <1>2, <1>3, <2>1, <2>2, AddReferences
<1> QED
  BY <1>3, <1>5, <1>6, <1>7, <1>8, Zenon DEF QueuesInv

\* What a thread has, its queue accepted.
LEMMA PackWasAdded ==
  ASSUME QueueRings, QueueThreads, NEW q \in 1 .. QueueCount, pack[q] /= 0
  PROVE  \E i \in 1 .. Len(added[q]) : pack[q] = added[q][i]
<1>1. RingRight(items[q], q_toq[q], q_eoq[q], count[q], Capacity[q], added[q], q_taken[q])
  BY DEF QueueRings
<1>2. Len(q_taken[q]) > 0 /\ pack[q] = q_taken[q][Len(q_taken[q])]
  BY DEF QueueThreads
<1>3. Capacity[q] \in Nat
  BY QueueSizes
<1>4. /\ q_taken[q] \in Seq(1 .. MaxMessage) /\ added[q] \in Seq(1 .. MaxMessage)
      /\ Len(q_taken[q]) <= Len(added[q])
      /\ \A i \in 1 .. Len(q_taken[q]) : q_taken[q][i] = added[q][i]
  BY <1>1, <1>3 DEF RingRight
<1> QED
  BY <1>2, <1>4

\* A message that was not yet sent has no holder.
LEMMA NewHasNoHolder ==
  ASSUME QueuesInv
  PROVE  HoldersNow(messages + 1) = {}
<1> DEFINE new == messages + 1
<1>1. QueueRings /\ QueueThreads /\ QueueSenders /\ QueueHistory
  BY Zenon DEF QueuesInv
<1>2. messages \in 0 .. MaxMessage
  BY <1>1 DEF QueueSenders
<1>3. new \in Nat /\ new /= 0 /\ ~ (new <= messages)
  BY <1>2, QueueSizes
<1>4. \A t \in Senders : sender[t].msg /= new
  BY <1>1, <1>3, Zenon DEF QueueSenders
<1>5. \A q \in 1 .. QueueCount : \A i \in 1 .. Len(added[q]) : added[q][i] /= new
  BY <1>1, <1>3, Zenon DEF QueueHistory
<1>6. \A q \in 1 .. QueueCount : pack[q] /= new
  BY <1>1, <1>3, <1>5, PackWasAdded, Zenon
<1>7. \A q \in 1 .. QueueCount : new \notin QueueHolds[q]
  <2> SUFFICES ASSUME NEW q \in 1 .. QueueCount
               PROVE  new \notin QueueHolds[q]
    OBVIOUS
  <2>1. added[q] \in Seq(1 .. MaxMessage) /\ q_taken[q] \in Seq(1 .. MaxMessage)
    BY <1>1 DEF QueueRings
  <2>2. \A i \in Len(q_taken[q]) + 1 .. Len(added[q]) : i \in 1 .. Len(added[q])
    BY <2>1
  <2> HIDE DEF new
  <2> QED
    BY <1>5, <2>2 DEF QueueHolds
<1> HIDE DEF new
<1>8. HoldersNow(new) = {}
  BY <1>4, <1>6, <1>7 DEF HoldersNow, HoldersIn
<1> QED
  BY <1>8 DEF new

\* A new message starts with the reference of its sender.
LEMMA SendKeeps ==
  ASSUME QueuesInv, NEW s \in Senders, Queues!Send(s)
  PROVE  QueuesInv'
<1> DEFINE new == messages + 1
           r == [msg |-> new, at |-> "retain", queue |-> 1]
<1>1. /\ sender[s] = [msg |-> 0, at |-> "idle", queue |-> 1] /\ messages < MaxMessage
      /\ messages' = new
      /\ sender' = [sender EXCEPT ![s] = r]
      /\ referenceCount' = [referenceCount EXCEPT ![new] = 1]
      /\ UNCHANGED <<items, q_toq, q_eoq, count, waiting, thread, pack, added, q_taken>>
  BY DEF Queues!Send, Queues!Idle, Queues!None, Queues!ring
<1>2. QueueRings /\ QueueThreads /\ QueueSenders /\ QueueHistory /\ QueueReferences
  BY Zenon DEF QueuesInv
<1>3. messages \in 0 .. MaxMessage /\ sender \in [Senders -> Sendings]
  BY <1>2 DEF QueueSenders
<1>4. /\ new \in 1 .. MaxMessage /\ new /= 0 /\ r \in Sendings
      /\ \A n \in Int : n <= messages => n <= new /\ n /= new
  BY <1>1, <1>3, QueueSizes DEF Sendings
<1>5. /\ r.msg = new /\ r.at = "retain" /\ r.at /= "add" /\ r.at /= "idle" /\ r.queue = 1
  OBVIOUS
<1>6. /\ sender'[s] = r /\ \A t \in Senders \ {s} : sender'[t] = sender[t]
      /\ sender[s].msg = 0
      /\ sender' \in [Senders -> Sendings]
  BY <1>1, <1>3, <1>4
<1>7. \A t \in Senders : sender[t].msg \in Int
  <2>1. \A t \in Senders : sender[t] \in Sendings
    BY <1>3
  <2> QED
    BY <2>1, <1>3 DEF Sendings
<1>8. \A q \in 1 .. QueueCount : added[q] \in Seq(1 .. MaxMessage)
  BY <1>2 DEF QueueRings
<1>9. \A q \in 1 .. QueueCount : \A i \in 1 .. Len(added[q]) : added[q][i] \in Int
  <2> SUFFICES ASSUME NEW q \in 1 .. QueueCount, NEW i \in 1 .. Len(added[q])
               PROVE  added[q][i] \in Int
    OBVIOUS
  <2>1. added[q][i] \in 1 .. MaxMessage
    BY <1>8, ElementOfSeq
  <2> QED
    BY <2>1
<1> HIDE DEF r, new
<1>10. QueueSenders'
  <2>1. \A t \in Senders : sender[t].msg <= messages
    BY <1>2, Zenon DEF QueueSenders
  <2>2. \A t \in Senders : sender[t].msg <= new /\ sender[t].msg /= new
    BY <1>4, <1>7, <2>1, Zenon
  <2>3. new <= new /\ new \in 0 .. MaxMessage
    BY <1>4
  <2>4. \A t \in Senders : sender'[t].msg <= messages'
    BY <1>1, <1>5, <1>6, <2>2, <2>3, Zenon
  <2>5. \A t \in Senders : /\ sender'[t].at = "idle" <=> sender'[t].msg = 0
                           /\ sender'[t].at = "idle" => sender'[t].queue = 1
    BY <1>2, <1>4, <1>5, <1>6, Zenon DEF QueueSenders
  <2>6. \A t, u \in Senders : sender'[u].msg = sender'[t].msg /\ sender'[t].msg /= 0 => t = u
    <3> SUFFICES ASSUME NEW t \in Senders, NEW u \in Senders,
                        sender'[u].msg = sender'[t].msg, sender'[t].msg /= 0, t /= u
                 PROVE  FALSE
      BY Zenon
    <3>1. CASE t /= s /\ u /= s
      BY <1>2, <1>6, <3>1, Zenon DEF QueueSenders
    <3>2. CASE t = s
      <4>1. sender'[u] = sender[u] /\ sender'[t].msg = new
        BY <1>5, <1>6, <3>2, Zenon
      <4> QED
        BY <2>2, <4>1, Zenon
    <3>3. CASE u = s
      <4>1. sender'[t] = sender[t] /\ sender'[u].msg = new
        BY <1>5, <1>6, <3>3, Zenon
      <4> QED
        BY <2>2, <4>1, Zenon
    <3> QED
      BY <3>1, <3>2, <3>3, Zenon
  <2> QED
    BY <1>1, <1>6, <2>3, <2>4, <2>5, <2>6, Zenon DEF QueueSenders
<1>11. QueueRings' /\ QueueThreads'
  BY <1>1, <1>2, Zenon DEF QueueRings, QueueThreads
<1>12. QueueHistory'
  <2>1. \A q \in 1 .. QueueCount : \A i \in 1 .. Len(added[q]) : added[q][i] <= messages
    BY <1>2, Zenon DEF QueueHistory
  <2>2. \A q \in 1 .. QueueCount : \A i \in 1 .. Len(added[q]) : added[q][i] <= new /\ added[q][i] /= new
    BY <1>4, <1>9, <2>1, Zenon
  <2>3. \A q \in 1 .. QueueCount : \A i \in 1 .. Len(added[q]) :
          \A t \in Senders : sender'[t].msg = added[q][i] => PastQueue(sender'[t], q)
    <3> SUFFICES ASSUME NEW q \in 1 .. QueueCount, NEW i \in 1 .. Len(added[q]),
                        NEW t \in Senders, sender'[t].msg = added[q][i]
                 PROVE  PastQueue(sender'[t], q)
      BY Zenon
    <3>1. t /= s
      BY <1>5, <1>6, <2>2, Zenon
    <3>2. sender'[t] = sender[t]
      BY <1>6, <3>1, Zenon
    <3> QED
      BY <1>2, <3>2, Zenon DEF QueueHistory
  <2>4. \A q \in 1 .. QueueCount : \A i \in 1 .. Len(added[q]) :
          \A j \in 1 .. Len(added[q]) : added[q][j] = added[q][i] => i = j
    BY <1>2, Zenon DEF QueueHistory
  <2>5. added' = added /\ messages' = new
    BY <1>1
  <2> QED
    BY <2>2, <2>3, <2>4, <2>5, Zenon DEF QueueHistory
<1>13. QueueReferences'
  <2>1. HoldersNow(new) = {}
    BY NewHasNoHolder, Zenon DEF new
  <2>2. referenceCount[new] = 0
    <3>1. CountOf(referenceCount[new], {})
      BY <1>2, <1>4, <2>1, Zenon DEF QueueReferences
    <3> QED
      BY <3>1, FS_EmptySet, Zenon DEF CountOf
  <2>3. referenceCount' = [referenceCount EXCEPT ![new] = @ + 1]
    BY <1>1, <2>2
  <2>4. PICK snd2 : snd2 = sender'
    OBVIOUS
  <2>5. \A k \in 1 .. MaxMessage : k /= 0
    OBVIOUS
  <2>6. ASSUME NEW k \in 1 .. MaxMessage
        PROVE  HoldersIn(k, snd2, QueueHolds, pack) =
                 HoldersIn(k, sender, QueueHolds, pack) \union (IF k = new THEN {<<"sender", s>>} ELSE {})
    <3>1. /\ \A t \in Senders \ {s} : snd2[t] = sender[t]
          /\ snd2[s].msg = new /\ snd2[s].at /= "add"
      BY <1>5, <1>6, <2>4, Zenon
    <3> QED
      BY <1>4, <1>6, <2>5, <3>1, SenderBegins
  <2>7. QueueHolds' = QueueHolds /\ pack' = pack
    BY <1>1 DEF QueueHolds
  <2>8. \A k : HoldersIn(k, sender', QueueHolds', pack') = HoldersIn(k, snd2, QueueHolds, pack)
    BY <2>4, <2>7, Zenon
  <2>9. HoldersIn(new, sender', QueueHolds', pack') = HoldersNow(new) \union {<<"sender", s>>}
    <3>1. HoldersIn(new, snd2, QueueHolds, pack) =
            HoldersIn(new, sender, QueueHolds, pack) \union (IF new = new THEN {<<"sender", s>>} ELSE {})
      BY <1>4, <2>6, Zenon
    <3> QED
      BY <2>8, <3>1, Zenon DEF HoldersNow
  <2>10. \A k \in (1 .. MaxMessage) \ {new} : HoldersIn(k, sender', QueueHolds', pack') = HoldersNow(k)
    <3> SUFFICES ASSUME NEW k \in (1 .. MaxMessage) \ {new}
                 PROVE  HoldersIn(k, snd2, QueueHolds, pack) = HoldersIn(k, sender, QueueHolds, pack)
      BY <2>8, Zenon DEF HoldersNow
    <3> DEFINE A == HoldersIn(k, snd2, QueueHolds, pack)  B == HoldersIn(k, sender, QueueHolds, pack)
    <3>1. A = B \union (IF k = new THEN {<<"sender", s>>} ELSE {})
      BY <2>6, Zenon
    <3> HIDE DEF A, B
    <3>2. A = B
      BY <3>1
    <3> QED
      BY <3>2, Zenon DEF A, B
  <2>11. <<"sender", s>> \notin HoldersNow(new)
    BY <2>1, Zenon
  <2> QED
    BY <1>2, <1>4, <2>3, <2>9, <2>10, <2>11, ReferenceUp, Zenon
<1> QED
  BY <1>10, <1>11, <1>12, <1>13, Zenon DEF QueuesInv

\* A thread that finds its queue empty waits.
LEMMA WaitKeeps ==
  ASSUME QueuesInv, NEW q \in 1 .. QueueCount, Queues!Wait(q)
  PROVE  QueuesInv'
<1>1. /\ waiting' = waiting \union {q}
      /\ UNCHANGED <<items, q_toq, q_eoq, count, thread, pack, sender, messages, referenceCount,
                     added, q_taken>>
  BY DEF Queues!Wait, Queues!ring
<1>2. QueueHolds' = QueueHolds
  BY <1>1 DEF QueueHolds
<1>3. QueueReferences'
  BY <1>1, <1>2, ReferencesSame, Zenon DEF QueuesInv
<1>4. QueueRings' /\ QueueSenders' /\ QueueHistory'
  BY <1>1, Zenon DEF QueuesInv, QueueRings, QueueSenders, QueueHistory
<1>5. waiting' \subseteq 1 .. QueueCount
  BY <1>1, Zenon DEF QueuesInv, QueueThreads
<1>6. QueueThreads'
  BY <1>1, <1>5, Zenon DEF QueuesInv, QueueThreads
<1> QED
  BY <1>3, <1>4, <1>6, Zenon DEF QueuesInv

\* The thread of q takes message h.
Takes(q, h) ==
  /\ thread[q] = "get" /\ count[q] > 0 /\ h = items[q][q_toq[q]]
  /\ pack' = [pack EXCEPT ![q] = h]
  /\ q_toq' = [q_toq EXCEPT ![q] = IF q_toq[q] + 1 = Capacity[q] THEN 0 ELSE q_toq[q] + 1]
  /\ count' = [count EXCEPT ![q] = count[q] - 1]
  /\ thread' = [thread EXCEPT ![q] = "use"]
  /\ q_taken' = [q_taken EXCEPT ![q] = Append(q_taken[q], h)]
  /\ UNCHANGED <<items, q_eoq, waiting, sender, messages, referenceCount, added>>

\* What Get does: the oldest item leaves the ring for the thread.
LEMMA GetMeans ==
  ASSUME NEW q \in 1 .. QueueCount, Queues!Get(q)
  PROVE  Takes(q, items[q][q_toq[q]])
<1>1. /\ thread[q] = "get" /\ count[q] > 0
      /\ pack' = [pack EXCEPT ![q] = items[q][q_toq[q]]]
      /\ q_toq' = [q_toq EXCEPT ![q] = IF @ + 1 = Capacity[q] THEN 0 ELSE @ + 1]
      /\ count' = [count EXCEPT ![q] = @ - 1]
      /\ thread' = [thread EXCEPT ![q] = "use"]
      /\ q_taken' = [q_taken EXCEPT ![q] = Append(@, items[q][q_toq[q]])]
      /\ UNCHANGED <<items, q_eoq, waiting, sender, messages, referenceCount, added>>
  BY Zenon DEF Queues!Get, Queues!Folded
<1> QED
  BY <1>1, Zenon DEF Takes

\* The message is the oldest that the queue holds.
LEMMA TakenIsOldest ==
  ASSUME QueueRings, NEW q \in 1 .. QueueCount, NEW h, Takes(q, h)
  PROVE  /\ h \in 1 .. MaxMessage /\ q_taken[q] \in Seq(1 .. MaxMessage)
         /\ added[q] \in Seq(1 .. MaxMessage)
         /\ Len(q_taken[q]) + 1 <= Len(added[q]) /\ h = added[q][Len(q_taken[q]) + 1]
<1>1. RingRight(items[q], q_toq[q], q_eoq[q], count[q], Capacity[q], added[q], q_taken[q])
  BY DEF QueueRings
<1>2. Capacity[q] \in Nat \ {0}
  BY QueueSizes
<1>3. count[q] > 0 /\ h = items[q][q_toq[q]]
  BY DEF Takes
<1>4. q_taken[q] \in Seq(1 .. MaxMessage) /\ added[q] \in Seq(1 .. MaxMessage)
  BY DEF QueueRings
<1> QED
  BY <1>1, <1>2, <1>3, <1>4, RingTakes, SMTT(30)

\* Only the ring it is taken from changes, and that ring stays right.
LEMMA GetRings ==
  ASSUME QueueRings, NEW q \in 1 .. QueueCount, NEW h, Takes(q, h)
  PROVE  QueueRings'
<1>1. RingRight(items[q], q_toq[q], q_eoq[q], count[q], Capacity[q], added[q], q_taken[q])
  BY DEF QueueRings
<1>2. Capacity[q] \in Nat \ {0}
  BY QueueSizes
<1>3. count[q] > 0 /\ h = items[q][q_toq[q]]
  BY DEF Takes
<1>4. RingRight(items[q], IF q_toq[q] + 1 = Capacity[q] THEN 0 ELSE q_toq[q] + 1, q_eoq[q],
                count[q] - 1, Capacity[q], added[q], Append(q_taken[q], items[q][q_toq[q]]))
  BY <1>1, <1>2, <1>3, RingTakes
<1>5. /\ items'[q] = items[q] /\ q_eoq'[q] = q_eoq[q]
      /\ q_toq'[q] = IF q_toq[q] + 1 = Capacity[q] THEN 0 ELSE q_toq[q] + 1
      /\ count'[q] = count[q] - 1 /\ added'[q] = added[q]
      /\ q_taken'[q] = Append(q_taken[q], items[q][q_toq[q]])
      /\ DOMAIN items' = 1 .. QueueCount /\ DOMAIN q_toq' = 1 .. QueueCount
      /\ DOMAIN q_eoq' = 1 .. QueueCount /\ DOMAIN count' = 1 .. QueueCount
  BY <1>3, Zenon DEF QueueRings, Takes
<1>6. \A p \in (1 .. QueueCount) \ {q} :
        /\ items'[p] = items[p] /\ q_toq'[p] = q_toq[p] /\ q_eoq'[p] = q_eoq[p]
        /\ count'[p] = count[p] /\ added'[p] = added[p] /\ q_taken'[p] = q_taken[p]
  BY Zenon DEF QueueRings, Takes
<1>7. /\ added' \in [1 .. QueueCount -> Seq(1 .. MaxMessage)]
      /\ q_taken' \in [1 .. QueueCount -> Seq(1 .. MaxMessage)]
  <2>1. added \in [1 .. QueueCount -> Seq(1 .. MaxMessage)] /\ added' = added
        /\ q_taken' = [q_taken EXCEPT ![q] = Append(q_taken[q], h)]
        /\ q_taken \in [1 .. QueueCount -> Seq(1 .. MaxMessage)]
    BY DEF QueueRings, Takes
  <2>2. Append(q_taken[q], h) \in Seq(1 .. MaxMessage)
    BY TakenIsOldest, AppendProperties
  <2> QED
    BY <2>1, <2>2
<1>8. RingRight(items'[q], q_toq'[q], q_eoq'[q], count'[q], Capacity[q], added'[q], q_taken'[q])
  BY <1>4, <1>5, Zenon
<1>9. \A p \in (1 .. QueueCount) \ {q} :
        RingRight(items'[p], q_toq'[p], q_eoq'[p], count'[p], Capacity[p], added'[p], q_taken'[p])
  BY <1>6, Zenon DEF QueueRings
<1>10. \A p \in 1 .. QueueCount :
        RingRight(items'[p], q_toq'[p], q_eoq'[p], count'[p], Capacity[p], added'[p], q_taken'[p])
  BY <1>8, <1>9, Zenon
<1> QED
  BY <1>5, <1>7, <1>10, Zenon DEF QueueRings

\* What a queue holds loses what was taken and nothing else.
LEMMA GetHolds ==
  ASSUME QueueRings, QueueHistory, NEW q \in 1 .. QueueCount, NEW h, Takes(q, h)
  PROVE  /\ QueueHolds'[q] = QueueHolds[q] \ {h} /\ h \in QueueHolds[q]
         /\ \A p \in (1 .. QueueCount) \ {q} : QueueHolds'[p] = QueueHolds[p]
<1>1. /\ q_taken'[q] = Append(q_taken[q], h) /\ added' = added
      /\ \A p \in (1 .. QueueCount) \ {q} : q_taken'[p] = q_taken[p]
  BY Zenon DEF QueueRings, Takes
<1> DEFINE a == Len(q_taken[q])  b == Len(added[q])
<1>2. /\ h \in 1 .. MaxMessage /\ q_taken[q] \in Seq(1 .. MaxMessage)
      /\ added[q] \in Seq(1 .. MaxMessage) /\ a + 1 <= b /\ h = added[q][a + 1]
  BY TakenIsOldest, Zenon
<1>3. /\ a \in Nat /\ b \in Nat /\ Len(Append(q_taken[q], h)) = a + 1
  BY <1>2
<1>4. \A i, j \in 1 .. b : added[q][j] = added[q][i] => i = j
  BY Zenon DEF QueueHistory
<1>5. QueueHolds'[q] = {added[q][k] : k \in a + 1 + 1 .. b}
  BY <1>1, <1>3 DEF QueueHolds
<1>6. QueueHolds[q] = {added[q][k] : k \in a + 1 .. b}
  BY DEF QueueHolds
<1>7. \A p \in (1 .. QueueCount) \ {q} : QueueHolds'[p] = QueueHolds[p]
  BY <1>1, Zenon DEF QueueHolds
<1> HIDE DEF a, b
<1>8. \A k \in a + 1 .. b : k \in 1 .. b /\ (k = a + 1 \/ k \in a + 1 + 1 .. b)
  BY <1>3
<1>9. a + 1 \in a + 1 .. b /\ \A k \in a + 1 + 1 .. b : k \in a + 1 .. b /\ k /= a + 1
  BY <1>2, <1>3
<1>10. QueueHolds'[q] = QueueHolds[q] \ {h} /\ h \in QueueHolds[q]
  <2>1. h \in QueueHolds[q]
    BY <1>2, <1>6, <1>9, Zenon
  <2>2. ASSUME NEW x \in QueueHolds'[q]
        PROVE  x \in QueueHolds[q] /\ x /= h
    <3>1. PICK k \in a + 1 + 1 .. b : x = added[q][k]
      BY <1>5, Zenon
    <3>2. k \in 1 .. b /\ a + 1 \in 1 .. b /\ k \in a + 1 .. b /\ k /= a + 1
      BY <1>8, <1>9, Zenon
    <3> QED
      BY <1>2, <1>4, <1>6, <3>1, <3>2, Zenon
  <2>3. ASSUME NEW x \in QueueHolds[q], x /= h
        PROVE  x \in QueueHolds'[q]
    <3>1. PICK k \in a + 1 .. b : x = added[q][k]
      BY <1>6, Zenon
    <3>2. k \in a + 1 + 1 .. b
      BY <1>2, <1>8, <2>3, <3>1, Zenon
    <3> QED
      BY <1>5, <3>1, <3>2, Zenon
  <2> QED
    BY <2>1, <2>2, <2>3, Zenon
<1> QED
  BY <1>7, <1>10, Zenon

\* hd and hd2 are the same, but of q.
ElsewhereSame(hd, hd2, q) == \A p \in (1 .. QueueCount) \ {q} : hd2[p] = hd[p]

\* What a queue that gives up an item changes of the holders of any message.
LEMMA HolderTaken ==
  ASSUME NEW q \in 1 .. QueueCount, NEW hd, ElsewhereSame(QueueHolds, hd, q), NEW pk, NEW m
  PROVE  HoldersIn(m, sender, hd, pk) =
           (HoldersIn(m, sender, QueueHolds, pk) \ {<<"queue", q>>})
             \union (IF m \in hd[q] THEN {<<"queue", q>>} ELSE {})
<1> DEFINE G == (HoldersIn(m, sender, QueueHolds, pk) \ {<<"queue", q>>})
                  \union (IF m \in hd[q] THEN {<<"queue", q>>} ELSE {})
<1>1. ASSUME NEW h
      PROVE  h \in G <=> HoldsIn(h, m, sender, hd, pk)
  <2>1. h \in HoldersIn(m, sender, QueueHolds, pk) <=> HoldsIn(h, m, sender, QueueHolds, pk)
    BY HolderIs
  <2>2. h \in G <=> \/ HoldsIn(h, m, sender, QueueHolds, pk) /\ h /= <<"queue", q>>
                    \/ h = <<"queue", q>> /\ m \in hd[q]
    BY <2>1
  <2> HIDE DEF G
  <2> QED
    BY <2>2 DEF HoldsIn, ElsewhereSame
<1> HIDE DEF G
<1>2. HoldersIn(m, sender, hd, pk) = G
  BY <1>1, SameHolders, Zenon
<1> QED
  BY <1>2 DEF G

\* The reference goes from the queue to its thread.
LEMMA GetReferences ==
  ASSUME QueueReferences, QueueRings, QueueHistory, QueueThreads,
         NEW q \in 1 .. QueueCount, NEW h, Takes(q, h)
  PROVE  QueueReferences'
<1>1. PICK hd, hd2, pk2 : hd = QueueHolds /\ hd2 = QueueHolds' /\ pk2 = pack'
  OBVIOUS
<1>2. /\ hd2[q] = hd[q] \ {h} /\ h \in hd[q]
      /\ \A p \in (1 .. QueueCount) \ {q} : hd2[p] = hd[p]
  BY <1>1, GetHolds, Zenon
<1>3. /\ h \in 1 .. MaxMessage /\ h /= 0
  BY TakenIsOldest
<1>4. /\ pk2[q] = h /\ pack[q] = 0 /\ sender' = sender /\ referenceCount' = referenceCount
      /\ \A p \in (1 .. QueueCount) \ {q} : pk2[p] = pack[p]
  <2>1. pack[q] = 0
    BY DEF QueueThreads, Takes
  <2>2. pack \in [1 .. QueueCount -> 1 .. MaxMessage \union {0}]
    BY DEF QueueThreads
  <2>3. pack' = [pack EXCEPT ![q] = h] /\ sender' = sender /\ referenceCount' = referenceCount
    BY DEF Takes
  <2> QED
    BY <1>1, <2>1, <2>2, <2>3
<1>5. /\ \A k : HoldersNow(k) = HoldersIn(k, sender, hd, pack)
      /\ \A k : HoldersIn(k, sender', QueueHolds', pack') = HoldersIn(k, sender, hd2, pk2)
  BY <1>1, <1>4, Zenon DEF HoldersNow
<1>6. ElsewhereSame(QueueHolds, hd2, q)
  BY <1>1, <1>2, Zenon DEF ElsewhereSame
<1>7. \A k : HoldersIn(k, sender, hd2, pk2) =
                 (HoldersIn(k, sender, hd, pk2) \ {<<"queue", q>>})
                    \union (IF k \in hd2[q] THEN {<<"queue", q>>} ELSE {})
  BY <1>1, <1>6, HolderTaken, Zenon
<1>8. ASSUME NEW k \in 1 .. MaxMessage
      PROVE  HoldersIn(k, sender, hd2, pk2) =
               IF k = h THEN (HoldersIn(k, sender, hd, pack) \ {<<"queue", q>>}) \union {<<"thread", q>>}
               ELSE HoldersIn(k, sender, hd, pack)
  <2> DEFINE A == HoldersIn(k, sender, hd2, pk2)  B == HoldersIn(k, sender, hd, pk2)
             C == HoldersIn(k, sender, hd, pack)
  <2>1. A = (B \ {<<"queue", q>>}) \union (IF k \in hd2[q] THEN {<<"queue", q>>} ELSE {})
    BY <1>7, Zenon
  <2>2. B = (C \ {<<"thread", q>>}) \union (IF pk2[q] = k THEN {<<"thread", q>>} ELSE {})
    BY <1>4, ThreadChanges
  <2>3. /\ <<"queue", q>> \in C <=> k \in hd[q]
        /\ <<"thread", q>> \in C <=> pack[q] = k
    BY DEF HoldersIn
  <2>4. k /= 0 /\ <<"queue", q>> /= <<"thread", q>>
    OBVIOUS
  <2> HIDE DEF A, B, C
  <2>5. A = IF k = h THEN (C \ {<<"queue", q>>}) \union {<<"thread", q>>} ELSE C
    <3>1. CASE k = h
      BY <1>2, <1>4, <2>1, <2>2, <2>3, <2>4, <3>1
    <3>2. CASE k /= h
      <4>1. <<"thread", q>> \notin C /\ pk2[q] /= k
        BY <1>4, <2>3, <2>4, <3>2
      <4>2. k \in hd2[q] <=> k \in hd[q]
        BY <1>2, <3>2
      <4>3. B = C
        BY <2>2, <4>1
      <4> QED
        BY <2>1, <2>3, <3>2, <4>2, <4>3
    <3> QED
      BY <3>1, <3>2
  <2> QED
    BY <2>5, Zenon DEF A, B, C
<1>9. <<"queue", q>> \in HoldersIn(h, sender, hd, pack) /\ <<"thread", q>> \notin HoldersIn(h, sender, hd, pack)
  BY <1>2, <1>3, <1>4 DEF HoldersIn
<1>10. /\ <<"queue", q>> \in HoldersNow(h) /\ <<"thread", q>> \notin HoldersNow(h)
      /\ HoldersIn(h, sender', QueueHolds', pack') =
           (HoldersNow(h) \ {<<"queue", q>>}) \union {<<"thread", q>>}
  BY <1>3, <1>5, <1>8, <1>9, Zenon
<1>11. \A k \in (1 .. MaxMessage) \ {h} : HoldersIn(k, sender', QueueHolds', pack') = HoldersNow(k)
  BY <1>5, <1>8, Zenon
<1> QED
  BY <1>3, <1>4, <1>10, <1>11, ReferenceMoves, Zenon

\* A thread takes the oldest item.
LEMMA GetKeeps ==
  ASSUME QueuesInv, NEW q \in 1 .. QueueCount, Queues!Get(q)
  PROVE  QueuesInv'
<1>1. PICK h : Takes(q, h)
  BY GetMeans, Zenon
<1>2. QueueSenders /\ QueueReferences /\ QueueHistory /\ QueueRings /\ QueueThreads
  BY Zenon DEF QueuesInv
<1>3. QueueSenders' /\ QueueHistory'
  BY <1>1, <1>2, Zenon DEF Takes, QueueSenders, QueueHistory
<1>4. QueueRings' /\ QueueReferences'
  BY <1>1, <1>2, GetRings, GetReferences, Zenon
<1>5. QueueThreads'
  <2>1. /\ h \in 1 .. MaxMessage /\ h /= 0 /\ q_taken[q] \in Seq(1 .. MaxMessage)
    BY <1>1, <1>2, TakenIsOldest
  <2>2. /\ waiting' = waiting
        /\ pack' = [pack EXCEPT ![q] = h]
        /\ thread' = [thread EXCEPT ![q] = "use"]
        /\ q_taken' = [q_taken EXCEPT ![q] = Append(q_taken[q], h)]
    BY <1>1 DEF Takes
  <2>3. q_taken \in [1 .. QueueCount -> Seq(1 .. MaxMessage)]
    BY <1>2 DEF QueueRings
  <2>4. /\ thread \in [1 .. QueueCount -> {"get", "use", "ended"}]
        /\ pack \in [1 .. QueueCount -> 1 .. MaxMessage \union {0}]
        /\ waiting \subseteq 1 .. QueueCount
    BY <1>2, Zenon DEF QueueThreads
  <2>5. /\ thread' \in [1 .. QueueCount -> {"get", "use", "ended"}]
        /\ pack' \in [1 .. QueueCount -> 1 .. MaxMessage \union {0}]
    BY <2>1, <2>2, <2>4
  <2>6. /\ thread'[q] = "use" /\ pack'[q] = h /\ q_taken'[q] = Append(q_taken[q], h)
        /\ \A p \in (1 .. QueueCount) \ {q} :
             thread'[p] = thread[p] /\ pack'[p] = pack[p] /\ q_taken'[p] = q_taken[p]
    BY <2>2, <2>3, <2>4
  <2>7. Len(q_taken'[q]) > 0 /\ pack'[q] = q_taken'[q][Len(q_taken'[q])]
    <3>1. LET T == Append(q_taken[q], h) IN Len(T) > 0 /\ h = T[Len(T)]
      BY <2>1, AppendProperties, LenProperties
    <3> QED
      BY <2>6, <3>1, Zenon
  <2>8. \A p \in (1 .. QueueCount) \ {q} :
          /\ thread'[p] = "use" <=> pack'[p] /= 0
          /\ pack'[p] /= 0 => Len(q_taken'[p]) > 0 /\ pack'[p] = q_taken'[p][Len(q_taken'[p])]
    BY <1>2, <2>6, Zenon DEF QueueThreads
  <2> QED
    BY <2>1, <2>2, <2>4, <2>5, <2>6, <2>7, <2>8, Zenon DEF QueueThreads
<1> QED
  BY <1>2, <1>3, <1>4, <1>5, Zenon DEF QueuesInv

\* The thread of q is done with what it had.
LEMMA ThreadLetsGo ==
  ASSUME QueueReferences, QueueThreads, NEW q \in 1 .. QueueCount, thread[q] = "use",
         pack' = [pack EXCEPT ![q] = 0],
         referenceCount' = [referenceCount EXCEPT ![pack[q]] = @ - 1],
         sender' = sender, QueueHolds' = QueueHolds
  PROVE  QueueReferences'
<1> DEFINE m == pack[q]
<1>1. pack \in [1 .. QueueCount -> 1 .. MaxMessage \union {0}]
  BY DEF QueueThreads
<1>2. m \in 1 .. MaxMessage
  BY <1>1 DEF QueueThreads
<1>3. PICK pk : pk = pack'
  OBVIOUS
<1>4. pk[q] = 0 /\ \A p \in (1 .. QueueCount) \ {q} : pk[p] = pack[p]
  BY <1>1, <1>3
<1>5. ASSUME NEW k \in 1 .. MaxMessage
      PROVE  HoldersIn(k, sender, QueueHolds, pk) = HoldersIn(k, sender, QueueHolds, pack) \ {<<"thread", q>>}
  <2>1. HoldersIn(k, sender, QueueHolds, pk) =
          (HoldersIn(k, sender, QueueHolds, pack) \ {<<"thread", q>>})
             \union (IF pk[q] = k THEN {<<"thread", q>>} ELSE {})
    BY <1>4, ThreadChanges
  <2>2. pk[q] /= k
    BY <1>4
  <2> QED
    BY <2>1, <2>2
<1>6. \A k : <<"thread", q>> \in HoldersIn(k, sender, QueueHolds, pack) <=> pack[q] = k
  BY DEF HoldersIn
<1>7. \A k : HoldersIn(k, sender', QueueHolds', pack') = HoldersIn(k, sender, QueueHolds, pk)
  BY <1>3, Zenon
<1>8. <<"thread", q>> \in HoldersNow(m)
  BY <1>6, Zenon DEF HoldersNow
<1>9. HoldersIn(m, sender', QueueHolds', pack') = HoldersNow(m) \ {<<"thread", q>>}
  BY <1>2, <1>5, <1>7, Zenon DEF HoldersNow
<1>10. \A k \in (1 .. MaxMessage) \ {m} : HoldersIn(k, sender', QueueHolds', pack') = HoldersNow(k)
  <2> SUFFICES ASSUME NEW k \in (1 .. MaxMessage) \ {m}
               PROVE  HoldersIn(k, sender, QueueHolds, pk) = HoldersIn(k, sender, QueueHolds, pack)
    BY <1>7, Zenon DEF HoldersNow
  <2>1. <<"thread", q>> \notin HoldersIn(k, sender, QueueHolds, pack)
    BY <1>6, Zenon
  <2>2. HoldersIn(k, sender, QueueHolds, pk) = HoldersIn(k, sender, QueueHolds, pack) \ {<<"thread", q>>}
    BY <1>5, Zenon
  <2> DEFINE A == HoldersIn(k, sender, QueueHolds, pk)  B == HoldersIn(k, sender, QueueHolds, pack)
  <2> HIDE DEF A, B
  <2> SUFFICES A = B
    BY Zenon DEF A, B
  <2>3. A = B \ {<<"thread", q>>} /\ <<"thread", q>> \notin B
    BY <2>1, <2>2, Zenon DEF A, B
  <2> QED
    BY <2>3
<1> QED
  BY <1>2, <1>8, <1>9, <1>10, ReferenceDown, Zenon

\* A thread that has used its item, or has ended, has none.
LEMMA ThreadIsFree ==
  ASSUME QueueThreads, NEW q \in 1 .. QueueCount, NEW x \in {"get", "ended"},
         thread' = [thread EXCEPT ![q] = x], pack' = [pack EXCEPT ![q] = 0],
         waiting' \subseteq waiting, q_taken' = q_taken
  PROVE  QueueThreads'
<1>1. /\ thread \in [1 .. QueueCount -> {"get", "use", "ended"}]
      /\ pack \in [1 .. QueueCount -> 1 .. MaxMessage \union {0}]
      /\ waiting \subseteq 1 .. QueueCount
  BY Zenon DEF QueueThreads
<1>2. /\ thread' \in [1 .. QueueCount -> {"get", "use", "ended"}]
      /\ pack' \in [1 .. QueueCount -> 1 .. MaxMessage \union {0}]
      /\ thread'[q] /= "use" /\ pack'[q] = 0
      /\ \A p \in (1 .. QueueCount) \ {q} : thread'[p] = thread[p] /\ pack'[p] = pack[p]
  BY <1>1
<1>3. waiting' \subseteq 1 .. QueueCount
  BY <1>1, Zenon
<1>4. \A p \in 1 .. QueueCount :
        /\ thread'[p] = "use" <=> pack'[p] /= 0
        /\ pack'[p] /= 0 => Len(q_taken'[p]) > 0 /\ pack'[p] = q_taken'[p][Len(q_taken'[p])]
  BY <1>2, Zenon DEF QueueThreads
<1> QED
  BY <1>2, <1>3, <1>4, Zenon DEF QueueThreads

\* The thread uses its item and releases it.
LEMMA UseKeeps ==
  ASSUME QueuesInv, NEW q \in 1 .. QueueCount, Queues!Use(q)
  PROVE  QueuesInv'
<1>1. /\ thread[q] = "use"
      /\ referenceCount' = [referenceCount EXCEPT ![pack[q]] = @ - 1]
      /\ pack' = [pack EXCEPT ![q] = 0] /\ thread' = [thread EXCEPT ![q] = "get"]
      /\ UNCHANGED <<items, q_toq, q_eoq, count, waiting, sender, messages, added, q_taken>>
  BY DEF Queues!Use, Queues!Released, Queues!None, Queues!ring
<1>2. QueueSenders /\ QueueReferences /\ QueueHistory /\ QueueRings /\ QueueThreads
  BY Zenon DEF QueuesInv
<1>3. QueueHolds' = QueueHolds
  BY <1>1 DEF QueueHolds
<1>4. QueueReferences'
  BY <1>1, <1>2, <1>3, ThreadLetsGo, Zenon
<1>5. QueueThreads'
  BY <1>1, <1>2, ThreadIsFree
<1>6. QueueSenders' /\ QueueHistory' /\ QueueRings'
  BY <1>1, <1>2, Zenon DEF QueueSenders, QueueHistory, QueueRings
<1> QED
  BY <1>4, <1>5, <1>6, Zenon DEF QueuesInv

\* A thread that is cancelled where it writes releases the item it has.
LEMMA StopKeeps ==
  ASSUME QueuesInv, NEW q \in 1 .. QueueCount, Queues!Stop(q)
  PROVE  QueuesInv'
<1>1. /\ thread' = [thread EXCEPT ![q] = "ended"] /\ waiting' = waiting \ {q}
      /\ UNCHANGED <<items, q_toq, q_eoq, count, sender, messages, added, q_taken>>
      /\ \/ thread[q] = "get" /\ UNCHANGED <<referenceCount, pack>>
         \/ /\ thread[q] = "use" /\ referenceCount' = [referenceCount EXCEPT ![pack[q]] = @ - 1]
            /\ pack' = [pack EXCEPT ![q] = 0]
  BY DEF Queues!Stop, Queues!Released, Queues!None, Queues!ring
<1>2. QueueSenders /\ QueueReferences /\ QueueHistory /\ QueueRings /\ QueueThreads
  BY Zenon DEF QueuesInv
<1>3. QueueHolds' = QueueHolds
  BY <1>1 DEF QueueHolds
<1>4. QueueSenders' /\ QueueHistory' /\ QueueRings'
  BY <1>1, <1>2, Zenon DEF QueueSenders, QueueHistory, QueueRings
<1>5. waiting' \subseteq waiting
  BY <1>1
<1>6. CASE thread[q] = "get" /\ UNCHANGED <<referenceCount, pack>>
  <2>1. QueueReferences'
    BY <1>1, <1>2, <1>3, <1>6, ReferencesSame, Zenon
  <2>2. pack' = [pack EXCEPT ![q] = 0]
    <3>1. pack[q] = 0 /\ pack \in [1 .. QueueCount -> 1 .. MaxMessage \union {0}]
      BY <1>2, <1>6 DEF QueueThreads
    <3> QED
      BY <1>6, <3>1
  <2>3. QueueThreads'
    BY <1>1, <1>2, <1>5, <2>2, ThreadIsFree
  <2> QED
    BY <1>4, <2>1, <2>3, Zenon DEF QueuesInv
<1>7. CASE /\ thread[q] = "use" /\ referenceCount' = [referenceCount EXCEPT ![pack[q]] = @ - 1]
           /\ pack' = [pack EXCEPT ![q] = 0]
  <2>1. QueueReferences'
    BY <1>1, <1>2, <1>3, <1>7, ThreadLetsGo, Zenon
  <2>2. QueueThreads'
    BY <1>1, <1>2, <1>5, <1>7, ThreadIsFree
  <2> QED
    BY <1>4, <2>1, <2>2, Zenon DEF QueuesInv
<1> QED
  BY <1>1, <1>6, <1>7

\* Every step of the senders and the threads keeps the invariant.
LEMMA QueuesKept ==
  ASSUME QueuesInv, [Queues!Next]_queueVars
  PROVE  QueuesInv'
<1>1. CASE Queues!Next
  <2>1. \/ \E s \in Senders : Queues!SenderStep(s) \/ Queues!Send(s)
        \/ \E q \in 1 .. QueueCount : Queues!Wait(q) \/ Queues!Get(q) \/ Queues!Use(q) \/ Queues!Stop(q)
    BY <1>1, Zenon DEF Queues!Next, Queues!Q
  <2>2. ASSUME NEW s \in Senders, Queues!SenderStep(s) \/ Queues!Send(s)
        PROVE  QueuesInv'
    BY <2>2, RetainKeeps, AddKeeps, RefuseKeeps, ReleaseKeeps, SendKeeps, Zenon DEF Queues!SenderStep
  <2>3. ASSUME NEW q \in 1 .. QueueCount,
               Queues!Wait(q) \/ Queues!Get(q) \/ Queues!Use(q) \/ Queues!Stop(q)
        PROVE  QueuesInv'
    BY <2>3, WaitKeeps, GetKeeps, UseKeeps, StopKeeps, Zenon
  <2> QED
    BY <2>1, <2>2, <2>3, Zenon
<1>2. CASE UNCHANGED queueVars
  <2>1. UNCHANGED <<items, q_toq, q_eoq, count, waiting, thread, pack, sender, messages,
                    referenceCount, added, q_taken>>
    BY <1>2 DEF queueVars
  <2>2. QueueHolds' = QueueHolds
    BY <2>1 DEF QueueHolds
  <2>3. QueueReferences'
    BY <2>1, <2>2, ReferencesSame, Zenon DEF QueuesInv
  <2>4. QueueRings' /\ QueueThreads' /\ QueueSenders' /\ QueueHistory'
    BY <2>1, Zenon DEF QueuesInv, QueueRings, QueueThreads, QueueSenders, QueueHistory
  <2> QED
    BY <2>3, <2>4, Zenon DEF QueuesInv
<1> QED
  BY <1>1, <1>2

\* The invariant gives the order in each queue.
LEMMA QueuesInOrder == QueuesInv => Queues!InOrder
<1> SUFFICES ASSUME QueuesInv, NEW q \in 1 .. QueueCount
             PROVE  added[q] = q_taken[q] \o Queues!Content(q)
  BY Zenon DEF Queues!InOrder, Queues!Q
<1>1. RingRight(items[q], q_toq[q], q_eoq[q], count[q], Capacity[q], added[q], q_taken[q])
  BY Zenon DEF QueuesInv, QueueRings
<1>2. Capacity[q] \in Nat \ {0}
  BY QueueSizes
<1>3. added[q] = q_taken[q] \o RingHolds(items[q], q_toq[q], count[q], Capacity[q])
  <2>1. GivesInOrder(items[q], q_toq[q], count[q], Capacity[q], added[q], q_taken[q])
    BY <1>1, <1>2, RingGivesInOrder
  <2> QED
    BY <2>1, Zenon DEF GivesInOrder
<1>4. Queues!Content(q) = RingHolds(items[q], q_toq[q], count[q], Capacity[q])
  BY Zenon DEF Queues!Content, RingHolds
<1> QED
  BY <1>3, <1>4, Zenon

\* What is in the ring is what the queue holds.
LEMMA ContentIsHeld ==
  ASSUME QueuesInv, NEW q \in 1 .. QueueCount, NEW m
  PROVE  (\E i \in 1 .. count[q] : Queues!Content(q)[i] = m) <=> m \in QueueHolds[q]
<1>1. RingRight(items[q], q_toq[q], q_eoq[q], count[q], Capacity[q], added[q], q_taken[q])
  BY Zenon DEF QueuesInv, QueueRings
<1>2. Capacity[q] \in Nat \ {0}
  BY QueueSizes
<1> DEFINE held == RingHolds(items[q], q_toq[q], count[q], Capacity[q])
           a == Len(q_taken[q])  b == Len(added[q])
<1>3. /\ a \in Nat /\ b \in Nat /\ count[q] \in Nat /\ b = a + count[q]
      /\ \A i \in 1 .. count[q] : held[i] = added[q][a + i]
  <2>1. GivesInOrder(items[q], q_toq[q], count[q], Capacity[q], added[q], q_taken[q])
    BY <1>1, <1>2, RingGivesInOrder
  <2> QED
    BY <2>1, Zenon DEF GivesInOrder
<1>4. Queues!Content(q) = held
  BY Zenon DEF Queues!Content, RingHolds
<1>5. QueueHolds[q] = {added[q][k] : k \in a + 1 .. b}
  BY Zenon DEF QueueHolds
<1> HIDE DEF held, a, b
<1>6. \A k \in a + 1 .. b : k - a \in 1 .. count[q] /\ a + (k - a) = k
  BY <1>3
<1>7. \A i \in 1 .. count[q] : a + i \in a + 1 .. b
  BY <1>3
<1>8. ASSUME NEW i \in 1 .. count[q], held[i] = m
      PROVE  m \in QueueHolds[q]
  BY <1>3, <1>5, <1>7, <1>8, Zenon
<1>9. ASSUME NEW k \in a + 1 .. b, m = added[q][k]
      PROVE  \E i \in 1 .. count[q] : held[i] = m
  BY <1>3, <1>6, <1>9
<1> QED
  BY <1>4, <1>5, <1>8, <1>9, Zenon

\* The holders the model counts are the ones of the invariant.
LEMMA HoldersAreThese ==
  ASSUME QueuesInv, NEW m
  PROVE  Queues!Holders(m) = HoldersNow(m)
<1>1. {q \in 1 .. QueueCount : \E i \in 1 .. count[q] : Queues!Content(q)[i] = m} =
      {q \in 1 .. QueueCount : m \in QueueHolds[q]}
  BY ContentIsHeld, Zenon
<1> QED
  BY <1>1, Zenon DEF Queues!Holders, Queues!Q, HoldersNow, HoldersIn

\* The invariant gives the reference counts.
LEMMA QueuesCounted == QueuesInv => Queues!ReferencesCounted
<1> SUFFICES ASSUME QueuesInv, NEW m \in 1 .. MaxMessage
             PROVE  referenceCount[m] = Queues!Cardinality(Queues!Holders(m))
  BY Zenon DEF Queues!ReferencesCounted, Queues!Messages
<1>1. CountOf(referenceCount[m], HoldersNow(m))
  BY Zenon DEF QueuesInv, QueueReferences
<1>2. referenceCount[m] = Cardinality(HoldersNow(m))
  BY <1>1, Zenon DEF CountOf
<1>3. Queues!Cardinality(HoldersNow(m)) = Cardinality(HoldersNow(m))
  BY Zenon DEF Queues!Cardinality, Cardinality
<1> QED
  BY <1>2, <1>3, HoldersAreThese, Zenon

\* The holders of a message: its sender, and for each queue one of the offer, the queue
\* and the thread.
LEMMA OneHolderPerQueue ==
  ASSUME QueuesInv, NEW m \in 1 .. MaxMessage, NEW q \in 1 .. QueueCount
  PROVE  /\ \A s, t \in Senders : sender[s].msg = m /\ sender[t].msg = m => s = t
         /\ m \in QueueHolds[q] => pack[q] /= m
         /\ \A s \in Senders :
              sender[s].msg = m /\ sender[s].at = "add" /\ sender[s].queue = q
                => m \notin QueueHolds[q] /\ pack[q] /= m
<1>1. QueueSenders /\ QueueReferences /\ QueueHistory /\ QueueRings /\ QueueThreads
  BY Zenon DEF QueuesInv
<1> DEFINE a == Len(q_taken[q])  b == Len(added[q])
<1>2. /\ added[q] \in Seq(1 .. MaxMessage) /\ q_taken[q] \in Seq(1 .. MaxMessage)
      /\ a \in Nat /\ b \in Nat
      /\ a <= b /\ \A i \in 1 .. a : q_taken[q][i] = added[q][i]
  <2>1. RingRight(items[q], q_toq[q], q_eoq[q], count[q], Capacity[q], added[q], q_taken[q])
    BY <1>1, Zenon DEF QueueRings
  <2>2. Capacity[q] \in Nat
    BY QueueSizes
  <2> QED
    BY <2>1, <2>2 DEF RingRight
<1>3. m /= 0
  OBVIOUS
<1>4. \A s, t \in Senders : sender[s].msg = m /\ sender[t].msg = m => s = t
  BY <1>1, <1>3, Zenon DEF QueueSenders
<1>5. m \in QueueHolds[q] => \E k \in a + 1 .. b : added[q][k] = m
  BY Zenon DEF QueueHolds
<1>6. pack[q] = m => a > 0 /\ m = q_taken[q][a]
  BY <1>1, <1>3, Zenon DEF QueueThreads
<1>7. m \in QueueHolds[q] => pack[q] /= m
  <2> SUFFICES ASSUME m \in QueueHolds[q], pack[q] = m
               PROVE  FALSE
    OBVIOUS
  <2>1. PICK k \in a + 1 .. b : added[q][k] = m
    BY <1>5
  <2>2. a > 0 /\ m = q_taken[q][a]
    BY <1>6
  <2> HIDE DEF a, b
  <2>3. a \in 1 .. b /\ k \in 1 .. b /\ a /= k
    BY <1>2, <2>2
  <2>4. added[q][a] = m
    BY <1>2, <2>2
  <2> QED
    BY <1>1, <2>1, <2>3, <2>4, Zenon DEF QueueHistory, a, b
<1>8. ASSUME NEW s \in Senders, sender[s].msg = m, sender[s].at = "add", sender[s].queue = q
      PROVE  m \notin QueueHolds[q] /\ pack[q] /= m
  <2>1. ~ PastQueue(sender[s], q)
    <3>1. ~ (q > q)
      BY QueueSizes
    <3>2. "add" /= "release"
      OBVIOUS
    <3> QED
      BY <1>8, <3>1, <3>2, Zenon DEF PastQueue
  <2>2. \A k \in 1 .. b : added[q][k] /= m
    BY <1>1, <1>8, <2>1, Zenon DEF QueueHistory
  <2>3. m \notin QueueHolds[q]
    <3>1. \A k \in a + 1 .. b : k \in 1 .. b
      BY <1>2
    <3> QED
      BY <1>5, <2>2, <3>1, Zenon
  <2>4. pack[q] /= m
    <3>1. a > 0 => a \in 1 .. a /\ a \in 1 .. b
      BY <1>2
    <3> QED
      BY <1>2, <1>6, <2>2, <3>1, Zenon
  <2> QED
    BY <2>3, <2>4
<1> QED
  BY <1>4, <1>7, <1>8, Zenon

\* Where a holder stands: at 0 the sender, at a queue's number who holds for that queue.
HolderPlace(h) ==
  IF h[1] = "sender" THEN 0 ELSE IF h[1] = "offered" THEN sender[h[2]].queue ELSE h[2]

\* Two holders of one message stand in different places.
LEMMA HoldersStandApart ==
  ASSUME QueuesInv, NEW m \in 1 .. MaxMessage, NEW g \in HoldersNow(m), NEW h \in HoldersNow(m),
         HolderPlace(g) = HolderPlace(h)
  PROVE  g = h /\ HolderPlace(g) \in 0 .. QueueCount
<1>1. \A s \in Senders : sender[s].queue \in 1 .. QueueCount
  <2>1. sender \in [Senders -> Sendings]
    BY Zenon DEF QueuesInv, QueueSenders
  <2>2. \A s \in Senders : sender[s] \in Sendings
    BY <2>1
  <2> QED
    BY <2>2 DEF Sendings
<1>2. \A q \in 1 .. QueueCount : q /= 0 /\ q \in 0 .. QueueCount
  OBVIOUS
<1>3. /\ \A s, t \in Senders : sender[s].msg = m /\ sender[t].msg = m => s = t
      /\ \A q \in 1 .. QueueCount : m \in QueueHolds[q] => pack[q] /= m
      /\ \A s \in Senders : sender[s].msg = m /\ sender[s].at = "add" =>
           m \notin QueueHolds[sender[s].queue] /\ pack[sender[s].queue] /= m
  <2>1. \A s, t \in Senders : sender[s].msg = m /\ sender[t].msg = m => s = t
    <3>1. 1 \in 1 .. QueueCount
      BY QueueSizes
    <3> QED
      BY <3>1, OneHolderPerQueue, Zenon
  <2>2. \A q \in 1 .. QueueCount : m \in QueueHolds[q] => pack[q] /= m
    BY OneHolderPerQueue, Zenon
  <2>3. \A s \in Senders : sender[s].msg = m /\ sender[s].at = "add" =>
           m \notin QueueHolds[sender[s].queue] /\ pack[sender[s].queue] /= m
    BY <1>1, OneHolderPerQueue, Zenon
  <2> QED
    BY <2>1, <2>2, <2>3, Zenon
<1>4. ASSUME NEW k \in HoldersNow(m)
      PROVE  \/ \E s \in Senders : /\ k = <<"sender", s>> /\ sender[s].msg = m /\ HolderPlace(k) = 0
             \/ \E s \in Senders : /\ k = <<"offered", s>> /\ sender[s].msg = m
                                   /\ sender[s].at = "add" /\ HolderPlace(k) = sender[s].queue
             \/ \E q \in 1 .. QueueCount : k = <<"queue", q>> /\ m \in QueueHolds[q] /\ HolderPlace(k) = q
             \/ \E q \in 1 .. QueueCount : k = <<"thread", q>> /\ pack[q] = m /\ HolderPlace(k) = q
  <2>1. HoldsIn(k, m, sender, QueueHolds, pack)
    BY HolderIs, Zenon DEF HoldersNow
  <2>2. /\ \A s \in Senders : k = <<"sender", s>> => HolderPlace(k) = 0
        /\ \A s \in Senders : k = <<"offered", s>> => HolderPlace(k) = sender[s].queue
        /\ \A q \in 1 .. QueueCount : k = <<"queue", q>> => HolderPlace(k) = q
        /\ \A q \in 1 .. QueueCount : k = <<"thread", q>> => HolderPlace(k) = q
    BY DEF HolderPlace
  <2> QED
    BY <2>1, <2>2, Zenon DEF HoldsIn
<1>5. HolderPlace(g) \in 0 .. QueueCount
  <2>1. 0 \in 0 .. QueueCount
    BY QueueSizes
  <2> QED
    BY <1>1, <1>2, <1>4, <2>1, Zenon
<1>6. g = h
  <2>1. CASE \E s \in Senders : g = <<"sender", s>> /\ sender[s].msg = m /\ HolderPlace(g) = 0
    BY <1>1, <1>2, <1>3, <1>4, <2>1, Zenon
  <2>2. CASE \E s \in Senders : /\ g = <<"offered", s>> /\ sender[s].msg = m
                                /\ sender[s].at = "add" /\ HolderPlace(g) = sender[s].queue
    BY <1>1, <1>2, <1>3, <1>4, <2>2, Zenon
  <2>3. CASE \E q \in 1 .. QueueCount : g = <<"queue", q>> /\ m \in QueueHolds[q] /\ HolderPlace(g) = q
    BY <1>1, <1>2, <1>3, <1>4, <2>3, Zenon
  <2>4. CASE \E q \in 1 .. QueueCount : g = <<"thread", q>> /\ pack[q] = m /\ HolderPlace(g) = q
    BY <1>1, <1>2, <1>3, <1>4, <2>4, Zenon
  <2> QED
    BY <1>4, <2>1, <2>2, <2>3, <2>4, Zenon
<1> QED
  BY <1>5, <1>6

\* So a message has at most a reference for each queue and its sender's.
LEMMA CountBounded ==
  ASSUME QueuesInv, NEW m \in 1 .. MaxMessage
  PROVE  referenceCount[m] \in 0 .. QueueCount + 1
<1> DEFINE H == HoldersNow(m)  T == 0 .. QueueCount
           f == [h \in H |-> HolderPlace(h)]
<1>1. CountOf(referenceCount[m], H)
  BY Zenon DEF QueuesInv, QueueReferences
<1>2. IsFiniteSet(H) /\ referenceCount[m] = Cardinality(H)
  BY <1>1, Zenon DEF CountOf
<1>3. IsFiniteSet(T) /\ Cardinality(T) = QueueCount + 1
  <2>1. 0 \in Int /\ QueueCount \in Int /\ ~ (0 > QueueCount)
    BY QueueSizes
  <2>2. IsFiniteSet(T) /\ Cardinality(T) = IF 0 > QueueCount THEN 0 ELSE QueueCount - 0 + 1
    BY <2>1, FS_Interval, Zenon
  <2>3. QueueCount - 0 + 1 = QueueCount + 1
    BY QueueSizes
  <2> QED
    BY <2>1, <2>2, <2>3, Zenon
<1>4. f \in [H -> T]
  <2>1. \A h \in H : HolderPlace(h) \in T
    BY HoldersStandApart, Zenon
  <2> QED
    BY <2>1
<1>5. \A g, h \in H : f[g] = f[h] => g = h
  BY HoldersStandApart, Zenon
<1>6. Cardinality(H) \in Nat
  <2>1. IsFiniteSet(H)
    BY <1>2
  <2> QED
    BY <2>1, FS_CardinalityType, Zenon
<1>7. ~ (Cardinality(T) < Cardinality(H))
  <2> SUFFICES ASSUME Cardinality(T) < Cardinality(H)
               PROVE  FALSE
    OBVIOUS
  <2> HIDE DEF H, T, f
  <2>1. \E x, y \in H : x /= y /\ f[x] = f[y]
    <3>1. IsFiniteSet(H)
      BY <1>2
    <3>2. IsFiniteSet(T)
      BY <1>3
    <3> QED
      BY <1>4, <3>1, <3>2, FS_PigeonHole, Zenon
  <2> QED
    BY <1>5, <2>1, Zenon
<1> HIDE DEF H, T
<1> QED
  BY <1>2, <1>3, <1>6, <1>7, QueueSizes

\* The invariant gives the types.
LEMMA QueuesTyped == QueuesInv => Queues!TypeOK
<1> SUFFICES ASSUME QueuesInv
             PROVE  Queues!TypeOK
  OBVIOUS
<1>1. QueueRings /\ QueueThreads /\ QueueSenders /\ QueueReferences
  BY Zenon DEF QueuesInv
<1>2. \A q \in 1 .. QueueCount :
        /\ items[q] \in [0 .. Capacity[q] - 1 -> 1 .. MaxMessage \union {0}]
        /\ {q_toq[q], q_eoq[q]} \subseteq 0 .. Capacity[q] - 1
        /\ count[q] \in 0 .. Capacity[q]
  BY <1>1, Zenon DEF QueueRings, RingRight
<1>3. referenceCount \in [1 .. MaxMessage -> 0 .. QueueCount + 1]
  <2>1. referenceCount \in [1 .. MaxMessage -> Int]
    BY <1>1, Zenon DEF QueueReferences
  <2>2. \A m \in 1 .. MaxMessage : referenceCount[m] \in 0 .. QueueCount + 1
    BY CountBounded, Zenon
  <2> QED
    BY <2>1, <2>2
<1>4. {added, q_taken} \subseteq [1 .. QueueCount -> Seq(1 .. MaxMessage)]
  BY <1>1, Zenon DEF QueueRings
<1>5. /\ waiting \subseteq 1 .. QueueCount
      /\ thread \in [1 .. QueueCount -> {"get", "use", "ended"}]
      /\ pack \in [1 .. QueueCount -> 1 .. MaxMessage \union {0}]
  BY <1>1, Zenon DEF QueueThreads
<1>6. sender \in [Senders -> Sendings] /\ messages \in 0 .. MaxMessage
  BY <1>1, Zenon DEF QueueSenders
<1> QED
  BY <1>2, <1>3, <1>4, <1>5, <1>6, Zenon
  DEF Queues!TypeOK, Queues!Q, Queues!Messages, Queues!None, Sendings

(***************************************************************************)
(* The components together                                                 *)
(***************************************************************************)

\* What each component keeps by itself.
ServicesInv ==
  /\ Inv /\ MonitorInv /\ QueuesInv /\ Dacp!TypeOK /\ SyncInv /\ EndingInv

\* Each component begins as it does by itself.
LEMMA ServicesStart == MCInit => ServicesInv
<1> SUFFICES ASSUME MCInit
             PROVE  ServicesInv
  OBVIOUS
<1>1. Init /\ Queues!Init /\ Dacp!Init /\ Sync!SyncInit /\ MonitorInit /\ Ending!ShutdownInit
  BY Zenon DEF MCInit
<1> QED
  BY <1>1, InitInv, MonitorInitInv, QueuesStart, DacpStart, SyncStart, EndingStart, Zenon DEF ServicesInv

\* A step of one component is one of that component, and leaves the others as they were.
LEMMA StepOfEach ==
  ASSUME MCNext
  PROVE  /\ [Next]_vars /\ [MonitorNext]_monitorVars /\ [Queues!Next]_queueVars
         /\ [Dacp!Next]_dacpVars /\ [Sync!SyncNext]_syncVars /\ [Ending!ShutdownNext]_shutdownVars
<1>1. Next \/ UNCHANGED vars
  BY Zenon DEF MCNext
<1>2. MonitorNext \/ UNCHANGED monitorVars
  BY Zenon DEF MCNext
<1>3. Queues!Next \/ UNCHANGED queueVars
  BY Zenon DEF MCNext
<1>4. Dacp!Next \/ UNCHANGED dacpVars
  BY Zenon DEF MCNext
<1>5. Sync!SyncNext \/ UNCHANGED syncVars
  BY Zenon DEF MCNext
<1>6. Ending!ShutdownNext \/ UNCHANGED shutdownVars
  BY Zenon DEF MCNext
<1> QED
  BY <1>1, <1>2, <1>3, <1>4, <1>5, <1>6, Zenon

\* Every step keeps every component's invariant.
LEMMA ServicesKeep ==
  ASSUME ServicesInv, [MCNext]_allVars
  PROVE  ServicesInv'
<1>1. /\ [Next]_vars /\ [MonitorNext]_monitorVars /\ [Queues!Next]_queueVars
      /\ [Dacp!Next]_dacpVars /\ [Sync!SyncNext]_syncVars /\ [Ending!ShutdownNext]_shutdownVars
  <2>1. CASE MCNext
    BY <2>1, StepOfEach, Zenon
  <2>2. CASE UNCHANGED allVars
    <3>1. UNCHANGED vars /\ UNCHANGED monitorVars /\ UNCHANGED queueVars /\ UNCHANGED dacpVars
          /\ UNCHANGED syncVars /\ UNCHANGED shutdownVars
      BY <2>2 DEF allVars
    <3> QED
      BY <3>1, Zenon
  <2> QED
    BY <2>1, <2>2
<1>2. Inv /\ MonitorInv /\ QueuesInv /\ Dacp!TypeOK /\ SyncInv /\ EndingInv
  BY Zenon DEF ServicesInv
<1>3. Inv' /\ MonitorInv' /\ QueuesInv'
  BY <1>1, <1>2, ReaderKept, MonitorKept, QueuesKept, Zenon
<1>4. Dacp!TypeOK' /\ SyncInv' /\ EndingInv'
  BY <1>1, <1>2, DacpKept, SyncKept, EndingKept, Zenon
<1> QED
  BY <1>3, <1>4, Zenon DEF ServicesInv

\* The invariants hold in every reachable state.
LEMMA ServicesInvariance == MCSpec => []ServicesInv
<1>1. ServicesInv /\ [MCNext]_allVars => ServicesInv'
  BY ServicesKeep
<1> QED
  BY <1>1, ServicesStart, PTL DEF MCSpec

\* Every variable of every component keeps to its type.
THEOREM ServicesTyped == MCSpec => []TypesOK
<1>1. ServicesInv => TypesOK
  <2> SUFFICES ASSUME ServicesInv
               PROVE  TypesOK
    OBVIOUS
  <2>1. TypeOK /\ MonitorTypeOK /\ Dacp!TypeOK /\ Ending!ShutdownTypeOK
    BY Zenon DEF ServicesInv, Inv, MonitorInv, EndingInv
  <2>2. Queues!TypeOK /\ Sync!SyncTypeOK
    BY QueuesTyped, SyncInvTypes, Zenon DEF ServicesInv
  <2> QED
    BY <2>1, <2>2, Zenon DEF TypesOK
<1> QED
  BY <1>1, ServicesInvariance, PTL

\* However senders and threads interleave, the metadata queues neither lose, repeat nor reorder
\* what they accepted, and a message is freed when nobody refers to it any more, and not before;
\* however the program is asked to end, what is used is stopped after those who use it, and
\* everything is stopped.
THEOREM QueuesAndEnding == MCSpec => []ServicesKept
<1>1. ServicesInv => ServicesKept
  <2> SUFFICES ASSUME ServicesInv
               PROVE  ServicesKept
    OBVIOUS
  <2>1. Queues!InOrder /\ Queues!ReferencesCounted
    BY QueuesInOrder, QueuesCounted, Zenon DEF ServicesInv
  <2>2. Ending!UsersGoFirst /\ Ending!StopsEverything
    BY EndingRight, Zenon DEF ServicesInv
  <2> QED
    BY <2>1, <2>2, Zenon DEF ServicesKept, Queues!QueuesKeepItems
<1> QED
  BY <1>1, ServicesInvariance, PTL

\* The silence before the first frame ends just when that frame is due, and a skip, over as many
\* packets and measurements as it takes, ends with the error that was aimed at.
THEOREM SyncOnTarget == MCSpec => []FramesOnTarget
<1>1. ServicesInv => FramesOnTarget
  BY SyncRight, Zenon DEF ServicesInv, FramesOnTarget
<1> QED
  BY <1>1, ServicesInvariance, PTL
=============================================================================
