---------------------------- MODULE MetadataQueues ----------------------------
(***************************************************************************)
(* Metadata on its way to the pipe, the multicast socket, the hub and MQTT *)
(* (metadata/core.c, pc_queue.c and the thread of each destination).       *)
(*                                                                         *)
(* send_metadata offers an item to every queue in turn.  An item is a      *)
(* pointer into an RTSP message, which is reference counted: each queue    *)
(* holds a reference, and so does the conversation that received it.  (An  *)
(* item that is copied instead is a message that one queue alone refers    *)
(* to.)  A queue is a ring with a lock and a condition variable; an item   *)
(* that finds it full is not added.  The thread at its other end takes an  *)
(* item, uses it for as long as the destination needs, and releases it.    *)
(***************************************************************************)
EXTENDS Integers, Sequences, FiniteSets

CONSTANTS
  Queues,     \* the number of queues; they are offered an item in this order
  Capacity,   \* number_of_items of each queue, at least 1
  Senders,    \* threads that call send_metadata
  MaxMessage, \* bound: messages sent
  Stuck       \* the queues whose destination may never take an item

Q == 1 .. Queues
Messages == 1 .. MaxMessage
None == 0

VARIABLES
  items, toq, eoq, count,   \* the rings
  waiting,      \* the threads in pthread_cond_wait
  thread,       \* where the thread of each queue is
  pack,         \* the item it has taken
  sender,       \* what each sender is sending, and to which queue next
  received,     \* the number of messages received
  referenceCount,
  added, taken  \* what each queue has accepted, and given out (history)

ring == <<items, toq, eoq, count>>
vars == <<ring, waiting, thread, pack, sender, received, referenceCount, added, taken>>

Idle == [msg |-> None, at |-> "idle", queue |-> 1]

TypeOK ==
  /\ \A q \in Q :
       /\ items[q] \in [0 .. Capacity[q] - 1 -> Messages \union {None}]
       /\ {toq[q], eoq[q]} \subseteq 0 .. Capacity[q] - 1
       /\ count[q] \in 0 .. Capacity[q]
  /\ waiting \subseteq Q
  /\ thread \in [Q -> {"get", "use", "ended"}]
  /\ pack \in [Q -> Messages \union {None}]
  /\ sender \in [Senders -> [msg: Messages \union {None},
                             at: {"idle", "retain", "add", "release"}, queue: Q]]
  /\ received \in 0 .. MaxMessage
  /\ referenceCount \in [Messages -> 0 .. Queues + 1]
  /\ {added, taken} \subseteq [Q -> Seq(Messages)]

Init ==
  /\ items = [q \in Q |-> [i \in 0 .. Capacity[q] - 1 |-> None]]
  /\ toq = [q \in Q |-> 0] /\ eoq = toq /\ count = toq
  /\ waiting = {}
  /\ thread = [q \in Q |-> "get"] /\ pack = [q \in Q |-> None]
  /\ sender = [s \in Senders |-> Idle] /\ received = 0
  /\ referenceCount = [m \in Messages |-> 0]
  /\ added = [q \in Q |-> <<>>] /\ taken = added

(***************************************************************************)
(* The sender                                                              *)
(***************************************************************************)
\* A message that has arrived is sent: msg_init gives it its first reference.
Send(s) ==
  /\ sender[s] = Idle /\ received < MaxMessage
  /\ received' = received + 1
  /\ sender' = [sender EXCEPT ![s] = [msg |-> received', at |-> "retain", queue |-> 1]]
  /\ referenceCount' = [referenceCount EXCEPT ![received'] = 1]
  /\ UNCHANGED <<ring, waiting, thread, pack, added, taken>>

Held(m) == referenceCount' = [referenceCount EXCEPT ![m] = @ + 1]

Released(m) == referenceCount' = [referenceCount EXCEPT ![m] = @ - 1]

\* send_metadata_to_queue takes a reference for the queue,
Retain(s) ==
  /\ sender[s].at = "retain"
  /\ Held(sender[s].msg)
  /\ sender' = [sender EXCEPT ![s].at = "add"]
  /\ UNCHANGED <<ring, waiting, thread, pack, received, added, taken>>

NextQueue(s) ==
  LET r == sender[s] IN
  sender' = [sender EXCEPT ![s] =
    IF r.queue < Queues THEN [r EXCEPT !.at = "retain", !.queue = r.queue + 1]
    ELSE [r EXCEPT !.at = "release"]]

Folded(q, i) == IF i + 1 = Capacity[q] THEN 0 ELSE i + 1

Full(q) == count[q] >= Capacity[q]

BugRefused(q) == FALSE
\* Nobody waits for room, whatever the block parameter says.
Refused(q) == Full(q)

BugSignal(q) == UNCHANGED waiting
Signal(q) == waiting' = waiting \ {q}

BugSlot(q) == toq[q]
Slot(q) == eoq[q]

\* and adds the item, under the lock of the queue, and signals,
Add(s) ==
  LET q == sender[s].queue  m == sender[s].msg IN
  /\ sender[s].at = "add" /\ ~Full(q)
  /\ items' = [items EXCEPT ![q][Slot(q)] = m]
  /\ eoq' = [eoq EXCEPT ![q] = Folded(q, @)]
  /\ count' = [count EXCEPT ![q] = @ + 1]
  /\ Signal(q)
  /\ added' = [added EXCEPT ![q] = Append(@, m)]
  /\ NextQueue(s)
  /\ UNCHANGED <<toq, thread, pack, received, referenceCount, taken>>

\* or, when it is full, gives the reference back.
Refuse(s) ==
  /\ sender[s].at = "add" /\ Refused(sender[s].queue)
  /\ Released(sender[s].msg)
  /\ NextQueue(s)
  /\ UNCHANGED <<ring, waiting, thread, pack, received, added, taken>>

\* The conversation is done with the message.
Release(s) ==
  /\ sender[s].at = "release"
  /\ Released(sender[s].msg)
  /\ sender' = [sender EXCEPT ![s] = Idle]
  /\ UNCHANGED <<ring, waiting, thread, pack, received, added, taken>>

(***************************************************************************)
(* The thread at the other end                                             *)
(***************************************************************************)

\* pc_queue_get_item: wait while there is nothing,
Wait(q) ==
  /\ thread[q] = "get" /\ q \notin waiting /\ count[q] = 0
  /\ waiting' = waiting \union {q}
  /\ UNCHANGED <<ring, thread, pack, sender, received, referenceCount, added, taken>>

\* take the oldest.
Get(q) ==
  /\ thread[q] = "get" /\ q \notin waiting /\ count[q] > 0
  /\ pack' = [pack EXCEPT ![q] = items[q][toq[q]]]
  /\ toq' = [toq EXCEPT ![q] = Folded(q, @)]
  /\ count' = [count EXCEPT ![q] = @ - 1]
  /\ thread' = [thread EXCEPT ![q] = "use"]
  /\ taken' = [taken EXCEPT ![q] = Append(@, items[q][toq[q]])]
  /\ UNCHANGED <<items, eoq, waiting, sender, received, referenceCount, added>>

\* The item has been written, sent or filed; metadata_pack_cleanup_function.
Use(q) ==
  /\ thread[q] = "use"
  /\ Released(pack[q])
  /\ pack' = [pack EXCEPT ![q] = None]
  /\ thread' = [thread EXCEPT ![q] = "get"]
  /\ UNCHANGED <<ring, waiting, sender, received, added, taken>>

\* metadata_stop cancels the thread where it waits or where it writes, after the
\* conversations have ended; the item it has is released.
Stop(q) ==
  /\ \A s \in Senders : sender[s] = Idle
  /\ \/ thread[q] = "get" /\ q \in waiting /\ UNCHANGED <<referenceCount, pack>>
     \/ thread[q] = "use" /\ Released(pack[q]) /\ pack' = [pack EXCEPT ![q] = None]
  /\ thread' = [thread EXCEPT ![q] = "ended"]
  /\ waiting' = waiting \ {q}
  /\ UNCHANGED <<ring, sender, received, added, taken>>

SenderStep(s) == Retain(s) \/ Add(s) \/ Refuse(s) \/ Release(s)

Next ==
  \/ \E s \in Senders : SenderStep(s) \/ Send(s)
  \/ \E q \in Q : Wait(q) \/ Get(q) \/ Use(q) \/ Stop(q)

Spec == Init /\ [][Next]_vars

\* Threads run; the destinations that are not stuck take what they are given; a
\* reader of the pipe may go away for ever.
FairSpec ==
  /\ Spec
  /\ \A s \in Senders : WF_vars(SenderStep(s))
  /\ \A q \in Q : WF_vars(Get(q)) /\ (q \notin Stuck => WF_vars(Use(q)))

(***************************************************************************)
(* Properties                                                              *)
(***************************************************************************)

\* Each queue gives out what it accepted, in that order, and holds the rest.
Content(q) == [i \in 1 .. count[q] |-> items[q][(toq[q] + i - 1) % Capacity[q]]]
InOrder == \A q \in Q : added[q] = taken[q] \o Content(q)

\* A message that a sender, a queue or a thread still refers to has not been freed,
\* and one that nobody refers to has been: the count is that of its holders.
Holders(m) ==
  {<<"sender", s>> : s \in {s \in Senders : sender[s].msg = m}}
  \union {<<"offered", s>> : s \in {s \in Senders : sender[s].msg = m /\ sender[s].at = "add"}}
  \union {<<"queue", q>> : q \in {q \in Q : \E i \in 1 .. count[q] : Content(q)[i] = m}}
  \union {<<"thread", q>> : q \in {q \in Q : pack[q] = m}}

ReferencesCounted == \A m \in Messages : referenceCount[m] = Cardinality(Holders(m))

\* Senders and readers, whatever order their steps come in, neither lose, repeat nor
\* reorder what a queue has accepted, and free no message that is still in use.
QueuesKeepItems == InOrder /\ ReferencesCounted

\* Whoever sends metadata goes on, though the reader of the pipe has stopped reading
\* and its queue is full: the RTSP conversation and the player do.
SendReturns == \A s \in Senders : sender[s] /= Idle ~> sender[s] = Idle

\* What a queue has accepted is used, unless its destination is stuck.
AcceptedIsUsed ==
  \A q \in Q \ Stuck : count[q] > 0 ~> count[q] = 0 \/ thread[q] = "ended"

\* Nobody waits for the queues for good, and what they accept gets to its destination.
QueuesServe == SendReturns /\ AcceptedIsUsed
=============================================================================
