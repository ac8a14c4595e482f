----------------------------- MODULE MetadataHub -----------------------------
(***************************************************************************)
(* metadata_hub_process_metadata of metadata/hub.c, and what reaches it    *)
(* through the hub's queue.                                                *)
(*                                                                         *)
(* The tags of a track arrive as a packet: 'mdst', an item for each tag,   *)
(* 'mden'.  A conversation thread sends them; the player sends items that  *)
(* belong to no packet, such as its frame position.  Items are refused     *)
(* when the queue is full.  The hub's thread files each item in the        *)
(* metadata store, and runs the watchers (D-Bus, MPRIS) when an item says  *)
(* that something has changed: a tag does not, it sets                     *)
(* metadata_packet_item_changed, which 'mden' looks at.                    *)
(***************************************************************************)
EXTENDS Naturals, Sequences, FiniteSets

CONSTANTS
  Tags,      \* fields of a packet
  Silent,    \* those that do not set metadata_packet_item_changed ('asdt', 'caps'...)
  Values,    \* what a field may hold
  Room       \* metadata_hub_queue_size

Empty == "empty"
Start == [code |-> "mdst", value |-> Empty]
End == [code |-> "mden", value |-> Empty]
Position == "phbt"

Fields == Tags \union {Position}
Items == [code: Fields \union {"mdst", "mden"}, value: Values \union {Empty}]

VARIABLES
  store,      \* metadata_store
  shown,      \* what the watchers were last given
  metadata_packet_item_changed,
  queue,      \* the hub's queue
  packet,     \* what the conversation has still to send
  lost        \* a part of a packet has been refused (history)

vars == <<store, shown, metadata_packet_item_changed, queue, packet, lost>>

TypeOK ==
  /\ {store, shown} \subseteq [Fields -> Values \union {Empty}]
  /\ {metadata_packet_item_changed, lost} \subseteq BOOLEAN
  /\ queue \in Seq(Items) /\ Len(queue) <= Room
  /\ packet \in Seq(Items) /\ Len(packet) <= Cardinality(Tags) + 2

Init ==
  /\ store = [f \in Fields |-> Empty] /\ shown = store
  /\ metadata_packet_item_changed = FALSE
  /\ queue = <<>> /\ packet = <<>> /\ lost = FALSE

(***************************************************************************)
(* The senders                                                             *)
(***************************************************************************)

\* A SET_PARAMETER with a track's tags, which may be all of them or a few.
Tag(f, track) == [code |-> f, value |-> track[f]]
SetParameter(order, track) ==
  /\ packet = <<>>
  /\ packet' = <<Start>> \o [i \in 1 .. Len(order) |-> Tag(order[i], track)] \o <<End>>
  /\ UNCHANGED <<store, shown, metadata_packet_item_changed, queue, lost>>

SendNext ==
  /\ packet /= <<>>
  /\ packet' = Tail(packet)
  /\ IF Len(queue) < Room THEN queue' = Append(queue, Head(packet)) /\ UNCHANGED lost
     ELSE UNCHANGED queue /\ lost' = TRUE
  /\ UNCHANGED <<store, shown, metadata_packet_item_changed>>

SendPosition(v) ==
  /\ Len(queue) < Room
  /\ queue' = Append(queue, [code |-> Position, value |-> v])
  /\ UNCHANGED <<store, shown, metadata_packet_item_changed, packet, lost>>

(***************************************************************************)
(* The hub                                                                 *)
(***************************************************************************)
\* Whether the watchers are run for an item.
Changed(item) ==
  CASE item.code = "mden" -> metadata_packet_item_changed
    [] item.code = Position -> store[Position] /= item.value
    [] OTHER -> FALSE

BugPacketChanged(item) ==
  CASE item.code = "mdst" -> FALSE
    [] item.code \in Tags \ Silent -> store[item.code] /= item.value
    [] OTHER -> metadata_packet_item_changed
PacketChanged(item) ==
  CASE item.code = "mdst" -> FALSE
    [] item.code \in Tags \ Silent ->
         metadata_packet_item_changed \/ store[item.code] /= item.value
    [] OTHER -> metadata_packet_item_changed

Process ==
  LET item == Head(queue) IN
  /\ queue /= <<>>
  /\ queue' = Tail(queue)
  /\ store' = IF item.code \in Fields THEN [store EXCEPT ![item.code] = item.value] ELSE store
  /\ metadata_packet_item_changed' = PacketChanged(item)
  /\ shown' = IF Changed(item) THEN store' ELSE shown
  /\ UNCHANGED <<packet, lost>>

Orders == {o \in UNION {[1 .. n -> Tags] : n \in 1 .. Cardinality(Tags)} :
             \A i, j \in DOMAIN o : i /= j => o[i] /= o[j]}

Next ==
  \/ \E order \in Orders, track \in [Tags -> Values] : SetParameter(order, track)
  \/ SendNext
  \/ \E v \in Values : SendPosition(v)
  \/ Process

Spec == Init /\ [][Next]_vars

(***************************************************************************)
(* Properties                                                              *)
(***************************************************************************)
Delivered == queue = <<>> /\ packet = <<>>

\* As long as no part of a packet has been refused: when a packet has been sent and filed
\* the watchers have been given every tag that it changed, though its items do not run
\* them, and though the player's items were filed and announced between them.  (A refused
\* 'mden' is not made good: the next 'mdst' forgets that something had changed.)
TagsAnnounced == Delivered /\ ~lost => \A f \in Tags \ Silent : shown[f] = store[f]

\* "We don't set "changed" for them individually; instead we set it when the 'mden'
\* token comes in if the metadata_packet_item_changed item is set by parsed items
\* within the packet."
EveryTagAnnounced == Delivered /\ ~lost => shown = store
=============================================================================
