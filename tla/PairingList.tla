----------------------------- MODULE PairingList -----------------------------
(***************************************************************************)
(* The list of paired devices, a linked list that all connections share:   *)
(* pair-add, pair-remove and pair-list, each in the thread of its          *)
(* connection, step by step, for nothing locks the list.                   *)
(*                                                                         *)
(* Apart says that controllers change the list one at a time, and remove   *)
(* a device while nobody else uses the list: what the code needs of them.  *)
(***************************************************************************)
EXTENDS Integers, TLAPS

CONSTANTS
  Devices,
  Connections,
  Nodes,        \* what calloc gives out; a node is used once
  Apart         \* BOOLEAN

VARIABLES
  pairings,     \* the head of the list, Null at its end
  device_id, next,   \* of each node
  fresh,        \* nodes that were never used
  freed,
  pc, device, at, node, listed,   \* of each connection: its step and its variables
  paired,       \* the devices that are paired, as the controllers know
  owed          \* the devices that were paired all through a listing

listVars ==
  <<pairings, device_id, next, fresh, freed, pc, device, at, node, listed, paired, owed>>

Null == 0

ListInit ==
  /\ pairings = Null /\ fresh = Nodes /\ freed = {}
  /\ device_id = [n \in Nodes |-> "none"] /\ next = [n \in Nodes |-> Null]
  /\ pc = [c \in Connections |-> "idle"]
  /\ device = [c \in Connections |-> "none"]
  /\ at = [c \in Connections |-> Null] /\ node = [c \in Connections |-> Null]
  /\ listed = [c \in Connections |-> {}]
  /\ paired = {} /\ owed = [c \in Connections |-> {}]

heapVars == <<pairings, device_id, next, fresh, freed>>

Busy == {c \in Connections : pc[c] /= "idle"}
Changing == {c \in Busy : pc[c] /= "list"}

Goto(c, step) == pc' = [pc EXCEPT ![c] = step]

-----------------------------------------------------------------------------
\* server_add_remove_request and server_list, as requests come in
BeginAdd(c) ==
  /\ pc[c] = "idle" /\ fresh /= {}
  /\ Apart => Changing = {}
  /\ \E d \in Devices : device' = [device EXCEPT ![c] = d]
  /\ at' = [at EXCEPT ![c] = pairings]
  /\ Goto(c, "find to add")
  /\ UNCHANGED <<heapVars, node, listed, paired, owed>>

BeginRemove(c) ==
  /\ pc[c] = "idle"
  /\ Apart => Busy = {}
  /\ \E d \in Devices : device' = [device EXCEPT ![c] = d]
  /\ at' = [at EXCEPT ![c] = pairings]
  /\ Goto(c, "find to remove")
  /\ UNCHANGED <<heapVars, node, listed, paired, owed>>

BeginList(c) ==
  /\ pc[c] = "idle"
  /\ Apart => \A other \in Changing : pc[other] \notin {"find to remove", "unlink"}
  /\ at' = [at EXCEPT ![c] = pairings]
  /\ listed' = [listed EXCEPT ![c] = {}]
  /\ owed' = [owed EXCEPT ![c] = paired]
  /\ Goto(c, "list")
  /\ UNCHANGED <<heapVars, device, node, paired>>

\* pairing_find
FindOn(c) ==
  /\ pc[c] \in {"find to add", "find to remove"}
  /\ at[c] /= Null /\ device_id[at[c]] /= device[c]
  /\ at' = [at EXCEPT ![c] = next[at[c]]]
  /\ UNCHANGED <<heapVars, pc, device, node, listed, paired, owed>>

Done(c) == Goto(c, "idle") /\ at' = [at EXCEPT ![c] = Null] /\ node' = [node EXCEPT ![c] = Null]

\* pairing_add_cb: a device that is known gets its new key.
AddKnown(c) ==
  /\ pc[c] = "find to add" /\ at[c] /= Null /\ device_id[at[c]] = device[c]
  /\ Done(c) /\ paired' = paired \cup {device[c]}
  /\ UNCHANGED <<heapVars, device, listed, owed>>

\* pairing_add: the node is complete before it becomes the head.
AddNode(c) ==
  /\ pc[c] = "find to add" /\ at[c] = Null
  /\ \E n \in fresh :
       /\ \A m \in fresh : n <= m
       /\ fresh' = fresh \ {n}
       /\ node' = [node EXCEPT ![c] = n]
       /\ device_id' = [device_id EXCEPT ![n] = device[c]]
       /\ next' = [next EXCEPT ![n] = pairings]
  /\ Goto(c, "link")
  /\ UNCHANGED <<pairings, freed, device, at, listed, paired, owed>>

Link(c) ==
  /\ pc[c] = "link"
  /\ pairings' = node[c]
  /\ Done(c) /\ paired' = paired \cup {device[c]}
  /\ UNCHANGED <<device_id, next, fresh, freed, device, listed, owed>>

\* pairing_remove_cb: nothing is removed when the device is not known.
RemoveUnknown(c) ==
  /\ pc[c] = "find to remove" /\ at[c] = Null
  /\ Done(c)
  /\ UNCHANGED <<heapVars, device, listed, paired, owed>>

\* pairing_remove: the head is passed over, or the node before is looked for.
Found(c) ==
  /\ pc[c] = "find to remove" /\ at[c] /= Null /\ device_id[at[c]] = device[c]
  /\ node' = [node EXCEPT ![c] = at[c]] /\ at' = [at EXCEPT ![c] = pairings]
  /\ Goto(c, "unlink")
  /\ UNCHANGED <<heapVars, device, listed, paired, owed>>

Seek(c) ==
  /\ pc[c] = "unlink" /\ pairings /= node[c]
  /\ at[c] /= Null /\ next[at[c]] /= node[c]
  /\ at' = [at EXCEPT ![c] = next[at[c]]]
  /\ UNCHANGED <<heapVars, pc, device, node, listed, paired, owed>>

\* What comes after a device in the list; a removal that cuts off the rest
BugSuccessor(n) == Null
Successor(n) == next[n]

Unlink(c) ==
  /\ pc[c] = "unlink"
  /\ \/ /\ pairings = node[c]
        /\ pairings' = Successor(node[c]) /\ UNCHANGED next
     \/ /\ pairings /= node[c] /\ (at[c] = Null \/ next[at[c]] = node[c])
        /\ next' = IF at[c] = Null THEN next ELSE [next EXCEPT ![at[c]] = Successor(node[c])]
        /\ UNCHANGED pairings
  /\ freed' = freed \cup {node[c]}
  /\ Done(c)
  /\ paired' = paired \ {device[c]}
  /\ owed' = [o \in Connections |-> owed[o] \ {device[c]}]
  /\ UNCHANGED <<device_id, fresh, device, listed>>

\* pairing_list_cb
ListOn(c) ==
  /\ pc[c] = "list" /\ at[c] /= Null
  /\ listed' = [listed EXCEPT ![c] = @ \cup {device_id[at[c]]}]
  /\ at' = [at EXCEPT ![c] = next[at[c]]]
  /\ UNCHANGED <<heapVars, pc, device, node, paired, owed>>

ListEnd(c) ==
  /\ pc[c] = "list" /\ at[c] = Null
  /\ Done(c)
  /\ UNCHANGED <<heapVars, device, listed, paired, owed>>

ListNext ==
  \E c \in Connections :
    \/ BeginAdd(c) \/ BeginRemove(c) \/ BeginList(c) \/ FindOn(c)
    \/ AddKnown(c) \/ AddNode(c) \/ Link(c)
    \/ RemoveUnknown(c) \/ Found(c) \/ Seek(c) \/ Unlink(c)
    \/ ListOn(c) \/ ListEnd(c)

ListSpec == ListInit /\ [][ListNext]_listVars

-----------------------------------------------------------------------------
Steps == {"idle", "find to add", "link", "find to remove", "unlink", "list"}

ListTypeOK ==
  /\ pairings \in Nodes \cup {Null} /\ fresh \subseteq Nodes /\ freed \subseteq Nodes
  /\ next \in [Nodes -> Nodes \cup {Null}] /\ device_id \in [Nodes -> Devices \cup {"none"}]
  /\ pc \in [Connections -> Steps] /\ device \in [Connections -> Devices \cup {"none"}]
  /\ at \in [Connections -> Nodes \cup {Null}] /\ node \in [Connections -> Nodes \cup {Null}]
  /\ listed \in [Connections -> SUBSET (Devices \cup {"none"})]
  /\ owed \in [Connections -> SUBSET (Devices \cup {"none"})]
  /\ paired \subseteq Devices

\* A set of nodes that is left nowhere by the links nx.
Closed(nx, S) == \A k \in S : nx[k] /= Null => nx[k] \in S

\* The nodes from n on along nx: those in every such set that n is in.
Reach(nx, n) ==
  {m \in Nodes : \A S \in SUBSET Nodes : (n /= Null => n \in S) /\ Closed(nx, S) => m \in S}

InList == Reach(next, pairings)

\* The list (pairings, from pairing_add to pairing_remove) holds each paired device once and no
\* other, but for the one being added or removed, and comes to an end; nobody is at a node that
\* was freed; and a listing tells of every device that was paired all the while.
PairingsKept ==
  /\ Changing = {} => {device_id[n] : n \in InList} = paired
  /\ \A m, n \in InList : device_id[m] = device_id[n] => m = n
  /\ \A n \in InList : n \notin freed /\ n \notin Reach(next, next[n])
  /\ \A c \in Connections : at[c] \notin freed
  /\ \A c \in Connections : pc[c] = "idle" => owed[c] \subseteq listed[c]

-----------------------------------------------------------------------------
\* Nodes are numbered in the order in which they are given out.
Numbered == Nodes \subseteq Nat \ {Null}

Links == [Nodes -> Nodes \cup {Null}]

\* All nodes lead to older ones.
Older(nx) == \A n \in Nodes : nx[n] < n

\* What holds of the nodes: they lead to older ones, and the list is a line of nodes in use,
\* of different devices.
HeapOK ==
  /\ Older(next)
  /\ \A n \in fresh : \A m \in Nodes \ fresh : m < n
  /\ pairings \notin fresh /\ \A n \in Nodes : next[n] \notin fresh
  /\ freed \cap fresh = {} /\ InList \cap (freed \cup fresh) = {}
  /\ \A m, n \in InList : next[m] = next[n] /\ next[m] /= Null => m = n
  /\ \A m, n \in InList : device_id[m] = device_id[n] => m = n

\* The list holds the paired devices.
HeldOK ==
  /\ \A n \in InList : device_id[n] \in paired
  /\ \A d \in paired : \E n \in InList : device_id[n] = d

\* One changes the list at a time, and one that removes is alone.
Alone ==
  /\ \A c, e \in Changing : c = e
  /\ \A c \in Connections :
       pc[c] \in {"find to remove", "unlink"} => \A e \in Connections \ {c} : pc[e] = "idle"

\* A connection is in the list, and what it looks for is ahead of it; a node that is being
\* added is ready, and new to the list; what a listing owes, it has told or will come to.
Right(c) ==
  /\ at[c] \in InList \cup {Null}
  /\ pc[c] \in {"idle", "link"} => at[c] = Null
  /\ pc[c] \notin {"idle", "list"} => device[c] \in Devices
  /\ pc[c] \in {"find to add", "find to remove"} =>
       \A n \in InList : device_id[n] = device[c] => n \in Reach(next, at[c])
  /\ pc[c] = "link" =>
       /\ node[c] \in Nodes \ (InList \cup freed \cup fresh)
       /\ next[node[c]] = pairings /\ device_id[node[c]] = device[c]
       /\ \A n \in InList : device_id[n] /= device[c]
  /\ pc[c] = "unlink" =>
       /\ node[c] \in InList /\ device_id[node[c]] = device[c]
       /\ pairings /= node[c] => at[c] /= node[c] /\ node[c] \in Reach(next, at[c])
  /\ \A d \in owed[c] :
       \/ d \in listed[c]
       \/ pc[c] = "list" /\ \E n \in Reach(next, at[c]) : device_id[n] = d

ListInv == ListTypeOK /\ HeapOK /\ HeldOK /\ Alone /\ \A c \in Connections : Right(c)

-----------------------------------------------------------------------------
(***************************************************************************)
(* As long as controllers keep apart, the list is right, for any number of *)
(* devices, connections and nodes.  What is reached along the links is the *)
(* least set that they do not leave, so that nothing is counted.           *)
(***************************************************************************)

LEMMA Numbers ==
  ASSUME Numbered
  PROVE  Nodes \cup {Null} \subseteq Int /\ Null \notin Nodes
BY DEF Numbered, Null

\* The nodes reached are a set that the links do not leave.
LEMMA ReachClosed ==
  ASSUME Numbered, NEW nx \in Links, NEW n \in Nodes \cup {Null}
  PROVE  Reach(nx, n) \subseteq Nodes /\ Closed(nx, Reach(nx, n)) /\ (n /= Null => n \in Reach(nx, n))
<1>1. Reach(nx, n) \subseteq Nodes /\ (n /= Null => n \in Reach(nx, n))
  BY Zenon DEF Reach
<1>2. ASSUME NEW k \in Reach(nx, n), nx[k] /= Null
      PROVE  nx[k] \in Reach(nx, n)
  <2>1. k \in Nodes /\ nx[k] \in Nodes
    BY <1>1, <1>2 DEF Links
  <2>2. ASSUME NEW S \in SUBSET Nodes, n /= Null => n \in S, Closed(nx, S)
        PROVE  nx[k] \in S
    <3>1. k \in S
      BY <2>2, Zenon DEF Reach
    <3> QED
      BY <1>2, <2>2, <3>1, Zenon DEF Closed
  <2> QED
    BY <2>1, <2>2, Zenon DEF Reach
<1> QED
  BY <1>1, <1>2, Zenon DEF Closed

\* They are the least one.
LEMMA ReachLeast ==
  ASSUME NEW nx, NEW n, NEW S \in SUBSET Nodes, n /= Null => n \in S, Closed(nx, S)
  PROVE  Reach(nx, n) \subseteq S
BY Zenon DEF Reach

\* Nothing comes after the end.
LEMMA ReachNull ==
  ASSUME NEW nx
  PROVE  Reach(nx, Null) = {}
<1>1. Closed(nx, {})
  BY DEF Closed
<1>2. Reach(nx, Null) \subseteq {}
  BY <1>1, ReachLeast, Zenon
<1> QED
  BY <1>2, Zenon

\* A node, and what is reached from the next one.
LEMMA ReachStep ==
  ASSUME Numbered, NEW nx \in Links, NEW n \in Nodes
  PROVE  Reach(nx, n) = {n} \cup Reach(nx, nx[n])
<1> DEFINE rest == Reach(nx, nx[n])
<1>0. n /= Null /\ nx[n] \in Nodes \cup {Null}
  BY DEF Numbered, Links
<1>1. rest \subseteq Nodes /\ Closed(nx, rest) /\ (nx[n] /= Null => nx[n] \in rest)
  BY <1>0, ReachClosed, Zenon
<1>2. Reach(nx, n) \subseteq Nodes /\ Closed(nx, Reach(nx, n)) /\ n \in Reach(nx, n)
  BY <1>0, ReachClosed, Zenon
<1>3. nx[n] /= Null => nx[n] \in Reach(nx, n)
  BY <1>2, Zenon DEF Closed
<1>4. rest \subseteq Reach(nx, n)
  BY <1>2, <1>3, ReachLeast, Zenon
<1>5. {n} \cup rest \in SUBSET Nodes /\ Closed(nx, {n} \cup rest)
  <2> HIDE DEF rest
  <2> QED
    BY <1>1, Zenon DEF Closed
<1>6. Reach(nx, n) \subseteq {n} \cup rest
  <2> HIDE DEF rest
  <2>1. n \in {n} \cup rest
    OBVIOUS
  <2> QED
    BY <1>5, <2>1, ReachLeast, Zenon
<1> QED
  BY <1>2, <1>4, <1>6, Zenon

\* From a node that is reached no other is reached.
LEMMA ReachFrom ==
  ASSUME Numbered, NEW nx \in Links, NEW n \in Nodes \cup {Null}, NEW m \in Reach(nx, n)
  PROVE  Reach(nx, m) \subseteq Reach(nx, n)
<1>1. Reach(nx, n) \in SUBSET Nodes /\ Closed(nx, Reach(nx, n))
  BY ReachClosed, Zenon
<1> QED
  BY <1>1, ReachLeast, Zenon

\* Links that are not reached do not matter.
LEMMA ReachSame ==
  ASSUME Numbered, NEW nx \in Links, NEW ny \in Links, NEW n \in Nodes \cup {Null},
         \A k \in Reach(nx, n) : ny[k] = nx[k]
  PROVE  Reach(ny, n) = Reach(nx, n)
<1>1. /\ Reach(nx, n) \in SUBSET Nodes /\ Closed(nx, Reach(nx, n))
      /\ (n /= Null => n \in Reach(nx, n))
  BY ReachClosed, Zenon
<1>2. /\ Reach(ny, n) \in SUBSET Nodes /\ Closed(ny, Reach(ny, n))
      /\ (n /= Null => n \in Reach(ny, n))
  BY ReachClosed, Zenon
<1>3. Closed(ny, Reach(nx, n))
  BY <1>1, Zenon DEF Closed
<1>4. Reach(ny, n) \subseteq Reach(nx, n)
  BY <1>1, <1>3, ReachLeast, Zenon
<1>5. Closed(nx, Reach(ny, n))
  BY <1>2, <1>4, Zenon DEF Closed
<1>6. Reach(nx, n) \subseteq Reach(ny, n)
  BY <1>2, <1>5, ReachLeast, Zenon
<1> QED
  BY <1>4, <1>6, Zenon

\* Links that lead to older nodes lead to nothing younger.
LEMMA ReachOlder ==
  ASSUME Numbered, NEW nx \in Links, Older(nx), NEW n \in Nodes \cup {Null}
  PROVE  \A m \in Reach(nx, n) : m <= n
<1> DEFINE S == {m \in Nodes : m <= n}
<1>1. n /= Null => n \in S
  BY DEF Numbered
<1>2. ASSUME NEW k \in S, nx[k] /= Null
      PROVE  nx[k] \in S
  <2>1. k \in Nodes /\ k \in Int /\ k <= n
    BY DEF Numbered
  <2>0. nx[k] \in Nodes /\ nx[k] < k
    BY <1>2, <2>1, Zenon DEF Older, Links
  <2>2. nx[k] \in Nodes /\ nx[k] \in Int /\ nx[k] < k
    BY <2>0, Numbers, Zenon
  <2>3. n \in Int
    BY DEF Numbered, Null
  <2> QED
    BY <2>1, <2>2, <2>3
<1>3. S \in SUBSET Nodes
  OBVIOUS
<1>4. Reach(nx, n) \subseteq S
  <2> HIDE DEF S
  <2>1. Closed(nx, S)
    BY <1>2, Zenon DEF Closed
  <2> QED
    BY <1>1, <1>3, <2>1, ReachLeast, Zenon
<1> QED
  BY <1>4 DEF S

\* A node whose predecessor is made to pass it over leaves the list, and no other does.
LEMMA CutOut ==
  ASSUME Numbered, NEW nx \in Links, Older(nx), NEW head \in Nodes, NEW a \in Reach(nx, head),
         nx[a] /= Null, nx[a] /= head,
         \A m, n \in Reach(nx, head) : nx[m] = nx[n] /\ nx[m] /= Null => m = n
  PROVE  Reach([nx EXCEPT ![a] = nx[nx[a]]], head) = Reach(nx, head) \ {nx[a]}
<1> DEFINE out == nx[a]
           ny == [nx EXCEPT ![a] = nx[out]]
           L == Reach(nx, head)
           R == Reach(ny, head)
<1>1. head /= Null /\ a \in Nodes /\ out \in Nodes /\ out /= Null
  BY DEF Numbered, Links, Reach
<1>2. /\ ny \in Links /\ nx[out] < out /\ ny[a] = nx[out]
      /\ \A k \in Nodes : k /= a => ny[k] = nx[k]
  BY <1>1 DEF Links, Older
<1>3. L \in SUBSET Nodes /\ Closed(nx, L) /\ head \in L
  BY <1>1, ReachClosed, Zenon
<1> HIDE DEF ny
<1>4. R \in SUBSET Nodes /\ Closed(ny, R) /\ head \in R
  BY <1>1, <1>2, ReachClosed, Zenon
<1>5. R \subseteq L \ {out}
  <2>1. Closed(ny, L \ {out})
    <3> SUFFICES ASSUME NEW k \in L \ {out}, ny[k] /= Null
                 PROVE  ny[k] \in L \ {out}
      BY Zenon DEF Closed
    <3>1. CASE k = a
      <4>1. out \in L
        BY <1>1, <1>3, Zenon DEF Closed
      <4>2. nx[out] \in L
        BY <1>2, <1>3, <3>1, <4>1, Zenon DEF Closed
      <4>3. nx[out] /= out
        <5>1. nx[out] \in Int /\ out \in Int
          <6>1. nx[out] \in Nodes \cup {Null}
            BY <1>1, Zenon DEF Links
          <6> QED
            BY <1>1, <6>1, Numbers, Zenon
        <5> QED
          BY <1>2, <5>1
      <4> QED
        BY <1>2, <3>1, <4>2, <4>3, Zenon
    <3>2. CASE k /= a
      <4>1. ny[k] = nx[k] /\ nx[k] \in L
        BY <1>2, <1>3, <3>2, Zenon DEF Closed
      <4>2. nx[k] /= out
        BY <1>1, <3>2, Zenon
      <4> QED
        BY <4>1, <4>2, Zenon
    <3> QED
      BY <3>1, <3>2
  <2>2. head \in L \ {out} /\ L \ {out} \in SUBSET Nodes
    BY <1>3, Zenon
  <2> HIDE DEF L, out
  <2> QED
    BY <2>1, <2>2, ReachLeast, Zenon DEF R
<1>6. a \in R
  <2> SUFFICES ASSUME a \notin R
               PROVE  FALSE
    OBVIOUS
  <2>1. Closed(nx, R)
    BY <1>2, <1>4, Zenon DEF Closed
  <2>2. L \subseteq R
    BY <1>4, <2>1, ReachLeast, Zenon
  <2> QED
    BY <2>2, Zenon
<1>7. L \subseteq R \cup {out}
  <2>1. nx[out] /= Null => nx[out] \in R
    BY <1>2, <1>4, <1>6, Zenon DEF Closed
  <2>2. Closed(nx, R \cup {out})
    <3> SUFFICES ASSUME NEW k \in R \cup {out}, nx[k] /= Null
                 PROVE  nx[k] \in R \cup {out}
      BY Zenon DEF Closed
    <3>1. CASE k = a
      BY <3>1, Zenon
    <3>2. CASE k = out
      BY <2>1, <3>2, Zenon
    <3>3. CASE k /= a /\ k \in R
      BY <1>2, <1>4, <3>3, Zenon DEF Closed
    <3> QED
      BY <3>1, <3>2, <3>3, Zenon
  <2>3. R \cup {out} \in SUBSET Nodes /\ head \in R \cup {out}
    BY <1>1, <1>4, Zenon
  <2> QED
    BY <2>2, <2>3, ReachLeast, Zenon
<1>8. R = L \ {out}
  BY <1>5, <1>7, Zenon
<1> QED
  BY <1>8 DEF ny

\* A step that leaves the nodes alone leaves the list as it is.
LEMMA SameHeap ==
  ASSUME UNCHANGED heapVars
  PROVE  (HeapOK => HeapOK') /\ InList' = InList
<1>1. pairings' = pairings /\ device_id' = device_id /\ next' = next /\ fresh' = fresh /\ freed' = freed
  BY DEF heapVars
<1> QED
  BY <1>1, Zenon DEF HeapOK, InList

\* What concerns one connection, while others do their steps on a list that stays.
LEMMA Elsewhere ==
  ASSUME NEW e \in Connections, Right(e), UNCHANGED heapVars,
         pc'[e] = pc[e], device'[e] = device[e], at'[e] = at[e], node'[e] = node[e],
         listed'[e] = listed[e], owed'[e] = owed[e]
  PROVE  Right(e)'
<1>1. pairings' = pairings /\ device_id' = device_id /\ next' = next /\ fresh' = fresh /\ freed' = freed
  BY DEF heapVars
<1>2. InList' = InList
  BY SameHeap, Zenon
<1> QED
  BY <1>1, <1>2, Zenon DEF Right

\* A connection that goes on, or is done, leaves the others as much alone as before.
LEMMA AloneKept ==
  ASSUME ListTypeOK, Alone, NEW c \in Connections, NEW step \in Steps, Goto(c, step),
         \/ step = "idle"
         \/ pc[c] = "find to add" /\ step = "link"
         \/ pc[c] = "find to remove" /\ step = "unlink"
  PROVE  Alone'
<1>1. pc' = [pc EXCEPT ![c] = step] /\ pc \in [Connections -> Steps]
  BY DEF Goto, ListTypeOK
<1>2. \A e \in Connections : pc'[e] = IF e = c THEN step ELSE pc[e]
  BY <1>1
<1>3. Changing' \subseteq Changing
  BY <1>2 DEF Changing, Busy
<1>4. \A e, f \in Changing' : e = f
  BY <1>3, Zenon DEF Alone
<1>5. ASSUME NEW k \in Connections, pc'[k] \in {"find to remove", "unlink"},
             NEW e \in Connections \ {k}
      PROVE  pc'[e] = "idle"
  <2>1. pc[k] \in {"find to remove", "unlink"}
    BY <1>2, <1>5
  <2>2. pc[e] = "idle"
    BY <2>1, Zenon DEF Alone
  <2> QED
    BY <1>2, <2>2
<1> QED
  BY <1>4, <1>5, Zenon DEF Alone

LEMMA AloneSame ==
  ASSUME Alone, UNCHANGED pc
  PROVE  Alone'
BY Zenon DEF Alone, Changing, Busy

\* A step that changes neither the nodes nor what is paired is right for all connections when
\* it is right for the one that takes it.
LEMMA QuietStep ==
  ASSUME ListInv, NEW c \in Connections, UNCHANGED heapVars, UNCHANGED paired,
         \A e \in Connections \ {c} :
           /\ pc'[e] = pc[e] /\ device'[e] = device[e] /\ at'[e] = at[e] /\ node'[e] = node[e]
           /\ listed'[e] = listed[e] /\ owed'[e] = owed[e],
         ListTypeOK', Alone', Right(c)'
  PROVE  ListInv'
<1>1. HeapOK' /\ InList' = InList
  BY SameHeap, Zenon DEF ListInv
<1>2. HeldOK'
  BY <1>1, Zenon DEF ListInv, HeldOK, heapVars
<1>3. ASSUME NEW e \in Connections \ {c}
      PROVE  Right(e)'
  BY Elsewhere, Zenon DEF ListInv
<1> QED
  BY <1>1, <1>2, <1>3, Zenon DEF ListInv

\* The list is made of nodes, and goes on from each of them within it.
LEMMA Along ==
  ASSUME Numbered, ListInv
  PROVE  /\ next \in Links /\ pairings \in Nodes \cup {Null}
         /\ InList \subseteq Nodes /\ (pairings /= Null => pairings \in InList)
         /\ \A n \in InList : /\ n \in Nodes /\ next[n] \in InList \cup {Null}
                              /\ Reach(next, n) = {n} \cup Reach(next, next[n])
<1>1. next \in Links /\ pairings \in Nodes \cup {Null}
  BY DEF ListInv, ListTypeOK, Links
<1>2. InList \subseteq Nodes /\ Closed(next, InList) /\ (pairings /= Null => pairings \in InList)
  BY <1>1, ReachClosed, Zenon DEF InList
<1>3. ASSUME NEW n \in InList
      PROVE  /\ n \in Nodes /\ next[n] \in InList \cup {Null}
             /\ Reach(next, n) = {n} \cup Reach(next, next[n])
  <2>1. n \in Nodes /\ (next[n] /= Null => next[n] \in InList)
    BY <1>2, Zenon DEF Closed
  <2>2. Reach(next, n) = {n} \cup Reach(next, next[n])
    BY <1>1, <2>1, ReachStep, Zenon
  <2> QED
    BY <2>1, <2>2, Zenon
<1> QED
  BY <1>1, <1>2, <1>3, Zenon

LEMMA BeginAddRight ==
  ASSUME Apart, Numbered, ListInv, NEW c \in Connections, BeginAdd(c)
  PROVE  ListInv'
<1>1. UNCHANGED <<heapVars, node, listed, paired, owed>> /\ UNCHANGED heapVars
  BY DEF BeginAdd
<1>2. PICK d \in Devices : device' = [device EXCEPT ![c] = d]
  BY DEF BeginAdd
<1>3. /\ pc' = [pc EXCEPT ![c] = "find to add"] /\ at' = [at EXCEPT ![c] = pairings]
      /\ pc[c] = "idle" /\ Changing = {}
  BY DEF BeginAdd, Goto
<1>4. ListTypeOK
  BY DEF ListInv
<1>5. ListTypeOK'
  BY <1>1, <1>2, <1>3, <1>4 DEF ListTypeOK, heapVars, Steps
<1>6. \A e \in Connections :
        /\ pc'[e] = IF e = c THEN "find to add" ELSE pc[e]
        /\ at'[e] = IF e = c THEN pairings ELSE at[e]
        /\ device'[e] = IF e = c THEN d ELSE device[e]
  BY <1>2, <1>3, <1>4 DEF ListTypeOK
<1>7. Alone'
  <2>1. \A k \in Connections : k /= c => pc[k] \in {"idle", "list"}
    BY <1>3, Zenon DEF Changing, Busy
  <2>2. \A k \in Connections : k /= c => pc'[k] \in {"idle", "list"}
    BY <1>6, <2>1
  <2>3. \A k \in Connections : pc'[k] \notin {"find to remove", "unlink"}
    BY <1>6, <2>2
  <2>4. \A e, k \in Changing' : e = k
    BY <2>2, Zenon DEF Changing, Busy
  <2> QED
    BY <2>3, <2>4, Zenon DEF Alone
<1>8. Right(c)'
  <2>1. InList' = InList /\ InList = Reach(next, pairings)
    BY <1>1, SameHeap, Zenon DEF InList
  <2>2. Right(c)
    BY DEF ListInv
  <2>3. pairings \in InList \cup {Null}
    BY Along, Zenon
  <2>4. \A x \in owed[c] : x \in listed[c]
    BY <1>3, <2>2 DEF Right
  <2> QED
    BY <1>1, <1>6, <2>1, <2>3, <2>4 DEF Right, heapVars
<1> QED
  BY <1>1, <1>5, <1>6, <1>7, <1>8, QuietStep

LEMMA BeginRemoveRight ==
  ASSUME Apart, Numbered, ListInv, NEW c \in Connections, BeginRemove(c)
  PROVE  ListInv'
<1>1. UNCHANGED <<heapVars, node, listed, paired, owed>> /\ UNCHANGED heapVars
  BY DEF BeginRemove
<1>2. PICK d \in Devices : device' = [device EXCEPT ![c] = d]
  BY DEF BeginRemove
<1>3. /\ pc' = [pc EXCEPT ![c] = "find to remove"] /\ at' = [at EXCEPT ![c] = pairings]
      /\ pc[c] = "idle" /\ Busy = {}
  BY DEF BeginRemove, Goto
<1>4. ListTypeOK
  BY DEF ListInv
<1>5. ListTypeOK'
  BY <1>1, <1>2, <1>3, <1>4 DEF ListTypeOK, heapVars, Steps
<1>6. \A e \in Connections :
        /\ pc'[e] = IF e = c THEN "find to remove" ELSE pc[e]
        /\ at'[e] = IF e = c THEN pairings ELSE at[e]
        /\ device'[e] = IF e = c THEN d ELSE device[e]
  BY <1>2, <1>3, <1>4 DEF ListTypeOK
<1>7. Alone'
  BY <1>3, <1>6 DEF Alone, Changing, Busy
<1>8. Right(c)'
  <2>1. InList' = InList /\ InList = Reach(next, pairings)
    BY <1>1, SameHeap, Zenon DEF InList
  <2>2. Right(c)
    BY DEF ListInv
  <2>3. pairings \in InList \cup {Null}
    BY Along, Zenon
  <2>4. \A x \in owed[c] : x \in listed[c]
    BY <1>3, <2>2 DEF Right
  <2> QED
    BY <1>1, <1>6, <2>1, <2>3, <2>4 DEF Right, heapVars
<1> QED
  BY <1>1, <1>5, <1>6, <1>7, <1>8, QuietStep

\* What is paired is in the list, all of it ahead of a listing that starts.
LEMMA BeginListRight ==
  ASSUME Apart, Numbered, ListInv, NEW c \in Connections, BeginList(c)
  PROVE  ListInv'
<1>1. UNCHANGED <<heapVars, device, node, paired>> /\ UNCHANGED heapVars
  BY DEF BeginList
<1>2. /\ pc' = [pc EXCEPT ![c] = "list"] /\ at' = [at EXCEPT ![c] = pairings]
      /\ listed' = [listed EXCEPT ![c] = {}] /\ owed' = [owed EXCEPT ![c] = paired]
      /\ pc[c] = "idle"
      /\ \A other \in Changing : pc[other] \notin {"find to remove", "unlink"}
  BY DEF BeginList, Goto
<1>3. ListTypeOK
  BY DEF ListInv
<1>4. ListTypeOK'
  BY <1>1, <1>2, <1>3 DEF ListTypeOK, heapVars, Steps
<1>5. \A e \in Connections :
        /\ pc'[e] = IF e = c THEN "list" ELSE pc[e]
        /\ at'[e] = IF e = c THEN pairings ELSE at[e]
        /\ listed'[e] = IF e = c THEN {} ELSE listed[e]
        /\ owed'[e] = IF e = c THEN paired ELSE owed[e]
  BY <1>2, <1>3 DEF ListTypeOK
<1>6. Alone'
  <2>1. \A e \in Connections :
          pc'[e] \notin {"idle", "list"} <=> pc[e] \notin {"idle", "list"}
    BY <1>2, <1>5
  <2>2. Changing' = Changing
    <3>1. \A e : e \in Changing <=> e \in Connections /\ pc[e] \notin {"idle", "list"}
      BY DEF Changing, Busy
    <3>2. \A e : e \in Changing' <=> e \in Connections /\ pc'[e] \notin {"idle", "list"}
      BY DEF Changing, Busy
    <3> QED
      BY <2>1, <3>1, <3>2, Zenon
  <2>3. \A k \in Connections : pc[k] \notin {"find to remove", "unlink"}
    <3>1. ASSUME NEW k \in Connections, pc[k] \in {"find to remove", "unlink"}
          PROVE  k \in Changing
      BY <3>1 DEF Changing, Busy
    <3> QED
      BY <1>2, <3>1, Zenon
  <2>4. \A k \in Connections : pc'[k] \notin {"find to remove", "unlink"}
    BY <1>5, <2>3
  <2>5. Alone
    BY DEF ListInv
  <2> QED
    BY <2>2, <2>4, <2>5, Zenon DEF Alone
<1>7. Right(c)'
  <2>1. InList' = InList /\ InList = Reach(next, pairings)
    BY <1>1, SameHeap, Zenon DEF InList
  <2>2. pairings \in InList \cup {Null}
    BY Along, Zenon
  <2>3. \A d \in paired : \E n \in Reach(next, pairings) : device_id[n] = d
    BY <2>1, Zenon DEF ListInv, HeldOK
  <2> QED
    BY <1>1, <1>5, <2>1, <2>2, <2>3 DEF Right, heapVars
<1> QED
  BY <1>1, <1>4, <1>5, <1>6, <1>7, QuietStep

\* A connection that is done with a list that stays, and owes nothing
LEMMA DoneRight ==
  ASSUME ListInv, NEW c \in Connections, Done(c),
         UNCHANGED <<heapVars, device, listed, paired, owed>>,
         \A d \in owed[c] : d \in listed[c]
  PROVE  ListInv'
<1>1. /\ pc' = [pc EXCEPT ![c] = "idle"] /\ at' = [at EXCEPT ![c] = Null]
      /\ node' = [node EXCEPT ![c] = Null]
  BY DEF Done, Goto
<1>2. ListTypeOK /\ Alone
  BY DEF ListInv
<1>3. ListTypeOK'
  BY <1>1, <1>2 DEF ListTypeOK, heapVars, Steps
<1>4. \A e \in Connections :
        /\ pc'[e] = IF e = c THEN "idle" ELSE pc[e]
        /\ at'[e] = IF e = c THEN Null ELSE at[e]
        /\ e /= c => node'[e] = node[e]
  BY <1>1, <1>2 DEF ListTypeOK
<1>5. Alone'
  <2>1. Goto(c, "idle") /\ "idle" \in Steps
    BY DEF Done, Steps
  <2> QED
    BY <1>2, <2>1, AloneKept, Zenon
<1>6. Right(c)'
  BY <1>4 DEF Right
<1>7. UNCHANGED heapVars
  OBVIOUS
<1> QED
  BY <1>3, <1>4, <1>5, <1>6, <1>7, QuietStep

LEMMA AddKnownRight ==
  ASSUME Numbered, ListInv, NEW c \in Connections, AddKnown(c)
  PROVE  ListInv'
<1>1. /\ Done(c) /\ paired' = paired \cup {device[c]}
      /\ UNCHANGED <<heapVars, device, listed, owed>>
      /\ pc[c] = "find to add" /\ at[c] /= Null /\ device_id[at[c]] = device[c]
  BY DEF AddKnown
<1>2. Right(c) /\ HeldOK
  BY DEF ListInv
<1>3. at[c] \in InList
  BY <1>1, <1>2, Zenon DEF Right
<1>4. device[c] \in paired
  BY <1>1, <1>2, <1>3, Zenon DEF HeldOK
<1>5. paired' = paired
  BY <1>1, <1>4
<1>6. \A d \in owed[c] : d \in listed[c]
  BY <1>1, <1>2 DEF Right
<1> QED
  BY <1>1, <1>5, <1>6, DoneRight

LEMMA RemoveUnknownRight ==
  ASSUME ListInv, NEW c \in Connections, RemoveUnknown(c)
  PROVE  ListInv'
<1>1. Done(c) /\ UNCHANGED <<heapVars, device, listed, paired, owed>> /\ pc[c] = "find to remove"
  BY DEF RemoveUnknown
<1>2. \A d \in owed[c] : d \in listed[c]
  BY <1>1 DEF ListInv, Right
<1> QED
  BY <1>1, <1>2, DoneRight, Zenon

\* A listing that comes to the end has told all that it owes.
LEMMA ListEndRight ==
  ASSUME ListInv, NEW c \in Connections, ListEnd(c)
  PROVE  ListInv'
<1>1. Done(c) /\ UNCHANGED <<heapVars, device, listed, paired, owed>> /\ at[c] = Null
  BY DEF ListEnd
<1>2. Reach(next, at[c]) = {}
  BY <1>1, ReachNull, Zenon
<1>3. Right(c)
  BY DEF ListInv
<1>4. \A d \in owed[c] : d \in listed[c]
  BY <1>2, <1>3, Zenon DEF Right
<1> QED
  BY <1>1, <1>4, DoneRight, Zenon

\* The node that is passed over is not the one that is looked for.
LEMMA FindOnRight ==
  ASSUME Numbered, ListInv, NEW c \in Connections, FindOn(c)
  PROVE  ListInv'
<1>1. /\ UNCHANGED <<heapVars, pc, device, node, listed, paired, owed>> /\ UNCHANGED heapVars
      /\ pc[c] \in {"find to add", "find to remove"}
      /\ at[c] /= Null /\ device_id[at[c]] /= device[c]
      /\ at' = [at EXCEPT ![c] = next[at[c]]]
  BY DEF FindOn
<1>2. ListTypeOK /\ Alone /\ Right(c)
  BY DEF ListInv
<1>3. /\ at[c] \in InList /\ next[at[c]] \in InList \cup {Null}
      /\ Reach(next, at[c]) = {at[c]} \cup Reach(next, next[at[c]])
      /\ next[at[c]] \in Nodes \cup {Null}
  <2>1. at[c] \in InList
    BY <1>1, <1>2, Zenon DEF Right
  <2> QED
    BY <2>1, Along, Zenon
<1>4. ListTypeOK'
  BY <1>1, <1>2, <1>3 DEF ListTypeOK, heapVars
<1>5. \A e \in Connections : at'[e] = IF e = c THEN next[at[c]] ELSE at[e]
  BY <1>1, <1>2 DEF ListTypeOK
<1>6. Alone'
  BY <1>1, <1>2, AloneSame
<1>7. Right(c)'
  <2>1. InList' = InList
    BY <1>1, SameHeap, Zenon
  <2>2. \A n \in InList : device_id[n] = device[c] => n \in Reach(next, next[at[c]])
    BY <1>1, <1>2, <1>3, Zenon DEF Right
  <2>3. \A d \in owed[c] : d \in listed[c]
    BY <1>1, <1>2 DEF Right
  <2>4. at'[c] = next[at[c]]
    BY <1>5
  <2>5. device[c] \in Devices
    BY <1>1, <1>2 DEF Right
  <2> QED
    BY <1>1, <1>3, <2>1, <2>2, <2>3, <2>4, <2>5 DEF Right, heapVars
<1> QED
  BY <1>1, <1>4, <1>5, <1>6, <1>7, QuietStep

\* The node before is looked for from the head on.
LEMMA FoundRight ==
  ASSUME Numbered, ListInv, NEW c \in Connections, Found(c)
  PROVE  ListInv'
<1>1. /\ UNCHANGED <<heapVars, device, listed, paired, owed>> /\ UNCHANGED heapVars
      /\ pc[c] = "find to remove" /\ at[c] /= Null /\ device_id[at[c]] = device[c]
      /\ node' = [node EXCEPT ![c] = at[c]] /\ at' = [at EXCEPT ![c] = pairings]
      /\ Goto(c, "unlink") /\ pc' = [pc EXCEPT ![c] = "unlink"]
  BY DEF Found, Goto
<1>2. ListTypeOK /\ Alone /\ Right(c)
  BY DEF ListInv
<1>3. at[c] \in InList /\ pairings \in InList \cup {Null} /\ InList = Reach(next, pairings)
  <2>1. at[c] \in InList
    BY <1>1, <1>2, Zenon DEF Right
  <2> QED
    BY <2>1, Along, Zenon DEF InList
<1>4. ListTypeOK'
  BY <1>1, <1>2 DEF ListTypeOK, heapVars, Steps
<1>5. \A e \in Connections :
        /\ pc'[e] = IF e = c THEN "unlink" ELSE pc[e]
        /\ at'[e] = IF e = c THEN pairings ELSE at[e]
        /\ node'[e] = IF e = c THEN at[c] ELSE node[e]
  BY <1>1, <1>2 DEF ListTypeOK
<1>6. Alone'
  <2>1. "unlink" \in Steps
    BY DEF Steps
  <2> QED
    BY <1>1, <1>2, <2>1, AloneKept
<1>7. Right(c)'
  <2>1. InList' = InList
    BY <1>1, SameHeap, Zenon
  <2>2. (\A d \in owed[c] : d \in listed[c]) /\ device[c] \in Devices
    BY <1>1, <1>2 DEF Right
  <2>3. pc'[c] = "unlink" /\ at'[c] = pairings /\ node'[c] = at[c]
    BY <1>5
  <2>4. at[c] \in Reach(next, pairings)
    BY <1>3, Zenon
  <2>5. next' = next /\ pairings' = pairings /\ device_id' = device_id
    BY <1>1 DEF heapVars
  <2> QED
    BY <1>1, <1>3, <2>1, <2>2, <2>3, <2>4, <2>5 DEF Right
<1> QED
  BY <1>1, <1>4, <1>5, <1>6, <1>7, QuietStep

\* The node that is to go stays ahead.
LEMMA SeekRight ==
  ASSUME Numbered, ListInv, NEW c \in Connections, Seek(c)
  PROVE  ListInv'
<1>1. /\ UNCHANGED <<heapVars, pc, device, node, listed, paired, owed>> /\ UNCHANGED heapVars
      /\ pc[c] = "unlink" /\ pairings /= node[c]
      /\ at[c] /= Null /\ next[at[c]] /= node[c]
      /\ at' = [at EXCEPT ![c] = next[at[c]]]
  BY DEF Seek
<1>2. ListTypeOK /\ Alone /\ Right(c)
  BY DEF ListInv
<1>3. /\ at[c] \in InList /\ next[at[c]] \in InList \cup {Null}
      /\ Reach(next, at[c]) = {at[c]} \cup Reach(next, next[at[c]])
      /\ next[at[c]] \in Nodes \cup {Null}
  <2>1. at[c] \in InList
    BY <1>1, <1>2, Zenon DEF Right
  <2> QED
    BY <2>1, Along, Zenon
<1>4. ListTypeOK'
  BY <1>1, <1>2, <1>3 DEF ListTypeOK, heapVars
<1>5. \A e \in Connections : at'[e] = IF e = c THEN next[at[c]] ELSE at[e]
  BY <1>1, <1>2 DEF ListTypeOK
<1>6. Alone'
  BY <1>1, <1>2, AloneSame
<1>7. Right(c)'
  <2>1. InList' = InList
    BY <1>1, SameHeap, Zenon
  <2>2. /\ node[c] \in InList /\ device_id[node[c]] = device[c] /\ device[c] \in Devices
        /\ at[c] /= node[c] /\ node[c] \in Reach(next, at[c])
        /\ \A d \in owed[c] : d \in listed[c]
    BY <1>1, <1>2 DEF Right
  <2>3. node[c] \in Reach(next, next[at[c]])
    BY <1>3, <2>2, Zenon
  <2>4. at'[c] = next[at[c]]
    BY <1>5
  <2> QED
    BY <1>1, <1>3, <2>1, <2>2, <2>3, <2>4 DEF Right, heapVars
<1> QED
  BY <1>1, <1>4, <1>5, <1>6, <1>7, QuietStep

\* What a listing passes over it has told.
LEMMA ListOnRight ==
  ASSUME Numbered, ListInv, NEW c \in Connections, ListOn(c)
  PROVE  ListInv'
<1>1. /\ UNCHANGED <<heapVars, pc, device, node, paired, owed>> /\ UNCHANGED heapVars
      /\ pc[c] = "list" /\ at[c] /= Null
      /\ listed' = [listed EXCEPT ![c] = @ \cup {device_id[at[c]]}]
      /\ at' = [at EXCEPT ![c] = next[at[c]]]
  BY DEF ListOn
<1>2. ListTypeOK /\ Alone /\ Right(c)
  BY DEF ListInv
<1>3. /\ at[c] \in InList /\ at[c] \in Nodes /\ next[at[c]] \in InList \cup {Null}
      /\ Reach(next, at[c]) = {at[c]} \cup Reach(next, next[at[c]])
      /\ next[at[c]] \in Nodes \cup {Null}
  <2>1. at[c] \in InList
    BY <1>1, <1>2, Zenon DEF Right
  <2> QED
    BY <2>1, Along, Zenon
<1>4. ListTypeOK'
  BY <1>1, <1>2, <1>3 DEF ListTypeOK, heapVars
<1>5. \A e \in Connections :
        /\ at'[e] = IF e = c THEN next[at[c]] ELSE at[e]
        /\ listed'[e] = IF e = c THEN listed[c] \cup {device_id[at[c]]} ELSE listed[e]
  BY <1>1, <1>2 DEF ListTypeOK
<1>6. Alone'
  BY <1>1, <1>2, AloneSame
<1>7. Right(c)'
  <2>1. InList' = InList
    BY <1>1, SameHeap, Zenon
  <2>2. \A d \in owed[c] : d \in listed[c] \/ \E n \in Reach(next, at[c]) : device_id[n] = d
    BY <1>2, Zenon DEF Right
  <2>3. \A d \in owed[c] :
          \/ d \in listed[c] \cup {device_id[at[c]]}
          \/ \E n \in Reach(next, next[at[c]]) : device_id[n] = d
    BY <1>3, <2>2, Zenon
  <2>4. at'[c] = next[at[c]] /\ listed'[c] = listed[c] \cup {device_id[at[c]]}
    BY <1>5
  <2> QED
    BY <1>1, <1>3, <2>1, <2>3, <2>4 DEF Right, heapVars
<1> QED
  BY <1>1, <1>4, <1>5, <1>6, <1>7, QuietStep

\* A node is made ready outside the list, and the links of the list stay.
LEMMA AddNodeRight ==
  ASSUME Numbered, ListInv, NEW c \in Connections, AddNode(c)
  PROVE  ListInv'
<1>1. PICK n \in fresh :
        /\ \A m \in fresh : n <= m
        /\ fresh' = fresh \ {n}
        /\ node' = [node EXCEPT ![c] = n]
        /\ device_id' = [device_id EXCEPT ![n] = device[c]]
        /\ next' = [next EXCEPT ![n] = pairings]
  BY DEF AddNode
<1>2. /\ pc[c] = "find to add" /\ at[c] = Null
      /\ Goto(c, "link") /\ pc' = [pc EXCEPT ![c] = "link"]
      /\ UNCHANGED <<pairings, freed, device, at, listed, paired, owed>>
  BY DEF AddNode, Goto
<1>3. ListTypeOK /\ HeapOK /\ HeldOK /\ Alone /\ \A e \in Connections : Right(e)
  BY DEF ListInv
<1>4. /\ n \in Nodes /\ fresh \subseteq Nodes /\ next \in Links /\ pairings \in Nodes \cup {Null}
      /\ InList \subseteq Nodes /\ n \notin InList /\ n \notin freed
  BY <1>3, Along DEF ListTypeOK, HeapOK
<1>5. \A k \in Nodes : /\ next'[k] = IF k = n THEN pairings ELSE next[k]
                       /\ device_id'[k] = IF k = n THEN device[c] ELSE device_id[k]
  BY <1>1, <1>3, <1>4 DEF ListTypeOK
<1>6. ListTypeOK'
  BY <1>1, <1>2, <1>3, <1>4 DEF ListTypeOK, Steps
<1>7. next' \in Links
  BY <1>6 DEF ListTypeOK, Links
<1>8. InList' = InList
  <2>1. \A k \in Reach(next, pairings) : next'[k] = next[k]
    BY <1>4, <1>5 DEF InList
  <2>2. Reach(next', pairings) = Reach(next, pairings)
    BY <1>4, <1>7, <2>1, ReachSame
  <2> QED
    BY <1>2, <2>2, Zenon DEF InList
<1>9. ASSUME NEW m \in InList \cup {Null}
      PROVE  Reach(next', m) = Reach(next, m)
  <2>1. Reach(next, m) \subseteq InList
    <3>1. CASE m = Null
      BY <3>1, ReachNull, Zenon
    <3>2. CASE m \in InList
      BY <1>4, <3>2, ReachFrom, Zenon DEF InList
    <3> QED
      BY <3>1, <3>2
  <2>2. \A k \in Reach(next, m) : next'[k] = next[k]
    BY <1>4, <1>5, <2>1
  <2>3. m \in Nodes \cup {Null}
    BY <1>4
  <2> QED
    BY <1>4, <1>7, <2>2, <2>3, ReachSame
<1>10. HeapOK'
  <2>1. Nodes \cup {Null} \subseteq Int
    BY Numbers, Zenon
  <2>2. pairings < n
    <3>1. CASE pairings = Null
      BY <1>4, <3>1 DEF Numbered, Null
    <3>2. CASE pairings \in Nodes
      BY <1>1, <1>3, <3>2 DEF HeapOK
    <3> QED
      BY <1>4, <3>1, <3>2, Zenon
  <2>3. Older(next')
    BY <1>3, <1>5, <2>2 DEF HeapOK, Older
  <2>4. \A k \in fresh' : \A m \in Nodes \ fresh' : m < k
    <3> SUFFICES ASSUME NEW k \in fresh', NEW m \in Nodes \ fresh'
                 PROVE  m < k
      OBVIOUS
    <3>1. k \in fresh /\ k /= n /\ k \in Int /\ n \in Int /\ n <= k
      BY <1>1, <1>4, <2>1
    <3>2. CASE m = n
      BY <3>1, <3>2
    <3>3. CASE m /= n
      <4>1. m \in Nodes \ fresh
        BY <1>1, <3>3
      <4> QED
        BY <1>3, <3>1, <4>1 DEF HeapOK
    <3> QED
      BY <3>2, <3>3
  <2>5. pairings' \notin fresh' /\ \A k \in Nodes : next'[k] \notin fresh'
    <3>1. fresh' \subseteq fresh
      BY <1>1
    <3>2. pairings' \notin fresh /\ \A k \in Nodes : next[k] \notin fresh
      BY <1>2, <1>3, Zenon DEF HeapOK
    <3>3. \A k \in Nodes : next'[k] \notin fresh
      BY <1>2, <1>5, <3>2
    <3> QED
      BY <3>1, <3>2, <3>3, Zenon
  <2>6. freed' \cap fresh' = {} /\ InList' \cap (freed' \cup fresh') = {}
    BY <1>1, <1>2, <1>3, <1>8 DEF HeapOK
  <2>7. \A m \in InList : m \in Nodes /\ next'[m] = next[m] /\ device_id'[m] = device_id[m]
    BY <1>4, <1>5
  <2>8. \A k, m \in InList' : next'[k] = next'[m] /\ next'[k] /= Null => k = m
    BY <1>3, <1>8, <2>7 DEF HeapOK
  <2>9. \A k, m \in InList' : device_id'[k] = device_id'[m] => k = m
    BY <1>3, <1>8, <2>7 DEF HeapOK
  <2> QED
    BY <2>3, <2>4, <2>5, <2>6, <2>8, <2>9, Zenon DEF HeapOK
<1>11. \A m \in InList : device_id'[m] = device_id[m]
  BY <1>4, <1>5
<1>12. HeldOK'
  BY <1>2, <1>3, <1>8, <1>11 DEF HeldOK
<1>13. Alone'
  <2>1. "link" \in Steps
    BY DEF Steps
  <2> QED
    BY <1>2, <1>3, <2>1, AloneKept
<1>14. \A e \in Connections : /\ pc'[e] = IF e = c THEN "link" ELSE pc[e]
                              /\ node'[e] = IF e = c THEN n ELSE node[e]
  BY <1>1, <1>2, <1>3 DEF ListTypeOK
<1>15. Right(c)'
  <2>1. Right(c)
    BY <1>3
  <2>2. \A m \in InList : device_id[m] /= device[c]
    <3>1. Reach(next, at[c]) = {}
      BY <1>2, ReachNull, Zenon
    <3> QED
      BY <1>2, <2>1, <3>1 DEF Right
  <2>3. \A m \in InList' : device_id'[m] /= device'[c]
    BY <1>2, <1>8, <1>11, <2>2
  <2>4. /\ node'[c] \in Nodes \ (InList' \cup freed' \cup fresh')
        /\ next'[node'[c]] = pairings' /\ device_id'[node'[c]] = device'[c]
    <3>1. node'[c] = n
      BY <1>14
    <3>2. n \notin fresh' /\ n \notin freed' /\ n \notin InList'
      BY <1>1, <1>2, <1>4, <1>8
    <3>3. next'[n] = pairings /\ device_id'[n] = device[c]
      BY <1>4, <1>5
    <3> QED
      BY <1>2, <1>4, <3>1, <3>2, <3>3, Zenon
  <2>5. device[c] \in Devices /\ \A d \in owed[c] : d \in listed[c]
    BY <1>2, <2>1 DEF Right
  <2>6. pc'[c] = "link" /\ at'[c] = Null
    BY <1>2, <1>14
  <2> QED
    BY <1>2, <2>3, <2>4, <2>5, <2>6 DEF Right
<1>16. ASSUME NEW e \in Connections, e /= c
       PROVE  Right(e)'
  <2>1. Right(e)
    BY <1>3
  <2>2. pc[e] \in {"idle", "list"} /\ pc'[e] = pc[e]
    BY <1>2, <1>3, <1>14, <1>16 DEF Alone, Changing, Busy
  <2>3. at'[e] = at[e] /\ at[e] \in InList \cup {Null}
    BY <1>2, <2>1, Zenon DEF Right
  <2>4. Reach(next', at[e]) = Reach(next, at[e])
    BY <1>9, <2>3, Zenon
  <2>5. Reach(next, at[e]) \subseteq InList
    <3>1. CASE at[e] = Null
      BY <3>1, ReachNull, Zenon
    <3>2. CASE at[e] \in InList
      BY <1>4, <3>2, ReachFrom, Zenon DEF InList
    <3> QED
      BY <2>3, <3>1, <3>2
  <2>6. \A d \in owed'[e] :
          \/ d \in listed'[e]
          \/ pc'[e] = "list" /\ \E k \in Reach(next', at'[e]) : device_id'[k] = d
    <3> SUFFICES ASSUME NEW d \in owed[e], d \notin listed[e]
                 PROVE  pc'[e] = "list" /\ \E k \in Reach(next', at'[e]) : device_id'[k] = d
      BY <1>2, Zenon
    <3>1. pc[e] = "list" /\ \E k \in Reach(next, at[e]) : device_id[k] = d
      BY <2>1, Zenon DEF Right
    <3> QED
      BY <1>11, <2>2, <2>3, <2>4, <2>5, <3>1, Zenon
  <2>7. pc'[e] = "idle" => at'[e] = Null
    BY <2>1, <2>2, <2>3 DEF Right
  <2> QED
    BY <1>8, <2>2, <2>3, <2>6, <2>7 DEF Right
<1> QED
  BY <1>6, <1>10, <1>12, <1>13, <1>15, <1>16, Zenon DEF ListInv

\* Only the new node leads to what was the head.
LEMMA LinkRight ==
  ASSUME Numbered, ListInv, NEW c \in Connections, Link(c)
  PROVE  ListInv'
<1> DEFINE n == node[c]
<1>1. /\ pc[c] = "link" /\ pairings' = n /\ Done(c)
      /\ paired' = paired \cup {device[c]}
      /\ UNCHANGED <<device_id, next, fresh, freed, device, listed, owed>>
      /\ pc' = [pc EXCEPT ![c] = "idle"] /\ at' = [at EXCEPT ![c] = Null]
      /\ node' = [node EXCEPT ![c] = Null]
  BY DEF Link, Done, Goto
<1>2. ListTypeOK /\ HeapOK /\ HeldOK /\ Alone /\ \A e \in Connections : Right(e)
  BY DEF ListInv
<1>3. /\ next \in Links /\ pairings \in Nodes \cup {Null} /\ InList \subseteq Nodes
      /\ InList = Reach(next, pairings)
  BY Along, Zenon DEF InList
<1>4. /\ n \in Nodes /\ n \notin InList /\ n \notin freed /\ n \notin fresh
      /\ next[n] = pairings /\ device_id[n] = device[c] /\ device[c] \in Devices
      /\ \A m \in InList : device_id[m] /= device[c]
      /\ \A d \in owed[c] : d \in listed[c]
  BY <1>1, <1>2 DEF Right
<1>5. ListTypeOK'
  BY <1>1, <1>2, <1>4 DEF ListTypeOK, Steps
<1>6. \A e \in Connections : /\ pc'[e] = IF e = c THEN "idle" ELSE pc[e]
                             /\ at'[e] = IF e = c THEN Null ELSE at[e]
                             /\ e /= c => node'[e] = node[e]
  BY <1>1, <1>2 DEF ListTypeOK
<1> HIDE DEF n
<1>7. InList' = {n} \cup InList
  <2>1. Reach(next, n) = {n} \cup Reach(next, next[n])
    BY <1>3, <1>4, ReachStep, Zenon
  <2> QED
    BY <1>1, <1>3, <1>4, <2>1, Zenon DEF InList
<1>8. HeapOK'
  <2>1. Older(next)'
    BY <1>1, <1>2, Zenon DEF HeapOK
  <2>2. \A k \in fresh' : \A m \in Nodes \ fresh' : m < k
    BY <1>1, <1>2, Zenon DEF HeapOK
  <2>3. pairings' \notin fresh' /\ \A k \in Nodes : next'[k] \notin fresh'
    BY <1>1, <1>2, <1>4, Zenon DEF HeapOK
  <2>4. freed' \cap fresh' = {} /\ InList' \cap (freed' \cup fresh') = {}
    BY <1>1, <1>2, <1>4, <1>7 DEF HeapOK
  <2>5. \A m \in InList : next[m] /= pairings
    <3> SUFFICES ASSUME NEW m \in InList
                 PROVE  next[m] /= pairings
      OBVIOUS
    <3>1. m \in Nodes /\ next[m] \in Nodes \cup {Null}
      BY <1>3, Zenon DEF Links
    <3>2. m <= pairings /\ next[m] < m
      <4>1. Older(next)
        BY <1>2, Zenon DEF HeapOK
      <4>2. m <= pairings
        BY <1>3, <4>1, ReachOlder, Zenon
      <4> QED
        BY <3>1, <4>1, <4>2, Zenon DEF Older
    <3>3. m \in Int /\ pairings \in Int /\ next[m] \in Int
      BY <1>3, <3>1, Numbers, Zenon
    <3> QED
      BY <3>2, <3>3
  <2>6. \A k, m \in InList' : next'[k] = next'[m] /\ next'[k] /= Null => k = m
    BY <1>1, <1>2, <1>4, <1>7, <2>5, Zenon DEF HeapOK
  <2>7. \A k, m \in InList' : device_id'[k] = device_id'[m] => k = m
    BY <1>1, <1>2, <1>4, <1>7, Zenon DEF HeapOK
  <2> QED
    BY <2>1, <2>2, <2>3, <2>4, <2>6, <2>7, Zenon DEF HeapOK
<1>9. HeldOK'
  BY <1>1, <1>2, <1>4, <1>7, Zenon DEF HeldOK
<1>10. Alone'
  <2>1. Goto(c, "idle") /\ "idle" \in Steps
    BY <1>1 DEF Done, Steps
  <2> QED
    BY <1>2, <2>1, AloneKept, Zenon
<1>11. Right(c)'
  <2>1. pc'[c] = "idle" /\ at'[c] = Null
    BY <1>6
  <2> QED
    BY <1>1, <1>4, <2>1 DEF Right
<1>12. ASSUME NEW e \in Connections, e /= c
       PROVE  Right(e)'
  <2>1. Right(e)
    BY <1>2
  <2>2. pc[e] \in {"idle", "list"} /\ pc'[e] = pc[e] /\ at'[e] = at[e]
    BY <1>1, <1>2, <1>6, <1>12 DEF Alone, Changing, Busy
  <2>3. at'[e] \in InList' \cup {Null}
    BY <1>7, <2>1, <2>2, Zenon DEF Right
  <2>4. \A d \in owed'[e] :
          \/ d \in listed'[e]
          \/ pc'[e] = "list" /\ \E k \in Reach(next', at'[e]) : device_id'[k] = d
    BY <1>1, <2>1, <2>2, Zenon DEF Right
  <2>5. pc'[e] = "idle" => at'[e] = Null
    BY <2>1, <2>2, Zenon DEF Right
  <2> QED
    BY <2>2, <2>3, <2>4, <2>5 DEF Right
<1> QED
  BY <1>5, <1>8, <1>9, <1>10, <1>11, <1>12, Zenon DEF ListInv

\* The node leaves the list and all others stay, whether it was the head or not.
LEMMA UnlinkedList ==
  ASSUME Numbered, ListInv, NEW c \in Connections, Unlink(c)
  PROVE  /\ pairings' \in (Nodes \cup {Null}) \ fresh
         /\ next' \in Links /\ Older(next') /\ \A k \in Nodes : next'[k] \notin fresh
         /\ Reach(next', pairings') = InList \ {node[c]}
         /\ \A k, m \in InList \ {node[c]} :
              next'[k] = next'[m] /\ next'[k] /= Null => k = m
<1> DEFINE out == node[c]
           a == at[c]
<1>1. /\ pc[c] = "unlink"
      /\ \/ pairings = out /\ pairings' = next[out] /\ next' = next
         \/ /\ pairings /= out /\ (a = Null \/ next[a] = out) /\ pairings' = pairings
            /\ next' = IF a = Null THEN next ELSE [next EXCEPT ![a] = next[out]]
  BY DEF Unlink, Successor
<1>2. ListTypeOK /\ HeapOK /\ Right(c)
  BY DEF ListInv
<1>3. /\ out \in InList /\ a \in InList \cup {Null}
      /\ pairings /= out => a /= out /\ out \in Reach(next, a)
  BY <1>1, <1>2 DEF Right
<1>4. /\ next \in Links /\ pairings \in Nodes \cup {Null} /\ InList \subseteq Nodes
      /\ InList = Reach(next, pairings) /\ Older(next) /\ out \in Nodes
      /\ next[out] \in Nodes \cup {Null}
      /\ \A k, m \in InList : next[k] = next[m] /\ next[k] /= Null => k = m
      /\ pairings \notin fresh /\ \A k \in Nodes : next[k] \notin fresh
  BY <1>2, <1>3, Along, Zenon DEF InList, HeapOK, Links
<1>5. next[out] < out /\ next[out] \in Int /\ out \in Int
  <2>1. Nodes \cup {Null} \subseteq Int
    BY Numbers, Zenon
  <2>2. next[out] < out
    BY <1>4, Zenon DEF Older
  <2> QED
    BY <1>4, <2>1, <2>2, Zenon
<1> HIDE DEF out, a
<1>6. CASE pairings = out /\ pairings' = next[out] /\ next' = next
  <2>1. InList = {out} \cup Reach(next, next[out])
    BY <1>4, <1>6, ReachStep, Zenon
  <2>2. out \notin Reach(next, next[out])
    <3>1. out \in Reach(next, next[out]) => out <= next[out]
      BY <1>4, ReachOlder, Zenon
    <3> QED
      BY <1>5, <3>1
  <2>3. Reach(next', pairings') = InList \ {out}
    BY <1>6, <2>1, <2>2
  <2> QED
    BY <1>4, <1>6, <2>3, Zenon DEF out
<1>7. CASE /\ pairings /= out /\ (a = Null \/ next[a] = out) /\ pairings' = pairings
           /\ next' = IF a = Null THEN next ELSE [next EXCEPT ![a] = next[out]]
  <2>1. a /= Null
    <3>1. a = Null => Reach(next, a) = {}
      BY ReachNull, Zenon
    <3> QED
      BY <1>3, <1>7, <3>1, Zenon
  <2>2. a \in InList /\ a \in Nodes /\ next[a] = out /\ next' = [next EXCEPT ![a] = next[out]]
    BY <1>3, <1>4, <1>7, <2>1
  <2>3. pairings \in Nodes /\ out /= Null
    <3>1. pairings /= Null
      BY <1>3, <1>4, ReachNull, Zenon
    <3>2. out /= Null
      BY <1>4, Numbers, Zenon
    <3> QED
      BY <1>4, <3>1, <3>2, Zenon
  <2>4. next' \in Links
    BY <1>4, <2>2 DEF Links
  <2>5. \A k \in Nodes : next'[k] = IF k = a THEN next[out] ELSE next[k]
    BY <1>4, <2>2 DEF Links
  <2>6. Older(next')
    <3>1. next[out] < a
      <4>1. a \in Int /\ out < a
        <5>1. a \in Int
          BY <2>2, Numbers, Zenon
        <5> QED
          BY <1>4, <2>2, <5>1, Zenon DEF Older
      <4> QED
        BY <1>5, <4>1
    <3> QED
      BY <1>4, <2>5, <3>1 DEF Older
  <2>7. \A k \in Nodes : next'[k] \notin fresh
    BY <1>4, <2>5
  <2>8. Reach(next', pairings') = InList \ {out}
    <3>1. Reach([next EXCEPT ![a] = next[next[a]]], pairings) = Reach(next, pairings) \ {next[a]}
      <4>1. /\ a \in Reach(next, pairings) /\ next[a] /= Null /\ next[a] /= pairings
            /\ \A k, m \in Reach(next, pairings) :
                 next[k] = next[m] /\ next[k] /= Null => k = m
        BY <1>4, <1>7, <2>2, <2>3, Zenon
      <4> QED
        BY <1>4, <2>3, <4>1, CutOut, Zenon
    <3> QED
      BY <1>4, <1>7, <2>2, <3>1, Zenon
  <2>9. ASSUME NEW k \in InList \ {out}, NEW m \in InList \ {out},
               next'[k] = next'[m], next'[k] /= Null
        PROVE  k = m
    <3>1. CASE k = a /\ m /= a
      <4>1. next[m] = next[out] /\ next[m] /= Null
        BY <1>4, <2>5, <2>9, <3>1
      <4> QED
        BY <1>3, <1>4, <2>9, <4>1, Zenon DEF out
    <3>2. CASE m = a /\ k /= a
      <4>1. next[k] = next[out] /\ next[k] /= Null
        BY <1>4, <2>5, <2>9, <3>2
      <4> QED
        BY <1>3, <1>4, <2>9, <4>1, Zenon DEF out
    <3>3. CASE m /= a /\ k /= a
      <4>1. next[k] = next[m] /\ next[k] /= Null
        BY <1>4, <2>5, <2>9, <3>3
      <4> QED
        BY <1>4, <4>1, Zenon
    <3> QED
      BY <3>1, <3>2, <3>3, Zenon
  <2> QED
    BY <1>4, <1>7, <2>4, <2>6, <2>7, <2>8, <2>9, Zenon DEF out
<1> QED
  BY <1>1, <1>6, <1>7, Zenon DEF out, a

\* Nobody else is in the list when a node is freed.
LEMMA UnlinkRight ==
  ASSUME Numbered, ListInv, NEW c \in Connections, Unlink(c)
  PROVE  ListInv'
<1>1. /\ pc[c] = "unlink" /\ Goto(c, "idle")
      /\ freed' = freed \cup {node[c]}
      /\ paired' = paired \ {device[c]}
      /\ owed' = [o \in Connections |-> owed[o] \ {device[c]}]
      /\ UNCHANGED <<device_id, fresh, device, listed>>
      /\ pc' = [pc EXCEPT ![c] = "idle"] /\ at' = [at EXCEPT ![c] = Null]
      /\ node' = [node EXCEPT ![c] = Null]
  BY DEF Unlink, Done, Goto
<1>2. ListTypeOK /\ HeapOK /\ HeldOK /\ Alone /\ \A e \in Connections : Right(e)
  BY DEF ListInv
<1>3. /\ pairings' \in Nodes \cup {Null} /\ pairings' \notin fresh
      /\ next' \in Links /\ Older(next') /\ \A k \in Nodes : next'[k] \notin fresh
      /\ InList' = InList \ {node[c]}
      /\ \A k, m \in InList \ {node[c]} :
           next'[k] = next'[m] /\ next'[k] /= Null => k = m
  BY UnlinkedList, Zenon DEF InList
<1>4. node[c] \in InList /\ node[c] \in Nodes /\ device_id[node[c]] = device[c]
  <2>1. node[c] \in InList /\ device_id[node[c]] = device[c]
    BY <1>1, <1>2 DEF Right
  <2> QED
    BY <2>1, Along, Zenon
<1>5. ListTypeOK'
  BY <1>1, <1>2, <1>3, <1>4 DEF ListTypeOK, Links, Steps
<1>6. HeapOK'
  <2>1. \A k \in fresh' : \A m \in Nodes \ fresh' : m < k
    BY <1>1, <1>2, Zenon DEF HeapOK
  <2>2. pairings' \notin fresh' /\ \A k \in Nodes : next'[k] \notin fresh'
    BY <1>1, <1>3, Zenon
  <2>3. freed' \cap fresh' = {} /\ InList' \cap (freed' \cup fresh') = {}
    BY <1>1, <1>2, <1>3, <1>4 DEF HeapOK
  <2>4. \A k, m \in InList' : next'[k] = next'[m] /\ next'[k] /= Null => k = m
    BY <1>3, Zenon
  <2>5. \A k, m \in InList' : device_id'[k] = device_id'[m] => k = m
    BY <1>1, <1>2, <1>3, Zenon DEF HeapOK
  <2> QED
    BY <1>3, <2>1, <2>2, <2>3, <2>4, <2>5, Zenon DEF HeapOK
<1>7. HeldOK'
  <2>1. ASSUME NEW n \in InList'
        PROVE  device_id'[n] \in paired'
    <3>1. device_id[n] /= device[c] /\ device_id[n] \in paired
      BY <1>2, <1>3, <1>4, Zenon DEF HeapOK, HeldOK
    <3> QED
      BY <1>1, <3>1
  <2>2. ASSUME NEW d \in paired'
        PROVE  \E n \in InList' : device_id'[n] = d
    <3>1. d \in paired /\ d /= device[c]
      BY <1>1
    <3>2. PICK n \in InList : device_id[n] = d
      BY <1>2, <3>1, Zenon DEF HeldOK
    <3>3. n \in InList'
      BY <1>3, <1>4, <3>1, <3>2
    <3> QED
      BY <1>1, <3>2, <3>3
  <2> QED
    BY <2>1, <2>2, Zenon DEF HeldOK
<1>8. Alone'
  <2>1. "idle" \in Steps
    BY DEF Steps
  <2> QED
    BY <1>1, <1>2, <2>1, AloneKept, Zenon
<1>9. ASSUME NEW e \in Connections
      PROVE  Right(e)'
  <2>1. Right(e)
    BY <1>2
  <2>2. pc'[e] = "idle" /\ at'[e] = Null
    <3>1. CASE e = c
      BY <1>1, <1>2, <3>1 DEF ListTypeOK
    <3>2. CASE e /= c
      <4>1. pc[e] = "idle"
        BY <1>1, <1>2, <3>2 DEF Alone
      <4>2. at[e] = Null
        BY <2>1, <4>1 DEF Right
      <4> QED
        BY <1>1, <1>2, <3>2, <4>1, <4>2 DEF ListTypeOK
    <3> QED
      BY <3>1, <3>2
  <2>3. \A d \in owed[e] : d \in listed[e]
    <3>1. pc[e] /= "list"
      <4>1. CASE e = c
        BY <1>1, <4>1
      <4>2. CASE e /= c
        BY <1>1, <1>2, <4>2 DEF Alone
      <4> QED
        BY <4>1, <4>2
    <3> QED
      BY <2>1, <3>1 DEF Right
  <2>4. \A d \in owed'[e] : d \in listed'[e]
    BY <1>1, <2>3
  <2> QED
    BY <2>2, <2>4 DEF Right
<1> QED
  BY <1>5, <1>6, <1>7, <1>8, <1>9, Zenon DEF ListInv

LEMMA ListInitRight ==
  ASSUME Numbered, ListInit
  PROVE  ListInv
<1>1. /\ pairings = Null /\ fresh = Nodes /\ freed = {} /\ paired = {}
      /\ device_id = [n \in Nodes |-> "none"] /\ next = [n \in Nodes |-> Null]
      /\ pc = [c \in Connections |-> "idle"] /\ device = [c \in Connections |-> "none"]
      /\ at = [c \in Connections |-> Null] /\ node = [c \in Connections |-> Null]
      /\ listed = [c \in Connections |-> {}] /\ owed = [c \in Connections |-> {}]
  BY DEF ListInit
<1>2. InList = {}
  BY <1>1, ReachNull, Zenon DEF InList
<1>3. Nodes \cup {Null} \subseteq Int /\ Null \notin Nodes
  BY Numbers, Zenon
<1>4. ListTypeOK
  BY <1>1 DEF ListTypeOK, Steps
<1>5. HeapOK
  <2>1. Older(next)
    BY <1>1 DEF Older, Numbered, Null
  <2>2. pairings \notin fresh /\ \A n \in Nodes : next[n] \notin fresh
    BY <1>1, <1>3
  <2> QED
    BY <1>1, <1>2, <2>1, <2>2 DEF HeapOK
<1>6. HeldOK /\ Alone
  BY <1>1, <1>2 DEF HeldOK, Alone, Changing, Busy
<1>7. \A c \in Connections : Right(c)
  BY <1>1 DEF Right
<1> QED
  BY <1>4, <1>5, <1>6, <1>7 DEF ListInv

LEMMA ListStepRight ==
  ASSUME Apart, Numbered, ListInv, [ListNext]_listVars
  PROVE  ListInv'
<1>1. CASE UNCHANGED listVars
  <2>1. UNCHANGED heapVars /\ UNCHANGED <<pc, device, at, node, listed, paired, owed>>
    BY <1>1 DEF listVars, heapVars
  <2>2. HeapOK' /\ InList' = InList
    BY <2>1, SameHeap, Zenon DEF ListInv
  <2>3. ListTypeOK' /\ HeldOK' /\ Alone'
    BY <2>1, <2>2, Zenon DEF ListInv, ListTypeOK, HeldOK, Alone, Changing, Busy, heapVars
  <2>4. \A c \in Connections : Right(c)'
    BY <2>1, Elsewhere, Zenon DEF ListInv
  <2> QED
    BY <2>2, <2>3, <2>4, Zenon DEF ListInv
<1>2. CASE ListNext
  <2>1. PICK c \in Connections :
          \/ BeginAdd(c) \/ BeginRemove(c) \/ BeginList(c) \/ FindOn(c)
          \/ AddKnown(c) \/ AddNode(c) \/ Link(c)
          \/ RemoveUnknown(c) \/ Found(c) \/ Seek(c) \/ Unlink(c)
          \/ ListOn(c) \/ ListEnd(c)
    BY <1>2, Zenon DEF ListNext
  <2>2. BeginAdd(c) \/ BeginRemove(c) \/ BeginList(c) => ListInv'
    BY BeginAddRight, BeginRemoveRight, BeginListRight, Zenon
  <2>3. FindOn(c) \/ AddKnown(c) \/ AddNode(c) \/ Link(c) => ListInv'
    BY FindOnRight, AddKnownRight, AddNodeRight, LinkRight, Zenon
  <2>4. RemoveUnknown(c) \/ Found(c) \/ Seek(c) \/ Unlink(c) => ListInv'
    BY RemoveUnknownRight, FoundRight, SeekRight, UnlinkRight, Zenon
  <2>5. ListOn(c) \/ ListEnd(c) => ListInv'
    BY ListOnRight, ListEndRight, Zenon
  <2> QED
    BY <2>1, <2>2, <2>3, <2>4, <2>5, Zenon
<1> QED
  BY <1>1, <1>2, Zenon

LEMMA InvKeeps ==
  ASSUME Numbered, ListInv
  PROVE  PairingsKept
<1>1. ListTypeOK /\ HeapOK /\ HeldOK /\ \A c \in Connections : Right(c)
  BY DEF ListInv
<1>2. Nodes \cup {Null} \subseteq Int /\ Null \notin Nodes
  BY Numbers, Zenon
<1>3. {device_id[n] : n \in InList} = paired
  BY <1>1, Zenon DEF HeldOK
<1>4. \A m, n \in InList : device_id[m] = device_id[n] => m = n
  BY <1>1, Zenon DEF HeapOK
<1>5. ASSUME NEW n \in InList
      PROVE  n \notin freed /\ n \notin Reach(next, next[n])
  <2>1. n \notin freed
    BY <1>1 DEF HeapOK
  <2>2. n \in Nodes /\ next[n] \in Nodes \cup {Null} /\ next[n] < n /\ next \in Links
    BY <1>1, Along, Zenon DEF HeapOK, Older, Links
  <2>3. n \in Reach(next, next[n]) => n <= next[n]
    BY <1>1, <2>2, ReachOlder, Zenon DEF HeapOK
  <2>4. n \in Int /\ next[n] \in Int
    BY <1>2, <2>2, Zenon
  <2> QED
    BY <2>1, <2>2, <2>3, <2>4
<1>6. ASSUME NEW c \in Connections
      PROVE  at[c] \notin freed
  <2>1. at[c] \in InList \cup {Null} /\ freed \subseteq Nodes /\ InList \cap freed = {}
    BY <1>1 DEF Right, HeapOK, ListTypeOK
  <2> QED
    BY <1>2, <2>1
<1>7. \A c \in Connections : pc[c] = "idle" => owed[c] \subseteq listed[c]
  BY <1>1 DEF Right
<1> QED
  BY <1>3, <1>4, <1>5, <1>6, <1>7, Zenon DEF PairingsKept

\* Every step of every connection keeps the list's types and links, what is known to be
\* paired, who may change the list, and where each connection stands in it.
THEOREM ListStaysRight ==
  ASSUME Apart, Numbered
  PROVE  ListSpec => []ListInv
<1>1. ListInit => ListInv
  BY ListInitRight
<1>2. ListInv /\ [ListNext]_listVars => ListInv'
  BY ListStepRight
<1> QED
  BY <1>1, <1>2, PTL DEF ListSpec

\* However many connections add, remove and list at once (pairing_add_cb, pairing_remove_cb
\* and pairing_list_cb), as long as those that change the list keep apart and one that removes
\* is alone, the list holds each paired device once and ends, no connection is at a freed
\* node, and a listing leaves out nothing that stays paired.
THEOREM PairingsStayRight ==
  ASSUME Apart, Numbered
  PROVE  ListSpec => []PairingsKept
<1>1. ListSpec => []ListInv
  BY ListStaysRight
<1>2. ListInv => PairingsKept
  BY InvKeeps
<1> QED
  BY <1>1, <1>2, PTL
=============================================================================
