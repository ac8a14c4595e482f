----------------------- MODULE RtspConnections_proof -----------------------
(***************************************************************************)
(* Proofs about RtspConnections, for any set of connections, any requests  *)
(* and any scheduling: the inductive invariant that ties the two locks to  *)
(* the places where threads hold them, and what follows from it.           *)
(***************************************************************************)
EXTENDS RtspConnections, TLAPS

\* principal_conn_lock is held, across steps, exactly by the thread that is
\* terminating a connection, and conns_lock by one that joins.
LockInv ==
  /\ \A c \in Conns : writer = c <=> pc[c] \in {"terminate", "join"}
  /\ writer = Remote <=> pc[Remote] \in {"terminate", "join", "forget"}
  /\ \A t \in Conns \union {Remote} : connsLock = t <=> pc[t] = "join"
  /\ connsLock = Listener <=> pc[Listener] = "joinAll"

\* A newcomer that breaks in is principal_conn already; stop_play leaves
\* principal_conn alone until the end.
TargetInv ==
  /\ \A c \in Conns :
       pc[c] \in {"terminate", "join"} => principal = c /\ target[c] /= c
  /\ pc[Remote] \in {"terminate", "join"} => principal = target[Remote]

\* A connection is allocated when its thread is created; what is in the table
\* has not been freed.
MemoryInv ==
  \A c \in Conns :
    /\ pc[c] = "none" <=> memory[c] = "unused"
    /\ memory[c] = "freed" => pc[c] = "done"
    /\ c \in conns => memory[c] = "allocated"

\* What the running flag means, and the connection the listener is tracking.
RunningInv ==
  \A c \in Conns :
    /\ ~running[c] => \/ pc[c] \in {"none", "done"}
                      \/ pc[Listener] = "created" /\ target[Listener] = c
    /\ target[Listener] = c =>
         /\ pc[Listener] \in {"created", "track"}
         /\ memory[c] = "allocated"
         /\ c \notin conns
         /\ ~cancelled[c]

\* Nothing refers to a connection that no client has opened.
UnusedInv ==
  \A c \in Conns : pc[c] = "none" =>
    /\ ~cancelled[c]
    /\ principal /= c
    /\ \A t \in Threads : target[t] /= c

\* A cancelled connection is being joined under conns_lock, or is over.
CancelInv ==
  ~Exiting => \A c \in Conns :
    cancelled[c] => \/ pc[c] = "done" /\ c \notin conns
                    \/ /\ connsLock \in Conns \union {Remote}
                       /\ target[connsLock] = c

\* A connection on its way out is principal_conn only because stop_play, which
\* cancelled it, has not let it go yet.
LeavingInv ==
  ~Exiting => \A c \in Conns :
    Leaving(c) /\ principal = c => cancelled[c] /\ writer = Remote

\* A player thread outlives its connection only if the join was cancelled.
PlayerInv ==
  \A c \in Conns :
    /\ player[c] = "running" => pc[c] \notin {"none", "done", "joinCleanup"}
    /\ player[c] = "stopping" =>
         \/ pc[c] \in {"joinTeardown", "joinSetup", "joinCleanup"}
         \/ Leaving(c) /\ cancelled[c]

\* After the exit of the listen loop there is nobody left.
ExitInv ==
  pc[Listener] = "exited" => conns = {}

\* principal_conn points to allocated memory.
PrincipalAllocated ==
  ~Exiting /\ principal /= None => memory[principal] = "allocated"

Inv ==
  /\ TypeOK /\ LockInv /\ TargetInv /\ MemoryInv /\ RunningInv /\ UnusedInv
  /\ CancelInv /\ LeavingInv /\ PlayerInv /\ ExitInv /\ NoLostThread /\ FreedConnIsQuiet
  /\ PrincipalAllocated

-----------------------------------------------------------------------------
(***************************************************************************)
(* Each action keeps the invariant.  Under each: the types, the two locks  *)
(* and what their holders work on, the memory of the connections and the   *)
(* table, and the cancellations and players.                               *)
(***************************************************************************)

\* cleanup_threads frees only connections that are over, so not principal_conn.
LEMMA CleanupThreadsKeeps ==
  ASSUME Inv, CleanupThreads
  PROVE  Inv'
<1> USE ConstantsAssumption DEF Inv, CleanupThreads, Goto, sessionVars,
      tableVars
<1>1. TypeOK'
  BY DEF TypeOK, Threads, ConversationPCs, ListenerPCs, RemotePCs
<1>2. LockInv' /\ TargetInv'
  BY DEF TypeOK, Threads, LockInv, TargetInv
<1>3. MemoryInv' /\ RunningInv' /\ UnusedInv' /\ NoLostThread' /\
       FreedConnIsQuiet' /\ PrincipalAllocated'
  BY DEF TypeOK, Threads, MemoryInv, RunningInv, UnusedInv, CancelInv,
     LeavingInv, PlayerInv, NoLostThread, FreedConnIsQuiet,
     PrincipalAllocated, Leaving, Exiting
<1>4. CancelInv' /\ LeavingInv' /\ PlayerInv' /\ ExitInv'
  BY DEF TypeOK, Threads, CancelInv, LeavingInv, PlayerInv, ExitInv, Leaving,
     Exiting
<1> QED BY <1>1, <1>2, <1>3, <1>4 DEF Inv

\* The listen loop goes back to select.
LEMMA SelectTimeoutKeeps ==
  ASSUME Inv, SelectTimeout
  PROVE  Inv'
<1> USE ConstantsAssumption DEF Inv, SelectTimeout, Goto, sessionVars,
      tableVars
<1>1. TypeOK'
  BY DEF TypeOK, Threads, ListenerPCs
<1>2. LockInv' /\ TargetInv'
  BY DEF TypeOK, Threads, LockInv, TargetInv
<1>3. MemoryInv' /\ RunningInv' /\ UnusedInv' /\ NoLostThread' /\
       FreedConnIsQuiet' /\ PrincipalAllocated'
  BY DEF TypeOK, Threads, MemoryInv, RunningInv, UnusedInv, NoLostThread,
     FreedConnIsQuiet, PrincipalAllocated, Exiting
<1>4. CancelInv' /\ LeavingInv' /\ PlayerInv' /\ ExitInv'
  BY DEF TypeOK, Threads, CancelInv, LeavingInv, PlayerInv, ExitInv, Leaving,
     Exiting
<1> QED BY <1>1, <1>2, <1>3, <1>4 DEF Inv

\* A connection is allocated for a thread that nothing refers to yet.
LEMMA AcceptKeeps ==
  ASSUME Inv, NEW c \in Conns, Accept(c)
  PROVE  Inv'
<1> USE ConstantsAssumption DEF Inv, Accept, Goto, sessionVars, tableVars
<1>1. TypeOK'
  BY DEF TypeOK, Threads, ConversationPCs, ListenerPCs, RemotePCs
<1>2. LockInv' /\ TargetInv'
  BY DEF TypeOK, Threads, LockInv, TargetInv
<1>3. MemoryInv' /\ RunningInv' /\ UnusedInv' /\ NoLostThread' /\
       FreedConnIsQuiet' /\ PrincipalAllocated'
  BY DEF TypeOK, Threads, MemoryInv, RunningInv, UnusedInv, NoLostThread,
     FreedConnIsQuiet, PrincipalAllocated, Exiting
<1>4. CancelInv' /\ LeavingInv' /\ PlayerInv' /\ ExitInv'
  BY DEF TypeOK, Threads, CancelInv, LeavingInv, PlayerInv, ExitInv, Leaving,
     Exiting
<1> QED BY <1>1, <1>2, <1>3, <1>4 DEF Inv

\* running is set after the thread was created, which may be over already.
LEMMA SetRunningKeeps ==
  ASSUME Inv, SetRunning
  PROVE  Inv'
<1> USE ConstantsAssumption DEF Inv, SetRunning, Goto, sessionVars, tableVars
<1>1. TypeOK'
  BY DEF TypeOK, Threads, ConversationPCs, ListenerPCs, RemotePCs
<1>2. LockInv' /\ TargetInv'
  BY DEF TypeOK, Threads, LockInv, TargetInv
<1>3. MemoryInv' /\ RunningInv' /\ UnusedInv' /\ NoLostThread' /\
       FreedConnIsQuiet' /\ PrincipalAllocated'
  BY DEF TypeOK, Threads, MemoryInv, RunningInv, UnusedInv, NoLostThread,
     FreedConnIsQuiet, PrincipalAllocated, Exiting
<1>4. CancelInv' /\ LeavingInv' /\ PlayerInv' /\ ExitInv'
  BY DEF TypeOK, Threads, CancelInv, LeavingInv, PlayerInv, ExitInv, Leaving,
     Exiting
<1> QED BY <1>1, <1>2, <1>3, <1>4 DEF Inv

\* The connection just accepted is not in the table, nor cancelled, yet.
LEMMA TrackThreadKeeps ==
  ASSUME Inv, TrackThread
  PROVE  Inv'
<1> USE ConstantsAssumption DEF Inv, TrackThread, Tracked, Goto, sessionVars,
      tableVars
<1>1. TypeOK'
  BY DEF TypeOK, Threads, ConversationPCs, ListenerPCs, RemotePCs
<1>2. LockInv' /\ TargetInv'
  BY DEF TypeOK, Threads, LockInv, TargetInv
<1>3. MemoryInv' /\ RunningInv' /\ UnusedInv' /\ NoLostThread' /\
       FreedConnIsQuiet' /\ PrincipalAllocated'
  BY DEF TypeOK, Threads, MemoryInv, RunningInv, UnusedInv, CancelInv,
     NoLostThread, FreedConnIsQuiet, PrincipalAllocated, Exiting
<1>4. CancelInv' /\ LeavingInv' /\ PlayerInv' /\ ExitInv'
  BY DEF TypeOK, Threads, ListenerPCs, LockInv, TargetInv, RunningInv,
     UnusedInv, CancelInv, LeavingInv, PlayerInv, ExitInv, Leaving, Exiting
<1> QED BY <1>1, <1>2, <1>3, <1>4 DEF Inv

\* The cleanup handler of the listen loop begins.
LEMMA ExitRequestedKeeps ==
  ASSUME Inv, ExitRequested
  PROVE  Inv'
<1> USE ConstantsAssumption DEF Inv, ExitRequested, Goto, sessionVars,
      tableVars
<1>1. TypeOK'
  BY DEF TypeOK, Threads, ConversationPCs, ListenerPCs, RemotePCs
<1>2. LockInv' /\ TargetInv'
  BY DEF TypeOK, Threads, LockInv, TargetInv
<1>3. MemoryInv' /\ RunningInv' /\ UnusedInv' /\ NoLostThread' /\
       FreedConnIsQuiet' /\ PrincipalAllocated'
  BY DEF TypeOK, Threads, MemoryInv, RunningInv, UnusedInv, NoLostThread,
     FreedConnIsQuiet, PrincipalAllocated, Exiting
<1>4. CancelInv' /\ LeavingInv' /\ PlayerInv' /\ ExitInv'
  BY DEF TypeOK, Threads, CancelInv, LeavingInv, PlayerInv, ExitInv, Leaving,
     Exiting
<1> QED BY <1>1, <1>2, <1>3, <1>4 DEF Inv

\* conns_lock, once taken, tells that no thread is joining another.
LEMMA CancelAllKeeps ==
  ASSUME Inv, CancelAll
  PROVE  Inv'
<1> USE ConstantsAssumption DEF Inv, CancelAll, Goto, sessionVars, tableVars
<1>1. TypeOK'
  BY DEF TypeOK, Threads, ConversationPCs, ListenerPCs, RemotePCs
<1>2. LockInv' /\ TargetInv'
  BY DEF TypeOK, Threads, LockInv, TargetInv
<1>3. MemoryInv' /\ RunningInv' /\ UnusedInv' /\ NoLostThread' /\
       FreedConnIsQuiet' /\ PrincipalAllocated'
  BY DEF TypeOK, Threads, MemoryInv, RunningInv, UnusedInv, NoLostThread,
     FreedConnIsQuiet, PrincipalAllocated, Exiting
<1>4. CancelInv' /\ LeavingInv' /\ PlayerInv' /\ ExitInv'
  BY DEF TypeOK, Threads, CancelInv, LeavingInv, PlayerInv, ExitInv, Leaving,
     Exiting
<1> QED BY <1>1, <1>2, <1>3, <1>4 DEF Inv

\* Joined when done: freed, and out of the table.
LEMMA JoinOneKeeps ==
  ASSUME Inv, NEW c \in Conns, JoinOne(c)
  PROVE  Inv'
<1> USE ConstantsAssumption DEF Inv, JoinOne, Goto, sessionVars, tableVars
<1>1. TypeOK'
  BY DEF TypeOK, Threads, ConversationPCs, ListenerPCs, RemotePCs
<1>2. LockInv' /\ TargetInv'
  BY DEF TypeOK, Threads, LockInv, TargetInv
<1>3. MemoryInv' /\ RunningInv' /\ UnusedInv' /\ NoLostThread' /\
       FreedConnIsQuiet' /\ PrincipalAllocated'
  BY DEF TypeOK, Threads, MemoryInv, RunningInv, UnusedInv, NoLostThread,
     FreedConnIsQuiet, PrincipalAllocated, Exiting
<1>4. CancelInv' /\ LeavingInv' /\ PlayerInv' /\ ExitInv'
  BY DEF TypeOK, Threads, CancelInv, LeavingInv, PlayerInv, ExitInv, Leaving,
     Exiting
<1> QED BY <1>1, <1>2, <1>3, <1>4 DEF Inv

\* The table is empty when conns_lock is let go.
LEMMA AllJoinedKeeps ==
  ASSUME Inv, AllJoined
  PROVE  Inv'
<1> USE ConstantsAssumption DEF Inv, AllJoined, Goto, sessionVars, tableVars
<1>1. TypeOK'
  BY DEF TypeOK, Threads, ConversationPCs, ListenerPCs, RemotePCs
<1>2. LockInv' /\ TargetInv'
  BY DEF TypeOK, Threads, LockInv, TargetInv
<1>3. MemoryInv' /\ RunningInv' /\ UnusedInv' /\ NoLostThread' /\
       FreedConnIsQuiet' /\ PrincipalAllocated'
  BY DEF TypeOK, Threads, MemoryInv, RunningInv, UnusedInv, NoLostThread,
     FreedConnIsQuiet, PrincipalAllocated, Exiting
<1>4. CancelInv' /\ LeavingInv' /\ PlayerInv' /\ ExitInv'
  BY DEF TypeOK, Threads, CancelInv, LeavingInv, PlayerInv, ExitInv, Leaving,
     Exiting
<1> QED BY <1>1, <1>2, <1>3, <1>4 DEF Inv

\* A thread at the head of its loop holds neither lock.
LEMMA LoopTopKeeps ==
  ASSUME Inv, NEW c \in Conns, LoopTop(c)
  PROVE  Inv'
<1> USE ConstantsAssumption DEF Inv, LoopTop, ActOnCancel, Goto, sessionVars,
      tableVars
<1>1. TypeOK'
  BY DEF TypeOK, Threads, ConversationPCs, ListenerPCs, RemotePCs
<1>2. LockInv' /\ TargetInv'
  BY DEF TypeOK, Threads, LockInv, TargetInv
<1>3. MemoryInv' /\ RunningInv' /\ UnusedInv' /\ NoLostThread' /\
       FreedConnIsQuiet' /\ PrincipalAllocated'
  BY DEF TypeOK, Threads, MemoryInv, RunningInv, UnusedInv, NoLostThread,
     FreedConnIsQuiet, PrincipalAllocated, Exiting
<1>4. CancelInv' /\ LeavingInv' /\ PlayerInv' /\ ExitInv'
  BY DEF TypeOK, Threads, LockInv, TargetInv, CancelInv, LeavingInv,
     PlayerInv, ExitInv, Leaving, Exiting
<1> QED BY <1>1, <1>2, <1>3, <1>4 DEF Inv

\* The search of the table changes nothing.
LEMMA ScanConnsKeeps ==
  ASSUME Inv, NEW c \in Conns, ScanConns(c)
  PROVE  Inv'
<1> USE ConstantsAssumption DEF Inv, ScanConns, Goto, sessionVars, tableVars
<1>1. TypeOK'
  BY DEF TypeOK, Threads, ConversationPCs, ListenerPCs, RemotePCs
<1>2. LockInv' /\ TargetInv'
  BY DEF TypeOK, Threads, LockInv, TargetInv
<1>3. MemoryInv' /\ RunningInv' /\ UnusedInv' /\ NoLostThread' /\
       FreedConnIsQuiet' /\ PrincipalAllocated'
  BY DEF TypeOK, Threads, MemoryInv, RunningInv, UnusedInv, NoLostThread,
     FreedConnIsQuiet, PrincipalAllocated, Exiting
<1>4. CancelInv' /\ LeavingInv' /\ PlayerInv' /\ ExitInv'
  BY DEF TypeOK, Threads, CancelInv, LeavingInv, PlayerInv, ExitInv, Leaving,
     Exiting
<1> QED BY <1>1, <1>2, <1>3, <1>4 DEF Inv

\* A thread cancelled while it reads holds neither lock.
LEMMA CancelReadKeeps ==
  ASSUME Inv, NEW c \in Conns, CancelRead(c)
  PROVE  Inv'
<1> USE ConstantsAssumption DEF Inv, CancelRead, ActOnCancel, Goto,
      sessionVars, tableVars
<1>1. TypeOK'
  BY DEF TypeOK, Threads, ConversationPCs, ListenerPCs, RemotePCs
<1>2. LockInv' /\ TargetInv'
  BY DEF TypeOK, Threads, LockInv, TargetInv
<1>3. MemoryInv' /\ RunningInv' /\ UnusedInv' /\ NoLostThread' /\
       FreedConnIsQuiet' /\ PrincipalAllocated'
  BY DEF TypeOK, Threads, MemoryInv, RunningInv, UnusedInv, NoLostThread,
     FreedConnIsQuiet, PrincipalAllocated, Exiting
<1>4. CancelInv' /\ LeavingInv' /\ PlayerInv' /\ ExitInv'
  BY DEF TypeOK, Threads, LockInv, TargetInv, CancelInv, LeavingInv,
     PlayerInv, ExitInv, Leaving, Exiting
<1> QED BY <1>1, <1>2, <1>3, <1>4 DEF Inv

\* Only conn->stop changes.
LEMMA ChannelClosedKeeps ==
  ASSUME Inv, NEW c \in Conns, ChannelClosed(c)
  PROVE  Inv'
<1> USE ConstantsAssumption DEF Inv, ChannelClosed, Goto, sessionVars,
      tableVars
<1>1. TypeOK'
  BY DEF TypeOK, Threads, ConversationPCs, ListenerPCs, RemotePCs
<1>2. LockInv' /\ TargetInv'
  BY DEF TypeOK, Threads, LockInv, TargetInv
<1>3. MemoryInv' /\ RunningInv' /\ UnusedInv' /\ NoLostThread' /\
       FreedConnIsQuiet' /\ PrincipalAllocated'
  BY DEF TypeOK, Threads, MemoryInv, RunningInv, UnusedInv, NoLostThread,
     FreedConnIsQuiet, PrincipalAllocated, Exiting
<1>4. CancelInv' /\ LeavingInv' /\ PlayerInv' /\ ExitInv'
  BY DEF TypeOK, Threads, CancelInv, LeavingInv, PlayerInv, ExitInv, Leaving,
     Exiting
<1> QED BY <1>1, <1>2, <1>3, <1>4 DEF Inv

\* The thread goes on to wait for principal_conn_lock, and holds no lock yet.
LEMMA SetupPTPKeeps ==
  ASSUME Inv, NEW c \in Conns, SetupPTP(c)
  PROVE  Inv'
<1> USE ConstantsAssumption DEF Inv, SetupPTP, Receive, Goto, sessionVars,
      tableVars
<1>1. TypeOK'
  BY DEF TypeOK, Threads, ConversationPCs, ListenerPCs, RemotePCs
<1>2. LockInv' /\ TargetInv'
  BY DEF TypeOK, Threads, LockInv, TargetInv
<1>3. MemoryInv' /\ RunningInv' /\ UnusedInv' /\ NoLostThread' /\
       FreedConnIsQuiet' /\ PrincipalAllocated'
  BY DEF TypeOK, Threads, MemoryInv, RunningInv, UnusedInv, NoLostThread,
     FreedConnIsQuiet, PrincipalAllocated, Exiting
<1>4. CancelInv' /\ LeavingInv' /\ PlayerInv' /\ ExitInv'
  BY DEF TypeOK, Threads, CancelInv, LeavingInv, PlayerInv, ExitInv, Leaving,
     Exiting
<1> QED BY <1>1, <1>2, <1>3, <1>4 DEF Inv

\* A remote control does not touch the player.
LEMMA SetupRCKeeps ==
  ASSUME Inv, NEW c \in Conns, SetupRC(c)
  PROVE  Inv'
<1> USE ConstantsAssumption DEF Inv, SetupRC, Receive, Goto, sessionVars,
      tableVars
<1>1. TypeOK'
  BY DEF TypeOK, Threads, ConversationPCs, ListenerPCs, RemotePCs
<1>2. LockInv' /\ TargetInv'
  BY DEF TypeOK, Threads, LockInv, TargetInv
<1>3. MemoryInv' /\ RunningInv' /\ UnusedInv' /\ NoLostThread' /\
       FreedConnIsQuiet' /\ PrincipalAllocated'
  BY DEF TypeOK, Threads, MemoryInv, RunningInv, UnusedInv, NoLostThread,
     FreedConnIsQuiet, PrincipalAllocated, Exiting
<1>4. CancelInv' /\ LeavingInv' /\ PlayerInv' /\ ExitInv'
  BY DEF TypeOK, Threads, CancelInv, LeavingInv, PlayerInv, ExitInv, Leaving,
     Exiting
<1> QED BY <1>1, <1>2, <1>3, <1>4 DEF Inv

\* A player thread is begun, or stopped to be begun again.
LEMMA SetupStreamsKeeps ==
  ASSUME Inv, NEW c \in Conns, SetupStreams(c)
  PROVE  Inv'
<1> USE ConstantsAssumption DEF Inv, SetupStreams, Receive, StopPlayer, Goto,
      sessionVars, tableVars
<1>1. TypeOK'
  BY DEF TypeOK, Threads, ConversationPCs, ListenerPCs, RemotePCs
<1>2. LockInv' /\ TargetInv'
  BY DEF TypeOK, Threads, LockInv, TargetInv
<1>3. MemoryInv' /\ RunningInv' /\ UnusedInv' /\ NoLostThread' /\
       FreedConnIsQuiet' /\ PrincipalAllocated'
  BY DEF TypeOK, Threads, MemoryInv, RunningInv, UnusedInv, NoLostThread,
     FreedConnIsQuiet, PrincipalAllocated, Exiting
<1>4. CancelInv' /\ LeavingInv' /\ PlayerInv' /\ ExitInv'
  BY DEF TypeOK, Threads, CancelInv, LeavingInv, PlayerInv, ExitInv, Leaving,
     Exiting
<1> QED BY <1>1, <1>2, <1>3, <1>4 DEF Inv

\* player_stop is entered only with a player to stop.
LEMMA TeardownStreamsKeeps ==
  ASSUME Inv, NEW c \in Conns, TeardownStreams(c)
  PROVE  Inv'
<1> USE ConstantsAssumption DEF Inv, TeardownStreams, Receive, StopPlayer,
      Goto, sessionVars, tableVars
<1>1. TypeOK'
  BY DEF TypeOK, Threads, ConversationPCs, ListenerPCs, RemotePCs
<1>2. LockInv' /\ TargetInv'
  BY DEF TypeOK, Threads, LockInv, TargetInv
<1>3. MemoryInv' /\ RunningInv' /\ UnusedInv' /\ NoLostThread' /\
       FreedConnIsQuiet' /\ PrincipalAllocated'
  BY DEF TypeOK, Threads, MemoryInv, RunningInv, UnusedInv, NoLostThread,
     FreedConnIsQuiet, PrincipalAllocated, Exiting
<1>4. CancelInv' /\ LeavingInv' /\ PlayerInv' /\ ExitInv'
  BY DEF TypeOK, Threads, CancelInv, LeavingInv, PlayerInv, ExitInv, Leaving,
     Exiting
<1> QED BY <1>1, <1>2, <1>3, <1>4 DEF Inv

\* player_stop is entered only with a player to stop.
LEMMA TeardownKeeps ==
  ASSUME Inv, NEW c \in Conns, Teardown(c)
  PROVE  Inv'
<1> USE ConstantsAssumption DEF Inv, Teardown, Receive, StopPlayer, Goto,
      sessionVars, tableVars
<1>1. TypeOK'
  BY DEF TypeOK, Threads, ConversationPCs, ListenerPCs, RemotePCs
<1>2. LockInv' /\ TargetInv'
  BY DEF TypeOK, Threads, LockInv, TargetInv
<1>3. MemoryInv' /\ RunningInv' /\ UnusedInv' /\ NoLostThread' /\
       FreedConnIsQuiet' /\ PrincipalAllocated'
  BY DEF TypeOK, Threads, MemoryInv, RunningInv, UnusedInv, NoLostThread,
     FreedConnIsQuiet, PrincipalAllocated, Exiting
<1>4. CancelInv' /\ LeavingInv' /\ PlayerInv' /\ ExitInv'
  BY DEF TypeOK, Threads, CancelInv, LeavingInv, PlayerInv, ExitInv, Leaving,
     Exiting
<1> QED BY <1>1, <1>2, <1>3, <1>4 DEF Inv

\* The thread goes on to wait for principal_conn_lock, and holds no lock yet.
LEMMA AnnounceKeeps ==
  ASSUME Inv, NEW c \in Conns, Announce(c)
  PROVE  Inv'
<1> USE ConstantsAssumption DEF Inv, Announce, Receive, Goto, sessionVars,
      tableVars
<1>1. TypeOK'
  BY DEF TypeOK, Threads, ConversationPCs, ListenerPCs, RemotePCs
<1>2. LockInv' /\ TargetInv'
  BY DEF TypeOK, Threads, LockInv, TargetInv
<1>3. MemoryInv' /\ RunningInv' /\ UnusedInv' /\ NoLostThread' /\
       FreedConnIsQuiet' /\ PrincipalAllocated'
  BY DEF TypeOK, Threads, MemoryInv, RunningInv, UnusedInv, NoLostThread,
     FreedConnIsQuiet, PrincipalAllocated, Exiting
<1>4. CancelInv' /\ LeavingInv' /\ PlayerInv' /\ ExitInv'
  BY DEF TypeOK, Threads, CancelInv, LeavingInv, PlayerInv, ExitInv, Leaving,
     Exiting
<1> QED BY <1>1, <1>2, <1>3, <1>4 DEF Inv

\* principal_conn is only read.
LEMMA SetupClassicKeeps ==
  ASSUME Inv, NEW c \in Conns, SetupClassic(c)
  PROVE  Inv'
<1> USE ConstantsAssumption DEF Inv, SetupClassic, Receive, Goto, sessionVars,
      tableVars
<1>1. TypeOK'
  BY DEF TypeOK, Threads, ConversationPCs, ListenerPCs, RemotePCs
<1>2. LockInv' /\ TargetInv'
  BY DEF TypeOK, Threads, LockInv, TargetInv
<1>3. MemoryInv' /\ RunningInv' /\ UnusedInv' /\ NoLostThread' /\
       FreedConnIsQuiet' /\ PrincipalAllocated'
  BY DEF TypeOK, Threads, MemoryInv, RunningInv, UnusedInv, NoLostThread,
     FreedConnIsQuiet, PrincipalAllocated, Exiting
<1>4. CancelInv' /\ LeavingInv' /\ PlayerInv' /\ ExitInv'
  BY DEF TypeOK, Threads, CancelInv, LeavingInv, PlayerInv, ExitInv, Leaving,
     Exiting
<1> QED BY <1>1, <1>2, <1>3, <1>4 DEF Inv

\* A player thread is begun only where there is none.
LEMMA RecordKeeps ==
  ASSUME Inv, NEW c \in Conns, Record(c)
  PROVE  Inv'
<1> USE ConstantsAssumption DEF Inv, Record, Receive, Goto, sessionVars,
      tableVars
<1>1. TypeOK'
  BY DEF TypeOK, Threads, ConversationPCs, ListenerPCs, RemotePCs
<1>2. LockInv' /\ TargetInv'
  BY DEF TypeOK, Threads, LockInv, TargetInv
<1>3. MemoryInv' /\ RunningInv' /\ UnusedInv' /\ NoLostThread' /\
       FreedConnIsQuiet' /\ PrincipalAllocated'
  BY DEF TypeOK, Threads, MemoryInv, RunningInv, UnusedInv, NoLostThread,
     FreedConnIsQuiet, PrincipalAllocated, Exiting
<1>4. CancelInv' /\ LeavingInv' /\ PlayerInv' /\ ExitInv'
  BY DEF TypeOK, Threads, CancelInv, LeavingInv, PlayerInv, ExitInv, Leaving,
     Exiting
<1> QED BY <1>1, <1>2, <1>3, <1>4 DEF Inv

\* The thread goes on to wait for principal_conn_lock, and holds no lock yet.
LEMMA FeedbackKeeps ==
  ASSUME Inv, NEW c \in Conns, Feedback(c)
  PROVE  Inv'
<1> USE ConstantsAssumption DEF Inv, Feedback, Receive, Goto, sessionVars,
      tableVars
<1>1. TypeOK'
  BY DEF TypeOK, Threads, ConversationPCs, ListenerPCs, RemotePCs
<1>2. LockInv' /\ TargetInv'
  BY DEF TypeOK, Threads, LockInv, TargetInv
<1>3. MemoryInv' /\ RunningInv' /\ UnusedInv' /\ NoLostThread' /\
       FreedConnIsQuiet' /\ PrincipalAllocated'
  BY DEF TypeOK, Threads, MemoryInv, RunningInv, UnusedInv, NoLostThread,
     FreedConnIsQuiet, PrincipalAllocated, Exiting
<1>4. CancelInv' /\ LeavingInv' /\ PlayerInv' /\ ExitInv'
  BY DEF TypeOK, Threads, CancelInv, LeavingInv, PlayerInv, ExitInv, Leaving,
     Exiting
<1> QED BY <1>1, <1>2, <1>3, <1>4 DEF Inv

\* The read lock is let go within the step.
LEMMA ConsultKeeps ==
  ASSUME Inv, NEW c \in Conns, Consult(c)
  PROVE  Inv'
<1> USE ConstantsAssumption DEF Inv, Consult, Goto, sessionVars, tableVars
<1>1. TypeOK'
  BY DEF TypeOK, Threads, ConversationPCs, ListenerPCs, RemotePCs
<1>2. LockInv' /\ TargetInv'
  BY DEF TypeOK, Threads, LockInv, TargetInv
<1>3. MemoryInv' /\ RunningInv' /\ UnusedInv' /\ NoLostThread' /\
       FreedConnIsQuiet' /\ PrincipalAllocated'
  BY DEF TypeOK, Threads, MemoryInv, RunningInv, UnusedInv, NoLostThread,
     FreedConnIsQuiet, PrincipalAllocated, Exiting
<1>4. CancelInv' /\ LeavingInv' /\ PlayerInv' /\ ExitInv'
  BY DEF TypeOK, Threads, CancelInv, LeavingInv, PlayerInv, ExitInv, Leaving,
     Exiting
<1> QED BY <1>1, <1>2, <1>3, <1>4 DEF Inv

\* A thread cancelled while it replies holds neither lock.
LEMMA ReplyKeeps ==
  ASSUME Inv, NEW c \in Conns, Reply(c)
  PROVE  Inv'
<1> USE ConstantsAssumption DEF Inv, Reply, ActOnCancel, Goto, sessionVars,
      tableVars
<1>1. TypeOK'
  BY DEF TypeOK, Threads, ConversationPCs, ListenerPCs, RemotePCs
<1>2. LockInv' /\ TargetInv'
  BY DEF TypeOK, Threads, LockInv, TargetInv
<1>3. MemoryInv' /\ RunningInv' /\ UnusedInv' /\ NoLostThread' /\
       FreedConnIsQuiet' /\ PrincipalAllocated'
  BY DEF TypeOK, Threads, MemoryInv, RunningInv, UnusedInv, NoLostThread,
     FreedConnIsQuiet, PrincipalAllocated, Exiting
<1>4. CancelInv' /\ LeavingInv' /\ PlayerInv' /\ ExitInv'
  BY DEF TypeOK, Threads, LockInv, TargetInv, CancelInv, LeavingInv,
     PlayerInv, ExitInv, Leaving, Exiting
<1> QED BY <1>1, <1>2, <1>3, <1>4 DEF Inv

\* A thread cancelled while it joins its player leaves it stopping.
LEMMA JoinPlayerKeeps ==
  ASSUME Inv, NEW c \in Conns, JoinPlayer(c)
  PROVE  Inv'
<1> USE ConstantsAssumption DEF Inv, JoinPlayer, ActOnCancel, Goto,
      sessionVars, tableVars
<1>1. TypeOK'
  BY DEF TypeOK, Threads, ConversationPCs, ListenerPCs, RemotePCs
<1>2. LockInv' /\ TargetInv'
  BY DEF TypeOK, Threads, LockInv, TargetInv
<1>3. MemoryInv' /\ RunningInv' /\ UnusedInv' /\ NoLostThread' /\
       FreedConnIsQuiet' /\ PrincipalAllocated'
  BY DEF TypeOK, Threads, MemoryInv, RunningInv, UnusedInv, NoLostThread,
     FreedConnIsQuiet, PrincipalAllocated, Exiting
<1>4. CancelInv' /\ LeavingInv' /\ PlayerInv' /\ ExitInv'
  BY DEF TypeOK, Threads, LockInv, TargetInv, CancelInv, LeavingInv,
     PlayerInv, ExitInv, Leaving, Exiting
<1> QED BY <1>1, <1>2, <1>3, <1>4 DEF Inv

\* A player thread ends by itself.
LEMMA PlayerEndsKeeps ==
  ASSUME Inv, NEW c \in Conns, PlayerEnds(c)
  PROVE  Inv'
<1> USE ConstantsAssumption DEF Inv, PlayerEnds, Goto, sessionVars, tableVars
<1>1. TypeOK'
  BY DEF TypeOK, Threads, ConversationPCs, ListenerPCs, RemotePCs
<1>2. LockInv' /\ TargetInv'
  BY DEF TypeOK, Threads, LockInv, TargetInv
<1>3. MemoryInv' /\ RunningInv' /\ UnusedInv' /\ NoLostThread' /\
       FreedConnIsQuiet' /\ PrincipalAllocated'
  BY DEF TypeOK, Threads, MemoryInv, RunningInv, UnusedInv, NoLostThread,
     FreedConnIsQuiet, PrincipalAllocated, Exiting
<1>4. CancelInv' /\ LeavingInv' /\ PlayerInv' /\ ExitInv'
  BY DEF TypeOK, Threads, CancelInv, LeavingInv, PlayerInv, ExitInv, Leaving,
     Exiting
<1> QED BY <1>1, <1>2, <1>3, <1>4 DEF Inv

\* A thread that breaks in is principal_conn before it terminates the loser.
LEMMA GetPlayLockKeeps ==
  ASSUME Inv, NEW c \in Conns, GetPlayLock(c)
  PROVE  Inv'
<1> USE ConstantsAssumption DEF Inv, GetPlayLock, Goto, sessionVars, tableVars
<1>1. TypeOK'
  BY DEF TypeOK, Threads, ConversationPCs, ListenerPCs, RemotePCs
<1>2. LockInv' /\ TargetInv'
  BY DEF TypeOK, Threads, LockInv, TargetInv
<1>3. MemoryInv' /\ RunningInv' /\ UnusedInv' /\ NoLostThread' /\
       FreedConnIsQuiet' /\ PrincipalAllocated'
  BY DEF TypeOK, Threads, MemoryInv, RunningInv, UnusedInv, NoLostThread,
     FreedConnIsQuiet, PrincipalAllocated, Exiting
<1>4. CancelInv' /\ LeavingInv' /\ PlayerInv' /\ ExitInv'
  BY DEF TypeOK, Threads, LockInv, CancelInv, LeavingInv, PlayerInv, ExitInv,
     Leaving, Exiting
<1> QED BY <1>1, <1>2, <1>3, <1>4 DEF Inv

\* A thread that leaves its loop does so without being principal_conn.
LEMMA ReleasePlayLockKeeps ==
  ASSUME Inv, NEW c \in Conns, ReleasePlayLock(c)
  PROVE  Inv'
<1> USE ConstantsAssumption DEF Inv, ReleasePlayLock, Released, Goto,
      sessionVars, tableVars
<1>1. TypeOK'
  BY DEF TypeOK, Threads, ConversationPCs, ListenerPCs, RemotePCs
<1>2. LockInv' /\ TargetInv'
  BY DEF TypeOK, Threads, LockInv, TargetInv
<1>3. MemoryInv' /\ RunningInv' /\ UnusedInv' /\ NoLostThread' /\
       FreedConnIsQuiet' /\ PrincipalAllocated'
  BY DEF TypeOK, Threads, MemoryInv, RunningInv, UnusedInv, NoLostThread,
     FreedConnIsQuiet, PrincipalAllocated, Exiting
<1>4. CancelInv' /\ LeavingInv' /\ PlayerInv' /\ ExitInv'
  BY DEF TypeOK, Threads, CancelInv, LeavingInv, PlayerInv, ExitInv, Leaving,
     Exiting
<1> QED BY <1>1, <1>2, <1>3, <1>4 DEF Inv

\* principal_conn is the connection to be terminated.
LEMMA StopPlayKeeps ==
  ASSUME Inv, StopPlay
  PROVE  Inv'
<1> USE ConstantsAssumption DEF Inv, StopPlay, Goto, sessionVars, tableVars
<1>1. TypeOK'
  BY DEF TypeOK, Threads, ConversationPCs, ListenerPCs, RemotePCs
<1>2. LockInv' /\ TargetInv'
  BY DEF TypeOK, Threads, LockInv, TargetInv
<1>3. MemoryInv' /\ RunningInv' /\ UnusedInv' /\ NoLostThread' /\
       FreedConnIsQuiet' /\ PrincipalAllocated'
  BY DEF TypeOK, Threads, MemoryInv, RunningInv, UnusedInv, NoLostThread,
     FreedConnIsQuiet, PrincipalAllocated, Exiting
<1>4. CancelInv' /\ LeavingInv' /\ PlayerInv' /\ ExitInv'
  BY DEF TypeOK, Threads, LockInv, CancelInv, LeavingInv, PlayerInv, ExitInv,
     Leaving, Exiting
<1> QED BY <1>1, <1>2, <1>3, <1>4 DEF Inv

\* A thread is cancelled under conns_lock, by the holder of principal_conn_lock.
LEMMA TerminateConnKeeps ==
  ASSUME Inv, NEW t \in Conns \union {Remote}, TerminateConn(t)
  PROVE  Inv'
<1> USE ConstantsAssumption DEF Inv, TerminateConn, AfterTerminate, Goto,
      sessionVars, tableVars
<1>1. TypeOK'
  <2> USE DEF TypeOK, Threads
  <2>1. t \in Threads /\ t /= Listener
    OBVIOUS
  <2>2. target[t] \in Conns
    OBVIOUS
  <2>3. pc' \in [Threads -> ConversationPCs \union ListenerPCs \union RemotePCs]
    BY <2>1 DEF ConversationPCs, RemotePCs
  <2>4. /\ \A c \in Conns : pc'[c] \in ConversationPCs
        /\ pc'[Listener] \in ListenerPCs
        /\ pc'[Remote] \in RemotePCs
    BY <2>1 DEF ConversationPCs, RemotePCs
  <2>5. writer' \in Conns \union {Remote, None}
    OBVIOUS
  <2>6. connsLock' \in Threads \union {None}
    BY <2>1
  <2>7. cancelled' \in [Conns -> BOOLEAN]
    <3>1. \/ cancelled' = cancelled
          \/ cancelled' = [cancelled EXCEPT ![target[t]] = TRUE]
      OBVIOUS
    <3> QED
      BY <3>1, <2>2
  <2>8. target' \in [Threads -> Conns \union {None}]
    BY <2>1
  <2>9. \A u \in Threads :
          pc'[u] \in {"terminate", "join", "created", "track"} => target'[u] \in Conns
    BY <2>1, <2>2
  <2> QED
    BY <2>3, <2>4, <2>5, <2>6, <2>7, <2>8, <2>9
<1>2. LockInv' /\ TargetInv'
  BY DEF TypeOK, Threads, LockInv, TargetInv
<1>3. MemoryInv' /\ RunningInv' /\ UnusedInv' /\ NoLostThread' /\
       FreedConnIsQuiet' /\ PrincipalAllocated'
  BY DEF TypeOK, Threads, MemoryInv, RunningInv, UnusedInv, NoLostThread,
     FreedConnIsQuiet, PrincipalAllocated, Exiting
<1>4. CancelInv' /\ LeavingInv' /\ PlayerInv' /\ ExitInv'
  BY DEF TypeOK, Threads, TargetInv, CancelInv, LeavingInv, PlayerInv,
     ExitInv, Leaving, Exiting
<1> QED BY <1>1, <1>2, <1>3, <1>4 DEF Inv

\* A joining thread is not cancelled itself: that takes conns_lock, which it holds.
LEMMA JoinConnKeeps ==
  ASSUME Inv, NEW t \in Conns \union {Remote}, JoinConn(t)
  PROVE  Inv'
<1> USE ConstantsAssumption DEF Inv, JoinConn, AfterTerminate, ActOnCancel,
      Goto, sessionVars, tableVars
<1>1. TypeOK'
  BY DEF TypeOK, Threads, ConversationPCs, ListenerPCs, RemotePCs
<1>2. LockInv' /\ TargetInv'
  BY DEF TypeOK, Threads, LockInv, TargetInv, UnusedInv, CancelInv, ExitInv,
     NoLostThread, Exiting
<1>3. MemoryInv' /\ RunningInv' /\ UnusedInv' /\ NoLostThread' /\
       FreedConnIsQuiet' /\ PrincipalAllocated'
  BY DEF TypeOK, Threads, MemoryInv, RunningInv, UnusedInv, NoLostThread,
     FreedConnIsQuiet, PrincipalAllocated, Exiting
<1>4. CancelInv' /\ LeavingInv' /\ PlayerInv' /\ ExitInv'
  BY DEF TypeOK, Threads, LockInv, TargetInv, CancelInv, LeavingInv,
     PlayerInv, ExitInv, Leaving, Exiting
<1> QED BY <1>1, <1>2, <1>3, <1>4 DEF Inv

\* stop_play clears principal_conn.
LEMMA ForgetPrincipalKeeps ==
  ASSUME Inv, ForgetPrincipal
  PROVE  Inv'
<1> USE ConstantsAssumption DEF Inv, ForgetPrincipal, Goto, sessionVars,
      tableVars
<1>1. TypeOK'
  BY DEF TypeOK, Threads, ConversationPCs, ListenerPCs, RemotePCs
<1>2. LockInv' /\ TargetInv'
  BY DEF TypeOK, Threads, LockInv, TargetInv
<1>3. MemoryInv' /\ RunningInv' /\ UnusedInv' /\ NoLostThread' /\
       FreedConnIsQuiet' /\ PrincipalAllocated'
  BY DEF TypeOK, Threads, MemoryInv, RunningInv, UnusedInv, NoLostThread,
     FreedConnIsQuiet, PrincipalAllocated, Exiting
<1>4. CancelInv' /\ LeavingInv' /\ PlayerInv' /\ ExitInv'
  BY DEF TypeOK, Threads, CancelInv, LeavingInv, PlayerInv, ExitInv, Leaving,
     Exiting
<1> QED BY <1>1, <1>2, <1>3, <1>4 DEF Inv

\* A player still running is stopped before running is cleared.
LEMMA CleanupKeeps ==
  ASSUME Inv, NEW c \in Conns, Cleanup(c)
  PROVE  Inv'
<1> USE ConstantsAssumption DEF Inv, Cleanup, Finish, StopPlayer, Goto,
      sessionVars, tableVars
<1>1. TypeOK'
  <2> USE DEF TypeOK, Threads
  <2>1. pc' \in [Threads -> ConversationPCs \union ListenerPCs \union RemotePCs]
    BY DEF ConversationPCs
  <2>2. /\ \A d \in Conns : pc'[d] \in ConversationPCs
        /\ pc'[Listener] \in ListenerPCs
        /\ pc'[Remote] \in RemotePCs
    BY DEF ConversationPCs
  <2>3. running' \in [Conns -> BOOLEAN]
    <3>1. running' = running \/ running' = [running EXCEPT ![c] = FALSE]
      OBVIOUS
    <3> QED
      BY <3>1
  <2>4. player' \in [Conns -> {"none", "running", "stopping"}]
    OBVIOUS
  <2>5. \A u \in Threads :
          pc'[u] \in {"terminate", "join", "created", "track"} => target[u] \in Conns
    OBVIOUS
  <2> QED
    BY <2>1, <2>2, <2>3, <2>4, <2>5
<1>2. LockInv' /\ TargetInv'
  BY DEF TypeOK, Threads, LockInv, TargetInv
<1>3. MemoryInv' /\ RunningInv' /\ UnusedInv' /\ NoLostThread' /\
       FreedConnIsQuiet' /\ PrincipalAllocated'
  BY DEF TypeOK, Threads, MemoryInv, RunningInv, UnusedInv, NoLostThread,
     FreedConnIsQuiet, PrincipalAllocated, Exiting
<1>4. CancelInv' /\ LeavingInv' /\ PlayerInv' /\ ExitInv'
  BY DEF TypeOK, Threads, CancelInv, LeavingInv, PlayerInv, ExitInv, Leaving,
     Exiting
<1> QED BY <1>1, <1>2, <1>3, <1>4 DEF Inv

\* The player thread is over.
LEMMA CleanupJoinedKeeps ==
  ASSUME Inv, NEW c \in Conns, CleanupJoined(c)
  PROVE  Inv'
<1> USE ConstantsAssumption DEF Inv, CleanupJoined, Finish, Goto, sessionVars,
      tableVars
<1>1. TypeOK'
  BY DEF TypeOK, Threads, ConversationPCs, ListenerPCs, RemotePCs
<1>2. LockInv' /\ TargetInv'
  BY DEF TypeOK, Threads, LockInv, TargetInv
<1>3. MemoryInv' /\ RunningInv' /\ UnusedInv' /\ NoLostThread' /\
       FreedConnIsQuiet' /\ PrincipalAllocated'
  BY DEF TypeOK, Threads, MemoryInv, RunningInv, UnusedInv, NoLostThread,
     FreedConnIsQuiet, PrincipalAllocated, Exiting
<1>4. CancelInv' /\ LeavingInv' /\ PlayerInv' /\ ExitInv'
  BY DEF TypeOK, Threads, CancelInv, LeavingInv, PlayerInv, ExitInv, Leaving,
     Exiting
<1> QED BY <1>1, <1>2, <1>3, <1>4 DEF Inv

-----------------------------------------------------------------------------
(***************************************************************************)
(* The invariant holds initially and is kept by every step.                *)
(***************************************************************************)

\* No thread exists yet but the listen loop and the remote control's.
LEMMA InitInv == Init => Inv
<1> SUFFICES ASSUME Init
             PROVE  Inv
  OBVIOUS
<1> USE ConstantsAssumption DEF Init, Threads
<1>1. \A c \in Conns : pc[c] = "none"
  OBVIOUS
<1>2. pc[Listener] = "select" /\ pc[Remote] = "idle"
  OBVIOUS
<1>3. TypeOK
  BY <1>1, <1>2 DEF TypeOK, ConversationPCs, ListenerPCs, RemotePCs
<1>4. LockInv /\ TargetInv
  BY <1>1, <1>2 DEF LockInv, TargetInv
<1>5. MemoryInv /\ RunningInv /\ UnusedInv /\ PrincipalAllocated
  BY <1>1, <1>2 DEF MemoryInv, RunningInv, UnusedInv, PrincipalAllocated
<1>6. CancelInv /\ LeavingInv /\ PlayerInv /\ ExitInv
  BY <1>1, <1>2 DEF CancelInv, LeavingInv, PlayerInv, ExitInv, Leaving
<1>7. NoLostThread /\ FreedConnIsQuiet
  BY <1>1, <1>2 DEF NoLostThread, FreedConnIsQuiet
<1> QED
  BY <1>3, <1>4, <1>5, <1>6, <1>7 DEF Inv

\* The listen loop, its cleanup handler included, keeps the invariant.
LEMMA ListenerStepKeeps ==
  ASSUME Inv, ListenerStep
  PROVE  Inv'
BY CleanupThreadsKeeps, SelectTimeoutKeeps, SetRunningKeeps, TrackThreadKeeps,
   CancelAllKeeps, AllJoinedKeeps, JoinOneKeeps DEF ListenerStep

\* The rest of stop_play keeps the invariant.
LEMMA RemoteStepKeeps ==
  ASSUME Inv, RemoteStep
  PROVE  Inv'
BY TerminateConnKeeps, JoinConnKeeps, ForgetPrincipalKeeps DEF RemoteStep

\* What clients do, and the handlers of their requests, keep the invariant.
LEMMA EnvironmentKeeps ==
  ASSUME Inv, NEW c \in Conns, Environment(c)
  PROVE  Inv'
BY AcceptKeeps, ChannelClosedKeeps, SetupPTPKeeps, SetupRCKeeps,
   SetupStreamsKeeps, TeardownStreamsKeeps, TeardownKeeps, AnnounceKeeps,
   SetupClassicKeeps, RecordKeeps, FeedbackKeeps
   DEF Environment, HandleRequest

\* What a conversation thread does of its own accord keeps the invariant.
LEMMA ConversationStepKeeps ==
  ASSUME Inv, NEW c \in Conns, ConversationStep(c)
  PROVE  Inv'
BY LoopTopKeeps, ScanConnsKeeps, CancelReadKeeps, ConsultKeeps, ReplyKeeps,
   JoinPlayerKeeps, GetPlayLockKeeps, TerminateConnKeeps, JoinConnKeeps,
   ReleasePlayLockKeeps, CleanupKeeps, CleanupJoinedKeeps
   DEF ConversationStep

\* A step that changes nothing keeps the invariant.
LEMMA StutterKeeps ==
  ASSUME Inv, UNCHANGED vars
  PROVE  Inv'
<1> USE DEF vars, sessionVars, tableVars, Inv
<1>1. TypeOK' /\ LockInv' /\ TargetInv'
  BY DEF TypeOK, LockInv, TargetInv
<1>2. MemoryInv' /\ RunningInv' /\ UnusedInv' /\ NoLostThread' /\
       FreedConnIsQuiet' /\ PrincipalAllocated'
  BY DEF MemoryInv, RunningInv, UnusedInv, NoLostThread, FreedConnIsQuiet,
     PrincipalAllocated, Exiting
<1>3. CancelInv' /\ LeavingInv' /\ PlayerInv' /\ ExitInv'
  BY DEF CancelInv, LeavingInv, PlayerInv, ExitInv, Leaving, Exiting
<1> QED BY <1>1, <1>2, <1>3 DEF Inv

\* Every step keeps the invariant.
LEMMA NextInv == Inv /\ [Next]_vars => Inv'
<1> SUFFICES ASSUME Inv, [Next]_vars
             PROVE  Inv'
  OBVIOUS
<1>1. CASE ListenerStep
  BY <1>1, ListenerStepKeeps
<1>2. CASE ExitRequested
  BY <1>2, ExitRequestedKeeps
<1>3. CASE StopPlay
  BY <1>3, StopPlayKeeps
<1>4. CASE RemoteStep
  BY <1>4, RemoteStepKeeps
<1>5. CASE \E c \in Conns : Environment(c)
  BY <1>5, EnvironmentKeeps
<1>6. CASE \E c \in Conns : ConversationStep(c)
  BY <1>6, ConversationStepKeeps
<1>7. CASE \E c \in Conns : PlayerEnds(c)
  BY <1>7, PlayerEndsKeeps
<1>8. CASE UNCHANGED vars
  BY <1>8, StutterKeeps
<1> QED
  BY <1>1, <1>2, <1>3, <1>4, <1>5, <1>6, <1>7, <1>8 DEF Next

\* The invariant holds in every reachable state.
LEMMA Invariance == Spec => []Inv
<1>1. Init => Inv
  BY InitInv
<1>2. Inv /\ [Next]_vars => Inv'
  BY NextInv
<1> QED
  BY <1>1, <1>2, PTL DEF Spec

-----------------------------------------------------------------------------
(***************************************************************************)
(* Theorems                                                                *)
(***************************************************************************)

\* Every variable keeps to its type; in particular terminate_conn is never
\* called for NULL.
THEOREM TypeCorrect == Spec => []TypeOK
<1>1. Inv => TypeOK
  BY DEF Inv
<1> QED
  BY <1>1, Invariance, PTL

\* principal_conn never dangles: until the program exits it is NULL or points
\* to an allocated connection, whose thread is not leaving unless stop_play has
\* the lock and is about to clear it.
THEOREM PrincipalNeverDangles == Spec => []PrincipalAlive
<1>1. Inv => PrincipalAlive
  <2> SUFFICES ASSUME Inv, ~Exiting, principal /= None
               PROVE  /\ memory[principal] = "allocated"
                      /\ Leaving(principal) => writer = Remote
    BY DEF PrincipalAlive
  <2>1. principal \in Conns
    BY DEF Inv, TypeOK
  <2>2. memory[principal] = "allocated"
    BY DEF Inv, PrincipalAllocated
  <2>3. Leaving(principal) => writer = Remote
    BY <2>1 DEF Inv, LeavingInv
  <2> QED
    BY <2>2, <2>3
<1> QED
  BY <1>1, Invariance, PTL

\* No cancellation and no return of a conversation thread leaves conns_lock or
\* principal_conn_lock locked: a thread that has reached its cleanup function
\* holds neither.
THEOREM LocksNotLeaked == Spec => []NoLockLeaked
<1>1. Inv => NoLockLeaked
  BY DEF Inv, LockInv, NoLockLeaked, Leaving
<1> QED
  BY <1>1, Invariance, PTL

\* Every conversation thread that exists is in the table, or is about to be.
THEOREM ThreadsNotLost == Spec => []NoLostThread
<1>1. Inv => NoLostThread
  BY DEF Inv
<1> QED
  BY <1>1, Invariance, PTL

\* A connection that has been freed has no thread, no player thread and no
\* place in the table.
THEOREM FreedIsQuiet == Spec => []FreedConnIsQuiet
<1>1. Inv => FreedConnIsQuiet
  BY DEF Inv
<1> QED
  BY <1>1, Invariance, PTL

\* Nothing that is referred to has been freed: principal_conn does not dangle, and
\* no thread and no place in the table outlives a connection.
THEOREM ConnectionsNotFreed == Spec => []ConnectionsKept
<1> QED
  BY PrincipalNeverDangles, FreedIsQuiet, PTL DEF ConnectionsKept

\* No lock is kept by a thread that ends, and no thread that lives is forgotten.
THEOREM NothingIsLost == Spec => []NothingLost
<1> QED
  BY LocksNotLeaked, ThreadsNotLost, PTL DEF NothingLost

-----------------------------------------------------------------------------
(***************************************************************************)
(* The abstract session, and players without the play lock.  Both take a   *)
(* client whose first request comes after its connection has been put in   *)
(* the table (TrackFirst): terminate_conn looks only there.                *)
(***************************************************************************)

\* A connection whose first request comes after track_thread is in the table
\* for as long as its thread serves requests, is principal_conn, or is the one
\* a thread is about to terminate: terminate_conn finds it, or it is over.
TrackInv ==
  /\ \A c \in Conns :
       /\ pc[c] \notin {"none", "top", "done"} => c \in conns
       /\ principal = c => c \in conns \/ pc[c] = "done"
  /\ \A t \in Conns \union {Remote} : pc[t] = "terminate" =>
       target[t] \in conns \/ pc[target[t]] = "done"

\* A Classic connection never becomes an AirPlay 2 one; only a PTP connection
\* starts a player in SETUP, and only a Classic one lets go in SETUP.
CategoryInv ==
  \A c \in Conns :
    /\ pc[c] = "none" => category[c] = "unspecified"
    /\ pc[c] = "releaseSetup" => category[c] = "classic"
    /\ pc[c] = "joinSetup" => category[c] = "ptp"

\* What stop_play is about to forget is over.
ForgetInv ==
  pc[Remote] = "forget" /\ principal /= None => pc[principal] = "done"

\* An AirPlay 2 connection that has a player, or may start one without looking
\* at principal_conn: it has set up its timing and has been given the play lock.
HasPlayer(c) ==
  /\ category[c] /= "classic"
  /\ player[c] /= "none" \/ (category[c] = "ptp" /\ pc[c] /= "acquire")

\* Such a connection is principal_conn, unless its session is over.
OwnerInv == \A c \in Conns : HasPlayer(c) => principal = c \/ c \in Ended

\* The invariant of the session.
SessionInv == TrackInv /\ CategoryInv /\ ForgetInv /\ OwnerInv

\* A connection leaves the table only when its thread is over.
LEMMA TrackKeeps ==
  ASSUME TrackFirst, Inv, TrackInv, Next
  PROVE  TrackInv'
<1> USE ConstantsAssumption DEF Inv, TrackInv, TypeOK, Threads, Goto,
       sessionVars, tableVars
<1>1. CASE \/ CleanupThreads \/ SelectTimeout \/ SetRunning \/ TrackThread
           \/ CancelAll \/ AllJoined \/ ExitRequested
  BY <1>1 DEF CleanupThreads, SelectTimeout, SetRunning, TrackThread, Tracked,
     CancelAll, AllJoined, ExitRequested
<1>2. ASSUME NEW c \in Conns, JoinOne(c) PROVE TrackInv'
  BY <1>2 DEF JoinOne
<1>3. CASE StopPlay \/ ForgetPrincipal
  BY <1>3 DEF StopPlay, ForgetPrincipal
<1>4. ASSUME NEW t \in Conns \union {Remote}, TerminateConn(t) \/ JoinConn(t)
      PROVE  TrackInv'
  BY <1>4 DEF TerminateConn, JoinConn, ActOnCancel, AfterTerminate
<1>5. ASSUME NEW c \in Conns, Accept(c) PROVE TrackInv'
  BY <1>5 DEF Accept, UnusedInv
<1>6. ASSUME NEW c \in Conns, LoopTop(c) PROVE TrackInv'
  BY <1>6 DEF LoopTop, ActOnCancel
<1>7. ASSUME NEW c \in Conns, HandleRequest(c) PROVE TrackInv'
  BY <1>7 DEF HandleRequest, Receive, SetupPTP, SetupRC, SetupStreams,
     TeardownStreams, Teardown, Announce, SetupClassic, Record, Feedback
<1>8. ASSUME NEW c \in Conns, GetPlayLock(c) \/ ReleasePlayLock(c)
      PROVE  TrackInv'
  BY <1>8 DEF GetPlayLock, ReleasePlayLock, Released
<1>9. ASSUME NEW c \in Conns,
             \/ ChannelClosed(c) \/ ScanConns(c)
             \/ CancelRead(c) \/ Consult(c) \/ Reply(c) \/ JoinPlayer(c)
             \/ Cleanup(c) \/ CleanupJoined(c) \/ PlayerEnds(c)
      PROVE  TrackInv'
  BY <1>9 DEF ChannelClosed, ScanConns, CancelRead, Consult, Reply,
     JoinPlayer, ActOnCancel, Cleanup, Finish, CleanupJoined, PlayerEnds
<1> QED
  BY <1>1, <1>2, <1>3, <1>4, <1>5, <1>6, <1>7, <1>8, <1>9
     DEF Next, ListenerStep, RemoteStep, Environment, ConversationStep

\* The category changes only where the handlers of SETUP and ANNOUNCE set it.
LEMMA CategoryKeeps ==
  ASSUME Inv, CategoryInv, Next
  PROVE  CategoryInv'
<1> USE ConstantsAssumption DEF Inv, CategoryInv, TypeOK, Threads, Goto,
       sessionVars, tableVars
<1>1. CASE \/ CleanupThreads \/ SelectTimeout \/ SetRunning \/ TrackThread
           \/ CancelAll \/ AllJoined \/ ExitRequested
  BY <1>1 DEF CleanupThreads, SelectTimeout, SetRunning, TrackThread,
     CancelAll, AllJoined, ExitRequested
<1>2. ASSUME NEW c \in Conns, JoinOne(c) PROVE CategoryInv'
  BY <1>2 DEF JoinOne
<1>3. CASE StopPlay \/ ForgetPrincipal
  BY <1>3 DEF StopPlay, ForgetPrincipal
<1>4. ASSUME NEW t \in Conns \union {Remote}, TerminateConn(t) \/ JoinConn(t)
      PROVE  CategoryInv'
  BY <1>4 DEF TerminateConn, JoinConn, ActOnCancel, AfterTerminate
<1>5. ASSUME NEW c \in Conns, Accept(c) \/ LoopTop(c) PROVE CategoryInv'
  BY <1>5 DEF Accept, LoopTop, ActOnCancel
<1>6. ASSUME NEW c \in Conns, HandleRequest(c) PROVE CategoryInv'
  BY <1>6 DEF HandleRequest, Receive, AirPlay2, SetupPTP, SetupRC,
     SetupStreams, TeardownStreams, Teardown, Announce, SetupClassic, Record,
     Feedback
<1>7. ASSUME NEW c \in Conns,
             \/ GetPlayLock(c) \/ ReleasePlayLock(c)
             \/ ChannelClosed(c) \/ ScanConns(c)
             \/ CancelRead(c) \/ Consult(c) \/ Reply(c) \/ JoinPlayer(c)
             \/ Cleanup(c) \/ CleanupJoined(c) \/ PlayerEnds(c)
      PROVE  CategoryInv'
  BY <1>7 DEF GetPlayLock, ReleasePlayLock, ChannelClosed, ScanConns,
     CancelRead, Consult, Reply, JoinPlayer, ActOnCancel, Cleanup, Finish,
     CleanupJoined, PlayerEnds
<1> QED
  BY <1>1, <1>2, <1>3, <1>4, <1>5, <1>6, <1>7
     DEF Next, ListenerStep, RemoteStep, Environment, ConversationStep

\* Nobody takes principal_conn while stop_play has its lock.
LEMMA ForgetKeeps ==
  ASSUME Inv, TrackInv, ForgetInv, Next
  PROVE  ForgetInv'
<1> USE ConstantsAssumption DEF Inv, ForgetInv, TrackInv, LockInv, TargetInv,
       TypeOK, Threads, Goto, sessionVars, tableVars
<1>1. CASE \/ CleanupThreads \/ SelectTimeout \/ SetRunning \/ TrackThread
           \/ CancelAll \/ AllJoined \/ ExitRequested
  BY <1>1 DEF CleanupThreads, SelectTimeout, SetRunning, TrackThread,
     CancelAll, AllJoined, ExitRequested
<1>2. ASSUME NEW c \in Conns, JoinOne(c) PROVE ForgetInv'
  BY <1>2 DEF JoinOne
<1>3. CASE StopPlay \/ ForgetPrincipal
  BY <1>3 DEF StopPlay, ForgetPrincipal
<1>4. ASSUME NEW t \in Conns \union {Remote}, TerminateConn(t) \/ JoinConn(t)
      PROVE  ForgetInv'
  BY <1>4 DEF TerminateConn, JoinConn, ActOnCancel, AfterTerminate
<1>5. ASSUME NEW c \in Conns, Accept(c) \/ LoopTop(c) PROVE ForgetInv'
  BY <1>5 DEF Accept, LoopTop, ActOnCancel
<1>6. ASSUME NEW c \in Conns, HandleRequest(c) PROVE ForgetInv'
  BY <1>6 DEF HandleRequest, Receive, AirPlay2, SetupPTP, SetupRC,
     SetupStreams, TeardownStreams, Teardown, Announce, SetupClassic, Record,
     Feedback
<1>7. ASSUME NEW c \in Conns,
             \/ GetPlayLock(c) \/ ReleasePlayLock(c)
             \/ ChannelClosed(c) \/ ScanConns(c)
             \/ CancelRead(c) \/ Consult(c) \/ Reply(c) \/ JoinPlayer(c)
             \/ Cleanup(c) \/ CleanupJoined(c) \/ PlayerEnds(c)
      PROVE  ForgetInv'
  BY <1>7 DEF GetPlayLock, ReleasePlayLock, Released, ChannelClosed,
     ScanConns, CancelRead, Consult, Reply, JoinPlayer, ActOnCancel, Cleanup,
     Finish, CleanupJoined, PlayerEnds
<1> QED
  BY <1>1, <1>2, <1>3, <1>4, <1>5, <1>6, <1>7
     DEF Next, ListenerStep, RemoteStep, Environment, ConversationStep

\* A session that is over stays over: the connection a thread was going to
\* cancel is cancelled, or has been found to be over.
LEMMA EndedGrows ==
  ASSUME Inv, TrackInv, Next
  PROVE  Ended \subseteq Ended'
<1> USE ConstantsAssumption DEF Inv, Ended, Leaving, Doomed, TrackInv,
       TargetInv, TypeOK, Threads, Goto, sessionVars, tableVars
<1>1. CASE \/ CleanupThreads \/ SelectTimeout \/ SetRunning \/ TrackThread
           \/ CancelAll \/ AllJoined \/ ExitRequested
  BY <1>1 DEF CleanupThreads, SelectTimeout, SetRunning, TrackThread,
     CancelAll, AllJoined, ExitRequested
<1>2. ASSUME NEW c \in Conns, JoinOne(c) PROVE Ended \subseteq Ended'
  BY <1>2 DEF JoinOne
<1>3. CASE StopPlay \/ ForgetPrincipal
  BY <1>3 DEF StopPlay, ForgetPrincipal
<1>4. ASSUME NEW t \in Conns \union {Remote}, TerminateConn(t) \/ JoinConn(t)
      PROVE  Ended \subseteq Ended'
  BY <1>4 DEF TerminateConn, JoinConn, ActOnCancel, AfterTerminate
<1>5. ASSUME NEW c \in Conns, Accept(c) \/ LoopTop(c)
      PROVE  Ended \subseteq Ended'
  BY <1>5 DEF Accept, LoopTop, ActOnCancel
<1>6. ASSUME NEW c \in Conns, HandleRequest(c) PROVE Ended \subseteq Ended'
  BY <1>6 DEF HandleRequest, Receive, AirPlay2, SetupPTP, SetupRC,
     SetupStreams, TeardownStreams, Teardown, Announce, SetupClassic, Record,
     Feedback
<1>7. ASSUME NEW c \in Conns,
             \/ GetPlayLock(c) \/ ReleasePlayLock(c)
             \/ ChannelClosed(c) \/ ScanConns(c)
             \/ CancelRead(c) \/ Consult(c) \/ Reply(c) \/ JoinPlayer(c)
             \/ Cleanup(c) \/ CleanupJoined(c) \/ PlayerEnds(c)
      PROVE  Ended \subseteq Ended'
  BY <1>7 DEF GetPlayLock, ReleasePlayLock, Released, ChannelClosed,
     ScanConns, CancelRead, Consult, Reply, JoinPlayer, ActOnCancel, Cleanup,
     Finish, CleanupJoined, PlayerEnds
<1> QED
  BY <1>1, <1>2, <1>3, <1>4, <1>5, <1>6, <1>7
     DEF Next, ListenerStep, RemoteStep, Environment, ConversationStep

\* principal_conn passes to another, or is let go, only when its session ends.
LEMMA OwnerKeeps ==
  ASSUME Inv, SessionInv, Inv', Ended \subseteq Ended', Next
  PROVE  OwnerInv'
<1> USE ConstantsAssumption DEF Inv, SessionInv, OwnerInv, HasPlayer, TypeOK,
       Threads, Goto, sessionVars, tableVars
<1>1. CASE \/ CleanupThreads \/ SelectTimeout \/ SetRunning \/ TrackThread
           \/ CancelAll \/ AllJoined \/ ExitRequested
  BY <1>1 DEF CleanupThreads, SelectTimeout, SetRunning, TrackThread,
     CancelAll, AllJoined, ExitRequested
<1>2. ASSUME NEW c \in Conns, JoinOne(c) PROVE OwnerInv'
  BY <1>2 DEF JoinOne
<1>3. CASE StopPlay
  BY <1>3 DEF StopPlay
<1>4. CASE ForgetPrincipal
  BY <1>4 DEF ForgetPrincipal, ForgetInv, Ended, Leaving
<1>5. ASSUME NEW t \in Conns \union {Remote}, TerminateConn(t) \/ JoinConn(t)
      PROVE  OwnerInv'
  BY <1>5 DEF TerminateConn, JoinConn, ActOnCancel, AfterTerminate, Ended,
     TargetInv
<1>6. ASSUME NEW c \in Conns, Accept(c) \/ LoopTop(c) PROVE OwnerInv'
  BY <1>6 DEF Accept, LoopTop, ActOnCancel, CategoryInv, PlayerInv
<1>7. ASSUME NEW c \in Conns, HandleRequest(c) PROVE OwnerInv'
  BY <1>7 DEF HandleRequest, Receive, AirPlay2, SetupPTP, SetupRC,
     SetupStreams, TeardownStreams, StopPlayer, Teardown, Announce, SetupClassic,
     Record, Feedback
<1>8. ASSUME NEW c \in Conns, GetPlayLock(c) PROVE OwnerInv'
  BY <1>8 DEF GetPlayLock, Ended, Doomed
<1>9. ASSUME NEW c \in Conns, ReleasePlayLock(c) PROVE OwnerInv'
  BY <1>9 DEF ReleasePlayLock, Released, CategoryInv, Ended, Leaving
<1>10. ASSUME NEW c \in Conns,
             \/ ChannelClosed(c) \/ ScanConns(c)
             \/ CancelRead(c) \/ Consult(c) \/ Reply(c) \/ JoinPlayer(c)
             \/ Cleanup(c) \/ CleanupJoined(c) \/ PlayerEnds(c)
      PROVE  OwnerInv'
  BY <1>10 DEF ChannelClosed, ScanConns, CancelRead, Consult, Reply,
     CategoryInv, JoinPlayer, ActOnCancel, Cleanup, Finish, CleanupJoined,
     PlayerEnds, StopPlayer
<1> QED
  BY <1>1, <1>2, <1>3, <1>4, <1>5, <1>6, <1>7, <1>8, <1>9, <1>10
     DEF Next, ListenerStep, RemoteStep, Environment, ConversationStep

\* The strengthened invariant holds in every reachable state.
LEMMA SessionInvariance ==
  ASSUME TrackFirst
  PROVE  Spec => []SessionInv
<1>1. Init => SessionInv
  BY ZenonT(40), ConstantsAssumption DEF Init, SessionInv, TrackInv, CategoryInv,
     ForgetInv, OwnerInv, HasPlayer, Threads
<1>2. Inv /\ Inv' /\ SessionInv /\ [Next]_vars => SessionInv'
  <2> SUFFICES ASSUME Inv, Inv', SessionInv, [Next]_vars
               PROVE  SessionInv'
    OBVIOUS
  <2>1. CASE Next
    BY <2>1, TrackKeeps, CategoryKeeps, ForgetKeeps, EndedGrows, OwnerKeeps
       DEF SessionInv
  <2>2. CASE UNCHANGED vars
    BY <2>2 DEF vars, sessionVars, tableVars, SessionInv, TrackInv,
       CategoryInv, ForgetInv, OwnerInv, HasPlayer, Ended, Leaving, Doomed
  <2> QED
    BY <2>1, <2>2
<1> QED
  BY <1>1, <1>2, Invariance, PTL DEF Spec

\* An AirPlay 2 connection that has a player thread and is not principal_conn is
\* leaving, cancelled or about to be: when handle_setup_2, which does not look at
\* principal_conn, starts a player beside the owner's, that session is ending.
THEOREM PlayersNotStranded ==
  ASSUME TrackFirst
  PROVE  Spec => []NoStrandedPlayer
<1>1. SessionInv => NoStrandedPlayer
  BY DEF SessionInv, OwnerInv, HasPlayer, NoStrandedPlayer, Ended
<1> QED
  BY <1>1, SessionInvariance, PTL

\* The sessions that are over are those of connections.
LEMMA EndedConns ==
  /\ Ended \subseteq Conns /\ Ended' \subseteq Conns
  /\ None \notin Ended /\ None \notin Ended'
BY ConstantsAssumption DEF Ended, Leaving, Doomed

\* A step that leaves principal_conn alone, but may end sessions, is an End.
LEMMA EndStep ==
  ASSUME TypeOK, TypeOK', principal' = principal, Ended \subseteq Ended'
  PROVE  Session!End(Ended')
<1> QED
  BY EndedConns DEF Session!End, Owner

\* get_play_lock takes the player when it is free, or ends the session of its
\* owner; when the newcomer has itself been cancelled meanwhile, it owns nothing.
LEMMA GetPlayLockStep ==
  ASSUME Inv, SessionInv, Inv', Ended \subseteq Ended', NEW c \in Conns,
     GetPlayLock(c)
  PROVE  [Session!Next]_Session!vars
<1> USE ConstantsAssumption, EndedConns DEF GetPlayLock, Inv, TypeOK, Threads,
       Goto, tableVars
<1>1. principal \in Conns \union {None} /\ principal' = c
  OBVIOUS
<1>2. CASE principal \in {None, c}
  <2>1. Ended' = Ended
    BY <1>2 DEF Ended, Leaving, Doomed
  <2>2. CASE c \in Ended \/ principal = c
    BY <1>1, <1>2, <2>1, <2>2 DEF Owner, Session!vars
  <2>3. CASE c \notin Ended /\ principal = None
    <3>1. Session!Acquire(c)
      BY <1>1, <2>1, <2>3 DEF Owner, Session!Acquire
    <3> QED
      BY <3>1 DEF Session!Next
  <2> QED
    BY <1>2, <2>2, <2>3
<1>3. CASE principal \notin {None, c}
  <2>1. Ended' = Ended \union {principal}
    BY <1>1, <1>3 DEF Ended, Leaving, Doomed
  <2>2. CASE c \in Ended
    <3>1. Session!End({principal})
      BY <1>1, <1>3, <2>1, <2>2 DEF Owner, Session!End
    <3> QED
      BY <1>1, <1>3, <3>1 DEF Session!Next
  <2>3. CASE c \notin Ended /\ principal \in Ended
    <3>1. Session!Acquire(c)
      BY <1>1, <1>3, <2>1, <2>3 DEF Owner, Session!Acquire
    <3> QED
      BY <3>1 DEF Session!Next
  <2>4. CASE c \notin Ended /\ principal \notin Ended
    <3>1. Session!BreakIn(c)
      BY <1>1, <1>3, <2>1, <2>4 DEF Owner, Session!BreakIn
    <3> QED
      BY <3>1 DEF Session!Next
  <2> QED
    BY <2>2, <2>3, <2>4
<1> QED
  BY <1>2, <1>3

\* release_play_lock frees the player, or comes with the end of the session.
LEMMA ReleaseStep ==
  ASSUME Inv, SessionInv, Inv', Ended \subseteq Ended', NEW c \in Conns,
     ReleasePlayLock(c)
  PROVE  [Session!Next]_Session!vars
<1> USE ConstantsAssumption, EndedConns DEF ReleasePlayLock, Released, Inv,
       TypeOK, Threads, Goto, tableVars
<1>1. CASE principal /= c
  <2>1. Session!End(Ended')
    BY <1>1, EndStep
  <2> QED
    BY <2>1 DEF Session!Next
<1>2. CASE principal = c /\ pc[c] = "releaseEnd"
  <2>1. Ended' = Ended \union {c}
    BY <1>2 DEF Ended, Leaving, Doomed
  <2>2. Session!End({c})
    BY <1>2, <2>1 DEF Owner, Session!End
  <2> QED
    BY <2>2 DEF Session!Next
<1>3. CASE principal = c /\ pc[c] = "releaseSetup"
  <2>1. Ended' = Ended
    BY <1>3 DEF Ended, Leaving, Doomed
  <2>2. Owner' = None
    BY <1>3 DEF Owner
  <2>3. CASE Owner = None
    BY <2>1, <2>2, <2>3 DEF Session!vars
  <2>4. CASE Owner /= None
    <3>1. Session!Release
      BY <2>1, <2>2, <2>4 DEF Session!Release
    <3> QED
      BY <3>1 DEF Session!Next
  <2> QED
    BY <2>3, <2>4
<1> QED
  BY <1>1, <1>2, <1>3

\* When stop_play clears principal_conn, that session has ended already.
LEMMA ForgetStep ==
  ASSUME Inv, SessionInv, ForgetPrincipal
  PROVE  UNCHANGED Session!vars
<1> USE ConstantsAssumption DEF ForgetPrincipal, Inv, TypeOK, Threads, Goto,
       tableVars
<1>1. Ended' = Ended
  BY DEF Ended, Leaving, Doomed
<1>2. Owner = None /\ Owner' = None
  BY DEF Owner, Ended, Leaving, Doomed, SessionInv, ForgetInv
<1> QED
  BY <1>1, <1>2 DEF Session!vars

\* Only get_play_lock, release_play_lock and stop_play write principal_conn.
LEMMA PrincipalChanges ==
  ASSUME Next
  PROVE  \/ principal' = principal
         \/ ForgetPrincipal
         \/ \E c \in Conns : GetPlayLock(c) \/ ReleasePlayLock(c)
<1> USE DEF sessionVars, tableVars
<1>1. ASSUME NEW c \in Conns, HandleRequest(c) PROVE principal' = principal
  BY <1>1 DEF HandleRequest, SetupPTP, SetupRC, SetupStreams, TeardownStreams,
     Teardown, Announce, SetupClassic, Record, Feedback
<1>2. CASE ListenerStep \/ ExitRequested \/ StopPlay
  BY <1>2 DEF ListenerStep, CleanupThreads, SelectTimeout, SetRunning,
     TrackThread, CancelAll, AllJoined, JoinOne, ExitRequested, StopPlay
<1>3. ASSUME NEW t \in Conns \union {Remote}, TerminateConn(t) \/ JoinConn(t)
      PROVE  principal' = principal
  BY <1>3 DEF TerminateConn, JoinConn, ActOnCancel
<1>4. ASSUME NEW c \in Conns,
             \/ Accept(c) \/ LoopTop(c) \/ ChannelClosed(c) \/ ScanConns(c)
             \/ CancelRead(c) \/ Consult(c) \/ Reply(c) \/ JoinPlayer(c)
             \/ Cleanup(c) \/ CleanupJoined(c) \/ PlayerEnds(c)
      PROVE  principal' = principal
  BY <1>4 DEF Accept, LoopTop, ActOnCancel, ChannelClosed, ScanConns,
     CancelRead, Consult, Reply, JoinPlayer, Cleanup, Finish, CleanupJoined,
     PlayerEnds
<1> QED
  BY <1>1, <1>2, <1>3, <1>4 DEF Next, RemoteStep, Environment, ConversationStep

\* The code implements the abstract session: the player changes hands only when
\* it is free, when its owner leaves, or by ending the session of its owner.
THEOREM SessionImplemented ==
  ASSUME TrackFirst
  PROVE  Spec => ImplementsSession
<1>1. Init => Session!Init
  BY ConstantsAssumption DEF Init, Session!Init, Owner, Ended, Leaving,
     Doomed, Threads
<1>2. Inv /\ Inv' /\ SessionInv /\ [Next]_vars => [Session!Next]_Session!vars
  <2> SUFFICES ASSUME Inv, Inv', SessionInv, [Next]_vars
               PROVE  [Session!Next]_Session!vars
    OBVIOUS
  <2>1. CASE UNCHANGED vars
    BY <2>1 DEF vars, sessionVars, tableVars, Session!vars, Owner, Ended,
       Leaving, Doomed
  <2>2. CASE Next
    <3>1. Ended \subseteq Ended'
      BY <2>2, EndedGrows DEF SessionInv
    <3>2. CASE principal' = principal
      <4>1. Session!End(Ended')
        BY <3>1, <3>2, EndStep DEF Inv
      <4>2. Ended' \in SUBSET Conns
        BY EndedConns
      <4> QED
        BY <4>1, <4>2 DEF Session!Next
    <3>3. CASE ForgetPrincipal
      BY <3>3, ForgetStep
    <3>4. CASE \E c \in Conns : GetPlayLock(c) \/ ReleasePlayLock(c)
      BY <3>1, <3>4, GetPlayLockStep, ReleaseStep
    <3> QED
      BY <2>2, <3>2, <3>3, <3>4, PrincipalChanges
  <2> QED
    BY <2>1, <2>2
<1> QED
  BY <1>1, <1>2, Invariance, SessionInvariance, PTL DEF Spec,
     ImplementsSession, Session!Spec
=============================================================================
