-------------------------- MODULE RtspConnections --------------------------
(***************************************************************************)
(* The RTSP side of shairport-sync (rtsp.c): the listen loop accepts       *)
(* clients and gives each one a conversation thread; conversation threads  *)
(* compete for the right to use the player, kept in principal_conn under   *)
(* principal_conn_lock; a thread that takes it from another, or a remote   *)
(* control thread that drops the session, cancels and joins the loser      *)
(* while it holds conns_lock, the lock of the table of connections.        *)
(*                                                                         *)
(* A step is what one thread does between two points where it can block or *)
(* be cancelled.  A cancellation only sets cancelled[c]: the thread acts   *)
(* on it when it reaches a cancellation point, as pthread_cancel does with *)
(* deferred cancellation, and never while it waits for a lock.             *)
(*                                                                         *)
(* A definition whose name begins with Bug is the one after it with a      *)
(* mistake in it; it is not part of the specification.                     *)
(***************************************************************************)
CONSTANTS
  Conns,       \* the connections that clients may open, each used once
  Listener,    \* the thread that runs rtsp_listen_loop
  Remote,      \* the D-Bus or MQTT thread that calls stop_play
  None,        \* NULL
  Requests,    \* Requests[c]: the requests the client of c may send
  AllowRemote, \* whether a remote control may drop the session
  AllowExit,   \* whether the program may be asked to exit
  TrackFirst   \* whether a new thread's first request comes after track_thread

RequestTypes ==
  {"SETUP_PTP", "SETUP_RC", "STREAMS", "TEARDOWN_STREAMS",   \* AirPlay 2
   "ANNOUNCE", "SETUP", "RECORD",                            \* Classic AirPlay
   "TEARDOWN", "FEEDBACK"}                                   \* both

ASSUME ConstantsAssumption ==
  /\ Conns \intersect {Listener, Remote, None} = {}
  /\ Listener /= Remote /\ Listener /= None /\ Remote /= None
  /\ Requests \in [Conns -> SUBSET RequestTypes]
  /\ AllowRemote \in BOOLEAN /\ AllowExit \in BOOLEAN /\ TrackFirst \in BOOLEAN

Threads == Conns \union {Listener, Remote}

VARIABLES
  pc,         \* where each thread is
  principal,  \* principal_conn
  writer,     \* the thread that holds principal_conn_lock for writing, or None
  connsLock,  \* the thread that holds conns_lock, or None
  conns,      \* the connections in the table conns[]
  memory,     \* the rtsp_conn_info of each connection: unused, allocated, freed
  running,    \* conn->running
  stop,       \* conn->stop
  cancelled,  \* whether pthread_cancel has been called on the connection's thread
  category,   \* conn->airplay_stream_category
  player,     \* the player thread of each connection
  target      \* the connection a thread is terminating or, for Listener, accepting

sessionVars == <<principal, writer, category, player>>
tableVars == <<connsLock, conns, memory, running, cancelled>>
vars == <<pc, sessionVars, tableVars, stop, target>>

ConversationPCs ==
  {"none", "top", "scan", "read", "reply",             \* the loop of the thread
   "acquire", "terminate", "join",                     \* get_play_lock
   "consult",                                          \* a reader of principal_conn
   "releaseSetup", "releaseEnd",                       \* release_play_lock
   "joinTeardown", "joinSetup",                        \* player_stop in a handler
   "cleanup", "joinCleanup", "done"}                   \* the cleanup function
ListenerPCs == {"select", "accept", "created", "track", "cancelAll", "joinAll", "exited"}
RemotePCs == {"idle", "terminate", "join", "forget"}

TypeOK ==
  /\ pc \in [Threads -> ConversationPCs \union ListenerPCs \union RemotePCs]
  /\ \A c \in Conns : pc[c] \in ConversationPCs
  /\ pc[Listener] \in ListenerPCs
  /\ pc[Remote] \in RemotePCs
  /\ principal \in Conns \union {None}
  /\ writer \in Conns \union {Remote, None}
  /\ connsLock \in Threads \union {None}
  /\ conns \subseteq Conns
  /\ memory \in [Conns -> {"unused", "allocated", "freed"}]
  /\ running \in [Conns -> BOOLEAN]
  /\ stop \in [Conns -> BOOLEAN]
  /\ cancelled \in [Conns -> BOOLEAN]
  /\ category \in [Conns -> {"unspecified", "ptp", "rc", "classic"}]
  \* "stopping": cancelled and no longer in conn->player_thread, not yet gone
  /\ player \in [Conns -> {"none", "running", "stopping"}]
  \* a thread that works on a connection has one to work on
  /\ target \in [Threads -> Conns \union {None}]
  /\ \A t \in Threads :
       pc[t] \in {"terminate", "join", "created", "track"} => target[t] \in Conns

Init ==
  /\ pc = [t \in Threads |-> CASE t = Listener -> "select"
                               [] t = Remote -> "idle"
                               [] OTHER -> "none"]
  /\ principal = None /\ writer = None /\ connsLock = None
  /\ conns = {}
  /\ memory = [c \in Conns |-> "unused"]
  /\ running = [c \in Conns |-> FALSE]
  /\ stop = [c \in Conns |-> FALSE]
  /\ cancelled = [c \in Conns |-> FALSE]
  /\ category = [c \in Conns |-> "unspecified"]
  /\ player = [c \in Conns |-> "none"]
  /\ target = [t \in Threads |-> None]

Goto(t, label) == pc' = [pc EXCEPT ![t] = label]

(***************************************************************************)
(* rtsp_listen_loop                                                        *)
(***************************************************************************)

\* select has returned, for a client or after its 60 seconds: cleanup_threads
\* joins and frees every connection in the table that is not running, all of
\* it under conns_lock.
CleanupThreads ==
  LET finished == {c \in conns : ~running[c]} IN
  /\ pc[Listener] = "select"
  /\ connsLock = None
  /\ \A c \in finished : pc[c] = "done"
  /\ Goto(Listener, "accept")
  /\ conns' = conns \ finished
  /\ memory' = [c \in Conns |-> IF c \in finished THEN "freed" ELSE memory[c]]
  /\ UNCHANGED <<sessionVars, connsLock, running, cancelled, stop, target>>

\* No listening socket is ready: back to select.
SelectTimeout ==
  /\ pc[Listener] = "accept"
  /\ Goto(Listener, "select")
  /\ UNCHANGED <<sessionVars, tableVars, stop, target>>

\* A client is there: allocate its rtsp_conn_info and create its thread, which
\* is free to run from now on, before running is set and before it is tracked.
Accept(c) ==
  /\ pc[Listener] = "accept"
  /\ pc[c] = "none"
  /\ pc' = [pc EXCEPT ![Listener] = "created", ![c] = "top"]
  /\ memory' = [memory EXCEPT ![c] = "allocated"]
  /\ target' = [target EXCEPT ![Listener] = c]
  /\ UNCHANGED <<sessionVars, connsLock, conns, running, cancelled, stop>>

SetRunning ==
  /\ pc[Listener] = "created"
  /\ Goto(Listener, "track")
  /\ running' = [running EXCEPT ![target[Listener]] = TRUE]
  /\ UNCHANGED <<sessionVars, connsLock, conns, memory, cancelled, stop, target>>

\* A free slot of the table is used, or the table is enlarged by one.
BugTracked == {target[Listener]}    \* a slot that is in use
Tracked == conns \union {target[Listener]}

TrackThread ==
  /\ pc[Listener] = "track"
  /\ connsLock = None
  /\ Goto(Listener, "select")
  /\ conns' = Tracked
  /\ target' = [target EXCEPT ![Listener] = None]
  /\ UNCHANGED <<sessionVars, connsLock, memory, running, cancelled, stop>>

\* exit_rtsp_listener cancels the listen thread: its cleanup handler runs
\* cancel_all_RTSP_threads(unspecified_stream_category, 0).
ExitRequested ==
  /\ AllowExit
  /\ pc[Listener] = "select"
  /\ Goto(Listener, "cancelAll")
  /\ UNCHANGED <<sessionVars, tableVars, stop, target>>

\* conns_lock not waited for
BugCancelAll ==
  /\ pc[Listener] = "cancelAll"
  /\ Goto(Listener, "joinAll")
  /\ cancelled' = [c \in Conns |-> cancelled[c] \/ (c \in conns /\ running[c])]
  /\ UNCHANGED <<sessionVars, connsLock, conns, memory, running, stop, target>>

CancelAll ==
  /\ pc[Listener] = "cancelAll"
  /\ connsLock = None
  /\ connsLock' = Listener
  /\ Goto(Listener, "joinAll")
  /\ cancelled' = [c \in Conns |-> cancelled[c] \/ (c \in conns /\ running[c])]
  /\ UNCHANGED <<sessionVars, conns, memory, running, stop, target>>

\* One pass of the second loop.  The order of the table does not matter here.
JoinOne(c) ==
  /\ pc[Listener] = "joinAll"
  /\ c \in conns
  /\ pc[c] = "done"
  /\ conns' = conns \ {c}
  /\ memory' = [memory EXCEPT ![c] = "freed"]
  /\ UNCHANGED <<pc, sessionVars, connsLock, running, cancelled, stop, target>>

AllJoined ==
  /\ pc[Listener] = "joinAll"
  /\ conns = {}
  /\ connsLock' = None
  /\ Goto(Listener, "exited")
  /\ UNCHANGED <<sessionVars, conns, memory, running, cancelled, stop, target>>

ListenerStep ==
  \/ CleanupThreads \/ SelectTimeout \/ SetRunning \/ TrackThread
  \/ CancelAll \/ AllJoined
  \/ \E c \in Conns : JoinOne(c)

(***************************************************************************)
(* rtsp_conversation_thread_func                                           *)
(***************************************************************************)

\* A thread with a pending cancellation leaves at the next cancellation point.
\* The cleanup handler that get_play_lock pushed unlocks principal_conn_lock;
\* nothing unlocks conns_lock.
ActOnCancel(c) ==
  /\ cancelled[c]
  /\ Goto(c, "cleanup")
  /\ writer' = IF writer = c THEN None ELSE writer
  /\ UNCHANGED <<principal, category, player, tableVars, stop, target>>

\* The head of the loop: `while (conn->stop == 0) { pthread_testcancel(); ...'.
LoopTop(c) ==
  /\ pc[c] = "top"
  /\ TrackFirst => c \in conns
  /\ IF stop[c]
     THEN /\ Goto(c, "releaseEnd")
          /\ UNCHANGED <<sessionVars, tableVars, stop, target>>
     ELSE IF cancelled[c]
     THEN ActOnCancel(c)
     ELSE /\ Goto(c, "scan")
          /\ UNCHANGED <<sessionVars, tableVars, stop, target>>

\* The search of the table for a zero connection number, under conns_lock.
ScanConns(c) ==
  /\ pc[c] = "scan"
  /\ connsLock = None
  /\ Goto(c, "read")
  /\ UNCHANGED <<sessionVars, tableVars, stop, target>>

\* rtsp_read_request is a cancellation point.
CancelRead(c) == pc[c] = "read" /\ ActOnCancel(c)

\* The channel was closed or failed: leave the loop.
ChannelClosed(c) ==
  /\ pc[c] = "read"
  /\ ~cancelled[c]
  /\ Goto(c, "top")
  /\ stop' = [stop EXCEPT ![c] = TRUE]
  /\ UNCHANGED <<sessionVars, tableVars, target>>

\* A request has arrived, in a form its connection's handler table knows:
\* after an ANNOUNCE the AirPlay 1 handlers are in use.
Receive(c, request) ==
  /\ pc[c] = "read"
  /\ ~cancelled[c]
  /\ request \in Requests[c]

AirPlay2(c) == category[c] /= "classic"

\* handle_setup_2, no streams item, timing protocol PTP.
SetupPTP(c) ==
  /\ Receive(c, "SETUP_PTP") /\ AirPlay2(c)
  /\ Goto(c, "acquire")
  /\ category' = [category EXCEPT ![c] = "ptp"]
  /\ UNCHANGED <<principal, writer, player, tableVars, stop, target>>

\* handle_setup_2, no streams item, isRemoteControlOnly: no play lock is taken.
SetupRC(c) ==
  /\ Receive(c, "SETUP_RC") /\ AirPlay2(c)
  /\ Goto(c, "reply")
  /\ category' = [category EXCEPT ![c] = "rc"]
  /\ UNCHANGED <<principal, writer, player, tableVars, stop, target>>

\* player_stop: conn->player_thread is cleared and its thread cancelled before
\* it is joined, so only a running player has anything to stop.
StopPlayer(c) ==
  player' = [player EXCEPT ![c] = IF @ = "running" THEN "stopping" ELSE @]

\* handle_setup_2 with a streams item: stop the player there is, and start one.
\* Only a PTP connection plays; whether it is principal_conn is not looked at.
SetupStreams(c) ==
  /\ Receive(c, "STREAMS") /\ AirPlay2(c)
  /\ IF category[c] = "ptp"
     THEN IF player[c] = "running"
          THEN Goto(c, "joinSetup") /\ StopPlayer(c)
          ELSE Goto(c, "reply") /\ player' = [player EXCEPT ![c] = "running"]
     ELSE Goto(c, "reply") /\ UNCHANGED player
  /\ UNCHANGED <<principal, writer, category, tableVars, stop, target>>

\* handle_teardown_2 with a streams item: drop the player only.
TeardownStreams(c) ==
  /\ Receive(c, "TEARDOWN_STREAMS") /\ AirPlay2(c)
  /\ Goto(c, IF player[c] = "running" THEN "joinTeardown" ELSE "reply")
  /\ StopPlayer(c)
  /\ UNCHANGED <<principal, writer, category, tableVars, stop, target>>

\* handle_teardown stops the player and leaves the loop; handle_teardown_2
\* without a streams item leaves the loop.
Teardown(c) ==
  /\ Receive(c, "TEARDOWN")
  /\ stop' = [stop EXCEPT ![c] = TRUE]
  /\ IF ~AirPlay2(c) /\ player[c] = "running"
     THEN Goto(c, "joinTeardown") /\ StopPlayer(c)
     ELSE Goto(c, "reply") /\ UNCHANGED player
  /\ UNCHANGED <<principal, writer, category, tableVars, target>>

\* handle_announce: a Classic AirPlay session inside an AirPlay 2 build.
Announce(c) ==
  /\ Receive(c, "ANNOUNCE")
  /\ Goto(c, "acquire")
  /\ category' = [category EXCEPT ![c] = "classic"]
  /\ UNCHANGED <<principal, writer, player, tableVars, stop, target>>

\* handle_setup reads principal_conn without the lock; a request that cannot
\* be honoured (no player, no Transport header, no ports) releases it.
SetupClassic(c) ==
  /\ Receive(c, "SETUP") /\ ~AirPlay2(c)
  /\ \E ok \in {TRUE, FALSE} :
       /\ ok => principal = c
       /\ Goto(c, IF ok THEN "reply" ELSE "releaseSetup")
  /\ UNCHANGED <<sessionVars, tableVars, stop, target>>

\* handle_record reads principal_conn without the lock.
Record(c) ==
  /\ Receive(c, "RECORD") /\ ~AirPlay2(c)
  /\ Goto(c, "reply")
  /\ player' = [player EXCEPT ![c] =
                  IF principal = c /\ @ = "none" THEN "running" ELSE @]
  /\ UNCHANGED <<principal, writer, category, tableVars, stop, target>>

\* POST /feedback, GET /info, SET_PARAMETER volume: readers of principal_conn.
Feedback(c) ==
  /\ Receive(c, "FEEDBACK")
  /\ Goto(c, "consult")
  /\ UNCHANGED <<sessionVars, tableVars, stop, target>>

HandleRequest(c) ==
  \/ SetupPTP(c) \/ SetupRC(c) \/ SetupStreams(c) \/ TeardownStreams(c)
  \/ Teardown(c) \/ Announce(c) \/ SetupClassic(c) \/ Record(c) \/ Feedback(c)

\* The read lock is held for a look at *principal_conn only.
Consult(c) ==
  /\ pc[c] = "consult"
  /\ writer = None
  /\ Goto(c, "reply")
  /\ UNCHANGED <<sessionVars, tableVars, stop, target>>

\* msg_write_response, a cancellation point, which may also fail.
Reply(c) ==
  /\ pc[c] = "reply"
  /\ IF cancelled[c]
     THEN ActOnCancel(c)
     ELSE /\ Goto(c, "top")
          /\ \E failed \in BOOLEAN : stop' = [stop EXCEPT ![c] = @ \/ failed]
          /\ UNCHANGED <<sessionVars, tableVars, target>>

\* pthread_join of the player thread in player_stop: a cancellation point
\* while the player thread has not ended.
JoinPlayer(c) ==
  /\ pc[c] \in {"joinTeardown", "joinSetup"}
  /\ \/ /\ player[c] = "none"
        /\ Goto(c, "reply")
        /\ player' = [player EXCEPT ![c] =
                        IF pc[c] = "joinSetup" THEN "running" ELSE @]
        /\ UNCHANGED <<principal, writer, category, tableVars, stop, target>>
     \/ player[c] = "stopping" /\ ActOnCancel(c)

\* The player thread of c runs its cleanup handler and ends.
PlayerEnds(c) ==
  /\ player[c] = "stopping"
  /\ player' = [player EXCEPT ![c] = "none"]
  /\ UNCHANGED <<pc, principal, writer, category, tableVars, stop, target>>

(***************************************************************************)
(* get_play_lock, release_play_lock, stop_play, terminate_conn             *)
(***************************************************************************)

\* the displaced connection left to itself
BugGetPlayLock(c) ==
  /\ pc[c] = "acquire"
  /\ writer = None
  /\ principal' = c
  /\ Goto(c, "reply")
  /\ UNCHANGED <<writer, category, player, tableVars, stop, target>>

\* get_play_lock(conn, 1): in this build every caller allows interruption.  To
\* break in, conn becomes principal_conn first and then, still holding the
\* lock, terminates the connection it displaced.
GetPlayLock(c) ==
  /\ pc[c] = "acquire"
  /\ writer = None
  /\ principal' = c
  /\ IF principal \in {None, c}
     THEN /\ Goto(c, "reply")
          /\ UNCHANGED <<writer, target>>
     ELSE /\ Goto(c, "terminate")
          /\ writer' = c
          /\ target' = [target EXCEPT ![c] = principal]
  /\ UNCHANGED <<category, player, tableVars, stop>>

\* release_play_lock, called when a Classic SETUP fails and at the end of the
\* loop.  At the end of the loop it comes before the cleanup function.
BugReleased(c) == None              \* whoever owns the player
BugKept(c) == principal             \* nobody lets go
Released(c) == IF principal = c THEN None ELSE principal

ReleasePlayLock(c) ==
  /\ pc[c] \in {"releaseSetup", "releaseEnd"}
  /\ writer = None
  /\ principal' = Released(c)
  /\ Goto(c, IF pc[c] = "releaseEnd" THEN "cleanup" ELSE "reply")
  /\ UNCHANGED <<writer, category, player, tableVars, stop, target>>

\* there may be nothing to stop
BugStopPlay ==
  /\ AllowRemote
  /\ pc[Remote] = "idle"
  /\ writer = None
  /\ writer' = Remote
  /\ target' = [target EXCEPT ![Remote] = principal]
  /\ Goto(Remote, "terminate")
  /\ UNCHANGED <<principal, category, player, tableVars, stop>>

\* stop_play, called by the D-Bus DropSession method and the MQTT disconnect
\* command.
StopPlay ==
  /\ AllowRemote
  /\ pc[Remote] = "idle"
  /\ writer = None
  /\ principal /= None
  /\ writer' = Remote
  /\ target' = [target EXCEPT ![Remote] = principal]
  /\ Goto(Remote, "terminate")
  /\ UNCHANGED <<principal, category, player, tableVars, stop>>

AfterTerminate(t) == IF t = Remote THEN "forget" ELSE "reply"

\* terminate_conn, up to the join: look for the connection under conns_lock
\* and cancel its thread; one that is not in the table is left alone.
TerminateConn(t) ==
  /\ pc[t] = "terminate"
  /\ connsLock = None
  /\ IF target[t] \in conns
     THEN /\ connsLock' = t
          /\ cancelled' = [cancelled EXCEPT ![target[t]] = TRUE]
          /\ Goto(t, "join")
          /\ UNCHANGED <<writer, target>>
     ELSE /\ Goto(t, AfterTerminate(t))
          /\ writer' = IF t = Remote THEN writer ELSE None
          /\ target' = [target EXCEPT ![t] = None]
          /\ UNCHANGED <<connsLock, cancelled>>
  /\ UNCHANGED <<principal, category, player, conns, memory, running, stop>>

\* terminate_conn, from the join on: the slot is cleared, the rtsp_conn_info
\* is not freed, and get_play_lock unlocks principal_conn_lock.  While it waits,
\* pthread_join is a cancellation point of the thread that calls it.
JoinConn(t) ==
  /\ pc[t] = "join"
  /\ IF pc[target[t]] = "done"
     THEN /\ conns' = conns \ {target[t]}
          /\ connsLock' = None
          /\ writer' = IF t = Remote THEN writer ELSE None
          /\ target' = [target EXCEPT ![t] = None]
          /\ Goto(t, AfterTerminate(t))
          /\ UNCHANGED <<principal, category, player, memory, running, cancelled, stop>>
     ELSE t /= Remote /\ ActOnCancel(t)

\* principal_conn still set
BugForgetPrincipal ==
  /\ pc[Remote] = "forget"
  /\ writer' = None
  /\ Goto(Remote, "idle")
  /\ UNCHANGED <<principal, category, player, tableVars, stop, target>>

\* The rest of stop_play: *principal_conn is used once more, then let go.
ForgetPrincipal ==
  /\ pc[Remote] = "forget"
  /\ principal' = None
  /\ writer' = None
  /\ Goto(Remote, "idle")
  /\ UNCHANGED <<category, player, tableVars, stop, target>>

RemoteStep == TerminateConn(Remote) \/ JoinConn(Remote) \/ ForgetPrincipal

(***************************************************************************)
(* rtsp_conversation_thread_cleanup_function, with cancellation disabled   *)
(***************************************************************************)

Finish(c) ==
  /\ Goto(c, "done")
  /\ running' = [running EXCEPT ![c] = FALSE]

\* no player_stop
BugCleanup(c) ==
  /\ pc[c] = "cleanup"
  /\ Finish(c)
  /\ UNCHANGED <<sessionVars, connsLock, conns, memory, cancelled, stop, target>>

Cleanup(c) ==
  /\ pc[c] = "cleanup"
  /\ IF player[c] = "running"
     THEN StopPlayer(c) /\ Goto(c, "joinCleanup") /\ UNCHANGED running
     ELSE Finish(c) /\ UNCHANGED player
  /\ UNCHANGED <<principal, writer, category, connsLock, conns, memory, cancelled,
                 stop, target>>

CleanupJoined(c) ==
  /\ pc[c] = "joinCleanup"
  /\ player[c] = "none"
  /\ Finish(c)
  /\ UNCHANGED <<sessionVars, connsLock, conns, memory, cancelled, stop, target>>

ConversationStep(c) ==
  \/ LoopTop(c) \/ ScanConns(c) \/ CancelRead(c)
  \/ Consult(c) \/ Reply(c) \/ JoinPlayer(c)
  \/ GetPlayLock(c) \/ TerminateConn(c) \/ JoinConn(c) \/ ReleasePlayLock(c)
  \/ Cleanup(c) \/ CleanupJoined(c)

Environment(c) == Accept(c) \/ ChannelClosed(c) \/ HandleRequest(c)

Next ==
  \/ ListenerStep \/ ExitRequested
  \/ StopPlay \/ RemoteStep
  \/ \E c \in Conns : Environment(c) \/ ConversationStep(c) \/ PlayerEnds(c)

Spec == Init /\ [][Next]_vars

\* Every thread that can run is eventually scheduled, and select returns at
\* least every 60 seconds.  Clients owe nothing: they may stay silent.
Fairness ==
  /\ WF_vars(ListenerStep)
  /\ WF_vars(RemoteStep)
  /\ \A c \in Conns : WF_vars(ConversationStep(c)) /\ WF_vars(PlayerEnds(c))

FairSpec == Spec /\ Fairness

(***************************************************************************)
(* Properties                                                              *)
(***************************************************************************)

Exiting == pc[Listener] \in {"joinAll", "exited"}

\* The conversation is over but for its cleanup function.
Leaving(c) == pc[c] \in {"cleanup", "joinCleanup", "done"}

\* Some thread is about to cancel c.
Doomed(c) == \E t \in Conns \union {Remote} : pc[t] = "terminate" /\ target[t] = c

\* principal_conn never dangles: while the program runs, the connection it
\* points to is allocated, and is not one whose thread has left, which could
\* no longer release the lock (its cleanup function does not), unless
\* stop_play is about to clear it.
PrincipalAlive ==
  ~Exiting /\ principal /= None =>
    /\ memory[principal] = "allocated"
    /\ Leaving(principal) => writer = Remote

\* A conversation thread that has acted on a cancellation, or come to its end,
\* holds neither lock: terminate_conn has no cleanup handler for conns_lock and
\* calls pthread_join, a cancellation point, with the lock held.
NoLockLeaked ==
  \A c \in Conns : Leaving(c) => connsLock /= c /\ writer /= c

\* Every conversation thread that exists can be found by terminate_conn and by
\* cancel_all_RTSP_threads, or is being tracked by the listen loop.
NoLostThread ==
  \A c \in Conns :
    pc[c] \notin {"none", "done"} => c \in conns \/ target[Listener] = c

\* An rtsp_conn_info is freed only when its thread has ended, its player
\* thread, which uses it, has ended, and the table does not refer to it.
FreedConnIsQuiet ==
  ~Exiting => \A c \in Conns :
    memory[c] = "freed" => pc[c] = "done" /\ player[c] = "none" /\ c \notin conns

\* What is referred to is there, whether principal_conn, a thread or the table
\* refers to it.
ConnectionsKept == PrincipalAlive /\ FreedConnIsQuiet

\* However a thread ends, what it holds is released and it can be found.
NothingLost == NoLockLeaked /\ NoLostThread

\* An AirPlay 2 connection that has a player thread and is not principal_conn
\* is on its way out: the play lock was taken from it, or given up, for good.
NoStrandedPlayer ==
  \A c \in Conns :
    category[c] = "ptp" /\ player[c] /= "none" /\ principal /= c =>
      Leaving(c) \/ Doomed(c) \/ cancelled[c]

\* rtsp.c and player.c speak of one thread using the player at a time.
OnePlayerAtOnce ==
  \A c, d \in Conns : player[c] /= "none" /\ player[d] /= "none" => c = d

\* terminate_conn cancels the thread and joins it: the join comes to an end.
TerminateConnReturns ==
  \A t \in Conns \union {Remote} : pc[t] = "join" ~> pc[t] /= "join"

\* A connection whose thread has left its loop lets the player go and is, in
\* the end, freed by cleanup_threads, provided it was not already over when the
\* listen loop set its running flag.
EndedConnReaped ==
  \A c \in Conns :
    /\ stop[c] ~> principal /= c
    /\ (c \in conns /\ pc[c] = "done" /\ ~running[c]) ~> memory[c] = "freed"

\* The play lock as the abstract session: a connection is over as soon as a
\* thread that will cancel it holds principal_conn_lock.
Ended == {c \in Conns : cancelled[c] \/ Leaving(c) \/ Doomed(c)}
Owner == IF principal \in Ended THEN None ELSE principal

Session == INSTANCE PlaySession WITH owner <- Owner, ended <- Ended

\* The code implements the abstract session: who owns the player changes only
\* by taking it when free, by ending its owner, or by the owner's leaving.
ImplementsSession == Session!Spec
=============================================================================
