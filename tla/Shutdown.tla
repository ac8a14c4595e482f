------------------------------- MODULE Shutdown -------------------------------
(***************************************************************************)
(* How the program ends (shairport.c).  Main waits for the listener thread *)
(* to end, which it does when it is cancelled.  A signal is handled in     *)
(* main, and calls exit there; the method Quit of D-Bus has the GLib       *)
(* thread call it.  exit runs the functions given to atexit, the last      *)
(* first: exit_rtsp_listener cancels and joins the listener, whose cleanup *)
(* cancels and joins the conversation; exit_function then stops what       *)
(* conversations use: activity monitor, DACP monitor, metadata, output.    *)
(*                                                                         *)
(* So the listener is joined twice, which POSIX leaves undefined: in musl  *)
(* the second join waits too, in glibc it is refused.  The C library takes *)
(* each function once, whoever calls exit, and ends the process when there *)
(* is none left.  One conversation stands for all, and plays once.         *)
(***************************************************************************)
EXTENDS Naturals, Sequences

CONSTANTS
  Exiters,     \* the threads that may call exit: "main" (a signal), "glib" (Quit)
  MaxAsked,    \* bound: how many times the program is asked to end
  SecondJoin,  \* what happens to it: "waits" or "refused"
  Calm         \* monitors are cancelled while they wait, and not in the midst of something

VARIABLES
  process,
  functions,     \* of atexit, those not taken yet, the next one first
  at,            \* where in exit the threads are
  asked,
  quit_requested_from_glib_mainloop, glib_loop,
  listener, conversation,
  timed,         \* active_state_timeout is other than 0.0
  am_state, monitor, announced,  \* the activity monitor; what the hooks have said
  dacp, hub_lock,
  hub, hub_items,
  stopped        \* history: what exit_function has stopped

shutdownVars ==
  <<process, functions, at, asked, quit_requested_from_glib_mainloop, glib_loop, listener,
    conversation, timed, am_state, monitor, announced, dacp, hub_lock, hub, hub_items, stopped>>
activityVars == <<timed, am_state, monitor, announced>>
hubVars == <<hub_lock, hub, hub_items>>
exitVars == <<process, functions, at, asked, quit_requested_from_glib_mainloop, glib_loop>>

Services == {"activity", "dacp", "metadata", "output"}

ShutdownTypeOK ==
  /\ process \in {"runs", "ended"} /\ functions \in Seq({"exit_rtsp_listener", "exit_function"})
  /\ at \in [{"main", "glib"} -> {"out", "next", "cancel", "join", "activity", "hook", "monitor",
                                  "dacp", "loop", "metadata", "output", "rest"}]
  /\ asked \in 0 .. MaxAsked
  /\ {quit_requested_from_glib_mainloop, timed} \subseteq BOOLEAN
  /\ glib_loop \in {"runs", "quit"}
  /\ listener \in {"accepts", "cancelled", "joins", "ended"}
  /\ conversation \in {"none", "plays", "stops", "signifies", "hook", "ended"}
  /\ am_state \in {"inactive", "active", "timing_out"} /\ monitor \in {"waits", "hook", "ended"}
  /\ announced \in {"inactive", "active", "twice"}
  /\ dacp \in {"waits", "watchers", "ended"} /\ hub_lock \in {"nobody", "dacp", "hub"}
  /\ hub \in {"waits", "locks", "works", "ended"} /\ hub_items \in 0 .. 2
  /\ stopped \subseteq Services

ShutdownInit ==
  /\ process = "runs" /\ functions = <<"exit_rtsp_listener", "exit_function">>
  /\ at = [t \in {"main", "glib"} |-> "out"] /\ asked = 0
  /\ quit_requested_from_glib_mainloop = FALSE /\ glib_loop = "runs"
  /\ listener = "accepts" /\ conversation \in {"none", "plays"}
  /\ timed \in BOOLEAN /\ am_state = IF conversation = "plays" THEN "active" ELSE "inactive"
  /\ monitor = "waits" /\ announced = am_state
  /\ dacp = "waits" /\ hub_lock = "nobody" /\ hub = "waits" /\ hub_items = 0 /\ stopped = {}

Go(t, place) == at' = [at EXCEPT ![t] = place]

\* The end of going_inactive: the user's script, and an item for the hub.
GoingInactive ==
  /\ announced' = IF announced = "active" THEN "inactive" ELSE "twice"
  /\ hub_items' = IF hub_items < 2 /\ "metadata" \notin stopped THEN hub_items + 1 ELSE hub_items

-----------------------------------------------------------------------------
\* intHandler and termHandler, or on_handle_quit and the end of the GLib thread
AskToExit(t) ==
  /\ asked < MaxAsked /\ asked' = asked + 1
  /\ at[t] = "out" /\ (t = "glib" => glib_loop = "runs")
  /\ Go(t, "next")
  /\ quit_requested_from_glib_mainloop' = (quit_requested_from_glib_mainloop \/ t = "glib")
  /\ glib_loop' = IF t = "glib" THEN "quit" ELSE glib_loop
  /\ UNCHANGED <<process, functions, listener, conversation, dacp, activityVars, hubVars, stopped>>

\* main's pthread_join of the listener returns, and so does main.
MainReturns ==
  /\ at["main"] = "out" /\ listener = "ended" /\ Go("main", "next")
  /\ UNCHANGED <<process, functions, asked, quit_requested_from_glib_mainloop, glib_loop, listener,
                 conversation, dacp, activityVars, hubVars, stopped>>

\* exit, of the C library
Exit(t) ==
  /\ at[t] = "next"
  /\ IF functions = <<>> THEN process' = "ended" /\ UNCHANGED <<functions, at>>
     ELSE /\ Go(t, IF Head(functions) = "exit_function" THEN "activity" ELSE "cancel")
          /\ functions' = Tail(functions) /\ process' = process
  /\ UNCHANGED <<asked, quit_requested_from_glib_mainloop, glib_loop, listener, conversation, dacp,
                 activityVars, hubVars, stopped>>

\* exit_rtsp_listener
CancelListener(t) ==
  /\ at[t] = "cancel" /\ Go(t, "join")
  /\ listener' = IF listener = "accepts" THEN "cancelled" ELSE listener
  /\ UNCHANGED <<process, functions, asked, quit_requested_from_glib_mainloop, glib_loop,
                 conversation, dacp, activityVars, hubVars, stopped>>
BugJoined == TRUE  \* "not sure you need this"
Joined == SecondJoin = "waits" => listener = "ended"
JoinListener(t) ==
  /\ at[t] = "join" /\ Joined /\ Go(t, "next")
  /\ UNCHANGED <<process, functions, asked, quit_requested_from_glib_mainloop, glib_loop, listener,
                 conversation, dacp, activityVars, hubVars, stopped>>

\* exit_function: activity_monitor_stop, first half,
BugCountsAsActive == am_state = "active"
CountsAsActive == am_state \in {"active", "timing_out"}
StopActivity(t) ==
  /\ at[t] = "activity" /\ Go(t, IF CountsAsActive THEN "hook" ELSE "monitor")
  /\ UNCHANGED <<process, functions, asked, quit_requested_from_glib_mainloop, glib_loop, listener,
                 conversation, dacp, activityVars, hubVars, stopped>>
SayInactive(t) ==
  /\ at[t] = "hook" /\ Go(t, "monitor")
  /\ GoingInactive /\ am_state' = "inactive"
  /\ UNCHANGED <<process, functions, asked, quit_requested_from_glib_mainloop, glib_loop, listener,
                 conversation, dacp, timed, monitor, hub_lock, hub, stopped>>
\* its second half,
StopMonitor(t) ==
  /\ at[t] = "monitor" /\ Go(t, "dacp")
  /\ Calm => monitor = "waits"
  /\ monitor' = "ended" /\ stopped' = stopped \cup {"activity"}
  /\ UNCHANGED <<process, functions, asked, quit_requested_from_glib_mainloop, glib_loop, listener,
                 conversation, timed, am_state, announced, dacp, hubVars>>
\* dacp_monitor_stop: who holds the hub's lock when it is cancelled does not give it back,
StopDacp(t) ==
  /\ at[t] = "dacp" /\ Go(t, "loop")
  /\ Calm => dacp = "waits"
  /\ dacp' = "ended" /\ stopped' = stopped \cup {"dacp"}
  /\ UNCHANGED <<process, functions, asked, quit_requested_from_glib_mainloop, glib_loop, listener,
                 conversation, activityVars, hubVars>>
QuitLoop(t) ==
  /\ at[t] = "loop" /\ Go(t, "metadata")
  /\ glib_loop' = "quit"
  /\ UNCHANGED <<process, functions, asked, quit_requested_from_glib_mainloop, listener,
                 conversation, dacp, activityVars, hubVars, stopped>>
\* metadata_stop: the hub's thread cannot be cancelled while it waits for the lock,
StopMetadata(t) ==
  /\ at[t] = "metadata" /\ hub /= "locks" /\ Go(t, "output")
  /\ hub' = "ended" /\ hub_lock' = IF hub_lock = "hub" THEN "nobody" ELSE hub_lock
  /\ stopped' = stopped \cup {"metadata"}
  /\ UNCHANGED <<process, functions, asked, quit_requested_from_glib_mainloop, glib_loop, listener,
                 conversation, dacp, activityVars, hub_items>>
\* deinit of the output,
StopOutput(t) ==
  /\ at[t] = "output" /\ Go(t, "rest")
  /\ stopped' = stopped \cup {"output"}
  /\ UNCHANGED <<process, functions, asked, quit_requested_from_glib_mainloop, glib_loop, listener,
                 conversation, dacp, activityVars, hubVars>>
\* and the freeing of the rest.
FinishExitFunction(t) ==
  /\ at[t] = "rest" /\ Go(t, "next")
  /\ UNCHANGED <<process, functions, asked, quit_requested_from_glib_mainloop, glib_loop, listener,
                 conversation, dacp, activityVars, hubVars, stopped>>

ExitStep(t) ==
  \/ Exit(t) \/ CancelListener(t) \/ JoinListener(t) \/ StopActivity(t) \/ SayInactive(t)
  \/ StopMonitor(t) \/ StopDacp(t) \/ QuitLoop(t) \/ StopMetadata(t) \/ StopOutput(t)
  \/ FinishExitFunction(t)

-----------------------------------------------------------------------------
\* rtsp_listen_loop_cleanup_handler: cancel the conversation, and join it.
BugCancelled(c) == c
Cancelled(c) == IF c = "plays" THEN "stops" ELSE c
CleanUpListener ==
  /\ \/ /\ listener = "cancelled" /\ listener' = "joins"
        /\ conversation' = Cancelled(conversation)
     \/ /\ listener = "joins" /\ conversation \in {"none", "ended"} /\ listener' = "ended"
        /\ conversation' = conversation
  /\ UNCHANGED <<exitVars, dacp, activityVars, hubVars, stopped>>

\* The source ends the conversation.
SourceEnds ==
  /\ conversation = "plays" /\ conversation' = "stops"
  /\ UNCHANGED <<exitVars, listener, dacp, activityVars, hubVars, stopped>>

\* rtsp_conversation_thread_cleanup_function: player_stop,
StopPlayer ==
  /\ conversation = "stops" /\ conversation' = "signifies"
  /\ UNCHANGED <<exitVars, listener, dacp, activityVars, hubVars, stopped>>
\* and activity_monitor_signify_activity; the monitor soon begins to time out.
Signify ==
  /\ conversation = "signifies"
  /\ IF am_state = "active" /\ ~timed
     THEN am_state' = "inactive" /\ conversation' = "hook"
     ELSE /\ am_state' = IF am_state = "active" /\ monitor = "waits" THEN "timing_out" ELSE am_state
          /\ conversation' = "ended"
  /\ UNCHANGED <<exitVars, listener, dacp, timed, monitor, announced, hubVars, stopped>>
ConversationHook ==
  /\ conversation = "hook" /\ conversation' = "ended"
  /\ GoingInactive
  /\ UNCHANGED <<exitVars, listener, dacp, timed, am_state, monitor, hub_lock, hub, stopped>>

\* The activity monitor's thread, once the player has been inactive for long.
TimeUp ==
  /\ monitor = "waits" /\ am_state = "timing_out"
  /\ Calm => functions /= <<>>
  /\ am_state' = "inactive" /\ monitor' = "hook"
  /\ UNCHANGED <<exitVars, listener, conversation, dacp, timed, announced, hubVars, stopped>>
MonitorHook ==
  /\ monitor = "hook" /\ monitor' = "waits" /\ GoingInactive
  /\ UNCHANGED <<exitVars, listener, conversation, dacp, timed, am_state, hub_lock, hub, stopped>>

\* The DACP monitor has the watchers of the hub run, unless it has been cancelled,
RunWatchers ==
  /\ dacp = "waits" /\ hub_lock = "nobody" /\ \A t \in {"main", "glib"} : at[t] /= "dacp"
  /\ dacp' = "watchers" /\ hub_lock' = "dacp"
  /\ UNCHANGED <<exitVars, listener, conversation, activityVars, hub, hub_items, stopped>>
WatchersDone ==
  /\ dacp = "watchers" /\ dacp' = "waits" /\ hub_lock' = "nobody"
  /\ UNCHANGED <<exitVars, listener, conversation, activityVars, hub, hub_items, stopped>>

\* and the hub's thread deals with an item.
HubStep ==
  /\ \/ hub = "waits" /\ hub_items > 0 /\ hub_items' = hub_items - 1
        /\ hub' = "locks" /\ UNCHANGED hub_lock
     \/ hub = "locks" /\ hub_lock = "nobody" /\ hub_lock' = "hub"
        /\ hub' = "works" /\ UNCHANGED hub_items
     \/ hub = "works" /\ hub' = "waits" /\ hub_lock' = "nobody" /\ UNCHANGED hub_items
  /\ UNCHANGED <<exitVars, listener, conversation, dacp, activityVars, stopped>>

ConversationStep == StopPlayer \/ Signify \/ ConversationHook
ShutdownNext ==
  /\ process = "runs"
  /\ \/ \E t \in Exiters : AskToExit(t)
     \/ \E t \in {"main", "glib"} : ExitStep(t)
     \/ MainReturns \/ CleanUpListener \/ SourceEnds \/ ConversationStep
     \/ TimeUp \/ MonitorHook \/ RunWatchers \/ WatchersDone \/ HubStep

\* Threads run. Each of these is done finitely often, so that one condition will do for all,
EndingStep ==
  /\ process = "runs"
  /\ \/ CleanUpListener \/ ConversationStep \/ MonitorHook \/ HubStep
     \/ \E t \in {"main", "glib"} : ExitStep(t)
\* while the monitor may have watchers run again and again.
ShutdownFairness ==
  /\ WF_shutdownVars(EndingStep)
  /\ WF_shutdownVars(process = "runs" /\ WatchersDone)

ShutdownSpec == ShutdownInit /\ [][ShutdownNext]_shutdownVars /\ ShutdownFairness

-----------------------------------------------------------------------------
(* Properties *)

\* What a conversation still needs.
Needs ==
  CASE conversation \in {"plays", "stops"} -> Services
    [] conversation \in {"signifies", "hook"} -> {"activity", "metadata"}
    [] OTHER -> {}

\* Nothing is stopped that a conversation still uses, be it for its end: the device, the locks of
\* the DACP client, the queues. False if the second join of the listener is refused, or if the
\* program is asked to end twice. From exit_rtsp_listener and the order of the atexit functions.
UsersGoFirst == Needs \cap stopped = {}

\* After a signal the program ends with everything stopped, and with the end of activity announced
\* once, whoever found it: the conversation, the monitor when it timed out, or the exit. After
\* Quit main returns as soon as the listener has ended, and so may end the process first.
\* From activity_monitor_stop and exit_function.
StopsEverything ==
  process = "ended" /\ ~quit_requested_from_glib_mainloop =>
    stopped = Services /\ announced = "inactive"

\* A program that is asked to end does, whatever its threads are doing. Unless Calm, the DACP monitor
\* may be cancelled with the hub's lock, for which the hub's thread then waits for good.
\* From exit_function and the joins in it.
ExitCompletes == asked > 0 ~> process = "ended"
=============================================================================
