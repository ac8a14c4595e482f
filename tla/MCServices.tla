------------------------------ MODULE MCServices ------------------------------
(***************************************************************************)
(* Small components for TLC, one after the other in one run.  A behaviour  *)
(* is one of a single component, named by part; the variables of the       *)
(* others stay as they began, so that a property of one of them says       *)
(* nothing of those behaviours.  Fairness is asked of the component that   *)
(* runs.  BufferedRead and ActivityMonitor are extended, the others are    *)
(* instances:                                                              *)
(*   Queues   MetadataQueues,                                              *)
(*   Dacp     DacpMonitor,                                                 *)
(*   Sync     PlayerSync, with discontinuities that come one at a time,    *)
(*   Ending   Shutdown, where a second join waits.                         *)
(***************************************************************************)
EXTENDS BufferedRead, ActivityMonitor, FiniteSets

CONSTANTS
  \* MetadataQueues
  QueueCount, Capacity, Senders, MaxMessage, Stuck,
  \* DacpMonitor
  Servers, Clients, MaxBad,
  \* PlayerSync
  Length, History, Tolerance, Threshold, Settling, Chunk, LeadIn, Desired, LongestWait, Leads,
  Gaps, Gone, MaxTroubles, MaxStall

\* No queue is without room.
ASSUME QueuesAssumption ==
  /\ QueueCount \in Nat \ {0} /\ Capacity \in [1 .. QueueCount -> Nat \ {0}]
  /\ MaxMessage \in Nat

ASSUME DacpAssumption == MaxBad \in Nat /\ Clients \subseteq Servers \union {"no id"}

\* A wait of buffer_get_frame is no longer than what the device is to hold, and a frame.
ASSUME SyncAssumption ==
  /\ Length \in Nat \ {0} /\ History \in Nat \ {0} /\ Chunk \in Nat \ {0}
  /\ Tolerance \in Nat /\ Threshold \in Nat /\ Settling \in Nat /\ LeadIn \in Nat
  /\ Desired \in Nat /\ LongestWait \in 1 .. Desired + 1
  /\ Leads \subseteq Int /\ Gaps \subseteq Int /\ MaxTroubles \in Nat /\ MaxStall \in Nat

VARIABLES
  part,
  \* MetadataQueues
  items, q_toq, q_eoq, count, waiting, thread, pack, sender, messages, referenceCount,
  added, q_taken,
  \* DacpMonitor
  dacp_id, port, scan_enable, dacp_server_active, dacp_monitor, result, bad_result_count,
  browsed, news, advertised, reachable,
  \* PlayerSync
  ab_buffering, lead, queue, primed, inTime, first, syncError, frames_to_skip, skipping,
  sync_samples, last_sample_index, play_number, target, landed, replaced, troubles,
  \* Shutdown
  process, functions, exiting, requests, quit_requested_from_glib_mainloop, glib_loop, listener,
  conversation, exit_timed, am_state, exit_monitor, announced, dacp, hub_lock, hub, hub_items,
  stopped

queueVars ==
  <<items, q_toq, q_eoq, count, waiting, thread, pack, sender, messages, referenceCount,
    added, q_taken>>
dacpVars ==
  <<dacp_id, port, scan_enable, dacp_server_active, dacp_monitor, result, bad_result_count,
    browsed, news, advertised, reachable>>
syncVars ==
  <<ab_buffering, lead, queue, primed, inTime, first, syncError, frames_to_skip, skipping,
    sync_samples, last_sample_index, play_number, target, landed, replaced, troubles>>
shutdownVars ==
  <<process, functions, exiting, requests, quit_requested_from_glib_mainloop, glib_loop, listener,
    conversation, exit_timed, am_state, exit_monitor, announced, dacp, hub_lock, hub, hub_items,
    stopped>>
allVars == <<part, vars, monitorVars, queueVars, dacpVars, syncVars, shutdownVars>>

Queues == INSTANCE MetadataQueues WITH
  Queues <- QueueCount, toq <- q_toq, eoq <- q_eoq, received <- messages, taken <- q_taken

Dacp == INSTANCE DacpMonitor WITH monitor <- dacp_monitor

Sync == INSTANCE PlayerSync WITH Apart <- TRUE, Wake <- LongestWait, error <- syncError

Ending == INSTANCE Shutdown WITH
  Exiters <- {"main", "glib"}, MaxAsked <- 1, SecondJoin <- "waits", Calm <- TRUE,
  at <- exiting, asked <- requests, timed <- exit_timed, monitor <- exit_monitor

Parts == {"reader", "activity", "queues", "dacp", "sync", "exit"}

MCInit ==
  /\ part \in Parts
  /\ Init /\ Queues!Init /\ Dacp!Init
  /\ Sync!SyncInit /\ (part /= "sync" => lead = 0)
  /\ MonitorInit /\ (part /= "activity" => timed)
  /\ Ending!ShutdownInit /\ (part /= "exit" => conversation = "none" /\ exit_timed)

MCNext ==
  /\ UNCHANGED part
  /\ \/ part = "reader" /\ Next
     \/ part /= "reader" /\ UNCHANGED vars
  /\ \/ part = "activity" /\ MonitorNext
     \/ part /= "activity" /\ UNCHANGED monitorVars
  /\ \/ part = "queues" /\ Queues!Next
     \/ part /= "queues" /\ UNCHANGED queueVars
  /\ \/ part = "dacp" /\ Dacp!Next
     \/ part /= "dacp" /\ UNCHANGED dacpVars
  /\ \/ part = "sync" /\ Sync!SyncNext
     \/ part /= "sync" /\ UNCHANGED syncVars
  /\ \/ part = "exit" /\ Ending!ShutdownNext
     \/ part /= "exit" /\ UNCHANGED shutdownVars

MCFairness ==
  /\ WF_vars(part = "reader" /\ ReaderStep)
  /\ WF_vars(part = "reader" /\ ConsumerStep)
  /\ WF_monitorVars(part = "activity" /\ MonitorStep)
  /\ SF_monitorVars(part = "activity" /\ TimeUp)
  /\ \A t \in Callers : WF_monitorVars(part = "activity" /\ CallerStep(t))
  /\ \A s \in Senders : WF_queueVars(part = "queues" /\ Queues!SenderStep(s))
  /\ \A q \in 1 .. QueueCount :
       /\ WF_queueVars(part = "queues" /\ Queues!Get(q))
       /\ q \notin Stuck => WF_queueVars(part = "queues" /\ Queues!Use(q))
  /\ WF_dacpVars(part = "dacp" /\ Dacp!MonitorStep)
  /\ SF_dacpVars(part = "dacp" /\ Dacp!PortUpdate)
  /\ WF_syncVars(part = "sync" /\ Sync!PlayStep)
  /\ WF_shutdownVars(part = "exit" /\ Ending!EndingStep)
  /\ WF_shutdownVars(part = "exit" /\ process = "runs" /\ Ending!WatchersDone)

MCSpec == MCInit /\ [][MCNext]_allVars /\ MCFairness

\* See the modules for what these say.
TypesOK ==
  /\ TypeOK /\ MonitorTypeOK /\ Queues!TypeOK /\ Dacp!TypeOK /\ Sync!SyncTypeOK
  /\ Ending!ShutdownTypeOK
ServicesKept == Queues!QueuesKeepItems /\ Ending!UsersGoFirst /\ Ending!StopsEverything
NobodyWaits == Queues!QueuesServe /\ Ending!ExitCompletes
GoneIsNoticed == Dacp!GoneIsNoticed
FramesOnTarget == Sync!FramesOnTarget
SyncRegained == part = "sync" => Sync!SyncRegained

-----------------------------------------------------------------------------
(* The values of the constants that the configuration cannot write. *)
TwoCapacities == <<1, 2>>
LateOrEarly == {-5, 0, 8}
BackOrForth == {-5, 6}
=============================================================================
