-------------------------- MODULE ActivityMonitor --------------------------
(***************************************************************************)
(* activity_monitor.c: whether the program counts as active.  The threads  *)
(* of the connections say when a player begins and ends, by calling        *)
(* activity_monitor_signify_activity; the first begin, and the last end    *)
(* when there is no active_state_timeout, change the state there and then, *)
(* so that the caller can wait for the user's scripts; when there is one,  *)
(* the monitor thread changes the state once the player has been inactive  *)
(* for that long.  The hooks run without the mutex.                        *)
(*                                                                         *)
(* A definition whose name begins with Bug is the one after it with a      *)
(* mistake in it; it is not part of the specification.                     *)
(***************************************************************************)

CONSTANTS
  Callers,   \* the threads that call activity_monitor_signify_activity
  Monitor    \* the monitor thread

ASSUME MonitorAssumption == Monitor \notin Callers

VARIABLES
  state,         \* am_inactive, am_active or am_timing_out
  player_state,  \* ps_inactive or ps_active
  pc,            \* where each caller is
  monitor,       \* the case of the monitor's switch that it is in, or its hook
  asleep,        \* whether the monitor is in pthread_cond_wait or _timedwait
  keep_dac_busy, \* what the hooks leave behind
  timed          \* whether active_state_timeout is other than 0.0

monitorVars == <<state, player_state, pc, monitor, asleep, keep_dac_busy, timed>>

MonitorTypeOK ==
  /\ state \in {"inactive", "active", "timing_out"}
  /\ player_state \in {"inactive", "active"}
  /\ pc \in [Callers -> {"idle", "going_active", "going_inactive", "signal"}]
  /\ monitor \in {"inactive", "active", "timing_out", "going_inactive"}
  /\ asleep \in BOOLEAN
  /\ keep_dac_busy \in BOOLEAN
  /\ timed \in BOOLEAN
  \* without a timeout the monitor never changes the state
  /\ ~timed => state /= "timing_out" /\ monitor /= "timing_out"

MonitorInit ==
  /\ state = "inactive" /\ player_state = "inactive"
  /\ pc = [t \in Callers |-> "idle"]
  /\ monitor = "inactive" /\ asleep = FALSE
  /\ keep_dac_busy = FALSE
  /\ timed \in BOOLEAN

(***************************************************************************)
(* activity_monitor_signify_activity                                       *)
(***************************************************************************)

\* The first critical section.
Begins(active) == state = "inactive" /\ active

Ends(active) == state = "active" /\ ~active /\ ~timed

Signify(t, active) ==
  /\ pc[t] = "idle"
  /\ player_state' = IF active THEN "active" ELSE "inactive"
  /\ state' = IF Begins(active) THEN "active" ELSE IF Ends(active) THEN "inactive" ELSE state
  /\ pc' = [pc EXCEPT ![t] = IF Begins(active) THEN "going_active"
                             ELSE IF Ends(active) THEN "going_inactive" ELSE "signal"]
  /\ UNCHANGED <<monitor, asleep, keep_dac_busy, timed>>

\* going_active or going_inactive in the caller: scripts, metadata and, in the
\* end, config.keep_dac_busy.
Hook(t) ==
  /\ pc[t] \in {"going_active", "going_inactive"}
  /\ keep_dac_busy' = (pc[t] = "going_active")
  /\ pc' = [pc EXCEPT ![t] = "signal"]
  /\ UNCHANGED <<state, player_state, monitor, asleep, timed>>

\* The second critical section.
BugSignalMonitor(t) ==              \* signals only begins
  /\ pc[t] = "signal"
  /\ asleep' = (asleep /\ player_state = "inactive")
  /\ pc' = [pc EXCEPT ![t] = "idle"]
  /\ UNCHANGED <<state, player_state, monitor, keep_dac_busy, timed>>

SignalMonitor(t) ==
  /\ pc[t] = "signal"
  /\ asleep' = FALSE
  /\ pc' = [pc EXCEPT ![t] = "idle"]
  /\ UNCHANGED <<state, player_state, monitor, keep_dac_busy, timed>>

\* The thread is cancelled in a hook: the rest is not done.
CancelledInHook(t) ==
  /\ pc[t] \in {"going_active", "going_inactive"}
  /\ pc' = [pc EXCEPT ![t] = "idle"]
  /\ UNCHANGED <<state, player_state, monitor, asleep, keep_dac_busy, timed>>

(***************************************************************************)
(* activity_monitor_thread_code                                            *)
(***************************************************************************)

\* The condition of the inner loop holds: wait (again).
Sleep ==
  /\ ~asleep
  /\ \/ monitor \in {"inactive", "timing_out"} /\ player_state = "inactive"
     \/ monitor = "active" /\ player_state = "active"
  /\ asleep' = TRUE
  /\ UNCHANGED <<state, player_state, pc, monitor, keep_dac_busy, timed>>

\* The player has become active: round the outer loop, to the state's case.
SeeActive ==
  /\ ~asleep /\ monitor = "inactive" /\ player_state = "active"
  /\ monitor' = state
  /\ UNCHANGED <<state, player_state, pc, asleep, keep_dac_busy, timed>>

\* The player has become inactive: begin to time out, unless it was dealt with.
SeeInactive ==
  /\ ~asleep /\ monitor = "active" /\ player_state = "inactive"
  /\ state' = IF state /= "inactive" THEN "timing_out" ELSE state
  /\ monitor' = state'
  /\ UNCHANGED <<player_state, pc, asleep, keep_dac_busy, timed>>

\* The player has become active again in time.
Resume ==
  /\ ~asleep /\ monitor = "timing_out" /\ player_state = "active"
  /\ state' = "active"
  /\ monitor' = "active"
  /\ UNCHANGED <<player_state, pc, asleep, keep_dac_busy, timed>>

\* pthread_cond_timedwait returns ETIMEDOUT; the player may have become active
\* without the signal having come yet.
BugTimeUp ==                        \* does not look at the player again
  /\ asleep /\ monitor = "timing_out"
  /\ asleep' = FALSE
  /\ state' = "inactive"
  /\ monitor' = "going_inactive"
  /\ UNCHANGED <<player_state, pc, keep_dac_busy, timed>>

TimeUp ==
  /\ asleep /\ monitor = "timing_out"
  /\ asleep' = FALSE
  /\ IF player_state = "active"
     THEN state' = "active" /\ monitor' = "active"
     ELSE state' = "inactive" /\ monitor' = "going_inactive"
  /\ UNCHANGED <<player_state, pc, keep_dac_busy, timed>>

\* going_inactive(0) in the monitor thread, then the mutex again.
MonitorHook ==
  /\ monitor = "going_inactive"
  /\ keep_dac_busy' = FALSE
  /\ monitor' = state
  /\ UNCHANGED <<state, player_state, pc, asleep, timed>>

MonitorStep == Sleep \/ SeeActive \/ SeeInactive \/ Resume \/ TimeUp \/ MonitorHook

CallerStep(t) == Hook(t) \/ SignalMonitor(t)

MonitorNext ==
  \/ \E t \in Callers :
       \/ \E active \in BOOLEAN : Signify(t, active)
       \/ CallerStep(t) \/ CancelledInHook(t)
  \/ MonitorStep

MonitorSpec == MonitorInit /\ [][MonitorNext]_monitorVars

\* Every thread is scheduled and scripts end.  The time of a timed wait is fixed
\* when timing out begins: signals that come while it lasts do not put it off.
FairMonitorSpec ==
  /\ MonitorSpec
  /\ WF_monitorVars(MonitorStep) /\ SF_monitorVars(TimeUp)
  /\ \A t \in Callers : WF_monitorVars(CallerStep(t))

(***************************************************************************)
(* Properties                                                              *)
(***************************************************************************)

\* Whoever changes the state, and in whatever order callers and the monitor
\* come: the program is never inactive while the player is active, and without
\* a timeout it is inactive whenever the player is.
StateFollowsPlayer ==
  /\ player_state = "active" => state /= "inactive"
  /\ ~timed /\ player_state = "inactive" => state = "inactive"

\* The signal that the player has become inactive is not lost: if the monitor,
\* which counts idle time, still sleeps as if the player were active, a caller is
\* about to signal.  (The signal that it has become active can be lost: a caller
\* is cancelled in its hook.)
NoLostSignal ==
  timed /\ asleep /\ monitor = "active" /\ player_state = "inactive" =>
    \E t \in Callers : pc[t] = "signal"

\* The program follows the player, and the monitor does not sleep through its end.
ActivityFollows == StateFollowsPlayer /\ NoLostSignal

\* "if the active end procedure is on a timer, it will be executed when the
\* timeout occurs": a player that stays inactive leaves the program inactive.
IdleTimesOut ==
  player_state = "inactive" ~> (state = "inactive" \/ player_state = "active")
=============================================================================
