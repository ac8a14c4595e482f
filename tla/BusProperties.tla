----------------------------- MODULE BusProperties -----------------------------
(***************************************************************************)
(* A property on D-Bus and what it stands for (dbus-service.c).  Anyone on *)
(* the bus may set it; a callback of the notification then changes a       *)
(* setting of the program, or sends a command to the source's remote       *)
(* control, and puts the property back if the value will not do.  On the   *)
(* other side the DACP monitor asks the source and files what it answers   *)
(* in the metadata hub, and the watchers of the hub (MPRIS is the other)   *)
(* set the property if it is different - which is notified too, so that    *)
(* the source is told what it has said.                                    *)
(*                                                                         *)
(* A behaviour is about one property, subject: "loop_status" (shuffle is   *)
(* like it, with a Boolean), "length" for a number with a range            *)
(* (convolution_maximum_length_in_seconds, drift_tolerance, ...; a word of *)
(* a list, as volume_control_profile, is treated in the same way), and     *)
(* "standby_mode", which the activity monitor goes by.                     *)
(* GLib notifies in the thread that sets a property, whether the value is  *)
(* another one or not; a notification that comes while one of the same     *)
(* property is being handled makes that one start again.                   *)
(***************************************************************************)
EXTENDS Integers

CONSTANTS
  Asked,      \* what is set on the bus, by subject
  Accepted,   \* what the callback accepts, by subject
  Configured, \* what the program may start with, by subject
  Apart,      \* activity begins and ends while no standby mode is being set, and after the start
  MaxChanges  \* bound: what is set on the bus, chosen at the source, and begun or ended

Nobody == "nobody"
NotAvailable == "not available"
Threads == {"bus", "hub", "monitor", "activity"}

VARIABLES
  subject,
  property,   \* on the bus
  mpris,      \* the loop status on MPRIS
  shown_active, service_is_running,
  setting,    \* config
  keep_dac_busy,
  active,     \* what the activity monitor has found
  source,     \* what the source has
  repeat_status, \* of the metadata store
  hub_lock,   \* metadata_hub_re_lock
  emission,   \* [thread, again]: the notification being handled
  at, held,   \* where threads are, and what they have in hand
  \* history
  wanted,     \* what was chosen last, on the bus or at the source
  alone,      \* nothing has come between that and the next answer of the source
  undisturbed, polled,  \* nothing has changed since the source was asked; nor since that was filed
  changes

busVars ==
  <<subject, property, mpris, shown_active, service_is_running, setting, keep_dac_busy, active,
    source, repeat_status, hub_lock, emission, at, held, wanted, alone, undisturbed, polled,
    changes>>

BusTypeOK ==
  /\ subject \in DOMAIN Accepted
  /\ property \in Asked[subject] \cup Accepted[subject] \cup Configured[subject] \cup {NotAvailable}
  /\ {mpris, repeat_status} \subseteq Accepted[subject] \cup {NotAvailable}
  /\ setting \in Accepted[subject] \cup Configured[subject]
  /\ {shown_active, service_is_running, keep_dac_busy, active, alone, undisturbed, polled}
       \subseteq BOOLEAN
  /\ source \in Accepted[subject] /\ wanted \in Accepted[subject]
  /\ hub_lock \in {Nobody, "hub", "monitor"}
  /\ emission \in [thread : {Nobody} \cup Threads, again : BOOLEAN]
  /\ at \in [Threads -> {"start", "watching", "started", "idle", "callback", "busy", "send", "end",
                         "file", "look", "set", "mpris", "begun", "ended"}]
  /\ changes \in 0 .. MaxChanges

IsLoop == subject = "loop_status"
IsStandby == subject = "standby_mode"

BusInit ==
  /\ subject \in DOMAIN Accepted
  /\ property = NotAvailable /\ mpris = NotAvailable /\ repeat_status = NotAvailable
  /\ shown_active = FALSE /\ service_is_running = FALSE /\ active = FALSE
  /\ setting \in Configured[subject]
  /\ keep_dac_busy = (IsStandby /\ setting = "always")
  /\ source \in Accepted[subject] /\ (~IsLoop => source = CHOOSE v \in Accepted[subject] : TRUE)
  /\ hub_lock = Nobody /\ emission = [thread |-> Nobody, again |-> FALSE]
  /\ at = [t \in Threads |-> IF t = "bus" THEN "start" ELSE "idle"]
  /\ held = [t \in Threads |-> NotAvailable]
  /\ wanted = source
  /\ alone = FALSE /\ undisturbed = FALSE /\ polled = FALSE /\ changes = 0

AllIdle == \A t \in Threads : at[t] = "idle"
Changed == changes < MaxChanges /\ changes' = changes + 1
Disturb == undisturbed' = FALSE /\ polled' = FALSE

-----------------------------------------------------------------------------
\* Where a thread goes on when its notification has been handled.
Onward(t) ==
  IF t /= "bus" THEN "mpris" ELSE IF service_is_running THEN "idle" ELSE "started"

\* g_object_notify, of GLib
Notify(t) ==
  IF emission.thread = Nobody
  THEN emission' = [thread |-> t, again |-> FALSE] /\ at' = [at EXCEPT ![t] = "callback"]
  ELSE emission' = [emission EXCEPT !.again = TRUE] /\ at' = [at EXCEPT ![t] = Onward(t)]

\* on_dbus_name_acquired: a watcher is added to the hub, properties get their values,
Acquire ==
  /\ at["bus"] = "start"
  /\ at' = [at EXCEPT !["bus"] = "watching"]
  /\ UNCHANGED <<subject, property, mpris, shown_active, service_is_running, setting, keep_dac_busy,
                 active, source, repeat_status, hub_lock, emission, held, wanted, alone, undisturbed,
                 polled, changes>>
ShowSettings ==
  /\ at["bus"] = "watching"
  /\ property' = IF IsLoop THEN NotAvailable ELSE setting
  /\ shown_active' = FALSE
  /\ Notify("bus") /\ Disturb /\ alone' = FALSE
  /\ UNCHANGED <<subject, mpris, service_is_running, setting, keep_dac_busy, active, source,
                 repeat_status, hub_lock, held, wanted, changes>>
\* and in the end the service counts as running.
Started ==
  /\ at["bus"] = "started"
  /\ service_is_running' = TRUE /\ at' = [at EXCEPT !["bus"] = "idle"]
  /\ UNCHANGED <<subject, property, mpris, shown_active, setting, keep_dac_busy, active, source,
                 repeat_status, hub_lock, emission, held, wanted, alone, undisturbed, polled, changes>>

ClientSets(v) ==
  /\ at["bus"] = "idle" /\ Changed
  /\ Apart /\ IsStandby => at["activity"] = "idle"
  /\ property' = v /\ Notify("bus") /\ Disturb
  /\ wanted' = IF v \in Accepted[subject] THEN v ELSE wanted
  /\ alone' = (v \in Accepted[subject] /\ AllIdle /\ polled)
  /\ UNCHANGED <<subject, mpris, shown_active, service_is_running, setting, keep_dac_busy, active,
                 source, repeat_status, hub_lock, held>>

\* What a callback puts back.
Restored == IF IsLoop THEN repeat_status ELSE setting

\* notify_..._callback: a value that will do is put in force,
Accept(t) ==
  /\ property \in Accepted[subject]
  /\ at' = [at EXCEPT ![t] =
              IF IsLoop THEN "send" ELSE IF IsStandby /\ property /= "auto" THEN "busy" ELSE "end"]
  /\ held' = [held EXCEPT ![t] = property]
  /\ setting' = IF IsLoop THEN setting ELSE property
  /\ UNCHANGED <<property, emission>>
\* another is replaced by what is in force,
BugRefuse(t) ==
  /\ property \notin Accepted[subject] /\ (IsLoop => property /= NotAvailable)
  /\ at' = [at EXCEPT ![t] = "end"]
  /\ UNCHANGED <<property, emission, setting, held>>
Refuse(t) ==
  /\ property \notin Accepted[subject] /\ (IsLoop => property /= NotAvailable)
  /\ property' = Restored
  /\ emission' = [emission EXCEPT !.again = TRUE]
  /\ at' = [at EXCEPT ![t] = "end"]
  /\ UNCHANGED <<setting, held>>
\* and nothing is done about a loop status that is not known.
Ignore(t) ==
  /\ IsLoop /\ property = NotAvailable
  /\ at' = [at EXCEPT ![t] = "end"]
  /\ UNCHANGED <<property, emission, setting, held>>

Callback(t) ==
  /\ at[t] = "callback"
  /\ Accept(t) \/ Refuse(t) \/ Ignore(t)
  /\ UNCHANGED <<subject, mpris, shown_active, service_is_running, keep_dac_busy, active, source,
                 repeat_status, hub_lock, wanted, alone, undisturbed, polled, changes>>

\* the second assignment of notify_disable_standby_mode_callback
KeepBusy(t) ==
  /\ at[t] = "busy"
  /\ keep_dac_busy' = (held[t] = "always")
  /\ at' = [at EXCEPT ![t] = "end"]
  /\ UNCHANGED <<subject, property, mpris, shown_active, service_is_running, setting, active, source,
                 repeat_status, hub_lock, emission, held, wanted, alone, undisturbed, polled, changes>>

\* send_simple_dacp_command: the source obeys, or never hears of it.
Send(t) ==
  /\ at[t] = "send"
  /\ \/ source' = held[t] /\ alone' = alone
     \/ source' = source /\ alone' = FALSE
  /\ IF t = "monitor" THEN UNCHANGED <<undisturbed, polled>> ELSE Disturb
  /\ at' = [at EXCEPT ![t] = "end"]
  /\ UNCHANGED <<subject, property, mpris, shown_active, service_is_running, setting, keep_dac_busy,
                 active, repeat_status, hub_lock, emission, held, wanted, changes>>

EndCallback(t) ==
  /\ at[t] = "end"
  /\ IF emission.again
     THEN emission' = [emission EXCEPT !.again = FALSE] /\ at' = [at EXCEPT ![t] = "callback"]
     ELSE emission' = [emission EXCEPT !.thread = Nobody] /\ at' = [at EXCEPT ![t] = Onward(t)]
  /\ UNCHANGED <<subject, property, mpris, shown_active, service_is_running, setting, keep_dac_busy,
                 active, source, repeat_status, hub_lock, held, wanted, alone, undisturbed, polled,
                 changes>>

-----------------------------------------------------------------------------
\* The user chooses a loop status at the source.
UserChooses(v) ==
  /\ IsLoop /\ v /= source /\ Changed
  /\ source' = v /\ wanted' = v /\ alone' = (AllIdle /\ polled) /\ Disturb
  /\ UNCHANGED <<subject, property, mpris, shown_active, service_is_running, setting, keep_dac_busy,
                 active, repeat_status, hub_lock, emission, at, held>>

\* The monitor asks for the status of play,
Ask ==
  /\ IsLoop /\ at["monitor"] = "idle"
  /\ held' = [held EXCEPT !["monitor"] = source] /\ at' = [at EXCEPT !["monitor"] = "file"]
  /\ undisturbed' = TRUE /\ alone' = (alone /\ at["bus"] = "idle")
  /\ UNCHANGED <<subject, property, mpris, shown_active, service_is_running, setting, keep_dac_busy,
                 active, source, repeat_status, hub_lock, emission, wanted, polled, changes>>

BugRunsWatchers(status) == status /= repeat_status
\* Are the watchers run after the store has been given this?
RunsWatchers(status) == TRUE

\* and files it.  It has the watchers run whether it was news or not.
File ==
  /\ at["monitor"] = "file" /\ hub_lock = Nobody
  /\ repeat_status' = held["monitor"]
  /\ IF at["bus"] /= "start" /\ RunsWatchers(held["monitor"])
     THEN hub_lock' = "monitor" /\ at' = [at EXCEPT !["monitor"] = "look"] /\ UNCHANGED polled
     ELSE hub_lock' = hub_lock /\ at' = [at EXCEPT !["monitor"] = "idle"] /\ polled' = undisturbed
  /\ UNCHANGED <<subject, property, mpris, shown_active, service_is_running, setting, keep_dac_busy,
                 active, source, emission, held, wanted, alone, undisturbed, changes>>

\* Other news reaches the hub, such as the player's position.
OtherNews ==
  /\ IsLoop /\ at["hub"] = "idle" /\ hub_lock = Nobody /\ at["bus"] /= "start"
  /\ hub_lock' = "hub" /\ at' = [at EXCEPT !["hub"] = "look"]
  /\ alone' = (alone /\ property = repeat_status)
  /\ UNCHANGED <<subject, property, mpris, shown_active, service_is_running, setting, keep_dac_busy,
                 active, source, repeat_status, emission, held, wanted, undisturbed, polled, changes>>

\* dbus_metadata_watcher: only set this if it's different
Look(t) ==
  /\ at[t] = "look"
  /\ at' = [at EXCEPT ![t] = IF property /= repeat_status THEN "set" ELSE "mpris"]
  /\ UNCHANGED <<subject, property, mpris, shown_active, service_is_running, setting, keep_dac_busy,
                 active, source, repeat_status, hub_lock, emission, held, wanted, alone, undisturbed,
                 polled, changes>>
Set(t) ==
  /\ at[t] = "set"
  /\ property' = repeat_status /\ Notify(t)
  /\ IF t = "monitor" THEN UNCHANGED <<undisturbed, polled>> ELSE Disturb
  /\ UNCHANGED <<subject, mpris, shown_active, service_is_running, setting, keep_dac_busy, active,
                 source, repeat_status, hub_lock, held, wanted, alone, changes>>
\* mpris_metadata_watcher, and the end of metadata_hub_modify_epilog
SetMpris(t) ==
  /\ at[t] = "mpris"
  /\ mpris' = repeat_status /\ hub_lock' = Nobody /\ at' = [at EXCEPT ![t] = "idle"]
  /\ polled' = IF t = "monitor" THEN undisturbed ELSE polled
  /\ UNCHANGED <<subject, property, shown_active, service_is_running, setting, keep_dac_busy, active,
                 source, repeat_status, emission, held, wanted, alone, undisturbed, changes>>

-----------------------------------------------------------------------------
\* going_active and going_inactive of the activity monitor: the property Active,
Activity ==
  /\ IsStandby /\ at["activity"] = "idle" /\ Changed
  /\ Apart => at["bus"] = "idle"
  /\ active' = ~active
  /\ shown_active' = IF service_is_running THEN active' ELSE shown_active
  /\ at' = [at EXCEPT !["activity"] = IF setting = "auto" THEN "begun" ELSE "idle"]
  /\ UNCHANGED <<subject, property, mpris, service_is_running, setting, keep_dac_busy, source,
                 repeat_status, hub_lock, emission, held, wanted, alone, undisturbed, polled>>
\* and, in the automatic mode, standby.
FollowActivity ==
  /\ at["activity"] = "begun"
  /\ keep_dac_busy' = active /\ at' = [at EXCEPT !["activity"] = "idle"]
  /\ UNCHANGED <<subject, property, mpris, shown_active, service_is_running, setting, active, source,
                 repeat_status, hub_lock, emission, held, wanted, alone, undisturbed, polled, changes>>

-----------------------------------------------------------------------------
ThreadStep(t) ==
  Callback(t) \/ KeepBusy(t) \/ Send(t) \/ EndCallback(t) \/ Look(t) \/ Set(t) \/ SetMpris(t)
MonitorStep == Ask \/ File

BusNext ==
  \/ Acquire \/ ShowSettings \/ Started \/ MonitorStep \/ OtherNews \/ Activity \/ FollowActivity
  \/ \E v \in Asked[subject] : ClientSets(v)
  \/ \E v \in Accepted[subject] : UserChooses(v)
  \/ \E t \in Threads : ThreadStep(t)

BusSpec == BusInit /\ [][BusNext]_busVars

-----------------------------------------------------------------------------
(* Properties *)

\* Once the source has been asked and has answered, with nothing else going on, the bus, MPRIS, the
\* store and the source agree: whoever set the property meanwhile, whatever order commands and
\* answers took, and though commands were lost. From the watchers that are run after every answer,
\* and from the callback that puts back what will not do.
AgreeWhenPolled ==
  IsLoop /\ AllIdle /\ polled =>
    property = source /\ mpris = source /\ repeat_status = source

\* And what was chosen last stands, if nothing came between: no answer from before it, no news
\* that has the watchers put the property back before the source has told of it, no lost command.
\* From what watchers and callbacks tell the source, who knows it already.
LastWordStands == IsLoop /\ AllIdle /\ polled /\ alone => source = wanted

\* While nobody sets it, the bus shows what the program goes by. From the callbacks of settings.
ShowsTheSetting == service_is_running /\ at["bus"] = "idle" /\ ~IsLoop => property = setting

\* What a callback puts back is something that it accepts, or else the notification never ends.
\* False of a length of more than 15 seconds, of which the settings allow 20.
\* From notify_convolution_maximum_length_in_seconds_callback.
PutsBackForGood == ~IsLoop => setting \in Accepted[subject]

\* The mode of standby is in force, and the bus tells whether the program is active; false unless
\* Apart, for neither side locks. From notify_disable_standby_mode_callback and going_inactive.
StandbyAsAsked ==
  IsStandby /\ AllIdle =>
    /\ setting = "always" => keep_dac_busy
    /\ setting = "off" => ~keep_dac_busy
    /\ service_is_running => shown_active = active
=============================================================================
