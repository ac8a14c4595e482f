------------------------------- MODULE PtpAnchor -------------------------------
(***************************************************************************)
(* The PTP anchor of a connection (rtp.c).  The source says that frame     *)
(* anchor_rtptime is due at anchor_time on anchor_clock; the player and    *)
(* the buffered audio processor ask which frame is due when on the local   *)
(* clock, through the offset that NQPTP gives for the current master clock.*)
(* The answer goes through a second set of variables, last_anchor_*, which *)
(* goes on answering when the master clock changes, and from which the     *)
(* anchor is recalculated for the new master clock after a while.          *)
(*                                                                         *)
(* Nothing locks any of this.  The anchor is set by the RTSP thread or the *)
(* control receiver, in several stores, while two threads ask.             *)
(*                                                                         *)
(* Frames and time are in one unit, and a clock is the local clock plus    *)
(* its offset.  A line is the local time at which frame 0 would be due:    *)
(* what the anchor stands for.                                             *)
(***************************************************************************)
EXTENDS Integers, FiniteSets

CONSTANTS
  Clocks,     \* the identities of master clocks
  Offset,     \* the offset of each from the local clock
  Lines,      \* the lines the source may give
  Frames,     \* the frames it may anchor
  Settle,     \* 0.4 s: how long a clock must have been master
  Stable,     \* 5 s: how long last_anchor information holds
  Steady,     \* subset of BOOLEAN: whether the source is steady
  Overlaps    \* subset of BOOLEAN: whether calls may overlap

Getters == {"player", "processor"}

\* What ptp_get_clock_info gives when it does not give a clock.
Failures == {"no_master", "unavailable"}

VARIABLES
  remoteValid,      \* anchor_remote_info_is_valid
  anchor,           \* anchor_rtptime, anchor_time, anchor_clock
  lastValid,        \* last_anchor_info_is_valid
  last,             \* last_anchor_rtptime, last_anchor_local_time
  master,           \* what NQPTP says: the master clock, or a failure
  sinceMastership,  \* time since master_clock_start_time
  sinceUpdate,      \* time since last_anchor_time_of_update
  sinceValidity,    \* time since last_anchor_validity_start_time
  set,              \* where the setter is, and the anchor it is setting
  get,              \* where each getter is, and what it has read of NQPTP's record
  steady,           \* see Taken
  overlap,          \* calls may overlap
  given             \* the lines the source has given since the last reset, the
                    \* current one and the clock it named (history)

conn == <<remoteValid, anchor, lastValid, last>>
ages == <<sinceMastership, sinceUpdate, sinceValidity>>
vars == <<conn, master, ages, set, get, steady, overlap, given>>

Idle == [at |-> "idle"]
NoGet == [at |-> "idle", clock |-> "no_master"]
Unset == "none"
NoLine == [all |-> {}, current |-> 0, clock |-> Unset]

TypeOK ==
  /\ {remoteValid, lastValid, steady, overlap} \subseteq BOOLEAN
  /\ anchor \in [rtp: Frames \union {0}, time: Int, clock: Clocks \union {Unset}]
  /\ last \in [rtp: Frames \union {0}, local: Int]
  /\ master \in Clocks \union Failures
  /\ sinceMastership \in 0 .. Stable
  /\ sinceUpdate \in 0 .. Stable + 1 /\ sinceValidity \in 0 .. Stable
  /\ set = Idle \/ set \in [at: {"time", "clock"}, time: Int, clock: Clocks]
  /\ get \in [Getters -> [at: {"idle", "look", "copy", "rebase", "answer", "deny"},
                          clock: Clocks \union Failures]]
  /\ given \in [all: SUBSET Lines, current: Int, clock: Clocks \union {Unset}]

Init ==
  /\ remoteValid = FALSE /\ lastValid = FALSE
  /\ anchor = [rtp |-> 0, time |-> 0, clock |-> Unset]
  /\ last = [rtp |-> 0, local |-> 0]
  /\ master = "unavailable" /\ sinceMastership = 0
  /\ sinceUpdate = Stable + 1 /\ sinceValidity = Stable
  /\ set = Idle /\ get = [t \in Getters |-> NoGet]
  /\ steady \in Steady /\ overlap \in Overlaps
  /\ given = NoLine

MayCall == overlap \/ (set = Idle /\ \A t \in Getters : get[t].at = "idle")

(***************************************************************************)
(* NQPTP and time                                                          *)
(***************************************************************************)
\* A steady source: its anchors name the master clock, and that does not change
\* until the anchor has been asked for.
Taken == lastValid /\ last.rtp = anchor.rtp /\ last.local + Offset[anchor.clock] = anchor.time

MasterChanges(m) ==
  /\ m /= master
  /\ steady /\ remoteValid => set = Idle /\ Taken
  /\ master' = m /\ sinceMastership' = 0
  /\ UNCHANGED <<conn, sinceUpdate, sinceValidity, set, get, steady, overlap, given>>

Older(age, limit) == IF age < limit THEN age + 1 ELSE age

\* A unit of time goes by; calls are short.
Tick ==
  /\ set = Idle /\ \A t \in Getters : get[t].at = "idle"
  /\ sinceMastership' = Older(sinceMastership, Stable)
  /\ sinceUpdate' = Older(sinceUpdate, Stable + 1)
  /\ sinceValidity' = Older(sinceValidity, Stable)
  /\ UNCHANGED <<conn, master, set, get, steady, overlap, given>>

(***************************************************************************)
(* set_ptp_anchor_info, a store at a time                                  *)
(***************************************************************************)
SetAnchor(line, frame, clock) ==
  /\ set = Idle /\ MayCall
  /\ steady => clock = master
  /\ LET time == line + frame + Offset[clock] IN
     /\ lastValid' = (lastValid /\ ~(/\ clock = anchor.clock
                                     /\ anchor.rtp /= frame \/ anchor.time /= time
                                     /\ sinceValidity < Stable))
     /\ set' = [at |-> "time", time |-> time, clock |-> clock]
  /\ remoteValid' = TRUE
  /\ anchor' = [anchor EXCEPT !.rtp = frame]
  /\ given' = [all |-> given.all \union {line}, current |-> line, clock |-> clock]
  /\ UNCHANGED <<last, master, ages, get, steady, overlap>>

SetTime ==
  /\ set.at = "time"
  /\ anchor' = [anchor EXCEPT !.time = set.time]
  /\ set' = [set EXCEPT !.at = "clock"]
  /\ UNCHANGED <<remoteValid, lastValid, last, master, ages, get, steady, overlap, given>>

SetClock ==
  /\ set.at = "clock"
  /\ anchor' = [anchor EXCEPT !.clock = set.clock]
  /\ set' = Idle
  /\ UNCHANGED <<remoteValid, lastValid, last, master, ages, get, steady, overlap, given>>

\* reset_ptp_anchor_info: at a pause, a flush, the end of play, or when no control
\* packet has come for 7 seconds.
Reset ==
  /\ set = Idle /\ MayCall
  /\ lastValid' = FALSE /\ remoteValid' = FALSE
  /\ given' = NoLine
  /\ UNCHANGED <<anchor, last, master, ages, set, get, steady, overlap>>

(***************************************************************************)
(* get_ptp_anchor_local_time_info                                          *)
(***************************************************************************)
Goto(t, place) == get' = [get EXCEPT ![t].at = place]

\* ptp_get_clock_info, and the clock must have been master for some time.
GetClock(t) ==
  /\ get[t].at = "idle" /\ MayCall
  /\ remoteValid
  /\ get' = [get EXCEPT ![t] =
       [at |-> IF master \in Clocks /\ sinceMastership >= Settle THEN "look" ELSE "deny",
        clock |-> master]]
  /\ UNCHANGED <<conn, master, ages, set, steady, overlap, given>>

\* "calculating back from the local anchor information and the new clock's
\* advertised offset"
Rebased(t) == last.local + Offset[get[t].clock]

BugOnMaster(t) == get[t].clock = anchor.clock /\ ~lastValid
OnMaster(t) == get[t].clock = anchor.clock

\* If the anchor is on the master clock, take it.  If not, what was taken before
\* still answers, if there is any, and after a time it becomes the anchor.
Look(t) ==
  /\ get[t].at = "look"
  /\ \/ /\ OnMaster(t)
        /\ last' = [last EXCEPT !.rtp = anchor.rtp]
        /\ Goto(t, "copy")
        /\ UNCHANGED anchor
     \/ /\ ~OnMaster(t) /\ ~lastValid
        /\ Goto(t, "deny")
        /\ UNCHANGED <<anchor, last>>
     \/ /\ ~OnMaster(t) /\ lastValid /\ sinceUpdate <= Stable
        /\ Goto(t, "answer")
        /\ UNCHANGED <<anchor, last>>
     \/ /\ ~OnMaster(t) /\ lastValid /\ sinceUpdate > Stable
        /\ anchor' = [anchor EXCEPT !.time = Rebased(t)]
        /\ Goto(t, "rebase")
        /\ UNCHANGED last
  /\ UNCHANGED <<remoteValid, lastValid, master, ages, set, steady, overlap, given>>

RebaseClock(t) ==
  /\ get[t].at = "rebase"
  /\ anchor' = [anchor EXCEPT !.clock = get[t].clock]
  /\ Goto(t, "answer")
  /\ UNCHANGED <<remoteValid, lastValid, last, master, ages, set, steady, overlap, given>>

Local(t) == anchor.time - Offset[get[t].clock]

CopyTime(t) ==
  /\ get[t].at = "copy"
  /\ last' = [last EXCEPT !.local = Local(t)]
  /\ sinceUpdate' = 0
  /\ sinceValidity' = IF lastValid THEN sinceValidity ELSE sinceMastership
  /\ lastValid' = TRUE
  /\ Goto(t, "answer")
  /\ UNCHANGED <<remoteValid, anchor, master, sinceMastership, set, steady, overlap, given>>

Finish(t) ==
  /\ get' = [get EXCEPT ![t] = NoGet]
  /\ UNCHANGED <<conn, master, ages, set, steady, overlap, given>>

\* The answer is clock_ok.  The caller's variables are written if lastValid.
Answer(t) == get[t].at = "answer" /\ Finish(t)

\* It is something else, and the caller does without.
Deny(t) == get[t].at = "deny" /\ Finish(t)

Next ==
  \/ \E m \in Clocks \union Failures : MasterChanges(m)
  \/ Tick
  \/ \E line \in Lines, f \in Frames, c \in Clocks : SetAnchor(line, f, c)
  \/ SetTime \/ SetClock \/ Reset
  \/ \E t \in Getters :
       GetClock(t) \/ Look(t) \/ RebaseClock(t) \/ CopyTime(t) \/ Answer(t) \/ Deny(t)

Spec == Init /\ [][Next]_vars

(***************************************************************************)
(* Properties                                                              *)
(***************************************************************************)
LastLine == last.local - last.rtp

\* What a caller is told is a line that the source has given since the last reset,
\* however master clocks come and go.  It is so only of a steady source: otherwise the
\* anchor may be calculated anew from one that was replaced.
AnswersGivenLine == [][\A t \in Getters : Answer(t) => LastLine \in given.all]_vars

\* If the source is steady and calls do not overlap, an answer is a line it has given
\* since the last reset, never a mixture of two anchors or of an anchor and the offset
\* of another clock; and it is the current one, not one that it replaced, when the
\* master clock is the one the source named last.
AnswersRight ==
  [][\A t \in Getters : Answer(t) /\ steady /\ ~overlap =>
       /\ LastLine \in given.all
       /\ get[t].clock = given.clock => LastLine = given.current]_vars

\* With clock_ok, the caller's variables have been written.  It is not so when calls
\* overlap: the anchor may be reset between the two places that look at it.
OkIsWritten == [][\A t \in Getters : Answer(t) => lastValid]_vars
=============================================================================
