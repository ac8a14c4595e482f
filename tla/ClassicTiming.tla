---------------------------- MODULE ClassicTiming ----------------------------
(***************************************************************************)
(* The clock of a Classic AirPlay session, rtp.c: rtp_timing_sender asks   *)
(* the source for the time, rtp_timing_receiver works out the difference   *)
(* between the two clocks from the replies.                                *)
(*                                                                         *)
(* Requests and replies are UDP packets, which take their time, overtake   *)
(* one another and are lost.  They all carry the same sequence number: a   *)
(* reply is taken to answer the request sent last.  The source's clock     *)
(* runs at the rate of the local one.                                      *)
(***************************************************************************)
EXTENDS Integers, Sequences

CONSTANTS
  Interval,   \* time from a request to the next (300 ms)
  Limit,      \* a longer return time is not used (200 ms)
  Delay,      \* bound: how long a packet may take
  Processing, \* bound: how long the source may take to reply
  History,    \* time_ping_history
  Factor,     \* dispersion_factor, a percentage: how dispersions age
  MaxTime     \* bound: the time that is looked at

Offset == 10  \* the source's clock less the local one

VARIABLES
  now,
  departure_time,  \* of the last request
  requests,        \* under way: when they were sent
  replies,         \* under way: when the source got the request, and replied
  time_pings,      \* the newest first
  difference       \* local_to_remote_time_difference, doubled, and the dispersion it was chosen for

vars == <<now, departure_time, requests, replies, time_pings, difference>>

Times == 0 .. MaxTime
Nothing == [offset |-> 2 * Offset, dispersion |-> 0]

TypeOK ==
  /\ now \in Times /\ departure_time \in Times \union {-Interval}
  /\ requests \subseteq Times
  /\ \A r \in replies : r.received \in Times /\ r.sent \in r.received .. MaxTime
  /\ Len(time_pings) <= History
  /\ \A i \in DOMAIN time_pings : time_pings[i].dispersion >= 0

Init ==
  /\ now = 0 /\ departure_time = -Interval
  /\ requests = {} /\ replies = {}
  /\ time_pings = <<>> /\ difference = Nothing

(***************************************************************************)
(* Time and the network                                                    *)
(***************************************************************************)
\* A packet that has been under way for too long is lost.  The sender does not oversleep.
Tick ==
  /\ now < MaxTime /\ now < departure_time + Interval
  /\ now' = now + 1
  /\ requests' = {t \in requests : now' - t <= Delay + Processing}
  /\ replies' = {r \in replies : now' - r.sent <= Delay}
  /\ UNCHANGED <<departure_time, time_pings, difference>>

\* The request reaches the source, which replies after a while.
Reply(t, processing) ==
  /\ t \in requests /\ now - processing >= t /\ now - processing - t <= Delay
  /\ requests' = requests \ {t}
  /\ replies' = replies \union {[received |-> now - processing, sent |-> now]}
  /\ UNCHANGED <<now, departure_time, time_pings, difference>>

(***************************************************************************)
(* rtp_timing_sender                                                       *)
(***************************************************************************)
SendRequest ==
  /\ now = departure_time + Interval
  /\ departure_time' = now
  /\ \/ requests' = requests \union {now}
     \/ UNCHANGED requests   \* it is lost
  /\ UNCHANGED <<now, replies, time_pings, difference>>

(***************************************************************************)
(* rtp_timing_receiver                                                     *)
(***************************************************************************)
\* The time the packets were under way, if the reply is to the last request.
ReturnTime(r) ==
  LET return == now - departure_time
      processing == r.sent - r.received
  IN IF processing < return THEN return - processing ELSE return

\* Half of the return time is how long the reply was under way.  The offset is kept doubled.
BugPing(r) ==                       \* the whole of the return time
  [offset |-> 2 * (r.sent + Offset + ReturnTime(r) - now), dispersion |-> ReturnTime(r)]

Ping(r) ==
  [offset |-> 2 * (r.sent + Offset - now) + ReturnTime(r), dispersion |-> ReturnTime(r)]

\* The older a ping the less it is trusted.
Aged(ping) == [ping EXCEPT !.dispersion = (@ * Factor) \div 100]

BugKept(s) == s                     \* nothing is pushed out
Kept(s) == SubSeq(s, 1, IF Len(s) < History THEN Len(s) ELSE History)

\* The ping with the least dispersion, the newest of those.
Best(pings) ==
  LET i == CHOOSE i \in DOMAIN pings :
             \A j \in DOMAIN pings :
               /\ pings[i].dispersion <= pings[j].dispersion
               /\ pings[i].dispersion = pings[j].dispersion => i <= j
  IN pings[i]

\* Longer return times are not used.
Timely == now - departure_time < Limit

Receive(r) ==
  /\ r \in replies
  /\ replies' = replies \ {r}
  /\ IF Timely
     THEN LET pings == Kept(<<Ping(r)>> \o [i \in DOMAIN time_pings |-> Aged(time_pings[i])]) IN
          /\ time_pings' = pings
          /\ difference' = Best(pings)
     ELSE UNCHANGED <<time_pings, difference>>
  /\ UNCHANGED <<now, departure_time, requests>>

Next ==
  \/ Tick
  \/ \E t \in requests, p \in 0 .. Processing : Reply(t, p)
  \/ SendRequest
  \/ \E r \in replies : Receive(r)

Spec == Init /\ [][Next]_vars

(***************************************************************************)
(* Properties                                                              *)
(***************************************************************************)

\* The clock difference in use is wrong by no more than half of the return time it was
\* chosen for, however the delay was spread over the way there and the way back, and
\* whatever was lost or overtaken: the error cannot exceed the dispersion by which the
\* receiver judges its pings.  It takes replies that come before the next request is sent.
Magnitude(error) == IF error < 0 THEN -error ELSE error

DifferenceBounded == Magnitude(difference.offset - 2 * Offset) <= difference.dispersion
=============================================================================
