----------------------------- MODULE DacpMonitor -----------------------------
(***************************************************************************)
(* The DACP client, dacp.c: which remote control server goes with the      *)
(* source that is playing, and whether it answers.                         *)
(*                                                                         *)
(* The player says whose server it is (set_dacp_server_information), a     *)
(* multicast DNS browser finds its port (mdns_avahi.c) and tells a         *)
(* callback, and the monitor thread asks the server for its volume once a  *)
(* second and tells the metadata hub.  The three share dacp_server, under  *)
(* dacp_server_information_lock; the monitor keeps that lock while it      *)
(* talks to the server, but not while it works on the result.              *)
(***************************************************************************)
EXTENDS Naturals

CONSTANTS
  Servers,  \* the DACP-IDs of sources
  Clients,  \* who may play: DACP-IDs, or NoId for a source that sends none
  MaxBad    \* scan_max_bad_response_count

NoId == "no id"

VARIABLES
  dacp_id, port, scan_enable,  \* dacp_server; port is whether it is known
  dacp_server_active,          \* in the metadata hub
  monitor,      \* where the monitor thread is
  result,       \* what dacp_get_volume returned
  bad_result_count,
  browsed,      \* the DACP-ID the browser looks for
  news,         \* the browser has something to report
  advertised, reachable  \* the servers on the network

server == <<dacp_id, port, scan_enable>>
thread == <<monitor, result, bad_result_count>>
browser == <<browsed, news>>
network == <<advertised, reachable>>
vars == <<server, dacp_server_active, thread, browser, network>>

TypeOK ==
  /\ dacp_id \in Servers \union {NoId}
  /\ {port, scan_enable, dacp_server_active, news} \subseteq BOOLEAN
  /\ monitor \in {"look", "wait", "talk", "got"}
  /\ result \in {"none", "answer", "bad", "no port"}
  /\ bad_result_count \in 0 .. MaxBad
  /\ browsed \in Servers \union {NoId}
  /\ advertised \subseteq Servers /\ reachable \subseteq Servers

Init ==
  /\ dacp_id = NoId /\ port = FALSE /\ scan_enable = FALSE /\ dacp_server_active = FALSE
  /\ monitor = "look" /\ result = "none" /\ bad_result_count = 0
  /\ browsed = NoId /\ news = FALSE
  /\ advertised = Servers /\ reachable = Servers

LockFree == monitor /= "talk"

(***************************************************************************)
(* The network and the browser                                             *)
(***************************************************************************)
Leave(s) ==
  /\ s \in advertised
  /\ advertised' = advertised \ {s} /\ reachable' = reachable \ {s}
  /\ news' = (news \/ s = browsed)
  /\ UNCHANGED <<server, dacp_server_active, thread, browsed>>

\* A server may also go without saying so.
Vanish(s) ==
  /\ s \in reachable /\ reachable' = reachable \ {s}
  /\ UNCHANGED <<server, dacp_server_active, thread, browser, advertised>>

Come(s) ==
  /\ s \notin reachable
  /\ advertised' = advertised \union {s} /\ reachable' = reachable \union {s}
  /\ news' = (news \/ (s = browsed /\ s \notin advertised))
  /\ UNCHANGED <<server, dacp_server_active, thread, browsed>>

BugPortFound(found) == port' = found /\ scan_enable' = (scan_enable \/ found)
PortFound(found) == port' = found /\ scan_enable' = found

\* dacp_monitor_port_update_callback, called by the browser.
PortUpdate ==
  /\ news /\ LockFree
  /\ news' = FALSE
  /\ IF browsed = dacp_id THEN PortFound(browsed \in advertised)
     ELSE UNCHANGED <<port, scan_enable>>
  /\ UNCHANGED <<dacp_id, dacp_server_active, thread, browsed, network>>

(***************************************************************************)
(* The player                                                              *)
(***************************************************************************)

\* set_dacp_server_information: a new source is not active until it has answered.
\* The port is kept only if the DACP-ID is the one already there.
SetServer(c) ==
  /\ LockFree
  /\ IF c = NoId \/ c /= dacp_id
     THEN /\ dacp_id' = c
          /\ port' = FALSE /\ scan_enable' = FALSE
          /\ dacp_server_active' = FALSE
     ELSE /\ scan_enable' = (scan_enable \/ port)
          /\ UNCHANGED <<dacp_id, port, dacp_server_active>>
  /\ UNCHANGED <<thread, browser, network>>

(***************************************************************************)
(* The monitor thread                                                      *)
(***************************************************************************)

\* The top of the loop, where the lock is taken: with nothing to ask, the hub is told
\* so, and the thread waits for a signal.
Look ==
  /\ monitor = "look"
  /\ IF scan_enable THEN monitor' = "talk" /\ UNCHANGED dacp_server_active
     ELSE monitor' = "wait" /\ dacp_server_active' = FALSE
  /\ UNCHANGED <<server, result, bad_result_count, browser, network>>

\* The wait ends with a signal that scanning is enabled, or it times out.
Wake ==
  /\ monitor = "wait"
  /\ monitor' = "talk"
  /\ bad_result_count' = IF scan_enable THEN 0 ELSE bad_result_count
  /\ UNCHANGED <<server, dacp_server_active, result, browser, network>>

\* dacp_get_volume, with the lock; and the lock is let go.
Talk ==
  /\ monitor = "talk"
  /\ result' = IF ~port THEN "no port" ELSE IF dacp_id \in reachable THEN "answer" ELSE "bad"
  /\ monitor' = "got"
  /\ UNCHANGED <<server, dacp_server_active, bad_result_count, browser, network>>

\* No port: mdns_dacp_monitor_set_id, which starts a new browser if the DACP-ID is
\* not the one being browsed for, and does nothing otherwise.
Browse ==
  /\ monitor = "got" /\ result = "no port"
  /\ monitor' = "look" /\ result' = "none"
  /\ IF dacp_id \notin {NoId, browsed}
     THEN browsed' = dacp_id /\ news' = (dacp_id \in advertised)
     ELSE UNCHANGED browser
  /\ UNCHANGED <<server, dacp_server_active, bad_result_count, network>>

BadNow ==
  IF result = "answer" THEN 0
  ELSE IF bad_result_count < MaxBad THEN bad_result_count + 1 ELSE bad_result_count

\* The result is debounced and the hub told: a sequence of bad results, and the
\* server is gone; fewer, and nothing is known.  The server may be another by now.
Judge ==
  /\ monitor = "got" /\ result \in {"answer", "bad"}
  /\ monitor' = "look" /\ result' = "none"
  /\ bad_result_count' = BadNow
  /\ dacp_server_active' =
       IF BadNow = 0 THEN TRUE ELSE IF BadNow = MaxBad THEN FALSE ELSE dacp_server_active
  /\ UNCHANGED <<server, browser, network>>

MonitorStep == Look \/ Wake \/ Talk \/ Browse \/ Judge

Next ==
  \/ \E s \in Servers : Leave(s) \/ Vanish(s) \/ Come(s)
  \/ \E c \in Clients : SetServer(c)
  \/ PortUpdate \/ MonitorStep

Spec == Init /\ [][Next]_vars

\* The thread's waits are timed, its sockets have timeouts, and a browser reports.
FairSpec == Spec /\ WF_vars(MonitorStep) /\ SF_vars(PortUpdate)

(***************************************************************************)
(* Properties                                                              *)
(***************************************************************************)

\* A server that has gone, with or without a word, is found to be not active, and
\* so it stays.
GoneIsNoticed == <>[](dacp_id \notin reachable) => <>[]~dacp_server_active

\* dacp_server_active is "true if there's a reachable DACP server (assumed to be the
\* Airplay client) ; false otherwise": the client's server, if it can be found and
\* goes on answering, becomes active.  It does not when it comes back after another
\* client: its port has been forgotten, and the browser, which still looks for that
\* DACP-ID, has nothing new to report.
ReachableIsNoticed ==
  \A s \in Servers :
    <>[](dacp_id = s /\ s \in advertised /\ s \in reachable) => <>[]dacp_server_active
=============================================================================
