------------------------------ MODULE Discovery ------------------------------
(***************************************************************************)
(* What the program advertises and what it looks for on the network:       *)
(* mdns.c with the Avahi back end (mdns_avahi.c), and the records of       *)
(* bonjour_strings.c.  Conversations change the records and have them      *)
(* published; the poll thread of the library calls back, with its lock     *)
(* held, when its client, the group of services or the browser changes;    *)
(* the daemon behind it all may stop and start again, may have its host    *)
(* name change, and may find that the service's name is taken.  The        *)
(* browser looks for the remote control of the source.  What the library   *)
(* and the daemon do is external.                                          *)
(* Only the secondary records (AirPlay 2) change while the program runs.   *)
(***************************************************************************)
EXTENDS Integers, Sequences, FiniteSets

CONSTANTS
  Connections,  \* conversations that take and release the play lock
  Ids,          \* DACP-IDs of sources
  Ports,        \* ports of their remote controls
  MaxTaken,     \* the most alternatives of our name that others have
  Apart,        \* the records are built and published by one conversation at a time
  Early,        \* they may be published while there is no group
  MaxTroubles   \* bound on what happens outside the program, and on changes of the ID

Nobody == "nobody"
NoPort == 0

VARIABLES
  airplay_gid,  \* connections whose client has given its group
  secondary_txt_records,  \* the records: who gid and gcgl are of
  at,           \* where a conversation is
  ap2_text_record_string_list, service_name,
  daemon,       \* the daemon runs
  client, group,
  entry,        \* what the group holds: a name and a text
  published,    \* what others see of us
  taken,        \* alternatives of our name that others have
  aborted,      \* an update has met no group
  dacp_id, service_browser,
  remote,       \* the ports that sources advertise
  events,       \* what the daemon has to tell the browser and its resolvers
  reported,     \* the port that dacp.c was last told for dacp_id
  troubles

recordVars == <<airplay_gid, secondary_txt_records, at>>
groupVars == <<ap2_text_record_string_list, service_name, client, group, entry, published>>
browserVars == <<dacp_id, service_browser, events, reported>>
discoveryVars ==
  <<recordVars, groupVars, daemon, taken, aborted, browserVars, remote, troubles>>

Text == [gid : Connections \cup {Nobody}, gcgl : Connections \cup {Nobody}]
Nothing == [name |-> -1, text |-> [gid |-> Nobody, gcgl |-> Nobody]]

\* avahi_register, from mdns_register: the client is made, and connects in its own time.
DiscoveryInit ==
  /\ airplay_gid = {}
  /\ secondary_txt_records = [gid |-> Nobody, gcgl |-> Nobody]
  /\ at = [c \in Connections |-> "idle"]
  /\ ap2_text_record_string_list = secondary_txt_records
  /\ service_name = 0
  /\ daemon \in BOOLEAN
  /\ client = "connecting" /\ group = "none"
  /\ entry = Nothing /\ published = Nothing
  /\ taken \in {0 .. n - 1 : n \in 0 .. MaxTaken}
  /\ aborted = FALSE
  /\ dacp_id = Nobody /\ service_browser = FALSE
  /\ remote = [i \in Ids |-> NoPort]
  /\ events = <<>> /\ reported = NoPort
  /\ troubles = 0

Connected == client \in {"registering", "running"}
Trouble == troubles < MaxTroubles /\ troubles' = troubles + 1

------------------------------------------------------------------------------
(* The conversations.                                                      *)

Alone(c) == Apart => \A d \in Connections \ {c} : at[d] = "idle"

\* The client of c has given its group (SETUP), or c lets the play lock go.
Change(c) ==
  /\ at[c] = "idle" /\ Alone(c) /\ Trouble
  /\ airplay_gid' = (airplay_gid \ {c}) \cup ({c} \ airplay_gid)
  /\ at' = [at EXCEPT ![c] = "gid"]
  /\ UNCHANGED <<secondary_txt_records, groupVars, daemon, taken, aborted, browserVars, remote>>

\* build_bonjour_strings, into arrays that all conversations share.
Build(c, part) ==
  /\ at[c] = part
  /\ secondary_txt_records' =
       [secondary_txt_records EXCEPT ![part] = IF c \in airplay_gid THEN c ELSE Nobody]
  /\ at' = [at EXCEPT ![c] = IF part = "gid" THEN "gcgl" ELSE "update"]
  /\ UNCHANGED <<airplay_gid, groupVars, daemon, taken, aborted, browserVars, remote, troubles>>

HoldsEntry == group \in {"registering", "established"}

\* avahi_update, through mdns_update.  Without an entry the call fails, and the list stays
\* for the next registration.
BugKept == UNCHANGED ap2_text_record_string_list
Kept == ap2_text_record_string_list' = secondary_txt_records
AvahiUpdate(c) ==
  /\ at[c] = "update"
  /\ Early \/ group /= "none"
  /\ at' = [at EXCEPT ![c] = "idle"]
  /\ Kept
  /\ aborted' = (aborted \/ group = "none")
  /\ entry' = IF HoldsEntry THEN [entry EXCEPT !.text = secondary_txt_records] ELSE entry
  /\ published' = IF group = "established" THEN entry' ELSE published
  /\ UNCHANGED <<airplay_gid, secondary_txt_records, service_name, client, group, daemon, taken,
       browserVars, remote, troubles>>

\* avahi_dacp_monitor_set_id: another ID gets a new browser, and the daemon tells it of what
\* there is; without an ID the browser stays as it is.
SetId(i) ==
  /\ i /= dacp_id /\ Trouble
  /\ dacp_id' = i /\ reported' = NoPort
  /\ IF i = Nobody THEN UNCHANGED <<service_browser, events>>
     ELSE /\ service_browser' = Connected
          /\ \E known \in {{j \in Ids : remote[j] /= NoPort}} :
               /\ events' \in {<<>>} \cup [1 .. Cardinality(known) -> [kind : {"new"}, id : known]]
               /\ IF service_browser' THEN {events'[k].id : k \in DOMAIN events'} = known
                  ELSE events' = <<>>
  /\ UNCHANGED <<recordVars, groupVars, daemon, taken, aborted, remote>>

------------------------------------------------------------------------------
(* The daemon.                                                             *)

Stop ==
  /\ daemon /\ Trouble
  /\ daemon' = FALSE /\ published' = Nothing
  /\ client' = IF client = "connecting" THEN client ELSE "lost"
  /\ UNCHANGED <<recordVars, ap2_text_record_string_list, service_name, group, entry, taken,
       aborted, browserVars, remote>>

Start ==
  /\ ~daemon /\ Trouble
  /\ daemon' = TRUE
  /\ UNCHANGED <<recordVars, groupVars, taken, aborted, browserVars, remote>>

\* A source's remote control comes or goes.
Advertise(i, p) ==
  /\ remote[i] /= p /\ NoPort \in {remote[i], p} /\ Trouble
  /\ remote' = [remote EXCEPT ![i] = p]
  /\ events' = IF service_browser /\ Connected
       THEN Append(events, [kind |-> IF p = NoPort THEN "remove" ELSE "new", id |-> i])
       ELSE events
  /\ UNCHANGED <<recordVars, groupVars, daemon, taken, aborted, dacp_id, service_browser, reported>>

------------------------------------------------------------------------------
(* The poll thread.                                                        *)

\* register_service: a new or empty group gets both services and is committed; to others it
\* shows when the daemon has seen that the names are free.
BugRegisterService(name) ==
  IF group = "none" THEN group' = "registering" /\ entry' = [name |-> name, text |-> ap2_text_record_string_list]
                    ELSE UNCHANGED <<group, entry>>
RegisterService(name) ==
  IF group \in {"none", "empty"}
    THEN /\ group' = "registering"
         /\ entry' = [name |-> name, text |-> ap2_text_record_string_list]
    ELSE UNCHANGED <<group, entry>>

\* client_callback.
Running ==
  /\ daemon /\ client \in {"connecting", "registering"}
  /\ client' = "running"
  /\ RegisterService(service_name)
  /\ UNCHANGED <<recordVars, ap2_text_record_string_list, service_name, daemon, published, taken,
       aborted, browserVars, remote, troubles>>

\* The host name is being registered again: what depends on it is taken back.
Registering ==
  /\ client = "running" /\ Trouble
  /\ client' = "registering"
  /\ group' = IF group = "none" THEN "none" ELSE "empty"
  /\ entry' = Nothing /\ published' = Nothing
  /\ UNCHANGED <<recordVars, ap2_text_record_string_list, service_name, daemon, taken, aborted,
       browserVars, remote>>

\* The daemon has gone: the group, the browser and the client are freed, and a client is made
\* that waits for a daemon.
Disconnected ==
  /\ client = "lost"
  /\ group' = "none" /\ entry' = Nothing /\ published' = Nothing
  /\ service_browser' = FALSE /\ events' = <<>>
  /\ client' = "connecting"
  /\ UNCHANGED <<recordVars, ap2_text_record_string_list, service_name, daemon, taken, aborted,
       dacp_id, reported, remote, troubles>>

\* egroup_callback.
Established ==
  /\ client = "running" /\ group = "registering" /\ entry.name \notin taken
  /\ group' = "established" /\ published' = entry
  /\ UNCHANGED <<recordVars, ap2_text_record_string_list, service_name, client, entry, daemon,
       taken, aborted, browserVars, remote, troubles>>

\* The name is taken, and the group is emptied: another name, and again.
Collision ==
  /\ client = "running" /\ group = "registering" /\ entry.name \in taken
  /\ service_name' = service_name + 1
  /\ entry' = [name |-> service_name', text |-> ap2_text_record_string_list]
  /\ UNCHANGED <<recordVars, ap2_text_record_string_list, client, group, published, daemon,
       taken, aborted, browserVars, remote, troubles>>

\* browse_callback: a service that is new is resolved, and one that is gone is reported.
BugMatches(i) == dacp_id /= Nobody
Matches(i) == dacp_id /= Nobody /\ i = dacp_id
BrowseCallback ==
  /\ Connected /\ service_browser /\ events /= <<>>
  /\ Head(events).kind \in {"new", "remove"}
  /\ IF Head(events).kind = "new"
       THEN /\ events' = IF remote[Head(events).id] = NoPort THEN Tail(events)
                         ELSE Append(Tail(events), [kind |-> "found", id |-> Head(events).id,
                                                    port |-> remote[Head(events).id]])
            /\ UNCHANGED reported
       ELSE /\ events' = Tail(events)
            /\ reported' = IF Matches(Head(events).id) THEN NoPort ELSE reported
  /\ UNCHANGED <<recordVars, groupVars, daemon, taken, aborted, dacp_id, service_browser, remote,
       troubles>>

\* resolve_callback.
ResolveCallback ==
  /\ Connected /\ events /= <<>> /\ Head(events).kind = "found"
  /\ events' = Tail(events)
  /\ reported' = IF Matches(Head(events).id) THEN Head(events).port ELSE reported
  /\ UNCHANGED <<recordVars, groupVars, daemon, taken, aborted, dacp_id, service_browser, remote,
       troubles>>

ConversationStep(c) == Build(c, "gid") \/ Build(c, "gcgl") \/ AvahiUpdate(c)
PollStep ==
  \/ Running \/ Disconnected \/ Established \/ Collision \/ BrowseCallback \/ ResolveCallback

DiscoveryNext ==
  \/ \E c \in Connections : Change(c) \/ ConversationStep(c)
  \/ \E i \in Ids \cup {Nobody} : SetId(i)
  \/ Stop \/ Start \/ Registering
  \/ \E i \in Ids, p \in Ports \cup {NoPort} : Advertise(i, p)
  \/ PollStep

------------------------------------------------------------------------------
(* Properties.                                                             *)

DiscoveryTypeOK ==
  /\ airplay_gid \subseteq Connections
  /\ secondary_txt_records \in Text /\ ap2_text_record_string_list \in Text
  /\ at \in [Connections -> {"idle", "gid", "gcgl", "update"}]
  /\ service_name \in 0 .. MaxTaken
  /\ daemon \in BOOLEAN /\ aborted \in BOOLEAN /\ service_browser \in BOOLEAN
  /\ client \in {"connecting", "registering", "running", "lost"}
  /\ group \in {"none", "empty", "registering", "established"}
  /\ {entry.text, published.text} \subseteq Text
  /\ {entry.name, published.name} \subseteq -1 .. MaxTaken
  /\ dacp_id \in Ids \cup {Nobody}
  /\ remote \in [Ids -> Ports \cup {NoPort}]
  /\ reported \in Ports \cup {NoPort}
  /\ troubles \in 0 .. MaxTroubles

\* What others see of us is the record of one conversation, or of none, and, while no
\* conversation is changing it, the newest: whatever order updates, renames, resets of the
\* group and restarts of the daemon come in.
\* From the way avahi_update both keeps the list and updates the entry, and register_service
\* starts from the list.
AdvertisedIsCurrent ==
  published /= Nothing =>
    /\ published.text.gid = published.text.gcgl
    /\ (\A c \in Connections : at[c] = "idle") => published.text = secondary_txt_records
    /\ published.name \notin taken

\* When all that is left is the poll thread's work, and the browser has not been lost, the
\* port told is the one that the source of dacp_id advertises.
\* From browse_callback, resolve_callback and avahi_dacp_monitor_set_id.
PortIsTheSources ==
  service_browser /\ Connected /\ dacp_id /= Nobody /\ events = <<>> => reported = remote[dacp_id]

\* No update is made without a group; false with Early.
\* From avahi_update, which passes group on whatever it is.
GroupIsThere == ~aborted

\* With a daemon that runs, the service is advertised for good, and as it is now.
\* From client_callback and egroup_callback, after any failure of the daemon.
AdvertisedAgain ==
  <>[](daemon => published.name = service_name /\ published.text = secondary_txt_records)
=============================================================================
