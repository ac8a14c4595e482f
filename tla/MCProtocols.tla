----------------------------- MODULE MCProtocols -----------------------------
(***************************************************************************)
(* The protocols of a connection for TLC, one after the other in one run   *)
(* as in MCServices: pairing, the ciphered stream, the requests, the       *)
(* messages of pairing as bytes, the list of pairings; the volume of the   *)
(* source's remote control, discovery, the event channel, and properties   *)
(* on D-Bus.  Pairing, the stream and the list are extended, since proofs  *)
(* are about what the run checks of them; the others are instances.        *)
(***************************************************************************)
EXTENDS Pairing, CipherStream, PairingList

CONSTANTS c1, c2, us, o1, o2   \* connections, and speakers

VARIABLES
  part,
  \* RtspMessages
  rtsp_password, sent, guess, nonce, pieces, buf, packet, msg_size, stage, auth_nonce,
  authorized, handled, answers,
  \* PairTlv
  values,
  \* DacpVolume
  known, overall, level, active, told, talker, command, call, overall_volume, speaker_info,
  actual_volume, response, alone, answered, calls, mishaps,
  \* Discovery
  airplay_gid, secondary_txt_records, change, ap2_text_record_string_list, service_name, daemon,
  client, group, entry, published, taken, aborted, dacp_id, service_browser, remote, events,
  reported, troubles,
  \* EventChannel
  conversation, setups, rtp_event_thread, event_thread, event_sender_mutex, event_channel_fd,
  open, event_source, event_gid,
  \* BusProperties
  subject, property, mpris, shown_active, service_is_running, setting, keep_dac_busy, bus_active,
  bus_source, repeat_status, hub_lock, emission, bus_at, held, wanted, bus_alone, undisturbed,
  polled, changes

rtspVars ==
  <<rtsp_password, sent, guess, nonce, pieces, buf, packet, msg_size, stage, auth_nonce,
    authorized, handled, answers>>
volumeVars ==
  <<known, overall, level, active, told, talker, command, call, overall_volume, speaker_info,
    actual_volume, response, alone, answered, calls, mishaps>>
discoveryVars ==
  <<airplay_gid, secondary_txt_records, change, ap2_text_record_string_list, service_name, daemon,
    client, group, entry, published, taken, aborted, dacp_id, service_browser, remote, events,
    reported, troubles>>
eventVars ==
  <<conversation, setups, rtp_event_thread, event_thread, event_sender_mutex, event_channel_fd,
    open, event_source, event_gid>>
busVars ==
  <<subject, property, mpris, shown_active, service_is_running, setting, keep_dac_busy, bus_active,
    bus_source, repeat_status, hub_lock, emission, bus_at, held, wanted, bus_alone, undisturbed,
    polled, changes>>
allVars ==
  <<part, vars, streamVars, rtspVars, values, listVars, volumeVars, discoveryVars,
    eventVars, busVars>>

Rtsp == INSTANCE RtspMessages WITH
  Passwords <- {"none", "word"}, NoPassword <- "none", Guesses <- {"word", "drow"},
  Bodies <- {0, 2}, Codes <- {200, 453}, SplitLines <- FALSE, MaxRequests <- 3,
  password <- rtsp_password, socket <- pieces

Tlv == INSTANCE PairTlv WITH
  Chunk <- 3, Types <- {"identifier", "publickey", "separator"}, Sizes <- {0, 1, 2, 3, 4, 6, 7},
  MaxValues <- 4

Dacp == INSTANCE DacpVolume WITH
  Whole <- 7, Us <- us, Others <- {o1, o2}, MaxSpeakers <- 2, Setters <- {c1}, Getters <- {c2},
  Wanted <- {-1, 2}, Levels <- {0, 4, 6}, Failures <- {"refused", "lost", "garbled"},
  MaxCalls <- 2, MaxTroubles <- 1, listed <- told, at <- command, troubles <- mishaps

Mdns == INSTANCE Discovery WITH
  Connections <- {c1, c2}, Ids <- {"i1", "i2"}, Ports <- {1}, MaxTaken <- 2, Apart <- TRUE,
  Early <- FALSE, MaxTroubles <- 4, at <- change

Events == INSTANCE EventChannel WITH
  MaxSetups <- 1, thread <- event_thread, source <- event_source, airplay_gid <- event_gid

Bus == INSTANCE BusProperties WITH
  Asked <- [loop_status |-> {"off", "one", "junk"}, length |-> {"1", "20"},
            standby_mode |-> {"always", "off", "auto", "junk"}],
  Accepted <- [loop_status |-> {"off", "one"}, length |-> {"1", "2"},
               standby_mode |-> {"always", "off", "auto"}],
  Configured <- [loop_status |-> {"off"}, length |-> {"2"},
                 standby_mode |-> {"always", "off", "auto"}],
  Apart <- TRUE, MaxChanges <- 2,
  active <- bus_active, source <- bus_source, at <- bus_at, alone <- bus_alone

Parts == {"pairing", "stream", "rtsp", "tlv", "list", "dacp", "mdns", "events", "bus"}

\* One choice of the speakers that the source tells of and plays to is seen at all volumes.
FewVolumes ==
  told /= {us, o1} \/ active /= told => overall = 4 /\ level = [s \in {us, o1, o2} |-> 0]

\* A component that does not run has one initial state.
MCInit ==
  /\ part \in Parts
  /\ Init
  /\ part /= "pairing" =>
       password = NoPin /\ controller.kind = "transient" /\ controller.pin = NoPin
  /\ StreamInit /\ Tlv!TlvInit /\ ListInit
  /\ Rtsp!MessageInit /\ (part /= "rtsp" => rtsp_password = "none" /\ guess = "word")
  /\ Dacp!VolumeInit /\ FewVolumes /\ (part /= "dacp" => told = {us, o1, o2} /\ active = {})
  /\ Events!EventInit
  /\ Mdns!DiscoveryInit /\ (part /= "mdns" => ~daemon /\ taken = {})
  /\ Bus!BusInit /\ (part /= "bus" => subject = "length")

MCNext ==
  /\ UNCHANGED part
  /\ \/ part = "pairing" /\ Next
     \/ part /= "pairing" /\ UNCHANGED vars
  /\ \/ part = "stream" /\ StreamNext
     \/ part /= "stream" /\ UNCHANGED streamVars
  /\ \/ part = "rtsp" /\ Rtsp!MessageNext
     \/ part /= "rtsp" /\ UNCHANGED rtspVars
  /\ \/ part = "tlv" /\ Tlv!AddValue
     \/ part /= "tlv" /\ UNCHANGED values
  /\ \/ part = "list" /\ ListNext
     \/ part /= "list" /\ UNCHANGED listVars
  /\ \/ part = "dacp" /\ Dacp!VolumeNext
     \/ part /= "dacp" /\ UNCHANGED volumeVars
  /\ \/ part = "mdns" /\ Mdns!DiscoveryNext
     \/ part /= "mdns" /\ UNCHANGED discoveryVars
  /\ \/ part = "events" /\ Events!EventNext
     \/ part /= "events" /\ UNCHANGED eventVars
  /\ \/ part = "bus" /\ Bus!BusNext
     \/ part /= "bus" /\ UNCHANGED busVars

MCFairness ==
  /\ WF_vars(part = "pairing" /\ ControllerStep)
  /\ WF_vars(part = "pairing" /\ ServerStep)
  /\ WF_streamVars(part = "stream" /\ Write)
  /\ WF_streamVars(part = "stream" /\ Call)
  /\ WF_streamVars(part = "stream" /\ ReadBlocks)
  /\ WF_rtspVars(part = "rtsp" /\ Rtsp!MessageStep)
  /\ \A c \in {c1, c2} : WF_discoveryVars(part = "mdns" /\ Mdns!ConversationStep(c))
  /\ WF_discoveryVars(part = "mdns" /\ Mdns!PollStep)

MCSpec == MCInit /\ [][MCNext]_allVars /\ MCFairness

\* See the modules for what these say.
TypesOK ==
  /\ TypeOK /\ StreamTypeOK /\ Rtsp!MessageTypeOK /\ Tlv!TlvTypeOK /\ ListTypeOK
  /\ Dacp!VolumeTypeOK /\ Mdns!DiscoveryTypeOK /\ Events!EventTypeOK
  /\ Bus!BusTypeOK
ExchangesRight ==
  /\ Rtsp!RequestsIntact /\ Tlv!RoundTrip
  /\ Dacp!SetReached /\ Dacp!VolumeIsOurs /\ Dacp!NeverLouder
  /\ Mdns!AdvertisedIsCurrent /\ Mdns!PortIsTheSources
  /\ Events!JoinNeedsNoSource /\ Events!NothingLeftOpen /\ Events!TellsItsSource
  /\ Bus!AgreeWhenPolled /\ Bus!LastWordStands /\ Bus!ShowsTheSetting /\ Bus!PutsBackForGood
  /\ Bus!StandbyAsAsked
PairsRight == part = "pairing" => PairsWithRightPin
ExchangesComplete ==
  /\ AllReturned /\ Rtsp!RequestsAnswered
  /\ part = "mdns" => Mdns!AdvertisedAgain
=============================================================================
