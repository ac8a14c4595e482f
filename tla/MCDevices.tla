------------------------------ MODULE MCDevices ------------------------------
(***************************************************************************)
(* Audio devices and back ends, the volume, the clocks and the metadata    *)
(* hub for TLC, one after the other in one run.  A behaviour is one of a   *)
(* single component, named by part; the variables of the others stay as    *)
(* they began, so that a property of one of them says nothing of those     *)
(* behaviours.  AlsaBackend is extended, the others are instances:         *)
(*   Nqptp    NqptpRecord,                                                 *)
(*   Anchor   PtpAnchor; in the configuration calls do not overlap,        *)
(*   Timing   ClassicTiming, with replies that come before the next        *)
(*            request,                                                     *)
(*   Hub      MetadataHub; in the configuration with tags that the hub     *)
(*            announces,                                                   *)
(*   Level    Volume; in the configuration with requests apart from the    *)
(*            beginning of a play,                                         *)
(*   Ring     OutputRing; in the configuration reconfigured when it is     *)
(*            empty.                                                       *)
(***************************************************************************)
EXTENDS AlsaBackend, Integers, Sequences, FiniteSets

CONSTANTS
  \* NqptpRecord
  Words, MaxTries, MaxUpdate,
  \* PtpAnchor
  Clocks, ClockOffset, Lines, Frames, Settle, Stable, Steady, Overlaps,
  \* ClassicTiming
  Interval, Limit, Delay, Processing, History, Factor, MaxTime,
  \* MetadataHub
  Tags, Silent, Values, Room,
  \* Volume
  Connections, Nobody, Requests, Loudest, Settings, Taper, Apart, MaxRequests,
  \* OutputRing
  Sizes, MaxAsk, MaxFrames, MaxQueued, EmptyOnly

ASSUME NqptpAssumption == Words /= {} /\ MaxTries \in Nat \ {0} /\ MaxUpdate \in Nat

ASSUME AnchorAssumption ==
  /\ ClockOffset \in [Clocks -> Int] /\ Lines \subseteq Int /\ Frames \subseteq Int
  /\ Settle \in Nat /\ Stable \in Nat /\ Steady \subseteq BOOLEAN /\ Overlaps \subseteq BOOLEAN

\* Dispersions do not shrink with age, and a reply comes before the next request.
ASSUME TimingAssumption ==
  /\ Interval \in Nat \ {0} /\ Limit \in Nat /\ Delay \in Nat /\ Processing \in Nat
  /\ History \in Nat \ {0} /\ Factor \in Nat /\ Factor >= 100 /\ MaxTime \in Nat
  /\ 2 * Delay + Processing < Interval

\* The field of the player's items is none of the tags, nor is the start or the end of a packet.
ASSUME HubAssumption ==
  /\ IsFiniteSet(Tags) /\ Tags \intersect {"mdst", "mden", "phbt"} = {} /\ Silent \subseteq Tags
  /\ Room \in Nat

VARIABLES
  part,
  \* NqptpRecord
  nq_main, nq_secondary, update, unwritten, reader, tries, first, second, disturbed,
  \* PtpAnchor
  remoteValid, anchor, lastValid, last, master, sinceMastership, sinceUpdate,
  sinceValidity, set, get, steady, overlap, given,
  \* ClassicTiming
  now, departure_time, timing_requests, replies, time_pings, difference,
  \* MetadataHub
  store, shown, metadata_packet_item_changed, queue, packet, lost,
  \* Volume
  setting, airplay_volume, own_airplay_volume, own_airplay_volume_set, principal, player,
  initial, hardware, software, hardware_mute, software_mute_enabled, asked, volume_requests,
  \* OutputRing
  backend, cells, toq, eoq, audio_occupancy, freed, mutex, loop, running, enable_fill,
  on_process_is_running, flush_please, queued, callback, client, fresh, want, flushed, handed,
  fault

nqptpVars == <<nq_main, nq_secondary, update, unwritten, reader, tries, first, second, disturbed>>
anchorVars ==
  <<remoteValid, anchor, lastValid, last, master, sinceMastership, sinceUpdate,
    sinceValidity, set, get, steady, overlap, given>>
timingVars == <<now, departure_time, timing_requests, replies, time_pings, difference>>
hubVars == <<store, shown, metadata_packet_item_changed, queue, packet, lost>>
volumeVars ==
  <<setting, airplay_volume, own_airplay_volume, own_airplay_volume_set, principal, player,
    initial, hardware, software, hardware_mute, software_mute_enabled, asked, volume_requests>>
ringVars ==
  <<backend, cells, toq, eoq, audio_occupancy, freed, mutex, loop, running, enable_fill,
    on_process_is_running, flush_please, queued, callback, client, fresh, want, flushed, handed,
    fault>>
allVars == <<part, vars, nqptpVars, anchorVars, timingVars, hubVars, volumeVars, ringVars>>

Nqptp == INSTANCE NqptpRecord WITH main <- nq_main, secondary <- nq_secondary

Anchor == INSTANCE PtpAnchor WITH Offset <- ClockOffset

Timing == INSTANCE ClassicTiming WITH requests <- timing_requests

Hub == INSTANCE MetadataHub

Level == INSTANCE Volume WITH requests <- volume_requests

\* The taper rises with the control.  A maximum, in whole decibels, is one that the device's mixer
\* has, unless a range is asked for too: then it may be as far under the mixer's lowest as software
\* can attenuate.  Without a mixer, it is no lower than that.  Others are not legal, or the program
\* warns of them, or it does not do what they ask for.
ASSUME VolumeAssumption ==
  /\ Nobody \notin Connections /\ Requests \subseteq -30 .. 0 /\ Loudest \in -30 .. 0
  /\ Taper \in [Requests \cup {Loudest} -> Int]
  /\ \A v, w \in Requests : v <= w => Taper[v] <= Taper[w]
  /\ \A s \in Settings :
       /\ s.max \in Int /\ s.limited \in BOOLEAN /\ s.wanted \in Nat
       /\ s.hwFirst \in BOOLEAN /\ s.ignored \in BOOLEAN
       /\ s.profile \in {"standard", "flat", "dasl_tapered"}
       /\ s.range /= <<>> =>
            /\ s.range[1] \in Int /\ s.range[2] \in Int /\ s.range[1] <= s.range[2]
            /\ s.limited /\ s.max \in s.range[1] .. s.range[2] =>
                 Level!Whole(s.max) \in s.range[1] .. s.range[2]
            /\ s.limited /\ s.wanted > 0 => s.max \in s.range[1] + Level!Floor .. s.range[2]
       /\ s.range = <<>> /\ s.limited => s.max >= Level!Floor

Ring == INSTANCE OutputRing WITH Calm <- EmptyOnly

ASSUME RingAssumption ==
  /\ Sizes \subseteq Nat \ {0} /\ MaxAsk \in Nat \ {0} /\ MaxFrames \in Nat /\ MaxQueued \in Nat

MCInit ==
  /\ part \in {"alsa", "nqptp", "anchor", "timing", "hub", "level", "ring"}
  /\ Init /\ (part /= "alsa" => hasSwitch /\ keep_dac_busy)
  /\ Nqptp!Init
  /\ Anchor!Init /\ (part /= "anchor" => steady)
  /\ Timing!Init
  /\ Hub!Init
  /\ Level!VolumeInit /\ (part /= "level" => setting = CHOOSE s \in Settings : TRUE)
  /\ Ring!RingInit /\ (part /= "ring" => backend = "jack" /\ Len(cells) = CHOOSE n \in Sizes : TRUE)

MCNext ==
  /\ UNCHANGED part
  /\ \/ /\ part = "alsa" /\ Next
        /\ UNCHANGED <<nqptpVars, anchorVars, timingVars, hubVars, volumeVars, ringVars>>
     \/ /\ part = "nqptp" /\ Nqptp!Next
        /\ UNCHANGED <<vars, anchorVars, timingVars, hubVars, volumeVars, ringVars>>
     \/ /\ part = "anchor" /\ Anchor!Next
        /\ UNCHANGED <<vars, nqptpVars, timingVars, hubVars, volumeVars, ringVars>>
     \/ /\ part = "timing" /\ Timing!Next
        /\ UNCHANGED <<vars, nqptpVars, anchorVars, hubVars, volumeVars, ringVars>>
     \/ /\ part = "hub" /\ Hub!Next
        /\ UNCHANGED <<vars, nqptpVars, anchorVars, timingVars, volumeVars, ringVars>>
     \/ /\ part = "level" /\ Level!VolumeNext
        /\ UNCHANGED <<vars, nqptpVars, anchorVars, timingVars, hubVars, ringVars>>
     \/ /\ part = "ring" /\ Ring!RingNext
        /\ UNCHANGED <<vars, nqptpVars, anchorVars, timingVars, hubVars, volumeVars>>

MCSpec == MCInit /\ [][MCNext]_allVars

\* See the modules for what these say.
TypesOK ==
  /\ TypeOK /\ Nqptp!TypeOK /\ Anchor!TypeOK /\ Timing!TypeOK /\ Hub!TypeOK
  /\ Level!VolumeTypeOK /\ Ring!RingTypeOK
AnswersRight == Anchor!AnswersRight
ClocksRight == Nqptp!WholeIfOneCopyDisturbed /\ Timing!DifferenceBounded
TagsAnnounced == Hub!TagsAnnounced
RingKept ==
  part = "ring" =>
    Ring!RingHoldsFrames /\ Ring!HandedInOrder /\ Ring!RingNotFreed /\ Ring!DelayIsClose
BackEndsKept == DeviceKept /\ RingKept
LevelsRight == part = "level" => Level!VolumeRight

-----------------------------------------------------------------------------
(* The values of the constants that the configuration cannot write. *)
TenOrTwenty == [a |-> 10, b |-> 20]

\* Devices with a mixer of 50 dB, with and without a mute, and none; a maximum within the
\* device's range and one below it; a range that one mixer has and one that takes both.
VolumeSettings ==
  {s \in [range : {<<>>, <<-5100, -100>>}, max : {-350, -6000}, limited : BOOLEAN,
          wanted : {0, 3000, 7000}, hwFirst : BOOLEAN, ignored : BOOLEAN,
          profile : {"standard", "flat", "dasl_tapered"}, mute : {"works", "fails"}] :
     /\ s.range = <<>> => s.mute = "fails" /\ s.hwFirst
     /\ s.max = -6000 => s.limited
     /\ s.ignored => s.wanted = 7000 /\ s.limited /\ s.profile = "flat"
     /\ s.wanted /= 7000 => s.hwFirst
     /\ s.mute = "fails" \/ ~s.limited}

Half == -21
FullHalfNone == {0, Half, -30}
TaperOfThese == [v \in FullHalfNone |-> IF v = 0 THEN 0 ELSE IF v = -21 THEN -1737 ELSE -9999]
=============================================================================
