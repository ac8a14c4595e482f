-------------------------------- MODULE Volume --------------------------------
(***************************************************************************)
(* From the volume a source asks for to what the mixers do.  Attenuations  *)
(* are hundredths of a decibel, rounded.  A device may have a mixer of its *)
(* own, with a range; a maximum and a range may be asked for in the        *)
(* configuration; what the device's mixer cannot do is done in software.   *)
(* Each connection remembers the volume set on it, and a play begins with  *)
(* that, or else with the last one set on any.                             *)
(*                                                                         *)
(* The player's thread looks up the volume to begin with and then sets it, *)
(* and a request may come in between: with Apart none does.                *)
(***************************************************************************)
EXTENDS Integers

CONSTANTS
  Connections, Nobody,
  Requests,        \* volumes a source may ask for, of 0 .. -30
  Loudest,         \* config.default_airplay_volume
  Settings,        \* of configurations and devices, see below
  Taper,           \* 1000 * log2 of the fraction of the control's travel, by volume
  Apart, MaxRequests

VARIABLES
  setting,         \* range: the device's <<lowest, highest>> or <<>>; max: volume_max_db, and
                   \* limited: is it set?; wanted: volume_range_db; hwFirst, ignored, profile;
                   \* mute: what the device's mute does, "works", "fails" or "none"
  airplay_volume, own_airplay_volume, own_airplay_volume_set,
  principal, player,   \* what the player of the principal connection is doing
  initial,             \* the volume it has looked up
  hardware, software,  \* the attenuations that are set
  hardware_mute, software_mute_enabled,
  asked,           \* the last volume asked for on each connection (history)
  requests

volumeVars ==
  <<setting, airplay_volume, own_airplay_volume, own_airplay_volume_set, principal, player,
    initial, hardware, software, hardware_mute, software_mute_enabled, asked, requests>>

Mute == -144
RequestOrMute == Requests \cup {Mute}

---------------------------------------------------------------------------
\* The limits of the two mixers.

Larger(a, b) == IF a >= b THEN a ELSE b
Smaller(a, b) == IF a <= b THEN a ELSE b

\* (int32_t)x * 100, for x in hundredths
Whole(x) == IF x >= 0 THEN x - (x % 100) ELSE x + ((-x) % 100)

Floor == -9630

SoftwareOnly(s) ==
  LET top == IF s.limited /\ s.max <= 0 /\ s.max >= Floor THEN Whole(s.max) ELSE 0
      fits == s.wanted > 0 /\ s.wanted <= top - Floor
  IN [mode |-> "software", hwMin |-> 0, hwMax |-> 0, swMax |-> top,
      swMin |-> IF fits THEN top - s.wanted ELSE Floor]

\* The maximum is under the device's range, or over it: with a range asked for, the device's
\* mixer stays at its lowest.
WithHardware(s) ==
  LET low == s.range[1]
      high == s.range[2]
      within == s.limited /\ s.max <= high /\ s.max >= low
      outside == s.limited /\ ~within /\ s.wanted > 0
      hwMax == IF within THEN Whole(s.max) ELSE IF outside THEN low ELSE high
      swMax == IF outside THEN s.max - low ELSE 0
      rest == s.wanted - (hwMax - low)
      both == s.wanted > 0 /\ rest > 0
  IN [mode |-> IF both THEN "both" ELSE "hardware",
      hwMax |-> hwMax,
      hwMin |-> IF s.wanted > 0 /\ ~both THEN hwMax - s.wanted ELSE low,
      swMax |-> swMax,
      swMin |-> IF both /\ swMax - rest >= Floor THEN swMax - rest ELSE Floor]

Limits(s) == IF s.range = <<>> THEN SoftwareOnly(s) ELSE WithHardware(s)

MaxOf(l) == CASE l.mode = "hardware" -> l.hwMax
              [] l.mode = "software" -> l.swMax
              [] l.mode = "both" -> (l.hwMax - l.hwMin) + (l.swMax - l.swMin)
MinOf(l) == CASE l.mode = "hardware" -> l.hwMin
              [] l.mode = "software" -> l.swMin
              [] l.mode = "both" -> 0

---------------------------------------------------------------------------
\* The three profiles: from a volume to an attenuation between max and min.

flat_vol2attn(v, max, min) == ((max - min) * (30 + v)) \div 30 + min

dasl_tapered_vol2attn(v, max, min) ==
  IF v = -30 THEN min
  ELSE Smaller(max, Larger(max + Taper[v], min + ((max - min) * (30 + v)) \div 30))

\* The lowest of three lines, each from 0 at a volume to its end at -30.
Line(start, end, v) == IF v > start THEN 0 ELSE -((end * (start - v)) \div (30 + start))

vol2attn(v, max, min) ==
  LET r == max - min
  IN max + Smaller(Line(0, r \div 2, v), Smaller(Line(-5, (3 * r) \div 4, v), Line(-17, r, v)))

Scaled(s, v) ==
  LET max == MaxOf(Limits(s))
      min == MinOf(Limits(s))
  IN CASE s.ignored -> max
       [] ~s.ignored /\ s.profile = "standard" -> vol2attn(v, max, min)
       [] ~s.ignored /\ s.profile = "flat" -> flat_vol2attn(v, max, min)
       [] ~s.ignored /\ s.profile = "dasl_tapered" -> dasl_tapered_vol2attn(v, max, min)

\* How an attenuation is shared out: one mixer stays at its lowest until the other is at its
\* highest.
HardwareShare(s, a) ==
  LET l == Limits(s)
  IN CASE l.mode = "hardware" -> a
       [] l.mode = "software" -> 0
       [] l.mode = "both" /\ s.hwFirst -> l.hwMin + Larger(0, a - (l.swMax - l.swMin))
       [] l.mode = "both" /\ ~s.hwFirst -> l.hwMin + Smaller(a, l.hwMax - l.hwMin)

BugSoftwareShare(s, a) ==
  LET l == Limits(s)
  IN CASE l.mode = "hardware" -> 0
       [] l.mode = "software" -> a
       [] l.mode = "both" -> l.swMin + Smaller(a, l.swMax - l.swMin)
SoftwareShare(s, a) ==
  LET l == Limits(s)
  IN CASE l.mode = "hardware" -> 0
       [] l.mode = "software" -> a
       [] l.mode = "both" /\ s.hwFirst -> l.swMin + Smaller(a, l.swMax - l.swMin)
       [] l.mode = "both" /\ ~s.hwFirst -> l.swMin + Larger(0, a - (l.hwMax - l.hwMin))

---------------------------------------------------------------------------
VolumeInit ==
  /\ setting \in Settings
  /\ airplay_volume = Loudest
  /\ own_airplay_volume = [c \in Connections |-> 0]
  /\ own_airplay_volume_set = [c \in Connections |-> FALSE]
  /\ principal = Nobody /\ player = "none" /\ initial = 0
  /\ hardware = 0 /\ software = 0
  /\ hardware_mute = FALSE /\ software_mute_enabled = [c \in Connections |-> FALSE]
  /\ asked = [c \in Connections |-> Loudest] /\ requests = 0

\* player_volume_without_notification, for the principal connection.
SetVolume(v) ==
  /\ airplay_volume' = v
  /\ own_airplay_volume' = [own_airplay_volume EXCEPT ![principal] = v]
  /\ IF v = Mute
       THEN /\ UNCHANGED <<hardware, software>>
            /\ hardware_mute' = (hardware_mute \/ (~setting.ignored /\ setting.mute = "works"))
            /\ software_mute_enabled' = [software_mute_enabled EXCEPT
                 ![principal] = @ \/ (~setting.ignored /\ setting.mute /= "works")]
       ELSE /\ LET a == Scaled(setting, v)
               IN /\ hardware' = IF setting.range = <<>> THEN hardware ELSE HardwareShare(setting, a)
                  /\ software' = SoftwareShare(setting, a)
            /\ hardware_mute' = FALSE
            /\ software_mute_enabled' = [software_mute_enabled EXCEPT ![principal] = FALSE]

\* handle_set_parameter_parameter.  A connection that does not play only remembers.
Request(c, v) ==
  /\ requests < MaxRequests
  /\ Apart => player /= "beginning"
  /\ requests' = requests + 1
  /\ asked' = [asked EXCEPT ![c] = v]
  /\ own_airplay_volume_set' = [own_airplay_volume_set EXCEPT ![c] = TRUE]
  /\ IF principal = c
       THEN SetVolume(v)
       ELSE /\ own_airplay_volume' = [own_airplay_volume EXCEPT ![c] = v]
            /\ UNCHANGED <<airplay_volume, hardware, software, hardware_mute, software_mute_enabled>>
  /\ UNCHANGED <<setting, principal, player, initial>>

suggested_volume(c) ==
  IF own_airplay_volume_set[c] THEN own_airplay_volume[c] ELSE airplay_volume

\* player_thread_func as it begins to play
LookUp(c) ==
  /\ principal = Nobody
  /\ principal' = c /\ player' = "beginning" /\ initial' = suggested_volume(c)
  /\ asked' = IF own_airplay_volume_set[c] THEN asked ELSE [asked EXCEPT ![c] = airplay_volume]
  /\ UNCHANGED <<setting, airplay_volume, own_airplay_volume, own_airplay_volume_set, hardware,
                 software, hardware_mute, software_mute_enabled, requests>>

Begin ==
  /\ player = "beginning"
  /\ player' = "playing" /\ SetVolume(initial)
  /\ UNCHANGED <<setting, own_airplay_volume_set, principal, initial, asked, requests>>

End ==
  /\ player = "playing"
  /\ principal' = Nobody /\ player' = "none"
  /\ UNCHANGED <<setting, airplay_volume, own_airplay_volume, own_airplay_volume_set, initial,
                 hardware, software, hardware_mute, software_mute_enabled, asked, requests>>

VolumeNext ==
  \/ \E c \in Connections, v \in RequestOrMute : Request(c, v)
  \/ \E c \in Connections : LookUp(c)
  \/ Begin \/ End

VolumeSpec == VolumeInit /\ [][VolumeNext]_volumeVars

---------------------------------------------------------------------------
VolumeTypeOK ==
  /\ airplay_volume \in RequestOrMute \cup {Loudest}
  /\ own_airplay_volume \in [Connections -> RequestOrMute \cup {Loudest, 0}]
  /\ principal \in Connections \cup {Nobody}
  /\ player \in {"none", "beginning", "playing"}
  /\ hardware \in Int /\ software \in Int
  /\ hardware_mute \in BOOLEAN /\ software_mute_enabled \in [Connections -> BOOLEAN]

\* What is heard is what was last asked for on the connection that plays, whichever mixers do
\* it, through mutes and changes of connection; a source that asks for silence gets it.
AskedIsHeard ==
  player = "playing" =>
    LET v == asked[principal]
        quiet == hardware_mute \/ software_mute_enabled[principal]
    IN /\ quiet <=> (v = Mute /\ ~setting.ignored)
       /\ v /= Mute =>
            LET l == Limits(setting)
                total == IF l.mode = "both" THEN hardware + software - l.hwMin - l.swMin
                         ELSE IF l.mode = "hardware" THEN hardware ELSE software
            IN total = Scaled(setting, v)

\* The levels of a configuration: a higher volume is never softer, each mixer stays in its own
\* range, and software never makes a sample larger.
LevelsInOrder ==
  LET l == Limits(setting)
  IN \A v \in Requests :
       LET a == Scaled(setting, v)
       IN /\ \A w \in Requests : v <= w => a <= Scaled(setting, w)
          /\ MinOf(l) <= a /\ a <= MaxOf(l)
          /\ SoftwareShare(setting, a) <= 0
          /\ setting.range /= <<>> =>
               /\ setting.range[1] <= HardwareShare(setting, a)
               /\ HardwareShare(setting, a) <= setting.range[2]

\* Nothing is louder than the maximum of the configuration, in whole decibels.
MaximumKept ==
  (setting.limited /\ setting.max <= 0 /\ (setting.range = <<>> \/ setting.wanted > 0)) =>
    \A v \in Requests :
      LET a == Scaled(setting, v)
      IN HardwareShare(setting, a) + SoftwareShare(setting, a) <= Whole(setting.max)

VolumeRight == AskedIsHeard /\ LevelsInOrder /\ MaximumKept
=============================================================================
