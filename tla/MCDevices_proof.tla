---------------------------- MODULE MCDevices_proof ----------------------------
(***************************************************************************)
(* Proofs about the components of MCDevices, for any of them in whatever   *)
(* size and number its constants say.  Each component has an invariant     *)
(* that its steps keep:                                                    *)
(*   Inv         of the ALSA back end: what the player believes of the     *)
(*               device.  The program does not promise it when opening a   *)
(*               device fails partway, which leaves the device half open;  *)
(*               where that matters it is assumed not to happen;           *)
(*   NqptpInv    of NQPTP's record: what has been read of a copy that was  *)
(*               not written meanwhile, and which copies can be whole;     *)
(*   TimingInv   of the timing exchange: the replies on their way are of   *)
(*               the last request, and no stored difference is further     *)
(*               from the truth than its dispersion;                       *)
(*   AnchorInv   of the PTP anchor: how the anchor, the last one, the      *)
(*               master clock and the callers' copies agree while a        *)
(*               steady source is asked by one caller at a time;           *)
(*   HubInv      of the metadata hub: a tag that is filed and not          *)
(*               announced is followed by the end of its packet;           *)
(*   LevelInv    of the volume: what is remembered of a connection is      *)
(*               what was asked for on it, and what is heard is that, as   *)
(*               long as no request comes while a play begins;             *)
(*   RingInv     of the rings: the last frames put in are between the      *)
(*               pointers, what was handed over or flushed was put in      *)
(*               before them, and a delay that is being measured misses    *)
(*               at most what the callback has in its hands.               *)
(* The last part puts them together: a step is one of a single component,  *)
(* and disturbs no other.                                                  *)
(***************************************************************************)
EXTENDS MCDevices, SequenceTheorems, FiniteSetTheorems, WellFoundedInduction, TLAPS

(***************************************************************************)
(* The ALSA back end: what the player believes of the device               *)
(***************************************************************************)

\* Who is in do_open, and where, go together; the back end is disconnected and
\* the device prepared all the while.  Otherwise a device is open exactly while
\* the back end is connected or playing.
OpeningInv ==
  /\ opener = "nobody" <=> opening = ""
  /\ pcm /= "bare"
  /\ IF opener = "nobody"
     THEN alsa_backend_state = "disconnected" <=> pcm = "none"
     ELSE alsa_backend_state = "disconnected" /\ pcm = "prepared"

\* The mixer mutes in one way only.
MuteInv == hasSwitch => ~volume_based_mute_is_active

\* A call of volume() passes on what was last asked for.
CallerInv ==
  IF caller.at = "idle" THEN caller = Calm ELSE caller.vol = wanted

\* A do_open that no call of volume() overlapped found no call under way, and
\* writes back the volume it read.
OpenerInv ==
  ~overlapped /\ opener /= "nobody" =>
    /\ caller = Calm
    /\ opening \in {"set", "apply", "mute", "connect"} => opener_volume = wanted
    /\ opening \in {"mute", "connect"} => ~volume_set_request

\* Unless a do_open came between, a call leaves its volume in set_volume, its
\* request is outstanding until it is put into effect, and it can be left
\* outstanding only while there is no device.
VolumeInv ==
  ~overlapped =>
    /\ caller.at /= "set" => set_volume = wanted
    /\ caller.at /= "idle" => volume_set_request
    /\ caller = Calm /\ ~volume_set_request /\ ~volume_based_mute_is_active =>
         level = wanted
    /\ caller = Calm /\ alsa_backend_state /= "disconnected" => ~volume_set_request

Inv ==
  /\ TypeOK /\ OpeningInv /\ MuteInv /\ CallerInv /\ OpenerInv /\ VolumeInv
  /\ StatsTellsBreak
\* No call of volume() is under way.
LEMMA CalmIdle == Calm.at = "idle"
BY DEF Calm

\* Whatever the state, and whether or not opening may fail partway, every step keeps the types.
LEMMA TypesStay ==
  ASSUME TypeOK, [Next]_vars
  PROVE  TypeOK'
<1> USE AlsaAssumption DEF TypeOK, vars, device, mixer, requests, open, mon
<1>1. CASE OpenReadsVolume
  BY <1>1, ZenonT(60) DEF OpenReadsVolume, Calm, AnyVolume
<1>2. CASE OpenSetsVolume
  BY <1>2, ZenonT(60) DEF OpenSetsVolume, Calm, AnyVolume
<1>3. CASE OpenAppliesVolume
  BY <1>3, ZenonT(60) DEF OpenAppliesVolume, Applied, Calm, AnyVolume
<1>4. CASE OpenSetsMute
  BY <1>4, ZenonT(60) DEF OpenSetsMute, MuteSet, Calm, AnyVolume
<1>5. CASE OpenConnects
  BY <1>5, ZenonT(60) DEF OpenConnects, Restarted, Calm, AnyVolume
<1>6. CASE \E f \in Formats : Configure(f)
  BY <1>6, ZenonT(60) DEF Configure, PlayerMay, AlsaMutexFree, Opened, OpenFails, Calm, AnyVolume
<1>7. CASE PlayOpens
  BY <1>7, ZenonT(60) DEF PlayOpens, PlayerMay, AlsaMutexFree, Opened, OpenFails, Calm, AnyVolume
<1>8. CASE Play
  BY <1>8, ZenonT(60) DEF Play, PlayerMay, AlsaMutexFree, Written, Broken, Calm, AnyVolume
<1>9. CASE Flush
  BY <1>9, ZenonT(60) DEF Flush, PlayerMay, AlsaMutexFree, Broken, Calm, AnyVolume
<1>10. CASE Stop
  BY <1>10, ZenonT(60) DEF Stop, PlayerMay, AlsaMutexFree, Closed, Calm, AnyVolume
<1>11. CASE Stats
  BY <1>11, ZenonT(60) DEF Stats, PlayerMay, AlsaMutexFree, Calm, AnyVolume
<1>12. CASE Underrun
  BY <1>12, ZenonT(60) DEF Underrun, Calm, AnyVolume
<1>13. CASE \E v \in Volumes : Volume(v)
  <2>1. PICK v \in Volumes : Volume(v)
    BY <1>13
  <2>2. caller' \in [at: {"idle", "set", "apply"}, vol: Volumes]
    BY <2>1 DEF Volume
  <2> QED
    BY <2>1, <2>2, ZenonT(60) DEF Volume, AlsaMutexFree
<1>14. CASE VolumeSets
  BY <1>14, ZenonT(60) DEF VolumeSets, Calm, AnyVolume
<1>15. CASE VolumeApplies
  BY <1>15, ZenonT(60) DEF VolumeApplies, Applied, Calm, AnyVolume
<1>16. CASE \E on \in BOOLEAN : Mute(on)
  BY <1>16, ZenonT(60) DEF Mute, MuteSet, Calm, AnyVolume
<1>17. CASE \E on \in BOOLEAN : KeepDacBusy(on)
  BY <1>17, ZenonT(60) DEF KeepDacBusy, Calm, AnyVolume
<1>18. CASE MonitorConfigures
  BY <1>18, ZenonT(60) DEF MonitorConfigures, Calm, AnyVolume
<1>19. CASE MonitorLooks
  BY <1>19, ZenonT(60) DEF MonitorLooks, Calm, AnyVolume
<1>20. CASE MonitorOpens
  BY <1>20, ZenonT(60) DEF MonitorOpens, AlsaMutexFree, Opened, OpenFails, Calm, AnyVolume
<1>21. CASE MonitorCloses
  BY <1>21, ZenonT(60) DEF MonitorCloses, AlsaMutexFree, Closed, Calm, AnyVolume
<1>22. CASE MonitorFills
  BY <1>22, ZenonT(60) DEF MonitorFills, AlsaMutexFree, Written, Broken, Calm, AnyVolume
<1>23. CASE MonitorRests
  BY <1>23, ZenonT(60) DEF MonitorRests, AlsaMutexFree, Calm, AnyVolume
<1>24. CASE DeinitCloses
  BY <1>24, ZenonT(60) DEF DeinitCloses, AlsaMutexFree, Closed, Calm, AnyVolume
<1>25. CASE DeinitJoins
  BY <1>25, ZenonT(60) DEF DeinitJoins, AlsaMutexFree, Calm, AnyVolume
<1>26. CASE UNCHANGED vars
  <2>1. keep_dac_busy' \in BOOLEAN
    BY <1>26, Zenon
  <2>2. {frames_sent_break_occurred', unreported', hasSwitch', switchedOff',
         volume_based_mute_is_active', mute_requested_externally',
         volume_set_request', overlapped', okb', gone_off'} \subseteq BOOLEAN
    BY <1>26
  <2>3. /\ alsa_backend_state' \in {"disconnected", "connected", "playing"}
        /\ pcm' \in {"none", "bare", "prepared", "running", "xrun"}
        /\ opener' \in {"nobody", "play", "configure", "monitor"}
        /\ opening' \in {"", "read", "set", "apply", "mute", "connect"}
        /\ main' \in {"running", "closed", "down"}
    BY <1>26
  <2>4. /\ {current_encoded_output_format', pcmFormat'}
             \subseteq Formats \union {DefaultFormat, NoFormat}
        /\ {opener_volume', set_volume', wanted'} \subseteq Volumes
        /\ level' \in Volumes \union {Muted}
    BY <1>26
  <2>5. /\ caller' \in [at: {"idle", "set", "apply"}, vol: Volumes]
        /\ monitor' \in {"wait", "look", "scan", "fill", "ended"}
    BY <1>26
  <2> QED
    BY <2>1, <2>2, <2>3, <2>4, <2>5
<1> HIDE DEF TypeOK, vars, device, mixer, requests, open, mon
<1> QED
  BY <1>1, <1>2, <1>3, <1>4, <1>5, <1>6, <1>7, <1>8, <1>9, <1>10, <1>11, <1>12, <1>13, <1>14,
     <1>15, <1>16, <1>17, <1>18, <1>19, <1>20, <1>21, <1>22, <1>23, <1>24, <1>25, <1>26, Zenon
     DEF Next, DoOpenStep, Monitor

\* do_open reads the volume that was asked for, unless a call overlaps.
LEMMA OpenReadsVolumeKeeps ==
  ASSUME "partway" \notin OpenFailures, Inv, OpenReadsVolume
  PROVE  Inv'
<1>1. TypeOK'
  BY TypesStay, Zenon DEF Inv, Next, DoOpenStep
<1> USE AlsaAssumption DEF Inv, TypeOK, OpeningInv, vars, device, mixer,
      requests, open, mon, OpenReadsVolume
<1>2. OpeningInv' /\ MuteInv'
  BY DEF MuteInv
<1>3. CallerInv'
  BY DEF CallerInv, Calm
<1>4. OpenerInv'
  BY DEF CallerInv, OpenerInv, VolumeInv, Calm
<1>5. VolumeInv'
  BY DEF MuteInv, CallerInv, OpenerInv, VolumeInv, Calm
<1>6. StatsTellsBreak'
  BY DEF StatsTellsBreak, AlsaMutexFree
<1> QED
  BY <1>1, <1>2, <1>3, <1>4, <1>5, <1>6

\* do_open writes back what it read.
LEMMA OpenSetsVolumeKeeps ==
  ASSUME "partway" \notin OpenFailures, Inv, OpenSetsVolume
  PROVE  Inv'
<1>1. TypeOK'
  BY TypesStay, Zenon DEF Inv, Next, DoOpenStep
<1> USE AlsaAssumption DEF Inv, TypeOK, OpeningInv, vars, device, mixer,
      requests, open, mon, OpenSetsVolume
<1>2. OpeningInv' /\ MuteInv'
  BY DEF MuteInv
<1>3. CallerInv'
  BY DEF CallerInv, Calm
<1>4. OpenerInv'
  BY DEF CallerInv, OpenerInv, VolumeInv, Calm
<1>5. VolumeInv'
  BY DEF MuteInv, CallerInv, OpenerInv, VolumeInv, Calm
<1>6. StatsTellsBreak'
  BY DEF StatsTellsBreak, AlsaMutexFree
<1> QED
  BY <1>1, <1>2, <1>3, <1>4, <1>5, <1>6

\* do_open puts an outstanding request into effect.
LEMMA OpenAppliesVolumeKeeps ==
  ASSUME "partway" \notin OpenFailures, Inv, OpenAppliesVolume
  PROVE  Inv'
<1>1. TypeOK'
  BY TypesStay, Zenon DEF Inv, Next, DoOpenStep
<1> USE AlsaAssumption DEF Inv, TypeOK, OpeningInv, vars, device, mixer,
      requests, open, mon, OpenAppliesVolume, Applied
<1>2. OpeningInv' /\ MuteInv'
  BY DEF MuteInv
<1>3. CallerInv'
  BY DEF CallerInv, Calm
<1>4. OpenerInv'
  BY DEF CallerInv, OpenerInv, VolumeInv, Calm
<1>5. VolumeInv'
  BY DEF MuteInv, CallerInv, OpenerInv, VolumeInv, Calm
<1>6. StatsTellsBreak'
  BY DEF StatsTellsBreak, AlsaMutexFree
<1> QED
  BY <1>1, <1>2, <1>3, <1>4, <1>5, <1>6

\* The back end is disconnected still: set_mute_state does nothing.
LEMMA OpenSetsMuteKeeps ==
  ASSUME "partway" \notin OpenFailures, Inv, OpenSetsMute
  PROVE  Inv'
<1>1. TypeOK'
  BY TypesStay, Zenon DEF Inv, Next, DoOpenStep
<1> USE AlsaAssumption DEF Inv, TypeOK, OpeningInv, vars, device, mixer,
      requests, open, mon, OpenSetsMute, MuteSet
<1>2. OpeningInv' /\ MuteInv'
  BY DEF MuteInv
<1>3. CallerInv'
  BY DEF CallerInv, Calm
<1>4. OpenerInv'
  BY DEF CallerInv, OpenerInv, VolumeInv, Calm
<1>5. VolumeInv'
  BY DEF MuteInv, CallerInv, OpenerInv, VolumeInv, Calm
<1>6. StatsTellsBreak'
  BY DEF StatsTellsBreak, AlsaMutexFree
<1> QED
  BY <1>1, <1>2, <1>3, <1>4, <1>5, <1>6

\* The end of do_open marks a break; no request is outstanding.
LEMMA OpenConnectsKeeps ==
  ASSUME "partway" \notin OpenFailures, Inv, OpenConnects
  PROVE  Inv'
<1>1. TypeOK'
  BY TypesStay, Zenon DEF Inv, Next, DoOpenStep
<1> USE AlsaAssumption DEF Inv, TypeOK, OpeningInv, vars, device, mixer,
      requests, open, mon, OpenConnects, Restarted
<1>2. OpeningInv' /\ MuteInv'
  BY DEF MuteInv
<1>3. CallerInv'
  BY DEF CallerInv, Calm
<1>4. OpenerInv'
  BY DEF CallerInv, OpenerInv, VolumeInv, Calm
<1>5. VolumeInv'
  BY DEF MuteInv, CallerInv, OpenerInv, VolumeInv, Calm
<1>6. StatsTellsBreak'
  BY DEF StatsTellsBreak, AlsaMutexFree
<1> QED
  BY <1>1, <1>2, <1>3, <1>4, <1>5, <1>6

\* A new configuration closes the device and opens it again, or fails to.
LEMMA ConfigureKeeps ==
  ASSUME "partway" \notin OpenFailures, Inv, NEW f \in Formats, Configure(f)
  PROVE  Inv'
<1>1. TypeOK'
  BY TypesStay, Zenon DEF Inv, Next
<1> USE AlsaAssumption DEF Inv, TypeOK, OpeningInv, vars, device, mixer,
      requests, open, mon, Configure, PlayerMay, AlsaMutexFree, Opened,
      OpenFails
<1>2. OpeningInv' /\ MuteInv'
  BY DEF MuteInv
<1>3. CallerInv'
  BY DEF CallerInv, Calm
<1>4. OpenerInv'
  BY DEF CallerInv, OpenerInv, VolumeInv, Calm
<1>5. VolumeInv'
  <2>1. ~overlapped' => ~overlapped
    OBVIOUS
  <2>2. ~overlapped' /\ alsa_backend_state' /= "disconnected" =>
          alsa_backend_state /= "disconnected"
    OBVIOUS
  <2> QED
    BY <2>1, <2>2 DEF VolumeInv
<1>6. StatsTellsBreak'
  BY DEF StatsTellsBreak, AlsaMutexFree
<1> QED
  BY <1>1, <1>2, <1>3, <1>4, <1>5, <1>6

\* play opens the device when there is none.
LEMMA PlayOpensKeeps ==
  ASSUME "partway" \notin OpenFailures, Inv, PlayOpens
  PROVE  Inv'
<1>1. TypeOK'
  BY TypesStay, Zenon DEF Inv, Next
<1> USE AlsaAssumption DEF Inv, TypeOK, OpeningInv, vars, device, mixer,
      requests, open, mon, PlayOpens, PlayerMay, AlsaMutexFree, Opened,
      OpenFails
<1>2. OpeningInv' /\ MuteInv'
  BY DEF MuteInv
<1>3. CallerInv'
  BY DEF CallerInv, Calm
<1>4. OpenerInv'
  BY DEF CallerInv, OpenerInv, VolumeInv, Calm
<1>5. VolumeInv'
  BY DEF MuteInv, CallerInv, OpenerInv, VolumeInv, Calm
<1>6. StatsTellsBreak'
  BY DEF StatsTellsBreak, AlsaMutexFree
<1> QED
  BY <1>1, <1>2, <1>3, <1>4, <1>5, <1>6

\* Frames are written, or the break is noted.
LEMMA PlayKeeps ==
  ASSUME "partway" \notin OpenFailures, Inv, Play
  PROVE  Inv'
<1>1. TypeOK'
  BY TypesStay, Zenon DEF Inv, Next
<1> USE AlsaAssumption DEF Inv, TypeOK, OpeningInv, vars, device, mixer,
      requests, open, mon, Play, PlayerMay, AlsaMutexFree, Written, Broken
<1>2. OpeningInv' /\ MuteInv'
  BY DEF MuteInv
<1>3. CallerInv'
  BY DEF CallerInv, Calm
<1>4. OpenerInv'
  BY DEF CallerInv, OpenerInv, VolumeInv, Calm
<1>5. VolumeInv'
  BY DEF MuteInv, CallerInv, OpenerInv, VolumeInv, Calm
<1>6. StatsTellsBreak'
  <2>1. CASE frames_sent_break_occurred'
    BY <2>1 DEF StatsTellsBreak
  <2>2. CASE UNCHANGED <<frames_sent_break_occurred, unreported>>
    BY <2>2 DEF StatsTellsBreak, AlsaMutexFree
  <2>3. \/ frames_sent_break_occurred'
        \/ UNCHANGED <<frames_sent_break_occurred, unreported>>
    OBVIOUS
  <2> QED
    BY <2>1, <2>2, <2>3
<1> QED
  BY <1>1, <1>2, <1>3, <1>4, <1>5, <1>6

\* A flush is a break.
LEMMA FlushKeeps ==
  ASSUME "partway" \notin OpenFailures, Inv, Flush
  PROVE  Inv'
<1>1. TypeOK'
  BY TypesStay, Zenon DEF Inv, Next
<1> USE AlsaAssumption DEF Inv, TypeOK, OpeningInv, vars, device, mixer,
      requests, open, mon, Flush, PlayerMay, AlsaMutexFree, Broken
<1>2. OpeningInv' /\ MuteInv'
  BY DEF MuteInv
<1>3. CallerInv'
  BY DEF CallerInv, Calm
<1>4. OpenerInv'
  BY DEF CallerInv, OpenerInv, VolumeInv, Calm
<1>5. VolumeInv'
  BY DEF MuteInv, CallerInv, OpenerInv, VolumeInv, Calm
<1>6. StatsTellsBreak'
  BY DEF StatsTellsBreak, AlsaMutexFree
<1> QED
  BY <1>1, <1>2, <1>3, <1>4, <1>5, <1>6

\* A stop closes the device.
LEMMA StopKeeps ==
  ASSUME "partway" \notin OpenFailures, Inv, Stop
  PROVE  Inv'
<1>1. TypeOK'
  BY TypesStay, Zenon DEF Inv, Next
<1> USE AlsaAssumption DEF Inv, TypeOK, OpeningInv, vars, device, mixer,
      requests, open, mon, Stop, PlayerMay, AlsaMutexFree, Closed
<1>2. OpeningInv' /\ MuteInv'
  BY DEF MuteInv
<1>3. CallerInv'
  BY DEF CallerInv, Calm
<1>4. OpenerInv'
  BY DEF CallerInv, OpenerInv, VolumeInv, Calm
<1>5. VolumeInv'
  BY DEF MuteInv, CallerInv, OpenerInv, VolumeInv, Calm
<1>6. StatsTellsBreak'
  BY DEF StatsTellsBreak, AlsaMutexFree
<1> QED
  BY <1>1, <1>2, <1>3, <1>4, <1>5, <1>6

\* stats answers, and starts afresh.
LEMMA StatsKeeps ==
  ASSUME "partway" \notin OpenFailures, Inv, Stats
  PROVE  Inv'
<1>1. TypeOK'
  BY TypesStay, Zenon DEF Inv, Next
<1> USE AlsaAssumption DEF Inv, TypeOK, OpeningInv, vars, device, mixer,
      requests, open, mon, Stats, PlayerMay, AlsaMutexFree
<1>2. OpeningInv' /\ MuteInv'
  BY DEF MuteInv
<1>3. CallerInv'
  BY DEF CallerInv, Calm
<1>4. OpenerInv'
  BY DEF CallerInv, OpenerInv, VolumeInv, Calm
<1>5. VolumeInv'
  BY DEF MuteInv, CallerInv, OpenerInv, VolumeInv, Calm
<1>6. StatsTellsBreak'
  BY DEF StatsTellsBreak, AlsaMutexFree
<1> QED
  BY <1>1, <1>2, <1>3, <1>4, <1>5, <1>6

\* The device runs dry.
LEMMA UnderrunKeeps ==
  ASSUME "partway" \notin OpenFailures, Inv, Underrun
  PROVE  Inv'
<1>1. TypeOK'
  BY TypesStay, Zenon DEF Inv, Next
<1> USE AlsaAssumption DEF Inv, TypeOK, OpeningInv, vars, device, mixer,
      requests, open, mon, Underrun
<1>2. OpeningInv' /\ MuteInv'
  BY DEF MuteInv
<1>3. CallerInv'
  BY DEF CallerInv, Calm
<1>4. OpenerInv'
  BY DEF CallerInv, OpenerInv, VolumeInv, Calm
<1>5. VolumeInv'
  BY DEF MuteInv, CallerInv, OpenerInv, VolumeInv, Calm
<1>6. StatsTellsBreak'
  BY DEF StatsTellsBreak, AlsaMutexFree
<1> QED
  BY <1>1, <1>2, <1>3, <1>4, <1>5, <1>6

\* A call of volume() begins.
LEMMA VolumeKeeps ==
  ASSUME "partway" \notin OpenFailures, Inv, NEW v \in Volumes, Volume(v)
  PROVE  Inv'
<1>1. TypeOK'
  BY TypesStay, Zenon DEF Inv, Next
<1> USE AlsaAssumption DEF Inv, TypeOK, OpeningInv, vars, device, mixer,
      requests, open, mon, Volume, AlsaMutexFree
<1>2. OpeningInv' /\ MuteInv'
  BY DEF MuteInv
<1>3. CallerInv'
  BY DEF CallerInv, Calm
<1>4. OpenerInv'
  BY DEF CallerInv, OpenerInv, VolumeInv, Calm
<1>5. VolumeInv'
  BY DEF MuteInv, CallerInv, OpenerInv, VolumeInv, Calm
<1>6. StatsTellsBreak'
  BY DEF StatsTellsBreak, AlsaMutexFree
<1> QED
  BY <1>1, <1>2, <1>3, <1>4, <1>5, <1>6

\* The call sets set_volume, which a do_open that it overlaps may write over.
LEMMA VolumeSetsKeeps ==
  ASSUME "partway" \notin OpenFailures, Inv, VolumeSets
  PROVE  Inv'
<1>1. TypeOK'
  BY TypesStay, Zenon DEF Inv, Next
<1> USE AlsaAssumption DEF Inv, TypeOK, OpeningInv, vars, device, mixer,
      requests, open, mon, VolumeSets
<1>2. OpeningInv' /\ MuteInv'
  BY DEF MuteInv
<1>3. CallerInv'
  BY DEF CallerInv, Calm
<1>4. OpenerInv'
  <2>1. caller /= Calm
    BY CalmIdle
  <2>2. opener = "nobody" \/ overlapped
    BY <2>1 DEF OpenerInv
  <2> QED
    BY <2>2 DEF OpenerInv
<1>5. VolumeInv'
  BY DEF MuteInv, CallerInv, OpenerInv, VolumeInv, Calm
<1>6. StatsTellsBreak'
  BY DEF StatsTellsBreak, AlsaMutexFree
<1> QED
  BY <1>1, <1>2, <1>3, <1>4, <1>5, <1>6

\* The call ends: the mixer has the volume, or there is no device.
LEMMA VolumeAppliesKeeps ==
  ASSUME "partway" \notin OpenFailures, Inv, VolumeApplies
  PROVE  Inv'
<1>1. TypeOK'
  BY TypesStay, Zenon DEF Inv, Next
<1> USE AlsaAssumption DEF Inv, TypeOK, OpeningInv, vars, device, mixer,
      requests, open, mon, VolumeApplies, Applied
<1>2. OpeningInv' /\ MuteInv'
  BY DEF MuteInv
<1>3. CallerInv'
  BY DEF CallerInv, Calm
<1>4. OpenerInv'
  BY DEF CallerInv, OpenerInv, VolumeInv, Calm
<1>5. VolumeInv'
  BY DEF MuteInv, CallerInv, OpenerInv, VolumeInv, Calm
<1>6. StatsTellsBreak'
  BY DEF StatsTellsBreak, AlsaMutexFree
<1> QED
  BY <1>1, <1>2, <1>3, <1>4, <1>5, <1>6

\* The end of a mute restores set_volume.
LEMMA MuteKeeps ==
  ASSUME "partway" \notin OpenFailures, Inv, NEW on \in BOOLEAN, Mute(on)
  PROVE  Inv'
<1>1. TypeOK'
  BY TypesStay, Zenon DEF Inv, Next
<1> USE AlsaAssumption DEF Inv, TypeOK, OpeningInv, vars, device, mixer,
      requests, open, mon, Mute, MuteSet
<1>2. OpeningInv' /\ MuteInv'
  BY DEF MuteInv
<1>3. CallerInv'
  BY DEF CallerInv, Calm
<1>4. OpenerInv'
  BY DEF CallerInv, OpenerInv, VolumeInv, Calm
<1>5. VolumeInv'
  BY DEF MuteInv, CallerInv, OpenerInv, VolumeInv, Calm
<1>6. StatsTellsBreak'
  BY DEF StatsTellsBreak, AlsaMutexFree
<1> QED
  BY <1>1, <1>2, <1>3, <1>4, <1>5, <1>6

\* keep_dac_busy goes on or off.
LEMMA KeepDacBusyKeeps ==
  ASSUME "partway" \notin OpenFailures, Inv, NEW on \in BOOLEAN, KeepDacBusy(on)
  PROVE  Inv'
<1>1. TypeOK'
  BY TypesStay, Zenon DEF Inv, Next
<1> USE AlsaAssumption DEF Inv, TypeOK, OpeningInv, vars, device, mixer,
      requests, open, mon, KeepDacBusy
<1>2. OpeningInv' /\ MuteInv'
  BY DEF MuteInv
<1>3. CallerInv'
  BY DEF CallerInv, Calm
<1>4. OpenerInv'
  BY DEF CallerInv, OpenerInv, VolumeInv, Calm
<1>5. VolumeInv'
  BY DEF MuteInv, CallerInv, OpenerInv, VolumeInv, Calm
<1>6. StatsTellsBreak'
  BY DEF StatsTellsBreak, AlsaMutexFree
<1> QED
  BY <1>1, <1>2, <1>3, <1>4, <1>5, <1>6

\* The buffer monitor sets a configuration.
LEMMA MonitorConfiguresKeeps ==
  ASSUME "partway" \notin OpenFailures, Inv, MonitorConfigures
  PROVE  Inv'
<1>1. TypeOK'
  BY TypesStay, Zenon DEF Inv, Next, Monitor
<1> USE AlsaAssumption DEF Inv, TypeOK, OpeningInv, vars, device, mixer,
      requests, open, mon, MonitorConfigures
<1>2. OpeningInv' /\ MuteInv'
  BY DEF MuteInv
<1>3. CallerInv'
  BY DEF CallerInv, Calm
<1>4. OpenerInv'
  BY DEF CallerInv, OpenerInv, VolumeInv, Calm
<1>5. VolumeInv'
  BY DEF MuteInv, CallerInv, OpenerInv, VolumeInv, Calm
<1>6. StatsTellsBreak'
  BY DEF StatsTellsBreak, AlsaMutexFree
<1> QED
  BY <1>1, <1>2, <1>3, <1>4, <1>5, <1>6

\* The buffer monitor looks at keep_dac_busy.
LEMMA MonitorLooksKeeps ==
  ASSUME "partway" \notin OpenFailures, Inv, MonitorLooks
  PROVE  Inv'
<1>1. TypeOK'
  BY TypesStay, Zenon DEF Inv, Next, Monitor
<1> USE AlsaAssumption DEF Inv, TypeOK, OpeningInv, vars, device, mixer,
      requests, open, mon, MonitorLooks
<1>2. OpeningInv' /\ MuteInv'
  BY DEF MuteInv
<1>3. CallerInv'
  BY DEF CallerInv, Calm
<1>4. OpenerInv'
  BY DEF CallerInv, OpenerInv, VolumeInv, Calm
<1>5. VolumeInv'
  BY DEF MuteInv, CallerInv, OpenerInv, VolumeInv, Calm
<1>6. StatsTellsBreak'
  BY DEF StatsTellsBreak, AlsaMutexFree
<1> QED
  BY <1>1, <1>2, <1>3, <1>4, <1>5, <1>6

\* The buffer monitor opens the device when there is none.
LEMMA MonitorOpensKeeps ==
  ASSUME "partway" \notin OpenFailures, Inv, MonitorOpens
  PROVE  Inv'
<1>1. TypeOK'
  BY TypesStay, Zenon DEF Inv, Next, Monitor
<1> USE AlsaAssumption DEF Inv, TypeOK, OpeningInv, vars, device, mixer,
      requests, open, mon, MonitorOpens, AlsaMutexFree, Opened, OpenFails
<1>2. OpeningInv' /\ MuteInv'
  BY DEF MuteInv
<1>3. CallerInv'
  BY DEF CallerInv, Calm
<1>4. OpenerInv'
  BY DEF CallerInv, OpenerInv, VolumeInv, Calm
<1>5. VolumeInv'
  <2>1. ~overlapped' => ~overlapped
    OBVIOUS
  <2>2. ~overlapped' /\ alsa_backend_state' /= "disconnected" =>
          alsa_backend_state /= "disconnected"
    OBVIOUS
  <2> QED
    BY <2>1, <2>2 DEF VolumeInv
<1>6. StatsTellsBreak'
  BY DEF StatsTellsBreak, AlsaMutexFree
<1> QED
  BY <1>1, <1>2, <1>3, <1>4, <1>5, <1>6

\* The buffer monitor closes the device.
LEMMA MonitorClosesKeeps ==
  ASSUME "partway" \notin OpenFailures, Inv, MonitorCloses
  PROVE  Inv'
<1>1. TypeOK'
  BY TypesStay, Zenon DEF Inv, Next, Monitor
<1> USE AlsaAssumption DEF Inv, TypeOK, OpeningInv, vars, device, mixer,
      requests, open, mon, MonitorCloses, AlsaMutexFree, Closed
<1>2. OpeningInv' /\ MuteInv'
  BY DEF MuteInv
<1>3. CallerInv'
  BY DEF CallerInv, Calm
<1>4. OpenerInv'
  BY DEF CallerInv, OpenerInv, VolumeInv, Calm
<1>5. VolumeInv'
  BY DEF MuteInv, CallerInv, OpenerInv, VolumeInv, Calm
<1>6. StatsTellsBreak'
  BY DEF StatsTellsBreak, AlsaMutexFree
<1> QED
  BY <1>1, <1>2, <1>3, <1>4, <1>5, <1>6

\* Silence is written, or the break is noted.
LEMMA MonitorFillsKeeps ==
  ASSUME "partway" \notin OpenFailures, Inv, MonitorFills
  PROVE  Inv'
<1>1. TypeOK'
  BY TypesStay, Zenon DEF Inv, Next, Monitor
<1> USE AlsaAssumption DEF Inv, TypeOK, OpeningInv, vars, device, mixer,
      requests, open, mon, MonitorFills, AlsaMutexFree, Written, Broken
<1>2. OpeningInv' /\ MuteInv'
  BY DEF MuteInv
<1>3. CallerInv'
  BY DEF CallerInv, Calm
<1>4. OpenerInv'
  BY DEF CallerInv, OpenerInv, VolumeInv, Calm
<1>5. VolumeInv'
  BY DEF MuteInv, CallerInv, OpenerInv, VolumeInv, Calm
<1>6. StatsTellsBreak'
  <2>1. CASE frames_sent_break_occurred'
    BY <2>1 DEF StatsTellsBreak
  <2>2. CASE UNCHANGED <<frames_sent_break_occurred, unreported>>
    BY <2>2 DEF StatsTellsBreak, AlsaMutexFree
  <2>3. \/ frames_sent_break_occurred'
        \/ UNCHANGED <<frames_sent_break_occurred, unreported>>
    OBVIOUS
  <2> QED
    BY <2>1, <2>2, <2>3
<1> QED
  BY <1>1, <1>2, <1>3, <1>4, <1>5, <1>6

\* The buffer monitor has nothing to do.
LEMMA MonitorRestsKeeps ==
  ASSUME "partway" \notin OpenFailures, Inv, MonitorRests
  PROVE  Inv'
<1>1. TypeOK'
  BY TypesStay, Zenon DEF Inv, Next, Monitor
<1> USE AlsaAssumption DEF Inv, TypeOK, OpeningInv, vars, device, mixer,
      requests, open, mon, MonitorRests, AlsaMutexFree
<1>2. OpeningInv' /\ MuteInv'
  BY DEF MuteInv
<1>3. CallerInv'
  BY DEF CallerInv, Calm
<1>4. OpenerInv'
  BY DEF CallerInv, OpenerInv, VolumeInv, Calm
<1>5. VolumeInv'
  BY DEF MuteInv, CallerInv, OpenerInv, VolumeInv, Calm
<1>6. StatsTellsBreak'
  BY DEF StatsTellsBreak, AlsaMutexFree
<1> QED
  BY <1>1, <1>2, <1>3, <1>4, <1>5, <1>6

\* deinit closes the device.
LEMMA DeinitClosesKeeps ==
  ASSUME "partway" \notin OpenFailures, Inv, DeinitCloses
  PROVE  Inv'
<1>1. TypeOK'
  BY TypesStay, Zenon DEF Inv, Next
<1> USE AlsaAssumption DEF Inv, TypeOK, OpeningInv, vars, device, mixer,
      requests, open, mon, DeinitCloses, AlsaMutexFree, Closed
<1>2. OpeningInv' /\ MuteInv'
  BY DEF MuteInv
<1>3. CallerInv'
  BY DEF CallerInv, Calm
<1>4. OpenerInv'
  BY DEF CallerInv, OpenerInv, VolumeInv, Calm
<1>5. VolumeInv'
  BY DEF MuteInv, CallerInv, OpenerInv, VolumeInv, Calm
<1>6. StatsTellsBreak'
  BY DEF StatsTellsBreak, AlsaMutexFree
<1> QED
  BY <1>1, <1>2, <1>3, <1>4, <1>5, <1>6

\* deinit ends the buffer monitor thread.
LEMMA DeinitJoinsKeeps ==
  ASSUME "partway" \notin OpenFailures, Inv, DeinitJoins
  PROVE  Inv'
<1>1. TypeOK'
  BY TypesStay, Zenon DEF Inv, Next
<1> USE AlsaAssumption DEF Inv, TypeOK, OpeningInv, vars, device, mixer,
      requests, open, mon, DeinitJoins, AlsaMutexFree
<1>2. OpeningInv' /\ MuteInv'
  BY DEF MuteInv
<1>3. CallerInv'
  BY DEF CallerInv, Calm
<1>4. OpenerInv'
  BY DEF CallerInv, OpenerInv, VolumeInv, Calm
<1>5. VolumeInv'
  BY DEF MuteInv, CallerInv, OpenerInv, VolumeInv, Calm
<1>6. StatsTellsBreak'
  BY DEF StatsTellsBreak, AlsaMutexFree
<1> QED
  BY <1>1, <1>2, <1>3, <1>4, <1>5, <1>6

\* No device is open, no request has been made and no mute is on at first.
LEMMA InitInv == Init => Inv
<1> SUFFICES ASSUME Init
             PROVE  Inv
  OBVIOUS
<1> USE AlsaAssumption DEF Init
<1>1. TypeOK
  <2>1. AnyVolume \in Volumes
    BY DEF AnyVolume
  <2> QED
    BY <2>1 DEF TypeOK, Calm
<1>2. OpeningInv /\ MuteInv /\ StatsTellsBreak
  BY DEF OpeningInv, MuteInv, StatsTellsBreak
<1>3. CallerInv /\ OpenerInv /\ VolumeInv
  BY CalmIdle DEF CallerInv, OpenerInv, VolumeInv
<1> QED
  BY <1>1, <1>2, <1>3 DEF Inv

\* A step that changes nothing keeps the invariant.
LEMMA StutterKeeps ==
  ASSUME Inv, UNCHANGED vars
  PROVE  Inv'
<1>1. TypeOK'
  BY TypesStay, Zenon DEF Inv
<1> USE DEF Inv, vars, device, mixer, requests, open, mon
<1>2. OpeningInv' /\ MuteInv' /\ StatsTellsBreak'
  BY DEF OpeningInv, MuteInv, StatsTellsBreak, AlsaMutexFree
<1>3. CallerInv' /\ OpenerInv' /\ VolumeInv'
  BY DEF CallerInv, OpenerInv, VolumeInv
<1> QED
  BY <1>1, <1>2, <1>3

\* Every step keeps the invariant, if opening the device does not fail partway.
LEMMA NextInv ==
  ASSUME "partway" \notin OpenFailures
  PROVE  Inv /\ [Next]_vars => Inv'
<1> SUFFICES ASSUME Inv, [Next]_vars
             PROVE  Inv'
  OBVIOUS
<1>1. CASE DoOpenStep
  BY <1>1, OpenReadsVolumeKeeps, OpenSetsVolumeKeeps, OpenAppliesVolumeKeeps,
     OpenSetsMuteKeeps, OpenConnectsKeeps DEF DoOpenStep
<1>2. CASE \/ \E f \in Formats : Configure(f)
           \/ PlayOpens \/ Play \/ Flush \/ Stop \/ Stats \/ Underrun
  BY <1>2, ConfigureKeeps, PlayOpensKeeps, PlayKeeps, FlushKeeps, StopKeeps,
     StatsKeeps, UnderrunKeeps
<1>3. CASE \/ \E v \in Volumes : Volume(v)
           \/ VolumeSets \/ VolumeApplies
           \/ \E on \in BOOLEAN : Mute(on) \/ KeepDacBusy(on)
  BY <1>3, VolumeKeeps, VolumeSetsKeeps, VolumeAppliesKeeps, MuteKeeps,
     KeepDacBusyKeeps
<1>4. CASE Monitor
  BY <1>4, MonitorConfiguresKeeps, MonitorLooksKeeps, MonitorOpensKeeps,
     MonitorClosesKeeps, MonitorFillsKeeps, MonitorRestsKeeps DEF Monitor
<1>5. CASE DeinitCloses \/ DeinitJoins
  BY <1>5, DeinitClosesKeeps, DeinitJoinsKeeps
<1>6. CASE UNCHANGED vars
  BY <1>6, StutterKeeps
<1> QED
  BY <1>1, <1>2, <1>3, <1>4, <1>5, <1>6 DEF Next

\* The invariant holds in every reachable state.
LEMMA Invariance ==
  ASSUME "partway" \notin OpenFailures
  PROVE  Spec => []Inv
<1>1. Init => Inv
  BY InitInv
<1>2. Inv /\ [Next]_vars => Inv'
  BY NextInv
<1> QED
  BY <1>1, <1>2, PTL DEF Spec

\* A back end that is connected or playing has an open device that has been set
\* up: what play, flush, delay and the buffer monitor take for granted.
THEOREM ConnectedDeviceReady ==
  ASSUME "partway" \notin OpenFailures
  PROVE  Spec => []ConnectedIsSetUp
<1>1. Inv => ConnectedIsSetUp
  BY DEF Inv, OpeningInv, ConnectedIsSetUp
<1> QED
  BY <1>1, Invariance, PTL

\* What the player believes follows from the invariant.
LEMMA BelievesRight == Inv => DeviceKept
<1>1. Inv => VolumeKept
  <2> SUFFICES ASSUME Inv, alsa_backend_state /= "disconnected", caller = Calm,
                      ~overlapped
               PROVE  VolumeHeard = wanted
    BY DEF VolumeKept
  <2>1. caller.at = "idle"
    BY CalmIdle
  <2>2. set_volume = wanted
    BY <2>1 DEF Inv, VolumeInv
  <2>3. ~volume_based_mute_is_active => level = wanted
    BY DEF Inv, VolumeInv
  <2> QED
    BY <2>2, <2>3 DEF VolumeHeard
<1> QED
  BY <1>1 DEF Inv, DeviceKept

\* The next call of stats() tells of every break in the frames sent, whoever
\* made it; and, when the device is open, the mixer has the volume last asked
\* for, unless a do_open overlapped the call of volume().
THEOREM PlayerBelievesRight ==
  ASSUME "partway" \notin OpenFailures
  PROVE  Spec => []DeviceKept
BY BelievesRight, Invariance, PTL

(***************************************************************************)
(* NQPTP's record: whole, unless both copies were written                  *)
(***************************************************************************)

\* A copy being written is of the last update and the one before; both copies never are.
CopiesInv ==
  /\ \A w \in Words : nq_main[w] = IF w \in unwritten["main"] THEN update - 1 ELSE update
  /\ \A w \in Words : nq_secondary[w] = IF w \in unwritten["secondary"] THEN update - 1 ELSE update
  /\ unwritten["main"] /= {} => unwritten["secondary"] = Words
  /\ unwritten["secondary"] /= {} => update > 0

\* Some words of copy c have been written, and some have not.
HalfWritten(c) == unwritten[c] /= {} /\ unwritten[c] /= Words

\* What has been read of a copy that was not written meanwhile is what it holds.  If that copy is
\* half written, the other was not written either.
AttemptInv ==
  reader \in {"first", "second"} =>
    /\ "main" \notin disturbed =>
         /\ \A w \in Words : first[w] /= -1 => first[w] = nq_main[w]
         /\ HalfWritten("main") => "secondary" \notin disturbed
    /\ "secondary" \notin disturbed =>
         /\ \A w \in Words : second["secondary"][w] /= -1 => second["secondary"][w] = nq_secondary[w]
         /\ HalfWritten("secondary") => "main" \notin disturbed

AcceptedInv ==
  reader = "accepted" /\ disturbed /= {"main", "secondary"} =>
    \A v, w \in Words : first[v] = first[w]

NqptpInv == Nqptp!TypeOK /\ CopiesInv /\ AttemptInv /\ AcceptedInv

\* Before the first update the record is of number 0.
LEMMA NqptpStart == Nqptp!Init => NqptpInv
<1> SUFFICES ASSUME Nqptp!Init
             PROVE  NqptpInv
  OBVIOUS
<1> USE NqptpAssumption DEF NqptpAssumption, Nqptp!Init, Nqptp!Nothing, Nqptp!Unread, Nqptp!Copies
<1>1. Nqptp!TypeOK
  BY DEF Nqptp!TypeOK
<1>2. CopiesInv
  BY DEF CopiesInv
<1> QED
  BY <1>1, <1>2 DEF NqptpInv, AttemptInv, AcceptedInv

\* NQPTP begins an update: no copy changes.
LEMMA BeginUpdateKeeps ==
  ASSUME NqptpInv, Nqptp!BeginUpdate
  PROVE  NqptpInv'
<1> USE NqptpAssumption DEF NqptpAssumption, NqptpInv, Nqptp!TypeOK, Nqptp!BeginUpdate,
   Nqptp!Copies
<1>1. Nqptp!TypeOK'
  OBVIOUS
<1>2. CopiesInv'
  BY DEF CopiesInv
<1>3. AttemptInv'
  BY DEF AttemptInv, HalfWritten
<1>4. AcceptedInv'
  BY DEF AcceptedInv
<1> QED
  BY <1>1, <1>2, <1>3, <1>4

\* NQPTP writes a word, of the main copy first.
LEMMA WriteWordKeeps ==
  ASSUME NqptpInv, NEW c \in {"main", "secondary"}, NEW w \in Words, Nqptp!WriteWord(c, w)
  PROVE  NqptpInv'
<1> USE NqptpAssumption DEF NqptpAssumption, NqptpInv, Nqptp!TypeOK, Nqptp!WriteWord, Nqptp!Copies
<1>1. Nqptp!TypeOK'
  <2>1. CASE c = "main"
    BY <2>1
  <2>2. CASE c = "secondary"
    BY <2>2
  <2> QED
    BY <2>1, <2>2
<1>2. CopiesInv'
  <2>1. CASE c = "main"
    BY <2>1 DEF CopiesInv
  <2>2. CASE c = "secondary"
    BY <2>2 DEF CopiesInv
  <2> QED
    BY <2>1, <2>2
<1>3. AttemptInv'
  <2>1. CASE c = "main"
    BY <2>1 DEF AttemptInv, HalfWritten, CopiesInv
  <2>2. CASE c = "secondary"
    BY <2>2 DEF AttemptInv, HalfWritten, CopiesInv
  <2> QED
    BY <2>1, <2>2
<1>4. AcceptedInv'
  BY DEF AcceptedInv
<1> QED
  BY <1>1, <1>2, <1>3, <1>4

\* An attempt begins with nothing read and nothing seen.
LEMMA AttemptStarts ==
  ASSUME NqptpInv, Nqptp!StartAttempt, tries' \in 1 .. MaxTries,
         UNCHANGED <<nq_main, nq_secondary, update, unwritten>>
  PROVE  NqptpInv'
<1> USE DEF NqptpInv, Nqptp!TypeOK, Nqptp!StartAttempt, Nqptp!Nothing, Nqptp!Unread, Nqptp!Copies
<1>1. Nqptp!TypeOK'
  <2>1. [w \in Words |-> -1] \in [Words -> -1 .. MaxUpdate]
    BY NqptpAssumption DEF NqptpAssumption
  <2>2. /\ first' \in [Words -> -1 .. MaxUpdate]
        /\ second' \in [{"main", "secondary"} -> [Words -> -1 .. MaxUpdate]]
    BY <2>1
  <2> QED
    BY <2>2
<1>2. CopiesInv'
  BY DEF CopiesInv
<1>3. AttemptInv' /\ AcceptedInv'
  BY DEF AttemptInv, AcceptedInv, HalfWritten
<1> QED
  BY <1>1, <1>2, <1>3

\* The reader copies a word of the main copy.
LEMMA ReadFirstKeeps ==
  ASSUME NqptpInv, NEW w \in Words, Nqptp!ReadFirst(w)
  PROVE  NqptpInv'
<1> USE DEF NqptpInv, Nqptp!TypeOK, Nqptp!ReadFirst, Nqptp!Copies, Nqptp!Unread
<1>1. first' = [first EXCEPT ![w] = nq_main[w]] /\ nq_main[w] \in -1 .. MaxUpdate
  BY NqptpAssumption DEF NqptpAssumption
<1>2. Nqptp!TypeOK'
  <2>1. first' \in [Words -> -1 .. MaxUpdate]
    BY <1>1
  <2>2. reader' \in {"first", "second"}
    OBVIOUS
  <2> QED
    BY <2>1, <2>2
<1>3. CopiesInv'
  BY DEF CopiesInv
<1>4. AttemptInv'
  BY <1>1 DEF AttemptInv, HalfWritten
<1>5. AcceptedInv'
  BY DEF AcceptedInv
<1> QED
  BY <1>2, <1>3, <1>4, <1>5

\* The reader copies a word of either copy again.
LEMMA ReadSecondKeeps ==
  ASSUME NqptpInv, NEW c \in {"main", "secondary"}, NEW w \in Words, Nqptp!ReadSecond(c, w)
  PROVE  NqptpInv'
<1> USE DEF NqptpInv, Nqptp!TypeOK, Nqptp!ReadSecond, Nqptp!Copies, Nqptp!Unread
<1>1. nq_main[w] \in -1 .. MaxUpdate /\ nq_secondary[w] \in -1 .. MaxUpdate
  BY NqptpAssumption DEF NqptpAssumption
<1>2. Nqptp!TypeOK'
  <2>1. second' \in [{"main", "secondary"} -> [Words -> -1 .. MaxUpdate]]
    BY <1>1
  <2> QED
    BY <2>1
<1>3. CopiesInv'
  BY DEF CopiesInv
<1>4. AttemptInv'
  BY <1>1 DEF AttemptInv, HalfWritten
<1>5. AcceptedInv'
  BY DEF AcceptedInv
<1> QED
  BY <1>2, <1>3, <1>4, <1>5

\* What the reader read of one copy first and of the other last agrees only if it is whole.
LEMMA CompareKeeps ==
  ASSUME NqptpInv, Nqptp!Compare
  PROVE  NqptpInv'
<1> USE DEF Nqptp!Copies, Nqptp!Unread
<1>1. CASE ~Nqptp!Match /\ tries /= MaxTries
  <2>1. tries' \in 1 .. MaxTries
    BY <1>1, NqptpAssumption DEF Nqptp!Compare, NqptpInv, Nqptp!TypeOK, NqptpAssumption
  <2> QED
    BY <1>1, <2>1, AttemptStarts DEF Nqptp!Compare
<1>2. CASE Nqptp!Match \/ tries = MaxTries
  <2>1. /\ reader = "second" /\ reader' = IF Nqptp!Match THEN "accepted" ELSE "failed"
        /\ UNCHANGED <<nq_main, nq_secondary, update, unwritten, tries, first, second, disturbed>>
        /\ \A c \in {"main", "secondary"}, w \in Words : second[c][w] /= -1
    BY <1>2 DEF Nqptp!Compare
  <2>2. Nqptp!TypeOK' /\ CopiesInv' /\ AttemptInv'
    BY <2>1 DEF NqptpInv, Nqptp!TypeOK, CopiesInv, AttemptInv
  <2>3. AcceptedInv'
    <3> SUFFICES ASSUME Nqptp!Match, disturbed /= {"main", "secondary"}
                 PROVE  \A v, w \in Words : first[v] = first[w]
      BY <2>1 DEF AcceptedInv
    <3>1. first = second["secondary"] /\ \A w \in Words : first[w] /= -1
      BY <2>1 DEF Nqptp!Match
    <3>2. CASE "main" \notin disturbed
      <4>1. \A w \in Words : first[w] = nq_main[w]
        BY <2>1, <3>1, <3>2 DEF NqptpInv, AttemptInv
      <4>2. CASE ~HalfWritten("main")
        BY <4>1, <4>2 DEF HalfWritten, NqptpInv, CopiesInv
      <4>3. CASE HalfWritten("main")
        <5>1. \A w \in Words : first[w] = nq_secondary[w]
          BY <2>1, <3>1, <3>2, <4>3 DEF NqptpInv, AttemptInv
        <5> QED
          BY <4>3, <5>1 DEF HalfWritten, NqptpInv, CopiesInv
      <4> QED
        BY <4>2, <4>3
    <3>3. CASE "secondary" \notin disturbed
      <4>1. \A w \in Words : first[w] = nq_secondary[w]
        BY <2>1, <3>1, <3>3 DEF NqptpInv, AttemptInv
      <4>2. CASE ~HalfWritten("secondary")
        BY <4>1, <4>2 DEF HalfWritten, NqptpInv, CopiesInv
      <4>3. CASE HalfWritten("secondary")
        <5>1. \A w \in Words : first[w] = nq_main[w]
          BY <2>1, <3>1, <3>3, <4>3 DEF NqptpInv, AttemptInv
        <5> QED
          BY <4>3, <5>1 DEF HalfWritten, NqptpInv, CopiesInv
      <4> QED
        BY <4>2, <4>3
    <3>4. "main" \notin disturbed \/ "secondary" \notin disturbed
      BY DEF NqptpInv, Nqptp!TypeOK
    <3> QED
      BY <3>2, <3>3, <3>4
  <2> QED
    BY <2>2, <2>3 DEF NqptpInv
<1> QED
  BY <1>1, <1>2

\* Every step of NQPTP and of the reader keeps the invariant.
LEMMA NqptpKept ==
  ASSUME NqptpInv, [Nqptp!Next]_nqptpVars
  PROVE  NqptpInv'
<1>1. CASE Nqptp!BeginUpdate
  BY <1>1, BeginUpdateKeeps
<1>2. CASE \E c \in {"main", "secondary"}, w \in Words :
             Nqptp!WriteWord(c, w) \/ Nqptp!ReadSecond(c, w)
  BY <1>2, WriteWordKeeps, ReadSecondKeeps
<1>3. CASE Nqptp!StartRead
  <2>1. tries' \in 1 .. MaxTries
    BY <1>3, NqptpAssumption DEF Nqptp!StartRead, NqptpAssumption
  <2> QED
    BY <1>3, <2>1, AttemptStarts DEF Nqptp!StartRead
<1>4. CASE \E w \in Words : Nqptp!ReadFirst(w)
  BY <1>4, ReadFirstKeeps
<1>5. CASE Nqptp!Compare
  BY <1>5, CompareKeeps
<1>6. CASE UNCHANGED nqptpVars
  BY <1>6 DEF nqptpVars, NqptpInv, Nqptp!TypeOK, CopiesInv, AttemptInv, AcceptedInv, HalfWritten
<1> QED
  BY <1>1, <1>2, <1>3, <1>4, <1>5, <1>6 DEF Nqptp!Next, Nqptp!Copies

\* NqptpRecord counts as this module does.
LEMMA NqptpCounts == \A S : Nqptp!Cardinality(S) = Cardinality(S)
  BY Zenon DEF Nqptp!Cardinality, Cardinality

\* A record of one number is whole.
LEMMA NqptpWhole == NqptpInv => Nqptp!WholeIfOneCopyDisturbed
<1> SUFFICES ASSUME NqptpInv, reader = "accepted", disturbed /= {"main", "secondary"}
             PROVE  Nqptp!Whole
  BY DEF Nqptp!WholeIfOneCopyDisturbed, Nqptp!Copies
<1>1. PICK v \in Words : TRUE
  BY NqptpAssumption DEF NqptpAssumption
<1>2. {first[w] : w \in Words} = {first[v]}
  BY DEF NqptpInv, AcceptedInv
<1>3. Cardinality({first[v]}) = 1
  BY FS_Singleton
<1> QED
  BY <1>2, <1>3, NqptpCounts, Zenon DEF Nqptp!Whole

(***************************************************************************)
(* The timing exchange: the error is within the dispersion                 *)
(***************************************************************************)

\* The only request under way is the last; a reply was made for it, and is not too old.
ExchangeInv ==
  /\ now \in 0 .. MaxTime /\ departure_time \in 0 .. MaxTime \union {-Interval}
  /\ departure_time <= now /\ now <= departure_time + Interval
  /\ \A t \in timing_requests :
       t \in 0 .. MaxTime /\ t = departure_time /\ now - t <= Delay + Processing
  /\ \A r \in replies :
       /\ r.received \in 0 .. MaxTime /\ r.sent \in 0 .. MaxTime
       /\ departure_time <= r.received /\ r.received <= departure_time + Delay
       /\ r.received <= r.sent /\ r.sent <= r.received + Processing
       /\ r.sent <= now /\ now - r.sent <= Delay

Pings == [offset: Int, dispersion: Nat]

\* A ping is no further from the offset than its dispersion.
Near(ping) == Timing!Magnitude(ping.offset - 2 * Timing!Offset) <= ping.dispersion

PingsInv ==
  /\ time_pings \in Seq(Pings) /\ Len(time_pings) <= History
  /\ \A i \in 1 .. Len(time_pings) : Near(time_pings[i])
  /\ difference \in Pings /\ Near(difference)

TimingInv == ExchangeInv /\ PingsInv

\* The assumption, in parts.
LEMMA TimingSizes ==
  /\ Interval \in Nat /\ Interval > 0 /\ Delay \in Nat /\ Processing \in Nat
  /\ History \in Nat /\ History > 0 /\ Factor \in Nat /\ Factor >= 100 /\ MaxTime \in Nat
  /\ 2 * Delay + Processing < Interval
  BY TimingAssumption DEF TimingAssumption

\* Before the first request nothing is under way, and the clocks are taken to agree.
LEMMA TimingStart == Timing!Init => TimingInv
<1> SUFFICES ASSUME Timing!Init
             PROVE  TimingInv
  OBVIOUS
<1>1. ExchangeInv
  BY TimingSizes DEF Timing!Init, ExchangeInv
<1>2. time_pings = <<>> /\ difference = [offset |-> 20, dispersion |-> 0]
  BY DEF Timing!Init, Timing!Nothing, Timing!Offset
<1>3. time_pings \in Seq(Pings) /\ Len(time_pings) = 0
  BY <1>2
<1>4. difference \in Pings /\ Near(difference)
  BY <1>2 DEF Pings, Near, Timing!Magnitude, Timing!Offset
<1> QED
  BY <1>1, <1>3, <1>4, TimingSizes DEF TimingInv, PingsInv

\* Packets that were under way for too long are lost.
LEMMA TickKeeps == ExchangeInv /\ Timing!Tick => ExchangeInv'
<1> SUFFICES ASSUME ExchangeInv, Timing!Tick
             PROVE  ExchangeInv'
  OBVIOUS
<1>1. PICK later : later = now'
  OBVIOUS
<1>2. /\ later = now + 1 /\ now < MaxTime /\ now < departure_time + Interval
      /\ departure_time' = departure_time
      /\ timing_requests' = {t \in timing_requests : later - t <= Delay + Processing}
      /\ replies' = {r \in replies : later - r.sent <= Delay}
  BY <1>1, Zenon DEF Timing!Tick
<1>3. now \in Int /\ departure_time \in Int
  BY TimingSizes DEF ExchangeInv
<1>4. later \in 0 .. MaxTime /\ departure_time <= later /\ later <= departure_time + Interval
  BY <1>2, <1>3, TimingSizes DEF ExchangeInv
<1>5. \A t \in timing_requests' :
        t \in 0 .. MaxTime /\ t = departure_time /\ later - t <= Delay + Processing
  BY <1>2 DEF ExchangeInv
<1>6. \A r \in replies' :
       /\ r.received \in 0 .. MaxTime /\ r.sent \in 0 .. MaxTime
       /\ departure_time <= r.received /\ r.received <= departure_time + Delay
       /\ r.received <= r.sent /\ r.sent <= r.received + Processing
       /\ r.sent <= later /\ later - r.sent <= Delay
  <2> SUFFICES ASSUME NEW r \in replies, later - r.sent <= Delay
               PROVE  /\ r.received \in 0 .. MaxTime /\ r.sent \in 0 .. MaxTime
                      /\ departure_time <= r.received /\ r.received <= departure_time + Delay
                      /\ r.received <= r.sent /\ r.sent <= r.received + Processing
                      /\ r.sent <= later /\ later - r.sent <= Delay
    BY <1>2
  <2>1. r.sent \in 0 .. MaxTime /\ r.sent <= now
    BY DEF ExchangeInv
  <2>2. r.sent <= later
    BY <1>2, <1>3, <2>1
  <2> QED
    BY <2>1, <2>2 DEF ExchangeInv
<1>7. departure_time \in 0 .. MaxTime \union {-Interval}
  BY DEF ExchangeInv
<1> QED
  BY <1>1, <1>2, <1>4, <1>5, <1>6, <1>7, Zenon DEF ExchangeInv

\* The source replies within its time to a request that took its time.
LEMMA ReplyKeeps ==
  ASSUME ExchangeInv, NEW t \in timing_requests, NEW p \in 0 .. Processing, Timing!Reply(t, p)
  PROVE  ExchangeInv'
<1> DEFINE reply == [received |-> now - p, sent |-> now]
<1>1. /\ now - p >= t /\ now - p - t <= Delay
      /\ timing_requests' = timing_requests \ {t}
      /\ replies' = replies \union {reply}
      /\ now' = now /\ departure_time' = departure_time
  BY DEF Timing!Reply
<1>2. now \in 0 .. MaxTime /\ t \in 0 .. MaxTime /\ t = departure_time
  BY DEF ExchangeInv
<1>3. /\ reply.received \in 0 .. MaxTime /\ reply.sent \in 0 .. MaxTime
      /\ departure_time <= reply.received /\ reply.received <= departure_time + Delay
      /\ reply.received <= reply.sent /\ reply.sent <= reply.received + Processing
      /\ reply.sent <= now /\ now - reply.sent <= Delay
  BY <1>1, <1>2, TimingSizes
<1> HIDE DEF reply
<1> QED
  BY <1>1, <1>3 DEF ExchangeInv

\* When the next request is sent nothing is under way any more.
LEMMA SendRequestKeeps == ExchangeInv /\ Timing!SendRequest => ExchangeInv'
<1> SUFFICES ASSUME ExchangeInv, Timing!SendRequest
             PROVE  ExchangeInv'
  OBVIOUS
<1>1. /\ now = departure_time + Interval /\ departure_time' = now /\ now' = now /\ replies' = replies
      /\ timing_requests' = timing_requests \union {now} \/ timing_requests' = timing_requests
  BY DEF Timing!SendRequest
<1>2. now \in 0 .. MaxTime /\ departure_time \in Int
  BY TimingSizes DEF ExchangeInv
<1>3. \A t \in timing_requests : FALSE
  BY <1>1, <1>2, TimingSizes DEF ExchangeInv
<1>4. \A r \in replies : FALSE
  BY <1>1, <1>2, TimingSizes DEF ExchangeInv
<1>5. \A t \in timing_requests' : t \in 0 .. MaxTime /\ t = now /\ now - t <= Delay + Processing
  BY <1>1, <1>2, <1>3, TimingSizes
<1>6. now <= now + Interval /\ now <= now
  BY <1>2, TimingSizes
<1> QED
  BY <1>1, <1>2, <1>4, <1>5, <1>6 DEF ExchangeInv

\* Half of the return time is as good a guess as the way there and the way back are alike.
LEMMA PingNear ==
  ASSUME ExchangeInv, NEW r \in replies
  PROVE  Timing!Ping(r) \in Pings /\ Near(Timing!Ping(r))
<1>1. /\ now \in Int /\ departure_time \in Int /\ r.received \in Int /\ r.sent \in Int
      /\ departure_time <= r.received /\ r.received <= r.sent /\ r.sent <= now
  BY TimingSizes DEF ExchangeInv
<1> DEFINE rt == Timing!ReturnTime(r)
<1>2. /\ rt \in Nat
      /\ rt = IF r.sent - r.received < now - departure_time
              THEN now - departure_time - (r.sent - r.received) ELSE now - departure_time
  BY <1>1 DEF Timing!ReturnTime
<1>3. Timing!Ping(r) = [offset |-> 2 * (r.sent + 10 - now) + rt, dispersion |-> rt]
  BY DEF Timing!Ping, Timing!Offset
<1> HIDE DEF rt
<1>4. 2 * (r.sent + 10 - now) + rt \in Int
  BY <1>1, <1>2
<1>5. Timing!Ping(r) \in Pings
  BY <1>2, <1>3, <1>4 DEF Pings
<1>6. PICK offset : offset = 2 * (r.sent + 10 - now) + rt
  OBVIOUS
<1>7. Near(Timing!Ping(r))
  <2>1. offset \in Int /\ offset - 20 <= rt /\ 20 - offset <= rt
    BY <1>1, <1>2, <1>6
  <2>2. Timing!Magnitude(offset - 20) <= rt
    BY <1>2, <2>1 DEF Timing!Magnitude
  <2>3. Timing!Ping(r) = [offset |-> offset, dispersion |-> rt] /\ 2 * Timing!Offset = 20
    BY <1>3, <1>6 DEF Timing!Offset
  <2>4. Timing!Ping(r).offset - 2 * Timing!Offset = offset - 20 /\ Timing!Ping(r).dispersion = rt
    BY <2>1, <2>3
  <2> QED
    BY <2>2, <2>4, Zenon DEF Near
<1> QED
  BY <1>5, <1>7

\* With age a dispersion does not shrink.
LEMMA AgedNear ==
  ASSUME NEW ping \in Pings, Near(ping)
  PROVE  Timing!Aged(ping) \in Pings /\ Near(Timing!Aged(ping))
<1> DEFINE d == ping.dispersion
           a == (d * Factor) \div 100
<1>1. d \in Nat /\ ping.offset \in Int
  BY DEF Pings
<1>2. Timing!Aged(ping) = [ping EXCEPT !.dispersion = a]
  BY DEF Timing!Aged
<1>3. a \in Nat /\ d <= a
  <2> HIDE DEF d
  <2>1. Factor - 100 \in Nat
    BY TimingSizes
  <2>2. d * (Factor - 100) \in Nat
    BY <1>1, <2>1
  <2>3. d * Factor = d * 100 + d * (Factor - 100)
    BY <1>1, TimingSizes
  <2>4. d * Factor \in Nat /\ d * Factor >= 100 * d
    BY <1>1, <2>2, <2>3
  <2> DEFINE m == d * Factor
  <2> HIDE DEF m
  <2>5. m \in Nat /\ m >= 100 * d
    BY <2>4 DEF m
  <2>6. m \div 100 \in Nat /\ m \div 100 >= d
    BY <1>1, <2>5
  <2> QED
    BY <2>6 DEF m
<1> HIDE DEF a
<1>4. /\ Timing!Aged(ping) = [offset |-> ping.offset, dispersion |-> a]
  BY <1>2 DEF Pings
<1>5. Timing!Aged(ping) \in Pings
  BY <1>1, <1>3, <1>4 DEF Pings
<1>6. Near(Timing!Aged(ping))
  <2>1. Timing!Magnitude(ping.offset - 2 * Timing!Offset) <= d
    BY DEF Near
  <2>2. Timing!Magnitude(ping.offset - 2 * Timing!Offset) \in Int
    BY <1>1 DEF Timing!Magnitude, Timing!Offset
  <2>3. Timing!Magnitude(ping.offset - 2 * Timing!Offset) <= a
    BY <1>1, <1>3, <2>1, <2>2
  <2> QED
    BY <1>4, <2>3 DEF Near
<1> QED
  BY <1>5, <1>6

\* A set of numbers that is not empty has a least one.
LEMMA LeastNumber ==
  ASSUME NEW S, S \subseteq Nat, S /= {}
  PROVE  \E x \in S : \A y \in S : x <= y
<1> DEFINE R == {ss \in Nat \X Nat : ss[1] < ss[2]}
<1>1. IsWellFoundedOn(R, Nat)
  BY NatLessThanWellFounded DEF OpToRel
<1> HIDE DEF R
<1>2. PICK x \in S : \A y \in S : ~(<<y, x>> \in R)
  BY <1>1, WFMin
<1> SUFFICES ASSUME NEW y \in S, y < x
             PROVE  FALSE
  BY <1>2
<1>3. <<y, x>> \in Nat \X Nat /\ <<y, x>>[1] = y /\ <<y, x>>[2] = x
  BY <1>2
<1>4. <<y, x>> \in R
  BY <1>3 DEF R
<1> QED
  BY <1>2, <1>4

\* There is a best ping.
LEMMA BestIsOne ==
  ASSUME NEW s \in Seq(Pings), Len(s) > 0
  PROVE  \E i \in 1 .. Len(s) : Timing!Best(s) = s[i]
<1> DEFINE D == {s[i].dispersion : i \in 1 .. Len(s)}
           Good(i) == \A j \in 1 .. Len(s) : /\ s[i].dispersion <= s[j].dispersion
                                             /\ s[i].dispersion = s[j].dispersion => i <= j
<1>1. Len(s) \in Nat /\ DOMAIN s = 1 .. Len(s) /\ \A i \in 1 .. Len(s) : s[i] \in Pings
  BY LenProperties, ElementOfSeq
<1>2. \A i \in 1 .. Len(s) : s[i].dispersion \in Nat
  BY <1>1 DEF Pings
<1>3. PICK d \in D : \A e2 \in D : d <= e2
  <2>1. D \subseteq Nat /\ D /= {}
    BY <1>1, <1>2
  <2> HIDE DEF D
  <2> QED
    BY <2>1, LeastNumber
<1> DEFINE I == {i \in 1 .. Len(s) : s[i].dispersion = d}
<1>4. PICK i \in I : \A j \in I : i <= j
  <2>1. I \subseteq Nat /\ I /= {}
    BY <1>1, <1>3
  <2> HIDE DEF I
  <2> QED
    BY <2>1, LeastNumber
<1>5. i \in 1 .. Len(s) /\ Good(i)
  BY <1>3, <1>4
<1>6. Timing!Best(s) = s[CHOOSE k \in 1 .. Len(s) : Good(k)]
  BY <1>1 DEF Timing!Best
<1> HIDE DEF Good
<1>7. (CHOOSE k \in 1 .. Len(s) : Good(k)) \in 1 .. Len(s)
  BY <1>5
<1> QED
  BY <1>6, <1>7

\* The newest pings are kept, and the best of them is used.
LEMMA ReceiveKeeps ==
  ASSUME TimingInv, NEW r \in replies, Timing!Receive(r)
  PROVE  TimingInv'
<1>1. ExchangeInv'
  <2>1. /\ now' = now /\ departure_time' = departure_time /\ timing_requests' = timing_requests
        /\ replies' = replies \ {r}
    BY DEF Timing!Receive
  <2> QED
    BY <2>1 DEF TimingInv, ExchangeInv
<1>2. PingsInv'
  <2>1. CASE ~Timing!Timely
    BY <2>1 DEF Timing!Receive, TimingInv, PingsInv
  <2>2. CASE Timing!Timely
    <3> DEFINE old == [i \in DOMAIN time_pings |-> Timing!Aged(time_pings[i])]
               all == <<Timing!Ping(r)>> \o old
               pings == Timing!Kept(all)
    <3>1. time_pings' = pings /\ difference' = Timing!Best(pings)
      BY <2>2 DEF Timing!Receive
    <3>2. /\ Len(time_pings) \in Nat /\ DOMAIN time_pings = 1 .. Len(time_pings)
          /\ \A i \in 1 .. Len(time_pings) : time_pings[i] \in Pings /\ Near(time_pings[i])
      BY LenProperties, ElementOfSeq DEF TimingInv, PingsInv
    <3>3. \A i \in 1 .. Len(time_pings) :
            Timing!Aged(time_pings[i]) \in Pings /\ Near(Timing!Aged(time_pings[i]))
      BY <3>2, AgedNear
    <3>4. /\ old \in Seq(Pings) /\ Len(old) = Len(time_pings)
          /\ \A i \in 1 .. Len(old) : old[i] \in Pings /\ Near(old[i])
      <4>1. old \in [1 .. Len(time_pings) -> Pings]
        BY <3>2, <3>3
      <4>2. old \in Seq(Pings) /\ Len(old) = Len(time_pings)
        BY <3>2, <4>1, SeqDef, LenProperties
      <4>3. \A i \in 1 .. Len(time_pings) : old[i] = Timing!Aged(time_pings[i])
        BY <3>2
      <4> QED
        BY <3>3, <4>2, <4>3
    <3>5. Timing!Ping(r) \in Pings /\ Near(Timing!Ping(r))
      BY PingNear DEF TimingInv
    <3> HIDE DEF old
    <3>6. /\ all \in Seq(Pings) /\ Len(all) = Len(old) + 1
          /\ \A i \in 1 .. Len(all) : Near(all[i])
      <4>1. all = <<Timing!Ping(r)>> \o old
        OBVIOUS
      <4> HIDE DEF all
      <4>2. PICK p : p = Timing!Ping(r)
        OBVIOUS
      <4>3. <<p>> \in Seq(Pings) /\ Len(<<p>>) = 1 /\ <<p>>[1] = p
        BY <3>5, <4>2
      <4>4. /\ all \in Seq(Pings) /\ Len(all) = 1 + Len(old)
            /\ \A i \in 1 .. Len(all) : all[i] = IF i <= 1 THEN <<p>>[i] ELSE old[i - 1]
        BY <3>4, <4>1, <4>2, <4>3, ConcatProperties
      <4>5. ASSUME NEW i \in 1 .. Len(all)
            PROVE  Near(all[i])
        <5>0. Len(old) \in Nat
          BY <3>2, <3>4
        <5>1. CASE i = 1
          <6>1. all[i] = p
            BY <4>3, <4>4, <5>1
          <6> QED
            BY <3>5, <4>2, <6>1
        <5>2. CASE i /= 1
          <6>1. i - 1 \in 1 .. Len(old) /\ ~(i <= 1)
            BY <4>4, <5>0, <5>2
          <6>2. all[i] = old[i - 1]
            BY <4>4, <6>1
          <6> QED
            BY <3>4, <6>1, <6>2
        <5> QED
          BY <5>1, <5>2
      <4>6. Len(old) \in Nat
        BY <3>2, <3>4
      <4> QED
        BY <4>4, <4>5, <4>6
    <3> HIDE DEF all
    <3>7. /\ pings \in Seq(Pings) /\ Len(pings) > 0 /\ Len(pings) <= History
          /\ \A i \in 1 .. Len(pings) : Near(pings[i])
      <4> DEFINE n == IF Len(all) < History THEN Len(all) ELSE History
      <4>1. pings = SubSeq(all, 1, n)
        BY DEF Timing!Kept
      <4>2. Len(all) \in Nat /\ Len(all) > 0
        BY <3>2, <3>4, <3>6
      <4>3. n \in 1 .. Len(all) /\ n <= History
        BY <4>2, TimingSizes
      <4> HIDE DEF n, pings
      <4>4. /\ SubSeq(all, 1, n) \in Seq(Pings) /\ Len(SubSeq(all, 1, n)) = n
            /\ \A i \in 1 .. n : SubSeq(all, 1, n)[i] = all[i]
        BY <3>6, <4>2, <4>3
      <4> QED
        BY <3>6, <4>1, <4>2, <4>3, <4>4
    <3> HIDE DEF pings
    <3>8. PICK i \in 1 .. Len(pings) : Timing!Best(pings) = pings[i]
      BY <3>7, BestIsOne
    <3>9. pings[i] \in Pings /\ Near(pings[i])
      BY <3>7, <3>8, ElementOfSeq
    <3>10. /\ time_pings' \in Seq(Pings) /\ Len(time_pings') <= History
           /\ \A k \in 1 .. Len(time_pings') : Near(time_pings'[k])
      BY <3>1, <3>7, Zenon
    <3>11. difference' \in Pings /\ Near(difference')
      BY <3>1, <3>8, <3>9, Zenon
    <3> QED
      BY <3>10, <3>11, Zenon DEF PingsInv, Near
  <2> QED
    BY <2>1, <2>2
<1> QED
  BY <1>1, <1>2 DEF TimingInv

\* Every step of the exchange keeps the invariant.
LEMMA TimingKept ==
  ASSUME TimingInv, [Timing!Next]_timingVars
  PROVE  TimingInv'
<1>1. CASE Timing!Tick
  <2>1. UNCHANGED <<time_pings, difference>>
    BY <1>1 DEF Timing!Tick
  <2> QED
    BY <1>1, <2>1, TickKeeps DEF TimingInv, PingsInv
<1>2. CASE \E t \in timing_requests, p \in 0 .. Processing : Timing!Reply(t, p)
  <2>1. UNCHANGED <<time_pings, difference>>
    BY <1>2 DEF Timing!Reply
  <2> QED
    BY <1>2, <2>1, ReplyKeeps DEF TimingInv, PingsInv
<1>3. CASE Timing!SendRequest
  <2>1. UNCHANGED <<time_pings, difference>>
    BY <1>3 DEF Timing!SendRequest
  <2> QED
    BY <1>3, <2>1, SendRequestKeeps DEF TimingInv, PingsInv
<1>4. CASE \E r \in replies : Timing!Receive(r)
  BY <1>4, ReceiveKeeps
<1>5. CASE UNCHANGED timingVars
  BY <1>5 DEF timingVars, TimingInv, ExchangeInv, PingsInv
<1> QED
  BY <1>1, <1>2, <1>3, <1>4, <1>5 DEF Timing!Next

\* The invariant gives the types and the bound.
LEMMA TimingRight == TimingInv => Timing!TypeOK /\ Timing!DifferenceBounded
<1> SUFFICES ASSUME TimingInv
             PROVE  Timing!TypeOK /\ Timing!DifferenceBounded
  OBVIOUS
<1>1. Timing!DifferenceBounded
  BY DEF TimingInv, PingsInv, Near, Timing!DifferenceBounded
<1>2. /\ now \in 0 .. MaxTime /\ departure_time \in 0 .. MaxTime \union {-Interval}
      /\ timing_requests \subseteq 0 .. MaxTime
      /\ \A r \in replies : r.received \in 0 .. MaxTime /\ r.sent \in r.received .. MaxTime
  BY DEF TimingInv, ExchangeInv
<1>3. Len(time_pings) <= History /\ \A i \in DOMAIN time_pings : time_pings[i].dispersion >= 0
  <2>1. /\ DOMAIN time_pings = 1 .. Len(time_pings)
        /\ \A i \in 1 .. Len(time_pings) : time_pings[i] \in Pings
    BY LenProperties, ElementOfSeq DEF TimingInv, PingsInv
  <2>2. \A i \in 1 .. Len(time_pings) : time_pings[i].dispersion >= 0
    BY <2>1 DEF Pings
  <2> QED
    BY <2>1, <2>2 DEF TimingInv, PingsInv
<1> QED
  BY <1>1, <1>2, <1>3 DEF Timing!TypeOK, Timing!Times

(***************************************************************************)
(* The PTP anchor: a steady source is answered with its current line       *)
(***************************************************************************)

\* A caller that has got past NQPTP's answer has a clock.
GetInv ==
  \A t \in Anchor!Getters : get[t].at \in {"look", "copy", "rebase"} => get[t].clock \in Clocks

\* The local time that the anchor gives frame 0 is the current line's.
OnLine ==
  /\ anchor.clock \in Clocks
  /\ anchor.time = given.current + anchor.rtp + ClockOffset[anchor.clock]

\* What was taken of the anchor is its line.
TakenLine == lastValid /\ last.rtp = anchor.rtp /\ last.local = given.current + last.rtp

\* The master clock changes only when the anchor has been taken.
Waits == OnLine /\ (TakenLine \/ anchor.clock = master)

\* Calls that do not overlap.
AloneInv ==
  /\ set /= Anchor!Idle => \A t \in Anchor!Getters : get[t].at = "idle"
  /\ \A t \in Anchor!Getters : get[t].at /= "idle" =>
       remoteValid /\ \A u \in Anchor!Getters \ {t} : get[u].at = "idle"

SettingInv ==
  set /= Anchor!Idle =>
    /\ remoteValid /\ set.clock = master
    /\ set.time = given.current + anchor.rtp + ClockOffset[set.clock]
    /\ set.at = "clock" => anchor.time = set.time

SettledInv ==
  set = Anchor!Idle /\ remoteValid /\ (\A t \in Anchor!Getters : get[t].at /= "rebase") => Waits

AskingInv ==
  \A t \in Anchor!Getters :
    /\ get[t].at = "look" => TakenLine \/ get[t].clock = anchor.clock
    /\ get[t].at = "copy" => get[t].clock = anchor.clock /\ last.rtp = anchor.rtp
    /\ get[t].at = "rebase" => TakenLine /\ anchor.time = last.local + ClockOffset[get[t].clock]
    /\ get[t].at = "answer" => TakenLine

SteadyInv ==
  steady /\ ~overlap =>
    /\ AloneInv /\ SettingInv /\ SettledInv /\ AskingInv
    /\ remoteValid => given.current \in given.all

AnchorInv == Anchor!TypeOK /\ GetInv /\ SteadyInv

\* The assumption, in parts.
LEMMA AnchorSizes ==
  /\ \A c \in Clocks : ClockOffset[c] \in Int
  /\ \A l \in Lines : l \in Int
  /\ \A f \in Frames : f \in Int
  /\ Settle \in Nat /\ Stable \in Nat
<1>1. ClockOffset \in [Clocks -> Int] /\ Lines \subseteq Int /\ Frames \subseteq Int
  BY AnchorAssumption, Zenon DEF AnchorAssumption
<1>2. Settle \in Nat /\ Stable \in Nat
  BY AnchorAssumption, Zenon DEF AnchorAssumption
<1> QED
  BY <1>1, <1>2

\* Before the source has given an anchor nobody asks.
LEMMA AnchorStart == Anchor!Init => AnchorInv
<1> SUFFICES ASSUME Anchor!Init
             PROVE  AnchorInv
  OBVIOUS
<1>0. steady \in BOOLEAN /\ overlap \in BOOLEAN
  BY AnchorAssumption, Zenon DEF AnchorAssumption, Anchor!Init
<1>1. Anchor!TypeOK
  <2> USE DEF Anchor!Init
  <2>1. {remoteValid, lastValid, steady, overlap} \subseteq BOOLEAN
    BY <1>0, Zenon
  <2>2. /\ anchor \in [rtp: Frames \union {0}, time: Int, clock: Clocks \union {Anchor!Unset}]
        /\ last \in [rtp: Frames \union {0}, local: Int]
    OBVIOUS
  <2>3. /\ master \in Clocks \union Anchor!Failures
        /\ sinceMastership \in 0 .. Stable
        /\ sinceUpdate \in 0 .. Stable + 1 /\ sinceValidity \in 0 .. Stable
    BY AnchorSizes DEF Anchor!Failures
  <2>4. /\ get \in [{"player", "processor"} ->
                      [at: {"idle", "look", "copy", "rebase", "answer", "deny"},
                       clock: Clocks \union Anchor!Failures]]
        /\ given \in [all: SUBSET Lines, current: Int, clock: Clocks \union {Anchor!Unset}]
    BY DEF Anchor!Failures, Anchor!Getters, Anchor!NoGet, Anchor!NoLine
  <2> QED
    BY <2>1, <2>2, <2>3, <2>4, Zenon DEF Anchor!TypeOK, Anchor!Getters
<1>2. GetInv /\ SteadyInv
  BY DEF Anchor!Init, Anchor!NoGet, Anchor!Getters, Anchor!Idle, GetInv, SteadyInv,
     AloneInv, SettingInv, SettledInv, AskingInv
<1> QED
  BY <1>1, <1>2 DEF AnchorInv

\* The master clock of a steady source changes when its anchor has been taken.
LEMMA MasterChangesKeeps ==
  ASSUME AnchorInv, NEW m \in Clocks \union Anchor!Failures, Anchor!MasterChanges(m)
  PROVE  AnchorInv'
<1> USE AnchorSizes DEF AnchorInv, Anchor!TypeOK, Anchor!MasterChanges, Anchor!Taken,
   Anchor!conn, Anchor!ages, Anchor!Getters
<1>1. Anchor!TypeOK'
  <2>1. {remoteValid', lastValid', steady', overlap'} \subseteq BOOLEAN
    BY Zenon
  <2>2. /\ anchor' \in [rtp: Frames \union {0}, time: Int, clock: Clocks \union {Anchor!Unset}]
        /\ last' \in [rtp: Frames \union {0}, local: Int]
    BY DEF GetInv, Anchor!Idle
  <2>3. /\ master' \in Clocks \union Anchor!Failures
        /\ sinceMastership' \in 0 .. Stable
        /\ sinceUpdate' \in 0 .. Stable + 1 /\ sinceValidity' \in 0 .. Stable
    OBVIOUS
  <2>4. set' = Anchor!Idle \/ set' \in [at: {"time", "clock"}, time: Int, clock: Clocks]
    BY DEF Anchor!Idle
  <2>5. get' \in [{"player", "processor"} ->
                    [at: {"idle", "look", "copy", "rebase", "answer", "deny"},
                     clock: Clocks \union Anchor!Failures]]
    BY DEF Anchor!Failures
  <2>6. given' \in [all: SUBSET Lines, current: Int, clock: Clocks \union {Anchor!Unset}]
    BY DEF Anchor!Unset
  <2> QED
    BY <2>1, <2>2, <2>3, <2>4, <2>5, <2>6, Zenon DEF Anchor!TypeOK, Anchor!Getters
<1>2. GetInv'
  BY DEF GetInv
<1>3. SteadyInv'
  <2> SUFFICES ASSUME steady, ~overlap
               PROVE  SteadyInv'
    BY DEF SteadyInv
  <2> USE DEF SteadyInv, GetInv, AloneInv, Anchor!Idle
  <2>1. AloneInv'
    OBVIOUS
  <2>2. SettingInv'
    BY DEF SettingInv
  <2>3. SettledInv'
    BY DEF SettingInv, SettledInv, AskingInv, Waits, OnLine, TakenLine
  <2>4. AskingInv'
    BY DEF SettledInv, AskingInv, Waits, OnLine, TakenLine
  <2>5. remoteValid' => given'.current \in given'.all
    OBVIOUS
  <2> QED
    BY <2>1, <2>2, <2>3, <2>4, <2>5
<1> QED
  BY <1>1, <1>2, <1>3

\* Time goes by.
LEMMA AgesKeep ==
  ASSUME AnchorInv, Anchor!Tick
  PROVE  AnchorInv'
<1> USE AnchorSizes DEF AnchorInv, Anchor!TypeOK, Anchor!Tick, Anchor!Older, Anchor!conn,
   Anchor!ages, Anchor!Getters
<1>1. Anchor!TypeOK'
  <2>1. {remoteValid', lastValid', steady', overlap'} \subseteq BOOLEAN
    BY Zenon
  <2>2. /\ anchor' \in [rtp: Frames \union {0}, time: Int, clock: Clocks \union {Anchor!Unset}]
        /\ last' \in [rtp: Frames \union {0}, local: Int]
    BY DEF GetInv, Anchor!Idle
  <2>3. /\ master' \in Clocks \union Anchor!Failures
        /\ sinceMastership' \in 0 .. Stable
        /\ sinceUpdate' \in 0 .. Stable + 1 /\ sinceValidity' \in 0 .. Stable
    OBVIOUS
  <2>4. set' = Anchor!Idle \/ set' \in [at: {"time", "clock"}, time: Int, clock: Clocks]
    BY DEF Anchor!Idle
  <2>5. get' \in [{"player", "processor"} ->
                    [at: {"idle", "look", "copy", "rebase", "answer", "deny"},
                     clock: Clocks \union Anchor!Failures]]
    BY DEF Anchor!Failures
  <2>6. given' \in [all: SUBSET Lines, current: Int, clock: Clocks \union {Anchor!Unset}]
    BY DEF Anchor!Unset
  <2> QED
    BY <2>1, <2>2, <2>3, <2>4, <2>5, <2>6, Zenon DEF Anchor!TypeOK, Anchor!Getters
<1>2. GetInv'
  BY DEF GetInv
<1>3. SteadyInv'
  <2> SUFFICES ASSUME steady, ~overlap
               PROVE  SteadyInv'
    BY DEF SteadyInv
  <2> USE DEF SteadyInv, GetInv, AloneInv, Anchor!Idle
  <2>1. AloneInv'
    OBVIOUS
  <2>2. SettingInv'
    BY DEF SettingInv
  <2>3. SettledInv'
    BY DEF SettingInv, SettledInv, AskingInv, Waits, OnLine, TakenLine
  <2>4. AskingInv'
    BY DEF SettledInv, AskingInv, Waits, OnLine, TakenLine
  <2>5. remoteValid' => given'.current \in given'.all
    OBVIOUS
  <2> QED
    BY <2>1, <2>2, <2>3, <2>4, <2>5
<1> QED
  BY <1>1, <1>2, <1>3

\* The source gives an anchor: the frame is stored,
LEMMA SetAnchorKeeps ==
  ASSUME AnchorInv, NEW line \in Lines, NEW f \in Frames, NEW c \in Clocks,
         Anchor!SetAnchor(line, f, c)
  PROVE  AnchorInv'
<1> USE AnchorSizes DEF AnchorInv, Anchor!TypeOK, Anchor!SetAnchor, Anchor!MayCall,
   Anchor!conn, Anchor!ages, Anchor!Getters
<1>1. Anchor!TypeOK'
  <2>1. {remoteValid', lastValid', steady', overlap'} \subseteq BOOLEAN
    BY Zenon
  <2>2. /\ anchor' \in [rtp: Frames \union {0}, time: Int, clock: Clocks \union {Anchor!Unset}]
        /\ last' \in [rtp: Frames \union {0}, local: Int]
    BY DEF GetInv, Anchor!Idle
  <2>3. /\ master' \in Clocks \union Anchor!Failures
        /\ sinceMastership' \in 0 .. Stable
        /\ sinceUpdate' \in 0 .. Stable + 1 /\ sinceValidity' \in 0 .. Stable
    OBVIOUS
  <2>4. set' = Anchor!Idle \/ set' \in [at: {"time", "clock"}, time: Int, clock: Clocks]
    BY DEF Anchor!Idle
  <2>5. get' \in [{"player", "processor"} ->
                    [at: {"idle", "look", "copy", "rebase", "answer", "deny"},
                     clock: Clocks \union Anchor!Failures]]
    BY DEF Anchor!Failures
  <2>6. given' \in [all: SUBSET Lines, current: Int, clock: Clocks \union {Anchor!Unset}]
    BY DEF Anchor!Unset
  <2> QED
    BY <2>1, <2>2, <2>3, <2>4, <2>5, <2>6, Zenon DEF Anchor!TypeOK, Anchor!Getters
<1>2. GetInv'
  BY DEF GetInv
<1>3. SteadyInv'
  <2> SUFFICES ASSUME steady, ~overlap
               PROVE  SteadyInv'
    BY DEF SteadyInv
  <2> USE DEF SteadyInv, GetInv, AloneInv, Anchor!Idle
  <2>1. AloneInv'
    OBVIOUS
  <2>2. SettingInv'
    BY DEF SettingInv
  <2>3. SettledInv'
    BY DEF SettingInv, SettledInv, AskingInv, Waits, OnLine, TakenLine
  <2>4. AskingInv'
    BY DEF SettledInv, AskingInv, Waits, OnLine, TakenLine
  <2>5. remoteValid' => given'.current \in given'.all
    OBVIOUS
  <2> QED
    BY <2>1, <2>2, <2>3, <2>4, <2>5
<1> QED
  BY <1>1, <1>2, <1>3

\* then its time,
LEMMA SetTimeKeeps ==
  ASSUME AnchorInv, Anchor!SetTime
  PROVE  AnchorInv'
<1> USE AnchorSizes DEF AnchorInv, Anchor!TypeOK, Anchor!SetTime, Anchor!conn, Anchor!ages,
   Anchor!Getters
<1>1. Anchor!TypeOK'
  <2>1. {remoteValid', lastValid', steady', overlap'} \subseteq BOOLEAN
    BY Zenon
  <2>2. /\ anchor' \in [rtp: Frames \union {0}, time: Int, clock: Clocks \union {Anchor!Unset}]
        /\ last' \in [rtp: Frames \union {0}, local: Int]
    BY DEF GetInv, Anchor!Idle
  <2>3. /\ master' \in Clocks \union Anchor!Failures
        /\ sinceMastership' \in 0 .. Stable
        /\ sinceUpdate' \in 0 .. Stable + 1 /\ sinceValidity' \in 0 .. Stable
    OBVIOUS
  <2>4. set' = Anchor!Idle \/ set' \in [at: {"time", "clock"}, time: Int, clock: Clocks]
    BY DEF Anchor!Idle
  <2>5. get' \in [{"player", "processor"} ->
                    [at: {"idle", "look", "copy", "rebase", "answer", "deny"},
                     clock: Clocks \union Anchor!Failures]]
    BY DEF Anchor!Failures
  <2>6. given' \in [all: SUBSET Lines, current: Int, clock: Clocks \union {Anchor!Unset}]
    BY DEF Anchor!Unset
  <2> QED
    BY <2>1, <2>2, <2>3, <2>4, <2>5, <2>6, Zenon DEF Anchor!TypeOK, Anchor!Getters
<1>2. GetInv'
  BY DEF GetInv
<1>3. SteadyInv'
  <2> SUFFICES ASSUME steady, ~overlap
               PROVE  SteadyInv'
    BY DEF SteadyInv
  <2> USE DEF SteadyInv, GetInv, AloneInv, Anchor!Idle
  <2>1. AloneInv'
    OBVIOUS
  <2>2. SettingInv'
    BY DEF SettingInv
  <2>3. SettledInv'
    BY DEF SettingInv, SettledInv, AskingInv, Waits, OnLine, TakenLine
  <2>4. AskingInv'
    BY DEF SettledInv, AskingInv, Waits, OnLine, TakenLine
  <2>5. remoteValid' => given'.current \in given'.all
    OBVIOUS
  <2> QED
    BY <2>1, <2>2, <2>3, <2>4, <2>5
<1> QED
  BY <1>1, <1>2, <1>3

\* then its clock.
LEMMA SetClockKeeps ==
  ASSUME AnchorInv, Anchor!SetClock
  PROVE  AnchorInv'
<1> USE AnchorSizes DEF AnchorInv, Anchor!TypeOK, Anchor!SetClock, Anchor!conn, Anchor!ages,
   Anchor!Getters
<1>1. Anchor!TypeOK'
  <2>1. {remoteValid', lastValid', steady', overlap'} \subseteq BOOLEAN
    BY Zenon
  <2>2. /\ anchor' \in [rtp: Frames \union {0}, time: Int, clock: Clocks \union {Anchor!Unset}]
        /\ last' \in [rtp: Frames \union {0}, local: Int]
    BY DEF GetInv, Anchor!Idle
  <2>3. /\ master' \in Clocks \union Anchor!Failures
        /\ sinceMastership' \in 0 .. Stable
        /\ sinceUpdate' \in 0 .. Stable + 1 /\ sinceValidity' \in 0 .. Stable
    OBVIOUS
  <2>4. set' = Anchor!Idle \/ set' \in [at: {"time", "clock"}, time: Int, clock: Clocks]
    BY DEF Anchor!Idle
  <2>5. get' \in [{"player", "processor"} ->
                    [at: {"idle", "look", "copy", "rebase", "answer", "deny"},
                     clock: Clocks \union Anchor!Failures]]
    BY DEF Anchor!Failures
  <2>6. given' \in [all: SUBSET Lines, current: Int, clock: Clocks \union {Anchor!Unset}]
    BY DEF Anchor!Unset
  <2> QED
    BY <2>1, <2>2, <2>3, <2>4, <2>5, <2>6, Zenon DEF Anchor!TypeOK, Anchor!Getters
<1>2. GetInv'
  BY DEF GetInv
<1>3. SteadyInv'
  <2> SUFFICES ASSUME steady, ~overlap
               PROVE  SteadyInv'
    BY DEF SteadyInv
  <2> USE DEF SteadyInv, GetInv, AloneInv, Anchor!Idle
  <2>1. AloneInv'
    OBVIOUS
  <2>2. SettingInv'
    BY DEF SettingInv
  <2>3. SettledInv'
    BY DEF SettingInv, SettledInv, AskingInv, Waits, OnLine, TakenLine
  <2>4. AskingInv'
    BY DEF SettledInv, AskingInv, Waits, OnLine, TakenLine
  <2>5. remoteValid' => given'.current \in given'.all
    OBVIOUS
  <2> QED
    BY <2>1, <2>2, <2>3, <2>4, <2>5
<1> QED
  BY <1>1, <1>2, <1>3

\* The anchor is forgotten.
LEMMA ResetKeeps ==
  ASSUME AnchorInv, Anchor!Reset
  PROVE  AnchorInv'
<1> USE AnchorSizes DEF AnchorInv, Anchor!TypeOK, Anchor!Reset, Anchor!MayCall,
   Anchor!NoLine, Anchor!conn, Anchor!ages, Anchor!Getters
<1>1. Anchor!TypeOK'
  <2>1. {remoteValid', lastValid', steady', overlap'} \subseteq BOOLEAN
    BY Zenon
  <2>2. /\ anchor' \in [rtp: Frames \union {0}, time: Int, clock: Clocks \union {Anchor!Unset}]
        /\ last' \in [rtp: Frames \union {0}, local: Int]
    BY DEF GetInv, Anchor!Idle
  <2>3. /\ master' \in Clocks \union Anchor!Failures
        /\ sinceMastership' \in 0 .. Stable
        /\ sinceUpdate' \in 0 .. Stable + 1 /\ sinceValidity' \in 0 .. Stable
    OBVIOUS
  <2>4. set' = Anchor!Idle \/ set' \in [at: {"time", "clock"}, time: Int, clock: Clocks]
    BY DEF Anchor!Idle
  <2>5. get' \in [{"player", "processor"} ->
                    [at: {"idle", "look", "copy", "rebase", "answer", "deny"},
                     clock: Clocks \union Anchor!Failures]]
    BY DEF Anchor!Failures
  <2>6. given' \in [all: SUBSET Lines, current: Int, clock: Clocks \union {Anchor!Unset}]
    BY DEF Anchor!Unset
  <2> QED
    BY <2>1, <2>2, <2>3, <2>4, <2>5, <2>6, Zenon DEF Anchor!TypeOK, Anchor!Getters
<1>2. GetInv'
  BY DEF GetInv
<1>3. SteadyInv'
  <2> SUFFICES ASSUME steady, ~overlap
               PROVE  SteadyInv'
    BY DEF SteadyInv
  <2> USE DEF SteadyInv, GetInv, AloneInv, Anchor!Idle
  <2>1. AloneInv'
    OBVIOUS
  <2>2. SettingInv'
    BY DEF SettingInv
  <2>3. SettledInv'
    BY DEF SettingInv, SettledInv, AskingInv, Waits, OnLine, TakenLine
  <2>4. AskingInv'
    BY DEF SettledInv, AskingInv, Waits, OnLine, TakenLine
  <2>5. remoteValid' => given'.current \in given'.all
    OBVIOUS
  <2> QED
    BY <2>1, <2>2, <2>3, <2>4, <2>5
<1> QED
  BY <1>1, <1>2, <1>3

\* A caller asks for the master clock.
LEMMA GetClockKeeps ==
  ASSUME AnchorInv, NEW t \in Anchor!Getters, Anchor!GetClock(t)
  PROVE  AnchorInv'
<1> USE AnchorSizes DEF AnchorInv, Anchor!TypeOK, Anchor!GetClock, Anchor!MayCall,
   Anchor!conn, Anchor!ages, Anchor!Getters
<1>1. Anchor!TypeOK'
  <2>1. {remoteValid', lastValid', steady', overlap'} \subseteq BOOLEAN
    BY Zenon
  <2>2. /\ anchor' \in [rtp: Frames \union {0}, time: Int, clock: Clocks \union {Anchor!Unset}]
        /\ last' \in [rtp: Frames \union {0}, local: Int]
    BY DEF GetInv, Anchor!Idle
  <2>3. /\ master' \in Clocks \union Anchor!Failures
        /\ sinceMastership' \in 0 .. Stable
        /\ sinceUpdate' \in 0 .. Stable + 1 /\ sinceValidity' \in 0 .. Stable
    OBVIOUS
  <2>4. set' = Anchor!Idle \/ set' \in [at: {"time", "clock"}, time: Int, clock: Clocks]
    BY DEF Anchor!Idle
  <2>5. get' \in [{"player", "processor"} ->
                    [at: {"idle", "look", "copy", "rebase", "answer", "deny"},
                     clock: Clocks \union Anchor!Failures]]
    BY DEF Anchor!Failures
  <2>6. given' \in [all: SUBSET Lines, current: Int, clock: Clocks \union {Anchor!Unset}]
    BY DEF Anchor!Unset
  <2> QED
    BY <2>1, <2>2, <2>3, <2>4, <2>5, <2>6, Zenon DEF Anchor!TypeOK, Anchor!Getters
<1>2. GetInv'
  BY DEF GetInv
<1>3. SteadyInv'
  <2> SUFFICES ASSUME steady, ~overlap
               PROVE  SteadyInv'
    BY DEF SteadyInv
  <2> USE DEF SteadyInv, GetInv, AloneInv, Anchor!Idle
  <2>1. AloneInv'
    OBVIOUS
  <2>2. SettingInv'
    BY DEF SettingInv
  <2>3. SettledInv'
    BY DEF SettingInv, SettledInv, AskingInv, Waits, OnLine, TakenLine
  <2>4. AskingInv'
    BY DEF SettledInv, AskingInv, Waits, OnLine, TakenLine
  <2>5. remoteValid' => given'.current \in given'.all
    OBVIOUS
  <2> QED
    BY <2>1, <2>2, <2>3, <2>4, <2>5
<1> QED
  BY <1>1, <1>2, <1>3

\* It compares that with the anchor's.
LEMMA LookKeeps ==
  ASSUME AnchorInv, NEW t \in Anchor!Getters, Anchor!Look(t)
  PROVE  AnchorInv'
<1> USE AnchorSizes DEF AnchorInv, Anchor!TypeOK, Anchor!Look, Anchor!OnMaster, Anchor!Goto,
   Anchor!Rebased, Anchor!conn, Anchor!ages, Anchor!Getters
<1>1. Anchor!TypeOK'
  <2>1. {remoteValid', lastValid', steady', overlap'} \subseteq BOOLEAN
    BY Zenon
  <2>2. /\ anchor' \in [rtp: Frames \union {0}, time: Int, clock: Clocks \union {Anchor!Unset}]
        /\ last' \in [rtp: Frames \union {0}, local: Int]
    BY DEF GetInv, Anchor!Idle
  <2>3. /\ master' \in Clocks \union Anchor!Failures
        /\ sinceMastership' \in 0 .. Stable
        /\ sinceUpdate' \in 0 .. Stable + 1 /\ sinceValidity' \in 0 .. Stable
    OBVIOUS
  <2>4. set' = Anchor!Idle \/ set' \in [at: {"time", "clock"}, time: Int, clock: Clocks]
    BY DEF Anchor!Idle
  <2>5. get' \in [{"player", "processor"} ->
                    [at: {"idle", "look", "copy", "rebase", "answer", "deny"},
                     clock: Clocks \union Anchor!Failures]]
    BY DEF Anchor!Failures
  <2>6. given' \in [all: SUBSET Lines, current: Int, clock: Clocks \union {Anchor!Unset}]
    BY DEF Anchor!Unset
  <2> QED
    BY <2>1, <2>2, <2>3, <2>4, <2>5, <2>6, Zenon DEF Anchor!TypeOK, Anchor!Getters
<1>2. GetInv'
  BY DEF GetInv
<1>3. SteadyInv'
  <2> SUFFICES ASSUME steady, ~overlap
               PROVE  SteadyInv'
    BY DEF SteadyInv
  <2> USE DEF SteadyInv, GetInv, AloneInv, Anchor!Idle
  <2>1. AloneInv'
    OBVIOUS
  <2>2. SettingInv'
    BY DEF SettingInv
  <2>3. SettledInv'
    BY DEF SettingInv, SettledInv, AskingInv, Waits, OnLine, TakenLine
  <2>4. AskingInv'
    BY DEF SettledInv, AskingInv, Waits, OnLine, TakenLine
  <2>5. remoteValid' => given'.current \in given'.all
    OBVIOUS
  <2> QED
    BY <2>1, <2>2, <2>3, <2>4, <2>5
<1> QED
  BY <1>1, <1>2, <1>3

\* The anchor is put on the new clock.
LEMMA RebaseClockKeeps ==
  ASSUME AnchorInv, NEW t \in Anchor!Getters, Anchor!RebaseClock(t)
  PROVE  AnchorInv'
<1> USE AnchorSizes DEF AnchorInv, Anchor!TypeOK, Anchor!RebaseClock, Anchor!Goto,
   Anchor!conn, Anchor!ages, Anchor!Getters
<1>1. Anchor!TypeOK'
  <2>1. {remoteValid', lastValid', steady', overlap'} \subseteq BOOLEAN
    BY Zenon
  <2>2. /\ anchor' \in [rtp: Frames \union {0}, time: Int, clock: Clocks \union {Anchor!Unset}]
        /\ last' \in [rtp: Frames \union {0}, local: Int]
    BY DEF GetInv, Anchor!Idle
  <2>3. /\ master' \in Clocks \union Anchor!Failures
        /\ sinceMastership' \in 0 .. Stable
        /\ sinceUpdate' \in 0 .. Stable + 1 /\ sinceValidity' \in 0 .. Stable
    OBVIOUS
  <2>4. set' = Anchor!Idle \/ set' \in [at: {"time", "clock"}, time: Int, clock: Clocks]
    BY DEF Anchor!Idle
  <2>5. get' \in [{"player", "processor"} ->
                    [at: {"idle", "look", "copy", "rebase", "answer", "deny"},
                     clock: Clocks \union Anchor!Failures]]
    BY DEF Anchor!Failures
  <2>6. given' \in [all: SUBSET Lines, current: Int, clock: Clocks \union {Anchor!Unset}]
    BY DEF Anchor!Unset
  <2> QED
    BY <2>1, <2>2, <2>3, <2>4, <2>5, <2>6, Zenon DEF Anchor!TypeOK, Anchor!Getters
<1>2. GetInv'
  BY DEF GetInv
<1>3. SteadyInv'
  <2> SUFFICES ASSUME steady, ~overlap
               PROVE  SteadyInv'
    BY DEF SteadyInv
  <2> USE DEF SteadyInv, GetInv, AloneInv, Anchor!Idle
  <2>1. AloneInv'
    OBVIOUS
  <2>2. SettingInv'
    BY DEF SettingInv
  <2>3. SettledInv'
    BY DEF SettingInv, SettledInv, AskingInv, Waits, OnLine, TakenLine
  <2>4. AskingInv'
    BY DEF SettledInv, AskingInv, Waits, OnLine, TakenLine
  <2>5. remoteValid' => given'.current \in given'.all
    OBVIOUS
  <2> QED
    BY <2>1, <2>2, <2>3, <2>4, <2>5
<1> QED
  BY <1>1, <1>2, <1>3

\* The anchor is taken.
LEMMA CopyTimeKeeps ==
  ASSUME AnchorInv, NEW t \in Anchor!Getters, Anchor!CopyTime(t)
  PROVE  AnchorInv'
<1> USE AnchorSizes DEF AnchorInv, Anchor!TypeOK, Anchor!CopyTime, Anchor!Goto, Anchor!Local,
   Anchor!conn, Anchor!ages, Anchor!Getters
<1>1. Anchor!TypeOK'
  <2>1. {remoteValid', lastValid', steady', overlap'} \subseteq BOOLEAN
    BY Zenon
  <2>2. /\ anchor' \in [rtp: Frames \union {0}, time: Int, clock: Clocks \union {Anchor!Unset}]
        /\ last' \in [rtp: Frames \union {0}, local: Int]
    BY DEF GetInv, Anchor!Idle
  <2>3. /\ master' \in Clocks \union Anchor!Failures
        /\ sinceMastership' \in 0 .. Stable
        /\ sinceUpdate' \in 0 .. Stable + 1 /\ sinceValidity' \in 0 .. Stable
    OBVIOUS
  <2>4. set' = Anchor!Idle \/ set' \in [at: {"time", "clock"}, time: Int, clock: Clocks]
    BY DEF Anchor!Idle
  <2>5. get' \in [{"player", "processor"} ->
                    [at: {"idle", "look", "copy", "rebase", "answer", "deny"},
                     clock: Clocks \union Anchor!Failures]]
    BY DEF Anchor!Failures
  <2>6. given' \in [all: SUBSET Lines, current: Int, clock: Clocks \union {Anchor!Unset}]
    BY DEF Anchor!Unset
  <2> QED
    BY <2>1, <2>2, <2>3, <2>4, <2>5, <2>6, Zenon DEF Anchor!TypeOK, Anchor!Getters
<1>2. GetInv'
  BY DEF GetInv
<1>3. SteadyInv'
  <2> SUFFICES ASSUME steady, ~overlap
               PROVE  SteadyInv'
    BY DEF SteadyInv
  <2> USE DEF SteadyInv, GetInv, AloneInv, Anchor!Idle
  <2>1. AloneInv'
    OBVIOUS
  <2>2. SettingInv'
    BY DEF SettingInv
  <2>3. SettledInv'
    BY DEF SettingInv, SettledInv, AskingInv, Waits, OnLine, TakenLine
  <2>4. AskingInv'
    BY DEF SettledInv, AskingInv, Waits, OnLine, TakenLine
  <2>5. remoteValid' => given'.current \in given'.all
    OBVIOUS
  <2> QED
    BY <2>1, <2>2, <2>3, <2>4, <2>5
<1> QED
  BY <1>1, <1>2, <1>3

\* The caller has its answer.
LEMMA FinishKeeps ==
  ASSUME AnchorInv, NEW t \in Anchor!Getters, get[t].at \in {"answer", "deny"}, Anchor!Finish(t)
  PROVE  AnchorInv'
<1> USE AnchorSizes DEF AnchorInv, Anchor!TypeOK, Anchor!Finish, Anchor!NoGet, Anchor!conn,
   Anchor!ages, Anchor!Getters
<1>1. Anchor!TypeOK'
  <2>1. {remoteValid', lastValid', steady', overlap'} \subseteq BOOLEAN
    BY Zenon
  <2>2. /\ anchor' \in [rtp: Frames \union {0}, time: Int, clock: Clocks \union {Anchor!Unset}]
        /\ last' \in [rtp: Frames \union {0}, local: Int]
    BY DEF GetInv, Anchor!Idle
  <2>3. /\ master' \in Clocks \union Anchor!Failures
        /\ sinceMastership' \in 0 .. Stable
        /\ sinceUpdate' \in 0 .. Stable + 1 /\ sinceValidity' \in 0 .. Stable
    OBVIOUS
  <2>4. set' = Anchor!Idle \/ set' \in [at: {"time", "clock"}, time: Int, clock: Clocks]
    BY DEF Anchor!Idle
  <2>5. get' \in [{"player", "processor"} ->
                    [at: {"idle", "look", "copy", "rebase", "answer", "deny"},
                     clock: Clocks \union Anchor!Failures]]
    BY DEF Anchor!Failures
  <2>6. given' \in [all: SUBSET Lines, current: Int, clock: Clocks \union {Anchor!Unset}]
    BY DEF Anchor!Unset
  <2> QED
    BY <2>1, <2>2, <2>3, <2>4, <2>5, <2>6, Zenon DEF Anchor!TypeOK, Anchor!Getters
<1>2. GetInv'
  BY DEF GetInv
<1>3. SteadyInv'
  <2> SUFFICES ASSUME steady, ~overlap
               PROVE  SteadyInv'
    BY DEF SteadyInv
  <2> USE DEF SteadyInv, GetInv, AloneInv, Anchor!Idle
  <2>1. AloneInv'
    OBVIOUS
  <2>2. SettingInv'
    BY DEF SettingInv
  <2>3. SettledInv'
    BY DEF SettingInv, SettledInv, AskingInv, Waits, OnLine, TakenLine
  <2>4. AskingInv'
    BY DEF SettledInv, AskingInv, Waits, OnLine, TakenLine
  <2>5. remoteValid' => given'.current \in given'.all
    OBVIOUS
  <2> QED
    BY <2>1, <2>2, <2>3, <2>4, <2>5
<1> QED
  BY <1>1, <1>2, <1>3

\* Every step of the source, of NQPTP and of the callers keeps the invariant.
LEMMA AnchorKept ==
  ASSUME AnchorInv, [Anchor!Next]_anchorVars
  PROVE  AnchorInv'
<1>1. CASE \E m \in Clocks \union Anchor!Failures : Anchor!MasterChanges(m)
  BY <1>1, MasterChangesKeeps
<1>2. CASE Anchor!Tick \/ Anchor!SetTime \/ Anchor!SetClock \/ Anchor!Reset
  BY <1>2, AgesKeep, SetTimeKeeps, SetClockKeeps, ResetKeeps
<1>3. CASE \E line \in Lines, f \in Frames, c \in Clocks : Anchor!SetAnchor(line, f, c)
  BY <1>3, SetAnchorKeeps
<1>4. CASE \E t \in Anchor!Getters :
             Anchor!GetClock(t) \/ Anchor!Look(t) \/ Anchor!RebaseClock(t) \/ Anchor!CopyTime(t)
  BY <1>4, GetClockKeeps, LookKeeps, RebaseClockKeeps, CopyTimeKeeps
<1>5. CASE \E t \in Anchor!Getters : Anchor!Answer(t) \/ Anchor!Deny(t)
  BY <1>5, FinishKeeps DEF Anchor!Answer, Anchor!Deny
<1>6. CASE UNCHANGED anchorVars
  BY <1>6, Zenon DEF anchorVars, AnchorInv, Anchor!TypeOK, GetInv, SteadyInv, AloneInv,
     SettingInv, SettledInv, AskingInv, Waits, OnLine, TakenLine
<1> QED
  BY <1>1, <1>2, <1>3, <1>4, <1>5, <1>6 DEF Anchor!Next

\* The answer of a call is the current line.
LEMMA AnswerOnLine ==
  ASSUME AnchorInv, NEW t \in Anchor!Getters, Anchor!Answer(t), steady, ~overlap
  PROVE  Anchor!LastLine \in given.all /\ Anchor!LastLine = given.current
<1>1. TakenLine /\ remoteValid /\ given.current \in given.all
  BY DEF AnchorInv, SteadyInv, AskingInv, AloneInv, Anchor!Answer
<1>2. Anchor!LastLine = given.current
  <2>1. last.rtp \in Int /\ given.current \in Int
    BY AnchorSizes DEF AnchorInv, Anchor!TypeOK
  <2> QED
    BY <1>1, <2>1 DEF TakenLine, Anchor!LastLine
<1> QED
  BY <1>1, <1>2

(***************************************************************************)
(* The metadata hub: whatever a packet changes is announced                *)
(***************************************************************************)

\* The hub's items.
HubItems == [code: Tags \union {"phbt", "mdst", "mden"}, value: Values \union {"empty"}]

\* A conversation is in the middle of packet p.
Amid(p) == p /= <<>> /\ p[1].code /= "mdst"

\* From place i of queue q on, the end of a packet comes before the start of one: it is in the
\* queue, or the conversation is to send it.
EndComes(q, amid, i) ==
  \/ \E j \in i .. Len(q) : q[j].code = "mden" /\ \A k \in i .. j : q[k].code /= "mdst"
  \/ amid /\ \A k \in i .. Len(q) : q[k].code /= "mdst"

\* What is left of a packet has its end, and only as its last item.
PacketInv ==
  \A i \in 1 .. Len(packet) :
    /\ packet[i].code = "mdst" => i = 1
    /\ packet[i].code = "mden" <=> i = Len(packet)

\* A tag is followed by the end of its packet, and so is a change that was not announced, which
\* has been noted.
AnnounceInv ==
  /\ \A i \in 1 .. Len(queue) : queue[i].code \in Tags => EndComes(queue, Amid(packet), i + 1)
  /\ \A f \in Tags \ Silent :
       shown[f] /= store[f] => metadata_packet_item_changed /\ EndComes(queue, Amid(packet), 1)

HubInv == Hub!TypeOK /\ PacketInv /\ (~lost => AnnounceInv)

\* The hub's module counts as this one does.
LEMMA HubCounts == \A S : Hub!Cardinality(S) = Cardinality(S)
  BY Zenon DEF Hub!Cardinality, Cardinality

\* The types, in the terms of this module.
LEMMA HubTypes ==
  Hub!TypeOK <=>
    /\ {store, shown} \subseteq [Tags \union {"phbt"} -> Values \union {"empty"}]
    /\ {metadata_packet_item_changed, lost} \subseteq BOOLEAN
    /\ queue \in Seq(HubItems) /\ Len(queue) <= Room
    /\ packet \in Seq(HubItems) /\ Len(packet) <= Cardinality(Tags) + 2
<1>1. Hub!Items = HubItems /\ Hub!Fields = Tags \union {"phbt"} /\ Hub!Empty = "empty"
  BY DEF Hub!Items, HubItems, Hub!Fields, Hub!Position, Hub!Empty
<1>2. Hub!Cardinality(Tags) = Cardinality(Tags)
  BY HubCounts, Zenon
<1> QED
  BY <1>1, <1>2, Zenon DEF Hub!TypeOK

\* The same of the next state.
LEMMA HubTypesNext ==
  Hub!TypeOK' <=>
    /\ {store', shown'} \subseteq [Tags \union {"phbt"} -> Values \union {"empty"}]
    /\ {metadata_packet_item_changed', lost'} \subseteq BOOLEAN
    /\ queue' \in Seq(HubItems) /\ Len(queue') <= Room
    /\ packet' \in Seq(HubItems) /\ Len(packet') <= Cardinality(Tags) + 2
<1>1. Hub!Items = HubItems /\ Hub!Fields = Tags \union {"phbt"} /\ Hub!Empty = "empty"
  BY DEF Hub!Items, HubItems, Hub!Fields, Hub!Position, Hub!Empty
<1>2. Hub!Cardinality(Tags) = Cardinality(Tags)
  BY HubCounts, Zenon
<1> QED
  BY <1>1, <1>2, Zenon DEF Hub!TypeOK

\* The assumption, in parts.
LEMMA HubSizes ==
  /\ Cardinality(Tags) \in Nat /\ Room \in Nat /\ Silent \subseteq Tags
  /\ \A f \in Tags : f /= "mdst" /\ f /= "mden" /\ f /= "phbt"
<1>1. Cardinality(Tags) \in Nat
  BY HubAssumption, FS_CardinalityType, Zenon DEF HubAssumption
<1> QED
  BY <1>1, HubAssumption DEF HubAssumption

\* An item sent leaves the end of a packet to come, if it is not the start of one.
LEMMA EndStillComes ==
  ASSUME NEW q \in Seq(HubItems), NEW x \in HubItems, NEW amid \in BOOLEAN, NEW amid2 \in BOOLEAN,
         NEW i \in 1 .. Len(q) + 1, EndComes(q, amid, i),
         amid => x.code /= "mdst" /\ (x.code = "mden" \/ amid2)
  PROVE  EndComes(Append(q, x), amid2, i)
<1> DEFINE a == Append(q, x)
<1>1. /\ Len(q) \in Nat /\ Len(a) = Len(q) + 1
      /\ \A k \in 1 .. Len(q) : a[k] = q[k]
      /\ a[Len(q) + 1] = x
  BY LenProperties, AppendProperties
<1> HIDE DEF a
<1>2. CASE \E j \in i .. Len(q) : q[j].code = "mden" /\ \A k \in i .. j : q[k].code /= "mdst"
  <2>1. PICK j \in i .. Len(q) : q[j].code = "mden" /\ \A k \in i .. j : q[k].code /= "mdst"
    BY <1>2
  <2>2. j \in i .. Len(a) /\ a[j].code = "mden" /\ \A k \in i .. j : a[k].code /= "mdst"
    BY <1>1, <2>1
  <2> QED
    BY <2>2 DEF EndComes, a
<1>3. CASE amid /\ \A k \in i .. Len(q) : q[k].code /= "mdst"
  <2>1. \A k \in i .. Len(a) : a[k].code /= "mdst"
    BY <1>1, <1>3
  <2>2. CASE x.code = "mden"
    <3>1. Len(a) \in i .. Len(a) /\ a[Len(a)].code = "mden"
      BY <1>1, <2>2
    <3> QED
      BY <2>1, <3>1 DEF EndComes, a
  <2>3. CASE amid2
    BY <2>1, <2>3 DEF EndComes, a
  <2> QED
    BY <1>3, <2>2, <2>3
<1> QED
  BY <1>2, <1>3 DEF EndComes

\* When the first item has been taken everything is a place nearer.
LEMMA EndNearer ==
  ASSUME NEW q \in Seq(HubItems), q /= <<>>, NEW amid, NEW i \in 1 .. Len(q),
         EndComes(q, amid, i + 1)
  PROVE  EndComes(Tail(q), amid, i)
<1>1. /\ Len(q) \in Nat /\ Len(Tail(q)) = Len(q) - 1
      /\ \A k \in 1 .. Len(q) - 1 : Tail(q)[k] = q[k + 1]
  BY LenProperties, HeadTailProperties
<1>2. CASE \E j \in i + 1 .. Len(q) : q[j].code = "mden" /\ \A k \in i + 1 .. j : q[k].code /= "mdst"
  <2>1. PICK j \in i + 1 .. Len(q) : q[j].code = "mden" /\ \A k \in i + 1 .. j : q[k].code /= "mdst"
    BY <1>2
  <2>2. j - 1 \in i .. Len(Tail(q)) /\ Tail(q)[j - 1].code = "mden"
    BY <1>1, <2>1
  <2>3. \A k \in i .. j - 1 : Tail(q)[k].code /= "mdst"
    BY <1>1, <2>1
  <2> QED
    BY <2>2, <2>3 DEF EndComes
<1>3. CASE amid /\ \A k \in i + 1 .. Len(q) : q[k].code /= "mdst"
  <2>1. \A k \in i .. Len(Tail(q)) : Tail(q)[k].code /= "mdst"
    BY <1>1, <1>3
  <2> QED
    BY <1>3, <2>1 DEF EndComes
<1> QED
  BY <1>2, <1>3 DEF EndComes

\* An item that is not the end of a packet, before that end, is not the start of one either.
LEMMA EndStillAhead ==
  ASSUME NEW q \in Seq(HubItems), q /= <<>>, NEW amid, EndComes(q, amid, 1), q[1].code /= "mden"
  PROVE  q[1].code /= "mdst" /\ EndComes(q, amid, 2)
<1>1. Len(q) \in Nat /\ Len(q) > 0
  BY LenProperties, EmptySeq
<1>2. CASE \E j \in 1 .. Len(q) : q[j].code = "mden" /\ \A k \in 1 .. j : q[k].code /= "mdst"
  <2>1. PICK j \in 1 .. Len(q) : q[j].code = "mden" /\ \A k \in 1 .. j : q[k].code /= "mdst"
    BY <1>2
  <2>2. j \in 2 .. Len(q) /\ 1 \in 1 .. j /\ \A k \in 2 .. j : k \in 1 .. j
    BY <1>1, <2>1
  <2> QED
    BY <2>1, <2>2 DEF EndComes
<1>3. CASE amid /\ \A k \in 1 .. Len(q) : q[k].code /= "mdst"
  <2>1. 1 \in 1 .. Len(q) /\ \A k \in 2 .. Len(q) : k \in 1 .. Len(q)
    BY <1>1
  <2> QED
    BY <1>3, <2>1 DEF EndComes
<1> QED
  BY <1>2, <1>3 DEF EndComes

\* Nothing was sent.
LEMMA HubStart == Hub!Init => HubInv
<1> SUFFICES ASSUME Hub!Init
             PROVE  HubInv
  OBVIOUS
<1>1. /\ store = [f \in Tags \union {"phbt"} |-> "empty"] /\ shown = store
      /\ metadata_packet_item_changed = FALSE /\ lost = FALSE
      /\ queue = <<>> /\ packet = <<>>
  BY DEF Hub!Init, Hub!Fields, Hub!Position, Hub!Empty
<1>2. Hub!TypeOK
  <2>1. /\ queue \in Seq(HubItems) /\ Len(queue) = 0 /\ packet \in Seq(HubItems) /\ Len(packet) = 0
    BY <1>1
  <2>2. {store, shown} \subseteq [Tags \union {"phbt"} -> Values \union {"empty"}]
    BY <1>1
  <2>3. Len(queue) <= Room /\ Len(packet) <= Cardinality(Tags) + 2
    BY <2>1, HubSizes
  <2> QED
    BY <1>1, <2>1, <2>2, <2>3, HubTypes, Zenon
<1>3. PacketInv /\ AnnounceInv
  BY <1>1 DEF PacketInv, AnnounceInv
<1> QED
  BY <1>2, <1>3 DEF HubInv

\* A conversation puts a packet together.
LEMMA SetParameterKeeps ==
  ASSUME HubInv, NEW order \in Hub!Orders, NEW track \in [Tags -> Values],
         Hub!SetParameter(order, track)
  PROVE  HubInv'
<1> DEFINE tags == [i \in 1 .. Len(order) |-> Hub!Tag(order[i], track)]
           head == [code |-> "mdst", value |-> "empty"]
           tail == [code |-> "mden", value |-> "empty"]
<1>1. PICK n \in 1 .. Cardinality(Tags) : order \in [1 .. n -> Tags]
  BY HubCounts DEF Hub!Orders
<1>2. n \in Nat /\ n <= Cardinality(Tags) /\ order \in Seq(Tags) /\ Len(order) = n
  BY <1>1, HubSizes
<1>3. packet = <<>> /\ packet' = <<head>> \o tags \o <<tail>>
  BY DEF Hub!SetParameter, Hub!Start, Hub!End, Hub!Empty
<1>4. UNCHANGED <<store, shown, metadata_packet_item_changed, queue, lost>>
  BY DEF Hub!SetParameter
<1>5. /\ tags \in Seq(HubItems) /\ Len(tags) = n
      /\ \A i \in 1 .. n : tags[i].code \in Tags
  <2>1. \A i \in 1 .. n : order[i] \in Tags /\ track[order[i]] \in Values
    BY <1>1
  <2>2. \A i \in 1 .. n :
          Hub!Tag(order[i], track) \in HubItems /\ Hub!Tag(order[i], track).code = order[i]
    BY <2>1 DEF Hub!Tag, HubItems
  <2> QED
    BY <1>2, <2>1, <2>2
<1>6. head \in HubItems /\ tail \in HubItems
  BY DEF HubItems
<1> HIDE DEF tags, head, tail
<1>7. PICK p \in Seq(HubItems) : p = <<head>> \o tags \o <<tail>>
  <2>1. <<head>> \in Seq(HubItems) /\ <<tail>> \in Seq(HubItems)
    BY <1>6
  <2>2. <<head>> \o tags \in Seq(HubItems)
    BY <1>5, <2>1, ConcatProperties
  <2>3. <<head>> \o tags \o <<tail>> \in Seq(HubItems)
    BY <2>1, <2>2, ConcatProperties
  <2> QED
    BY <2>3
<1>8. /\ Len(p) = n + 2 /\ p[1] = head /\ p[n + 2] = tail
      /\ \A i \in 2 .. n + 1 : p[i] = tags[i - 1]
  BY <1>2, <1>5, <1>6, <1>7
<1>9. /\ p /= <<>> /\ p[1].code = "mdst" /\ p[n + 2].code = "mden"
      /\ \A i \in 2 .. n + 1 : p[i].code \in Tags
  BY <1>2, <1>5, <1>8 DEF head, tail
<1>10. \A i \in 1 .. Len(p) : (p[i].code = "mdst" => i = 1) /\ (p[i].code = "mden" <=> i = Len(p))
  <2> SUFFICES ASSUME NEW i \in 1 .. Len(p)
               PROVE  (p[i].code = "mdst" => i = 1) /\ (p[i].code = "mden" <=> i = Len(p))
    OBVIOUS
  <2>1. CASE i = 1
    BY <1>2, <1>8, <1>9, <2>1
  <2>2. CASE i = n + 2
    BY <1>2, <1>8, <1>9, <2>2
  <2>3. CASE i \in 2 .. n + 1
    BY <1>2, <1>8, <1>9, <2>3, HubSizes
  <2> QED
    BY <1>2, <1>8, <2>1, <2>2, <2>3
<1>11. packet' = p
  BY <1>3, <1>7
<1>12. PacketInv'
  BY <1>10, <1>11, Zenon DEF PacketInv
<1>13. Hub!TypeOK'
  <2>1. Len(p) <= Cardinality(Tags) + 2
    BY <1>2, <1>8, HubSizes
  <2> QED
    BY <1>4, <1>11, <2>1, HubTypes, HubTypesNext, Zenon DEF HubInv
<1>14. ~lost' => AnnounceInv'
  <2>1. ~ Amid(packet) /\ ~ Amid(packet')
    BY <1>3, <1>9, <1>11 DEF Amid
  <2>2. \A i : EndComes(queue, Amid(packet), i) => EndComes(queue, Amid(packet'), i)
    BY <2>1, Zenon DEF EndComes
  <2> QED
    BY <1>4, <2>2, Zenon DEF HubInv, AnnounceInv
<1> QED
  BY <1>12, <1>13, <1>14 DEF HubInv

\* What is left of a packet once its first item has been sent.
LEMMA PacketShrinks ==
  ASSUME NEW p \in Seq(HubItems), p /= <<>>,
         \A i \in 1 .. Len(p) : (p[i].code = "mdst" => i = 1) /\ (p[i].code = "mden" <=> i = Len(p))
  PROVE  /\ Head(p) \in HubItems /\ Tail(p) \in Seq(HubItems) /\ Len(Tail(p)) < Len(p)
         /\ \A i \in 1 .. Len(Tail(p)) :
              /\ Tail(p)[i].code = "mdst" => i = 1
              /\ Tail(p)[i].code = "mden" <=> i = Len(Tail(p))
         /\ Amid(p) => Head(p).code /= "mdst"
         /\ Head(p).code /= "mden" => Amid(Tail(p))
<1> DEFINE t == Tail(p)
<1>1. /\ Len(p) \in Nat /\ Len(p) > 0 /\ Head(p) = p[1] /\ Head(p) \in HubItems
      /\ t \in Seq(HubItems) /\ Len(t) = Len(p) - 1
      /\ \A k \in 1 .. Len(p) - 1 : t[k] = p[k + 1]
  BY LenProperties, HeadTailProperties, EmptySeq
<1> HIDE DEF t
<1>2. ASSUME NEW i \in 1 .. Len(t)
      PROVE  t[i].code /= "mdst" /\ (t[i].code = "mden" <=> i = Len(t))
  <2>1. i + 1 \in 1 .. Len(p) /\ t[i] = p[i + 1] /\ i + 1 /= 1 /\ (i = Len(t) <=> i + 1 = Len(p))
    BY <1>1
  <2>2. (p[i + 1].code = "mdst" => i + 1 = 1) /\ (p[i + 1].code = "mden" <=> i + 1 = Len(p))
    BY <2>1
  <2> QED
    BY <2>1, <2>2
<1>3. Head(p).code /= "mden" => Amid(t)
  <2> SUFFICES ASSUME Head(p).code /= "mden"
               PROVE  Amid(t)
    OBVIOUS
  <2>1. 1 \in 1 .. Len(p)
    BY <1>1
  <2>2. 1 /= Len(p)
    BY <1>1, <2>1
  <2>3. 1 \in 1 .. Len(t) /\ t /= <<>>
    BY <1>1, <2>2
  <2> QED
    BY <1>2, <2>3, Zenon DEF Amid
<1>4. Amid(p) => Head(p).code /= "mdst"
  BY <1>1 DEF Amid
<1>5. Len(t) < Len(p)
  BY <1>1
<1> QED
  BY <1>1, <1>2, <1>3, <1>4, <1>5, Zenon DEF t

\* The conversation sends the next item of its packet.
LEMMA SendNextKeeps ==
  ASSUME HubInv, Hub!SendNext
  PROVE  HubInv'
<1> DEFINE x == Head(packet)
           rest == Tail(packet)
<1>1. /\ packet \in Seq(HubItems) /\ Len(packet) <= Cardinality(Tags) + 2
      /\ queue \in Seq(HubItems) /\ Len(queue) <= Room
      /\ {store, shown} \subseteq [Tags \union {"phbt"} -> Values \union {"empty"}]
      /\ {metadata_packet_item_changed, lost} \subseteq BOOLEAN
  BY HubTypes, Zenon DEF HubInv
<1>2. packet /= <<>> /\ packet' = rest /\ UNCHANGED <<store, shown, metadata_packet_item_changed>>
  BY DEF Hub!SendNext
<1>3. /\ x \in HubItems /\ rest \in Seq(HubItems) /\ Len(rest) < Len(packet)
      /\ \A i \in 1 .. Len(rest) :
           /\ rest[i].code = "mdst" => i = 1
           /\ rest[i].code = "mden" <=> i = Len(rest)
      /\ Amid(packet) => x.code /= "mdst"
      /\ x.code /= "mden" => Amid(rest)
  BY <1>1, <1>2, PacketShrinks, Zenon DEF HubInv, PacketInv
<1>4. PacketInv'
  BY <1>2, <1>3, Zenon DEF PacketInv
<1>5. Len(rest) <= Cardinality(Tags) + 2
  BY <1>1, <1>3, HubSizes, LenProperties
<1>6. Amid(packet) \in BOOLEAN /\ Amid(rest) \in BOOLEAN
  BY DEF Amid
<1> HIDE DEF x, rest
<1>7. CASE Len(queue) < Room
  <2>1. queue' = Append(queue, x) /\ lost' = lost
    BY <1>7 DEF Hub!SendNext, x
  <2>2. PICK q \in Seq(HubItems) : q = Append(queue, x)
    BY <1>1, <1>3, AppendProperties
  <2>3. /\ Len(queue) \in Nat /\ Len(q) = Len(queue) + 1 /\ q[Len(queue) + 1] = x
        /\ \A i \in 1 .. Len(queue) : q[i] = queue[i]
    BY <1>1, <1>3, <2>2, AppendProperties, LenProperties
  <2>4. \A i \in 1 .. Len(queue) + 1 : EndComes(queue, Amid(packet), i) => EndComes(q, Amid(rest), i)
    <3> SUFFICES ASSUME NEW i \in 1 .. Len(queue) + 1, EndComes(queue, Amid(packet), i)
                 PROVE  EndComes(Append(queue, x), Amid(rest), i)
      BY <2>2
    <3> DEFINE amid == Amid(packet)
               amid2 == Amid(rest)
    <3>1. amid => x.code /= "mdst" /\ (x.code = "mden" \/ amid2)
      BY <1>3
    <3>2. amid \in BOOLEAN /\ amid2 \in BOOLEAN /\ EndComes(queue, amid, i)
      BY <1>6
    <3> HIDE DEF amid, amid2
    <3>3. EndComes(Append(queue, x), amid2, i)
      BY <1>1, <1>3, <3>1, <3>2, EndStillComes
    <3> QED
      BY <3>3 DEF amid2
  <2>5. ASSUME ~ lost
        PROVE  AnnounceInv'
    <3>1. /\ \A i \in 1 .. Len(queue) : queue[i].code \in Tags => EndComes(queue, Amid(packet), i + 1)
          /\ \A f \in Tags \ Silent :
               shown[f] /= store[f] => metadata_packet_item_changed /\ EndComes(queue, Amid(packet), 1)
      BY <2>5, Zenon DEF HubInv, AnnounceInv
    <3>2. ASSUME NEW i \in 1 .. Len(q), q[i].code \in Tags
          PROVE  EndComes(q, Amid(rest), i + 1)
      <4>1. CASE i = Len(queue) + 1
        <5>1. Amid(rest)
          BY <1>3, <2>3, <3>2, <4>1, HubSizes
        <5>2. \A k \in i + 1 .. Len(q) : FALSE
          BY <2>3, <4>1
        <5> QED
          BY <5>1, <5>2, Zenon DEF EndComes
      <4>2. CASE i \in 1 .. Len(queue)
        <5>1. EndComes(queue, Amid(packet), i + 1) /\ i + 1 \in 1 .. Len(queue) + 1
          BY <2>3, <3>1, <3>2, <4>2
        <5> QED
          BY <2>4, <5>1
      <4> QED
        BY <2>3, <4>1, <4>2
    <3>3. 1 \in 1 .. Len(queue) + 1
      BY <2>3
    <3>4. \A f \in Tags \ Silent :
            shown[f] /= store[f] => metadata_packet_item_changed /\ EndComes(q, Amid(rest), 1)
      BY <2>4, <3>1, <3>3, Zenon
    <3>5. queue' = q /\ packet' = rest
      BY <1>2, <2>1, <2>2
    <3> QED
      BY <1>2, <3>2, <3>4, <3>5, Zenon DEF AnnounceInv
  <2>6. Len(q) <= Room
    BY <1>7, <2>3, HubSizes
  <2>7. Hub!TypeOK'
    BY <1>1, <1>2, <1>3, <1>5, <2>1, <2>2, <2>6, HubTypesNext, Zenon
  <2> QED
    BY <1>4, <2>1, <2>5, <2>7, Zenon DEF HubInv
<1>8. CASE ~(Len(queue) < Room)
  <2>1. queue' = queue /\ lost' = TRUE
    BY <1>8 DEF Hub!SendNext
  <2>2. Hub!TypeOK'
    <3>1. {metadata_packet_item_changed', lost'} \subseteq BOOLEAN
      BY <1>1, <1>2, <2>1
    <3> QED
      BY <1>1, <1>2, <1>3, <1>5, <2>1, <3>1, HubTypesNext, Zenon
  <2> QED
    BY <1>4, <2>1, <2>2, Zenon DEF HubInv
<1> QED
  BY <1>7, <1>8

\* The player sends its position.
LEMMA SendPositionKeeps ==
  ASSUME HubInv, NEW v \in Values, Hub!SendPosition(v)
  PROVE  HubInv'
<1> DEFINE x == [code |-> "phbt", value |-> v]
<1>1. /\ packet \in Seq(HubItems) /\ Len(packet) <= Cardinality(Tags) + 2
      /\ queue \in Seq(HubItems) /\ Len(queue) <= Room
      /\ {store, shown} \subseteq [Tags \union {"phbt"} -> Values \union {"empty"}]
      /\ {metadata_packet_item_changed, lost} \subseteq BOOLEAN
  BY HubTypes, Zenon DEF HubInv
<1>2. /\ Len(queue) < Room /\ queue' = Append(queue, x)
      /\ UNCHANGED <<store, shown, metadata_packet_item_changed, packet, lost>>
  BY DEF Hub!SendPosition, Hub!Position
<1>3. x \in HubItems /\ x.code \notin Tags /\ x.code /= "mdst"
  BY HubSizes DEF HubItems
<1> HIDE DEF x
<1>4. PICK q \in Seq(HubItems) : q = Append(queue, x)
  BY <1>1, <1>3, AppendProperties
<1>5. /\ Len(queue) \in Nat /\ Len(q) = Len(queue) + 1 /\ q[Len(queue) + 1] = x
      /\ \A i \in 1 .. Len(queue) : q[i] = queue[i]
  BY <1>1, <1>3, <1>4, AppendProperties, LenProperties
<1>6. \A i \in 1 .. Len(queue) + 1 : EndComes(queue, Amid(packet), i) => EndComes(q, Amid(packet), i)
  <2> SUFFICES ASSUME NEW i \in 1 .. Len(queue) + 1, EndComes(queue, Amid(packet), i)
               PROVE  EndComes(Append(queue, x), Amid(packet), i)
    BY <1>4
  <2> DEFINE amid == Amid(packet)
  <2>1. amid \in BOOLEAN /\ EndComes(queue, amid, i)
    BY DEF Amid
  <2> HIDE DEF amid
  <2>2. EndComes(Append(queue, x), amid, i)
    BY <1>1, <1>3, <2>1, EndStillComes
  <2> QED
    BY <2>2 DEF amid
<1>7. ASSUME ~ lost
      PROVE  AnnounceInv'
  <2>1. /\ \A i \in 1 .. Len(queue) : queue[i].code \in Tags => EndComes(queue, Amid(packet), i + 1)
        /\ \A f \in Tags \ Silent :
             shown[f] /= store[f] => metadata_packet_item_changed /\ EndComes(queue, Amid(packet), 1)
    BY <1>7, Zenon DEF HubInv, AnnounceInv
  <2>2. ASSUME NEW i \in 1 .. Len(q), q[i].code \in Tags
        PROVE  EndComes(q, Amid(packet), i + 1)
    <3>1. i \in 1 .. Len(queue)
      BY <1>3, <1>5, <2>2
    <3>2. EndComes(queue, Amid(packet), i + 1) /\ i + 1 \in 1 .. Len(queue) + 1
      BY <1>5, <2>1, <2>2, <3>1
    <3> QED
      BY <1>6, <3>2
  <2>3. 1 \in 1 .. Len(queue) + 1
    BY <1>5
  <2>4. \A f \in Tags \ Silent :
          shown[f] /= store[f] => metadata_packet_item_changed /\ EndComes(q, Amid(packet), 1)
    BY <1>6, <2>1, <2>3, Zenon
  <2>5. queue' = q
    BY <1>2, <1>4
  <2> QED
    BY <1>2, <2>2, <2>4, <2>5, Zenon DEF AnnounceInv
<1>8. PacketInv'
  BY <1>2, Zenon DEF HubInv, PacketInv
<1>9. Len(q) <= Room
  BY <1>2, <1>5, HubSizes
<1>10. Hub!TypeOK'
  BY <1>1, <1>2, <1>4, <1>9, HubTypesNext, Zenon
<1> QED
  BY <1>2, <1>7, <1>8, <1>10, Zenon DEF HubInv

\* What an item does to the store, to what the watchers have and to the note of a change.
LEMMA ItemFiled ==
  ASSUME HubInv, Hub!Process
  PROVE  LET x == Head(queue) IN
         /\ queue /= <<>> /\ x \in HubItems
         /\ store' = IF x.code \in Tags \union {"phbt"}
                     THEN [store EXCEPT ![x.code] = x.value] ELSE store
         /\ metadata_packet_item_changed' =
              (x.code /= "mdst" /\ (\/ metadata_packet_item_changed
                                    \/ x.code \in Tags \ Silent /\ store[x.code] /= x.value))
         /\ \/ shown' = store'
            \/ shown' = shown /\ (x.code = "mden" => ~ metadata_packet_item_changed)
         /\ x.code \notin {"mden", "phbt"} => shown' = shown
<1> DEFINE x == Head(queue)
<1>1. queue \in Seq(HubItems) /\ {metadata_packet_item_changed, lost} \subseteq BOOLEAN
  BY HubTypes, Zenon DEF HubInv
<1>2. /\ queue /= <<>>
      /\ store' = IF x.code \in Hub!Fields THEN [store EXCEPT ![x.code] = x.value] ELSE store
      /\ metadata_packet_item_changed' = Hub!PacketChanged(x)
      /\ shown' = IF Hub!Changed(x) THEN store' ELSE shown
  BY Zenon DEF Hub!Process
<1>3. x \in HubItems
  BY <1>1, <1>2, HeadTailProperties
<1> HIDE DEF x
<1>4. Hub!Fields = Tags \union {"phbt"} /\ Hub!Position = "phbt"
  BY DEF Hub!Fields, Hub!Position
<1>5. Hub!PacketChanged(x) =
        (x.code /= "mdst" /\ (\/ metadata_packet_item_changed
                              \/ x.code \in Tags \ Silent /\ store[x.code] /= x.value))
  BY <1>1, HubSizes DEF Hub!PacketChanged
<1>6. Hub!Changed(x) \in BOOLEAN /\ (x.code = "mden" => Hub!Changed(x) = metadata_packet_item_changed)
      /\ (x.code \notin {"mden", "phbt"} => Hub!Changed(x) = FALSE)
  BY <1>1 DEF Hub!Changed, Hub!Position
<1>7. x.code \notin {"mden", "phbt"} => shown' = shown
  BY <1>2, <1>6
<1>8. \/ shown' = store'
      \/ shown' = shown /\ (x.code = "mden" => ~ metadata_packet_item_changed)
  BY <1>1, <1>2, <1>6
<1> QED
  BY <1>2, <1>3, <1>4, <1>5, <1>7, <1>8, Zenon DEF x

\* The hub's thread files the first item of its queue.
LEMMA ProcessKeeps ==
  ASSUME HubInv, Hub!Process
  PROVE  HubInv'
<1> DEFINE x == Head(queue)
           amid == Amid(packet)
<1>1. /\ packet \in Seq(HubItems) /\ Len(packet) <= Cardinality(Tags) + 2
      /\ queue \in Seq(HubItems) /\ Len(queue) <= Room
      /\ {store, shown} \subseteq [Tags \union {"phbt"} -> Values \union {"empty"}]
      /\ {metadata_packet_item_changed, lost} \subseteq BOOLEAN
  BY HubTypes, Zenon DEF HubInv
<1>2. /\ queue /= <<>> /\ x \in HubItems
      /\ store' = IF x.code \in Tags \union {"phbt"}
                  THEN [store EXCEPT ![x.code] = x.value] ELSE store
      /\ metadata_packet_item_changed' =
           (x.code /= "mdst" /\ (\/ metadata_packet_item_changed
                                 \/ x.code \in Tags \ Silent /\ store[x.code] /= x.value))
      /\ \/ shown' = store'
         \/ shown' = shown /\ (x.code = "mden" => ~ metadata_packet_item_changed)
      /\ x.code \notin {"mden", "phbt"} => shown' = shown
  BY ItemFiled, Zenon
<1>3. queue' = Tail(queue) /\ packet' = packet /\ lost' = lost
  BY Zenon DEF Hub!Process
<1>4. PICK rest \in Seq(HubItems) : rest = Tail(queue)
  BY <1>1, <1>2, HeadTailProperties
<1>5. /\ Len(queue) \in Nat \ {0} /\ Len(rest) = Len(queue) - 1 /\ queue[1] = x
      /\ \A i \in 1 .. Len(queue) - 1 : rest[i] = queue[i + 1]
  BY <1>1, <1>2, <1>4, HeadTailProperties, EmptySeq
<1> HIDE DEF x, amid
<1>6. \A i \in 1 .. Len(queue) : EndComes(queue, amid, i + 1) => EndComes(rest, amid, i)
  BY <1>1, <1>2, <1>4, EndNearer
<1>7. ASSUME ~ lost
      PROVE  AnnounceInv'
  <2>1. /\ \A i \in 1 .. Len(queue) : queue[i].code \in Tags => EndComes(queue, amid, i + 1)
        /\ \A f \in Tags \ Silent :
             shown[f] /= store[f] => metadata_packet_item_changed /\ EndComes(queue, amid, 1)
    BY <1>7, Zenon DEF HubInv, AnnounceInv, amid
  <2>2. ASSUME NEW i \in 1 .. Len(rest), rest[i].code \in Tags
        PROVE  EndComes(rest, amid, i + 1)
    <3>1. i + 1 \in 1 .. Len(queue) /\ rest[i] = queue[i + 1]
      BY <1>5
    <3>2. EndComes(queue, amid, (i + 1) + 1)
      BY <2>1, <2>2, <3>1, Zenon
    <3> QED
      BY <1>6, <3>1, <3>2, Zenon
  <2>3. ASSUME NEW f \in Tags \ Silent, shown'[f] /= store'[f]
        PROVE  metadata_packet_item_changed' /\ EndComes(rest, amid, 1)
    <3>0. 1 \in 1 .. Len(queue) /\ 1 + 1 = 2
      BY <1>5
    <3>1. /\ shown' = shown /\ (x.code = "mden" => ~ metadata_packet_item_changed)
      BY <1>2, <2>3, Zenon
    <3>2. CASE x.code = f /\ store[f] /= x.value
      <4>1. x.code /= "mdst" /\ x.code \in Tags \ Silent
        BY <3>2, HubSizes
      <4>2. metadata_packet_item_changed'
        BY <1>2, <3>2, <4>1, Zenon
      <4>3. EndComes(queue, amid, 1 + 1)
        BY <1>5, <2>1, <3>0, <4>1
      <4> QED
        BY <1>6, <3>0, <4>2, <4>3, Zenon
    <3>3. CASE ~(x.code = f /\ store[f] /= x.value)
      <4>1. store'[f] = store[f]
        BY <1>1, <1>2, <3>3
      <4>2. metadata_packet_item_changed /\ EndComes(queue, amid, 1)
        BY <2>1, <2>3, <3>1, <4>1, Zenon
      <4>3. queue[1].code /= "mden"
        BY <1>5, <3>1, <4>2
      <4>4. queue[1].code /= "mdst" /\ EndComes(queue, amid, 2)
        BY <1>1, <1>2, <4>2, <4>3, EndStillAhead
      <4>5. metadata_packet_item_changed'
        BY <1>2, <1>5, <4>2, <4>4
      <4>6. EndComes(queue, amid, 1 + 1)
        BY <3>0, <4>4
      <4> QED
        BY <1>6, <3>0, <4>5, <4>6, Zenon
    <3> QED
      BY <3>2, <3>3, Zenon
  <2> QED
    BY <1>3, <1>4, <2>2, <2>3, Zenon DEF AnnounceInv, amid
<1>8. PacketInv'
  BY <1>3, Zenon DEF HubInv, PacketInv
<1>9. Hub!TypeOK'
  <2>1. Len(rest) <= Room
    BY <1>1, <1>5, HubSizes
  <2>2. x.code \in Tags \union {"phbt", "mdst", "mden"} /\ x.value \in Values \union {"empty"}
    BY <1>2 DEF HubItems
  <2>3. PICK st : st = store'
    OBVIOUS
  <2>4. st \in [Tags \union {"phbt"} -> Values \union {"empty"}]
    BY <1>1, <1>2, <2>2, <2>3
  <2>5. {store', shown'} \subseteq [Tags \union {"phbt"} -> Values \union {"empty"}]
    <3>1. shown' = st \/ shown' = shown
      BY <1>2, <2>3, Zenon
    <3>2. shown \in [Tags \union {"phbt"} -> Values \union {"empty"}]
      BY <1>1
    <3> QED
      BY <2>3, <2>4, <3>1, <3>2, Zenon
  <2>6. metadata_packet_item_changed' \in BOOLEAN
    BY <1>2, Zenon
  <2>7. {metadata_packet_item_changed', lost'} \subseteq BOOLEAN
    BY <1>1, <1>3, <2>6, Zenon
  <2> QED
    BY <1>1, <1>3, <1>4, <2>1, <2>5, <2>7, HubTypesNext, Zenon
<1> QED
  BY <1>3, <1>7, <1>8, <1>9, Zenon DEF HubInv

\* Every step keeps it.
LEMMA HubKept ==
  ASSUME HubInv, [Hub!Next]_hubVars
  PROVE  HubInv'
<1>1. CASE Hub!Next
  <2>1. CASE \E order \in Hub!Orders, track \in [Tags -> Values] : Hub!SetParameter(order, track)
    BY <2>1, SetParameterKeeps
  <2>2. CASE Hub!SendNext
    BY <2>2, SendNextKeeps
  <2>3. CASE \E v \in Values : Hub!SendPosition(v)
    BY <2>3, SendPositionKeeps
  <2>4. CASE Hub!Process
    BY <2>4, ProcessKeeps
  <2> QED
    BY <1>1, <2>1, <2>2, <2>3, <2>4, Zenon DEF Hub!Next
<1>2. CASE UNCHANGED hubVars
  <2>1. UNCHANGED <<store, shown, metadata_packet_item_changed, queue, packet, lost>>
    BY <1>2, Zenon DEF hubVars
  <2>2. Hub!TypeOK'
    BY <2>1, HubTypes, HubTypesNext, Zenon DEF HubInv
  <2>3. PacketInv' /\ (~lost' => AnnounceInv')
    BY <2>1, Zenon DEF HubInv, PacketInv, AnnounceInv
  <2> QED
    BY <2>2, <2>3, Zenon DEF HubInv
<1> QED
  BY <1>1, <1>2, Zenon

\* With nothing left to send and to file the end of a packet is not to come, so that no change
\* is waiting for it.
LEMMA HubRight == HubInv => Hub!TypeOK /\ Hub!TagsAnnounced
<1> SUFFICES ASSUME HubInv, Hub!Delivered, ~lost, NEW f \in Tags \ Silent, shown[f] /= store[f]
             PROVE  FALSE
  BY DEF HubInv, Hub!TagsAnnounced
<1>1. EndComes(queue, Amid(packet), 1)
  BY DEF HubInv, AnnounceInv
<1>2. queue = <<>> /\ packet = <<>>
  BY DEF Hub!Delivered
<1>3. Len(queue) = 0
  BY <1>2
<1> QED
  BY <1>1, <1>2, <1>3 DEF EndComes, Amid

(***************************************************************************)
(* The volume: from what is asked for to what the mixers do                *)
(***************************************************************************)

\* Cut to whole decibels, an attenuation becomes no larger.
LEMMA WholeIsLess ==
  ASSUME NEW x \in Int
  PROVE  Level!Whole(x) \in Int /\ (x <= 0 => x <= Level!Whole(x) /\ Level!Whole(x) <= 0)
BY DEF Level!Whole

\* Products and quotients keep an order.
LEMMA ProductKeepsOrder ==
  ASSUME NEW r \in Nat, NEW a \in Int, NEW b \in Int, a <= b
  PROVE  r * a \in Int /\ r * b \in Int /\ r * a <= r * b
<1>1. r * (b - a) >= 0
  OBVIOUS
<1> QED
  BY <1>1

LEMMA QuotientKeepsOrder ==
  ASSUME NEW d \in {13, 25, 30}, NEW a \in Int, NEW b \in Int, a <= b
  PROVE  a \div d \in Int /\ b \div d \in Int /\ a \div d <= b \div d
<1>1. CASE d = 13
  BY <1>1
<1>2. CASE d = 25
  BY <1>2
<1>3. CASE d = 30
  BY <1>3
<1> QED
  BY <1>1, <1>2, <1>3

\* A quotient of a product with at most its divisor
LEMMA PartOf ==
  ASSUME NEW d \in {13, 25, 30}, NEW r \in Nat, NEW k \in 0 .. d
  PROVE  (r * k) \div d \in 0 .. r
<1>1. 0 <= r * k /\ r * k <= r * d /\ r * k \in Int /\ r * d \in Int
  <2>1. r * 0 <= r * k /\ r * k <= r * d
    BY ProductKeepsOrder
  <2> QED
    BY <2>1, ProductKeepsOrder
<1>2. CASE d = 13
  BY <1>1, <1>2
<1>3. CASE d = 25
  BY <1>1, <1>3
<1>4. CASE d = 30
  BY <1>1, <1>4
<1> QED
  BY <1>2, <1>3, <1>4

\* The limits of the two mixers: each has a range, software is never above 0, and with a maximum
\* the two together end there.
LEMMA LimitsRight ==
  ASSUME NEW s \in Settings, NEW l, l = Level!Limits(s)
  PROVE  /\ l.mode \in {"hardware", "software", "both"}
         /\ l.mode = "software" <=> s.range = <<>>
         /\ l.hwMin \in Int /\ l.hwMax \in Int /\ l.hwMin <= l.hwMax
         /\ l.swMin \in Int /\ l.swMax \in Int
         /\ l.mode /= "hardware" => l.swMin <= l.swMax /\ l.swMax <= 0
         /\ s.range /= <<>> => s.range[1] <= l.hwMin /\ l.hwMax <= s.range[2]
         /\ s.range = <<>> /\ s.limited /\ s.max <= 0 => l.swMax = Level!Whole(s.max)
         /\ s.range /= <<>> /\ s.limited /\ s.max <= 0 /\ s.wanted > 0 =>
              IF l.mode = "both" THEN l.hwMax + l.swMax <= Level!Whole(s.max)
              ELSE l.hwMax <= Level!Whole(s.max)
<1>1. /\ s.max \in Int /\ s.limited \in BOOLEAN /\ s.wanted \in Nat
      /\ s.range /= <<>> =>
           /\ s.range[1] \in Int /\ s.range[2] \in Int /\ s.range[1] <= s.range[2]
           /\ s.limited /\ s.max \in s.range[1] .. s.range[2] =>
                Level!Whole(s.max) \in s.range[1] .. s.range[2]
           /\ s.limited /\ s.wanted > 0 => s.max \in s.range[1] + Level!Floor .. s.range[2]
      /\ s.range = <<>> /\ s.limited => s.max >= Level!Floor
  BY VolumeAssumption
<1>2. Level!Floor = -9630
  BY DEF Level!Floor
<1>3. PICK whole : whole = Level!Whole(s.max)
  OBVIOUS
<1>4. whole \in Int /\ (s.max <= 0 => s.max <= whole /\ whole <= 0)
  BY <1>1, <1>3, WholeIsLess
<1>5. CASE s.range = <<>>
  <2>1. l = Level!SoftwareOnly(s)
    BY <1>5 DEF Level!Limits
  <2>2. PICK top : top = IF s.limited /\ s.max <= 0 /\ s.max >= -9630 THEN whole ELSE 0
    OBVIOUS
  <2>3. top \in Int /\ top <= 0 /\ top >= -9630
    BY <1>1, <1>4, <2>2
  <2>4. /\ l.mode = "software" /\ l.hwMin = 0 /\ l.hwMax = 0 /\ l.swMax = top
        /\ l.swMin = IF s.wanted > 0 /\ s.wanted <= top + 9630 THEN top - s.wanted ELSE -9630
    BY <1>2, <1>3, <2>1, <2>2, <2>3, <1>1 DEF Level!SoftwareOnly
  <2> QED
    BY <1>1, <1>2, <1>3, <1>4, <1>5, <2>2, <2>3, <2>4
<1>6. CASE s.range /= <<>>
  <2>1. l = Level!WithHardware(s)
    BY <1>6 DEF Level!Limits
  <2>2. PICK low, high : low = s.range[1] /\ high = s.range[2]
    OBVIOUS
  <2>3. /\ low \in Int /\ high \in Int /\ low <= high
        /\ s.limited /\ s.max \in low .. high => whole \in low .. high
        /\ s.limited /\ s.wanted > 0 => s.max \in low - 9630 .. high
    BY <1>1, <1>2, <1>3, <1>6, <2>2
  <2> DEFINE within == s.limited /\ s.max <= high /\ s.max >= low
             outside == s.limited /\ ~within /\ s.wanted > 0
  <2>4. PICK hwMax : hwMax = IF within THEN whole ELSE IF outside THEN low ELSE high
    OBVIOUS
  <2>5. PICK swMax : swMax = IF outside THEN s.max - low ELSE 0
    OBVIOUS
  <2>6. PICK rest : rest = s.wanted - (hwMax - low)
    OBVIOUS
  <2> DEFINE both == s.wanted > 0 /\ rest > 0
  <2>7. l = [mode |-> IF both THEN "both" ELSE "hardware", hwMax |-> hwMax,
             hwMin |-> IF s.wanted > 0 /\ ~both THEN hwMax - s.wanted ELSE low,
             swMax |-> swMax,
             swMin |-> IF both /\ swMax - rest >= -9630 THEN swMax - rest ELSE -9630]
    BY <1>2, <1>3, <2>1, <2>2, <2>4, <2>5, <2>6 DEF Level!WithHardware
  <2>8. /\ hwMax \in Int /\ low <= hwMax /\ hwMax <= high
        /\ swMax \in Int /\ swMax <= 0 /\ swMax >= -9630 /\ rest \in Int
    BY <1>1, <1>4, <2>3, <2>4, <2>5, <2>6
  <2>9. s.limited /\ s.max <= 0 /\ s.wanted > 0 =>
          hwMax + swMax <= whole /\ (~both => hwMax <= whole)
    BY <1>1, <1>4, <2>3, <2>4, <2>5, <2>6
  <2>10. /\ l.mode = IF both THEN "both" ELSE "hardware"
         /\ l.hwMax = hwMax /\ l.swMax = swMax
         /\ l.hwMin = IF s.wanted > 0 /\ ~both THEN hwMax - s.wanted ELSE low
         /\ l.swMin = IF both /\ swMax - rest >= -9630 THEN swMax - rest ELSE -9630
    BY <2>7
  <2>11. l.hwMin \in Int /\ low <= l.hwMin /\ l.hwMin <= hwMax
    BY <1>1, <2>3, <2>6, <2>8, <2>10
  <2>12. l.swMin \in Int /\ (both => l.swMin <= swMax)
    BY <1>1, <2>6, <2>8, <2>10
  <2> QED
    BY <1>3, <1>6, <2>2, <2>8, <2>9, <2>10, <2>11, <2>12
<1> QED
  BY <1>5, <1>6

\* The lowest of the lines of the standard profile is between 0 and the whole range, and a higher
\* volume is never softer.
LEMMA LineFalls ==
  ASSUME NEW start \in {0, -5, -17}, NEW end \in Nat, NEW v \in -30 .. 0, NEW w \in -30 .. 0, v <= w
  PROVE  /\ Level!Line(start, end, v) \in -end .. 0
         /\ Level!Line(start, end, w) \in -end .. 0
         /\ Level!Line(start, end, v) <= Level!Line(start, end, w)
<1>1. 30 + start \in {13, 25, 30}
  OBVIOUS
<1>2. ASSUME NEW u \in -30 .. 0
      PROVE  Level!Line(start, end, u) \in -end .. 0
  <2>1. CASE u > start
    BY <2>1 DEF Level!Line
  <2>2. CASE ~(u > start)
    <3>1. start - u \in 0 .. (30 + start)
      BY <2>2
    <3>2. (end * (start - u)) \div (30 + start) \in 0 .. end
      BY <1>1, <3>1, PartOf
    <3>3. Level!Line(start, end, u) = -((end * (start - u)) \div (30 + start))
      BY <2>2 DEF Level!Line
    <3> HIDE DEF Level!Line
    <3> QED
      BY <3>2, <3>3
  <2> QED
    BY <2>1, <2>2
<1>3. CASE w > start
  <2>1. Level!Line(start, end, w) = 0
    BY <1>3 DEF Level!Line
  <2> QED
    BY <1>2, <2>1
<1>4. CASE ~(w > start)
  <2>1. end * (start - w) <= end * (start - v) /\ end * (start - w) \in Int
          /\ end * (start - v) \in Int
    BY ProductKeepsOrder
  <2>2. PICK p \in Int, q \in Int : p = end * (start - w) /\ q = end * (start - v) /\ p <= q
    BY <2>1
  <2>3. p \div (30 + start) <= q \div (30 + start)
          /\ p \div (30 + start) \in Int /\ q \div (30 + start) \in Int
    BY <1>1, <2>2, QuotientKeepsOrder
  <2>4. ~(v > start)
    BY <1>4
  <2>5. /\ Level!Line(start, end, w) = -(p \div (30 + start))
        /\ Level!Line(start, end, v) = -(q \div (30 + start))
    BY <1>4, <2>2, <2>4, Zenon DEF Level!Line
  <2>6. Level!Line(start, end, v) <= Level!Line(start, end, w)
    BY <2>3, <2>5
  <2> QED
    BY <1>2, <2>6
<1> QED
  BY <1>3, <1>4

LEMMA StandardProfile ==
  ASSUME NEW max \in Int, NEW min \in Int, min <= max,
         NEW v \in -30 .. 0, NEW w \in -30 .. 0, v <= w
  PROVE  /\ Level!vol2attn(v, max, min) \in min .. max
         /\ Level!vol2attn(v, max, min) <= Level!vol2attn(w, max, min)
<1>1. PICK r \in Nat, h \in Nat, t \in Nat :
        r = max - min /\ h = r \div 2 /\ t = (3 * r) \div 4 /\ h <= r /\ t <= r
  <2>1. PICK r \in Nat : r = max - min
    OBVIOUS
  <2>2. r \div 2 \in Nat /\ (3 * r) \div 4 \in Nat /\ r \div 2 <= r /\ (3 * r) \div 4 <= r
    OBVIOUS
  <2> QED
    BY <2>1, <2>2
<1>2. PICK a1, b1 : a1 = Level!Line(0, h, v) /\ b1 = Level!Line(0, h, w)
  OBVIOUS
<1>3. PICK a2, b2 : a2 = Level!Line(-5, t, v) /\ b2 = Level!Line(-5, t, w)
  OBVIOUS
<1>4. PICK a3, b3 : a3 = Level!Line(-17, r, v) /\ b3 = Level!Line(-17, r, w)
  OBVIOUS
<1>5. a1 \in -h .. 0 /\ b1 \in -h .. 0 /\ a1 <= b1
  BY <1>2, LineFalls
<1>6. a2 \in -t .. 0 /\ b2 \in -t .. 0 /\ a2 <= b2
  BY <1>3, LineFalls
<1>7. a3 \in -r .. 0 /\ b3 \in -r .. 0 /\ a3 <= b3
  BY <1>4, LineFalls
<1>8. Level!vol2attn(v, max, min) = max + Level!Smaller(a1, Level!Smaller(a2, a3))
  BY <1>1, <1>2, <1>3, <1>4, Zenon DEF Level!vol2attn
<1>9. Level!vol2attn(w, max, min) = max + Level!Smaller(b1, Level!Smaller(b2, b3))
  BY <1>1, <1>2, <1>3, <1>4, Zenon DEF Level!vol2attn
<1> QED
  BY <1>1, <1>5, <1>6, <1>7, <1>8, <1>9 DEF Level!Smaller

LEMMA FlatPart ==
  ASSUME NEW r \in Nat, NEW v \in -30 .. 0, NEW w \in -30 .. 0, v <= w
  PROVE  /\ (r * (30 + v)) \div 30 \in 0 .. r
         /\ (r * (30 + w)) \div 30 \in 0 .. r
         /\ (r * (30 + v)) \div 30 <= (r * (30 + w)) \div 30
<1>1. (r * (30 + v)) \div 30 \in 0 .. r /\ (r * (30 + w)) \div 30 \in 0 .. r
  <2>1. 30 + v \in 0 .. 30 /\ 30 + w \in 0 .. 30
    OBVIOUS
  <2> QED
    BY <2>1, PartOf
<1>2. r * (30 + v) <= r * (30 + w) /\ r * (30 + v) \in Int /\ r * (30 + w) \in Int
  BY ProductKeepsOrder
<1>3. (r * (30 + v)) \div 30 <= (r * (30 + w)) \div 30
  BY <1>2, QuotientKeepsOrder
<1> QED
  BY <1>1, <1>3

LEMMA FlatProfile ==
  ASSUME NEW max \in Int, NEW min \in Int, min <= max,
         NEW v \in -30 .. 0, NEW w \in -30 .. 0, v <= w
  PROVE  /\ Level!flat_vol2attn(v, max, min) \in min .. max
         /\ Level!flat_vol2attn(v, max, min) <= Level!flat_vol2attn(w, max, min)
<1>1. PICK r \in Nat : r = max - min
  OBVIOUS
<1>2. PICK p, q : p = (r * (30 + v)) \div 30 /\ q = (r * (30 + w)) \div 30
  OBVIOUS
<1>3. p \in 0 .. r /\ q \in 0 .. r /\ p <= q
  BY <1>2, FlatPart
<1>4. Level!flat_vol2attn(v, max, min) = p + min /\ Level!flat_vol2attn(w, max, min) = q + min
  BY <1>1, <1>2, Zenon DEF Level!flat_vol2attn
<1> QED
  BY <1>1, <1>3, <1>4

LEMMA TaperedProfile ==
  ASSUME NEW max \in Int, NEW min \in Int, min <= max,
         NEW v \in -30 .. 0, NEW w \in -30 .. 0, v <= w,
         Taper[v] \in Int, Taper[w] \in Int, Taper[v] <= Taper[w]
  PROVE  /\ Level!dasl_tapered_vol2attn(v, max, min) \in min .. max
         /\ Level!dasl_tapered_vol2attn(v, max, min) <= Level!dasl_tapered_vol2attn(w, max, min)
<1>1. PICK r \in Nat : r = max - min
  OBVIOUS
<1>2. PICK p, q : p = (r * (30 + v)) \div 30 /\ q = (r * (30 + w)) \div 30
  OBVIOUS
<1>3. p \in 0 .. r /\ q \in 0 .. r /\ p <= q
  BY <1>2, FlatPart
<1>4. Level!dasl_tapered_vol2attn(v, max, min)
        = IF v = -30 THEN min ELSE Level!Smaller(max, Level!Larger(max + Taper[v], min + p))
  BY <1>1, <1>2, Zenon DEF Level!dasl_tapered_vol2attn
<1>5. Level!dasl_tapered_vol2attn(w, max, min)
        = IF w = -30 THEN min ELSE Level!Smaller(max, Level!Larger(max + Taper[w], min + q))
  BY <1>1, <1>2, Zenon DEF Level!dasl_tapered_vol2attn
<1> QED
  BY <1>1, <1>3, <1>4, <1>5 DEF Level!Smaller, Level!Larger

\* Whatever the profile, an attenuation is within the limits, and a higher volume never softer.
LEMMA ScaledRight ==
  ASSUME NEW s \in Settings, NEW v \in -30 .. 0, NEW w \in -30 .. 0, v <= w,
         Taper[v] \in Int, Taper[w] \in Int, Taper[v] <= Taper[w]
  PROVE  /\ Level!Scaled(s, v) \in Level!MinOf(Level!Limits(s)) .. Level!MaxOf(Level!Limits(s))
         /\ Level!Scaled(s, v) <= Level!Scaled(s, w)
<1>1. PICK l : l = Level!Limits(s)
  OBVIOUS
<1>2. PICK max, min : max = Level!MaxOf(l) /\ min = Level!MinOf(l)
  OBVIOUS
<1>3. max \in Int /\ min \in Int /\ min <= max
  BY <1>1, <1>2, LimitsRight DEF Level!MaxOf, Level!MinOf
<1>4. s.ignored \in BOOLEAN /\ s.profile \in {"standard", "flat", "dasl_tapered"}
  BY VolumeAssumption
<1>5. CASE s.ignored
  <2>1. Level!Scaled(s, v) = max /\ Level!Scaled(s, w) = max
    BY <1>1, <1>2, <1>5 DEF Level!Scaled
  <2> QED
    BY <1>1, <1>2, <1>3, <2>1
<1>6. CASE ~s.ignored /\ s.profile = "standard"
  <2>1. /\ Level!Scaled(s, v) = Level!vol2attn(v, max, min)
        /\ Level!Scaled(s, w) = Level!vol2attn(w, max, min)
    BY <1>1, <1>2, <1>6 DEF Level!Scaled
  <2> QED
    BY <1>1, <1>2, <1>3, <2>1, StandardProfile
<1>7. CASE ~s.ignored /\ s.profile = "flat"
  <2>1. /\ Level!Scaled(s, v) = Level!flat_vol2attn(v, max, min)
        /\ Level!Scaled(s, w) = Level!flat_vol2attn(w, max, min)
    BY <1>1, <1>2, <1>7 DEF Level!Scaled
  <2> QED
    BY <1>1, <1>2, <1>3, <2>1, FlatProfile
<1>8. CASE ~s.ignored /\ s.profile = "dasl_tapered"
  <2>1. /\ Level!Scaled(s, v) = Level!dasl_tapered_vol2attn(v, max, min)
        /\ Level!Scaled(s, w) = Level!dasl_tapered_vol2attn(w, max, min)
    BY <1>1, <1>2, <1>8 DEF Level!Scaled
  <2> QED
    BY <1>1, <1>2, <1>3, <2>1, TaperedProfile
<1> QED
  BY <1>4, <1>5, <1>6, <1>7, <1>8

\* An attenuation within the limits is shared out without loss, and within what each mixer has.
LEMMA SharesRight ==
  ASSUME NEW s \in Settings, NEW l, l = Level!Limits(s),
         NEW a \in Level!MinOf(l) .. Level!MaxOf(l),
         NEW h, h = Level!HardwareShare(s, a), NEW f, f = Level!SoftwareShare(s, a)
  PROVE  /\ h \in Int /\ f \in Int /\ f <= 0
         /\ s.range /= <<>> => s.range[1] <= h /\ h <= s.range[2]
         /\ (IF l.mode = "both" THEN h + f - l.hwMin - l.swMin
             ELSE IF l.mode = "hardware" THEN h ELSE f) = a
         /\ s.limited /\ s.max <= 0 /\ (s.range = <<>> \/ s.wanted > 0) =>
              h + f <= Level!Whole(s.max)
<1>1. /\ l.mode \in {"hardware", "software", "both"}
      /\ l.mode = "software" <=> s.range = <<>>
      /\ l.hwMin \in Int /\ l.hwMax \in Int /\ l.hwMin <= l.hwMax
      /\ l.swMin \in Int /\ l.swMax \in Int
      /\ l.mode /= "hardware" => l.swMin <= l.swMax /\ l.swMax <= 0
      /\ s.range /= <<>> => s.range[1] <= l.hwMin /\ l.hwMax <= s.range[2]
      /\ s.range = <<>> /\ s.limited /\ s.max <= 0 => l.swMax = Level!Whole(s.max)
      /\ s.range /= <<>> /\ s.limited /\ s.max <= 0 /\ s.wanted > 0 =>
           IF l.mode = "both" THEN l.hwMax + l.swMax <= Level!Whole(s.max)
           ELSE l.hwMax <= Level!Whole(s.max)
  BY LimitsRight
<1>2. /\ s.hwFirst \in BOOLEAN /\ s.max \in Int
      /\ s.range /= <<>> => s.range[1] \in Int /\ s.range[2] \in Int
  BY VolumeAssumption
<1>3. PICK whole \in Int : whole = Level!Whole(s.max)
  BY <1>2, WholeIsLess
<1>4. CASE l.mode = "hardware"
  <2>1. h = a /\ f = 0 /\ a \in l.hwMin .. l.hwMax
    BY <1>4 DEF Level!HardwareShare, Level!SoftwareShare, Level!MinOf, Level!MaxOf
  <2> QED
    BY <1>1, <1>2, <1>3, <1>4, <2>1
<1>5. CASE l.mode = "software"
  <2>1. h = 0 /\ f = a /\ a \in l.swMin .. l.swMax
    BY <1>5 DEF Level!HardwareShare, Level!SoftwareShare, Level!MinOf, Level!MaxOf
  <2> QED
    BY <1>1, <1>2, <1>3, <1>5, <2>1
<1>6. CASE l.mode = "both"
  <2>1. a \in 0 .. (l.hwMax - l.hwMin) + (l.swMax - l.swMin)
    BY <1>6 DEF Level!MinOf, Level!MaxOf
  <2>2. /\ s.hwFirst =>
             /\ h = l.hwMin + Level!Larger(0, a - (l.swMax - l.swMin))
             /\ f = l.swMin + Level!Smaller(a, l.swMax - l.swMin)
        /\ ~s.hwFirst =>
             /\ h = l.hwMin + Level!Smaller(a, l.hwMax - l.hwMin)
             /\ f = l.swMin + Level!Larger(0, a - (l.hwMax - l.hwMin))
    BY <1>6 DEF Level!HardwareShare, Level!SoftwareShare
  <2>3. PICK hn \in Int, hx \in Int, sn \in Int, sx \in Int :
          hn = l.hwMin /\ hx = l.hwMax /\ sn = l.swMin /\ sx = l.swMax
    BY <1>1
  <2>4. hn <= hx /\ sn <= sx /\ sx <= 0 /\ a \in Int /\ 0 <= a /\ a <= (hx - hn) + (sx - sn)
    BY <1>1, <1>6, <2>1, <2>3
  <2>5. h \in hn .. hx /\ f \in sn .. sx /\ h + f = a + hn + sn
    <3>1. CASE s.hwFirst
      <4>1. /\ h = hn + (IF 0 >= a - (sx - sn) THEN 0 ELSE a - (sx - sn))
            /\ f = sn + (IF a <= sx - sn THEN a ELSE sx - sn)
        BY <2>2, <2>3, <3>1 DEF Level!Larger, Level!Smaller
      <4> QED
        BY <2>4, <4>1
    <3>2. CASE ~s.hwFirst
      <4>1. /\ h = hn + (IF a <= hx - hn THEN a ELSE hx - hn)
            /\ f = sn + (IF 0 >= a - (hx - hn) THEN 0 ELSE a - (hx - hn))
        BY <2>2, <2>3, <3>2 DEF Level!Larger, Level!Smaller
      <4> QED
        BY <2>4, <4>1
    <3> QED
      BY <3>1, <3>2
  <2>6. h \in Int /\ f \in Int /\ f <= 0 /\ h + f - hn - sn = a /\ h + f <= hx + sx
    BY <2>4, <2>5
  <2>7. s.range /= <<>>
    BY <1>1, <1>6
  <2>8. s.range[1] <= h /\ h <= s.range[2]
    <3>1. PICK low \in Int, high \in Int : low = s.range[1] /\ high = s.range[2]
      BY <1>2, <2>7
    <3>2. low <= hn /\ hx <= high
      BY <1>1, <2>3, <2>7, <3>1
    <3>3. low <= h /\ h <= high
      BY <2>5, <3>2
    <3> QED
      BY <3>1, <3>3
  <2>9. s.limited /\ s.max <= 0 /\ (s.range = <<>> \/ s.wanted > 0) => h + f <= whole
    <3>1. SUFFICES ASSUME s.limited, s.max <= 0, s.wanted > 0
                   PROVE  h + f <= whole
      BY <2>7
    <3>2. l.hwMax + l.swMax <= Level!Whole(s.max)
      BY <1>1, <1>6, <2>7, <3>1
    <3>3. hx + sx <= whole
      BY <1>3, <2>3, <3>2
    <3> QED
      BY <2>6, <3>3
  <2> QED
    BY <1>3, <1>6, <2>3, <2>6, <2>8, <2>9
<1> QED
  BY <1>1, <1>4, <1>5, <1>6

\* For every configuration: levels are in order, and none is above the maximum.
LEMMA LevelsAreRight ==
  ASSUME setting \in Settings
  PROVE  Level!LevelsInOrder /\ Level!MaximumKept
<1>1. ASSUME NEW v \in Requests, NEW w \in Requests, v <= w
      PROVE  /\ v \in -30 .. 0 /\ w \in -30 .. 0
             /\ Taper[v] \in Int /\ Taper[w] \in Int /\ Taper[v] <= Taper[w]
  BY <1>1, VolumeAssumption
<1>2. ASSUME NEW v \in Requests, NEW w \in Requests, v <= w
      PROVE  /\ Level!Scaled(setting, v)
                  \in Level!MinOf(Level!Limits(setting)) .. Level!MaxOf(Level!Limits(setting))
             /\ Level!Scaled(setting, v) <= Level!Scaled(setting, w)
  BY <1>1, <1>2, ScaledRight
<1>3. ASSUME NEW v \in Requests
      PROVE  Level!Scaled(setting, v)
               \in Level!MinOf(Level!Limits(setting)) .. Level!MaxOf(Level!Limits(setting))
  <2>1. v <= v
    BY VolumeAssumption
  <2> QED
    BY <1>2, <2>1
<1>4. Level!LevelsInOrder
  <2> SUFFICES ASSUME NEW v \in Requests
               PROVE  LET l == Level!Limits(setting)
                          a == Level!Scaled(setting, v)
                      IN  /\ \A w \in Requests : v <= w => a <= Level!Scaled(setting, w)
                          /\ Level!MinOf(l) <= a /\ a <= Level!MaxOf(l)
                          /\ Level!SoftwareShare(setting, a) <= 0
                          /\ setting.range /= <<>> =>
                               /\ setting.range[1] <= Level!HardwareShare(setting, a)
                               /\ Level!HardwareShare(setting, a) <= setting.range[2]
    BY Zenon DEF Level!LevelsInOrder
  <2>1. PICK l, a : l = Level!Limits(setting) /\ a = Level!Scaled(setting, v)
    OBVIOUS
  <2>2. a \in Level!MinOf(l) .. Level!MaxOf(l)
    BY <1>3, <2>1
  <2>3. Level!MinOf(l) <= a /\ a <= Level!MaxOf(l)
    BY <2>2
  <2>4. /\ Level!SoftwareShare(setting, a) <= 0
        /\ setting.range /= <<>> =>
             /\ setting.range[1] <= Level!HardwareShare(setting, a)
             /\ Level!HardwareShare(setting, a) <= setting.range[2]
    BY <2>1, <2>2, SharesRight
  <2>5. \A w \in Requests : v <= w => a <= Level!Scaled(setting, w)
    BY <1>2, <2>1
  <2> QED
    BY <2>1, <2>3, <2>4, <2>5, Zenon
<1>5. Level!MaximumKept
  <2> SUFFICES ASSUME setting.limited, setting.max <= 0,
                      setting.range = <<>> \/ setting.wanted > 0, NEW v \in Requests
               PROVE  LET a == Level!Scaled(setting, v)
                      IN  Level!HardwareShare(setting, a) + Level!SoftwareShare(setting, a)
                            <= Level!Whole(setting.max)
    BY Zenon DEF Level!MaximumKept
  <2>1. PICK l, a : l = Level!Limits(setting) /\ a = Level!Scaled(setting, v)
    OBVIOUS
  <2>2. a \in Level!MinOf(l) .. Level!MaxOf(l)
    BY <1>3, <2>1
  <2>3. Level!HardwareShare(setting, a) + Level!SoftwareShare(setting, a)
          <= Level!Whole(setting.max)
    BY <2>1, <2>2, SharesRight
  <2> QED
    BY <2>1, <2>3, Zenon
<1> QED
  BY <1>4, <1>5

\* A volume is one that a source asks for, or the one that there is at first.
LevelVolumes == Level!RequestOrMute \cup {Loudest}

LevelTypes ==
  /\ Level!VolumeTypeOK
  /\ setting \in Settings
  /\ own_airplay_volume_set \in [Connections -> BOOLEAN]
  /\ \A c \in Connections : own_airplay_volume_set[c] => own_airplay_volume[c] \in LevelVolumes
  /\ asked \in [Connections -> LevelVolumes]
  /\ player = "beginning" => initial \in LevelVolumes
  /\ player = "none" <=> principal = Nobody

\* What is remembered of a connection is what was asked for on it.
OwnIsAsked ==
  \A c \in Connections : own_airplay_volume_set[c] => own_airplay_volume[c] = asked[c]

\* The volume that was looked up is still the one asked for, unless a request came since.
BeginsAsAsked == player = "beginning" => initial = asked[principal]

\* With the control ignored nothing is ever muted.
IgnoredIsNotMuted ==
  setting.ignored =>
    hardware_mute = FALSE /\ \A c \in Connections : software_mute_enabled[c] = FALSE

LevelInv ==
  /\ LevelTypes
  /\ Apart => OwnIsAsked /\ BeginsAsAsked /\ IgnoredIsNotMuted /\ Level!AskedIsHeard

\* Nothing plays at first.
LEMMA LevelStart == Level!VolumeInit => LevelInv
<1> SUFFICES ASSUME Level!VolumeInit
             PROVE  LevelInv
  OBVIOUS
<1>1. /\ setting \in Settings /\ airplay_volume = Loudest
      /\ own_airplay_volume = [c \in Connections |-> 0]
      /\ own_airplay_volume_set = [c \in Connections |-> FALSE]
      /\ principal = Nobody /\ player = "none" /\ initial = 0
      /\ hardware = 0 /\ software = 0
      /\ hardware_mute = FALSE /\ software_mute_enabled = [c \in Connections |-> FALSE]
      /\ asked = [c \in Connections |-> Loudest]
  BY Zenon DEF Level!VolumeInit
<1>2. LevelTypes
  <2>1. Level!VolumeTypeOK
    <3>1. /\ own_airplay_volume \in [Connections -> Level!RequestOrMute \cup {Loudest, 0}]
          /\ hardware \in Int /\ software \in Int
      BY <1>1
    <3>2. hardware_mute \in BOOLEAN /\ software_mute_enabled \in [Connections -> BOOLEAN]
      BY <1>1, Zenon
    <3>3. /\ airplay_volume \in Level!RequestOrMute \cup {Loudest}
          /\ principal \in Connections \cup {Nobody} /\ player \in {"none", "beginning", "playing"}
      BY <1>1, Zenon
    <3> QED
      BY <3>1, <3>2, <3>3, Zenon DEF Level!VolumeTypeOK
  <2>2. /\ own_airplay_volume_set \in [Connections -> BOOLEAN]
        /\ \A c \in Connections : own_airplay_volume_set[c] => own_airplay_volume[c] \in LevelVolumes
    BY <1>1
  <2>3. asked \in [Connections -> LevelVolumes]
    BY <1>1 DEF LevelVolumes
  <2> QED
    BY <1>1, <2>1, <2>2, <2>3 DEF LevelTypes
<1>3. OwnIsAsked /\ BeginsAsAsked
  BY <1>1 DEF OwnIsAsked, BeginsAsAsked
<1>4. IgnoredIsNotMuted
  BY <1>1 DEF IgnoredIsNotMuted
<1>5. Level!AskedIsHeard
  BY <1>1 DEF Level!AskedIsHeard
<1> QED
  BY <1>2, <1>3, <1>4, <1>5, Zenon DEF LevelInv

\* A volume that is not a mute is of the control's range.
LEMMA VolumeInRange ==
  ASSUME NEW v \in LevelVolumes, v /= Level!Mute
  PROVE  v \in -30 .. 0 /\ Taper[v] \in Int
BY VolumeAssumption DEF LevelVolumes, Level!RequestOrMute, Level!Mute

\* Setting a volume that is not a mute gives what was asked for.
LEMMA SetIsHeard ==
  ASSUME NEW s \in Settings, NEW v \in LevelVolumes, v /= Level!Mute,
         NEW l, l = Level!Limits(s), NEW a, a = Level!Scaled(s, v),
         NEW h \in Int, NEW f, f = Level!SoftwareShare(s, a),
         s.range /= <<>> => h = Level!HardwareShare(s, a)
  PROVE  /\ f \in Int
         /\ (IF l.mode = "both" THEN h + f - l.hwMin - l.swMin
             ELSE IF l.mode = "hardware" THEN h ELSE f) = a
<1>1. v \in -30 .. 0 /\ Taper[v] \in Int
  BY VolumeInRange
<1>2. v <= v /\ Taper[v] <= Taper[v]
  BY <1>1
<1>3. a \in Level!MinOf(l) .. Level!MaxOf(l)
  BY <1>1, <1>2, ScaledRight
<1>4. PICK g : g = Level!HardwareShare(s, a)
  OBVIOUS
<1>5. /\ g \in Int /\ f \in Int
      /\ (IF l.mode = "both" THEN g + f - l.hwMin - l.swMin
          ELSE IF l.mode = "hardware" THEN g ELSE f) = a
  BY <1>3, <1>4, SharesRight
<1>6. l.mode = "software" <=> s.range = <<>>
  BY LimitsRight
<1> QED
  BY <1>4, <1>5, <1>6

\* The device's mixer gets a whole number.
LEMMA HardwareIsInt ==
  ASSUME NEW s \in Settings, NEW v \in LevelVolumes, v /= Level!Mute
  PROVE  Level!HardwareShare(s, Level!Scaled(s, v)) \in Int
<1>1. v \in -30 .. 0 /\ Taper[v] \in Int
  BY VolumeInRange
<1>2. v <= v /\ Taper[v] <= Taper[v]
  BY <1>1
<1>3. PICK l, a : l = Level!Limits(s) /\ a = Level!Scaled(s, v)
  OBVIOUS
<1>4. a \in Level!MinOf(l) .. Level!MaxOf(l)
  BY <1>1, <1>2, <1>3, ScaledRight
<1>5. Level!HardwareShare(s, a) \in Int
  BY <1>3, <1>4, SharesRight
<1> QED
  BY <1>3, <1>5, Zenon

\* player_volume_without_notification does as its connection's source asks.
LEMMA SetVolumeSets ==
  ASSUME LevelInv, NEW v \in LevelVolumes, Level!SetVolume(v), principal \in Connections,
         setting' = setting, principal' = principal
  PROVE  /\ airplay_volume' = v /\ own_airplay_volume' = [own_airplay_volume EXCEPT ![principal] = v]
         /\ hardware' \in Int /\ software' \in Int
         /\ hardware_mute' \in BOOLEAN /\ software_mute_enabled' \in [Connections -> BOOLEAN]
         /\ Apart => IgnoredIsNotMuted'
         /\ Apart /\ asked'[principal] = v => Level!AskedIsHeard'
<1>1. /\ setting \in Settings /\ hardware \in Int /\ software \in Int
      /\ hardware_mute \in BOOLEAN /\ software_mute_enabled \in [Connections -> BOOLEAN]
      /\ Apart => IgnoredIsNotMuted
  BY Zenon DEF LevelInv, LevelTypes, Level!VolumeTypeOK
<1>2. PICK s \in Settings : s = setting /\ s = setting'
  BY <1>1, Zenon
<1>3. PICK p \in Connections : p = principal /\ p = principal'
  BY Zenon
<1>4. /\ airplay_volume' = v
      /\ own_airplay_volume' = [own_airplay_volume EXCEPT ![p] = v]
      /\ v = Level!Mute =>
           /\ hardware' = hardware /\ software' = software
           /\ hardware_mute' = (hardware_mute \/ (~s.ignored /\ s.mute = "works"))
           /\ software_mute_enabled' = [software_mute_enabled EXCEPT
                ![p] = @ \/ (~s.ignored /\ s.mute /= "works")]
      /\ v /= Level!Mute =>
           /\ hardware' = IF s.range = <<>> THEN hardware
                          ELSE Level!HardwareShare(s, Level!Scaled(s, v))
           /\ software' = Level!SoftwareShare(s, Level!Scaled(s, v))
           /\ hardware_mute' = FALSE
           /\ software_mute_enabled' = [software_mute_enabled EXCEPT ![p] = FALSE]
  BY <1>2, <1>3, Zenon DEF Level!SetVolume
<1>5. CASE v = Level!Mute
  <2>1. hardware' \in Int /\ software' \in Int
    BY <1>1, <1>4, <1>5, Zenon
  <2>2. hardware_mute' \in BOOLEAN /\ software_mute_enabled' \in [Connections -> BOOLEAN]
    BY <1>1, <1>3, <1>4, <1>5, Zenon
  <2>3. ASSUME IgnoredIsNotMuted
        PROVE  IgnoredIsNotMuted'
    BY <1>1, <1>2, <1>4, <1>5, <2>3, Zenon DEF IgnoredIsNotMuted
  <2>4. ASSUME IgnoredIsNotMuted, asked'[principal] = v
        PROVE  Level!AskedIsHeard'
    <3>1. hardware_mute' \/ software_mute_enabled'[p] <=> ~s.ignored
      BY <1>1, <1>2, <1>3, <1>4, <1>5, <2>4, Zenon DEF IgnoredIsNotMuted
    <3> QED
      BY <1>2, <1>3, <1>5, <2>4, <3>1, Zenon DEF Level!AskedIsHeard
  <2> QED
    BY <1>1, <1>3, <1>4, <2>1, <2>2, <2>3, <2>4, Zenon
<1>6. CASE v /= Level!Mute
  <2>1. PICK l, a : l = Level!Limits(s) /\ a = Level!Scaled(s, v)
    OBVIOUS
  <2>2. hardware' \in Int /\ (s.range /= <<>> => hardware' = Level!HardwareShare(s, a))
    BY <1>1, <1>4, <1>6, <2>1, HardwareIsInt, Zenon
  <2>3. PICK h \in Int : h = hardware'
    BY <2>2, Zenon
  <2>4. PICK f : f = software'
    OBVIOUS
  <2>5. f = Level!SoftwareShare(s, a) /\ (s.range /= <<>> => h = Level!HardwareShare(s, a))
    BY <1>4, <1>6, <2>1, <2>2, <2>3, <2>4, Zenon
  <2>6. /\ f \in Int
        /\ (IF l.mode = "both" THEN h + f - l.hwMin - l.swMin
            ELSE IF l.mode = "hardware" THEN h ELSE f) = a
    BY <1>6, <2>1, <2>5, SetIsHeard
  <2>7. hardware_mute' \in BOOLEAN /\ software_mute_enabled' \in [Connections -> BOOLEAN]
    BY <1>1, <1>3, <1>4, <1>6, Zenon
  <2>8. ASSUME IgnoredIsNotMuted
        PROVE  IgnoredIsNotMuted'
    BY <1>1, <1>2, <1>4, <1>6, <2>8, Zenon DEF IgnoredIsNotMuted
  <2>9. ASSUME asked'[principal] = v
        PROVE  Level!AskedIsHeard'
    <3>1. ~(hardware_mute' \/ software_mute_enabled'[p])
      BY <1>1, <1>3, <1>4, <1>6, Zenon
    <3>2. (IF l.mode = "both" THEN hardware' + software' - l.hwMin - l.swMin
           ELSE IF l.mode = "hardware" THEN hardware' ELSE software') = a
      BY <2>3, <2>4, <2>6, Zenon
    <3> QED
      BY <1>2, <1>3, <1>6, <2>1, <2>9, <3>1, <3>2, Zenon DEF Level!AskedIsHeard
  <2> QED
    BY <1>1, <1>3, <1>4, <2>2, <2>4, <2>6, <2>7, <2>8, <2>9, Zenon
<1> QED
  BY <1>5, <1>6, Zenon

\* A request is remembered, and put into effect if its connection plays.
LEMMA RequestKept ==
  ASSUME LevelInv, NEW c \in Connections, NEW v \in Level!RequestOrMute, Level!Request(c, v)
  PROVE  LevelInv'
<1>1. /\ Apart => player /= "beginning"
      /\ asked' = [asked EXCEPT ![c] = v]
      /\ own_airplay_volume_set' = [own_airplay_volume_set EXCEPT ![c] = TRUE]
      /\ setting' = setting /\ principal' = principal /\ player' = player /\ initial' = initial
  BY Zenon DEF Level!Request
<1>2. /\ principal = c => Level!SetVolume(v)
      /\ principal /= c =>
           /\ own_airplay_volume' = [own_airplay_volume EXCEPT ![c] = v]
           /\ airplay_volume' = airplay_volume /\ hardware' = hardware /\ software' = software
           /\ hardware_mute' = hardware_mute /\ software_mute_enabled' = software_mute_enabled
  BY Zenon DEF Level!Request
<1>3. LevelTypes /\ Level!VolumeTypeOK
  BY Zenon DEF LevelInv, LevelTypes
<1>4. v \in LevelVolumes
  BY Zenon DEF LevelVolumes
<1>5. /\ own_airplay_volume' = [own_airplay_volume EXCEPT ![c] = v]
      /\ airplay_volume' \in LevelVolumes
      /\ hardware' \in Int /\ software' \in Int
      /\ hardware_mute' \in BOOLEAN /\ software_mute_enabled' \in [Connections -> BOOLEAN]
      /\ Apart => IgnoredIsNotMuted'
  <2>1. CASE principal = c
    BY <1>1, <1>2, <1>4, <2>1, SetVolumeSets, Zenon
  <2>2. CASE principal /= c
    <3>1. Apart => IgnoredIsNotMuted'
      BY <1>1, <1>2, <2>2, Zenon DEF LevelInv, IgnoredIsNotMuted
    <3> QED
      BY <1>2, <1>3, <2>2, <3>1, Zenon DEF Level!VolumeTypeOK, LevelVolumes
  <2> QED
    BY <2>1, <2>2, Zenon
<1>6. Apart => Level!AskedIsHeard'
  <2>1. CASE principal = c
    <3>1. asked'[principal] = v
      BY <1>1, <1>3, <2>1, Zenon DEF LevelTypes
    <3> QED
      BY <1>1, <1>2, <1>4, <2>1, <3>1, SetVolumeSets, Zenon
  <2>2. CASE principal /= c
    <3>1. player = "playing" => principal \in Connections
      <4>1. "playing" /= "none"
        OBVIOUS
      <4> QED
        BY <1>3, <4>1, Zenon DEF LevelTypes, Level!VolumeTypeOK
    <3>2. player = "playing" => asked'[principal] = asked[principal]
      BY <1>1, <1>3, <2>2, <3>1, Zenon DEF LevelTypes
    <3>3. /\ hardware' = hardware /\ software' = software
          /\ hardware_mute' = hardware_mute /\ software_mute_enabled' = software_mute_enabled
      BY <1>2, <2>2, Zenon
    <3>4. Level!AskedIsHeard => Level!AskedIsHeard'
      BY <1>1, <3>2, <3>3, Zenon DEF Level!AskedIsHeard
    <3> QED
      BY <3>4, Zenon DEF LevelInv
  <2> QED
    BY <2>1, <2>2, Zenon
<1>7. LevelTypes'
  <2>1. own_airplay_volume' \in [Connections -> Level!RequestOrMute \cup {Loudest, 0}]
    BY <1>3, <1>4, <1>5 DEF Level!VolumeTypeOK, LevelVolumes
  <2>2. Level!VolumeTypeOK'
    BY <1>1, <1>3, <1>5, <2>1, Zenon DEF Level!VolumeTypeOK, LevelVolumes
  <2>3. own_airplay_volume_set' \in [Connections -> BOOLEAN]
    BY <1>1, <1>3, Zenon DEF LevelTypes
  <2>4. \A d \in Connections : own_airplay_volume_set'[d] => own_airplay_volume'[d] \in LevelVolumes
    BY <1>1, <1>3, <1>4, <1>5, Zenon DEF LevelTypes, Level!VolumeTypeOK
  <2>5. asked' \in [Connections -> LevelVolumes]
    BY <1>1, <1>3, <1>4, Zenon DEF LevelTypes
  <2> QED
    BY <1>1, <1>3, <2>2, <2>3, <2>4, <2>5, Zenon DEF LevelTypes
<1>8. Apart => OwnIsAsked' /\ BeginsAsAsked'
  <2>1. OwnIsAsked => OwnIsAsked'
    BY <1>1, <1>3, <1>5, Zenon DEF OwnIsAsked, LevelTypes, Level!VolumeTypeOK
  <2>2. Apart => BeginsAsAsked'
    BY <1>1, Zenon DEF BeginsAsAsked
  <2> QED
    BY <2>1, <2>2, Zenon DEF LevelInv
<1> QED
  BY <1>5, <1>6, <1>7, <1>8, Zenon DEF LevelInv

\* The player's thread looks up the volume of its connection.
LEMMA LookUpKept ==
  ASSUME LevelInv, NEW c \in Connections, Level!LookUp(c)
  PROVE  LevelInv'
<1>1. /\ principal = Nobody /\ principal' = c /\ player' = "beginning"
      /\ initial' = IF own_airplay_volume_set[c] THEN own_airplay_volume[c] ELSE airplay_volume
      /\ asked' = IF own_airplay_volume_set[c] THEN asked ELSE [asked EXCEPT ![c] = airplay_volume]
      /\ setting' = setting /\ airplay_volume' = airplay_volume
      /\ own_airplay_volume' = own_airplay_volume
      /\ own_airplay_volume_set' = own_airplay_volume_set
      /\ hardware' = hardware /\ software' = software
      /\ hardware_mute' = hardware_mute /\ software_mute_enabled' = software_mute_enabled
  BY Zenon DEF Level!LookUp, Level!suggested_volume
<1>2. LevelTypes /\ Level!VolumeTypeOK
  BY Zenon DEF LevelInv, LevelTypes
<1>3. airplay_volume \in LevelVolumes
  BY <1>2, Zenon DEF Level!VolumeTypeOK, LevelVolumes
<1>4. "beginning" /= "none" /\ "beginning" /= "playing"
  OBVIOUS
<1>5. LevelTypes'
  <2>1. Level!VolumeTypeOK'
    BY <1>1, <1>2, Zenon DEF Level!VolumeTypeOK
  <2>2. asked' \in [Connections -> LevelVolumes] /\ initial' \in LevelVolumes
    BY <1>1, <1>2, <1>3, Zenon DEF LevelTypes
  <2>3. principal' /= Nobody
    BY <1>1, VolumeAssumption, Zenon
  <2> QED
    BY <1>1, <1>2, <1>4, <2>1, <2>2, <2>3, Zenon DEF LevelTypes
<1>6. ASSUME Apart
      PROVE  OwnIsAsked' /\ BeginsAsAsked' /\ IgnoredIsNotMuted' /\ Level!AskedIsHeard'
  <2>1. OwnIsAsked /\ IgnoredIsNotMuted
    BY <1>6, Zenon DEF LevelInv
  <2>2. OwnIsAsked'
    BY <1>1, <1>2, <2>1, Zenon DEF OwnIsAsked, LevelTypes
  <2>3. BeginsAsAsked'
    BY <1>1, <1>2, <2>1, Zenon DEF BeginsAsAsked, OwnIsAsked, LevelTypes
  <2>4. IgnoredIsNotMuted'
    BY <1>1, <2>1, Zenon DEF IgnoredIsNotMuted
  <2>5. Level!AskedIsHeard'
    BY <1>1, <1>4, Zenon DEF Level!AskedIsHeard
  <2> QED
    BY <2>2, <2>3, <2>4, <2>5, Zenon
<1> QED
  BY <1>5, <1>6, Zenon DEF LevelInv

\* It begins with that volume.
LEMMA BeginKept ==
  ASSUME LevelInv, Level!Begin
  PROVE  LevelInv'
<1>1. /\ player = "beginning" /\ player' = "playing" /\ Level!SetVolume(initial)
      /\ setting' = setting /\ own_airplay_volume_set' = own_airplay_volume_set
      /\ principal' = principal /\ initial' = initial /\ asked' = asked
  BY Zenon DEF Level!Begin
<1>2. LevelTypes /\ Level!VolumeTypeOK
  BY Zenon DEF LevelInv, LevelTypes
<1>3. "beginning" /= "none" /\ "playing" /= "none" /\ "playing" /= "beginning"
  OBVIOUS
<1>4. principal \in Connections
  BY <1>1, <1>2, <1>3, Zenon DEF LevelTypes, Level!VolumeTypeOK
<1>5. PICK v \in LevelVolumes : v = initial
  BY <1>1, <1>2, Zenon DEF LevelTypes
<1>6. Level!SetVolume(v)
  BY <1>1, <1>5, Zenon DEF Level!SetVolume
<1>7. /\ airplay_volume' = v
      /\ own_airplay_volume' = [own_airplay_volume EXCEPT ![principal] = v]
      /\ hardware' \in Int /\ software' \in Int
      /\ hardware_mute' \in BOOLEAN /\ software_mute_enabled' \in [Connections -> BOOLEAN]
      /\ Apart => IgnoredIsNotMuted'
      /\ Apart /\ asked'[principal] = v => Level!AskedIsHeard'
  BY <1>1, <1>4, <1>6, SetVolumeSets, Zenon
<1>8. LevelTypes'
  <2>1. own_airplay_volume' \in [Connections -> Level!RequestOrMute \cup {Loudest, 0}]
    BY <1>2, <1>7 DEF Level!VolumeTypeOK, LevelVolumes
  <2>2. Level!VolumeTypeOK'
    BY <1>1, <1>2, <1>7, <2>1, Zenon DEF Level!VolumeTypeOK, LevelVolumes
  <2>3. \A d \in Connections : own_airplay_volume_set'[d] => own_airplay_volume'[d] \in LevelVolumes
    BY <1>1, <1>2, <1>7, Zenon DEF LevelTypes, Level!VolumeTypeOK
  <2> QED
    BY <1>1, <1>2, <1>3, <2>2, <2>3, Zenon DEF LevelTypes
<1>9. ASSUME Apart
      PROVE  OwnIsAsked' /\ BeginsAsAsked' /\ Level!AskedIsHeard'
  <2>1. asked[principal] = v /\ OwnIsAsked
    BY <1>1, <1>5, <1>9, Zenon DEF LevelInv, BeginsAsAsked
  <2>2. OwnIsAsked'
    BY <1>1, <1>2, <1>4, <1>7, <2>1, Zenon DEF OwnIsAsked, LevelTypes, Level!VolumeTypeOK
  <2>3. BeginsAsAsked'
    BY <1>1, <1>3, Zenon DEF BeginsAsAsked
  <2> QED
    BY <1>1, <1>7, <1>9, <2>1, <2>2, <2>3, Zenon
<1> QED
  BY <1>7, <1>8, <1>9, Zenon DEF LevelInv

\* The end of a play: nothing is heard.
LEMMA EndKept ==
  ASSUME LevelInv, Level!End
  PROVE  LevelInv'
<1>1. /\ principal' = Nobody /\ player' = "none"
      /\ setting' = setting /\ airplay_volume' = airplay_volume
      /\ own_airplay_volume' = own_airplay_volume
      /\ own_airplay_volume_set' = own_airplay_volume_set
      /\ hardware' = hardware /\ software' = software /\ asked' = asked
      /\ hardware_mute' = hardware_mute /\ software_mute_enabled' = software_mute_enabled
  BY Zenon DEF Level!End
<1>2. "none" /= "beginning" /\ "none" /= "playing"
  OBVIOUS
<1>3. LevelTypes'
  <2>1. Level!VolumeTypeOK'
    BY <1>1, Zenon DEF LevelInv, LevelTypes, Level!VolumeTypeOK
  <2> QED
    BY <1>1, <1>2, <2>1, Zenon DEF LevelInv, LevelTypes
<1>4. BeginsAsAsked' /\ Level!AskedIsHeard'
  BY <1>1, <1>2, Zenon DEF BeginsAsAsked, Level!AskedIsHeard
<1>5. Apart => OwnIsAsked' /\ IgnoredIsNotMuted'
  BY <1>1, Zenon DEF LevelInv, OwnIsAsked, IgnoredIsNotMuted
<1> QED
  BY <1>3, <1>4, <1>5, Zenon DEF LevelInv

\* Every step keeps the invariant.
LEMMA LevelKept ==
  ASSUME LevelInv, [Level!VolumeNext]_volumeVars
  PROVE  LevelInv'
<1>1. CASE \E c \in Connections, v \in Level!RequestOrMute : Level!Request(c, v)
  BY <1>1, RequestKept, Zenon
<1>2. CASE \E c \in Connections : Level!LookUp(c)
  BY <1>2, LookUpKept, Zenon
<1>3. CASE Level!Begin
  BY <1>3, BeginKept
<1>4. CASE Level!End
  BY <1>4, EndKept
<1>5. CASE UNCHANGED volumeVars
  <2>1. LevelTypes' <=> LevelTypes
    BY <1>5 DEF LevelTypes, Level!VolumeTypeOK, volumeVars
  <2>2. /\ OwnIsAsked' <=> OwnIsAsked
        /\ BeginsAsAsked' <=> BeginsAsAsked
        /\ IgnoredIsNotMuted' <=> IgnoredIsNotMuted
    BY <1>5 DEF OwnIsAsked, BeginsAsAsked, IgnoredIsNotMuted, volumeVars
  <2>3. Level!AskedIsHeard' <=> Level!AskedIsHeard
    BY <1>5 DEF Level!AskedIsHeard, volumeVars
  <2> QED
    BY <2>1, <2>2, <2>3, Zenon DEF LevelInv
<1> QED
  BY <1>1, <1>2, <1>3, <1>4, <1>5, Zenon DEF Level!VolumeNext

\* The invariant gives the types and, with requests apart from the beginning of a play, the levels.
LEMMA LevelRight == LevelInv => Level!VolumeTypeOK /\ (Apart => Level!VolumeRight)
BY LevelsAreRight, Zenon DEF LevelInv, LevelTypes, Level!VolumeRight

(***************************************************************************)
(* The rings of the back ends: frames in order, and none from before a     *)
(* flush                                                                   *)
(***************************************************************************)

\* The cell that is i places on from p in a ring of n.
CellOf(p, i, n) == IF p + i < n THEN p + i + 1 ELSE p + i - n + 1

\* o numbers from f on
Numbers(f, o) == [i \in 1 .. o |-> f + i - 1]

\* In a ring of n, the end e lies o places on from t; and q lies k places on from p.
Aligned(t, e, o, n) == e - t - o \in {n, 0, -n, -(2 * n)}
After(p, k, q, n) == q - p - k \in {0, -n}

\* A ring r with its pointers at t and e and an occupancy of o, into which the frames before f have
\* been put, holds the last o of them.
Holds(r, t, e, o, f) ==
  /\ Aligned(t, e, o, Len(r))
  /\ \A i \in 0 .. o - 1 : r[CellOf(t, i, Len(r))] = f - o + i

Callbacks == [at : {"idle", "copy", "hand", "done"}, asked : 0 .. MaxAsk, taken : Seq(Int)]
Clients ==
  [at : {"idle", "put", "uncork", "empty", "deactivate", "disconnect", "allocate", "first",
         "second", "told"},
   out : Int, before : Int, same : BOOLEAN, occupancy : Int]

RingTypes ==
  /\ Ring!RingTypeOK
  /\ cells \in Seq(Int) /\ Len(cells) \in Nat \ {0}
  /\ backend \in {"pulse", "pipewire", "jack"}
  /\ callback \in Callbacks /\ client \in Clients
  /\ queued \in Seq(Int) /\ flushed \in Int /\ handed \in Int
  /\ freed \in BOOLEAN /\ fault \in BOOLEAN /\ flush_please \in BOOLEAN

\* The ring holds what is to be heard.
StoreInv ==
  /\ Holds(cells, toq, eoq, audio_occupancy, fresh)
  /\ want = Numbers(fresh - audio_occupancy, audio_occupancy)

\* What has been handed over, or was flushed, was put in before what is in the ring.
PassedInv ==
  /\ handed < fresh - audio_occupancy
  /\ flushed < fresh
  /\ flush_please \/ flushed < fresh - audio_occupancy

\* What a callback c hands over is silence, or frames in order between h and f; JACK's callback is
\* one step.
Handing(c, h, f) ==
  /\ c.at = "hand" =>
       /\ Len(c.taken) \in 1 .. MaxAsk
       /\ \/ c.taken[Len(c.taken)] = 0
          \/ /\ c.taken = Numbers(c.taken[1], Len(c.taken))
             /\ h < c.taken[1] /\ c.taken[Len(c.taken)] < f
  /\ c.at /= "hand" => c.taken = <<>>
HandInv ==
  /\ Handing(callback, handed, fresh - audio_occupancy)
  /\ callback.at = "copy" /\ backend = "pipewire" => callback.asked >= 1
  /\ backend = "jack" => callback.at = "idle"

\* A ring that is freed is empty when it has to be.
FreeInv ==
  /\ freed <=> client.at \in {"disconnect", "allocate"}
  /\ EmptyOnly => ~fault /\ (freed => audio_occupancy = 0)

\* While nothing was given to the server or played, frames can only have gone from the ring to the
\* callback's hands; those in its hands when the occupancy was read are left out.
Measured(c, o, b, q) ==
  /\ c.at \in {"first", "second"} /\ c.same => c.before = q
  /\ c.at = "second" /\ c.same =>
       /\ c.occupancy - o - Len(b.taken) \in -MaxAsk .. 0
       /\ b.at /= "hand" => c.occupancy = o
  /\ c.at = "told" => c.out \in -MaxAsk .. 0
DelayInv ==
  /\ client.at \in {"first", "second"} => backend = "pipewire"
  /\ Measured(client, audio_occupancy, callback, Len(queued))

RingInv == RingTypes /\ StoreInv /\ PassedInv /\ HandInv /\ FreeInv /\ DelayInv

\* The remainder of a place that has been passed once at most.
LEMMA RemainderOnce ==
  ASSUME NEW n \in Nat \ {0}, NEW x \in 0 .. 2 * n
  PROVE  x % n = IF x < n THEN x ELSE IF x < 2 * n THEN x - n ELSE 0
<1>1. /\ x % n \in 0 .. n - 1 /\ x \div n \in Int
      /\ x = n * (x \div n) + (x % n)
  OBVIOUS
<1> DEFINE q == x \div n  y == x % n
<1>2. q \in Int /\ y \in 0 .. n - 1 /\ x = n * q + y
  BY <1>1
<1> HIDE DEF q, y
<1>3. q = 0 \/ q = 1 \/ q = 2 \/ q >= 3 \/ q <= -1
  BY <1>2
<1>4. CASE q = 0
  BY <1>2, <1>4 DEF y
<1>5. CASE q = 1
  BY <1>2, <1>5 DEF y
<1>6. CASE q = 2
  BY <1>2, <1>6 DEF y
<1>7. CASE q >= 3
  <2>1. n * q >= n * 3 /\ n * q \in Int
    BY <1>2, <1>7
  <2> QED
    BY <1>2, <2>1
<1>8. CASE q <= -1
  <2>1. n * q <= n * (-1) /\ n * q \in Int
    BY <1>2, <1>8
  <2> QED
    BY <1>2, <2>1
<1> QED
  BY <1>3, <1>4, <1>5, <1>6, <1>7, <1>8

\* It is a cell of the ring, and no other place's.
LEMMA CellIn ==
  ASSUME NEW n \in Nat \ {0}, NEW p \in 0 .. n, NEW i \in 0 .. n - 1
  PROVE  CellOf(p, i, n) \in 1 .. n
BY DEF CellOf

LEMMA CellOnce ==
  ASSUME NEW n \in Nat \ {0}, NEW p \in 0 .. n, NEW i \in 0 .. n - 1, NEW j \in 0 .. n - 1, i /= j
  PROVE  CellOf(p, i, n) /= CellOf(p, j, n)
BY DEF CellOf

\* Counted from o places on
LEMMA CellFurther ==
  ASSUME NEW n \in Nat \ {0}, NEW t \in 0 .. n, NEW e \in 0 .. n, NEW o \in 0 .. n,
         Aligned(t, e, o, n), NEW i \in 0 .. n - 1, o + i <= n - 1
  PROVE  CellOf(e, i, n) = CellOf(t, o + i, n)
BY DEF CellOf, Aligned

LEMMA PlaceIn ==
  ASSUME NEW n \in Nat \ {0}, NEW p \in 0 .. n, NEW k \in 0 .. n, NEW q,
         q = IF k <= n - p THEN p + k ELSE k - (n - p)
  PROVE  q \in 0 .. n /\ After(p, k, q, n)
<1>1. CASE k <= n - p
  BY <1>1 DEF After
<1>2. CASE ~(k <= n - p)
  BY <1>2 DEF After
<1> QED
  BY <1>1, <1>2

LEMMA PlaceMore ==
  ASSUME NEW n \in Nat \ {0}, NEW t \in 0 .. n, NEW e \in 0 .. n, NEW o \in 0 .. n,
         Aligned(t, e, o, n), NEW k \in 0 .. n - o, NEW q \in 0 .. n, After(e, k, q, n)
  PROVE  Aligned(t, q, o + k, n)
BY DEF Aligned, After
LEMMA PlaceLess ==
  ASSUME NEW n \in Nat \ {0}, NEW t \in 0 .. n, NEW e \in 0 .. n, NEW o \in 0 .. n,
         Aligned(t, e, o, n), NEW k \in 0 .. o, NEW q \in 0 .. n, After(t, k, q, n)
  PROVE  Aligned(q, e, o - k, n)
BY DEF Aligned, After
LEMMA CellTaken ==
  ASSUME NEW n \in Nat \ {0}, NEW t \in 0 .. n, NEW k \in 0 .. n, NEW q \in 0 .. n, After(t, k, q, n),
         NEW i \in 0 .. n - 1, k + i <= n - 1
  PROVE  CellOf(q, i, n) = CellOf(t, k + i, n)
BY DEF CellOf, After

LEMMA CellIs ==
  ASSUME NEW n \in Nat \ {0}, n = Len(cells), NEW p \in 0 .. n, NEW i \in 0 .. n - 1
  PROVE  Ring!Cell(p, i) = CellOf(p, i, n) /\ CellOf(p, i, n) \in 1 .. n
<1>1. PICK x \in 0 .. 2 * n - 1 : x = p + i
  OBVIOUS
<1>2. x % n = IF x < n THEN x ELSE x - n
  <2>1. x \in 0 .. 2 * n /\ x < 2 * n
    OBVIOUS
  <2>2. x % n = IF x < n THEN x ELSE IF x < 2 * n THEN x - n ELSE 0
    BY <2>1, RemainderOnce
  <2> QED
    BY <2>1, <2>2
<1>3. Ring!Cell(p, i) = (x % n) + 1
  BY <1>1, Zenon DEF Ring!Cell, Ring!Size
<1> QED
  BY <1>1, <1>2, <1>3 DEF CellOf

\* Putting k frames in: they follow those that are there.
LEMMA HoldsMore ==
  ASSUME NEW n \in Nat \ {0}, n = Len(cells), cells \in Seq(Int),
         NEW t \in 0 .. n, NEW e \in 0 .. n, NEW o \in 0 .. n, NEW k \in 0 .. n - o, fresh \in Int,
         Holds(cells, t, e, o, fresh),
         NEW r, r = Ring!Put(e, k), NEW e2, e2 = Ring!Moved(e, k)
  PROVE  /\ r \in Seq(Int) /\ Len(r) = n
         /\ e2 \in 0 .. n
         /\ Holds(r, t, e2, o + k, fresh + k)
<1>1. PICK f \in Int : f = fresh
  OBVIOUS
<1>2. /\ Aligned(t, e, o, n)
      /\ \A i \in 0 .. o - 1 : cells[CellOf(t, i, n)] = f - o + i
  BY <1>1 DEF Holds
<1>3. e2 = IF k <= n - e THEN e + k ELSE k - (n - e)
  BY Zenon DEF Ring!Moved, Ring!Size
<1>4. r = [j \in 1 .. n |->
            IF \E i \in 0 .. k - 1 : CellOf(e, i, n) = j
              THEN f + (CHOOSE i \in 0 .. k - 1 : CellOf(e, i, n) = j)
              ELSE cells[j]]
  <2>1. \A i \in 0 .. k - 1 : Ring!Cell(e, i) = CellOf(e, i, n)
    <3> SUFFICES ASSUME NEW i \in 0 .. k - 1
                 PROVE  Ring!Cell(e, i) = CellOf(e, i, n)
      OBVIOUS
    <3>1. i \in 0 .. n - 1
      OBVIOUS
    <3> QED
      BY <3>1, CellIs
  <2>2. r = [j \in 1 .. n |->
              IF \E i \in 0 .. k - 1 : Ring!Cell(e, i) = j
                THEN f + (CHOOSE i \in 0 .. k - 1 : Ring!Cell(e, i) = j)
                ELSE cells[j]]
    BY <1>1, Zenon DEF Ring!Put, Ring!Size
  <2>3. \A j : (\E i \in 0 .. k - 1 : Ring!Cell(e, i) = j)
                 <=> (\E i \in 0 .. k - 1 : CellOf(e, i, n) = j)
    BY <2>1, Zenon
  <2>4. ASSUME NEW j
        PROVE  (CHOOSE i \in 0 .. k - 1 : Ring!Cell(e, i) = j)
                 = (CHOOSE i \in 0 .. k - 1 : CellOf(e, i, n) = j)
    <3>1. \A i : (i \in 0 .. k - 1 /\ Ring!Cell(e, i) = j)
                   <=> (i \in 0 .. k - 1 /\ CellOf(e, i, n) = j)
      BY <2>1, Zenon
    <3> QED
      BY <3>1, Zenon
  <2> QED
    BY <2>2, <2>3, <2>4, Zenon
<1>5. ASSUME NEW i \in 0 .. k - 1
      PROVE  CellOf(e, i, n) \in 1 .. n /\ r[CellOf(e, i, n)] = f + i
  <2>1. PICK j \in 1 .. n : j = CellOf(e, i, n)
    <3>1. i \in 0 .. n - 1
      OBVIOUS
    <3> QED
      BY <3>1, CellIn
  <2>2. PICK h : h = CHOOSE m \in 0 .. k - 1 : CellOf(e, m, n) = j
    OBVIOUS
  <2>3. h \in 0 .. k - 1 /\ CellOf(e, h, n) = j
    BY <2>1, <2>2, Zenon
  <2>4. h = i
    <3>1. h \in 0 .. n - 1 /\ i \in 0 .. n - 1
      BY <2>3
    <3> QED
      BY <2>1, <2>3, <3>1, CellOnce
  <2>5. r[j] = f + h
    BY <1>4, <2>1, <2>2, Zenon
  <2> QED
    BY <2>1, <2>4, <2>5
<1>6. ASSUME NEW i \in 0 .. o - 1
      PROVE  r[CellOf(t, i, n)] = f - o + i
  <2>1. PICK j \in 1 .. n : j = CellOf(t, i, n)
    <3>1. i \in 0 .. n - 1
      OBVIOUS
    <3> QED
      BY <3>1, CellIn
  <2>2. ASSUME NEW m \in 0 .. k - 1
        PROVE  CellOf(e, m, n) /= j
    <3>1. /\ m \in 0 .. n - 1 /\ o + m \in 0 .. n - 1 /\ o + m <= n - 1
          /\ i \in 0 .. n - 1 /\ o + m /= i
      OBVIOUS
    <3>2. CellOf(e, m, n) = CellOf(t, o + m, n)
      <4>1. Aligned(t, e, o, n) /\ m \in 0 .. n - 1 /\ o + m <= n - 1
        BY <1>2, <3>1
      <4> QED
        BY <4>1, CellFurther
    <3>3. CellOf(t, o + m, n) /= CellOf(t, i, n)
      BY <3>1, CellOnce
    <3> QED
      BY <2>1, <3>2, <3>3
  <2>3. r[j] = cells[j]
    BY <1>4, <2>2, Zenon
  <2> QED
    BY <1>2, <2>1, <2>3
<1>7. r \in Seq(Int) /\ Len(r) = n
  <2>1. \A j \in 1 .. n : cells[j] \in Int
    BY ElementOfSeq
  <2>2. ASSUME NEW j \in 1 .. n
        PROVE  r[j] \in Int
    <3>1. CASE \E i \in 0 .. k - 1 : CellOf(e, i, n) = j
      BY <1>5, <3>1
    <3>2. CASE ~ \E i \in 0 .. k - 1 : CellOf(e, i, n) = j
      <4>1. r[j] = cells[j]
        BY <1>4, <3>2, Zenon
      <4> QED
        BY <2>1, <4>1
    <3> QED
      BY <3>1, <3>2
  <2>3. r \in [1 .. n -> Int]
    BY <1>4, <2>2
  <2> QED
    BY <2>3
<1>8. e2 \in 0 .. n /\ Aligned(t, e2, o + k, n)
  <2>1. e2 \in 0 .. n /\ After(e, k, e2, n)
    <3>1. k \in 0 .. n
      OBVIOUS
    <3> QED
      BY <1>3, <3>1, PlaceIn
  <2> QED
    BY <1>2, <2>1, PlaceMore
<1>9. ASSUME NEW i \in 0 .. o + k - 1
      PROVE  r[CellOf(t, i, n)] = (f + k) - (o + k) + i
  <2>1. CASE i < o
    BY <1>6, <2>1
  <2>2. CASE i >= o
    <3>1. PICK m \in 0 .. k - 1 : m = i - o
      BY <2>2
    <3>2. CellOf(t, i, n) = CellOf(e, m, n)
      <4>1. m \in 0 .. n - 1 /\ o + m <= n - 1 /\ i = o + m
        BY <3>1
      <4> QED
        BY <1>2, <4>1, CellFurther
    <3>3. r[CellOf(e, m, n)] = f + m
      BY <1>5
    <3> QED
      BY <3>1, <3>2, <3>3
  <2> QED
    BY <2>1, <2>2
<1> QED
  BY <1>1, <1>7, <1>8, <1>9 DEF Holds

\* Taking k frames out: they are the oldest.
LEMMA HoldsLess ==
  ASSUME NEW n \in Nat \ {0}, n = Len(cells),
         toq \in 0 .. n, NEW e \in 0 .. n, NEW o \in 0 .. n, NEW k \in 0 .. o, NEW f \in Int,
         Holds(cells, toq, e, o, f), NEW t2, t2 = Ring!Moved(toq, k)
  PROVE  /\ t2 \in 0 .. n
         /\ Holds(cells, t2, e, o - k, f)
         /\ Ring!Taken(k) = Numbers(f - o, k)
<1>1. PICK t \in 0 .. n : t = toq
  OBVIOUS
<1>2. /\ Aligned(t, e, o, n)
      /\ \A i \in 0 .. o - 1 : cells[CellOf(t, i, n)] = f - o + i
  BY <1>1 DEF Holds
<1>3. t2 = IF k <= n - t THEN t + k ELSE k - (n - t)
  BY <1>1, Zenon DEF Ring!Moved, Ring!Size
<1>4. t2 \in 0 .. n /\ After(t, k, t2, n) /\ Aligned(t2, e, o - k, n)
  <2>1. t2 \in 0 .. n /\ After(t, k, t2, n)
    <3>1. k \in 0 .. n
      OBVIOUS
    <3> QED
      BY <1>3, <3>1, PlaceIn
  <2> QED
    BY <1>2, <2>1, PlaceLess
<1>5. ASSUME NEW i \in 0 .. (o - k) - 1
      PROVE  cells[CellOf(t2, i, n)] = f - (o - k) + i
  <2>1. PICK m \in 0 .. o - 1 : m = k + i
    OBVIOUS
  <2>2. CellOf(t2, i, n) = CellOf(t, m, n)
    <3>1. k \in 0 .. n /\ i \in 0 .. n - 1 /\ k + i <= n - 1
      OBVIOUS
    <3> QED
      BY <1>4, <2>1, <3>1, CellTaken
  <2>3. cells[CellOf(t, m, n)] = f - o + m
    BY <1>2
  <2> QED
    BY <2>1, <2>2, <2>3
<1>6. Ring!Taken(k) = Numbers(f - o, k)
  <2>1. ASSUME NEW i \in 1 .. k
        PROVE  cells[Ring!Cell(toq, i - 1)] = f - o + i - 1
    <3>1. PICK m \in 0 .. o - 1 : m = i - 1
      OBVIOUS
    <3>2. Ring!Cell(t, m) = CellOf(t, m, n)
      BY CellIs
    <3>3. cells[CellOf(t, m, n)] = f - o + m
      BY <1>2
    <3>4. cells[Ring!Cell(toq, i - 1)] = f - o + m
      BY <1>1, <3>1, <3>2, <3>3
    <3> QED
      BY <3>1, <3>4
  <2> QED
    BY <2>1, Zenon DEF Ring!Taken, Numbers
<1> QED
  BY <1>4, <1>5, <1>6 DEF Holds

\* What such a ring holds, as the module says it.
LEMMA HoldsFrames ==
  ASSUME RingTypes, StoreInv
  PROVE  Ring!RingHoldsFrames
<1>1. PICK n \in Nat \ {0} : n = Len(cells)
  BY DEF RingTypes
<1>2. PICK t \in 0 .. n, e \in 0 .. n, o \in 0 .. n, f \in Int :
        t = toq /\ e = eoq /\ o = audio_occupancy /\ f = fresh
  BY <1>1 DEF RingTypes, Ring!RingTypeOK, Ring!Size
<1>3. Holds(cells, t, e, o, f) /\ want = Numbers(f - o, o)
  BY <1>2, Zenon DEF StoreInv
<1>4. Ring!Taken(o) = Numbers(f - o, o)
  <2>1. o \in 0 .. o
    OBVIOUS
  <2>2. PICK t2 : t2 = Ring!Moved(toq, o)
    OBVIOUS
  <2> QED
    BY <1>1, <1>2, <1>3, <2>1, <2>2, HoldsLess
<1>5. (t + o) % n = e % n
  <2>1. Aligned(t, e, o, n)
    BY <1>1, <1>3, Zenon DEF Holds
  <2>2. /\ t + o \in 0 .. 2 * n /\ e \in 0 .. 2 * n
        /\ n < 2 * n
    OBVIOUS
  <2>3. PICK x \in 0 .. 2 * n : x = t + o
    BY <2>2
  <2>4. x % n = IF x < n THEN x ELSE IF x < 2 * n THEN x - n ELSE 0
    BY RemainderOnce
  <2>5. e % n = IF e < n THEN e ELSE IF e < 2 * n THEN e - n ELSE 0
    BY <2>2, RemainderOnce
  <2>6. (IF x < n THEN x ELSE IF x < 2 * n THEN x - n ELSE 0)
          = IF e < n THEN e ELSE IF e < 2 * n THEN e - n ELSE 0
    BY <2>1, <2>3 DEF Aligned
  <2> QED
    BY <2>3, <2>4, <2>5, <2>6
<1>6. Ring!Taken(audio_occupancy) = want /\ (toq + audio_occupancy) % Ring!Size = eoq % Ring!Size
  BY <1>1, <1>2, <1>3, <1>4, <1>5, Zenon DEF Ring!Size
<1> QED
  BY <1>6, Zenon DEF Ring!RingHoldsFrames

\* A sequence of numbers
LEMMA NumbersAre ==
  ASSUME NEW f \in Int, NEW o \in Nat
  PROVE  /\ Numbers(f, o) \in Seq(Int) /\ Len(Numbers(f, o)) = o
         /\ \A i \in 1 .. o : Numbers(f, o)[i] = f + i - 1
         /\ o = 0 => Numbers(f, o) = << >>
<1>1. Numbers(f, o) \in [1 .. o -> Int]
  BY DEF Numbers
<1>2. Numbers(f, o) \in Seq(Int) /\ Len(Numbers(f, o)) = o
  BY <1>1, LenProperties, EmptySeq
<1>3. \A i \in 1 .. o : Numbers(f, o)[i] = f + i - 1
  BY DEF Numbers
<1>4. o = 0 => Numbers(f, o) = << >>
  BY <1>2, EmptySeq
<1> QED
  BY <1>2, <1>3, <1>4

LEMMA RingNumbers ==
  ASSUME RingTypes
  PROVE  /\ audio_occupancy \in Nat /\ fresh \in Int /\ handed \in Int /\ flushed \in Int
         /\ toq \in 0 .. Len(cells) /\ eoq \in 0 .. Len(cells) /\ audio_occupancy \in 0 .. Len(cells)
BY RingAssumption DEF RingTypes, Ring!RingTypeOK, Ring!Size

LEMMA HandsInOrder ==
  ASSUME RingTypes, StoreInv, PassedInv, HandInv
  PROVE  Ring!HandedInOrder
<1>1. PICK o \in Nat, f \in Int, h \in Int, l \in Int :
        o = audio_occupancy /\ f = fresh /\ h = handed /\ l = flushed
  BY RingNumbers
<1>2. PICK c : c = callback
  OBVIOUS
<1>3. ASSUME c.at = "hand", c.taken[Len(c.taken)] /= 0
      PROVE  c.taken[1] > h /\ \A i \in 2 .. Len(c.taken) : c.taken[i] > c.taken[i - 1]
  <2>1. PICK q \in Seq(Int), m \in Nat, x \in Int : q = c.taken /\ m = Len(q) /\ x = q[1]
    <3>1. c.taken \in Seq(Int)
      BY <1>2 DEF RingTypes, Callbacks
    <3>2. Len(c.taken) \in 1 .. MaxAsk
      BY <1>1, <1>2, <1>3, Zenon DEF HandInv, Handing
    <3>3. c.taken[1] \in Int /\ Len(c.taken) \in Nat
      BY <3>1, <3>2, RingAssumption, ElementOfSeq
    <3> QED
      BY <3>1, <3>3
  <2>2. q = Numbers(x, m) /\ h < x
    BY <1>1, <1>2, <1>3, <2>1, Zenon DEF HandInv, Handing
  <2>3. \A i \in 1 .. m : q[i] = x + i - 1
    BY <2>2, NumbersAre
  <2>4. \A i \in 2 .. m : q[i] > q[i - 1]
    <3> SUFFICES ASSUME NEW i \in 2 .. m
                 PROVE  q[i] > q[i - 1]
      OBVIOUS
    <3>1. i \in 1 .. m /\ i - 1 \in 1 .. m
      OBVIOUS
    <3>2. q[i] = x + i - 1 /\ q[i - 1] = x + (i - 1) - 1
      BY <2>3, <3>1
    <3> QED
      BY <3>2
  <2>5. x > h
    BY <2>2
  <2> QED
    BY <2>1, <2>4, <2>5, Zenon
<1>4. ASSUME want /= << >>, ~ flush_please
      PROVE  want[1] > l
  <2>1. want = Numbers(f - o, o) /\ l < f - o
    BY <1>1, <1>4, Zenon DEF StoreInv, PassedInv
  <2>2. o >= 1
    BY <1>4, <2>1, NumbersAre
  <2>3. want[1] = (f - o) + 1 - 1
    <3>1. f - o \in Int /\ 1 \in 1 .. o
      BY <2>2
    <3> QED
      BY <2>1, <3>1, NumbersAre
  <2> QED
    BY <2>1, <2>3
<1> QED
  BY <1>1, <1>2, <1>3, <1>4, Zenon DEF Ring!HandedInOrder, Ring!Last

\* At the beginning the ring is empty.
LEMMA RingStart == Ring!RingInit => RingInv
<1> SUFFICES ASSUME Ring!RingInit
             PROVE  RingInv
  OBVIOUS
<1>1. PICK n \in Nat \ {0} : n \in Sizes /\ cells = [i \in 1 .. n |-> 0]
  BY RingAssumption DEF Ring!RingInit
<1>2. /\ backend \in {"pulse", "pipewire", "jack"}
      /\ toq = 0 /\ eoq = 0 /\ audio_occupancy = 0
      /\ freed = FALSE /\ mutex = "nobody" /\ loop = "nobody" /\ flush_please = FALSE
      /\ queued = << >> /\ fresh = 1 /\ want = << >> /\ flushed = 0 /\ handed = 0 /\ fault = FALSE
      /\ callback = [at |-> "idle", asked |-> 0, taken |-> << >>]
      /\ client = [at |-> "idle", out |-> 0, before |-> 0, same |-> TRUE, occupancy |-> 0]
  BY Zenon DEF Ring!RingInit, Ring!Idle, Ring!Resting
<1>3. cells \in Seq(Int) /\ Len(cells) = n
  BY <1>1
<1>4. RingTypes
  <2>1. Ring!RingTypeOK
    BY <1>2, <1>3, RingAssumption DEF Ring!RingTypeOK, Ring!Size
  <2>2. callback \in Callbacks
    BY <1>2, RingAssumption DEF Callbacks
  <2>3. client \in Clients
    BY <1>2 DEF Clients
  <2>4. freed \in BOOLEAN /\ fault \in BOOLEAN /\ flush_please \in BOOLEAN
    BY <1>2, Zenon
  <2>5. queued \in Seq(Int) /\ flushed \in Int /\ handed \in Int
    BY <1>2
  <2> QED
    BY <1>2, <1>3, <2>1, <2>2, <2>3, <2>4, <2>5, Zenon DEF RingTypes
<1>5. StoreInv
  <2>1. Holds(cells, 0, 0, 0, 1)
    BY <1>3 DEF Holds, Aligned
  <2>2. Numbers(1 - 0, 0) = << >>
    BY NumbersAre
  <2> QED
    BY <1>2, <2>1, <2>2, Zenon DEF StoreInv
<1>6. PassedInv
  BY <1>2 DEF PassedInv
<1>7. HandInv /\ FreeInv /\ DelayInv
  BY <1>2 DEF HandInv, Handing, FreeInv, DelayInv, Measured
<1> QED
  BY <1>4, <1>5, <1>6, <1>7, Zenon DEF RingInv

\* The types of the next state, one by one.
LEMMA RingTypesNext ==
  ASSUME cells' \in Seq(Int), Len(cells') \in Nat \ {0}, backend' \in {"pulse", "pipewire", "jack"},
         toq' \in 0 .. Len(cells'), eoq' \in 0 .. Len(cells'), audio_occupancy' \in 0 .. Len(cells'),
         fresh' \in 1 .. MaxFrames + 1,
         callback' \in Callbacks, client' \in Clients, queued' \in Seq(Int),
         flushed' \in Int, handed' \in Int,
         freed' \in BOOLEAN, fault' \in BOOLEAN, flush_please' \in BOOLEAN,
         mutex' \in {"nobody", "callback"}, loop' \in {"nobody", "callback"}
  PROVE  RingTypes'
<1>1. callback'.at \in {"idle", "copy", "hand", "done"}
  BY DEF Callbacks
<1> QED
  BY <1>1, Zenon DEF RingTypes, Ring!RingTypeOK, Ring!Size

\* The types of this state, one by one.
LEMMA RingTypesNow ==
  ASSUME RingTypes
  PROVE  /\ cells \in Seq(Int) /\ Len(cells) \in Nat \ {0} /\ backend \in {"pulse", "pipewire", "jack"}
         /\ toq \in 0 .. Len(cells) /\ eoq \in 0 .. Len(cells) /\ audio_occupancy \in 0 .. Len(cells)
         /\ fresh \in 1 .. MaxFrames + 1
         /\ callback \in Callbacks /\ client \in Clients /\ queued \in Seq(Int)
         /\ flushed \in Int /\ handed \in Int
         /\ freed \in BOOLEAN /\ fault \in BOOLEAN /\ flush_please \in BOOLEAN
         /\ mutex \in {"nobody", "callback"} /\ loop \in {"nobody", "callback"}
BY Zenon DEF RingTypes, Ring!RingTypeOK, Ring!Size

\* The parts of the invariant that a step leaves as they are.
LEMMA StoreStays ==
  ASSUME StoreInv, UNCHANGED <<cells, toq, eoq, audio_occupancy, fresh, want>>
  PROVE  StoreInv'
BY DEF StoreInv

LEMMA HandStays ==
  ASSUME HandInv, UNCHANGED <<callback, handed, fresh, audio_occupancy, backend>>
  PROVE  HandInv'
BY DEF HandInv

LEMMA PassedStays ==
  ASSUME PassedInv, UNCHANGED <<handed, fresh, audio_occupancy, flushed, flush_please>>
  PROVE  PassedInv'
BY DEF PassedInv

LEMMA FreeStays ==
  ASSUME FreeInv, UNCHANGED <<freed, fault, audio_occupancy>>,
         client'.at \in {"disconnect", "allocate"} <=> client.at \in {"disconnect", "allocate"}
  PROVE  FreeInv'
<1>1. /\ freed <=> client.at \in {"disconnect", "allocate"}
      /\ EmptyOnly => ~fault /\ (freed => audio_occupancy = 0)
  BY Zenon DEF FreeInv
<1>2. (freed' <=> freed) /\ (fault' <=> fault) /\ audio_occupancy' = audio_occupancy
  OBVIOUS
<1>3. freed' <=> client'.at \in {"disconnect", "allocate"}
  BY <1>1, <1>2, Zenon
<1>4. EmptyOnly => ~fault' /\ (freed' => audio_occupancy' = 0)
  BY <1>1, <1>2, Zenon
<1> QED
  BY <1>3, <1>4, Zenon DEF FreeInv

\* A client that is neither measuring a delay nor using it needs none of the figures.
LEMMA NoDelay ==
  ASSUME client'.at \notin {"first", "second", "told"}
  PROVE  DelayInv'
BY Zenon DEF DelayInv, Measured

\* The player's steps that move neither frames nor the callback
LEMMA ClientKeeps ==
  ASSUME RingInv,
         UNCHANGED <<backend, cells, toq, eoq, audio_occupancy, freed, mutex, loop, callback, fresh,
                     want, handed, fault>>,
         flush_please' \in BOOLEAN, flushed' \in Int, queued' \in Seq(Int), client' \in Clients,
         client'.at \in {"disconnect", "allocate"} <=> client.at \in {"disconnect", "allocate"},
         PassedInv', DelayInv'
  PROVE  RingInv'
<1>1. RingTypes /\ StoreInv /\ HandInv /\ FreeInv
  BY Zenon DEF RingInv
<1>2. /\ backend' = backend /\ cells' = cells /\ toq' = toq /\ eoq' = eoq /\ freed' = freed
      /\ audio_occupancy' = audio_occupancy /\ mutex' = mutex /\ loop' = loop /\ fault' = fault
      /\ callback' = callback /\ fresh' = fresh /\ want' = want /\ handed' = handed
  OBVIOUS
<1>3. RingTypes'
  BY <1>1, <1>2, RingTypesNow, RingTypesNext, Zenon
<1>4. StoreInv'
  BY <1>1, <1>2, StoreStays
<1>5. HandInv'
  BY <1>1, <1>2, HandStays
<1>6. FreeInv'
  BY <1>1, <1>2, FreeStays
<1> QED
  BY <1>3, <1>4, <1>5, <1>6, Zenon DEF RingInv

\* Of them, those after which it rests, or goes on to change the ring
LEMMA ClientRests ==
  ASSUME RingInv,
         UNCHANGED <<backend, cells, toq, eoq, audio_occupancy, freed, mutex, loop, flush_please,
                     callback, fresh, want, flushed, handed, fault>>,
         queued' \in Seq(Int),
         client' = Ring!Resting
           \/ (\E w \in {"put", "empty", "allocate"} : client' = [client EXCEPT !.at = w]),
         client'.at = "allocate" <=> client.at = "disconnect", client.at /= "allocate"
  PROVE  RingInv'
<1>1. RingTypes /\ PassedInv
  BY Zenon DEF RingInv
<1>2. client' \in Clients /\ client'.at \in {"idle", "put", "empty", "allocate"}
  <2>1. client \in Clients
    BY <1>1, RingTypesNow, Zenon
  <2>2. CASE client' = Ring!Resting
    BY <2>2 DEF Ring!Resting, Clients
  <2>3. CASE \E w \in {"put", "empty", "allocate"} : client' = [client EXCEPT !.at = w]
    BY <2>1, <2>3 DEF Clients
  <2> QED
    BY <2>2, <2>3
<1>3. /\ flushed' = flushed /\ flush_please' = flush_please /\ flushed \in Int
      /\ flush_please \in BOOLEAN
  BY <1>1, RingTypesNow, Zenon
<1>4. client'.at \in {"disconnect", "allocate"} <=> client.at \in {"disconnect", "allocate"}
  BY <1>2
<1>5. PassedInv'
  BY <1>1, PassedStays
<1>6. client'.at \notin {"first", "second", "told"}
  BY <1>2
<1>7. DelayInv'
  BY <1>6, NoDelay
<1> QED
  BY <1>2, <1>3, <1>4, <1>5, <1>7, ClientKeeps

LEMMA RestingSteps ==
  ASSUME RingInv,
         \/ Ring!Activate \/ Ring!Uncork \/ Ring!FlushStream \/ Ring!Deactivate \/ Ring!Disconnect
         \/ Ring!UseDelay
  PROVE  RingInv'
<1>1. queued \in Seq(Int) /\ << >> \in Seq(Int) /\ client \in Clients
  <2>1. RingTypes
    BY Zenon DEF RingInv
  <2> QED
    BY <2>1, RingTypesNow, EmptySeq, Zenon
<1>2. \A w \in STRING : [client EXCEPT !.at = w].at = w
  BY <1>1 DEF Clients
<1>3. CASE Ring!Activate
  <2>1. /\ client.at = "idle" /\ client' = [client EXCEPT !.at = "put"] /\ queued' = queued
    BY <1>3, Zenon DEF Ring!Activate
  <2>2. /\ UNCHANGED <<backend, cells, toq, eoq, audio_occupancy, freed, mutex, loop, flush_please,
                       callback, fresh, want, flushed, handed, fault>>
    BY <1>3 DEF Ring!Activate
  <2>3. client'.at = "put"
    BY <1>2, <2>1
  <2> QED
    BY <1>1, <2>1, <2>2, <2>3, ClientRests
<1>4. CASE Ring!Uncork
  <2>1. /\ client.at = "uncork" /\ client' = Ring!Resting /\ queued' = queued
    BY <1>4, Zenon DEF Ring!Uncork
  <2>2. /\ UNCHANGED <<backend, cells, toq, eoq, audio_occupancy, freed, mutex, loop, flush_please,
                       callback, fresh, want, flushed, handed, fault>>
    BY <1>4 DEF Ring!Uncork
  <2>3. client'.at = "idle"
    BY <2>1 DEF Ring!Resting
  <2> QED
    BY <1>1, <2>1, <2>2, <2>3, ClientRests
<1>5. CASE Ring!FlushStream
  <2>1. /\ client.at = "idle" /\ client' = [client EXCEPT !.at = "empty"]
        /\ queued' = queued \/ queued' = << >>
    BY <1>5, Zenon DEF Ring!FlushStream
  <2>2. /\ UNCHANGED <<backend, cells, toq, eoq, audio_occupancy, freed, mutex, loop, flush_please,
                       callback, fresh, want, flushed, handed, fault>>
    BY <1>5 DEF Ring!FlushStream
  <2>3. client'.at = "empty"
    BY <1>2, <2>1
  <2> QED
    BY <1>1, <2>1, <2>2, <2>3, ClientRests
<1>6. CASE Ring!Deactivate
  <2>1. /\ client.at = "deactivate" /\ client' = Ring!Resting /\ queued' = queued
    BY <1>6, Zenon DEF Ring!Deactivate
  <2>2. /\ UNCHANGED <<backend, cells, toq, eoq, audio_occupancy, freed, mutex, loop, flush_please,
                       callback, fresh, want, flushed, handed, fault>>
    BY <1>6 DEF Ring!Deactivate
  <2>3. client'.at = "idle"
    BY <2>1 DEF Ring!Resting
  <2> QED
    BY <1>1, <2>1, <2>2, <2>3, ClientRests
<1>7. CASE Ring!Disconnect
  <2>1. /\ client.at = "disconnect" /\ client' = [client EXCEPT !.at = "allocate"]
        /\ queued' = << >>
    BY <1>7, Zenon DEF Ring!Disconnect
  <2>2. /\ UNCHANGED <<backend, cells, toq, eoq, audio_occupancy, freed, mutex, loop, flush_please,
                       callback, fresh, want, flushed, handed, fault>>
    BY <1>7 DEF Ring!Disconnect
  <2>3. client'.at = "allocate"
    BY <1>2, <2>1
  <2> QED
    BY <1>1, <2>1, <2>2, <2>3, ClientRests
<1>8. CASE Ring!UseDelay
  <2>1. /\ client.at = "told" /\ client' = Ring!Resting /\ queued' = queued
    BY <1>8, Zenon DEF Ring!UseDelay
  <2>2. /\ UNCHANGED <<backend, cells, toq, eoq, audio_occupancy, freed, mutex, loop, flush_please,
                       callback, fresh, want, flushed, handed, fault>>
    BY <1>8 DEF Ring!UseDelay
  <2>3. client'.at = "idle"
    BY <2>1 DEF Ring!Resting
  <2> QED
    BY <1>1, <2>1, <2>2, <2>3, ClientRests
<1> QED
  BY <1>3, <1>4, <1>5, <1>6, <1>7, <1>8, Zenon

\* JACK: what is in the ring is not to be heard any more, as soon as the callback takes it out.
LEMMA AskForFlushKeeps ==
  ASSUME RingInv, Ring!AskForFlush
  PROVE  RingInv'
<1>1. RingTypes /\ PassedInv /\ DelayInv
  BY Zenon DEF RingInv
<1>2. /\ UNCHANGED <<backend, cells, toq, eoq, audio_occupancy, freed, mutex, loop, callback, fresh,
                     want, handed, fault>>
      /\ client.at = "idle" /\ client' = client /\ queued' = queued
      /\ flush_please' = TRUE /\ flushed' = fresh - 1
  BY DEF Ring!AskForFlush
<1>3. PICK f \in Int, o \in Nat, h \in Int : f = fresh /\ o = audio_occupancy /\ h = handed
  BY <1>1, RingNumbers
<1>4. h < f - o
  BY <1>1, <1>3, Zenon DEF PassedInv
<1>5. handed' = h /\ fresh' = f /\ audio_occupancy' = o /\ flushed' = f - 1
  BY <1>2, <1>3
<1>6. PassedInv'
  <2>1. handed' < fresh' - audio_occupancy' /\ flushed' < fresh'
    BY <1>3, <1>4, <1>5
  <2> QED
    BY <1>2, <2>1, Zenon DEF PassedInv
<1>7. client' \in Clients /\ queued' \in Seq(Int)
  BY <1>1, <1>2, RingTypesNow, Zenon
<1>8. DelayInv'
  <2>1. client'.at \notin {"first", "second", "told"}
    BY <1>2
  <2> QED
    BY <2>1, NoDelay
<1>9. flushed' \in Int /\ flush_please' \in BOOLEAN
  <2>1. flushed' \in Int
    BY <1>3, <1>5
  <2> QED
    BY <1>2, <2>1, Zenon
<1>10. client'.at \in {"disconnect", "allocate"} <=> client.at \in {"disconnect", "allocate"}
  BY <1>2, Zenon
<1> QED
  BY <1>2, <1>6, <1>7, <1>8, <1>9, <1>10, ClientKeeps

\* PulseAudio: the ring is freed, when it has to be empty for that.
LEMMA FreeRingKeeps ==
  ASSUME RingInv, Ring!FreeRing
  PROVE  RingInv'
<1>1. RingTypes /\ StoreInv /\ PassedInv /\ HandInv /\ FreeInv
  BY Zenon DEF RingInv
<1>2. /\ backend' = backend /\ cells' = cells /\ toq' = toq /\ eoq' = eoq
      /\ audio_occupancy' = audio_occupancy /\ mutex' = mutex /\ loop' = loop /\ fault' = fault
      /\ callback' = callback /\ fresh' = fresh /\ want' = want /\ handed' = handed
      /\ flushed' = flushed /\ flush_please' = flush_please /\ queued' = queued
      /\ client' = [client EXCEPT !.at = "disconnect"]
  BY DEF Ring!FreeRing
<1>3. freed' = TRUE /\ (EmptyOnly => audio_occupancy = 0)
  BY Zenon DEF Ring!FreeRing
<1>4. client' \in Clients /\ client'.at = "disconnect"
  <2>1. client \in Clients
    BY <1>1, RingTypesNow, Zenon
  <2> QED
    BY <1>2, <2>1 DEF Clients
<1>5. RingTypes'
  <2>1. freed' \in BOOLEAN
    BY <1>3, Zenon
  <2> QED
    BY <1>1, <1>2, <1>4, <2>1, RingTypesNow, RingTypesNext, Zenon
<1>6. StoreInv'
  BY <1>1, <1>2, StoreStays
<1>7. HandInv'
  BY <1>1, <1>2, HandStays
<1>8. PassedInv'
  BY <1>1, <1>2, PassedStays
<1>9. FreeInv'
  <2>1. EmptyOnly => ~fault
    BY <1>1, Zenon DEF FreeInv
  <2>2. client'.at \in {"disconnect", "allocate"}
    BY <1>4
  <2>3. freed' /\ (fault' <=> fault) /\ audio_occupancy' = audio_occupancy
    BY <1>2, <1>3, Zenon
  <2> QED
    BY <1>3, <2>1, <2>2, <2>3, Zenon DEF FreeInv
<1>10. DelayInv'
  <2>1. client'.at \notin {"first", "second", "told"}
    BY <1>4
  <2> QED
    BY <2>1, NoDelay
<1> QED
  BY <1>5, <1>6, <1>7, <1>8, <1>9, <1>10, Zenon DEF RingInv

\* A ring that is emptied: what was in it is neither heard nor counted.
LEMMA EmptiedKeeps ==
  ASSUME RingInv, Ring!Emptied, cells' \in Seq(Int), Len(cells') \in Nat \ {0},
         UNCHANGED <<backend, callback, fresh, handed, fault, mutex, loop, flush_please>>,
         client' \in Clients, client'.at \notin {"first", "second", "told"}, queued' \in Seq(Int),
         freed' \in BOOLEAN, freed' <=> client'.at \in {"disconnect", "allocate"}
  PROVE  RingInv'
<1>1. RingTypes /\ PassedInv /\ HandInv /\ FreeInv
  BY Zenon DEF RingInv
<1>2. /\ backend' = backend /\ callback' = callback /\ fresh' = fresh /\ handed' = handed
      /\ fault' = fault /\ mutex' = mutex /\ loop' = loop /\ flush_please' = flush_please
  OBVIOUS
<1>3. /\ toq' = 0 /\ eoq' = 0 /\ audio_occupancy' = 0 /\ want' = << >> /\ flushed' = fresh - 1
  BY Zenon DEF Ring!Emptied
<1>4. PICK f \in Int, o \in Nat, h \in Int : f = fresh /\ o = audio_occupancy /\ h = handed
  BY <1>1, RingNumbers
<1>5. h < f - o
  BY <1>1, <1>4, Zenon DEF PassedInv
<1>6. handed' = h /\ fresh' = f /\ flushed' = f - 1
  BY <1>2, <1>3, <1>4
<1>7. RingTypes'
  <2>1. 0 \in 0 .. Len(cells') /\ flushed' \in Int
    BY <1>4, <1>6
  <2>2. /\ backend \in {"pulse", "pipewire", "jack"} /\ callback \in Callbacks /\ handed \in Int
        /\ fresh \in 1 .. MaxFrames + 1 /\ fault \in BOOLEAN /\ flush_please \in BOOLEAN
        /\ mutex \in {"nobody", "callback"} /\ loop \in {"nobody", "callback"}
    BY <1>1, RingTypesNow, Zenon
  <2> QED
    BY <1>2, <1>3, <2>1, <2>2, RingTypesNext, Zenon
<1>8. StoreInv'
  <2>1. PICK r \in Seq(Int), n \in Nat \ {0} : r = cells' /\ n = Len(r)
    OBVIOUS
  <2>2. Holds(r, 0, 0, 0, f)
    BY <1>4, <2>1 DEF Holds, Aligned
  <2>3. Numbers(f - 0, 0) = << >>
    BY <1>4, NumbersAre
  <2> QED
    BY <1>3, <1>6, <2>1, <2>2, <2>3, Zenon DEF StoreInv
<1>9. PassedInv'
  <2>1. h < f - 0 /\ f - 1 < f /\ f - 1 < f - 0
    BY <1>4, <1>5
  <2> QED
    BY <1>3, <1>6, <2>1, Zenon DEF PassedInv
<1>10. HandInv'
  <2>1. PICK c : c = callback
    OBVIOUS
  <2>2. Handing(c, h, f - o)
    BY <1>1, <1>4, <2>1, Zenon DEF HandInv
  <2>3. c \in Callbacks
    BY <1>1, <2>1, RingTypesNow, Zenon
  <2>4. Handing(c, h, f - 0)
    <3>1. ASSUME c.at = "hand", c.taken[Len(c.taken)] /= 0
          PROVE  c.taken[Len(c.taken)] < f - 0
      <4>1. c.taken[Len(c.taken)] < f - o /\ Len(c.taken) \in 1 .. MaxAsk
        BY <2>2, <3>1, Zenon DEF Handing
      <4>2. c.taken \in Seq(Int)
        BY <2>3 DEF Callbacks
      <4>3. c.taken[Len(c.taken)] \in Int
        BY <4>1, <4>2, RingAssumption, ElementOfSeq
      <4> QED
        BY <1>4, <4>1, <4>3
    <3> QED
      BY <2>2, <3>1, Zenon DEF Handing
  <2>5. /\ callback.at = "copy" /\ backend = "pipewire" => callback.asked >= 1
        /\ backend = "jack" => callback.at = "idle"
    BY <1>1, Zenon DEF HandInv
  <2> QED
    BY <1>2, <1>3, <1>6, <2>1, <2>4, <2>5, Zenon DEF HandInv
<1>11. FreeInv'
  <2>1. EmptyOnly => ~fault
    BY <1>1, Zenon DEF FreeInv
  <2>2. (fault' <=> fault) /\ audio_occupancy' = 0
    BY <1>3
  <2>3. EmptyOnly => ~fault' /\ (freed' => audio_occupancy' = 0)
    BY <2>1, <2>2, Zenon
  <2>4. freed' <=> client'.at \in {"disconnect", "allocate"}
    OBVIOUS
  <2> QED
    BY <2>3, <2>4, Zenon DEF FreeInv
<1>12. DelayInv'
  BY NoDelay
<1> QED
  BY <1>7, <1>8, <1>9, <1>10, <1>11, <1>12, Zenon DEF RingInv

\* A ring of a length that a configuration leads to
LEMMA NewRing ==
  ASSUME NEW s \in Sizes
  PROVE  [i \in 1 .. s |-> 0] \in Seq(Int) /\ Len([i \in 1 .. s |-> 0]) \in Nat \ {0}
<1>1. s \in Nat \ {0}
  BY RingAssumption
<1> QED
  BY <1>1

LEMMA EmptyingSteps ==
  ASSUME RingInv, Ring!EmptyRing \/ Ring!Allocate \/ Ring!Reconnect
  PROVE  RingInv'
<1>1. RingTypes /\ FreeInv
  BY Zenon DEF RingInv
<1>2. /\ queued \in Seq(Int) /\ client \in Clients /\ freed \in BOOLEAN
      /\ cells \in Seq(Int) /\ Len(cells) \in Nat \ {0}
  BY <1>1, RingTypesNow, Zenon
<1>3. freed <=> client.at \in {"disconnect", "allocate"}
  BY <1>1, Zenon DEF FreeInv
<1>4. Ring!Resting \in Clients /\ Ring!Resting.at = "idle"
  BY DEF Ring!Resting, Clients
<1>5. CASE Ring!EmptyRing
  <2>1. /\ Ring!Emptied /\ cells' = cells /\ queued' = queued
        /\ UNCHANGED <<backend, callback, fresh, handed, fault, mutex, loop, flush_please>>
    BY <1>5 DEF Ring!EmptyRing
  <2>2. freed' = freed
    BY <1>5, Zenon DEF Ring!EmptyRing
  <2>3. /\ client.at \in {"idle", "empty"}
        /\ client' = Ring!Resting \/ client' = [client EXCEPT !.at = "deactivate"]
    BY <1>5, Zenon DEF Ring!EmptyRing
  <2>4. client' \in Clients /\ client'.at \in {"idle", "deactivate"}
    BY <1>2, <1>4, <2>3 DEF Clients
  <2>5. ~ freed
    <3>1. client.at \notin {"disconnect", "allocate"}
      BY <2>3
    <3> QED
      BY <1>3, <3>1, Zenon
  <2>6. /\ client'.at \notin {"first", "second", "told"}
        /\ client'.at \notin {"disconnect", "allocate"}
    BY <2>4
  <2>7. freed' \in BOOLEAN /\ (freed' <=> client'.at \in {"disconnect", "allocate"})
    BY <1>2, <2>2, <2>5, <2>6, Zenon
  <2>8. cells' \in Seq(Int) /\ Len(cells') \in Nat \ {0} /\ queued' \in Seq(Int)
    BY <1>2, <2>1, Zenon
  <2> QED
    BY <2>1, <2>4, <2>6, <2>7, <2>8, EmptiedKeeps, Zenon
<1>6. CASE Ring!Allocate
  <2>1. /\ Ring!Emptied /\ queued' = queued /\ client' = Ring!Resting
        /\ UNCHANGED <<backend, callback, fresh, handed, fault, mutex, loop, flush_please>>
    BY <1>6 DEF Ring!Allocate
  <2>2. freed' = FALSE
    BY <1>6, Zenon DEF Ring!Allocate
  <2>3. cells' \in Seq(Int) /\ Len(cells') \in Nat \ {0}
    BY <1>6, NewRing, Zenon DEF Ring!Allocate
  <2>4. /\ client' \in Clients /\ client'.at \notin {"first", "second", "told"}
        /\ client'.at \notin {"disconnect", "allocate"}
    BY <1>4, <2>1
  <2>5. freed' \in BOOLEAN /\ (freed' <=> client'.at \in {"disconnect", "allocate"})
    BY <2>2, <2>4, Zenon
  <2>6. queued' \in Seq(Int)
    BY <1>2, <2>1, Zenon
  <2> QED
    BY <2>1, <2>3, <2>4, <2>5, <2>6, EmptiedKeeps, Zenon
<1>7. CASE Ring!Reconnect
  <2>1. /\ Ring!Emptied /\ client.at = "idle" /\ client' = client /\ queued' = << >>
        /\ UNCHANGED <<backend, callback, fresh, handed, fault, mutex, loop, flush_please>>
    BY <1>7 DEF Ring!Reconnect
  <2>2. freed' = freed
    BY <1>7, Zenon DEF Ring!Reconnect
  <2>3. cells' \in Seq(Int) /\ Len(cells') \in Nat \ {0}
    BY <1>7, NewRing, Zenon DEF Ring!Reconnect
  <2>4. /\ client' \in Clients /\ client'.at \notin {"first", "second", "told"}
        /\ client'.at \notin {"disconnect", "allocate"}
        /\ client.at \notin {"disconnect", "allocate"}
    BY <1>2, <2>1
  <2>5. freed' \in BOOLEAN /\ (freed' <=> client'.at \in {"disconnect", "allocate"})
    BY <1>2, <1>3, <2>2, <2>4, Zenon
  <2>6. queued' \in Seq(Int)
    BY <2>1, EmptySeq
  <2> QED
    BY <2>1, <2>3, <2>4, <2>5, <2>6, EmptiedKeeps, Zenon
<1> QED
  BY <1>5, <1>6, <1>7, Zenon

\* The player's record, with some of it set
LEMMA ClientSet ==
  /\ \A n \in Nat : [Ring!Resting EXCEPT !.at = "first", !.before = n]
             = [at |-> "first", out |-> 0, before |-> n, same |-> TRUE, occupancy |-> 0]
  /\ \A x \in Int : [Ring!Resting EXCEPT !.at = "told", !.out = x]
             = [at |-> "told", out |-> x, before |-> 0, same |-> TRUE, occupancy |-> 0]
  /\ \A c \in Clients : \A n \in Nat : [c EXCEPT !.at = "second", !.occupancy = n]
             = [at |-> "second", out |-> c.out, before |-> c.before, same |-> c.same,
                occupancy |-> n]
<1>1. ASSUME NEW n \in Nat
      PROVE  [Ring!Resting EXCEPT !.at = "first", !.before = n]
               = [at |-> "first", out |-> 0, before |-> n, same |-> TRUE, occupancy |-> 0]
  <2>1. PICK d : d = [Ring!Resting EXCEPT !.at = "first"]
    OBVIOUS
  <2>2. d = [at |-> "first", out |-> 0, before |-> 0, same |-> TRUE, occupancy |-> 0]
    BY <2>1 DEF Ring!Resting
  <2>3. ASSUME NEW s, d = [at |-> "first", out |-> 0, before |-> 0, same |-> s, occupancy |-> 0]
        PROVE  [d EXCEPT !.before = n]
                 = [at |-> "first", out |-> 0, before |-> n, same |-> s, occupancy |-> 0]
    BY <2>3
  <2>4. [Ring!Resting EXCEPT !.at = "first", !.before = n] = [d EXCEPT !.before = n]
    BY <2>1
  <2> QED
    BY <2>2, <2>3, <2>4, Zenon
<1>2. ASSUME NEW x \in Int
      PROVE  [Ring!Resting EXCEPT !.at = "told", !.out = x]
               = [at |-> "told", out |-> x, before |-> 0, same |-> TRUE, occupancy |-> 0]
  <2>1. PICK d : d = [Ring!Resting EXCEPT !.at = "told"]
    OBVIOUS
  <2>2. d = [at |-> "told", out |-> 0, before |-> 0, same |-> TRUE, occupancy |-> 0]
    BY <2>1 DEF Ring!Resting
  <2>3. ASSUME NEW s, d = [at |-> "told", out |-> 0, before |-> 0, same |-> s, occupancy |-> 0]
        PROVE  [d EXCEPT !.out = x]
                 = [at |-> "told", out |-> x, before |-> 0, same |-> s, occupancy |-> 0]
    BY <2>3
  <2>4. [Ring!Resting EXCEPT !.at = "told", !.out = x] = [d EXCEPT !.out = x]
    BY <2>1
  <2> QED
    BY <2>2, <2>3, <2>4, Zenon
<1>3. ASSUME NEW c \in Clients, NEW n \in Nat
      PROVE  [c EXCEPT !.at = "second", !.occupancy = n]
               = [at |-> "second", out |-> c.out, before |-> c.before, same |-> c.same,
                  occupancy |-> n]
  <2>1. PICK d : d = [c EXCEPT !.at = "second"]
    OBVIOUS
  <2>2. d = [at |-> "second", out |-> c.out, before |-> c.before, same |-> c.same,
             occupancy |-> c.occupancy]
    BY <2>1 DEF Clients
  <2>3. [d EXCEPT !.occupancy = n]
          = [at |-> "second", out |-> c.out, before |-> c.before, same |-> c.same, occupancy |-> n]
    BY <2>2
  <2>4. [c EXCEPT !.at = "second", !.occupancy = n] = [d EXCEPT !.occupancy = n]
    BY <2>1
  <2> QED
    BY <2>3, <2>4, Zenon
<1> QED
  BY <1>1, <1>2, <1>3

\* The steps of measuring a delay
LEMMA MeasuringSteps ==
  ASSUME RingInv, Ring!BeginDelay \/ Ring!ReadOccupancy \/ Ring!EndDelay
  PROVE  RingInv'
<1>1. RingTypes /\ PassedInv /\ HandInv /\ DelayInv
  BY Zenon DEF RingInv
<1>2. /\ client \in Clients /\ callback \in Callbacks /\ audio_occupancy \in Nat
      /\ queued \in Seq(Int) /\ flushed \in Int /\ flush_please \in BOOLEAN
  BY <1>1, RingTypesNow, RingNumbers, Zenon
<1>3. PICK c \in Clients : c = client
  BY <1>2
<1>4. PICK b \in Callbacks, o \in Nat, m \in Nat, q \in Nat :
        b = callback /\ o = audio_occupancy /\ m = Len(callback.taken) /\ q = Len(queued)
  BY <1>2, LenProperties DEF Callbacks
<1>5. /\ c.at \in {"first", "second"} => backend = "pipewire"
      /\ Measured(c, o, b, q)
  BY <1>1, <1>3, <1>4, Zenon DEF DelayInv
<1>6. m \in 0 .. MaxAsk /\ (b.at /= "hand" => m = 0)
  <2>1. CASE b.at = "hand"
    <3>1. m \in 1 .. MaxAsk
      BY <1>1, <1>4, <2>1, Zenon DEF HandInv, Handing
    <3> QED
      BY <2>1, <3>1, RingAssumption
  <2>2. CASE b.at /= "hand"
    <3>1. b.taken = << >>
      BY <1>1, <1>4, <2>2, Zenon DEF HandInv, Handing
    <3>2. m = 0
      BY <1>4, <3>1
    <3> QED
      BY <3>2, RingAssumption
  <2> QED
    BY <2>1, <2>2
<1>7. ASSUME NEW d \in Clients, client' = d,
             d.at \in {"first", "second", "told"}, client.at \in {"idle", "first", "second"},
             UNCHANGED <<backend, cells, toq, eoq, audio_occupancy, freed, mutex, loop, callback,
                         fresh, want, flushed, handed, fault, queued, flush_please>>,
             backend = "pipewire", Measured(d, o, b, q)
      PROVE  RingInv'
  <2>1. PassedInv'
    BY <1>1, <1>7, PassedStays
  <2>2. DelayInv'
    <3>1. /\ audio_occupancy' = o /\ callback' = b /\ queued' = queued /\ backend' = "pipewire"
      BY <1>4, <1>7
    <3>2. Len(queued') = q
      BY <1>4, <3>1
    <3> QED
      BY <1>7, <3>1, <3>2, Zenon DEF DelayInv
  <2>3. client'.at \in {"disconnect", "allocate"} <=> client.at \in {"disconnect", "allocate"}
    BY <1>7
  <2>4. /\ flush_please' \in BOOLEAN /\ flushed' \in Int /\ queued' \in Seq(Int)
        /\ client' \in Clients
    <3>1. flush_please' = flush_please /\ flushed' = flushed /\ queued' = queued
      BY <1>7
    <3> QED
      BY <1>2, <1>7, <3>1, Zenon
  <2> QED
    BY <1>7, <2>1, <2>2, <2>3, <2>4, ClientKeeps
<1>8. CASE Ring!BeginDelay
  <2>1. PICK d : d = [at |-> "first", out |-> 0, before |-> q, same |-> TRUE, occupancy |-> 0]
    OBVIOUS
  <2>2. d \in Clients /\ d.at = "first" /\ Measured(d, o, b, q)
    BY <2>1 DEF Clients, Measured
  <2>3. client' = d
    BY <1>4, <1>8, <2>1, ClientSet, Zenon DEF Ring!BeginDelay
  <2>4. /\ backend = "pipewire" /\ client.at = "idle"
        /\ UNCHANGED <<backend, cells, toq, eoq, audio_occupancy, freed, mutex, loop, callback,
                       fresh, want, flushed, handed, fault, queued, flush_please>>
    BY <1>8 DEF Ring!BeginDelay
  <2> QED
    BY <1>7, <2>2, <2>3, <2>4
<1>9. CASE Ring!ReadOccupancy
  <2>1. PICK d : d = [c EXCEPT !.at = "second", !.occupancy = o]
    OBVIOUS
  <2>2. d \in Clients /\ d.at = "second" /\ d.occupancy = o /\ d.same = c.same
        /\ d.before = c.before
    <3>1. d = [at |-> "second", out |-> c.out, before |-> c.before, same |-> c.same,
               occupancy |-> o]
      BY <2>1, ClientSet, Zenon
    <3> QED
      BY <3>1 DEF Clients
  <2>3. client' = d
    BY <1>3, <1>4, <1>9, <2>1, Zenon DEF Ring!ReadOccupancy
  <2>4. c.at = "first"
        /\ UNCHANGED <<backend, cells, toq, eoq, audio_occupancy, freed, mutex, loop, callback,
                       fresh, want, flushed, handed, fault, queued, flush_please>>
    BY <1>3, <1>9 DEF Ring!ReadOccupancy
  <2>5. Measured(d, o, b, q)
    <3>1. d.same => d.before = q
      BY <1>5, <2>2, <2>4, Zenon DEF Measured
    <3>2. o - o - Len(b.taken) \in -MaxAsk .. 0
      BY <1>4, <1>6, RingAssumption
    <3> QED
      BY <2>2, <3>1, <3>2, Zenon DEF Measured
  <2>6. backend = "pipewire" /\ client.at = "first"
    BY <1>3, <1>5, <2>4
  <2> QED
    BY <1>7, <2>2, <2>3, <2>4, <2>5, <2>6
<1>10. CASE Ring!EndDelay
  <2>1. c.at = "second"
        /\ UNCHANGED <<backend, cells, toq, eoq, audio_occupancy, freed, mutex, loop, callback,
                       fresh, want, flushed, handed, fault, queued, flush_please>>
    BY <1>3, <1>10 DEF Ring!EndDelay
  <2>2. backend = "pipewire" /\ client.at = "second"
    BY <1>3, <1>5, <2>1
  <2>3. CASE c.same
    <3>1. PICK x \in Int, y \in Int : x = c.before /\ y = c.occupancy
      BY DEF Clients
    <3>2. x = q /\ y - o - m \in -MaxAsk .. 0
      BY <1>4, <1>5, <2>1, <2>3, <3>1, Zenon DEF Measured
    <3>3. (x + y) - (o + m + q) \in -MaxAsk .. 0 /\ (x + y) - (o + m + q) \in Int
      BY <3>2, RingAssumption
    <3>4. PICK d : d = [at |-> "told", out |-> (x + y) - (o + m + q), before |-> 0, same |-> TRUE,
                        occupancy |-> 0]
      OBVIOUS
    <3>5. d \in Clients /\ d.at = "told" /\ d.out = (x + y) - (o + m + q)
      BY <3>3, <3>4 DEF Clients
    <3>6. Measured(d, o, b, q)
      BY <3>3, <3>5 DEF Measured
    <3>7. client' = d
      <4>1. client' = [Ring!Resting EXCEPT !.at = "told", !.out = (c.before + c.occupancy) -
                         (audio_occupancy + Len(callback.taken) + Len(queued))]
        BY <1>3, <1>10, <2>3, Zenon DEF Ring!EndDelay, Ring!SameFigures
      <4>2. client' = [Ring!Resting EXCEPT !.at = "told", !.out = (x + y) - (o + m + q)]
        BY <1>4, <3>1, <4>1, Zenon
      <4> QED
        BY <3>3, <3>4, <4>2, ClientSet, Zenon
    <3> QED
      BY <1>7, <2>1, <2>2, <3>5, <3>6, <3>7
  <2>4. CASE ~ c.same
    <3>1. PICK d : d = [at |-> "first", out |-> 0, before |-> q, same |-> TRUE, occupancy |-> 0]
      OBVIOUS
    <3>2. d \in Clients /\ d.at = "first" /\ Measured(d, o, b, q)
      BY <3>1 DEF Clients, Measured
    <3>3. client' = d
      <4>1. client' = [Ring!Resting EXCEPT !.at = "first", !.before = Len(queued)]
        BY <1>3, <1>10, <2>4, Zenon DEF Ring!EndDelay, Ring!SameFigures
      <4> QED
        BY <1>4, <3>1, <4>1, ClientSet, Zenon
    <3> QED
      BY <1>7, <2>1, <2>2, <3>2, <3>3
  <2> QED
    BY <2>3, <2>4
<1> QED
  BY <1>8, <1>9, <1>10, Zenon

\* Numbers that go on with further ones
LEMMA NumbersFollow ==
  ASSUME NEW a \in Int, NEW o \in Nat, NEW k \in Nat
  PROVE  Numbers(a, o) \o Numbers(a + o, k) = Numbers(a, o + k)
<1> DEFINE s == Numbers(a, o)  t == Numbers(a + o, k)  u == Numbers(a, o + k)
<1>1. /\ s \in Seq(Int) /\ Len(s) = o /\ \A i \in 1 .. o : s[i] = a + i - 1
      /\ t \in Seq(Int) /\ Len(t) = k /\ \A i \in 1 .. k : t[i] = a + o + i - 1
      /\ u \in Seq(Int) /\ Len(u) = o + k /\ \A i \in 1 .. o + k : u[i] = a + i - 1
  BY NumbersAre
<1> HIDE DEF s, t, u
<1>2. s \o t \in Seq(Int) /\ Len(s \o t) = o + k
  BY <1>1, ConcatProperties
<1>3. ASSUME NEW i \in 1 .. o + k
      PROVE  (s \o t)[i] = u[i]
  <2>1. CASE i <= o
    <3>1. i \in 1 .. o
      BY <2>1
    <3> QED
      BY <1>1, <3>1, ConcatProperties
  <2>2. CASE i > o
    <3>1. i - o \in 1 .. k
      BY <2>2
    <3>2. (s \o t)[i] = t[i - o]
      BY <1>1, <2>2, <3>1, ConcatProperties
    <3> QED
      BY <1>1, <3>1, <3>2
  <2>3. i <= o \/ i > o
    OBVIOUS
  <2> QED
    BY <2>1, <2>2, <2>3, Zenon
<1>4. s \o t = u
  BY <1>1, <1>2, <1>3, SeqEqual
<1> QED
  BY <1>4 DEF s, t, u

\* Frames are put in.
LEMMA RingPlayKeeps ==
  ASSUME RingInv, Ring!Play
  PROVE  RingInv'
<1>1. RingTypes /\ StoreInv /\ PassedInv /\ HandInv /\ FreeInv
  BY Zenon DEF RingInv
<1>2. PICK n \in Nat \ {0}, f \in Int, o \in Nat, h \in Int, l \in Int :
        n = Len(cells) /\ f = fresh /\ o = audio_occupancy /\ h = handed /\ l = flushed
  BY <1>1, RingTypesNow, RingNumbers
<1>3. /\ toq \in 0 .. n /\ eoq \in 0 .. n /\ o \in 0 .. n /\ f \in 1 .. MaxFrames + 1
      /\ cells \in Seq(Int) /\ client \in Clients
  BY <1>1, <1>2, RingTypesNow, Zenon
<1>4. /\ backend' = backend /\ toq' = toq /\ mutex' = mutex /\ loop' = loop /\ fault' = fault
      /\ callback' = callback /\ handed' = handed /\ freed' = freed
      /\ flushed' = flushed /\ flush_please' = flush_please /\ queued' = queued
  BY DEF Ring!Play
<1>5. PICK m \in 1 .. Ring!Least(MaxAsk, MaxFrames + 1 - fresh) :
        /\ Ring!Fill(m)
        /\ client' = [client EXCEPT !.at =
             IF backend = "pulse" /\ audio_occupancy' >= Ring!Quarter /\ ~ running
               THEN "uncork" ELSE "idle"]
  BY Zenon DEF Ring!Play
<1>6. PICK k : k = Ring!Least(m, n - o)
  OBVIOUS
<1>7. k \in 0 .. n - o /\ f + k \in 1 .. MaxFrames + 1
  <2>1. m \in Nat /\ m <= MaxFrames + 1 - f
    BY <1>2, <1>3, <1>5, RingAssumption DEF Ring!Least
  <2>2. k = IF m < n - o THEN m ELSE n - o
    BY <1>6, Zenon DEF Ring!Least
  <2> QED
    BY <1>3, <2>1, <2>2, RingAssumption
<1>8. /\ cells' = Ring!Put(eoq, k) /\ eoq' = Ring!Moved(eoq, k) /\ audio_occupancy' = o + k
      /\ fresh' = f + k /\ want' = want \o Ring!Numbered(k)
  BY <1>2, <1>5, <1>6, Zenon DEF Ring!Fill, Ring!Size
<1>9. /\ cells' \in Seq(Int) /\ Len(cells') = n
      /\ eoq' \in 0 .. n
      /\ Holds(cells', toq, eoq', o + k, f + k)
  <2>1. Holds(cells, toq, eoq, o, fresh)
    BY <1>1, <1>2, Zenon DEF StoreInv
  <2>2. PICK r, e2 : r = Ring!Put(eoq, k) /\ e2 = Ring!Moved(eoq, k)
    OBVIOUS
  <2>3. fresh \in Int
    BY <1>2
  <2>4. r \in Seq(Int) /\ Len(r) = n /\ e2 \in 0 .. n /\ Holds(r, toq, e2, o + k, fresh + k)
    BY <1>2, <1>3, <1>7, <2>1, <2>2, <2>3, HoldsMore
  <2> QED
    BY <1>2, <1>8, <2>2, <2>4, Zenon
<1>10. /\ client' \in Clients /\ client'.at \in {"uncork", "idle"} /\ client.at \in {"idle", "put"}
  <2>1. client' = [client EXCEPT !.at = "uncork"] \/ client' = [client EXCEPT !.at = "idle"]
    BY <1>5, Zenon
  <2>2. client.at \in {"idle", "put"}
    BY DEF Ring!Play
  <2> QED
    BY <1>3, <2>1, <2>2 DEF Clients
<1>11. (f + k) - (o + k) = f - o /\ f + k \in Int /\ o + k \in 0 .. n /\ f <= f + k
  BY <1>3, <1>7
<1>12. RingTypes'
  <2>1. n \in Nat \ {0}
    OBVIOUS
  <2>2. /\ backend \in {"pulse", "pipewire", "jack"} /\ callback \in Callbacks
        /\ queued \in Seq(Int) /\ handed \in Int /\ flushed \in Int
        /\ freed \in BOOLEAN /\ fault \in BOOLEAN /\ flush_please \in BOOLEAN
        /\ mutex \in {"nobody", "callback"} /\ loop \in {"nobody", "callback"}
    BY <1>1, RingTypesNow, Zenon
  <2> QED
    BY <1>3, <1>4, <1>7, <1>8, <1>9, <1>10, <1>11, <2>1, <2>2, RingTypesNext, Zenon
<1>13. StoreInv'
  <2>1. want = Numbers(f - o, o)
    BY <1>1, <1>2, Zenon DEF StoreInv
  <2>2. Ring!Numbered(k) = Numbers(f, k)
    BY <1>2, Zenon DEF Ring!Numbered, Numbers
  <2>3. Numbers(f - o, o) \o Numbers((f - o) + o, k) = Numbers(f - o, o + k)
    <3>1. f - o \in Int /\ k \in Nat
      BY <1>7
    <3> QED
      BY <3>1, NumbersFollow
  <2>4. (f - o) + o = f
    OBVIOUS
  <2>5. want' = Numbers((f + k) - (o + k), o + k)
    BY <1>8, <1>11, <2>1, <2>2, <2>3, <2>4, Zenon
  <2> QED
    BY <1>4, <1>8, <1>9, <2>5, Zenon DEF StoreInv
<1>14. PassedInv'
  <2>1. /\ h < f - o /\ l < f
        /\ flush_please \/ l < f - o
    BY <1>1, <1>2, Zenon DEF PassedInv
  <2>2. l < f + k
    BY <1>11, <2>1
  <2>3. handed' = h /\ flushed' = l /\ fresh' = f + k /\ audio_occupancy' = o + k
    BY <1>2, <1>4, <1>8
  <2>4. flush_please' <=> flush_please
    BY <1>4
  <2> QED
    BY <1>11, <2>1, <2>2, <2>3, <2>4, Zenon DEF PassedInv
<1>15. HandInv'
  <2>1. /\ Handing(callback, handed, f - o)
        /\ callback.at = "copy" /\ backend = "pipewire" => callback.asked >= 1
        /\ backend = "jack" => callback.at = "idle"
    BY <1>1, <1>2, Zenon DEF HandInv
  <2> QED
    BY <1>4, <1>8, <1>11, <2>1, Zenon DEF HandInv
<1>16. FreeInv'
  <2>1. /\ freed <=> client.at \in {"disconnect", "allocate"}
        /\ EmptyOnly => ~ fault
    BY <1>1, Zenon DEF FreeInv
  <2>2. /\ client.at \notin {"disconnect", "allocate"}
        /\ client'.at \notin {"disconnect", "allocate"}
    BY <1>10
  <2>3. (freed' <=> freed) /\ (fault' <=> fault)
    BY <1>4
  <2>4. ~ freed' /\ (EmptyOnly => ~ fault')
    BY <2>1, <2>2, <2>3, Zenon
  <2> QED
    BY <2>2, <2>4, Zenon DEF FreeInv
<1>17. DelayInv'
  <2>1. client'.at \notin {"first", "second", "told"}
    BY <1>10
  <2> QED
    BY <2>1, NoDelay
<1> QED
  BY <1>12, <1>13, <1>14, <1>15, <1>16, <1>17, Zenon DEF RingInv

\* The callback's record, with some of it set
LEMMA CallbackAsked ==
  ASSUME NEW c \in Callbacks, NEW w \in {"idle", "copy", "hand", "done"}, NEW x \in 0 .. MaxAsk
  PROVE  [c EXCEPT !.at = w, !.asked = x] = [at |-> w, asked |-> x, taken |-> c.taken]
<1>1. PICK d : d = [c EXCEPT !.at = w]
  OBVIOUS
<1>2. d = [at |-> w, asked |-> c.asked, taken |-> c.taken]
  BY <1>1 DEF Callbacks
<1>3. [d EXCEPT !.asked = x] = [at |-> w, asked |-> x, taken |-> c.taken]
  BY <1>2
<1>4. [c EXCEPT !.at = w, !.asked = x] = [d EXCEPT !.asked = x]
  BY <1>1
<1> QED
  BY <1>3, <1>4, Zenon

Takes(c, w, s) == [c EXCEPT !.at = w, !.taken = s]
LEMMA CallbackTakes ==
  ASSUME NEW c \in Callbacks, NEW w \in {"idle", "copy", "hand", "done"}, NEW s \in Seq(Int)
  PROVE  Takes(c, w, s) = [at |-> w, asked |-> c.asked, taken |-> s]
<1>1. PICK d : d = [c EXCEPT !.at = w]
  OBVIOUS
<1>2. d = [at |-> w, asked |-> c.asked, taken |-> c.taken]
  BY <1>1 DEF Callbacks
<1>3. [d EXCEPT !.taken = s] = [at |-> w, asked |-> c.asked, taken |-> s]
  BY <1>2
<1>4. Takes(c, w, s) = [d EXCEPT !.taken = s]
  BY <1>1 DEF Takes
<1> QED
  BY <1>3, <1>4, Zenon

Gets(c, w, x, s) == [c EXCEPT !.at = w, !.asked = x, !.taken = s]
LEMMA CallbackGets ==
  ASSUME NEW c \in Callbacks, NEW w \in {"idle", "copy", "hand", "done"}, NEW x \in 0 .. MaxAsk,
         NEW s \in Seq(Int)
  PROVE  Gets(c, w, x, s) = [at |-> w, asked |-> x, taken |-> s]
<1>1. PICK e : e = [c EXCEPT !.at = w, !.asked = x]
  OBVIOUS
<1>2. e = [at |-> w, asked |-> x, taken |-> c.taken]
  BY <1>1, CallbackAsked, Zenon
<1>3. [e EXCEPT !.taken = s] = [at |-> w, asked |-> x, taken |-> s]
  BY <1>2
<1>4. Gets(c, w, x, s) = [e EXCEPT !.taken = s]
  BY <1>1 DEF Gets
<1> QED
  BY <1>3, <1>4, Zenon

\* What a callback has in its hands, and how much of it
LEMMA InHand ==
  ASSUME RingInv
  PROVE  /\ callback.taken \in Seq(Int) /\ Len(callback.taken) \in 0 .. MaxAsk
         /\ callback.at = "hand" => Len(callback.taken) >= 1
         /\ callback.at /= "hand" => callback.taken = << >> /\ Len(callback.taken) = 0
<1>1. RingTypes /\ HandInv
  BY Zenon DEF RingInv
<1>2. callback.taken \in Seq(Int)
  BY <1>1, RingTypesNow DEF Callbacks
<1>3. ASSUME callback.at = "hand"
      PROVE  Len(callback.taken) \in 1 .. MaxAsk
  BY <1>1, <1>3, Zenon DEF HandInv, Handing
<1>4. ASSUME callback.at /= "hand"
      PROVE  callback.taken = << >> /\ Len(callback.taken) = 0
  <2>1. callback.taken = << >>
    BY <1>1, <1>4, Zenon DEF HandInv, Handing
  <2> QED
    BY <2>1
<1>5. CASE callback.at = "hand"
  BY <1>2, <1>3, <1>5
<1>6. CASE callback.at /= "hand"
  <2>1. 0 \in 0 .. MaxAsk
    BY RingAssumption
  <2> QED
    BY <1>2, <1>4, <1>6, <2>1, Zenon
<1> QED
  BY <1>5, <1>6, Zenon

\* The steps of the server's thread that leave the ring as it is
LEMMA CallbackKeeps ==
  ASSUME RingInv, NEW d \in Callbacks, callback' = d,
         UNCHANGED <<backend, cells, toq, eoq, audio_occupancy, freed, fresh, want, flushed,
                     flush_please, fault>>,
         mutex' \in {"nobody", "callback"}, loop' \in {"nobody", "callback"},
         queued' \in Seq(Int), handed' \in Int, handed' < fresh - audio_occupancy,
         Handing(d, handed', fresh - audio_occupancy),
         d.at = "copy" /\ backend = "pipewire" => d.asked >= 1,
         backend = "jack" => d.at = "idle",
         client' \in Clients, client'.at = client.at,
         Measured(client', audio_occupancy, d, Len(queued'))
  PROVE  RingInv'
<1>1. RingTypes /\ StoreInv /\ PassedInv /\ FreeInv /\ DelayInv
  BY Zenon DEF RingInv
<1>2. /\ backend' = backend /\ cells' = cells /\ toq' = toq /\ eoq' = eoq /\ freed' = freed
      /\ audio_occupancy' = audio_occupancy /\ fault' = fault /\ fresh' = fresh /\ want' = want
      /\ flushed' = flushed /\ flush_please' = flush_please
  OBVIOUS
<1>3. RingTypes'
  <2>1. callback' \in Callbacks
    OBVIOUS
  <2> QED
    BY <1>1, <1>2, <2>1, RingTypesNow, RingTypesNext, Zenon
<1>4. StoreInv'
  BY <1>1, <1>2, StoreStays
<1>5. PassedInv'
  <2>1. flushed < fresh /\ (flush_please \/ flushed < fresh - audio_occupancy)
    BY <1>1, Zenon DEF PassedInv
  <2>2. flush_please' <=> flush_please
    BY <1>2
  <2> QED
    BY <1>2, <2>1, <2>2, Zenon DEF PassedInv
<1>6. HandInv'
  BY <1>2, Zenon DEF HandInv
<1>7. FreeInv'
  <2>1. client'.at \in {"disconnect", "allocate"} <=> client.at \in {"disconnect", "allocate"}
    OBVIOUS
  <2> QED
    BY <1>1, <1>2, <2>1, FreeStays
<1>8. DelayInv'
  <2>1. client.at \in {"first", "second"} => backend = "pipewire"
    BY <1>1, Zenon DEF DelayInv
  <2> QED
    BY <1>2, <2>1, Zenon DEF DelayInv
<1> QED
  BY <1>3, <1>4, <1>5, <1>6, <1>7, <1>8, Zenon DEF RingInv

\* The figures have changed, or are not being read.
LEMMA FiguresKeep ==
  ASSUME RingInv, Ring!Figures, NEW d, NEW q
  PROVE  /\ client' \in Clients /\ client'.at = client.at
         /\ Measured(client', audio_occupancy, d, q)
<1>1. RingTypes /\ DelayInv
  BY Zenon DEF RingInv
<1>2. client \in Clients
  BY <1>1, RingTypesNow, Zenon
<1>3. client.at = "told" => client.out \in -MaxAsk .. 0
  BY <1>1, Zenon DEF DelayInv, Measured
<1>4. CASE client.at \in {"first", "second"}
  <2>1. client' = [client EXCEPT !.same = FALSE]
    BY <1>4, Zenon DEF Ring!Figures
  <2>2. client' \in Clients /\ client'.at = client.at /\ ~ client'.same
    BY <1>2, <2>1 DEF Clients
  <2>3. client'.at /= "told"
    BY <1>4, <2>2
  <2> QED
    BY <2>2, <2>3, Zenon DEF Measured
<1>5. CASE client.at \notin {"first", "second"}
  <2>1. client' = client
    BY <1>5, Zenon DEF Ring!Figures
  <2> QED
    BY <1>2, <1>3, <1>5, <2>1, Zenon DEF Measured
<1> QED
  BY <1>4, <1>5, Zenon

\* A callback that has had nothing in its hands disturbs no delay that is being measured.
LEMMA StillMeasured ==
  ASSUME RingInv, callback.at /= "hand", NEW d, Len(d.taken) \in 0 .. MaxAsk
  PROVE  Measured(client, audio_occupancy, d, Len(queued))
<1>1. RingTypes /\ DelayInv
  BY Zenon DEF RingInv
<1>2. Measured(client, audio_occupancy, callback, Len(queued))
  BY <1>1, Zenon DEF DelayInv
<1>3. PICK o \in Nat, m \in 0 .. MaxAsk : o = audio_occupancy /\ m = Len(d.taken)
  BY <1>1, RingNumbers
<1>4. ASSUME client.at = "second", client.same
      PROVE  client.occupancy = o /\ o - o - m \in -MaxAsk .. 0
  <2>1. client.occupancy = o
    BY <1>2, <1>3, <1>4, Zenon DEF Measured
  <2> QED
    BY <2>1, RingAssumption
<1>5. ASSUME client.at = "second", client.same
      PROVE  client.occupancy - audio_occupancy - Len(d.taken) \in -MaxAsk .. 0
  BY <1>3, <1>4, <1>5, Zenon
<1> QED
  BY <1>2, <1>3, <1>4, <1>5, Zenon DEF Measured

LEMMA BeginCallbackKeeps ==
  ASSUME RingInv, Ring!BeginCallback
  PROVE  RingInv'
<1>1. RingTypes /\ PassedInv
  BY Zenon DEF RingInv
<1>2. /\ UNCHANGED <<backend, cells, toq, eoq, audio_occupancy, freed, fresh, want, flushed,
                     flush_please, fault, queued, client, handed>>
      /\ backend /= "jack" /\ callback.at = "idle" /\ mutex' = "callback"
  BY DEF Ring!BeginCallback
<1>3. loop' \in {"nobody", "callback"} /\ mutex' \in {"nobody", "callback"}
  <2>1. loop' = loop \/ loop' = "callback"
    BY Zenon DEF Ring!BeginCallback
  <2>2. loop \in {"nobody", "callback"}
    BY <1>1, RingTypesNow, Zenon
  <2> QED
    BY <1>2, <2>1, <2>2
<1>4. PICK n \in 1 .. MaxAsk : callback' = [Ring!Idle EXCEPT !.at = "copy", !.asked = n]
  BY Zenon DEF Ring!BeginCallback
<1>5. PICK d : d = [at |-> "copy", asked |-> n, taken |-> << >>]
  OBVIOUS
<1>6. callback' = d
  <2>1. Ring!Idle \in Callbacks /\ Ring!Idle.taken = << >> /\ n \in 0 .. MaxAsk
        /\ "copy" \in {"idle", "copy", "hand", "done"} /\ << >> \in Seq(Int)
    BY RingAssumption DEF Ring!Idle, Callbacks
  <2>2. [Ring!Idle EXCEPT !.at = "copy", !.asked = n]
          = [at |-> "copy", asked |-> n, taken |-> Ring!Idle.taken]
    BY <2>1, CallbackAsked
  <2> QED
    BY <1>4, <1>5, <2>1, <2>2, Zenon
<1>7. d \in Callbacks /\ d.at = "copy" /\ d.asked >= 1 /\ d.taken = << >>
  <2>1. n \in 0 .. MaxAsk /\ n >= 1
    OBVIOUS
  <2> QED
    BY <1>5, <2>1 DEF Callbacks
<1>8. Handing(d, handed', fresh - audio_occupancy)
  BY <1>7 DEF Handing
<1>9. Measured(client', audio_occupancy, d, Len(queued'))
  <2>1. Len(d.taken) \in 0 .. MaxAsk /\ callback.at /= "hand"
    BY <1>2, <1>7, RingAssumption
  <2>2. Measured(client, audio_occupancy, d, Len(queued))
    BY <2>1, StillMeasured
  <2> QED
    BY <1>2, <2>2, Zenon
<1>10. /\ queued' \in Seq(Int) /\ handed' \in Int /\ handed' < fresh - audio_occupancy
       /\ client' \in Clients /\ client'.at = client.at
  <2>1. queued' = queued /\ handed' = handed /\ client' = client
    BY <1>2
  <2>2. handed < fresh - audio_occupancy
    BY <1>1, Zenon DEF PassedInv
  <2> QED
    BY <1>1, <2>1, <2>2, RingTypesNow, Zenon
<1> QED
  BY <1>2, <1>3, <1>6, <1>7, <1>8, <1>9, <1>10, CallbackKeeps

LEMMA SilenceKeeps ==
  ASSUME RingInv, Ring!Silence
  PROVE  RingInv'
<1>1. RingTypes /\ PassedInv /\ HandInv
  BY Zenon DEF RingInv
<1>2. /\ UNCHANGED <<backend, cells, toq, eoq, audio_occupancy, freed, fresh, want, flushed,
                     flush_please, fault, queued, client, handed, mutex, loop>>
      /\ callback.at = "copy" /\ backend = "pipewire"
      /\ callback' = [callback EXCEPT !.at = "hand", !.taken = [i \in 1 .. callback.asked |-> 0]]
  BY DEF Ring!Silence
<1>3. PICK n \in 1 .. MaxAsk : n = callback.asked
  <2>1. callback.asked >= 1
    BY <1>1, <1>2, Zenon DEF HandInv
  <2>2. callback.asked \in 0 .. MaxAsk
    BY <1>1, RingTypesNow DEF Callbacks
  <2> QED
    BY <2>1, <2>2, RingAssumption
<1>4. PICK s : s = [i \in 1 .. n |-> 0]
  OBVIOUS
<1>5. s \in Seq(Int) /\ Len(s) = n /\ s[n] = 0
  BY <1>4
<1>6. PICK d : d = [at |-> "hand", asked |-> n, taken |-> s]
  OBVIOUS
<1>7. callback' = d
  <2>1. /\ callback \in Callbacks /\ "hand" \in {"idle", "copy", "hand", "done"}
        /\ n \in 0 .. MaxAsk
    BY <1>1, RingTypesNow, RingAssumption
  <2>2. Takes(callback, "hand", s) = [at |-> "hand", asked |-> callback.asked, taken |-> s]
    BY <1>5, <2>1, CallbackTakes, Zenon
  <2> QED
    BY <1>2, <1>3, <1>4, <1>6, <2>2, Zenon DEF Takes
<1>8. d \in Callbacks /\ d.at = "hand" /\ d.taken = s
  <2>1. n \in 0 .. MaxAsk
    OBVIOUS
  <2> QED
    BY <1>5, <1>6, <2>1 DEF Callbacks
<1>9. Handing(d, handed', fresh - audio_occupancy)
  BY <1>5, <1>8, Zenon DEF Handing
<1>10. Measured(client', audio_occupancy, d, Len(queued'))
  <2>1. Len(d.taken) \in 0 .. MaxAsk /\ callback.at /= "hand"
    BY <1>2, <1>5, <1>8, RingAssumption
  <2>2. Measured(client, audio_occupancy, d, Len(queued))
    BY <2>1, StillMeasured
  <2> QED
    BY <1>2, <2>2, Zenon
<1>11. /\ queued' \in Seq(Int) /\ handed' \in Int /\ handed' < fresh - audio_occupancy
       /\ client' \in Clients /\ client'.at = client.at
       /\ mutex' \in {"nobody", "callback"} /\ loop' \in {"nobody", "callback"}
  <2>1. /\ queued' = queued /\ handed' = handed /\ client' = client /\ mutex' = mutex
        /\ loop' = loop
    BY <1>2
  <2>2. handed < fresh - audio_occupancy
    BY <1>1, Zenon DEF PassedInv
  <2> QED
    BY <1>1, <2>1, <2>2, RingTypesNow, Zenon
<1> QED
  BY <1>2, <1>7, <1>8, <1>9, <1>10, <1>11, CallbackKeeps

LEMMA EndCallbackKeeps ==
  ASSUME RingInv, Ring!EndCallback
  PROVE  RingInv'
<1>1. RingTypes /\ PassedInv
  BY Zenon DEF RingInv
<1>2. /\ UNCHANGED <<backend, cells, toq, eoq, audio_occupancy, freed, fresh, want, flushed,
                     flush_please, fault, queued, client, handed>>
      /\ callback.at \in {"done", "copy"}
      /\ mutex' = "nobody" /\ loop' = "nobody"
  BY DEF Ring!EndCallback
<1>3. PICK d : d = [at |-> "idle", asked |-> 0, taken |-> << >>]
  OBVIOUS
<1>4. callback' = d
  BY <1>3, Zenon DEF Ring!EndCallback, Ring!Idle
<1>5. d \in Callbacks /\ d.at = "idle" /\ d.taken = << >>
  BY <1>3, RingAssumption DEF Callbacks
<1>6. Handing(d, handed', fresh - audio_occupancy)
  BY <1>5 DEF Handing
<1>7. Measured(client', audio_occupancy, d, Len(queued'))
  <2>1. Len(d.taken) \in 0 .. MaxAsk /\ callback.at /= "hand"
    BY <1>2, <1>5, RingAssumption
  <2>2. Measured(client, audio_occupancy, d, Len(queued))
    BY <2>1, StillMeasured
  <2> QED
    BY <1>2, <2>2, Zenon
<1>8. /\ queued' \in Seq(Int) /\ handed' \in Int /\ handed' < fresh - audio_occupancy
      /\ client' \in Clients /\ client'.at = client.at
  <2>1. queued' = queued /\ handed' = handed /\ client' = client
    BY <1>2
  <2>2. handed < fresh - audio_occupancy
    BY <1>1, Zenon DEF PassedInv
  <2> QED
    BY <1>1, <2>1, <2>2, RingTypesNow, Zenon
<1> QED
  BY <1>2, <1>4, <1>5, <1>6, <1>7, <1>8, CallbackKeeps

LEMMA HandOverKeeps ==
  ASSUME RingInv, Ring!HandOver
  PROVE  RingInv'
<1>1. RingTypes /\ PassedInv /\ HandInv
  BY Zenon DEF RingInv
<1>2. /\ UNCHANGED <<backend, cells, toq, eoq, audio_occupancy, freed, fresh, want, flushed,
                     flush_please, fault, mutex, loop>>
      /\ callback.at = "hand" /\ queued' = queued \o callback.taken
      /\ handed' = IF Ring!Last(callback.taken) = 0 THEN handed ELSE Ring!Last(callback.taken)
      /\ Ring!Figures
  BY DEF Ring!HandOver
<1>3. PICK w \in {"copy", "done"} :
        callback' = [callback EXCEPT !.at = w, !.taken = << >>] /\ (w = "copy" => backend = "pulse")
  BY Zenon DEF Ring!HandOver
<1>4. PICK b \in Callbacks, q \in Seq(Int) : b = callback /\ q = callback.taken
  BY <1>1, InHand, RingTypesNow, Zenon
<1>5. Len(q) \in Nat /\ Len(q) >= 1 /\ q[Len(q)] \in Int
  <2>1. Len(q) \in Nat /\ Len(q) >= 1
    BY <1>2, <1>4, InHand
  <2> QED
    BY <2>1, ElementOfSeq
<1>6. PICK d : d = [at |-> w, asked |-> b.asked, taken |-> << >>]
  OBVIOUS
<1>7. callback' = d
  <2>1. /\ w \in {"idle", "copy", "hand", "done"} /\ << >> \in Seq(Int) /\ 0 \in 0 .. MaxAsk
    BY RingAssumption
  <2>2. PICK s \in Seq(Int) : s = << >>
    BY <2>1
  <2>3. Takes(b, w, s) = [at |-> w, asked |-> b.asked, taken |-> s]
    <3>1. b \in Callbacks /\ w \in {"idle", "copy", "hand", "done"} /\ s \in Seq(Int)
      BY <2>1
    <3> QED
      BY <3>1, CallbackTakes, Zenon
  <2> QED
    BY <1>3, <1>4, <1>6, <2>2, <2>3, Zenon DEF Takes
<1>8. d \in Callbacks /\ d.at = w /\ d.taken = << >>
  BY <1>6 DEF Callbacks
<1>9. PICK h \in Int, x \in Int : h = handed /\ x = fresh - audio_occupancy
  BY <1>1, RingNumbers
<1>10. h < x /\ (q[Len(q)] = 0 \/ q[Len(q)] < x)
  <2>1. h < x
    BY <1>1, <1>9, Zenon DEF PassedInv
  <2>2. q[Len(q)] = 0 \/ q[Len(q)] < x
    BY <1>1, <1>2, <1>4, <1>9, Zenon DEF HandInv, Handing
  <2> QED
    BY <2>1, <2>2
<1>11. handed' = IF q[Len(q)] = 0 THEN h ELSE q[Len(q)]
  BY <1>2, <1>4, <1>9, Zenon DEF Ring!Last
<1>12. handed' \in Int /\ handed' < fresh - audio_occupancy
  BY <1>5, <1>9, <1>10, <1>11
<1>13. queued' \in Seq(Int)
  <2>1. queued \in Seq(Int)
    BY <1>1, RingTypesNow, Zenon
  <2>2. queued \o q \in Seq(Int)
    BY <2>1, ConcatProperties
  <2> QED
    BY <1>2, <1>4, <2>2, Zenon
<1>14. Handing(d, handed', fresh - audio_occupancy)
  <2>1. d.at /= "hand"
    BY <1>8
  <2> QED
    BY <1>8, <2>1, Zenon DEF Handing
<1>15. /\ client' \in Clients /\ client'.at = client.at
       /\ Measured(client', audio_occupancy, d, Len(queued'))
  BY <1>2, FiguresKeep, Zenon
<1>16. /\ mutex' \in {"nobody", "callback"} /\ loop' \in {"nobody", "callback"}
  <2>1. mutex' = mutex /\ loop' = loop
    BY <1>2
  <2> QED
    BY <1>1, <2>1, RingTypesNow, Zenon
<1>17. (d.at = "copy" /\ backend = "pipewire" => d.asked >= 1) /\ backend /= "jack"
  <2>1. d.at = "copy" => backend = "pulse"
    BY <1>3, <1>8
  <2>2. backend = "jack" => callback.at = "idle"
    BY <1>1, Zenon DEF HandInv
  <2> QED
    BY <1>2, <2>1, <2>2
<1> QED
  BY <1>2, <1>7, <1>8, <1>12, <1>13, <1>14, <1>15, <1>16, <1>17, CallbackKeeps

LEMMA HeardKeeps ==
  ASSUME RingInv, Ring!Heard
  PROVE  RingInv'
<1>1. RingTypes /\ PassedInv /\ HandInv
  BY Zenon DEF RingInv
<1>2. /\ UNCHANGED <<backend, cells, toq, eoq, audio_occupancy, freed, fresh, want, flushed,
                     flush_please, fault, mutex, loop, callback, handed>>
      /\ queued /= << >> /\ queued' = Tail(queued)
      /\ Ring!Figures
  BY DEF Ring!Heard
<1>3. PICK d \in Callbacks : d = callback
  BY <1>1, RingTypesNow, Zenon
<1>4. callback' = d /\ handed' = handed /\ mutex' = mutex /\ loop' = loop
  BY <1>2, <1>3
<1>5. queued' \in Seq(Int)
  <2>1. queued \in Seq(Int)
    BY <1>1, RingTypesNow, Zenon
  <2> QED
    BY <1>2, <2>1, HeadTailProperties
<1>6. /\ client' \in Clients /\ client'.at = client.at
      /\ Measured(client', audio_occupancy, d, Len(queued'))
  BY <1>2, FiguresKeep, Zenon
<1>7. /\ Handing(d, handed', fresh - audio_occupancy)
      /\ d.at = "copy" /\ backend = "pipewire" => d.asked >= 1
      /\ backend = "jack" => d.at = "idle"
  BY <1>1, <1>3, <1>4, Zenon DEF HandInv
<1>8. /\ handed' \in Int /\ handed' < fresh - audio_occupancy
      /\ mutex' \in {"nobody", "callback"} /\ loop' \in {"nobody", "callback"}
  <2>1. handed < fresh - audio_occupancy
    BY <1>1, Zenon DEF PassedInv
  <2> QED
    BY <1>1, <1>4, <2>1, RingTypesNow, Zenon
<1> QED
  BY <1>2, <1>4, <1>5, <1>6, <1>7, <1>8, CallbackKeeps

\* Numbers without the first of them
LEMMA NumbersTail ==
  ASSUME NEW a \in Int, NEW o \in Nat, NEW k \in 0 .. o
  PROVE  SubSeq(Numbers(a, o), k + 1, Len(Numbers(a, o))) = Numbers(a + k, o - k)
<1> DEFINE s == Numbers(a, o)  u == Numbers(a + k, o - k)
<1>1. /\ s \in Seq(Int) /\ Len(s) = o /\ \A i \in 1 .. o : s[i] = a + i - 1
      /\ u \in Seq(Int) /\ Len(u) = o - k /\ \A i \in 1 .. o - k : u[i] = a + k + i - 1
  <2>1. a + k \in Int /\ o - k \in Nat
    OBVIOUS
  <2> QED
    BY <2>1, NumbersAre
<1> HIDE DEF s, u
<1>2. PICK v : v = SubSeq(s, k + 1, o)
  OBVIOUS
<1>3. v \in Seq(Int) /\ Len(v) = o - k /\ \A i \in 1 .. o - k : v[i] = s[k + i]
  <2>1. /\ k + 1 \in 1 .. Len(s) + 1 /\ o \in k + 1 - 1 .. Len(s)
    BY <1>1
  <2>2. /\ v \in Seq(Int)
        /\ Len(v) = IF k + 1 <= o THEN o - (k + 1) + 1 ELSE 0
        /\ \A i \in 1 .. o - (k + 1) + 1 : v[i] = s[k + 1 + i - 1]
    BY <1>1, <1>2, <2>1, SubSeqProperties
  <2>3. o - (k + 1) + 1 = o - k /\ \A i \in 1 .. o - k : k + 1 + i - 1 = k + i
    OBVIOUS
  <2>4. Len(v) = o - k
    BY <2>2
  <2>5. \A i \in 1 .. o - k : v[i] = s[k + i]
    BY <2>2, <2>3
  <2> QED
    BY <2>2, <2>4, <2>5
<1>4. ASSUME NEW i \in 1 .. o - k
      PROVE  v[i] = u[i]
  <2>1. k + i \in 1 .. o
    OBVIOUS
  <2> QED
    BY <1>1, <1>3, <2>1
<1>5. v = u
  BY <1>1, <1>3, <1>4, SeqEqual
<1> QED
  BY <1>1, <1>2, <1>5 DEF s, u

\* Frames leave the ring: k of the o that are there.
LEMMA TakesKeep ==
  ASSUME RingInv, NEW k \in 0 .. audio_occupancy, toq' = Ring!Moved(toq, k),
         audio_occupancy' = audio_occupancy - k, want' = SubSeq(want, k + 1, Len(want)),
         UNCHANGED <<cells, eoq, fresh>>
  PROVE  /\ toq' \in 0 .. Len(cells) /\ audio_occupancy' \in 0 .. audio_occupancy
         /\ StoreInv'
         /\ Ring!Taken(k) = Numbers(fresh - audio_occupancy, k)
<1>1. RingTypes /\ StoreInv
  BY Zenon DEF RingInv
<1>2. PICK n \in Nat \ {0}, f \in Int, o \in Nat :
        n = Len(cells) /\ f = fresh /\ o = audio_occupancy
  BY <1>1, RingTypesNow, RingNumbers
<1>3. toq \in 0 .. n /\ eoq \in 0 .. n /\ o \in 0 .. n /\ k \in 0 .. o
  BY <1>1, <1>2, RingTypesNow, Zenon
<1>4. Holds(cells, toq, eoq, o, f) /\ want = Numbers(f - o, o)
  BY <1>1, <1>2, Zenon DEF StoreInv
<1>5. PICK t2 : t2 = Ring!Moved(toq, k)
  OBVIOUS
<1>6. t2 \in 0 .. n /\ Holds(cells, t2, eoq, o - k, f) /\ Ring!Taken(k) = Numbers(f - o, k)
  BY <1>2, <1>3, <1>4, <1>5, HoldsLess
<1>7. SubSeq(want, k + 1, Len(want)) = Numbers(f - (o - k), o - k)
  <2>1. f - o \in Int /\ (f - o) + k = f - (o - k)
    BY <1>3
  <2>2. SubSeq(Numbers(f - o, o), k + 1, Len(Numbers(f - o, o))) = Numbers((f - o) + k, o - k)
    BY <1>3, <2>1, NumbersTail
  <2> QED
    BY <1>4, <2>1, <2>2, Zenon
<1>8. /\ toq' = t2 /\ audio_occupancy' = o - k /\ cells' = cells /\ eoq' = eoq /\ fresh' = f
      /\ want' = Numbers(f - (o - k), o - k)
  BY <1>2, <1>5, <1>7
<1>9. StoreInv'
  BY <1>6, <1>8, Zenon DEF StoreInv
<1>10. o - k \in 0 .. o
  BY <1>3
<1> QED
  BY <1>2, <1>6, <1>8, <1>9, <1>10, Zenon

LEMMA CopyOutKeeps ==
  ASSUME RingInv, Ring!CopyOut
  PROVE  RingInv'
<1>1. RingTypes /\ StoreInv /\ PassedInv /\ HandInv /\ FreeInv /\ DelayInv
  BY Zenon DEF RingInv
<1>2. /\ callback.at = "copy" /\ audio_occupancy > 0
      /\ fault' = (fault \/ freed)
      /\ UNCHANGED <<backend, cells, eoq, freed, mutex, loop, flush_please, queued, client, fresh,
                     flushed, handed>>
  BY DEF Ring!CopyOut
<1>3. PICK k \in 1 .. Ring!Least(callback.asked, audio_occupancy) :
        /\ callback' = [callback EXCEPT !.at = "hand", !.asked = @ - k, !.taken = Ring!Taken(k)]
        /\ toq' = Ring!Moved(toq, k)
        /\ audio_occupancy' = audio_occupancy - k
        /\ want' = SubSeq(want, k + 1, Len(want))
  BY Zenon DEF Ring!CopyOut
<1>4. PICK f \in Int, o \in Nat, h \in Int, l \in Int :
        f = fresh /\ o = audio_occupancy /\ h = handed /\ l = flushed
  BY <1>1, RingNumbers
<1>5. PICK b \in Callbacks, a \in 0 .. MaxAsk : b = callback /\ a = callback.asked
  <2>1. callback \in Callbacks
    BY <1>1, RingTypesNow, Zenon
  <2>2. callback.asked \in 0 .. MaxAsk
    BY <2>1 DEF Callbacks
  <2> QED
    BY <2>1, <2>2
<1>6. k \in 1 .. o /\ k \in 1 .. MaxAsk /\ a - k \in 0 .. MaxAsk
  <2>1. k \in 1 .. (IF a < o THEN a ELSE o)
    BY <1>3, <1>4, <1>5, Zenon DEF Ring!Least
  <2> QED
    BY <2>1, RingAssumption
<1>7. /\ toq' \in 0 .. Len(cells) /\ audio_occupancy' \in 0 .. audio_occupancy
      /\ StoreInv'
      /\ Ring!Taken(k) = Numbers(f - o, k)
  <2>1. k \in 0 .. audio_occupancy
    BY <1>4, <1>6
  <2>2. UNCHANGED <<cells, eoq, fresh>>
    BY <1>2
  <2> QED
    BY <1>3, <1>4, <2>1, <2>2, TakesKeep, Zenon
<1>8. PICK s : s = Numbers(f - o, k)
  OBVIOUS
<1>9. /\ s \in Seq(Int) /\ Len(s) = k /\ s[1] = f - o /\ s[k] = f - o + k - 1
  <2>1. f - o \in Int /\ k \in Nat /\ 1 \in 1 .. k /\ k \in 1 .. k
    BY <1>6
  <2>2. /\ Numbers(f - o, k) \in Seq(Int) /\ Len(Numbers(f - o, k)) = k
        /\ \A i \in 1 .. k : Numbers(f - o, k)[i] = (f - o) + i - 1
    BY <2>1, NumbersAre
  <2> QED
    BY <1>8, <2>1, <2>2
<1>10. PICK d : d = [at |-> "hand", asked |-> a - k, taken |-> s]
  OBVIOUS
<1>11. callback' = d
  <2>1. /\ b \in Callbacks /\ "hand" \in {"idle", "copy", "hand", "done"}
        /\ a - k \in 0 .. MaxAsk /\ s \in Seq(Int)
    BY <1>6, <1>9
  <2>2. Gets(b, "hand", a - k, s) = [at |-> "hand", asked |-> a - k, taken |-> s]
    BY <2>1, CallbackGets, Zenon
  <2>3. [b EXCEPT !.at = "hand", !.asked = @ - k, !.taken = s] = Gets(b, "hand", a - k, s)
    BY <1>5 DEF Gets
  <2> QED
    BY <1>3, <1>5, <1>7, <1>8, <1>10, <2>2, <2>3, Zenon
<1>12. d \in Callbacks /\ d.at = "hand" /\ d.taken = s /\ Len(d.taken) = k
  BY <1>6, <1>9, <1>10 DEF Callbacks
<1>13. fresh' = f /\ audio_occupancy' = o - k /\ handed' = h /\ flushed' = l
  BY <1>2, <1>3, <1>4
<1>14. RingTypes'
  <2>1. audio_occupancy' \in 0 .. Len(cells)
    BY <1>1, <1>7, RingNumbers
  <2>2. cells' = cells /\ eoq' = eoq /\ backend' = backend
        /\ freed' = freed /\ mutex' = mutex /\ loop' = loop /\ flush_please' = flush_please
        /\ queued' = queued /\ client' = client /\ fresh' = fresh /\ flushed' = flushed
        /\ handed' = handed
    BY <1>2
  <2>3. fault' \in BOOLEAN
    BY <1>2, Zenon
  <2> QED
    BY <1>1, <1>7, <1>11, <1>12, <2>1, <2>2, <2>3, RingTypesNow, RingTypesNext, Zenon
<1>15. PassedInv'
  <2>1. h < f - o /\ l < f /\ (flush_please \/ l < f - o)
    BY <1>1, <1>4, Zenon DEF PassedInv
  <2>2. f - o < f - (o - k)
    BY <1>6
  <2>3. h < f - (o - k) /\ l < f /\ (flush_please \/ l < f - (o - k))
    BY <1>6, <2>1, <2>2
  <2>4. flush_please' <=> flush_please
    BY <1>2
  <2> QED
    BY <1>13, <2>3, <2>4, Zenon DEF PassedInv
<1>16. HandInv'
  <2>1. h < s[1] /\ s[Len(s)] < f - (o - k)
    <3>1. h < f - o
      BY <1>1, <1>4, Zenon DEF PassedInv
    <3> QED
      BY <1>6, <1>9, <3>1
  <2>2. s = Numbers(s[1], Len(s)) /\ Len(s) \in 1 .. MaxAsk
    BY <1>6, <1>8, <1>9
  <2>3. Handing(d, h, f - (o - k))
    BY <1>12, <2>1, <2>2, Zenon DEF Handing
  <2>4. backend' /= "jack"
    <3>1. backend = "jack" => callback.at = "idle"
      BY <1>1, Zenon DEF HandInv
    <3> QED
      BY <1>2, <3>1
  <2>5. callback'.at /= "copy"
    BY <1>11, <1>12
  <2> QED
    BY <1>11, <1>13, <2>3, <2>4, <2>5, Zenon DEF HandInv
<1>17. FreeInv'
  <2>1. /\ freed <=> client.at \in {"disconnect", "allocate"}
        /\ EmptyOnly => ~ fault /\ (freed => audio_occupancy = 0)
    BY <1>1, Zenon DEF FreeInv
  <2>2. audio_occupancy /= 0
    BY <1>2
  <2>3. EmptyOnly => ~ fault /\ ~ freed
    BY <2>1, <2>2, Zenon
  <2>4. (freed' <=> freed) /\ client' = client /\ (fault' <=> fault \/ freed)
    BY <1>2
  <2> QED
    BY <2>1, <2>3, <2>4, Zenon DEF FreeInv
<1>18. DelayInv'
  <2>1. /\ client.at \in {"first", "second"} => backend = "pipewire"
        /\ Measured(client, o, b, Len(queued))
    BY <1>1, <1>4, <1>5, Zenon DEF DelayInv
  <2>2. ASSUME client.at = "second", client.same
        PROVE  client.occupancy - (o - k) - Len(d.taken) \in -MaxAsk .. 0
    <3>1. b.at /= "hand"
      BY <1>2, <1>5
    <3>2. client.occupancy = o
      BY <2>1, <2>2, <3>1, Zenon DEF Measured
    <3>3. o - (o - k) - k \in -MaxAsk .. 0
      BY <1>6, RingAssumption
    <3> QED
      BY <1>12, <3>2, <3>3, Zenon
  <2>3. Measured(client, o - k, d, Len(queued))
    BY <1>12, <2>1, <2>2, Zenon DEF Measured
  <2>4. client' = client /\ queued' = queued /\ backend' = backend
    BY <1>2
  <2> QED
    BY <1>11, <1>13, <2>1, <2>3, <2>4, Zenon DEF DelayInv
<1> QED
  BY <1>7, <1>14, <1>15, <1>16, <1>17, <1>18, Zenon DEF RingInv

\* JACK's callback, in one step
LEMMA RingProcessKeeps ==
  ASSUME RingInv, Ring!Process
  PROVE  RingInv'
<1>1. RingTypes /\ StoreInv /\ PassedInv /\ HandInv /\ FreeInv /\ DelayInv
  BY Zenon DEF RingInv
<1>2. /\ backend = "jack" /\ flush_please' = FALSE
      /\ UNCHANGED <<backend, cells, eoq, freed, mutex, loop, callback, client, fresh, flushed,
                     fault>>
  BY DEF Ring!Process
<1>3. PICK f \in Int, o \in Nat, h \in Int, l \in Int :
        f = fresh /\ o = audio_occupancy /\ h = handed /\ l = flushed
  BY <1>1, RingNumbers
<1>4. PICK m \in 1 .. MaxAsk :
        LET k == IF flush_please THEN audio_occupancy ELSE Ring!Least(m, audio_occupancy)
        IN  /\ toq' = Ring!Moved(toq, k)
            /\ audio_occupancy' = audio_occupancy - k
            /\ want' = SubSeq(want, k + 1, Len(want))
            /\ queued' = IF flush_please \/ k = 0 THEN queued ELSE queued \o Ring!Taken(k)
            /\ handed' = IF flush_please \/ k = 0 THEN handed ELSE Ring!Last(Ring!Taken(k))
  BY Zenon DEF Ring!Process
<1>5. PICK k : k = IF flush_please THEN audio_occupancy ELSE Ring!Least(m, audio_occupancy)
  OBVIOUS
<1>6. /\ toq' = Ring!Moved(toq, k)
      /\ audio_occupancy' = audio_occupancy - k
      /\ want' = SubSeq(want, k + 1, Len(want))
      /\ queued' = IF flush_please \/ k = 0 THEN queued ELSE queued \o Ring!Taken(k)
      /\ handed' = IF flush_please \/ k = 0 THEN handed ELSE Ring!Last(Ring!Taken(k))
  BY <1>4, <1>5, Zenon
<1>7. k \in 0 .. o /\ (flush_please => k = o)
  <2>1. k = o \/ k = (IF m < o THEN m ELSE o)
    BY <1>3, <1>5, Zenon DEF Ring!Least
  <2>2. flush_please => k = o
    BY <1>3, <1>5, Zenon
  <2>3. k \in 0 .. o
    BY <2>1, RingAssumption
  <2> QED
    BY <2>2, <2>3, Zenon
<1>8. /\ toq' \in 0 .. Len(cells) /\ audio_occupancy' \in 0 .. audio_occupancy
      /\ StoreInv'
      /\ Ring!Taken(k) = Numbers(f - o, k)
  <2>1. k \in 0 .. audio_occupancy
    BY <1>3, <1>7
  <2>2. UNCHANGED <<cells, eoq, fresh>>
    BY <1>2
  <2> QED
    BY <1>3, <1>6, <2>1, <2>2, TakesKeep, Zenon
<1>9. PICK s : s = Numbers(f - o, k)
  OBVIOUS
<1>10. s \in Seq(Int) /\ Len(s) = k /\ (k /= 0 => s[k] = f - o + k - 1)
  <2>1. f - o \in Int /\ k \in Nat /\ (k /= 0 => k \in 1 .. k)
    BY <1>7
  <2>2. /\ Numbers(f - o, k) \in Seq(Int) /\ Len(Numbers(f - o, k)) = k
        /\ \A i \in 1 .. k : Numbers(f - o, k)[i] = (f - o) + i - 1
    BY <2>1, NumbersAre
  <2> QED
    BY <1>9, <2>1, <2>2
<1>11. fresh' = f /\ audio_occupancy' = o - k /\ flushed' = l
  BY <1>2, <1>3, <1>6
<1>12. /\ h < f - o /\ l < f
       /\ flush_please \/ l < f - o
  BY <1>1, <1>3, Zenon DEF PassedInv
<1>13. handed' \in Int /\ handed' < f - (o - k)
  <2>1. CASE flush_please \/ k = 0
    <3>1. handed' = h
      BY <1>3, <1>6, <2>1, Zenon
    <3> QED
      BY <1>7, <1>12, <3>1
  <2>2. CASE ~ (flush_please \/ k = 0)
    <3>1. handed' = s[k]
      BY <1>6, <1>8, <1>9, <1>10, <2>2, Zenon DEF Ring!Last
    <3>2. s[k] = f - o + k - 1
      BY <1>10, <2>2
    <3> QED
      BY <1>7, <3>1, <3>2
  <2> QED
    BY <2>1, <2>2
<1>14. queued' \in Seq(Int)
  <2>1. queued \in Seq(Int)
    BY <1>1, RingTypesNow, Zenon
  <2>2. queued \o s \in Seq(Int)
    BY <1>10, <2>1, ConcatProperties
  <2> QED
    BY <1>6, <1>8, <1>9, <2>1, <2>2, Zenon
<1>15. RingTypes'
  <2>1. audio_occupancy' \in 0 .. Len(cells)
    BY <1>1, <1>8, RingNumbers
  <2>2. /\ cells' = cells /\ eoq' = eoq /\ backend' = backend /\ freed' = freed /\ mutex' = mutex
        /\ loop' = loop /\ client' = client /\ fresh' = fresh /\ flushed' = flushed
        /\ fault' = fault /\ callback' = callback
    BY <1>2
  <2>3. flush_please' \in BOOLEAN
    BY <1>2, Zenon
  <2> QED
    BY <1>1, <1>8, <1>13, <1>14, <2>1, <2>2, <2>3, RingTypesNow, RingTypesNext, Zenon
<1>16. PassedInv'
  <2>1. l < f /\ l < f - (o - k)
    BY <1>7, <1>12
  <2> QED
    BY <1>11, <1>13, <2>1, Zenon DEF PassedInv
<1>17. HandInv'
  <2>1. callback.at = "idle" /\ callback.taken = << >>
    <3>1. callback.at = "idle"
      BY <1>1, <1>2, Zenon DEF HandInv
    <3> QED
      BY <3>1, InHand
  <2>2. Handing(callback, handed', fresh' - audio_occupancy')
    BY <2>1 DEF Handing
  <2>3. callback.at /= "copy"
    BY <2>1
  <2>4. callback' = callback /\ backend' = backend
    BY <1>2
  <2> QED
    BY <2>1, <2>2, <2>3, <2>4, Zenon DEF HandInv
<1>18. FreeInv'
  <2>1. /\ freed <=> client.at \in {"disconnect", "allocate"}
        /\ EmptyOnly => ~ fault /\ (freed => o = 0)
    BY <1>1, <1>3, Zenon DEF FreeInv
  <2>2. o = 0 => o - k = 0
    <3>1. k \in Int /\ 0 <= k /\ k <= o
      BY <1>7
    <3> QED
      BY <3>1
  <2>3. (freed' <=> freed) /\ client' = client /\ (fault' <=> fault)
    BY <1>2
  <2> QED
    BY <1>11, <2>1, <2>2, <2>3, Zenon DEF FreeInv
<1>19. DelayInv'
  <2>1. /\ client.at \notin {"first", "second"}
        /\ client.at = "told" => client.out \in -MaxAsk .. 0
    <3>1. /\ client.at \in {"first", "second"} => backend = "pipewire"
          /\ client.at = "told" => client.out \in -MaxAsk .. 0
      BY <1>1, Zenon DEF DelayInv, Measured
    <3> QED
      BY <1>2, <3>1
  <2>2. client' = client
    BY <1>2
  <2>3. client.at /= "second"
    BY <2>1
  <2> QED
    BY <2>1, <2>2, <2>3, Zenon DEF DelayInv, Measured
<1> QED
  BY <1>8, <1>15, <1>16, <1>17, <1>18, <1>19, Zenon DEF RingInv

\* Every step of the ring keeps its invariant.
LEMMA RingKeptBySteps ==
  ASSUME RingInv, [Ring!RingNext]_ringVars
  PROVE  RingInv'
<1>1. CASE UNCHANGED ringVars
  <2>1. /\ UNCHANGED <<backend, cells, toq, eoq, audio_occupancy, freed, mutex, loop, callback, fresh,
                       want, handed, fault>>
        /\ flush_please' = flush_please /\ flushed' = flushed /\ queued' = queued
        /\ client' = client
    BY <1>1 DEF ringVars
  <2>2. RingTypes /\ PassedInv /\ DelayInv
    BY Zenon DEF RingInv
  <2>3. /\ flush_please' \in BOOLEAN /\ flushed' \in Int /\ queued' \in Seq(Int)
        /\ client' \in Clients
    BY <2>1, <2>2, RingTypesNow, Zenon
  <2>4. PassedInv'
    BY <2>1, <2>2, PassedStays
  <2>5. DelayInv'
    <3>1. /\ client' = client /\ backend' = backend /\ audio_occupancy' = audio_occupancy
          /\ callback' = callback /\ queued' = queued
      BY <2>1
    <3> QED
      BY <2>2, <3>1, Zenon DEF DelayInv
  <2>6. client'.at \in {"disconnect", "allocate"} <=> client.at \in {"disconnect", "allocate"}
    BY <2>1, Zenon
  <2> QED
    BY <2>1, <2>3, <2>4, <2>5, <2>6, ClientKeeps
<1>2. CASE Ring!RingNext
  <2>1. \/ \/ Ring!Activate \/ Ring!Uncork \/ Ring!FlushStream \/ Ring!Deactivate \/ Ring!Disconnect
           \/ Ring!UseDelay
        \/ Ring!Play \/ Ring!AskForFlush \/ Ring!FreeRing
        \/ Ring!EmptyRing \/ Ring!Allocate \/ Ring!Reconnect
        \/ Ring!BeginDelay \/ Ring!ReadOccupancy \/ Ring!EndDelay
        \/ Ring!BeginCallback \/ Ring!CopyOut \/ Ring!Silence \/ Ring!HandOver
        \/ Ring!EndCallback \/ Ring!Process \/ Ring!Heard
    BY <1>2, Zenon DEF Ring!RingNext
  <2>2. /\ Ring!Play => RingInv'
        /\ Ring!AskForFlush => RingInv'
        /\ Ring!FreeRing => RingInv'
    BY RingPlayKeeps, AskForFlushKeeps, FreeRingKeeps, Zenon
  <2>3. /\ Ring!BeginCallback => RingInv'
        /\ Ring!CopyOut => RingInv'
        /\ Ring!Silence => RingInv'
        /\ Ring!HandOver => RingInv'
    BY BeginCallbackKeeps, CopyOutKeeps, SilenceKeeps, HandOverKeeps, Zenon
  <2>4. /\ Ring!EndCallback => RingInv'
        /\ Ring!Process => RingInv'
        /\ Ring!Heard => RingInv'
    BY EndCallbackKeeps, RingProcessKeeps, HeardKeeps, Zenon
  <2>5. Ring!Activate \/ Ring!Uncork \/ Ring!FlushStream \/ Ring!Deactivate \/ Ring!Disconnect
          \/ Ring!UseDelay => RingInv'
    BY RestingSteps, Zenon
  <2>6. Ring!EmptyRing \/ Ring!Allocate \/ Ring!Reconnect => RingInv'
    BY EmptyingSteps, Zenon
  <2>7. Ring!BeginDelay \/ Ring!ReadOccupancy \/ Ring!EndDelay => RingInv'
    BY MeasuringSteps, Zenon
  <2> QED
    BY <2>1, <2>2, <2>3, <2>4, <2>5, <2>6, <2>7, Zenon
<1> QED
  BY <1>1, <1>2, Zenon

\* The invariant gives what is said of the ring.
LEMMA RingRight ==
  RingInv =>
    /\ Ring!RingTypeOK /\ Ring!RingHoldsFrames /\ Ring!HandedInOrder /\ Ring!DelayIsClose
    /\ EmptyOnly => Ring!RingNotFreed
<1> SUFFICES ASSUME RingInv
             PROVE  /\ Ring!RingTypeOK /\ Ring!RingHoldsFrames /\ Ring!HandedInOrder
                    /\ Ring!DelayIsClose
                    /\ EmptyOnly => Ring!RingNotFreed
  OBVIOUS
<1>1. RingTypes /\ StoreInv /\ PassedInv /\ HandInv /\ FreeInv /\ DelayInv
  BY Zenon DEF RingInv
<1>2. Ring!RingTypeOK
  BY <1>1, Zenon DEF RingTypes
<1>3. Ring!RingHoldsFrames /\ Ring!HandedInOrder
  BY <1>1, HoldsFrames, HandsInOrder, Zenon
<1>4. Ring!DelayIsClose
  BY <1>1, Zenon DEF DelayInv, Measured, Ring!DelayIsClose
<1>5. EmptyOnly => Ring!RingNotFreed
  BY <1>1, Zenon DEF FreeInv, Ring!RingNotFreed
<1> QED
  BY <1>2, <1>3, <1>4, <1>5, Zenon

(***************************************************************************)
(* All of them                                                             *)
(***************************************************************************)

DevicesInv ==
  /\ TypeOK /\ ("partway" \notin OpenFailures => Inv)
  /\ NqptpInv /\ TimingInv /\ AnchorInv /\ HubInv /\ LevelInv /\ RingInv

\* Each component begins as it does by itself.
LEMMA DevicesStart == MCInit => DevicesInv
<1> SUFFICES ASSUME MCInit
             PROVE  DevicesInv
  OBVIOUS
<1>1. /\ Init /\ Nqptp!Init /\ Timing!Init /\ Anchor!Init /\ Hub!Init /\ Level!VolumeInit
      /\ Ring!RingInit
  BY Zenon DEF MCInit
<1>2. Inv /\ NqptpInv /\ TimingInv /\ AnchorInv /\ HubInv /\ LevelInv /\ RingInv
  BY <1>1, InitInv, NqptpStart, TimingStart, AnchorStart, HubStart, LevelStart, RingStart, Zenon
<1> QED
  BY <1>2, Zenon DEF DevicesInv, Inv

\* A step of one component is one of that component, and leaves the others as they were.
LEMMA StepOfEach ==
  ASSUME MCNext
  PROVE  /\ [Next]_vars /\ [Nqptp!Next]_nqptpVars /\ [Timing!Next]_timingVars
         /\ [Anchor!Next]_anchorVars /\ [Hub!Next]_hubVars /\ [Level!VolumeNext]_volumeVars
         /\ [Ring!RingNext]_ringVars
<1>1. Next \/ UNCHANGED vars
  BY Zenon DEF MCNext
<1>2. Nqptp!Next \/ UNCHANGED nqptpVars
  BY Zenon DEF MCNext
<1>3. Timing!Next \/ UNCHANGED timingVars
  BY Zenon DEF MCNext
<1>4. Anchor!Next \/ UNCHANGED anchorVars
  BY Zenon DEF MCNext
<1>5. Hub!Next \/ UNCHANGED hubVars
  BY Zenon DEF MCNext
<1>6. Level!VolumeNext \/ UNCHANGED volumeVars
  BY Zenon DEF MCNext
<1>7. Ring!RingNext \/ UNCHANGED ringVars
  BY Zenon DEF MCNext
<1> QED
  BY <1>1, <1>2, <1>3, <1>4, <1>5, <1>6, <1>7, Zenon

\* Every step keeps every component's invariant.
LEMMA DevicesKeep ==
  ASSUME DevicesInv, [MCNext]_allVars
  PROVE  DevicesInv'
<1>1. /\ [Next]_vars /\ [Nqptp!Next]_nqptpVars /\ [Timing!Next]_timingVars
      /\ [Anchor!Next]_anchorVars /\ [Hub!Next]_hubVars /\ [Level!VolumeNext]_volumeVars
      /\ [Ring!RingNext]_ringVars
  <2>1. CASE MCNext
    BY <2>1, StepOfEach, Zenon
  <2>2. CASE UNCHANGED allVars
    <3>1. UNCHANGED vars /\ UNCHANGED nqptpVars /\ UNCHANGED timingVars /\ UNCHANGED anchorVars
          /\ UNCHANGED hubVars /\ UNCHANGED volumeVars /\ UNCHANGED ringVars
      BY <2>2 DEF allVars
    <3> QED
      BY <3>1, Zenon
  <2> QED
    BY <2>1, <2>2
<1>2. /\ TypeOK /\ ("partway" \notin OpenFailures => Inv)
      /\ NqptpInv /\ TimingInv /\ AnchorInv /\ HubInv /\ LevelInv /\ RingInv
  BY Zenon DEF DevicesInv
<1>3. TypeOK' /\ ("partway" \notin OpenFailures => Inv')
  BY <1>1, <1>2, TypesStay, NextInv, Zenon
<1>4. NqptpInv' /\ TimingInv'
  BY <1>1, <1>2, NqptpKept, TimingKept, Zenon
<1>5. AnchorInv' /\ HubInv'
  BY <1>1, <1>2, AnchorKept, HubKept, Zenon
<1>6. LevelInv' /\ RingInv'
  BY <1>1, <1>2, LevelKept, RingKeptBySteps, Zenon
<1> QED
  BY <1>3, <1>4, <1>5, <1>6, Zenon DEF DevicesInv

\* The invariants hold in every reachable state.
LEMMA DevicesInvariance == MCSpec => []DevicesInv
<1>1. DevicesInv /\ [MCNext]_allVars => DevicesInv'
  BY DevicesKeep
<1> QED
  BY <1>1, DevicesStart, PTL DEF MCSpec

\* Every variable of every component keeps to its type, also when opening a device fails partway.
THEOREM DevicesTyped == MCSpec => []TypesOK
<1>1. DevicesInv => TypesOK
  <2> SUFFICES ASSUME DevicesInv
               PROVE  TypesOK
    OBVIOUS
  <2>1. TypeOK /\ Nqptp!TypeOK /\ Anchor!TypeOK
    BY Zenon DEF DevicesInv, NqptpInv, AnchorInv
  <2>2. Timing!TypeOK /\ Hub!TypeOK /\ Level!VolumeTypeOK /\ Ring!RingTypeOK
    BY TimingRight, HubRight, LevelRight, RingRight, Zenon DEF DevicesInv
  <2> QED
    BY <2>1, <2>2, Zenon DEF TypesOK
<1> QED
  BY <1>1, DevicesInvariance, PTL

\* However NQPTP's writes and the reads of its two copies interleave, a record that is accepted is
\* of one update, unless both copies were written meanwhile; and the difference between the clocks,
\* the best of the stored measurements aged by the time since, is right to within its dispersion.
THEOREM ClocksReadRight == MCSpec => []ClocksRight
<1>1. DevicesInv => ClocksRight
  BY NqptpWhole, TimingRight, Zenon DEF DevicesInv, ClocksRight
<1> QED
  BY <1>1, DevicesInvariance, PTL

\* When all of a packet has been sent and filed, and none of it was refused, the watchers have been
\* given every tag that it changed, whatever the player sent between its items.
THEOREM TagsAreAnnounced == MCSpec => []TagsAnnounced
<1>1. DevicesInv => TagsAnnounced
  BY HubRight, Zenon DEF DevicesInv, TagsAnnounced
<1> QED
  BY <1>1, DevicesInvariance, PTL

\* Where opening a device does not fail partway, and a configuration changes only when the ring is
\* empty: the player is told of every break in the frames sent and the mixer has the volume last
\* asked for; and a ring, of whatever length and however the player, the flushes and the server's
\* callback take turns, holds what was put in and not taken, in order, hands over no frame twice,
\* out of turn or from before a flush, is not read after it has been freed, and has a delay that is
\* never too large and too small by what the callback has in its hands at most.
THEOREM BackEndsStayRight ==
  ASSUME "partway" \notin OpenFailures, EmptyOnly
  PROVE  MCSpec => []BackEndsKept
<1>1. DevicesInv => BackEndsKept
  <2> SUFFICES ASSUME DevicesInv
               PROVE  BackEndsKept
    OBVIOUS
  <2>1. DeviceKept
    BY BelievesRight, Zenon DEF DevicesInv
  <2>2. RingKept
    BY RingRight, Zenon DEF DevicesInv, RingKept
  <2> QED
    BY <2>1, <2>2, Zenon DEF BackEndsKept
<1> QED
  BY <1>1, DevicesInvariance, PTL

\* The same of the rings when a configuration may also change while there are frames in them, as it
\* may: everything but that the memory has not been freed.
THEOREM RingsStayRight ==
  MCSpec => [](Ring!RingHoldsFrames /\ Ring!HandedInOrder /\ Ring!DelayIsClose)
<1>1. DevicesInv => Ring!RingHoldsFrames /\ Ring!HandedInOrder /\ Ring!DelayIsClose
  BY RingRight, Zenon DEF DevicesInv
<1> QED
  BY <1>1, DevicesInvariance, PTL

\* As long as no request comes while a play begins, what is heard is what was last asked for on the
\* connection that plays, whichever mixers do it; a higher volume is never softer, no mixer leaves
\* its range, software never makes a sample larger, and nothing is louder than the maximum, for
\* every device and configuration of the assumption.
THEOREM LevelsStayRight ==
  ASSUME Apart
  PROVE  MCSpec => []LevelsRight
<1>1. DevicesInv => LevelsRight
  BY LevelRight, Zenon DEF DevicesInv, LevelsRight
<1> QED
  BY <1>1, DevicesInvariance, PTL

\* As long as the source is steady and calls do not overlap, the clock that a caller is answered
\* with gives a line of the source, whatever master clock NQPTP has chosen and whenever the anchor
\* is set, taken or dropped between the steps of the call.
THEOREM AnswersOnLine == MCSpec => AnswersRight
<1>1. DevicesInv =>
        [\A t \in Anchor!Getters : Anchor!Answer(t) /\ steady /\ ~overlap =>
           /\ Anchor!LastLine \in given.all
           /\ get[t].clock = given.clock => Anchor!LastLine = given.current]_(Anchor!vars)
  BY AnswerOnLine DEF DevicesInv
<1> QED
  BY <1>1, DevicesInvariance, PTL DEF AnswersRight, Anchor!AnswersRight
=============================================================================
