----------------------------- MODULE AlsaBackend -----------------------------
(***************************************************************************)
(* The ALSA back end, audio_alsa.c.                                        *)
(*                                                                         *)
(* The player thread configures the device, plays, flushes, stops and asks *)
(* for statistics; the buffer monitor thread keeps the device open and fed *)
(* with silence while keep_dac_busy is on; the main thread closes down.    *)
(* They exclude each other with alsa_mutex.  Volume and mute requests come *)
(* from any thread, and take only the mixer's mutex.                       *)
(*                                                                         *)
(* do_open is the one operation that lets the mixer's mutex go and takes   *)
(* it again, so it is modelled in steps; everything else that is done      *)
(* under alsa_mutex is one action.                                         *)
(***************************************************************************)
EXTENDS Naturals

CONSTANTS
  Formats,       \* the configurations the player asks for
  DefaultFormat, \* the one of disable_standby_mode
  Volumes,
  OpenFailures   \* what may go wrong when the device is opened: a subset of {"absent", "partway"}

ASSUME AlsaAssumption ==
  Volumes /= {} /\ OpenFailures \subseteq {"absent", "partway"}

NoFormat == "no format"
Muted == "muted"    \* the lowest level, alsa_mix_mute

VARIABLES
  keep_dac_busy,
  alsa_backend_state,
  pcm,            \* alsa_handle: none, bare (open, not set up), prepared, running or xrun
  current_encoded_output_format,
  pcmFormat,      \* the one the device was set up for
  frames_sent_break_occurred,
  unreported,     \* the frame count has been broken since stats was asked (history)
  opener,         \* who is in do_open, with alsa_mutex,
  opening,        \* where,
  opener_volume,  \* and the argument of its do_volume
  hasSwitch,      \* the mixer can mute; otherwise muting is done with the volume
  switchedOff, level,  \* the mixer
  volume_based_mute_is_active,
  mute_requested_externally,
  volume_set_request, set_volume,
  caller,         \* a thread in volume()
  wanted,         \* the volume last asked for (history)
  overlapped,     \* a do_open overlapped that call (history)
  monitor,        \* where the buffer monitor thread is
  okb,            \* the keep_dac_busy it saw was not 0 (it starts as -1)
  gone_off,       \* keep_dac_busy_has_just_gone_off
  main            \* running, closed (device closed in deinit) or down

device == <<alsa_backend_state, pcm, pcmFormat, frames_sent_break_occurred, unreported>>
mixer == <<hasSwitch, switchedOff, level, volume_based_mute_is_active>>
requests == <<mute_requested_externally, volume_set_request, set_volume, caller, wanted, overlapped>>
open == <<opener, opening, opener_volume>>
mon == <<monitor, okb, gone_off>>
vars == <<keep_dac_busy, current_encoded_output_format, device, mixer, requests, open, mon, main>>

TypeOK ==
  /\ {keep_dac_busy, frames_sent_break_occurred, unreported, hasSwitch, switchedOff,
      volume_based_mute_is_active, mute_requested_externally, volume_set_request,
      overlapped, okb, gone_off} \subseteq BOOLEAN
  /\ alsa_backend_state \in {"disconnected", "connected", "playing"}
  /\ pcm \in {"none", "bare", "prepared", "running", "xrun"}
  /\ {current_encoded_output_format, pcmFormat} \subseteq Formats \union {DefaultFormat, NoFormat}
  /\ opener \in {"nobody", "play", "configure", "monitor"}
  /\ opening \in {"", "read", "set", "apply", "mute", "connect"}
  /\ {opener_volume, set_volume, wanted} \subseteq Volumes
  /\ level \in Volumes \union {Muted}
  /\ caller \in [at: {"idle", "set", "apply"}, vol: Volumes]
  /\ monitor \in {"wait", "look", "scan", "fill", "ended"}
  /\ main \in {"running", "closed", "down"}

AnyVolume == CHOOSE v \in Volumes : TRUE
Calm == [at |-> "idle", vol |-> AnyVolume]

Init ==
  /\ keep_dac_busy \in BOOLEAN /\ hasSwitch \in BOOLEAN
  /\ alsa_backend_state = "disconnected" /\ pcm = "none"
  /\ current_encoded_output_format = NoFormat /\ pcmFormat = NoFormat
  /\ frames_sent_break_occurred = FALSE /\ unreported = FALSE
  /\ opener = "nobody" /\ opening = "" /\ opener_volume = AnyVolume
  /\ switchedOff = FALSE /\ level = AnyVolume /\ volume_based_mute_is_active = FALSE
  /\ mute_requested_externally = FALSE /\ volume_set_request = FALSE
  /\ set_volume = AnyVolume /\ caller = Calm /\ wanted = AnyVolume /\ overlapped = FALSE
  /\ monitor = "wait" /\ okb = TRUE /\ gone_off = FALSE
  /\ main = "running"

AlsaMutexFree == opener = "nobody"

(***************************************************************************)
(* The device                                                              *)
(***************************************************************************)

\* do_close: what the device still holds is dropped.
Closed ==
  /\ pcm' = "none" /\ pcmFormat' = NoFormat
  /\ alsa_backend_state' = "disconnected"
  /\ unreported' = (unreported \/ pcm \in {"running", "xrun"})
  /\ UNCHANGED frames_sent_break_occurred

\* open_alsa_device fails: the device is not there or busy; or it is, and something
\* goes wrong while it is being set up.
OpenFails ==
  \/ /\ "absent" \in OpenFailures /\ pcm' = "none" /\ frames_sent_break_occurred' = TRUE
  \/ /\ "partway" \in OpenFailures /\ pcm' = "bare" /\ UNCHANGED frames_sent_break_occurred

\* open_alsa_device succeeds, for whoever is to go on with do_open.
Opened(who, f) ==
  /\ pcm' = "prepared" /\ pcmFormat' = f
  /\ opener' = who /\ opening' = "read"
  /\ overlapped' = (overlapped \/ caller /= Calm)

\* A write that falls short, or finds that the device had run dry, is a break.
Broken == frames_sent_break_occurred' = TRUE

\* do_play: a device that had run dry refuses the frames and is recovered.
Written ==
  /\ pcm /= "none"
  /\ \/ /\ pcm \in {"prepared", "running"} /\ pcm' = "running"
        /\ UNCHANGED <<frames_sent_break_occurred, unreported>>
     \/ /\ pcm \in {"prepared", "running", "bare"} /\ pcm' = pcm
        /\ Broken /\ unreported' = TRUE
     \/ /\ pcm = "xrun" /\ pcm' = "prepared" /\ Broken /\ unreported' = TRUE
  /\ UNCHANGED pcmFormat

\* The frames the device had been given have all been played.
Underrun ==
  /\ pcm = "running" /\ pcm' = "xrun"
  /\ UNCHANGED <<keep_dac_busy, current_encoded_output_format, alsa_backend_state, pcmFormat,
                 frames_sent_break_occurred, unreported, mixer, requests, open, mon, main>>

(***************************************************************************)
(* do_open, after the device has been opened                               *)
(***************************************************************************)

\* do_volume(set_volume): the argument is read,
OpenReadsVolume ==
  /\ opening = "read" /\ opening' = "set" /\ opener_volume' = set_volume
  /\ UNCHANGED <<keep_dac_busy, current_encoded_output_format, device, mixer, requests, opener, mon, main>>

\* written back, and
OpenSetsVolume ==
  /\ opening = "set" /\ opening' = "apply" /\ set_volume' = opener_volume
  /\ UNCHANGED <<keep_dac_busy, current_encoded_output_format, device, mixer,
                 mute_requested_externally, volume_set_request, caller, wanted, overlapped,
                 opener, opener_volume, mon, main>>

BugApplied(vol) ==
  IF volume_set_request /\ alsa_backend_state /= "disconnected"
  THEN /\ level' = IF hasSwitch \/ ~volume_based_mute_is_active THEN vol ELSE level
       /\ volume_set_request' = FALSE
  ELSE UNCHANGED <<level, volume_set_request>>
\* put into effect, under the mixer's mutex, if a request is outstanding.
Applied(vol) ==
  IF volume_set_request
  THEN /\ level' = IF hasSwitch \/ ~volume_based_mute_is_active THEN vol ELSE level
       /\ volume_set_request' = FALSE
  ELSE UNCHANGED <<level, volume_set_request>>

OpenAppliesVolume ==
  /\ opening = "apply" /\ opening' = "mute"
  /\ Applied(opener_volume)
  /\ UNCHANGED <<keep_dac_busy, current_encoded_output_format, device, hasSwitch, switchedOff,
                 volume_based_mute_is_active, mute_requested_externally, set_volume, caller,
                 wanted, overlapped, opener, opener_volume, mon, main>>

\* set_mute_state: nothing is done while the back end is disconnected.
MuteSet(asked) ==
  IF alsa_backend_state = "disconnected" THEN UNCHANGED mixer
  ELSE /\ IF hasSwitch
          THEN switchedOff' = asked /\ UNCHANGED <<level, volume_based_mute_is_active>>
          ELSE /\ volume_based_mute_is_active' = asked
               /\ level' = IF asked THEN Muted ELSE set_volume
               /\ UNCHANGED switchedOff
       /\ UNCHANGED hasSwitch

OpenSetsMute ==
  /\ opening = "mute" /\ opening' = "connect"
  /\ MuteSet(mute_requested_externally)
  /\ UNCHANGED <<keep_dac_busy, current_encoded_output_format, device, requests, opener,
                 opener_volume, mon, main>>

BugRestarted == UNCHANGED frames_sent_break_occurred
\* frames_sent_for_playing starts from 0 again.
Restarted == frames_sent_break_occurred' = TRUE

\* The end of do_open; play goes on to write, the monitor to fill, and configure
\* is done.
OpenConnects ==
  /\ opening = "connect"
  /\ opener' = "nobody" /\ opening' = "" /\ opener_volume' = AnyVolume
  /\ Restarted /\ unreported' = TRUE
  /\ UNCHANGED <<keep_dac_busy, current_encoded_output_format, mixer, requests, pcmFormat,
                 okb, gone_off, main>>
  /\ \/ /\ opener = "play" /\ alsa_backend_state' = "playing"
        /\ pcm' \in {"prepared", "running"} /\ UNCHANGED monitor
     \/ /\ opener = "monitor" /\ alsa_backend_state' = "connected"
        /\ pcm' \in {"prepared", "running"} /\ monitor' = "look"
     \/ /\ opener = "configure" /\ alsa_backend_state' = "connected"
        /\ UNCHANGED <<pcm, monitor>>

DoOpenStep == OpenReadsVolume \/ OpenSetsVolume \/ OpenAppliesVolume \/ OpenSetsMute \/ OpenConnects

(***************************************************************************)
(* The player                                                              *)
(***************************************************************************)
PlayerMay == main = "running" /\ AlsaMutexFree

\* The device is closed and opened again only when the configuration changes.
Configure(f) ==
  /\ PlayerMay /\ f /= current_encoded_output_format
  /\ current_encoded_output_format' = f
  /\ alsa_backend_state' = "disconnected"
  /\ unreported' = (unreported \/ pcm \in {"running", "xrun"})
  /\ \/ Opened("configure", f) /\ UNCHANGED frames_sent_break_occurred
     \/ OpenFails /\ pcmFormat' = NoFormat /\ UNCHANGED <<opener, opening, overlapped>>
  /\ UNCHANGED <<keep_dac_busy, mixer, mute_requested_externally, volume_set_request,
                 set_volume, caller, wanted, opener_volume, mon, main>>

\* play, when the device has to be opened first;
PlayOpens ==
  /\ PlayerMay /\ alsa_backend_state = "disconnected" /\ pcm = "none"
  /\ \/ /\ Opened("play", current_encoded_output_format)
        /\ UNCHANGED <<alsa_backend_state, frames_sent_break_occurred>>
     \/ /\ OpenFails /\ UNCHANGED alsa_backend_state
        /\ UNCHANGED <<pcmFormat, opener, opening, overlapped>>
  /\ UNCHANGED <<keep_dac_busy, current_encoded_output_format, unreported, mixer,
                 mute_requested_externally, volume_set_request, set_volume, caller, wanted,
                 opener_volume, mon, main>>

\* and when do_open finds a handle, or there is no need to call it.
Play ==
  /\ PlayerMay /\ pcm /= "none"
  /\ alsa_backend_state' = "playing"
  /\ Written
  /\ UNCHANGED <<keep_dac_busy, current_encoded_output_format, mixer, requests, open, mon, main>>

\* A flush and a stop leave a device alone that is being kept busy.
Flush ==
  /\ PlayerMay /\ alsa_backend_state /= "disconnected" /\ ~keep_dac_busy
  /\ Broken /\ unreported' = (unreported \/ pcm \in {"running", "xrun"})
  /\ pcm' = IF pcm = "bare" THEN "bare" ELSE "prepared"
  /\ alsa_backend_state' = "connected"
  /\ UNCHANGED <<keep_dac_busy, current_encoded_output_format, pcmFormat, mixer, requests, open, mon, main>>

Stop ==
  /\ PlayerMay /\ alsa_backend_state /= "disconnected" /\ ~keep_dac_busy
  /\ Closed
  /\ UNCHANGED <<keep_dac_busy, current_encoded_output_format, mixer, requests, open, mon, main>>

\* The answer is "no break" if there is a device and the flag is not set.
Stats ==
  /\ PlayerMay
  /\ frames_sent_break_occurred' = FALSE /\ unreported' = FALSE
  /\ UNCHANGED <<keep_dac_busy, current_encoded_output_format, alsa_backend_state, pcm,
                 pcmFormat, mixer, requests, open, mon, main>>

(***************************************************************************)
(* Volume and mute, from any thread                                        *)
(***************************************************************************)
Volume(v) ==
  /\ caller = Calm /\ main = "running"
  /\ volume_set_request' = TRUE /\ caller' = [at |-> "set", vol |-> v]
  /\ wanted' = v /\ overlapped' = ~AlsaMutexFree
  /\ UNCHANGED <<keep_dac_busy, current_encoded_output_format, device, mixer,
                 mute_requested_externally, set_volume, open, mon, main>>

VolumeSets ==
  /\ caller.at = "set" /\ caller' = [caller EXCEPT !.at = "apply"]
  /\ set_volume' = caller.vol
  /\ UNCHANGED <<keep_dac_busy, current_encoded_output_format, device, mixer,
                 mute_requested_externally, volume_set_request, wanted, overlapped, open, mon, main>>

\* The mixer may be out of reach while the device is not there.
VolumeApplies ==
  /\ caller.at = "apply" /\ caller' = Calm
  /\ \/ Applied(caller.vol)
     \/ pcm = "none" /\ UNCHANGED <<level, volume_set_request>>
  /\ UNCHANGED <<keep_dac_busy, current_encoded_output_format, device, hasSwitch, switchedOff,
                 volume_based_mute_is_active, mute_requested_externally, set_volume, wanted,
                 overlapped, open, mon, main>>

Mute(asked) ==
  /\ main = "running"
  /\ mute_requested_externally' = asked
  /\ MuteSet(asked)
  /\ UNCHANGED <<keep_dac_busy, current_encoded_output_format, device, volume_set_request,
                 set_volume, caller, wanted, overlapped, open, mon, main>>

\* The activity monitor and D-Bus turn keep_dac_busy on and off.
KeepDacBusy(on) ==
  /\ keep_dac_busy' = on /\ on /= keep_dac_busy
  /\ UNCHANGED <<current_encoded_output_format, device, mixer, requests, open, mon, main>>

(***************************************************************************)
(* The buffer monitor thread                                               *)
(***************************************************************************)

\* Once the device is to be kept busy, the configuration is set -- without the mutex,
\* and whatever the player has set.
MonitorConfigures ==
  /\ monitor = "wait" /\ keep_dac_busy
  /\ current_encoded_output_format' = DefaultFormat
  /\ monitor' = "look"
  /\ UNCHANGED <<keep_dac_busy, device, mixer, requests, open, okb, gone_off, main>>

MonitorLooks ==
  /\ monitor = "look" /\ monitor' = "scan"
  /\ gone_off' = (okb /\ ~keep_dac_busy)
  /\ okb' = keep_dac_busy
  /\ UNCHANGED <<keep_dac_busy, current_encoded_output_format, device, mixer, requests, open, main>>

\* The device is opened; a failure ends the thread.
MonitorOpens ==
  /\ monitor = "scan" /\ AlsaMutexFree
  /\ alsa_backend_state = "disconnected" /\ keep_dac_busy /\ pcm = "none"
  /\ \/ /\ Opened("monitor", current_encoded_output_format) /\ monitor' = "fill"
        /\ UNCHANGED frames_sent_break_occurred
     \/ /\ OpenFails /\ monitor' = "ended"
        /\ UNCHANGED <<pcmFormat, opener, opening, overlapped>>
  /\ UNCHANGED <<keep_dac_busy, current_encoded_output_format, alsa_backend_state, unreported,
                 mixer, mute_requested_externally, volume_set_request, set_volume, caller, wanted,
                 opener_volume, okb, gone_off, main>>

\* It is closed when keep_dac_busy has just gone off, also if the player is using it.
MonitorCloses ==
  /\ monitor = "scan" /\ AlsaMutexFree
  /\ alsa_backend_state /= "disconnected" /\ gone_off
  /\ Closed
  /\ monitor' = "look"
  /\ UNCHANGED <<keep_dac_busy, current_encoded_output_format, mixer, requests, open, okb, gone_off, main>>

\* Silence is added to an open device that is running low; too many errors early on
\* end the thread.
MonitorFills ==
  /\ monitor = "scan" /\ AlsaMutexFree
  /\ alsa_backend_state /= "disconnected" /\ ~gone_off /\ keep_dac_busy
  /\ UNCHANGED alsa_backend_state
  /\ \/ UNCHANGED device /\ monitor' = "look"
     \/ Written /\ monitor' = "look"
     \/ Written /\ frames_sent_break_occurred' /\ monitor' = "ended"
  /\ UNCHANGED <<keep_dac_busy, current_encoded_output_format, mixer, requests, open, okb, gone_off, main>>

\* Nothing to do, or do_open finds a handle.
MonitorRests ==
  /\ monitor = "scan" /\ AlsaMutexFree
  /\ \/ alsa_backend_state = "disconnected" /\ (~keep_dac_busy \/ pcm /= "none")
     \/ alsa_backend_state /= "disconnected" /\ ~gone_off /\ ~keep_dac_busy
  /\ monitor' = "look"
  /\ UNCHANGED <<keep_dac_busy, current_encoded_output_format, device, mixer, requests, open, okb, gone_off, main>>

(***************************************************************************)
(* deinit: the device is closed, and then the buffer monitor thread ends.  *)
(***************************************************************************)
DeinitCloses ==
  /\ main = "running" /\ AlsaMutexFree /\ caller = Calm
  /\ main' = "closed"
  /\ IF pcm = "none" THEN UNCHANGED device ELSE Closed
  /\ UNCHANGED <<keep_dac_busy, current_encoded_output_format, mixer, requests, open, mon>>

DeinitJoins ==
  /\ main = "closed" /\ AlsaMutexFree
  /\ main' = "down" /\ monitor' = "ended"
  /\ UNCHANGED <<keep_dac_busy, current_encoded_output_format, device, mixer, requests, open, okb, gone_off>>

Monitor == MonitorConfigures \/ MonitorLooks \/ MonitorOpens \/ MonitorCloses \/ MonitorFills \/ MonitorRests

Next ==
  \/ DoOpenStep
  \/ \E f \in Formats : Configure(f)
  \/ PlayOpens \/ Play \/ Flush \/ Stop \/ Stats \/ Underrun
  \/ \E v \in Volumes : Volume(v)
  \/ VolumeSets \/ VolumeApplies
  \/ \E on \in BOOLEAN : Mute(on) \/ KeepDacBusy(on)
  \/ Monitor
  \/ DeinitCloses \/ DeinitJoins

Spec == Init /\ [][Next]_vars

(***************************************************************************)
(* Properties                                                              *)
(***************************************************************************)

\* frames_sent_break_occurred is "set to true if there has been a discontinuity
\* between the last reported frames_sent_for_playing and the present reported" one:
\* when the device was opened, flushed, closed, or wrote less than it was given, the
\* next call of stats says so, whoever did it, the player or the monitor thread.
StatsTellsBreak ==
  AlsaMutexFree /\ pcm /= "none" /\ unreported => frames_sent_break_occurred

\* A device that is connected or playing has been opened and set up.  It is so as long
\* as opening a device never fails partway.
ConnectedIsSetUp == alsa_backend_state /= "disconnected" => pcm \notin {"none", "bare"}

\* The volume last asked for is the mixer's, unless it mutes with the volume, when the
\* device is open and no do_open overlapped the request.
VolumeHeard == IF volume_based_mute_is_active THEN set_volume ELSE level
VolumeKept ==
  alsa_backend_state /= "disconnected" /\ caller = Calm /\ ~overlapped => VolumeHeard = wanted

\* What the player believes of the device is so: its position and its volume.
DeviceKept == StatsTellsBreak /\ VolumeKept

\* When the device is playing it is muted if, and only if, a mute has been requested:
\* do_open calls set_mute_state, for "the mute_requested_externally flag will have
\* been set accordingly".  It is not so: the state is still disconnected at that call.
MuteApplied ==
  alsa_backend_state = "playing" /\ AlsaMutexFree
    => (switchedOff \/ level = Muted) = mute_requested_externally

\* The device is set up for the configuration that frames are made for.  It is not so:
\* the buffer monitor sets the configuration whatever the player is doing.
DeviceHasFormat ==
  alsa_backend_state /= "disconnected" => pcmFormat = current_encoded_output_format
=============================================================================
