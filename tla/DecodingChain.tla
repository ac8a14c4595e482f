---------------------------- MODULE DecodingChain ----------------------------
(***************************************************************************)
(* From blocks to samples with FFmpeg.  The thread that receives decodes a *)
(* block as it comes and puts the frame, tagged with its encoding (ssrc),  *)
(* in the player's buffer; the player's thread resamples it when its turn  *)
(* comes.  The decoder follows what comes in, the resampler what goes out. *)
(* The receiving thread puts a block with the buffer's lock held; the      *)
(* player has the lock when it takes a frame and when it sets up the       *)
(* resampler for the first one, and has given it up when it resamples.     *)
(*                                                                         *)
(* Both threads write input_rate, and the player reads the decoder's       *)
(* sample format, which the other may be replacing.  With Patient a source *)
(* changes its encoding only when the resampler has caught up with it.     *)
(***************************************************************************)
EXTENDS Integers, TLC

CONSTANTS
  Encodings,   \* the ssrcs that are recognised, with
  Alac, Rate,  \* those of ALAC, and get_ssrc_rate
  NoSsrc,      \* SSRC_NONE
  Slots,       \* BUFFER_FRAMES
  Patient,
  Replays,     \* may a realtime stream be played more than once on a connection?
  MaxBlocks, MaxStops

VARIABLES
  realtime,        \* one encoding from a network that loses packets, or many from one that does not
  incoming_ssrc,
  codec_context,   \* the encoding whose decoder is open, or NoSsrc for NULL
  input_rate,
  slot, ab_read, ab_write, ab_buffering,
  ab_mutex,        \* who has it
  receiver,        \* the receiving thread: at, and the block it has
  player,          \* the player's thread: at, and the frame it has
  resampler_ssrc,
  swr,             \* what the resampler was set up for
  converted,       \* the last frame that went through it, and the resampler then (history)
  missedFormat,    \* has the player looked for a decoder that was not there? (history)
  blocks, stops

chainVars ==
  <<realtime, incoming_ssrc, codec_context, input_rate, slot, ab_read, ab_write, ab_buffering,
    ab_mutex, receiver, player, resampler_ssrc, swr, converted, missedFormat, blocks, stops>>

Index == 0 .. Slots - 1
Tags == Encodings \cup {NoSsrc}

\* The decoder's sample format, read for ALAC only; the format of the others is a constant.
SampleFormat(s) == IF s \in Alac THEN s ELSE NoSsrc
NoResampler == [ssrc |-> NoSsrc, format |-> NoSsrc, rate |-> 0]
Empty == [ready |-> FALSE, ssrc |-> NoSsrc, avframe |-> NoSsrc, length |-> 0]
Nothing == [ssrc |-> NoSsrc, fate |-> "gone"]
Fates == {"heard", "muted", "damaged", "gone"}

ChainInit ==
  /\ realtime \in BOOLEAN
  /\ incoming_ssrc = NoSsrc /\ codec_context = NoSsrc /\ input_rate = 0
  /\ slot = [i \in Index |-> Empty] /\ ab_read = 0 /\ ab_write = 0 /\ ab_buffering = TRUE
  /\ ab_mutex = "nobody"
  /\ receiver = [at |-> "waiting", block |-> Nothing]
  /\ player = [at |-> "idle", frame |-> 0]
  /\ resampler_ssrc = NoSsrc /\ swr = NoResampler
  /\ converted = [kind |-> "none", ssrc |-> NoSsrc, by |-> NoResampler]
  /\ missedFormat = FALSE /\ blocks = 0 /\ stops = 0

---------------------------------------------------------------------------
\* The receiving thread.

CaughtUp ==
  resampler_ssrc = incoming_ssrc /\ player.at /= "first" /\ (ab_buffering => ab_read = ab_write)

MaySend(s) ==
  /\ blocks < MaxBlocks
  /\ realtime => s \in Alac
  /\ (Patient /\ incoming_ssrc /= NoSsrc /\ s /= incoming_ssrc) => CaughtUp

bufferVars == <<slot, ab_read, ab_write, ab_buffering>>
resamplerVars == <<resampler_ssrc, swr, converted, missedFormat, player>>

\* A block has come: clear_decoding_chain when it is of another encoding than the decoder.
\* The buffered audio processor prepares the decoder for the first block of a play, before
\* it takes the lock.
Begin(s, fate, at) ==
  /\ receiver.at = "waiting" /\ MaySend(s)
  /\ (at = "putting") => ab_mutex = "nobody" /\ ab_write - ab_read < Slots - 1
  /\ ab_mutex' = IF at = "putting" THEN "receiver" ELSE ab_mutex
  /\ receiver' = [at |-> at, block |-> [ssrc |-> s, fate |-> fate]]
  /\ blocks' = blocks + 1
  /\ IF s /= incoming_ssrc
       THEN incoming_ssrc' = NoSsrc /\ codec_context' = NoSsrc
       ELSE UNCHANGED <<incoming_ssrc, codec_context>>
  /\ UNCHANGED <<realtime, input_rate, bufferVars, resamplerVars, stops>>

\* prepare_decoding_chain: the new decoder.
OpenDecoder ==
  /\ receiver.at \in {"preparing", "putting"} /\ incoming_ssrc /= receiver.block.ssrc
  /\ LET s == receiver.block.ssrc
     IN /\ incoming_ssrc' = s /\ codec_context' = s
        /\ input_rate' = Rate[s]
  /\ UNCHANGED <<realtime, bufferVars, ab_mutex, receiver, resamplerVars, blocks, stops>>

Prepared ==
  /\ receiver.at = "preparing" /\ incoming_ssrc = receiver.block.ssrc
  /\ receiver' = [at |-> "waiting", block |-> Nothing]
  /\ UNCHANGED <<realtime, incoming_ssrc, codec_context, input_rate, bufferVars, ab_mutex,
                 resamplerVars, blocks, stops>>

\* player_put_packet: the block is decoded.  One that is muted leaves its length, one that
\* cannot be decoded nothing but its tag; one that is lost leaves its slot as it was.
Put ==
  /\ receiver.at = "putting" /\ incoming_ssrc = receiver.block.ssrc
  /\ LET s == receiver.block.ssrc
         f == receiver.block.fate
         i == ab_write % Slots
     IN slot' = [slot EXCEPT ![i] =
          IF f = "gone" THEN [@ EXCEPT !.ready = FALSE]
          ELSE [ready |-> TRUE, ssrc |-> s, avframe |-> IF f = "heard" THEN s ELSE NoSsrc,
                length |-> IF f = "muted" THEN 1 ELSE 0]]
  /\ ab_write' = ab_write + 1
  /\ ab_mutex' = "nobody" /\ receiver' = [at |-> "waiting", block |-> Nothing]
  /\ UNCHANGED <<realtime, incoming_ssrc, codec_context, input_rate, ab_read, ab_buffering,
                 resamplerVars, blocks, stops>>

\* A first AAC block is muted; a packet of a realtime stream may be lost.  The gap a lost one
\* leaves is not at the head of an empty buffer: it is noticed when a later one comes.
ReceiverStep ==
  \/ \E s \in Encodings, f \in Fates :
       /\ f = "muted" => s \notin Alac
       /\ f = "gone" => realtime /\ ab_read < ab_write
       /\ Begin(s, f, "putting")
  \/ ~realtime /\ \E s \in Encodings : Begin(s, "heard", "preparing")
  \/ OpenDecoder \/ Prepared \/ Put

---------------------------------------------------------------------------
\* The player's thread.

decoderVars == <<realtime, incoming_ssrc, codec_context, receiver, blocks>>

\* clear_software_resampler and the first half of setup_software_resampler, up to the place
\* where the old resampler is freed.
BeginSetUp(s) ==
  /\ input_rate' = Rate[s]
  /\ swr' = NoResampler /\ resampler_ssrc' = NoSsrc

\* The second half, which reads the decoder's format and input_rate.
FinishSetUp ==
  /\ player.at \in {"first", "setting up"}
  /\ LET s == slot[player.frame].ssrc
     IN /\ swr' = [ssrc |-> s, rate |-> input_rate,
                   format |-> IF s \in Alac THEN SampleFormat(codec_context) ELSE NoSsrc]
        /\ resampler_ssrc' = s
        /\ missedFormat' = (missedFormat \/ (s \in Alac /\ codec_context = NoSsrc))
  /\ IF player.at = "first"
       THEN player' = [player EXCEPT !.at = "idle"] /\ ab_buffering' = FALSE /\ ab_mutex' = "nobody"
       ELSE player' = [player EXCEPT !.at = "ready"] /\ UNCHANGED <<ab_buffering, ab_mutex>>
  /\ UNCHANGED <<decoderVars, input_rate, slot, ab_read, ab_write, converted, stops>>

\* buffer_get_frame, at the first frame of a play: the output is set up early, for silence.
FirstFrame ==
  /\ player.at = "idle" /\ ab_buffering /\ ab_mutex = "nobody" /\ ab_read < ab_write
  /\ slot[ab_read % Slots].ready /\ slot[ab_read % Slots].ssrc /= NoSsrc
  /\ ab_mutex' = "player" /\ player' = [at |-> "first", frame |-> ab_read % Slots]
  /\ BeginSetUp(slot[ab_read % Slots].ssrc)
  /\ UNCHANGED <<decoderVars, bufferVars, converted, missedFormat, stops>>

\* buffer_get_frame: the next frame, there or not.
TakeFrame ==
  /\ player.at = "idle" /\ ~ab_buffering /\ ab_mutex = "nobody" /\ ab_read < ab_write
  /\ player' = [at |-> "taken", frame |-> ab_read % Slots]
  /\ slot' = [slot EXCEPT ![ab_read % Slots].ready = FALSE]
  /\ ab_read' = ab_read + 1
  /\ UNCHANGED <<decoderVars, ab_write, ab_buffering, ab_mutex, input_rate, resampler_ssrc, swr,
                 converted, missedFormat, stops>>

\* Is the resampler the one for this frame?
BugFits(s) == resampler_ssrc = incoming_ssrc
Fits(s) == resampler_ssrc = s

Match ==
  /\ player.at = "taken"
  /\ LET s == slot[player.frame].ssrc
     IN \/ Fits(s) /\ player' = [player EXCEPT !.at = "ready"]
           /\ UNCHANGED <<input_rate, swr, resampler_ssrc>>
        \/ ~Fits(s) /\ s = NoSsrc /\ player' = [player EXCEPT !.at = "ready"]
           /\ swr' = NoResampler /\ resampler_ssrc' = NoSsrc /\ UNCHANGED input_rate
        \/ ~Fits(s) /\ s /= NoSsrc /\ player' = [player EXCEPT !.at = "setting up"]
           /\ BeginSetUp(s)
  /\ UNCHANGED <<decoderVars, bufferVars, ab_mutex, converted, missedFormat, stops>>

\* avframe_to_audio, of the frame, or of an empty one after as much silence as the slot's
\* length.  The length is that of the samples from then on.
Convert ==
  /\ player.at = "ready"
  /\ LET b == slot[player.frame]
         kind == IF b.avframe /= NoSsrc THEN "frame"
                 ELSE IF b.length /= 0 THEN "silence" ELSE "none"
     IN /\ converted' = [kind |-> kind, ssrc |-> IF kind = "frame" THEN b.avframe ELSE b.ssrc,
                         by |-> swr]
        /\ slot' = IF kind = "frame"
                     THEN [slot EXCEPT ![player.frame].avframe = NoSsrc,
                                       ![player.frame].length = 1]
                     ELSE slot
  /\ player' = [player EXCEPT !.at = "idle"]
  /\ UNCHANGED <<decoderVars, ab_read, ab_write, ab_buffering, ab_mutex, input_rate,
                 resampler_ssrc, swr, missedFormat, stops>>

\* ab_resync and avflush: the frames go, and the resampler only forgets its samples.
Resync ==
  /\ player.at = "idle" /\ ab_mutex = "nobody" /\ stops < MaxStops
  /\ stops' = stops + 1
  /\ slot' = [i \in Index |-> IF slot[i].avframe /= NoSsrc
                THEN [Empty EXCEPT !.length = slot[i].length]
                ELSE [slot[i] EXCEPT !.ready = FALSE]]
  /\ ab_read' = ab_write /\ ab_buffering' = TRUE
  /\ UNCHANGED <<decoderVars, ab_write, ab_mutex, input_rate, resamplerVars>>

\* The end of a play, the receiving thread being gone, and the beginning of the next: init_buffer
\* leaves the lengths of what was played.
EndPlay ==
  /\ player.at = "idle" /\ receiver.at = "waiting" /\ stops < MaxStops
  /\ realtime => Replays
  /\ stops' = stops + 1
  /\ incoming_ssrc' = NoSsrc /\ codec_context' = NoSsrc
  /\ swr' = NoResampler /\ resampler_ssrc' = NoSsrc
  /\ slot' = [i \in Index |-> [slot[i] EXCEPT !.ready = FALSE, !.avframe = NoSsrc, !.ssrc = NoSsrc]]
  /\ ab_read' = ab_write /\ ab_buffering' = TRUE
  /\ UNCHANGED <<realtime, receiver, blocks, ab_write, ab_mutex, input_rate, player, converted,
                 missedFormat>>

ChainNext ==
  \/ ReceiverStep
  \/ FirstFrame \/ TakeFrame \/ Match \/ FinishSetUp \/ Convert \/ Resync \/ EndPlay

ChainSpec == ChainInit /\ [][ChainNext]_chainVars

---------------------------------------------------------------------------
ChainTypeOK ==
  /\ incoming_ssrc \in Tags /\ codec_context \in Tags /\ resampler_ssrc \in Tags
  /\ input_rate \in {Rate[s] : s \in Encodings} \cup {0}
  /\ slot \in [Index -> [ready : BOOLEAN, ssrc : Tags, avframe : Tags, length : 0 .. 1]]
  /\ ab_read \in 0 .. ab_write /\ ab_write <= ab_read + Slots
  /\ ab_mutex \in {"nobody", "receiver", "player"}
  /\ receiver.at \in {"waiting", "preparing", "putting"}
  /\ receiver.block \in [ssrc : Tags, fate : Fates]
  /\ player \in [at : {"idle", "first", "taken", "setting up", "ready"}, frame : Index]
  /\ swr \in [ssrc : Tags, format : Tags, rate : {Rate[s] : s \in Encodings} \cup {0}]

\* What goes through the resampler finds one, set up for its own encoding, sample format and
\* rate, whatever comes in meanwhile; and no set-up finds the decoder gone.
ConvertedAsEncoded ==
  /\ ~missedFormat
  /\ converted.kind = "frame" =>
       converted.by = [ssrc |-> converted.ssrc, rate |-> Rate[converted.ssrc],
                       format |-> SampleFormat(converted.ssrc)]
  /\ converted.kind = "silence" => converted.by /= NoResampler
=============================================================================
