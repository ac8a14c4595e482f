------------------------------- MODULE MCAudio -------------------------------
(***************************************************************************)
(* What audio goes through, for TLC, one step of the way after the other   *)
(* in one run.  A behaviour is one of a single component, named by part;   *)
(* the variables of the others stay as they began, so that a property of   *)
(* one of them says nothing of those behaviours.  ChannelMap and Stuffing  *)
(* are extended, the others are instances:                                 *)
(*   Resend   ResendControl, with requests that may fail,                  *)
(*   Packets  SyncPackets, with numbers modulo 32,                         *)
(*   Chain    DecodingChain, with a source that changes its encoding when  *)
(*            the resampler has caught up, and a realtime stream played    *)
(*            once,                                                        *)
(*   Output   SampleOutput, with two bits to a byte,                       *)
(*   Search   FormatSearch, with a device of every kind,                   *)
(*   Pool     ConvolverPool, for a source that keeps its channels,         *)
(*   Rates    FrameRates, asked while the device runs or is not open.      *)
(***************************************************************************)
EXTENDS ChannelMap, Stuffing, TLC

VARIABLES
  part,
  \* ResendControl
  rs_now, sent, rs_slot, rs_read, rs_write, error_time, address, rs_asked, excused, lost,
  losses, strayed, neglected,
  \* SyncPackets
  sy_setting, sy_now, flight, local_to_remote_time_difference, latency, anchor_rtptime,
  anchor_time, anchor_remote_info_is_valid, sy_receiver, anchored,
  \* DecodingChain
  realtime, incoming_ssrc, codec_context, input_rate, slot, ab_read, ab_write, ab_buffering,
  ab_mutex, receiver, player, resampler_ssrc, swr, converted, missedFormat, blocks, stops,
  \* SampleOutput
  sample, volume, format, dither, loud, r, previous_random_number, hyper_sample, sa_stage, out,
  \* FormatSearch
  trial, exact, settings, table, probed, holder, busy, fs_stage, request, place, answer, fs_last,
  current, blind, died,
  \* ConvolverPool
  taskQueue, activeTasks, stop, worker, cv_step, channel, block, convolved, is_valid, cv_current,
  enabled, files, updating, updated, convolver, clearing,
  \* FrameRates
  fr_now, fr_state, fr_waiting, fr_timestamp, frames_sent_for_playing, frames_sent_break_occurred,
  raw_measurement_time, previous, frame_rate, fr_troubles

resendVars ==
  <<rs_now, sent, rs_slot, rs_read, rs_write, error_time, address, rs_asked, excused, lost,
    losses, strayed, neglected>>
syncVars ==
  <<sy_setting, sy_now, flight, local_to_remote_time_difference, latency, anchor_rtptime,
    anchor_time, anchor_remote_info_is_valid, sy_receiver, anchored>>
chainVars ==
  <<realtime, incoming_ssrc, codec_context, input_rate, slot, ab_read, ab_write, ab_buffering,
    ab_mutex, receiver, player, resampler_ssrc, swr, converted, missedFormat, blocks, stops>>
sampleVars ==
  <<sample, volume, format, dither, loud, r, previous_random_number, hyper_sample, sa_stage, out>>
searchVars ==
  <<trial, exact, settings, table, probed, holder, busy, fs_stage, request, place, answer, fs_last,
    current, blind, died>>
convolutionVars ==
  <<taskQueue, activeTasks, stop, worker, cv_step, channel, block, convolved, is_valid, cv_current,
    enabled, files, updating, updated, convolver, clearing>>
rateVars ==
  <<fr_now, fr_state, fr_waiting, fr_timestamp, frames_sent_for_playing,
    frames_sent_break_occurred, raw_measurement_time, previous, frame_rate, fr_troubles>>
putVars == <<searchVars, convolutionVars, rateVars>>
allVars ==
  <<part, mapVars, stuffVars, resendVars, syncVars, chainVars, sampleVars, putVars>>

Resend == INSTANCE ResendControl WITH
  Protocol <- "realtime", Latency <- 9, Lead <- 1, FirstCheck <- 1, Interval <- 2,
  LastCheck <- 1, Backoff <- 3, Fails <- TRUE, MaxGap <- 2, MaxLost <- 3, MaxPacket <- 13,
  now <- rs_now, slot <- rs_slot, ab_read <- rs_read, ab_write <- rs_write, asked <- rs_asked

\* A Classic source with a fixed offset, one with bounds, one with the user's latency, and a
\* realtime stream.
PacketSettings ==
  LET classic == [user |-> 0, minimum |-> 0, maximum |-> 0, offset |-> 0, buffer |-> 1,
                  protocol |-> "classic", fixed |-> TRUE]
  IN {classic,
      [classic EXCEPT !.minimum = 4, !.maximum = 5, !.offset = -1, !.fixed = FALSE],
      [classic EXCEPT !.user = 4, !.fixed = FALSE],
      [classic EXCEPT !.protocol = "realtime", !.offset = -1]}

Packets == INSTANCE SyncPackets WITH
  Wrap <- 32, Second <- 5, Rate <- 3, FirstFrame <- 29, Latencies <- {3, 40}, MaxFrames <- 9,
  Room <- 10, FixedLatencyOffset <- 2, Differences <- {-7}, Settings <- PacketSettings,
  MaxTime <- 6, MaxFlight <- 2, setting <- sy_setting, now <- sy_now, receiver <- sy_receiver

Chain == INSTANCE DecodingChain WITH
  Encodings <- {"alac", "aac", "atmos"}, Alac <- {"alac"},
  Rate <- [alac |-> 1, aac |-> 1, atmos |-> 2], NoSsrc <- "none", Slots <- 3,
  Patient <- TRUE, Replays <- FALSE, MaxBlocks <- 4, MaxStops <- 1

Output == INSTANCE SampleOutput WITH
  Byte <- 2, Volumes <- {3, 16}, Loudness <- BOOLEAN, stage <- sa_stage

Anything == [auto |-> TRUE, list |-> {}]
Only(l) == [auto |-> FALSE, list |-> l]
\* Nothing set, stereo at some rates, and settings of which some are not valid.
SearchSettings ==
  {[channels |-> Anything, rates |-> Anything, formats |-> {"auto"}],
   [channels |-> Only({2}), rates |-> Only({8000, 44100, 64000}), formats |-> {"S16"}],
   [channels |-> Only({1, 8, 40}), rates |-> Only({44100}), formats |-> {"S24", "U8", "junk"}]}
\* Hardware that does every combination of what it does, a plug-in, and an sndio device
\* that does not.
Devices ==
  [parts |-> {2, 6} \X {44100, 96000} \X {"S16_LE", "S24_3LE", "S32_LE"},
   none |-> (0 .. 8) \X {44100, 48000} \X {"S16_LE", "S32_LE"},
   whole |-> {<<2, 44100, "S32_LE">>, <<2, 96000, "S32_LE">>, <<8, 48000, "S16_LE">>}]
Inputs == {<<2, 44100, "S16">>, <<2, 48000, "S24">>, <<6, 48000, "S24">>, <<1, 44100, "S16_LE">>,
           <<2, 44100, "S16_LE">>}

Search == INSTANCE FormatSearch WITH
  Givens <- SearchSettings, Trials <- DOMAIN Devices, Does <- Devices,
  Little <- TRUE, Requests <- Inputs, Threads <- {"player"}, MayBeBusy <- TRUE,
  stage <- fs_stage, last <- fs_last

Pool == INSTANCE ConvolverPool WITH
  MaxChannels <- 2, Workers <- {"w1", "w2"}, Clearers <- {"flush"},
  Kinds <- {[rate |-> f, channels |-> 2] : f \in {1, 2}},
  Lists <- {{[rate |-> 1, channels |-> 1]}, {[rate |-> f, channels |-> 2] : f \in {1, 2}}},
  Apart <- TRUE, MaxBlocks <- 2, MaxVersions <- 2, step <- cv_step, current <- cv_current

Rates == INSTANCE FrameRates WITH
  Room <- 4, Threshold <- 3, Period <- 3, Chunk <- 2, Precision <- TRUE,
  AskedWhile <- {"running", "none"}, MaxLate <- 1, MaxTime <- 7, MaxTroubles <- 1,
  now <- fr_now, state <- fr_state, waiting <- fr_waiting, timestamp <- fr_timestamp,
  troubles <- fr_troubles

MCInit ==
  /\ part \in {"map", "stuff", "resend", "packets", "chain", "output", "search", "pool",
             "rate"}
  /\ IF part = "map" THEN MapInit ELSE
       /\ found = 0 /\ size = 0 /\ cmi = 0 /\ c = 0 /\ pass = "names"
       /\ resampler = <<>> /\ output = <<>> /\ heard = <<>> /\ taken = <<>> /\ map = <<>>
  /\ StuffInit /\ (part /= "stuff" => method = "soxr" /\ length = Shortest /\ stuff = 0)
  /\ Resend!ResendInit
  /\ Packets!SyncInit /\ (part /= "packets" => sy_setting.user = 4)
  /\ Chain!ChainInit /\ (part /= "chain" => realtime)
  /\ IF part = "output" THEN Output!SampleInit ELSE
       /\ sample = 0 /\ volume = 0 /\ format = "S8" /\ dither = FALSE /\ loud = FALSE /\ r = 0
       /\ previous_random_number = 0 /\ hyper_sample = 0 /\ sa_stage = "scale" /\ out = <<>>
  /\ IF part = "search" THEN Search!SearchInit ELSE
       /\ trial = "whole" /\ exact = FALSE /\ settings = {} /\ table = {} /\ probed = FALSE /\ holder = "nobody"
       /\ busy = FALSE /\ fs_stage = <<>> /\ request = <<>> /\ place = <<>> /\ answer = <<>>
       /\ fs_last = <<>> /\ current = <<>> /\ blind = {} /\ died = FALSE
  /\ Pool!PoolInit /\ (part /= "pool" => files.fits = {[rate |-> 1, channels |-> 1]})
  /\ Rates!RateInit

MCNext ==
  /\ UNCHANGED part
  /\ \/ /\ part = "map" /\ MapNext
        /\ UNCHANGED <<stuffVars, resendVars, syncVars, chainVars, sampleVars, putVars>>
     \/ /\ part = "stuff" /\ StuffNext
        /\ UNCHANGED <<mapVars, resendVars, syncVars, chainVars, sampleVars, putVars>>
     \/ /\ part = "resend" /\ Resend!ResendNext
        /\ UNCHANGED <<mapVars, stuffVars, syncVars, chainVars, sampleVars, putVars>>
     \/ /\ part = "packets" /\ Packets!SyncNext
        /\ UNCHANGED <<mapVars, stuffVars, resendVars, chainVars, sampleVars, putVars>>
     \/ /\ part = "chain" /\ Chain!ChainNext
        /\ UNCHANGED <<mapVars, stuffVars, resendVars, syncVars, sampleVars, putVars>>
     \/ /\ part = "output" /\ Output!SampleNext
        /\ UNCHANGED <<mapVars, stuffVars, resendVars, syncVars, chainVars, putVars>>
     \/ /\ part = "search" /\ Search!SearchNext
        /\ UNCHANGED <<mapVars, stuffVars, resendVars, syncVars, chainVars, sampleVars,
                       convolutionVars, rateVars>>
     \/ /\ part = "pool" /\ Pool!PoolNext
        /\ UNCHANGED <<mapVars, stuffVars, resendVars, syncVars, chainVars, sampleVars,
                       searchVars, rateVars>>
     \/ /\ part = "rate" /\ Rates!RateNext
        /\ UNCHANGED <<mapVars, stuffVars, resendVars, syncVars, chainVars, sampleVars,
                       searchVars, convolutionVars>>

MCSpec == MCInit /\ [][MCNext]_allVars

\* See the modules for what these say.
TypesOK ==
  /\ part = "map" => MapTypeOK
  /\ part = "stuff" => StuffTypeOK
  /\ part = "resend" => Resend!ResendTypeOK
  /\ part = "packets" => Packets!SyncTypeOK
  /\ part = "chain" => Chain!ChainTypeOK
  /\ part = "output" => Output!SampleTypeOK
  /\ part = "search" => Search!SearchTypeOK
  /\ part = "pool" => Pool!PoolTypeOK
  /\ part = "rate" => Rates!RateTypeOK
PacketsRight ==
  /\ part = "resend" => Resend!ResendsRight
  /\ part = "packets" => Packets!TimesFollowSource /\ Packets!LatencyAgrees
SamplesRight ==
  /\ part = "chain" => Chain!ConvertedAsEncoded
  /\ part = "map" => ChannelsRight
  /\ part = "stuff" => StuffRight
  /\ part = "output" => Output!PlayedAsMeant
  /\ part = "pool" => Pool!ConvolvedOnce /\ Pool!ClearedAlone
  /\ part = "pool" => Pool!UsesTheFilesThere /\ Pool!NobodyOversleeps
OutputsRight ==
  /\ part = "search" => Search!NearestFound /\ Search!NothingMissed /\ Search!ExactKept
  /\ part = "search" => Search!DeepestTaken /\ Search!OpensAsConfigured
  /\ part = "rate" => Rates!RateIsTheDevices
=============================================================================
