---------------------------- MODULE FormatSearch ----------------------------
(***************************************************************************)
(* The choice of an output configuration: a number of channels, a rate and *)
(* a format.  The settings name what may be used; the ALSA back end, the    *)
(* first time it can open the device, takes out of them what the device     *)
(* does not do and fills in a table of combinations; every new kind of      *)
(* input then makes the player ask for the configuration nearest to it and  *)
(* open the device with that.  The last answer is kept.                     *)
(*                                                                          *)
(* The player and the thread that keeps the device awake may both prepare   *)
(* the device and ask.  The device may be in the use of another program.    *)
(***************************************************************************)
EXTENDS Integers, Sequences, SequencesExt, FiniteSets

CONSTANTS
  Givens,     \* settings as they are written
  Trials,     \* how combinations are tried: "parts" (ALSA), "none" (an ALSA
              \* plug-in) or "whole" (sndio)
  Does,       \* what the device does, for each of these: configurations
  Little,     \* the machine is little-endian
  Requests,   \* kinds of input, as configurations
  Threads,    \* who prepares the device and asks
  MayBeBusy   \* the device may be in use by another program

VARIABLES
  trial,      \* one of Trials
  exact,      \* no audio processing: volume control ignored, not mono
  settings,   \* config.channel_set, config.rate_set, config.format_set
  table,      \* permissible_configurations: what it does not exclude
  probed,     \* permissible_configuration_check_done
  holder,     \* who has alsa_mutex and is filling in the table
  busy,       \* another program has the device
  stage,      \* per thread: where it is
  request,    \* per thread: what it looks for
  place,      \* per thread: the channel count index, those seen, the rates tried
  answer,     \* per thread: the configuration found, or Nothing
  last,       \* search_for_suitable_configuration_last_response
  current,    \* current_encoded_output_format
  blind,      \* the configurations found while nothing had been tried
  died        \* a device that was there refused: ALSA's caller ends the program

searchVars == <<trial, exact, settings, table, probed, holder, busy, stage, request, place,
                answer, last, current, blind, died>>

Nothing == <<0, 0, "none">>
Device == Does[trial]

-----------------------------------------------------------------------------
\* Formats, rates and channels.

Native == IF Little THEN <<"LE", "BE">> ELSE <<"BE", "LE">>
Ends(f) == CASE f = "S16" -> [LE |-> "S16_LE", BE |-> "S16_BE"]
             [] f = "S24" -> [LE |-> "S24_LE", BE |-> "S24_BE"]
             [] f = "S24_3" -> [LE |-> "S24_3LE", BE |-> "S24_3BE"]
             [] f = "S32" -> [LE |-> "S32_LE", BE |-> "S32_BE"]
Sizes == {"S16", "S24", "S24_3", "S32"}
Pair(size) == IF size = "8" THEN <<"S8", "U8">>
              ELSE <<Ends(size)[Native[1]], Ends(size)[Native[2]]>>
AllFormats == {"S8", "U8"} \cup UNION {ToSet(Pair(s)) : s \in Sizes}
SizeOf(f) == IF f \in {"S8", "U8"} THEN "8"
             ELSE CHOOSE s \in Sizes : f = s \/ f \in ToSet(Pair(s))

\* The format asked for and the other of its size come first, then the other
\* sizes in order of suitability, each with the native order first.
InitialSearch(f) == IF f \in Sizes \/ f = Pair(SizeOf(f))[1] THEN Pair(SizeOf(f))
                    ELSE Reverse(Pair(SizeOf(f)))
SubsequentSizes(f) ==
  CASE SizeOf(f) = "8"     -> <<"S16", "S24", "S24_3", "S32">>
    [] SizeOf(f) = "S16"   -> <<"S24", "S24_3", "S32", "8">>
    [] SizeOf(f) = "S24"   -> <<"S24_3", "S32", "S16", "8">>
    [] SizeOf(f) = "S24_3" -> <<"S24", "S32", "S16", "8">>
    [] SizeOf(f) = "S32"   -> <<"S24", "S24_3", "S16", "8">>
ToTry(f) == InitialSearch(f) \o FlattenSeq([i \in 1 .. 4 |-> Pair(SubsequentSizes(f)[i])])

Rates == <<44100, 48000, 88200, 96000, 176400, 192000, 352800, 384000,
           64000, 32000, 22050, 16000, 11025, 8000, 5512>>
Highest == 384000
ChannelSequence == <<0, 1, 2, 3, 4, 5, 6, 7, 8, 7, 6, 5, 4, 3, 2, 1>>

\* An encoded configuration keeps the half of the rate.
Encoded(c) == <<c[1], 2 * (c[2] \div 2), c[3]>>

\* get_format_settings, get_rate_settings, get_channel_settings: what is
\* written, and what is not valid left out.
FormatsOf(g) ==
  IF "auto" \in g THEN AllFormats
  ELSE UNION {CASE f \in {"S16", "S32"} -> ToSet(Pair(f))
                [] f = "S24" -> ToSet(Pair("S24")) \cup ToSet(Pair("S24_3"))
                [] f \in AllFormats -> {f}
                [] OTHER -> {} : f \in g}
RatesOf(g) == IF g.auto THEN ToSet(Rates) ELSE g.list \cap ToSet(Rates)
ChannelsOf(g) == IF g.auto THEN 1 .. 31 ELSE g.list \cap 1 .. 31

OrDefault(s, default) == IF s = {} THEN default ELSE s
Parsed(g) == [channels |-> OrDefault(ChannelsOf(g.channels), 1 .. 31),
              rates |-> OrDefault(RatesOf(g.rates), ToSet(Rates)),
              formats |-> OrDefault(FormatsOf(g.formats), AllFormats)]

-----------------------------------------------------------------------------
SearchInit ==
  /\ trial \in Trials /\ exact \in BOOLEAN
  /\ settings \in {Parsed(g) : g \in Givens}
  /\ table = (0 .. 8) \X ToSet(Rates) \X AllFormats  \* zero is "permitted"
  /\ probed = FALSE
  /\ holder = "nobody"
  /\ busy \in {FALSE, MayBeBusy}
  /\ stage = [t \in Threads |-> "idle"]
  /\ request = [t \in Threads |-> Nothing]
  /\ place = [t \in Threads |-> [index |-> 0, seen |-> {}, rates |-> "multiple"]]
  /\ answer = [t \in Threads |-> Nothing]
  /\ last = [request |-> Nothing, answer |-> Nothing]
  /\ current = Nothing
  /\ blind = {}
  /\ died = FALSE

\* get_permissible_configuration_settings looks at the flag without the mutex.
Prepare(t) ==
  /\ stage[t] = "idle" /\ ~ died
  /\ stage' = [stage EXCEPT ![t] = IF probed THEN "prepared" ELSE "wait"]
  /\ UNCHANGED <<trial, exact, settings, table, probed, holder, busy, request, place, answer, last, current, blind, died>>

\* What the device does of what the settings allow, each dimension by itself.
Narrowed(s) ==
  [channels |-> {c \in s.channels : c > 8 \/ \E d \in Device : d[1] = c},
   rates |-> {r \in s.rates : \E d \in Device : d[2] = r},
   formats |-> {f \in s.formats : \E d \in Device : d[3] = f}]

\* The mutex is had, and the device opened or not.  The settings are cut down
\* and the table is emptied.
BeginProbe(t) ==
  /\ stage[t] = "wait" /\ holder = "nobody"
  /\ IF busy
       THEN stage' = [stage EXCEPT ![t] = "prepared"] /\ UNCHANGED <<trial, exact, settings, table, holder>>
       ELSE /\ stage' = [stage EXCEPT ![t] = "probe"]
            /\ holder' = t
            /\ settings' = Narrowed(settings)
            /\ table' = {}
  /\ UNCHANGED <<trial, exact, probed, busy, request, place, answer, last, current, blind, died>>

\* snd_pcm_hw_params_test_* tries one parameter in the space of all
\* configurations and does not set it: ALSA's combinations are never tried.
\* sndio's are set, and read back.
Tried(c) ==
  CASE trial = "none"  -> TRUE
    [] trial = "parts" -> \A k \in 1 .. 3 : \E d \in Device : d[k] = c[k]
    [] trial = "whole" -> c \in Device

Combinations == (settings.channels \cap 0 .. 8) \X settings.rates \X settings.formats

EndProbe(t) ==
  /\ stage[t] = "probe"
  /\ table' = {c \in Combinations : Tried(c)}
  /\ probed' = TRUE /\ holder' = "nobody"
  /\ stage' = [stage EXCEPT ![t] = "prepared"]
  /\ UNCHANGED <<trial, exact, settings, busy, request, place, answer, last, current, blind, died>>

\* The first rate at which one of the formats can be had, and that format.
BugAccepts(c) == TRUE
Accepts(c) == c \in table
Permissible(c, r) == c \in settings.channels /\ r \in settings.rates
FormatAt(c, r, f) ==
  LET usable == SelectSeq(ToTry(f), LAMBDA g : g \in settings.formats /\ Accepts(<<c, r, g>>))
  IN  IF Permissible(c, r) /\ usable # <<>> THEN usable[1] ELSE "none"

Multiples(r) == SelectSeq([k \in 1 .. 8 |-> r * 2 ^ (k - 1)], LAMBDA x : x <= Highest)
AsIs(q, c, r) == exact /\ r = q[2] /\ c >= q[1]

\* The rates to try with c channels, in order, each with the format to ask for.
RatesToTry(q, c, which) ==
  CASE which = "multiple" ->
         LET m == Multiples(q[2])
         IN  [k \in DOMAIN m |-> <<m[k], IF AsIs(q, c, m[k]) THEN q[3] ELSE "S32">>]
    [] which = "higher" ->
         LET h == SelectSeq(Rates, LAMBDA r : r > q[2]) IN [k \in DOMAIN h |-> <<h[k], q[3]>>]
    [] which = "lower" ->
         LET l == SelectSeq(Reverse(Rates), LAMBDA r : r < q[2]) IN [k \in DOMAIN l |-> <<l[k], q[3]>>]

FirstOf(q, c, which) ==
  LET tries == RatesToTry(q, c, which)
      good  == {k \in DOMAIN tries : FormatAt(c, tries[k][1], tries[k][2]) # "none"}
  IN  IF good = {} THEN Nothing
      ELSE LET k == CHOOSE k \in good : \A j \in good : k <= j
           IN  <<c, tries[k][1], FormatAt(c, tries[k][1], tries[k][2])>>

\* get_configuration: a device in use is there all the same.
Ask(t, q) ==
  /\ stage[t] = "prepared" /\ ~ died
  /\ request' = [request EXCEPT ![t] = q]
  /\ IF last.request = q /\ last.answer # Nothing
       THEN /\ answer' = [answer EXCEPT ![t] = last.answer]
            /\ stage' = [stage EXCEPT ![t] = "found"]
            /\ UNCHANGED place
       ELSE /\ answer' = [answer EXCEPT ![t] = Nothing]
            /\ stage' = [stage EXCEPT ![t] = "search"]
            /\ place' = [place EXCEPT ![t] = [index |-> q[1], seen |-> {}, rates |-> "multiple"]]
  /\ UNCHANGED <<trial, exact, settings, table, probed, holder, busy, last, current, blind, died>>

\* After the rates of one kind the next kind, after the last the next channel
\* count that has not been tried.
NextRates(which) == CASE which = "multiple" -> "higher" [] which = "higher" -> "lower"
                      [] which = "lower" -> "multiple"
Onward(p) ==
  IF p.rates # "lower" THEN [p EXCEPT !.rates = NextRates(@)]
  ELSE [index |-> p.index + 1, seen |-> p.seen \cup {ChannelSequence[p.index + 1]}, rates |-> "multiple"]

Look(t) ==
  LET p == place[t]
      c == ChannelSequence[p.index + 1]
      found == FirstOf(request[t], c, p.rates)
  IN  /\ stage[t] = "search" /\ p.index < Len(ChannelSequence)
      /\ IF c \in p.seen
           THEN place' = [place EXCEPT ![t] = [@ EXCEPT !.index = @ + 1]] /\ UNCHANGED <<answer, last, stage, blind>>
         ELSE IF found = Nothing
           THEN place' = [place EXCEPT ![t] = Onward(p)] /\ UNCHANGED <<answer, last, stage, blind>>
         ELSE /\ answer' = [answer EXCEPT ![t] = Encoded(found)]
              /\ last' = [request |-> request[t], answer |-> Encoded(found)]
              /\ stage' = [stage EXCEPT ![t] = "found"]
              /\ blind' = IF probed THEN blind ELSE blind \cup {Encoded(found)}
              /\ UNCHANGED place
      /\ UNCHANGED <<trial, exact, settings, table, probed, holder, busy, request, current, died>>

GiveUp(t) ==
  /\ stage[t] = "search" /\ place[t].index = Len(ChannelSequence)
  /\ stage' = [stage EXCEPT ![t] = "prepared"]
  /\ UNCHANGED <<trial, exact, settings, table, probed, holder, busy, request, place, answer, last, current, blind, died>>

\* configure: if it differs, the device is opened with it.  A device that is
\* in use is not opened; one that refuses the configuration ends the program.
Configure(t) ==
  /\ stage[t] = "found" /\ holder = "nobody"
  /\ current' = answer[t]
  /\ died' = (died \/ (current # answer[t] /\ ~ busy /\ answer[t] \notin Device))
  /\ stage' = [stage EXCEPT ![t] = "idle"]
  /\ UNCHANGED <<trial, exact, settings, table, probed, holder, busy, request, place, answer, last, blind>>

OthersUse ==
  /\ MayBeBusy /\ holder = "nobody" /\ ~ died
  /\ busy' = ~ busy
  /\ UNCHANGED <<trial, exact, settings, table, probed, holder, stage, request, place, answer, last, current, blind, died>>

Stopped == died /\ UNCHANGED searchVars

SearchNext ==
  \/ \E t \in Threads : Prepare(t) \/ BeginProbe(t) \/ EndProbe(t) \/ Look(t) \/ GiveUp(t) \/ Configure(t)
  \/ \E t \in Threads, q \in Requests : Ask(t, q)
  \/ OthersUse
  \/ Stopped

SearchSpec == SearchInit /\ [][SearchNext]_searchVars

-----------------------------------------------------------------------------
SearchTypeOK ==
  /\ settings.channels \subseteq 1 .. 31
  /\ settings.rates \subseteq ToSet(Rates)
  /\ settings.formats \subseteq AllFormats
  /\ stage \in [Threads -> {"idle", "wait", "probe", "prepared", "search", "found"}]
  /\ \A t \in Threads : request[t] \in Requests \cup {Nothing}
  /\ \A t \in Threads : place[t].index \in 0 .. 16 /\ place[t].rates \in {"multiple", "higher", "lower"}
  /\ holder \in Threads \cup {"nobody"}

\* How far a configuration is from the request: channels first (as many, then
\* more, then fewer), then the kind of rate, and of the multiples how many times.
ChannelDistance(q, c) == IF c >= q[1] THEN c - q[1] ELSE 8 - c
RateDistance(q, r) ==
  IF \E k \in 0 .. 7 : r = q[2] * 2 ^ k THEN CHOOSE k \in 0 .. 7 : r = q[2] * 2 ^ k
  ELSE IF r > q[2] THEN 10 ELSE 11
Nearer(q, a, b) ==
  \/ ChannelDistance(q, a[1]) < ChannelDistance(q, b[1])
  \/ ChannelDistance(q, a[1]) = ChannelDistance(q, b[1]) /\ RateDistance(q, a[2]) < RateDistance(q, b[2])

Usable == {c \in table : c[1] \in settings.channels /\ c[2] \in settings.rates /\ c[3] \in settings.formats}

Found(t) == stage[t] = "found" /\ answer[t] \notin blind

\* What is found is what there is nearest to the request.
NearestFound ==
  \A t \in Threads : Found(t) =>
    /\ answer[t] \in Usable
    /\ \A c \in Usable : ~ Nearer(request[t], c, answer[t])

\* A search is given up only if nothing can be used.
NothingMissed ==
  \A t \in Threads : (stage[t] = "search" /\ place[t].index = Len(ChannelSequence)) =>
    \A c \in Usable : c[1] = 0

\* With no audio processing, what the device does goes through as it is.
ExactKept ==
  \A t \in Threads : Found(t) /\ exact /\ request[t] \in Usable => answer[t] = request[t]

\* The deepest format is taken when there is processing to be done.
DeepestTaken ==
  \A t \in Threads :
    (Found(t) /\ ~ exact /\ RateDistance(request[t], answer[t][2]) < 10) =>
      \A f \in ToSet(Pair("S32")) :
        (<<answer[t][1], answer[t][2], f>> \in Usable) => answer[t][3] \in ToSet(Pair("S32"))

\* The device refuses only what was found before anything could be tried.
OpensAsConfigured == died => current \in blind
=============================================================================
