------------------------------ MODULE ChannelMap ------------------------------
(***************************************************************************)
(* Which channel of the resampler each channel of the output device plays, *)
(* as setup_software_resampler works it out: channels of one name are      *)
(* matched, an output called "--" is silent, and what is left over on both *)
(* sides is put together in order of appearance.                           *)
(***************************************************************************)
EXTENDS Integers

CONSTANTS
  Names,        \* of channels, Dashes among them
  Dashes,       \* "--"
  NoName,       \* NULL
  Most          \* the size of the two tables, 64

ASSUME MapAssumption ==
  /\ Most \in Nat
  /\ Dashes \in Names /\ NoName \notin Names

VARIABLES
  found,        \* resampler_channels_found
  resampler,    \* the names of its channels; there are none from found on
  size,         \* output_channel_map_size
  output,       \* the names of the device's channels, of the map given or of the device's own
  heard,        \* resampler_channels[].allocated
  taken,        \* output_channels[].allocated
  map,          \* output_channel_to_resampler_channel_map
  cmi, c,       \* the indices of the loops
  pass

mapVars == <<found, resampler, size, output, heard, taken, map, cmi, c, pass>>

Table == 0 .. Most - 1
SilentChannel == -1     \* silent_channel_index

\* FFmpeg names the channels of a layout once each, and none of them "--".
Layout(names, count) ==
  /\ \A i \in Table : i < count <=> names[i] /= NoName
  /\ \A i, j \in Table : (i /= j /\ names[i] /= NoName) => names[i] /= names[j]
  /\ \A i \in Table : names[i] /= Dashes

MapInit ==
  /\ found \in 1 .. Most /\ size \in 0 .. Most
  /\ resampler \in [Table -> Names \cup {NoName}] /\ Layout(resampler, found)
  /\ output \in [Table -> Names \cup {NoName}]
  /\ heard = [i \in Table |-> FALSE] /\ taken = [i \in Table |-> FALSE]
  /\ map = [i \in Table |-> SilentChannel]
  /\ cmi = 0 /\ c = 0 /\ pass = "names"

Same(o, r) == output[o] /= NoName /\ resampler[r] /= NoName /\ output[o] = resampler[r]
Matches(o) == {r \in Table : r < found /\ Same(o, r)}

\* One output of the first loop.
Silence ==
  /\ pass = "names" /\ cmi < size /\ output[cmi] = Dashes
  /\ taken' = [taken EXCEPT ![cmi] = TRUE]
  /\ cmi' = cmi + 1
  /\ UNCHANGED <<found, resampler, size, output, heard, map, c, pass>>

Match ==
  /\ pass = "names" /\ cmi < size /\ output[cmi] /= Dashes
  /\ \E r \in Matches(cmi) :
       /\ map' = [map EXCEPT ![cmi] = r]
       /\ heard' = [heard EXCEPT ![r] = TRUE]
  /\ taken' = [taken EXCEPT ![cmi] = TRUE]
  /\ cmi' = cmi + 1
  /\ UNCHANGED <<found, resampler, size, output, c, pass>>

NoMatch ==
  /\ pass = "names" /\ cmi < size /\ output[cmi] /= Dashes /\ Matches(cmi) = {}
  /\ cmi' = cmi + 1
  /\ UNCHANGED <<found, resampler, size, output, heard, taken, map, c, pass>>

NamesDone ==
  /\ pass = "names" /\ cmi = size
  /\ pass' = "rest" /\ cmi' = 0 /\ c' = 0
  /\ UNCHANGED <<found, resampler, size, output, heard, taken, map>>

\* One iteration of the second loop, or of the loop within.
BugIsFree(r) == resampler[r] /= NoName
IsFree(r) == resampler[r] /= NoName /\ ~heard[r]

Skip ==
  /\ pass = "rest" /\ cmi < size /\ c < Most /\ taken[cmi]
  /\ cmi' = cmi + 1
  /\ UNCHANGED <<found, resampler, size, output, heard, taken, map, c, pass>>

Allocate ==
  /\ pass = "rest" /\ cmi < size /\ c < Most /\ ~taken[cmi] /\ IsFree(c)
  /\ taken' = [taken EXCEPT ![cmi] = TRUE]
  /\ heard' = [heard EXCEPT ![c] = TRUE]
  /\ map' = [map EXCEPT ![cmi] = c]
  /\ cmi' = cmi + 1
  /\ UNCHANGED <<found, resampler, size, output, c, pass>>

Advance ==
  /\ pass = "rest" /\ cmi < size /\ c < Most /\ ~taken[cmi] /\ ~IsFree(c)
  /\ c' = c + 1
  /\ UNCHANGED <<found, resampler, size, output, heard, taken, map, cmi, pass>>

RestDone ==
  /\ pass = "rest" /\ (cmi = size \/ c = Most)
  /\ pass' = "done"
  /\ UNCHANGED <<found, resampler, size, output, heard, taken, map, cmi, c>>

MapNext == Silence \/ Match \/ NoMatch \/ NamesDone \/ Skip \/ Allocate \/ Advance \/ RestDone

MapSpec == MapInit /\ [][MapNext]_mapVars

---------------------------------------------------------------------------
MapTypeOK ==
  /\ found \in 1 .. Most /\ size \in 0 .. Most
  /\ resampler \in [Table -> Names \cup {NoName}]
  /\ output \in [Table -> Names \cup {NoName}]
  /\ heard \in [Table -> BOOLEAN] /\ taken \in [Table -> BOOLEAN]
  /\ map \in [Table -> Table \cup {SilentChannel}]
  /\ cmi \in 0 .. size /\ c \in 0 .. Most
  /\ pass \in {"names", "rest", "done"}

Outputs == {o \in Table : o < size}

\* Two outputs play one channel only when the device has two channels of its name.
HeardOnce ==
  \A o, p \in Outputs :
    (o /= p /\ map[o] /= SilentChannel /\ map[o] = map[p]) => Same(o, map[o]) /\ Same(p, map[o])

\* An output that has the name of a channel plays that channel, and one called "--" none.
NamesHonoured ==
  pass = "done" =>
    \A o \in Outputs :
      /\ \A r \in Table : Same(o, r) => map[o] = r
      /\ output[o] = Dashes => map[o] = SilentChannel

\* A channel is left out only when no output is left for it.
NoneWasted ==
  (pass = "done" /\ \E o \in Outputs : map[o] = SilentChannel /\ output[o] /= Dashes) =>
    \A r \in Table : r < found => \E o \in Outputs : map[o] = r

ChannelsRight == HeardOnce /\ NamesHonoured /\ NoneWasted
=============================================================================
