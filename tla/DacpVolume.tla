----------------------------- MODULE DacpVolume ------------------------------
(***************************************************************************)
(* The volume of this speaker as the source keeps it, asked for and set    *)
(* through the source's remote control protocol (dacp.c).  The source has  *)
(* an overall volume, and a volume for each speaker that is relative to    *)
(* it; the program wants its own speaker at a level and the other speakers *)
(* where they are.  It asks for the overall volume, asks for the speakers, *)
(* and sends one or two commands, each in a conversation of its own: what  *)
(* it was told may have changed since, a command may be carried out and    *)
(* its answer be lost, and a second caller may come in between.            *)
(* The levels of the source are absolute here; it tells relative ones, and *)
(* both sides round.  What the source does with a command is external.     *)
(***************************************************************************)
EXTENDS Integers, FiniteSets, FiniteSetsExt

CONSTANTS
  Whole,        \* 100 per cent
  Us,           \* the speaker that has machine_number
  Others,       \* other speakers
  MaxSpeakers,  \* the length of speaker_info
  Setters,      \* threads that set the volume
  Getters,      \* threads that ask for it
  Wanted,       \* volumes that are asked for
  Levels,       \* volumes that a user sets at the source
  Failures,     \* what may go wrong: "refused", "lost", "garbled"
  MaxCalls,     \* bound on the calls
  MaxTroubles   \* bound on what the user does at the source and on what goes wrong

Speakers == Others \cup {Us}
Callers == Setters \cup Getters
Nobody == "nobody"

VARIABLES
  known,      \* dacp_server.port is not 0
  overall, level, active, listed,   \* the source's volumes, the speakers it plays to and tells of
  talker,     \* who holds dacp_conversation_lock
  at,         \* the command a caller is at, or "idle"
  call,       \* what a caller was called for, and how the source was then
  overall_volume, speaker_info, actual_volume,
  response,   \* what a caller was told in the end
  alone,      \* nothing else has changed the source since the call
  answered,   \* every command of the call was carried out and answered
  calls, troubles

source == <<overall, level, active, listed>>
callVars ==
  <<at, call, overall_volume, speaker_info, actual_volume, response, alone, answered>>
volumeVars == <<known, source, talker, callVars, calls, troubles>>

Portion(part, of) == (part * of + Whole \div 2) \div Whole
Share(part, of) == IF of = 0 THEN 0 ELSE (part * Whole + of \div 2) \div of
Lesser(a, b) == IF a < b THEN a ELSE b
Highest(S) == IF S = {} THEN 0 ELSE Max(S)

Commands == {"overall", "list", "include", "lower", "relative"}
Codes == {"ok", "done", "range", "no port", "refused", "none", "busy", "too many"}
NoCall == [kind |-> "get", volume |-> 0, overall |-> 0, level |-> [s \in Speakers |-> 0]]

VolumeInit ==
  /\ known = TRUE
  /\ overall \in Levels
  /\ level \in [Speakers -> {v \in Levels : v <= overall}]
  /\ active \in SUBSET Speakers
  /\ listed \in {Speakers, Others} \cup {Speakers \ {s} : s \in Others}
  /\ \A s \in Speakers \ listed : level[s] = 0 /\ s \notin active
  /\ talker = Nobody
  /\ at = [c \in Callers |-> "idle"]
  /\ call = [c \in Callers |-> NoCall]
  /\ overall_volume = [c \in Callers |-> 0]
  /\ speaker_info = [c \in Callers |-> <<>>]
  /\ actual_volume = [c \in Callers |-> 0]
  /\ response = [c \in Callers |-> "none"]
  /\ alone = [c \in Callers |-> FALSE]
  /\ answered = [c \in Callers |-> FALSE]
  /\ calls = 0 /\ troubles = 0

------------------------------------------------------------------------------
(* The source.                                                             *)

\* Speaker us is included at volume v: v is the overall volume from then on.
Included(v) ==
  /\ overall' = v
  /\ level' = [s \in Speakers |-> IF s = Us THEN v ELSE Lesser(level[s], v)]
  /\ active' = active \cup {Us}

\* Speaker us is set relative to the overall volume.
SetRelative(v) ==
  /\ level' = [level EXCEPT ![Us] = Portion(Lesser(v, Whole), overall)]
  /\ UNCHANGED <<overall, active>>

Told == [s \in listed |-> [volume |-> Share(level[s], overall), active |-> s \in active]]

\* While there is a call (before it, it is as another initial state), the user moves the overall volume, starts a speaker, or the source goes or comes.
User ==
  /\ troubles < MaxTroubles
  /\ troubles' = troubles + 1
  /\ \E c \in Callers : at[c] /= "idle"
  /\ \/ \E v \in Levels \ {overall} :
          /\ overall' = v
          /\ level' = [s \in Speakers |-> Portion(Share(level[s], overall), v)]
          /\ UNCHANGED <<active, known>>
     \/ \E s \in listed \ active :
          active' = active \cup {s} /\ UNCHANGED <<overall, level, known>>
     \/ known' = ~known /\ UNCHANGED <<overall, level, active>>
  /\ alone' = [c \in Callers |-> FALSE]
  /\ UNCHANGED <<listed, talker, at, call, overall_volume, speaker_info, actual_volume, response,
       answered, calls>>

------------------------------------------------------------------------------
(* The program.                                                            *)

Finish(c, code) ==
  at' = [at EXCEPT ![c] = "idle"] /\ response' = [response EXCEPT ![c] = code]
GoOn(c, command) == at' = [at EXCEPT ![c] = command] /\ UNCHANGED response

\* dacp_set_volume and dacp_get_volume are called.
CallVolume(c) ==
  /\ at[c] = "idle" /\ calls < MaxCalls
  /\ calls' = calls + 1
  /\ \E v \in IF c \in Setters THEN Wanted ELSE {0} :
       /\ call' = [call EXCEPT ![c] = [kind |-> IF c \in Setters THEN "set" ELSE "get",
            volume |-> v, overall |-> overall, level |-> level]]
       /\ IF v \in 0 .. Whole THEN GoOn(c, "overall") ELSE Finish(c, "range")
  /\ actual_volume' = [actual_volume EXCEPT ![c] = 0]
  /\ alone' = [d \in Callers |->
       IF d = c THEN \A e \in Setters \ {c} : at[e] = "idle" ELSE alone[d] /\ c \notin Setters]
  /\ answered' = [answered EXCEPT ![c] = TRUE]
  /\ UNCHANGED <<known, source, talker, overall_volume, speaker_info, troubles>>

HighestOther(c) ==
  Portion(Highest({speaker_info[c][s].volume :
    s \in {o \in DOMAIN speaker_info[c] \ {Us} : speaker_info[c][o].active}}), overall_volume[c])

\* The command after the list of speakers, or "" when there is none (set).
BugNextCommand(c) ==
  IF \E s \in DOMAIN speaker_info[c] : speaker_info[c][s].active THEN "include" ELSE ""
NextCommand(c) ==
  LET info == speaker_info[c]
      vo == call[c].volume
      playing == Cardinality({s \in DOMAIN info : info[s].active}) IN
  CASE playing = 0 -> ""
    [] playing = 1 \/ vo >= overall_volume[c] \/ HighestOther(c) <= vo -> "include"
    [] overall_volume[c] > HighestOther(c) -> "lower"
    [] OTHER -> "relative"

\* What our volume comes to (get).
OurVolume(c) ==
  IF Us \in DOMAIN speaker_info[c]
    THEN IF overall_volume[c] < 0 THEN 0
           ELSE Portion(speaker_info[c][Us].volume, overall_volume[c])
    ELSE 0

\* A caller goes on with the code of its command.
Continue(c, code) ==
  CASE at[c] = "overall" -> (IF code = "ok" THEN GoOn(c, "list") ELSE Finish(c, code))
    [] at[c] = "list" ->
         (IF code = "ok" THEN GoOn(c, "listed") ELSE Finish(c, code))
    [] at[c] = "lower" -> GoOn(c, "relative")
    [] OTHER -> Finish(c, code)

\* The speakers are known.
Decide(c) ==
  /\ at[c] = "listed"
  /\ IF call[c].kind = "get"
       THEN /\ actual_volume' = [actual_volume EXCEPT ![c] = OurVolume(c)]
            /\ Finish(c, "ok")
       ELSE /\ UNCHANGED actual_volume
            /\ \E command \in {NextCommand(c)} :
                 IF command = "" THEN Finish(c, "ok") ELSE GoOn(c, command)
  /\ UNCHANGED <<known, source, talker, call, overall_volume, speaker_info, alone, answered,
       calls, troubles>>

\* dacp_send_command with no port, with the lock for too long with another, or with it.
Send(c) ==
  /\ at[c] \in Commands /\ talker /= c
  /\ \/ ~known /\ Continue(c, "no port") /\ UNCHANGED talker
     \/ known /\ talker /= Nobody /\ Continue(c, "busy") /\ UNCHANGED talker
     \/ known /\ talker = Nobody /\ talker' = c /\ UNCHANGED <<at, response>>
  /\ answered' = [answered EXCEPT ![c] = @ /\ talker' = c]
  /\ UNCHANGED <<known, source, call, overall_volume, speaker_info, actual_volume, alone, calls,
       troubles>>

\* What the source does with the command of c.
Obeyed(c) ==
  CASE at[c] = "include" -> Included(call[c].volume)
    [] at[c] = "lower" -> Included(HighestOther(c))
    [] at[c] = "relative" ->
         SetRelative((call[c].volume * Whole + HighestOther(c) \div 2) \div HighestOther(c))
    [] OTHER -> UNCHANGED <<overall, level, active>>
Obey(c) == Obeyed(c) /\ UNCHANGED listed

\* The answers of a source that answers: the code, and what the caller has read.
AnswerCode(c) ==
  CASE at[c] = "overall" -> "ok"
    [] at[c] = "list" -> (IF Cardinality(listed) > MaxSpeakers THEN "too many" ELSE "ok")
    [] OTHER -> "done"
Read(c, o, info) ==
  /\ overall_volume' = [overall_volume EXCEPT ![c] = IF at[c] = "overall" THEN o ELSE @]
  /\ speaker_info' = [speaker_info EXCEPT ![c] = IF at[c] = "list" THEN info ELSE @]

\* The rest of dacp_send_command.  A body that cannot be parsed is thrown away and its code
\* kept; a body without an end is waited for until nothing comes, and counts as no answer.
Failed(c, what) ==
  /\ what \in Failures
  /\ troubles < MaxTroubles /\ troubles' = troubles + 1
  /\ answered' = [answered EXCEPT ![c] = FALSE]
Converse(c) ==
  /\ talker = c /\ talker' = Nobody
  /\ \/ /\ Obey(c)
        /\ Read(c, overall, Told)
        /\ Continue(c, AnswerCode(c))
        /\ UNCHANGED <<answered, troubles>>
     \/ /\ Failed(c, "garbled")
        /\ Obey(c)
        /\ Read(c, -1, <<>>)
        /\ Continue(c, IF at[c] \in {"overall", "list"} THEN "ok" ELSE "done")
     \/ /\ Failed(c, "lost")
        /\ Obey(c)
        /\ Continue(c, "none")
        /\ UNCHANGED <<overall_volume, speaker_info>>
     \/ /\ Failed(c, "refused")
        /\ UNCHANGED source
        /\ Continue(c, "refused")
        /\ UNCHANGED <<overall_volume, speaker_info>>
  /\ UNCHANGED <<known, call, actual_volume, alone, calls>>

CallerStep(c) == Decide(c) \/ Send(c) \/ Converse(c)

VolumeNext == (\E c \in Callers : CallVolume(c) \/ CallerStep(c)) \/ User

------------------------------------------------------------------------------
(* Properties.                                                             *)

VolumeTypeOK ==
  /\ known \in BOOLEAN
  /\ overall \in 0 .. Whole
  /\ level \in [Speakers -> 0 .. Whole]
  /\ active \subseteq Speakers /\ listed \subseteq Speakers
  /\ talker \in Callers \cup {Nobody}
  /\ at \in [Callers -> Commands \cup {"idle", "listed"}]
  /\ \A c \in Callers : call[c].kind \in {"set", "get"} /\ call[c].volume \in Int
  /\ overall_volume \in [Callers -> -1 .. Whole]
  /\ \A c \in Callers : DOMAIN speaker_info[c] \subseteq Speakers
  /\ actual_volume \in [Callers -> 0 .. Whole]
  /\ response \in [Callers -> Codes]
  /\ alone \in [Callers -> BOOLEAN] /\ answered \in [Callers -> BOOLEAN]

Near(a, b) == a - b \in -1 .. 1

\* A call to set the volume that nobody disturbs and that is answered throughout leaves our
\* speaker at the volume asked for, and each other speaker that plays where it was, both within
\* the rounding: whatever order the overall volume, the highest of the others, our volume and
\* the volume asked for are in.
\* From what the branches of dacp_set_volume and their two commands do.
SetReached ==
  \A c \in Callers :
    at[c] = "idle" /\ call[c].kind = "set" /\ response[c] = "done" /\ alone[c] /\ answered[c]
      /\ Us \in DOMAIN speaker_info[c] /\ speaker_info[c][Us].active =>
      /\ Near(level[Us], call[c].volume)
      /\ \A s \in active \ {Us} : Near(level[s], call[c].level[s])

\* The same of a call that asks for our volume.
\* From dacp_get_volume.
VolumeIsOurs ==
  \A c \in Callers :
    at[c] = "idle" /\ call[c].kind = "get" /\ response[c] = "ok" /\ alone[c] /\ answered[c]
      /\ Us \in listed =>
      Near(actual_volume[c], level[Us])

\* However its commands fail, a call alone never makes another speaker louder, nor the whole
\* louder than it was and than what was asked for.
\* From dacp_set_volume.
NeverLouder ==
  \A c \in Callers :
    call[c].kind = "set" /\ alone[c] =>
      /\ overall <= call[c].overall \/ overall <= call[c].volume
      /\ \A s \in Others : level[s] <= call[c].level[s]
=============================================================================
