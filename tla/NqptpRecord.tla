----------------------------- MODULE NqptpRecord -----------------------------
(***************************************************************************)
(* get_nqptp_data of ptp-utilities.c reads the clock record that NQPTP,    *)
(* another process, keeps in shared memory.  NQPTP writes it twice, the    *)
(* main copy and then the secondary one; the reader copies both of them    *)
(* twice and compares the main copy it read first with the secondary copy  *)
(* it read second.  There is no lock.                                      *)
(*                                                                         *)
(* Each word of the record holds the number of the update that wrote it.   *)
(* Words are copied one at a time, in any order.                           *)
(***************************************************************************)
EXTENDS Integers, FiniteSets

CONSTANTS
  Words,      \* the words of a shm_structure_set
  MaxTries,   \* a reader gives up after this many attempts (9)
  MaxUpdate   \* bound: updates NQPTP makes

VARIABLES
  main, secondary,  \* the shared memory
  update,           \* the number of the update NQPTP is making or has made
  unwritten,        \* the words of each copy it has still to write
  reader,           \* where the reader is
  tries,            \* loop_count
  first,            \* nqptp_data->main, of the first read
  second,           \* local_nqptp_data, of the second read
  disturbed         \* the copies written to during this attempt (history)

vars == <<main, secondary, update, unwritten, reader, tries, first, second, disturbed>>

Copies == {"main", "secondary"}
Unread == -1

TypeOK ==
  /\ {main, secondary} \subseteq [Words -> 0 .. MaxUpdate]
  /\ update \in 0 .. MaxUpdate
  /\ unwritten \in [Copies -> SUBSET Words]
  /\ reader \in {"idle", "first", "second", "accepted", "failed"}
  /\ tries \in 1 .. MaxTries
  /\ first \in [Words -> Unread .. MaxUpdate]
  /\ second \in [Copies -> [Words -> Unread .. MaxUpdate]]
  /\ disturbed \subseteq Copies

Nothing == [w \in Words |-> Unread]

Init ==
  /\ main = [w \in Words |-> 0] /\ secondary = main
  /\ update = 0 /\ unwritten = [c \in Copies |-> {}]
  /\ reader = "idle" /\ tries = 1
  /\ first = Nothing /\ second = [c \in Copies |-> Nothing]
  /\ disturbed = {}

(***************************************************************************)
(* NQPTP                                                                   *)
(***************************************************************************)
BeginUpdate ==
  /\ unwritten = [c \in Copies |-> {}] /\ update < MaxUpdate
  /\ update' = update + 1
  /\ unwritten' = [c \in Copies |-> Words]
  /\ UNCHANGED <<main, secondary, reader, tries, first, second, disturbed>>

\* The secondary copy strictly after all of the main one.
WriteWord(c, w) ==
  /\ w \in unwritten[c]
  /\ c = "secondary" => unwritten["main"] = {}
  /\ unwritten' = [unwritten EXCEPT ![c] = @ \ {w}]
  /\ IF c = "main" THEN main' = [main EXCEPT ![w] = update] /\ UNCHANGED secondary
     ELSE secondary' = [secondary EXCEPT ![w] = update] /\ UNCHANGED main
  /\ disturbed' = disturbed \union (IF reader \in {"first", "second"} THEN {c} ELSE {})
  /\ UNCHANGED <<update, reader, tries, first, second>>

(***************************************************************************)
(* The reader                                                              *)
(***************************************************************************)
StartAttempt ==
  /\ reader' = "first"
  /\ first' = Nothing /\ second' = [c \in Copies |-> Nothing]
  /\ disturbed' = {}

StartRead ==
  /\ reader \in {"idle", "accepted", "failed"}
  /\ tries' = 1
  /\ StartAttempt
  /\ UNCHANGED <<main, secondary, update, unwritten>>

\* The first read: only its main copy is looked at.
ReadFirst(w) ==
  /\ reader = "first" /\ first[w] = Unread
  /\ first' = [first EXCEPT ![w] = main[w]]
  /\ reader' = IF \E x \in Words : first'[x] = Unread THEN "first" ELSE "second"
  /\ UNCHANGED <<main, secondary, update, unwritten, tries, second, disturbed>>

\* The second read, main copy and secondary copy.
ReadSecond(c, w) ==
  /\ reader = "second" /\ second[c][w] = Unread
  /\ second' = [second EXCEPT ![c][w] = IF c = "main" THEN main[w] ELSE secondary[w]]
  /\ UNCHANGED <<main, secondary, update, unwritten, reader, tries, first, disturbed>>

BugMatch == first = second["main"]
Match == first = second["secondary"]

Compare ==
  /\ reader = "second" /\ \A c \in Copies, w \in Words : second[c][w] /= Unread
  /\ UNCHANGED <<main, secondary, update, unwritten>>
  /\ IF Match \/ tries = MaxTries
     THEN /\ reader' = IF Match THEN "accepted" ELSE "failed"
          /\ UNCHANGED <<tries, first, second, disturbed>>
     ELSE tries' = tries + 1 /\ StartAttempt

Next ==
  \/ BeginUpdate
  \/ \E c \in Copies, w \in Words : WriteWord(c, w) \/ ReadSecond(c, w)
  \/ StartRead \/ \E w \in Words : ReadFirst(w)
  \/ Compare

Spec == Init /\ [][Next]_vars

(***************************************************************************)
(* Properties                                                              *)
(***************************************************************************)
Whole == Cardinality({first[w] : w \in Words}) = 1

\* An accepted record is one that NQPTP published, provided that the attempt did
\* not see it write to both copies.  (A reader of get_nqptp_data that compared
\* the copies any other way would accept half an update that had stopped.)
WholeIfOneCopyDisturbed ==
  reader = "accepted" /\ disturbed /= Copies => Whole

\* "If they are equal, we can be sure we have not read a record that has been made
\* inconsistent by an interrupted update."
AcceptedIsWhole == reader = "accepted" => Whole
=============================================================================
