------------------------------- MODULE Stuffing -------------------------------
(***************************************************************************)
(* How a block of frames is made longer or shorter by a few: frame by      *)
(* frame, as stuff_buffer_basic_32, stuff_buffer_vernier and               *)
(* stuff_buffer_soxr_32 write it.  A frame of output is known by the two   *)
(* frames of input it lies between and by how far along, in parts of One,  *)
(* which stands for 2^32.  What a sample goes through on its way out is in *)
(* SampleOutput.                                                           *)
(***************************************************************************)
EXTENDS Integers

CONSTANTS
  One,            \* 2^32 of the fixed-point numbers
  Fewest, MostFrames, \* of the frames in a block
  Shortest,       \* and are left as they are under this many, 100
  Limit,          \* INTERPOLATION_LIMIT
  BasicLimit      \* what basic stuffing is asked for at most

ASSUME StuffingAssumption ==
  /\ One \in Nat \ {0} /\ Fewest \in Nat /\ MostFrames \in Nat /\ Limit \in Nat /\ BasicLimit \in Nat
  /\ Shortest \in Nat /\ Shortest > Limit + 1 /\ Shortest >= 3

VARIABLES
  method,         \* "basic", "vernier" or "soxr"
  length, stuff,  \* of the call
  tstuff,         \* what is done of stuff
  stuffsamp,      \* where, for basic
  i, inptr,       \* the next frame of output and of input
  k,              \* the loop's counter after the turn, for basic
  index,          \* current_input_sample_index_fp
  stage,          \* of the call: "begin", "head", "turn", "tail" or "done"
  floor, ceil,    \* the frames of input the last frame of output was made of (history)
  offset,         \* and how far it lies from the one to the other (history)
  result

stuffVars ==
  <<method, length, stuff, tstuff, stuffsamp, i, inptr, k, index, stage, floor, ceil, offset, result>>

Methods == {"basic", "vernier", "soxr"}

StuffInit ==
  /\ method \in Methods /\ length \in Fewest .. MostFrames
  /\ stuff \in IF method = "basic" THEN -BasicLimit .. BasicLimit ELSE -(Limit + 1) .. Limit + 1
  /\ tstuff = 0 /\ stuffsamp = 0 /\ i = 0 /\ inptr = 0 /\ k = 0 /\ index = 0
  /\ stage = "begin" /\ floor = 0 /\ ceil = 0 /\ offset = 0 /\ result = -1

BugStep(len, t) == (One * len) \div (len + t - 1)
Step(len, t) == (One * (len - 1)) \div (len + t - 1)

\* What is left of the request.  Basic stuffing looks at it when it has made it one frame.
Begin ==
  /\ stage = "begin"
  /\ tstuff' = IF length < Shortest \/ (method /= "basic" /\ (stuff > Limit \/ stuff < -Limit))
                 THEN 0 ELSE stuff
  /\ stuffsamp' \in IF method = "basic" /\ tstuff' /= 0 THEN 1 .. length - 2 ELSE {length}
  /\ stage' = IF method /= "soxr" /\ length < 3 THEN "done" ELSE "head"
  /\ result' = IF stage' = "done" THEN length ELSE result
  /\ UNCHANGED <<method, length, stuff, i, inptr, k, index, floor, ceil, offset>>

\* A frame of input becomes one of output.
Copy ==
  /\ floor' = inptr /\ ceil' = inptr /\ offset' = 0
  /\ i' = i + 1 /\ inptr' = inptr + 1

BasicHead ==
  /\ stage = "head" /\ (method = "basic" \/ tstuff = 0) /\ i < stuffsamp
  /\ Copy
  /\ UNCHANGED <<method, length, stuff, tstuff, stuffsamp, k, index, stage, result>>

HeadDone ==
  /\ stage = "head" /\ (method = "basic" \/ tstuff = 0) /\ i = stuffsamp
  /\ stage' = IF tstuff = 0 THEN "done" ELSE "turn"
  /\ result' = IF tstuff = 0 THEN length ELSE result
  /\ UNCHANGED <<method, length, stuff, tstuff, stuffsamp, i, inptr, k, index, floor, ceil, offset>>

\* A frame between two, the mean of the frames around it, or a frame less.
Turn ==
  /\ stage = "turn"
  /\ \/ /\ tstuff = 1
        /\ floor' = inptr - 1 /\ ceil' = inptr /\ offset' = One \div 2
        /\ i' = i + 1 /\ UNCHANGED inptr
     \/ /\ tstuff < 0
        /\ inptr' = inptr + 1 /\ UNCHANGED <<floor, ceil, offset, i>>
     \/ tstuff > 1 /\ UNCHANGED <<floor, ceil, offset, i, inptr>>
  /\ stage' = "tail" /\ k' = stuffsamp
  /\ UNCHANGED <<method, length, stuff, tstuff, stuffsamp, index, result>>

Remainder == IF tstuff < 0 THEN length + tstuff ELSE length

BasicTail ==
  /\ stage = "tail" /\ k < Remainder
  /\ Copy /\ k' = k + 1
  /\ UNCHANGED <<method, length, stuff, tstuff, stuffsamp, index, stage, result>>

TailDone ==
  /\ stage = "tail" /\ k >= Remainder
  /\ stage' = "done" /\ result' = length + tstuff
  /\ UNCHANGED <<method, length, stuff, tstuff, stuffsamp, i, inptr, k, index, floor, ceil, offset>>

\* First order interpolation, at steps of less than a frame or more.
Vernier ==
  /\ stage = "head" /\ method = "vernier" /\ tstuff /= 0 /\ i < length + tstuff
  /\ LET f == index \div One
     IN /\ floor' = f
        /\ ceil' = IF f + 1 = length THEN length - 1 ELSE f + 1
        /\ offset' = index % One
  /\ index' = index + Step(length, tstuff)
  /\ i' = i + 1
  /\ UNCHANGED <<method, length, stuff, tstuff, stuffsamp, inptr, k, stage, result>>

VernierDone ==
  /\ stage = "head" /\ method = "vernier" /\ tstuff /= 0 /\ i = length + tstuff
  /\ stage' = "done" /\ result' = length + tstuff
  /\ UNCHANGED <<method, length, stuff, tstuff, stuffsamp, i, inptr, k, index, floor, ceil, offset>>

\* The library resamples the whole, and the ends are then kept as they were.
Soxr ==
  /\ stage = "head" /\ method = "soxr" /\ tstuff /= 0
  /\ i' = length + tstuff /\ inptr' = length
  /\ floor' = length - 1 /\ ceil' = length - 1 /\ offset' = 0
  /\ stage' = "done" /\ result' = length + tstuff
  /\ UNCHANGED <<method, length, stuff, tstuff, stuffsamp, k, index>>

StuffNext ==
  \/ Begin \/ BasicHead \/ HeadDone \/ Turn \/ BasicTail \/ TailDone
  \/ Vernier \/ VernierDone \/ Soxr

StuffSpec == StuffInit /\ [][StuffNext]_stuffVars
---------------------------------------------------------------------------
StuffTypeOK ==
  /\ method \in Methods /\ length \in 0 .. MostFrames
  /\ tstuff \in Int /\ stuffsamp \in 0 .. length
  /\ i \in Nat /\ inptr \in Nat /\ k \in Nat /\ index \in Nat
  /\ stage \in {"begin", "head", "turn", "tail", "done"}
  /\ floor \in Nat /\ ceil \in Nat /\ offset \in 0 .. One /\ result \in Int

\* No frame is read from outside the block: the cases that the code says can not happen.
StaysInside ==
  /\ inptr <= length
  /\ i > 0 => floor < length /\ ceil < length /\ floor <= ceil

\* As many frames are written as the call says it has, and the last of them is the last of the
\* block, but for the rounding of the steps: the two are a part in One apart for each frame.
\* Blocks of one or two frames break it, and basic stuffing by more than one frame does.
EveryFrameWritten ==
  (stage = "done" /\ result > 0) =>
    /\ i = result
    /\ (length - 1) * One - (floor * One + offset) \in 0 .. result

StuffRight == StaysInside /\ EveryFrameWritten
=============================================================================
