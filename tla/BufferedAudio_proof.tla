-------------------------- MODULE BufferedAudio_proof --------------------------
(***************************************************************************)
(* Proofs about BufferedAudio, for streams and tables of any length: both  *)
(* kinds of flush do what they are for, and what a source that waits for   *)
(* each change of play to be noticed has put in the player's buffer is     *)
(* what the player expects next.                                           *)
(***************************************************************************)
EXTENDS BufferedAudio, WellFoundedInduction, TLAPS

\* The type of a deferred request.
Request == [inUse: BOOLEAN, active: BOOLEAN, from: 0 .. SeqMod - 1, until: 0 .. SeqMod - 1]

\* A promise of a deferred flush is in the table, and is active from its first block
\* on, which the processor may be about to check; no block of it is played.
Awaited(r) ==
  /\ block /= NULL /\ r.from < r.until
  /\ block < r.until \/ (proc = "check" /\ block = r.until)
  /\ proc = "play" => block < r.from
  /\ \E f \in Slots :
       /\ deferred[f].inUse
       /\ deferred[f].from = SeqOf(r.from) /\ deferred[f].until = SeqOf(r.until)
       /\ block >= r.from => deferred[f].active \/ (proc = "check" /\ block = r.from)

\* It is so for all of them.
PromiseInv == \A r \in promised : Awaited(r)

\* No block before n is left in the player's buffer, unless play has been switched
\* off, or not on, and the processor has still to notice.
Fresh(n) ==
  play_enabled /\ ap2_play_enabled => \A i \in 1 .. Len(queue) : queue[i] >= n

\* An immediate flush, under way or complete, leaves nothing before its end, if the
\* source is calm: a change of play empties the buffer.  A block checked before the
\* flush was asked for may still be put there, before play is seen to be off.
FlushInv ==
  /\ flushedTo <= block \/ flushedTo = 0
  /\ immediate.requested =>
       \E n \in Bounds :
         /\ immediate.until = SeqOf(n)
         /\ calm => Fresh(n)
  /\ calm => Fresh(flushedTo)
  /\ calm /\ immediate.requested /\ proc = "play" /\ block /= NULL =>
       ~(play_enabled /\ ap2_play_enabled)

\* The buffer of a calm source is empty while play is off, from the second look at the
\* flag on.
CalmInv ==
  calm =>
    /\ ~play_enabled => queue = <<>> /\ write = NULL
    /\ proc = "copy" /\ ~ap2_play_enabled => queue = <<>> /\ write = NULL

\* A new count of the player's numbers begins only where the player has lost its
\* place, and no block read before is put under it.
PlaceInv ==
  /\ beginning /\ block /= NULL => needed /\ proc \in {"stopped", "copy", "read", "ended"}
  /\ calm => /\ beginning => write = NULL
             /\ write \in {NULL, playerSeq}

\* The inductive invariant.  PromiseInv, which rests on it, comes after.
Inv == TypeOK /\ FlushInv /\ CalmInv /\ PlaceInv

\* A remainder is in range,
LEMMA ModRange ==
  ASSUME NEW m \in Int, m > 0, NEW a \in Int
  PROVE  (a % m) \in 0 .. m - 1
OBVIOUS

\* and is what is left when a multiple is taken away:
LEMMA ModDiv ==
  ASSUME NEW m \in Int, m > 0, NEW a \in Int
  PROVE  \E q \in Int : a = m * q + (a % m)
<1>1. a \div m \in Int
  BY SMT
<1>2. a = m * (a \div m) + (a % m)
  BY SMTT(20)
<1> QED
  BY <1>1, <1>2

\* the only such number in range.
LEMMA ModUnique ==
  ASSUME NEW m \in Int, m > 0, NEW a \in Int, NEW q \in Int, NEW r \in 0 .. m - 1,
         a = m * q + r
  PROVE  (a % m) = r
BY SMTT(20)

\* Numbers a multiple of m apart have one remainder.
LEMMA ModShift ==
  ASSUME NEW m \in Int, m > 0, NEW a \in Int, NEW b \in Int, NEW q \in Int,
         a = m * q + b
  PROVE  (a % m) = (b % m)
<1>1. PICK p \in Int : b = m * p + (b % m)
  BY ModDiv
<1>2. (b % m) \in 0 .. m - 1
  BY ModRange
<1>3. m * q + m * p = m * (q + p)
  BY SMTT(20)
<1>4. a = m * (q + p) + (b % m)
  BY <1>1, <1>2, <1>3
<1>5. q + p \in Int
  OBVIOUS
<1> QED
  BY <1>2, <1>4, <1>5, ModUnique

\* Numbers less than m apart with one remainder are the same.
LEMMA ModSame ==
  ASSUME NEW m \in Int, m > 0, NEW a \in Int, NEW b \in Int,
         (a % m) = (b % m), a - b < m, b - a < m
  PROVE  a = b
<1>1. PICK q \in Int : a = m * q + (a % m)
  BY ModDiv
<1>2. PICK p \in Int : b = m * p + (b % m)
  BY ModDiv
<1>3. (a % m) \in Int /\ (b % m) \in Int
  BY ModRange
<1>4. a - b = m * q - m * p
  BY <1>1, <1>2, <1>3
<1>5. m * q - m * p = m * (q - p)
  BY SMTT(20)
<1>6. q - p < 1 /\ p - q < 1
  BY <1>4, <1>5, SMTT(20)
<1>7. q = p
  BY <1>6
<1> QED
  BY <1>4, <1>7

\* What is known of the sizes.
LEMMA Sizes ==
  /\ SeqMod \in Int /\ SeqMod > 0 /\ PlayerMod \in Int /\ PlayerMod > 0
  /\ FirstSeq \in 0 .. SeqMod - 1 /\ MaxBlock \in Nat /\ 2 * MaxBlock < SeqMod
  /\ MaxQueue \in Nat /\ MaxDeferred \in Nat
BY BufferedAssumption

\* The sequence number of a block is one,
LEMMA SeqIn ==
  ASSUME NEW n \in Int
  PROVE  SeqOf(n) \in 0 .. SeqMod - 1
<1>1. PICK a \in Int : a = FirstSeq + n
  BY Sizes
<1> QED
  BY <1>1, Sizes, ModRange DEF SeqOf

\* and that of no other block,
LEMMA SeqApart ==
  ASSUME NEW a \in Bounds, NEW b \in Bounds, SeqOf(a) = SeqOf(b)
  PROVE  a = b
<1>1. PICK c \in Int : c = FirstSeq + a
  BY Sizes DEF Bounds
<1>2. PICK d \in Int : d = FirstSeq + b
  BY Sizes DEF Bounds
<1>3. c % SeqMod = d % SeqMod /\ c - d < SeqMod /\ d - c < SeqMod
  BY <1>1, <1>2, Sizes DEF SeqOf, Bounds
<1>4. c = d
  BY <1>3, Sizes, ModSame
<1> QED
  BY <1>1, <1>2, <1>4, Sizes DEF Bounds

\* and a_minus_b_mod23 is the distance of two blocks.
LEMMA MinusIs ==
  ASSUME NEW a \in Bounds, NEW b \in Bounds
  PROVE  Minus(SeqOf(a), SeqOf(b)) = a - b
<1>1. PICK c \in Int : c = FirstSeq + a
  BY Sizes DEF Bounds
<1>2. PICK d \in Int : d = FirstSeq + b
  BY Sizes DEF Bounds
<1>3. PICK s \in Int : s = (d % SeqMod)
  BY Sizes, ModRange
<1>4. PICK t \in Int : t = (c % SeqMod)
  BY Sizes, ModRange
<1>5. PICK p \in Int : c = SeqMod * p + t
  BY <1>4, Sizes, ModDiv
<1>6. PICK q \in Int : d = SeqMod * q + s
  BY <1>3, Sizes, ModDiv
<1>7. PICK e \in Int : e = a - b
  BY DEF Bounds
<1>8. PICK f \in Int : f = t - s
  OBVIOUS
<1>9. SeqMod * p - SeqMod * q = SeqMod * (p - q)
  BY Sizes, SMTT(20)
<1>10. PICK k \in Int : k = q - p
  OBVIOUS
<1>11. SeqMod * (p - q) = -(SeqMod * k) /\ SeqMod * k \in Int
  BY <1>10, Sizes, SMTT(20)
<1>12. f = SeqMod * k + e
  BY <1>1, <1>2, <1>5, <1>6, <1>7, <1>8, <1>9, <1>11, Sizes DEF Bounds
<1>13. (f % SeqMod) = (e % SeqMod)
  BY <1>12, Sizes, ModShift
<1>14. 2 * e < SeqMod /\ -(2 * e) < SeqMod
  BY <1>7, Sizes DEF Bounds
<1>15. Minus(SeqOf(a), SeqOf(b)) =
         IF 2 * (e % SeqMod) < SeqMod THEN (e % SeqMod) ELSE (e % SeqMod) - SeqMod
  BY <1>1, <1>2, <1>3, <1>4, <1>8, <1>13 DEF Minus, SeqOf
<1>16. CASE e >= 0
  <2>1. e \in 0 .. SeqMod - 1 /\ e = SeqMod * 0 + e
    BY <1>14, <1>16, Sizes
  <2>2. (e % SeqMod) = e
    BY <2>1, Sizes, ModUnique
  <2> QED
    BY <1>7, <1>14, <1>15, <2>2
<1>17. CASE e < 0
  <2>1. PICK g \in Int : g = e + SeqMod
    BY Sizes
  <2>2. g \in 0 .. SeqMod - 1 /\ e = SeqMod * (-1) + g
    BY <1>14, <1>17, <2>1, Sizes
  <2>3. (e % SeqMod) = g
    BY <2>2, Sizes, ModUnique
  <2> QED
    BY <1>7, <1>14, <1>15, <1>17, <2>1, <2>3, Sizes
<1> QED
  BY <1>16, <1>17

\* A set of numbers has a least one.
LEMMA LeastIs ==
  ASSUME NEW S, S \subseteq Nat, S /= {}
  PROVE  \E x \in S : \A y \in S : x <= y
<1> DEFINE R == {ss \in Nat \X Nat : ss[1] < ss[2]}
<1>1. IsWellFoundedOn(R, Nat)
  BY NatLessThanWellFounded DEF OpToRel
<1> HIDE DEF R
<1>2. PICK x \in S : \A y \in S : ~(<<y, x>> \in R)
  BY <1>1, WFMin
<1>3. \A y \in S : x <= y
  <2> SUFFICES ASSUME NEW y \in S, y < x
               PROVE  FALSE
    BY <1>2
  <2>1. <<y, x>> \in Nat \X Nat /\ <<y, x>>[1] = y /\ <<y, x>>[2] = x
    BY <1>2
  <2>2. <<y, x>> \in R
    BY <2>1 DEF R
  <2> QED
    BY <1>2, <2>2
<1> QED
  BY <1>2, <1>3

\* So the processor compares the block it holds with a request's as it should.
LEMMA BlockFacts ==
  ASSUME Inv, block /= NULL
  PROVE  /\ block \in Bounds /\ block \in Nat /\ seq_no = SeqOf(block)
         /\ \A n \in Bounds : /\ Minus(seq_no, SeqOf(n)) = block - n
                              /\ seq_no = SeqOf(n) => block = n
<1>1. block \in Bounds
  BY Sizes DEF Inv, TypeOK, Blocks, Bounds
<1>2. seq_no = SeqOf(block)
  BY DEF seq_no
<1>3. \A n \in Bounds : Minus(seq_no, SeqOf(n)) = block - n
  BY <1>1, <1>2, MinusIs
<1>4. \A n \in Bounds : seq_no = SeqOf(n) => block = n
  BY <1>1, <1>2, SeqApart
<1> QED
  BY <1>1, <1>2, <1>3, <1>4 DEF Bounds

\* The invariant holds at first.
LEMMA InitInv == Init => Inv
<1> SUFFICES ASSUME Init
             PROVE  Inv
  OBVIOUS
<1>1. TypeOK
  <2>1. 0 \in 0 .. SeqMod - 1 /\ 0 \in 0 .. PlayerMod - 1 /\ 0 \in Bounds
    BY Sizes DEF Bounds
  <2>2. deferred \in [Slots -> Request] /\ calm \in BOOLEAN
    BY <2>1, BufferedAssumption DEF Init, Free, Request
  <2>3. queue \in Seq(Blocks) /\ Len(queue) <= MaxQueue
    BY Sizes DEF Init
  <2> QED
    BY <2>1, <2>2, <2>3 DEF Init, TypeOK, Request, NoFlush
<1>2. queue = <<>> /\ Len(queue) = 0
  BY DEF Init
<1>3. FlushInv
  BY <1>2 DEF Init, FlushInv, Fresh, NoFlush
<1> QED
  BY <1>1, <1>3 DEF Init, Inv, CalmInv, PlaceInv

\* A request stays one when it is looked at.
LEMMA UpdatedType ==
  ASSUME NEW r \in Request
  PROVE  Updated(r) \in Request /\ Free \in Request
<1>1. 0 \in 0 .. SeqMod - 1
  BY Sizes
<1>2. Free \in Request
  BY <1>1 DEF Free, Request
<1>3. PICK a \in BOOLEAN : a = Activated(r)
  BY DEF Activated, Request
<1>4. [r EXCEPT !.active = a] \in Request
  BY DEF Request
<1> QED
  BY <1>2, <1>3, <1>4 DEF Updated

\* Each step keeps the types: the end of a flush is a block of the stream.
LEMMA TypeKeeps == Inv /\ [Next]_vars => TypeOK'
<1> SUFFICES ASSUME Inv, [Next]_vars
             PROVE  TypeOK'
  OBVIOUS
<1> USE DEF Inv, rtspVars, playerVars
<1>1. CASE AwaitTiming
  BY <1>1, Sizes DEF TypeOK, AwaitTiming, ResetBuffer
<1>2. CASE SeePlayBegin
  BY <1>2 DEF TypeOK, SeePlayBegin
<1>3. CASE SeePlayStop
  <2>1. CASE played' = FALSE /\ ResetBuffer
    <3>1. queue' \in Seq(Blocks) /\ Len(queue') <= MaxQueue /\ write' = NULL
      BY <2>1, Sizes DEF ResetBuffer
    <3>2. UNCHANGED <<block, needed, play_enabled, beginning, playerSeq, rtspVars, calm,
                      flushedTo>>
      BY <1>3 DEF SeePlayStop
    <3>3. proc' = "copy"
      BY <1>3 DEF SeePlayStop
    <3> QED
      BY <2>1, <3>1, <3>2, <3>3 DEF TypeOK
  <2>2. CASE UNCHANGED <<played, playerVars>>
    BY <1>3, <2>2 DEF TypeOK, SeePlayStop
  <2> QED
    BY <1>3, <2>1, <2>2 DEF SeePlayStop
<1>4. CASE CopyPlayFlag
  BY <1>4 DEF TypeOK, CopyPlayFlag
<1>5. CASE ReadBlock
  <2>1. block' \in Blocks
    BY <1>5 DEF ReadBlock
  <2>2. PICK s \in Int : s = SeqOf(block')
    BY <2>1, SeqIn DEF Blocks
  <2>3. (s % PlayerMod) \in 0 .. PlayerMod - 1
    BY Sizes, ModRange
  <2>4. playerSeq' \in 0 .. PlayerMod - 1
    BY <1>5, <2>2, <2>3 DEF ReadBlock, TypeOK
  <2> QED
    BY <1>5, <2>1, <2>4 DEF TypeOK, ReadBlock
<1>6. CASE ReadNothing
  BY <1>6 DEF TypeOK, ReadNothing
<1>7. CASE CheckFlushes
  <2>1. deferred \in [Slots -> Request] /\ 0 \in 0 .. SeqMod - 1
    BY Sizes DEF TypeOK, Request
  <2>2. \A f \in Slots : Remaining[f] \in Request
    BY <2>1, UpdatedType DEF Remaining
  <2>3. deferred' \in [Slots -> Request]
    BY <1>7, <2>2, UpdatedType DEF CheckFlushes
  <2>4. immediate' \in [requested: BOOLEAN, until: 0 .. SeqMod - 1]
    BY <1>7, <2>1 DEF CheckFlushes, NoFlush, TypeOK
  <2>5. needed' \in BOOLEAN /\ proc' \in {"began", "play"}
    <3>1. (needed \/ Flushing \/ \E f \in Slots : Drops(Remaining[f])) \in BOOLEAN
      OBVIOUS
    <3> QED
      BY <1>7, <3>1 DEF CheckFlushes
  <2>6. flushedTo' \in Bounds
    <3>1. CASE Completed
      <4>1. block /= NULL /\ immediate.requested
        BY <3>1 DEF Completed
      <4>2. PICK n \in Bounds : immediate.until = SeqOf(n)
        BY <4>1 DEF FlushInv
      <4>3. EndOfFlush = n
        BY <4>1, <4>2, BlockFacts DEF EndOfFlush, Bounds
      <4> QED
        BY <1>7, <4>3 DEF CheckFlushes, TypeOK
    <3>2. CASE ~Completed
      BY <1>7, <3>2 DEF CheckFlushes, TypeOK
    <3> QED
      BY <3>1, <3>2
  <2>7. promised' \subseteq [from: Bounds, until: Bounds]
    BY <1>7 DEF CheckFlushes, TypeOK
  <2> QED
    BY <1>7, <2>3, <2>4, <2>5, <2>6, <2>7 DEF TypeOK, CheckFlushes, Request
<1>8. CASE KeepBlock
  BY <1>8 DEF TypeOK, KeepBlock
<1>9. CASE UseBlock
  <2>1. PICK k \in Int : k = playerSeq + 1
    BY Sizes DEF TypeOK
  <2>2. (k % PlayerMod) \in 0 .. PlayerMod - 1
    BY Sizes, ModRange
  <2>3. CASE block /= NULL /\ PutPacket
    <3>1. queue' \in Seq(Blocks) /\ Len(queue') <= MaxQueue
      BY <2>3, Sizes DEF PutPacket, TypeOK
    <3> QED
      BY <1>9, <2>1, <2>2, <2>3, <3>1 DEF TypeOK, UseBlock, PutPacket
  <2>4. CASE UNCHANGED <<playerVars, playerSeq, played>>
    BY <1>9, <2>4 DEF TypeOK, UseBlock
  <2> QED
    BY <1>9, <2>3, <2>4 DEF UseBlock
<1>10. ASSUME NEW n \in 1 .. MaxBlock, FlushImmediate(n)
       PROVE  TypeOK'
  <2>1. SeqOf(n) \in 0 .. SeqMod - 1
    BY SeqIn
  <2> QED
    BY <1>10, <2>1 DEF TypeOK, FlushImmediate, StopTrying
<1>11. ASSUME NEW n \in Bounds, NEW m \in Bounds, FlushDeferred(n, m)
       PROVE  TypeOK'
  <2>1. SeqOf(n) \in 0 .. SeqMod - 1 /\ SeqOf(m) \in 0 .. SeqMod - 1
    BY SeqIn DEF Bounds
  <2>2. deferred' \in [Slots -> Request]
    <3>1. deferred \in [Slots -> Request]
      BY DEF TypeOK, Request
    <3> DEFINE new == [inUse |-> TRUE, active |-> FALSE, from |-> SeqOf(n), until |-> SeqOf(m)]
    <3>2. new \in Request
      BY <2>1 DEF Request
    <3>3. \/ deferred' = deferred
          \/ \E f : deferred' = [deferred EXCEPT ![f] = new]
      BY <1>11 DEF FlushDeferred
    <3> HIDE DEF new
    <3> QED
      BY <3>1, <3>2, <3>3
  <2>3. promised' \subseteq [from: Bounds, until: Bounds]
    <3>1. [from |-> n, until |-> m] \in [from: Bounds, until: Bounds]
      OBVIOUS
    <3>2. promised' = promised \/
          promised' = promised \union
            {[from |-> n, until |-> m] : k \in Undecided(n) \intersect Watched}
      BY <1>11 DEF FlushDeferred
    <3> QED
      BY <3>1, <3>2 DEF TypeOK
  <2> QED
    BY <1>11, <2>2, <2>3 DEF TypeOK, FlushDeferred, Request
<1>12. CASE SetAnchor
  BY <1>12 DEF TypeOK, SetAnchor
<1>13. CASE StartPlay
  BY <1>13 DEF TypeOK, StartPlay
<1>14. CASE Pause
  BY <1>14 DEF TypeOK, Pause
<1>15. CASE PlayerTakes
  <2>1. queue' \in Seq(Blocks) /\ Len(queue') <= MaxQueue
    BY <1>15, Sizes DEF PlayerTakes, TypeOK
  <2> QED
    BY <1>15, <2>1 DEF TypeOK, PlayerTakes
<1>16. CASE UNCHANGED vars
  BY <1>16 DEF TypeOK, vars
<1> QED
  BY <1>1, <1>2, <1>3, <1>4, <1>5, <1>6, <1>7, <1>8, <1>9, <1>10, <1>11, <1>12, <1>13,
     <1>14, <1>15, <1>16 DEF Next, Processor

\* A calm source does not change the flag between the looks at it.
LEMMA CalmKeeps == Inv /\ [Next]_vars => CalmInv'
<1> SUFFICES ASSUME Inv, [Next]_vars
             PROVE  CalmInv'
  OBVIOUS
<1> USE DEF Inv, CalmInv, rtspVars, playerVars
<1>1. CASE AwaitTiming
  BY <1>1 DEF AwaitTiming, ResetBuffer
<1>2. CASE SeePlayBegin
  BY <1>2 DEF SeePlayBegin
<1>3. CASE SeePlayStop
  BY <1>3 DEF SeePlayStop, ResetBuffer, TypeOK
<1>4. CASE CopyPlayFlag
  BY <1>4 DEF CopyPlayFlag
<1>5. CASE ReadBlock \/ ReadNothing \/ CheckFlushes \/ KeepBlock
  BY <1>5 DEF ReadBlock, ReadNothing, CheckFlushes, KeepBlock
<1>6. CASE UseBlock
  BY <1>6 DEF UseBlock
<1>7. ASSUME NEW n \in 1 .. MaxBlock, FlushImmediate(n)
      PROVE  CalmInv'
  BY <1>7 DEF FlushImmediate, StopTrying, MaySwitch, TypeOK
<1>8. ASSUME NEW n \in Bounds, NEW m \in Bounds, FlushDeferred(n, m)
      PROVE  CalmInv'
  BY <1>8 DEF FlushDeferred
<1>9. CASE SetAnchor \/ StartPlay
  BY <1>9 DEF SetAnchor, StartPlay
<1>10. CASE Pause
  BY <1>10 DEF Pause, MaySwitch, TypeOK
<1>11. CASE PlayerTakes
  BY <1>11 DEF PlayerTakes
<1>12. CASE UNCHANGED vars
  BY <1>12 DEF vars
<1> QED
  BY <1>1, <1>2, <1>3, <1>4, <1>5, <1>6, <1>7, <1>8, <1>9, <1>10, <1>11, <1>12
     DEF Next, Processor

\* Play begins when the buffer of a calm source has been emptied.
LEMMA PlaceKeeps == Inv /\ [Next]_vars => PlaceInv'
<1> SUFFICES ASSUME Inv, [Next]_vars
             PROVE  PlaceInv'
  OBVIOUS
<1> USE DEF Inv, PlaceInv, rtspVars, playerVars
<1>1. CASE AwaitTiming
  BY <1>1 DEF AwaitTiming, ResetBuffer
<1>2. CASE SeePlayBegin
  BY <1>2 DEF SeePlayBegin, CalmInv
<1>3. CASE SeePlayStop
  BY <1>3 DEF SeePlayStop, ResetBuffer
<1>4. CASE CopyPlayFlag
  BY <1>4 DEF CopyPlayFlag
<1>5. CASE ReadBlock
  BY <1>5 DEF ReadBlock
<1>6. CASE ReadNothing \/ CheckFlushes \/ KeepBlock
  BY <1>6 DEF ReadNothing, CheckFlushes, KeepBlock
<1>7. CASE UseBlock
  BY <1>7 DEF UseBlock, PutPacket, TypeOK
<1>8. ASSUME NEW n \in 1 .. MaxBlock, FlushImmediate(n)
      PROVE  PlaceInv'
  BY <1>8 DEF FlushImmediate
<1>9. ASSUME NEW n \in Bounds, NEW m \in Bounds, FlushDeferred(n, m)
      PROVE  PlaceInv'
  BY <1>9 DEF FlushDeferred
<1>10. CASE SetAnchor \/ StartPlay \/ Pause
  <2>1. UNCHANGED <<proc, block, needed, beginning, playerSeq, write, calm>>
    BY <1>10 DEF SetAnchor, StartPlay, Pause
  <2> QED
    BY <2>1
<1>11. CASE PlayerTakes
  <2>1. UNCHANGED <<proc, block, needed, beginning, playerSeq, write, calm>>
    BY <1>11 DEF PlayerTakes
  <2> QED
    BY <2>1
<1>12. CASE UNCHANGED vars
  BY <1>12 DEF vars
<1> QED
  BY <1>1, <1>2, <1>3, <1>4, <1>5, <1>6, <1>7, <1>8, <1>9, <1>10, <1>11, <1>12
     DEF Next, Processor

\* A step that puts nothing in the buffer, and turns play on only when it is empty or
\* when the processor has still to notice, keeps FlushInv.
LEMMA FlushSame ==
  ASSUME Inv, UNCHANGED <<block, immediate, calm, flushedTo>>,
         calm => \/ play_enabled' = play_enabled /\ ap2_play_enabled' = ap2_play_enabled
                 \/ ~(play_enabled' /\ ap2_play_enabled')
                 \/ queue' = <<>> /\ proc' /= "play",
         queue' = queue \/ queue' = <<>>,
         proc' = "play" => proc = "play"
  PROVE  FlushInv'
<1>1. queue' = <<>> => Len(queue') = 0
  OBVIOUS
<1>2. ASSUME NEW n \in Bounds, calm, Fresh(n)
      PROVE  Fresh(n)'
  <2>1. CASE queue' = <<>>
    BY <1>1, <2>1 DEF Fresh
  <2>2. CASE /\ play_enabled' = play_enabled /\ ap2_play_enabled' = ap2_play_enabled
            /\ queue' = queue
    BY <1>2, <2>2 DEF Fresh
  <2>3. CASE ~(play_enabled' /\ ap2_play_enabled')
    BY <2>3 DEF Fresh
  <2> QED
    BY <1>2, <2>1, <2>2, <2>3
<1>3. flushedTo \in Bounds
  BY DEF Inv, TypeOK
<1>4. calm /\ immediate.requested /\ proc = "play" /\ block /= NULL /\ proc' = "play" =>
        ~(play_enabled /\ ap2_play_enabled)
  BY DEF Inv, FlushInv
<1>5. calm => Fresh(flushedTo)'
  BY <1>2, <1>3 DEF Inv, FlushInv, Fresh
<1>6. immediate.requested =>
        \E n \in Bounds : immediate.until = SeqOf(n) /\ (calm => Fresh(n)')
  BY <1>2 DEF Inv, FlushInv
<1>7. calm /\ immediate.requested /\ proc' = "play" /\ block /= NULL =>
        ~(play_enabled' /\ ap2_play_enabled')
  BY <1>4
<1> QED
  BY <1>5, <1>6, <1>7 DEF Inv, FlushInv

\* The check completes a flush at or after the block it goes up to; before, it drops
\* the block.
LEMMA CheckKeepsFlush ==
  ASSUME Inv, CheckFlushes
  PROVE  FlushInv'
<1>1. /\ UNCHANGED <<block, play_enabled, ap2_play_enabled, queue, calm>>
      /\ immediate' = IF Completed THEN NoFlush ELSE immediate
      /\ needed' = (needed \/ Flushing \/ \E f \in Slots : Drops(Remaining[f]))
      /\ proc' = IF needed' THEN "began" ELSE "play"
      /\ flushedTo' = IF Completed /\ calm /\ EndOfFlush > flushedTo
                      THEN EndOfFlush ELSE flushedTo
  BY DEF CheckFlushes, playerVars
<1>2. \A n : Fresh(n)' <=> Fresh(n)
  BY <1>1 DEF Fresh
<1>3. flushedTo \in Bounds /\ \A n \in Bounds : n \in Nat
  BY DEF Inv, TypeOK, Bounds
<1>4. CASE Completed
  <2>1. block /= NULL /\ immediate.requested /\ Reached(immediate.until)
    BY <1>4 DEF Completed
  <2>2. PICK n \in Bounds : immediate.until = SeqOf(n) /\ (calm => Fresh(n))
    BY <2>1 DEF Inv, FlushInv
  <2>3. block \in Nat /\ Minus(seq_no, immediate.until) = block - n /\ n \in Nat
    BY <2>1, <2>2, BlockFacts DEF Bounds
  <2>4. EndOfFlush = n /\ n <= block
    BY <2>1, <2>3 DEF EndOfFlush, Reached
  <2>5. ~immediate'.requested
    BY <1>1, <1>4 DEF NoFlush
  <2> QED
    BY <1>1, <1>2, <1>3, <2>2, <2>3, <2>4, <2>5 DEF FlushInv, Inv
<1>5. CASE ~Completed
  <2>1. immediate' = immediate /\ flushedTo' = flushedTo
    BY <1>1, <1>5
  <2>2. immediate.requested /\ block /= NULL => proc' /= "play"
    BY <1>1, <1>5 DEF Completed, Flushing
  <2> QED
    BY <1>1, <1>2, <2>1, <2>2 DEF FlushInv, Inv
<1> QED
  BY <1>4, <1>5

\* A block that is put is not from before a completed flush, and from before one under
\* way only while play is off.
LEMMA UseKeepsFlush ==
  ASSUME Inv, UseBlock
  PROVE  FlushInv'
<1>1. /\ proc = "play" /\ proc' = "began" /\ play_enabled
      /\ UNCHANGED <<block, play_enabled, ap2_play_enabled, immediate, calm, flushedTo>>
  BY DEF UseBlock, rtspVars
<1>2. CASE UNCHANGED <<playerVars, playerSeq, played>>
  <2>1. queue' = queue
    BY <1>2 DEF playerVars
  <2> QED
    BY <1>1, <2>1, FlushSame
<1>3. CASE block /= NULL /\ PutPacket
  <2>1. queue' = Append(queue, block) /\ queue \in Seq(Blocks) /\ block \in Blocks
    BY <1>3 DEF PutPacket, Inv, TypeOK
  <2>2. /\ Len(queue') = Len(queue) + 1 /\ Len(queue) \in Nat
        /\ \A i \in 1 .. Len(queue) : queue'[i] = queue[i]
        /\ queue'[Len(queue) + 1] = block
    BY <2>1
  <2>3. ASSUME NEW n \in Bounds, Fresh(n),
               play_enabled /\ ap2_play_enabled => n <= block
        PROVE  Fresh(n)'
    <3> SUFFICES ASSUME play_enabled, ap2_play_enabled, NEW i \in 1 .. Len(queue')
                 PROVE  queue'[i] >= n
      BY <1>1 DEF Fresh
    <3>1. CASE i <= Len(queue)
      BY <2>2, <2>3, <3>1 DEF Fresh
    <3>2. CASE i = Len(queue) + 1
      BY <2>1, <2>2, <2>3, <3>2 DEF Blocks, Bounds
    <3> QED
      BY <2>2, <3>1, <3>2
  <2>4. flushedTo \in Bounds /\ flushedTo <= block
    BY <2>1 DEF Inv, TypeOK, FlushInv, Blocks
  <2>5. calm => Fresh(flushedTo)'
    BY <1>1, <2>3, <2>4 DEF Inv, FlushInv, Fresh
  <2>6. immediate.requested =>
          \E n \in Bounds : immediate.until = SeqOf(n) /\ (calm => Fresh(n)')
    <3> SUFFICES ASSUME immediate.requested
                 PROVE  \E n \in Bounds : immediate.until = SeqOf(n) /\ (calm => Fresh(n)')
      OBVIOUS
    <3>1. PICK n \in Bounds : immediate.until = SeqOf(n) /\ (calm => Fresh(n))
      BY DEF Inv, FlushInv
    <3>2. calm => ~(play_enabled /\ ap2_play_enabled)
      BY <1>1, <1>3 DEF Inv, FlushInv
    <3> QED
      BY <2>3, <3>1, <3>2
  <2> QED
    BY <1>1, <2>4, <2>5, <2>6 DEF FlushInv
<1> QED
  BY <1>2, <1>3 DEF UseBlock

\* So every step keeps FlushInv,
LEMMA FlushKeeps == Inv /\ [Next]_vars => FlushInv'
<1> SUFFICES ASSUME Inv, [Next]_vars
             PROVE  FlushInv'
  OBVIOUS
<1>1. CASE AwaitTiming
  BY <1>1, FlushSame DEF AwaitTiming, ResetBuffer, rtspVars
<1>2. CASE SeePlayBegin
  BY <1>2, FlushSame DEF SeePlayBegin, rtspVars, playerVars
<1>3. CASE SeePlayStop
  BY <1>3, FlushSame DEF SeePlayStop, ResetBuffer, rtspVars, playerVars
<1>4. CASE CopyPlayFlag
  <2>1. calm /\ ~play_enabled => queue = <<>>
    BY DEF Inv, CalmInv
  <2> QED
    BY <1>4, <2>1, FlushSame DEF CopyPlayFlag, rtspVars, playerVars, Inv, TypeOK
<1>5. CASE ReadBlock
  <2>1. block' = block + 1 /\ block' \in Nat /\ block \in Int /\ proc' = "check"
        /\ UNCHANGED <<immediate, calm, flushedTo, play_enabled, ap2_play_enabled, queue>>
    BY <1>5 DEF ReadBlock, Blocks, rtspVars, playerVars, Inv, TypeOK, NULL
  <2>2. \A n : Fresh(n)' <=> Fresh(n)
    BY <2>1 DEF Fresh
  <2>3. flushedTo \in Nat
    BY DEF Inv, TypeOK, Bounds
  <2> QED
    BY <2>1, <2>2, <2>3 DEF Inv, FlushInv
<1>6. CASE ReadNothing \/ KeepBlock
  BY <1>6, FlushSame DEF ReadNothing, KeepBlock, rtspVars, playerVars
<1>7. CASE CheckFlushes
  BY <1>7, CheckKeepsFlush
<1>8. CASE UseBlock
  BY <1>8, UseKeepsFlush
<1>9. ASSUME NEW n \in 1 .. MaxBlock, FlushImmediate(n)
      PROVE  FlushInv'
  <2>1. /\ immediate' = [requested |-> TRUE, until |-> SeqOf(n)] /\ ~ap2_play_enabled'
        /\ UNCHANGED <<block, flushedTo, calm>>
    BY <1>9 DEF FlushImmediate, StopTrying
  <2>2. n \in Bounds
    BY Sizes DEF Bounds
  <2> QED
    BY <2>1, <2>2 DEF FlushInv, Fresh, Inv
<1>10. ASSUME NEW n \in Bounds, NEW m \in Bounds, FlushDeferred(n, m)
       PROVE  FlushInv'
  BY <1>10, FlushSame DEF FlushDeferred, playerVars
<1>11. CASE SetAnchor \/ Pause
  BY <1>11, FlushSame DEF SetAnchor, Pause, playerVars
<1>12. CASE StartPlay
  BY <1>12, FlushSame DEF StartPlay, playerVars, MaySwitch, Inv, TypeOK
<1>13. CASE PlayerTakes
  <2>1. queue \in Seq(Blocks) /\ queue' = Tail(queue) /\ queue /= <<>>
    BY <1>13 DEF PlayerTakes, Inv, TypeOK
  <2>2. Len(queue') = Len(queue) - 1 /\ \A i \in 1 .. Len(queue') : queue'[i] = queue[i + 1]
        /\ Len(queue) \in Nat /\ Len(queue) > 0
    BY <2>1
  <2>3. UNCHANGED <<proc, block, play_enabled, ap2_play_enabled, immediate, calm, flushedTo>>
    BY <1>13 DEF PlayerTakes, rtspVars
  <2>4. \A n \in Bounds : Fresh(n) => Fresh(n)'
    BY <2>2, <2>3 DEF Fresh
  <2>5. flushedTo \in Bounds
    BY DEF Inv, TypeOK
  <2> QED
    BY <2>3, <2>4, <2>5 DEF Inv, FlushInv
<1>14. CASE UNCHANGED vars
  BY <1>14, FlushSame DEF vars, rtspVars, playerVars
<1> QED
  BY <1>1, <1>2, <1>3, <1>4, <1>5, <1>6, <1>7, <1>8, <1>9, <1>10, <1>11, <1>12, <1>13,
     <1>14 DEF Next, Processor

\* and the invariant always holds.
LEMMA Invariance == Spec => []Inv
<1>1. Inv /\ [Next]_vars => Inv'
  BY TypeKeeps, FlushKeeps, CalmKeeps, PlaceKeeps DEF Inv
<1> QED
  BY <1>1, InitInv, PTL DEF Spec

\* Every variable keeps its type: the player's buffer its limit, and the sequence
\* numbers of requests and of the player their widths.
THEOREM TypeCorrect == Spec => []TypeOK
<1>1. Inv => TypeOK
  BY DEF Inv
<1> QED
  BY <1>1, Invariance, PTL

\* "the sequence_number_for_player numbers will be sequential irrespective of seq_no
\* jumps" (buffered_audio_processor), for a source that waits for each change of play
\* to be noticed.
THEOREM SequentialCorrect == Spec => SequentialIfCalm
<1>1. Inv /\ [Next]_vars => [Put /\ calm => write \in {NULL, playerSeq}]_vars
  BY DEF Inv, PlaceInv
<1> QED
  BY <1>1, Invariance, PTL DEF Spec, SequentialIfCalm

\* Only UseBlock puts a block.
LEMMA PutIsUse ==
  ASSUME Inv, [Next]_vars, Put
  PROVE  proc = "play" /\ block /= NULL
<1>1. queue \in Seq(Blocks) /\ Len(queue) \in Nat /\ Len(queue') = Len(queue) + 1
  BY DEF Put, Inv, TypeOK
<1>2. queue' /= queue /\ queue' /= <<>>
  BY <1>1
<1>3. ~PlayerTakes
  BY <1>1 DEF PlayerTakes
<1>4. UseBlock
  BY <1>2, <1>3 DEF Next, Processor, AwaitTiming, SeePlayBegin, SeePlayStop, CopyPlayFlag,
     ReadBlock, ReadNothing, CheckFlushes, KeepBlock, FlushImmediate, FlushDeferred,
     SetAnchor, StartPlay, Pause, ResetBuffer, vars, playerVars
<1> QED
  BY <1>2, <1>4 DEF UseBlock, playerVars

\* Promises are kept by steps that leave the table and the block alone,
LEMMA PromiseSame ==
  ASSUME PromiseInv, UNCHANGED <<block, deferred, promised>>,
         proc' = "play" => proc = "play", proc /= "check"
  PROVE  PromiseInv'
BY DEF PromiseInv, Awaited

\* by the next block, which the check is to come to,
LEMMA ReadKeepsPromise ==
  ASSUME Inv, PromiseInv, ReadBlock
  PROVE  PromiseInv'
<1>1. /\ proc = "read" /\ proc' = "check" /\ block' = block + 1 /\ block' \in Nat
      /\ UNCHANGED <<deferred, promised>>
  BY DEF ReadBlock, rtspVars, Blocks
<1> SUFFICES ASSUME NEW r \in promised
             PROVE  Awaited(r)'
  BY <1>1 DEF PromiseInv
<1>2. r.from \in Nat /\ r.until \in Nat
  BY DEF Inv, TypeOK, Bounds
<1>3. Awaited(r) /\ block \in Int
  BY DEF PromiseInv, Inv, TypeOK, Blocks, NULL
<1> QED
  BY <1>1, <1>2, <1>3 DEF Awaited, NULL

\* by the check, which activates a request at its first block, drops blocks up to its
\* end, and with a completed immediate flush takes back them all,
LEMMA CheckKeepsPromise ==
  ASSUME Inv, PromiseInv, CheckFlushes
  PROVE  PromiseInv'
<1>1. /\ proc = "check" /\ block' = block
      /\ deferred' = [f \in Slots |-> Updated(Remaining[f])]
      /\ needed' = (needed \/ Flushing \/ \E f \in Slots : Drops(Remaining[f]))
      /\ proc' = IF needed' THEN "began" ELSE "play"
      /\ promised' = IF Completed THEN {} ELSE {r \in promised : r.until > block}
  BY DEF CheckFlushes
<1>2. CASE Completed
  BY <1>1, <1>2 DEF PromiseInv
<1>3. CASE ~Completed
  <2> SUFFICES ASSUME NEW r \in promised, r.until > block
               PROVE  Awaited(r)'
    BY <1>1, <1>3 DEF PromiseInv
  <2>1. r.from \in Bounds /\ r.until \in Bounds /\ r.from \in Nat /\ r.until \in Nat
    BY DEF Inv, TypeOK, Bounds
  <2>2. Awaited(r) /\ Remaining = deferred
    BY <1>3 DEF PromiseInv, Remaining
  <2>3. PICK f \in Slots :
          /\ deferred[f].inUse
          /\ deferred[f].from = SeqOf(r.from) /\ deferred[f].until = SeqOf(r.until)
          /\ block >= r.from => deferred[f].active \/ (proc = "check" /\ block = r.from)
    BY <2>2 DEF Awaited
  <2>4. /\ block \in Nat /\ block \in Bounds /\ seq_no = SeqOf(block)
        /\ Minus(seq_no, SeqOf(r.until)) = block - r.until
        /\ seq_no = SeqOf(r.until) => block = r.until
    BY <2>1, <2>2, BlockFacts DEF Awaited
  <2>5. ~Passed(deferred[f]) /\ seq_no /= deferred[f].until
    BY <2>1, <2>3, <2>4 DEF Passed
  <2>6. deferred[f] \in Request
    BY DEF Inv, TypeOK, Request
  <2>7. deferred'[f] = [deferred[f] EXCEPT !.active = Activated(deferred[f])]
    BY <1>1, <2>2, <2>3, <2>5 DEF Updated
  <2>8. block >= r.from => deferred[f].active \/ deferred[f].from = seq_no
    BY <2>3, <2>4
  <2>9. block >= r.from => Activated(deferred[f]) /\ Drops(deferred[f])
    BY <2>3, <2>5, <2>8 DEF Activated, Drops
  <2>10. /\ deferred'[f].inUse
         /\ deferred'[f].from = SeqOf(r.from) /\ deferred'[f].until = SeqOf(r.until)
         /\ block >= r.from => deferred'[f].active
    <3>1. PICK a : a = Activated(deferred[f])
      OBVIOUS
    <3> QED
      BY <2>3, <2>6, <2>7, <2>9, <3>1 DEF Request
  <2>11. proc' = "play" => block < r.from
    <3> SUFFICES ASSUME block >= r.from
                 PROVE  proc' = "began"
      BY <2>1, <2>4
    <3>1. \E g \in Slots : Drops(Remaining[g])
      BY <2>2, <2>9
    <3>2. needed'
      BY <1>1, <3>1
    <3> QED
      BY <1>1, <3>2
  <2> QED
    BY <1>1, <2>2, <2>10, <2>11 DEF Awaited
<1> QED
  BY <1>2, <1>3

\* and by a new request, which takes a free place of the table.
LEMMA DeferKeepsPromise ==
  ASSUME Inv, PromiseInv, Watched \subseteq {"ahead"},
         NEW n \in Bounds, NEW m \in Bounds, n < m, FlushDeferred(n, m)
  PROVE  PromiseInv'
<1>1. UNCHANGED <<proc, block>>
  BY DEF FlushDeferred
<1>2. CASE FreeSlots = {}
  BY <1>1, <1>2 DEF FlushDeferred, PromiseInv, Awaited
<1>3. CASE FreeSlots /= {}
  <2> DEFINE new == [inUse |-> TRUE, active |-> FALSE, from |-> SeqOf(n), until |-> SeqOf(m)]
  <2>1. PICK f \in FreeSlots : deferred' = [deferred EXCEPT ![f] = new]
    <3>1. FreeSlots \subseteq Nat
      BY Sizes DEF FreeSlots, Slots
    <3>2. \E f \in FreeSlots : \A g \in FreeSlots : f <= g
      BY <1>3, <3>1, LeastIs
    <3> DEFINE least == CHOOSE f \in FreeSlots : \A g \in FreeSlots : f <= g
    <3>3. least \in FreeSlots
      BY <3>2
    <3>4. deferred' = [deferred EXCEPT ![least] = new]
      BY <1>3 DEF FlushDeferred
    <3> QED
      BY <3>3, <3>4
  <2>2. f \in Slots /\ ~deferred[f].inUse
    BY DEF FreeSlots
  <2>3. DOMAIN deferred = Slots
    BY DEF Inv, TypeOK
  <2>5. deferred'[f] = new /\ \A g \in Slots : g /= f => deferred'[g] = deferred[g]
    BY <2>1, <2>2, <2>3
  <2>6. ASSUME NEW r \in promised
        PROVE  Awaited(r)'
    <3>1. Awaited(r)
      BY DEF PromiseInv
    <3> QED
      BY <1>1, <2>2, <2>5, <3>1 DEF Awaited
  <2>7. ASSUME NEW r \in promised' \ promised
        PROVE  Awaited(r)'
    <3>1. r = [from |-> n, until |-> m] /\ Undecided(n) \intersect Watched /= {}
      BY <1>3 DEF FlushDeferred
    <3>2. block /= NULL /\ block < n
      BY <3>1 DEF Undecided
    <3>3. block \in Nat /\ n \in Nat /\ m \in Nat
      BY <3>2 DEF Inv, TypeOK, Blocks, Bounds
    <3> QED
      BY <1>1, <2>2, <2>5, <3>1, <3>2, <3>3 DEF Awaited
  <2> QED
    BY <2>6, <2>7 DEF PromiseInv
<1> QED
  BY <1>2, <1>3

\* So every step keeps them.
LEMMA PromiseKeeps ==
  ASSUME Inv, PromiseInv, [Next]_vars, Watched \subseteq {"ahead"}
  PROVE  PromiseInv'
<1>1. CASE AwaitTiming \/ SeePlayBegin \/ SeePlayStop \/ CopyPlayFlag \/ ReadNothing
  BY <1>1, PromiseSame
     DEF AwaitTiming, SeePlayBegin, SeePlayStop, CopyPlayFlag, ReadNothing, rtspVars
<1>2. CASE KeepBlock \/ UseBlock
  BY <1>2, PromiseSame DEF KeepBlock, UseBlock, rtspVars
<1>3. CASE ReadBlock
  BY <1>3, ReadKeepsPromise
<1>4. CASE CheckFlushes
  BY <1>4, CheckKeepsPromise
<1>5. ASSUME NEW n \in 1 .. MaxBlock, FlushImmediate(n)
      PROVE  PromiseInv'
  BY <1>5 DEF FlushImmediate, PromiseInv, Awaited
<1>6. ASSUME NEW n \in Bounds, NEW m \in Bounds, n < m, FlushDeferred(n, m)
      PROVE  PromiseInv'
  BY <1>6, DeferKeepsPromise
<1>7. CASE SetAnchor \/ StartPlay \/ Pause
  <2>1. UNCHANGED <<proc, block, deferred, promised>>
    BY <1>7 DEF SetAnchor, StartPlay, Pause
  <2> QED
    BY <2>1 DEF PromiseInv, Awaited
<1>8. CASE PlayerTakes \/ UNCHANGED vars
  BY <1>8 DEF PlayerTakes, vars, rtspVars, PromiseInv, Awaited
<1> QED
  BY <1>1, <1>2, <1>3, <1>4, <1>5, <1>6, <1>7, <1>8 DEF Next, Processor

\* What the run checks of immediate flushes follows from the invariant.
LEMMA Cleared == Inv => ImmediateFlushClears
<1> SUFFICES ASSUME Inv, calm, ~immediate.requested, play_enabled => ap2_play_enabled,
                    NEW i \in 1 .. Len(queue)
             PROVE  queue[i] >= flushedTo
  BY DEF ImmediateFlushClears
<1>1. CASE play_enabled
  BY <1>1 DEF Inv, FlushInv, Fresh
<1>2. CASE ~play_enabled
  BY <1>2 DEF Inv, CalmInv
<1> QED
  BY <1>1, <1>2

\* A deferred flush filed before its first block is read spares no block of its range,
\* whatever other requests do, and a completed immediate flush leaves nothing from
\* before its end in the player's buffer once the processor has seen that play is off
\* (handle_flushbuffered, buffered_audio_processor).  Of other deferred requests only
\* TLC can tell: it finds that they are not honoured.
THEOREM FlushesCorrect ==
  ASSUME Watched \subseteq {"ahead"}
  PROVE  Spec => FlushesHonoured
<1>1. Init => PromiseInv
  BY DEF Init, PromiseInv
<1>2. Inv /\ PromiseInv /\ [Next]_vars => PromiseInv'
  BY PromiseKeeps
<1>3. Inv /\ PromiseInv /\ [Next]_vars =>
        [Put => \A r \in promised : block \notin r.from .. r.until - 1]_vars
  <2> SUFFICES ASSUME Inv, PromiseInv, [Next]_vars, Put, NEW r \in promised
               PROVE  block \notin r.from .. r.until - 1
    OBVIOUS
  <2>1. proc = "play" /\ block \in Nat
    BY PutIsUse DEF Inv, TypeOK, Blocks
  <2>2. block < r.from /\ r.from \in Nat
    BY <2>1 DEF PromiseInv, Awaited, Inv, TypeOK, Bounds
  <2> QED
    BY <2>1, <2>2
<1> QED
  BY <1>1, <1>2, <1>3, Invariance, Cleared, PTL DEF Spec, FlushesHonoured, DeferredFlushHonoured
================================================================================
