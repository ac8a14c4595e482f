-------------------------- MODULE PlayerBuffer_proof --------------------------
(***************************************************************************)
(* Proofs about PlayerBuffer, for a ring and sequence numbers of any size: *)
(* every slot of the window holds the packet with that number or is marked *)
(* missing, what the resend scan passes over has arrived, the frame being  *)
(* played is left alone, and the whole plays out as PlayoutQueue says.     *)
(***************************************************************************)
EXTENDS PlayerBuffer, WellFoundedInduction, TLAPS

\* What player_put_packet takes for granted and never checks: that packets come
\* less than a whole ring ahead of the player, and not so late that the difference
\* of two sequence numbers changes its sign.
WithinReach == MaxWindow < BufFrames /\ 2 * (MaxLate + 1) <= SeqMod

\* The slot of packet n, and the packets between ab_read and ab_write.
SlotOf(n) == (FirstSeq + n) % BufFrames
Window == readN .. readN + Fill - 1

\* ab_read and ab_write are the sequence numbers of packets less than a ring apart.
PositionInv ==
  /\ ab_read = Seq(readN)
  /\ ab_write = Seq(readN + Fill)
  /\ Fill <= MaxWindow
  /\ readN + Fill <= top + 1

\* The slot of a packet in the window holds that packet or is marked missing, with
\* timestamp 0: so player_put_packet leaves it, and buffer_get_frame passes it over.
HoldInv ==
  \A n \in Window :
    LET s == slot[SlotOf(n)] IN
    IF s.ready THEN s.payload = n /\ s.timestamp = n + 1 /\ s.sequence_number = Seq(n)
    ELSE s.timestamp = 0

\* The resend scan has stopped at a packet at most a window behind ab_write, and all
\* packets between the player and it have arrived.  It may be behind the player.
CursorInv ==
  \E p \in readN + Fill - MaxWindow .. readN + Fill :
    /\ cursor = Seq(p)
    /\ \A n \in readN .. p - 1 : slot[SlotOf(n)].ready

\* The frame the player holds is in the slot just behind ab_read, out of reach of
\* player_put_packet.
InUseInv ==
  inUse /= NULL =>
    ab_synced /\ readN > 0 /\ inUse = SlotOf(readN - 1) /\ ~slot[inUse].ready

\* The inductive invariant: nothing is said of the window before the first packet,
\* or after ab_resync.
Inv ==
  /\ TypeOK
  /\ ab_synced => PositionInv /\ HoldInv /\ CursorInv
  /\ InUseInv

\* A remainder is in range,
LEMMA ModRange ==
  ASSUME NEW m \in Int, m > 0, NEW a \in Int
  PROVE  (a % m) \in 0 .. m - 1
OBVIOUS

\* and is what is left when a multiple is taken away:
LEMMA ModDiv ==
  ASSUME NEW m \in Int, m > 0, NEW a \in Int
  PROVE  \E q \in Int : a = m * q + (a % m)
<1>1. a \div m \in Int
  BY SMT
<1>2. a = m * (a \div m) + (a % m)
  BY SMTT(20)
<1> QED
  BY <1>1, <1>2

\* the only such number in range.
LEMMA ModUnique ==
  ASSUME NEW m \in Int, m > 0, NEW a \in Int, NEW q \in Int, NEW r \in 0 .. m - 1,
         a = m * q + r
  PROVE  (a % m) = r
BY SMTT(20)

\* Numbers a multiple of m apart have one remainder.
LEMMA ModShift ==
  ASSUME NEW m \in Int, m > 0, NEW a \in Int, NEW b \in Int, NEW q \in Int,
         a = m * q + b
  PROVE  (a % m) = (b % m)
<1>1. PICK p \in Int : b = m * p + (b % m)
  BY ModDiv
<1>2. (b % m) \in 0 .. m - 1
  BY ModRange
<1>3. m * q + m * p = m * (q + p)
  BY SMTT(20)
<1>4. a = m * (q + p) + (b % m)
  BY <1>1, <1>2, <1>3
<1>5. q + p \in Int
  OBVIOUS
<1> QED
  BY <1>2, <1>4, <1>5, ModUnique

\* Taking the remainder before adding changes nothing.
LEMMA ModPlus ==
  ASSUME NEW m \in Int, m > 0, NEW a \in Int, NEW b \in Int
  PROVE  ((a % m) + b) % m = (a + b) % m
<1>1. PICK q \in Int : a = m * q + (a % m)
  BY ModDiv
<1>2. (a % m) \in Int
  BY ModRange
<1>3. PICK c \in Int : c = (a % m) + b
  BY <1>2
<1>4. PICK d \in Int : d = a + b
  OBVIOUS
<1>5. d = m * q + c
  BY <1>1, <1>2, <1>3, <1>4
<1>6. d % m = c % m
  BY <1>5, ModShift
<1> QED
  BY <1>3, <1>4, <1>6

\* Numbers less than m apart with one remainder are the same.
LEMMA ModSame ==
  ASSUME NEW m \in Int, m > 0, NEW a \in Int, NEW b \in Int,
         (a % m) = (b % m), a - b < m, b - a < m
  PROVE  a = b
<1>1. PICK q \in Int : a = m * q + (a % m)
  BY ModDiv
<1>2. PICK p \in Int : b = m * p + (b % m)
  BY ModDiv
<1>3. (a % m) \in Int /\ (b % m) \in Int
  BY ModRange
<1>4. a - b = m * q - m * p
  BY <1>1, <1>2, <1>3
<1>5. m * q - m * p = m * (q - p)
  BY SMTT(20)
<1>6. q - p < 1 /\ p - q < 1
  BY <1>4, <1>5, SMTT(20)
<1>7. q = p
  BY <1>6
<1> QED
  BY <1>4, <1>7

\* A remainder of a remainder, where the one modulus divides the other.
LEMMA ModMod ==
  ASSUME NEW m \in Int, m > 0, NEW k \in Int, k > 0, m % k = 0, NEW a \in Int
  PROVE  (a % m) % k = (a % k)
<1>1. PICK q \in Int : a = m * q + (a % m)
  BY ModDiv
<1>2. PICK p \in Int : m = k * p
  BY ModDiv
<1>3. PICK c \in Int : c = (a % m)
  BY ModRange
<1>4. (k * p) * q = k * (p * q)
  BY SMTT(20)
<1>5. PICK r \in Int : r = p * q
  OBVIOUS
<1>6. a = k * r + c
  BY <1>1, <1>2, <1>3, <1>4, <1>5
<1>7. a % k = c % k
  BY <1>6, ModShift
<1> QED
  BY <1>3, <1>7

\* What is known of the sizes: the ring divides the sequence numbers at least twice.
LEMMA Sizes ==
  /\ SeqMod \in Int /\ SeqMod > 0 /\ BufFrames \in Int /\ BufFrames > 0
  /\ 2 * BufFrames <= SeqMod /\ SeqMod % BufFrames = 0 /\ FirstSeq \in Int
  /\ MaxPacket \in Nat /\ MaxTime \in Nat /\ MaxGap \in Nat /\ MaxLate \in Nat
  /\ MaxWindow \in Nat /\ MaxWindow > 0
BY BufferAssumption, SMTT(20)

\* A packet's sequence number is one.
LEMMA SeqIn ==
  ASSUME NEW n \in Int
  PROVE  Seq(n) \in SeqNo
BY Sizes, ModRange DEF Seq, SeqNo

\* A packet's slot is one.
LEMMA SlotIn ==
  ASSUME NEW n \in Int
  PROVE  SlotOf(n) \in Slots
BY Sizes, ModRange DEF SlotOf, Slots

\* BUFIDX finds the slot of a packet i further on from its sequence number: it may,
\* as the number of slots divides the number of sequence numbers.
LEMMA IndexIs ==
  ASSUME NEW n \in Int, NEW i \in Int
  PROVE  BUFIDX(Seq(n) + i) = SlotOf(n + i)
<1>1. PICK a \in Int : a = FirstSeq + n
  BY Sizes
<1>2. PICK s \in Int : s = (a % SeqMod)
  BY Sizes, ModRange
<1>3. s % BufFrames = a % BufFrames
  <2>1. (a % SeqMod) % BufFrames = (a % BufFrames)
    BY ZenonT(40), Sizes, ModMod
  <2> QED
    BY <1>2, <2>1
<1>4. (s + i) % BufFrames = ((s % BufFrames) + i) % BufFrames
  BY Sizes, ModPlus
<1>5. ((a % BufFrames) + i) % BufFrames = (a + i) % BufFrames
  BY Sizes, ModPlus
<1>6. a + i = FirstSeq + (n + i)
  BY <1>1, Sizes
<1> QED
  BY <1>1, <1>2, <1>3, <1>4, <1>5, <1>6 DEF BUFIDX, Seq, SlotOf

\* The sequence number i further on is that of the packet i further on.
LEMMA PlusIs ==
  ASSUME NEW n \in Int, NEW i \in Int
  PROVE  Plus(Seq(n), i) = Seq(n + i)
<1>1. PICK a \in Int : a = FirstSeq + n
  BY Sizes
<1>2. ((a % SeqMod) + i) % SeqMod = (a + i) % SeqMod
  BY Sizes, ModPlus
<1>3. a + i = FirstSeq + (n + i)
  BY <1>1, Sizes
<1> QED
  BY <1>1, <1>2, <1>3 DEF Plus, Seq

\* Sequence numbers differ as their packets do, modulo SeqMod:
LEMMA DifferenceIs ==
  ASSUME NEW a \in Int, NEW b \in Int
  PROVE  (Seq(a) - Seq(b)) % SeqMod = (a - b) % SeqMod
<1>1. PICK c \in Int : c = FirstSeq + a
  BY Sizes
<1>2. PICK d \in Int : d = FirstSeq + b
  BY Sizes
<1>3. PICK s \in Int : s = (d % SeqMod)
  BY Sizes, ModRange
<1>4. PICK q \in Int : d = SeqMod * q + s
  BY <1>3, Sizes, ModDiv
<1>12. PICK r \in Int : r = -s
  BY <1>3
<1>5. ((c % SeqMod) + r) % SeqMod = (c + r) % SeqMod
  BY Sizes, ModPlus
<1>6. PICK e \in Int : e = c + r
  BY <1>1
<1>7. PICK f \in Int : f = a - b
  OBVIOUS
<1>8. e = SeqMod * q + f
  BY <1>1, <1>2, <1>4, <1>6, <1>7, <1>12, Sizes
<1>9. e % SeqMod = f % SeqMod
  BY <1>8, Sizes, ModShift
<1>10. PICK t \in Int : t = (c % SeqMod)
  BY Sizes, ModRange
<1>11. t - s = t + r
  BY <1>12
<1> QED
  BY <1>1, <1>2, <1>3, <1>5, <1>6, <1>7, <1>9, <1>10, <1>11 DEF Seq

\* exactly, if the first packet is ahead,
LEMMA AheadIs ==
  ASSUME NEW a \in Int, NEW b \in Int, 0 <= a - b, a - b < SeqMod
  PROVE  (Seq(a) - Seq(b)) % SeqMod = a - b
<1>1. PICK r \in Int : r = a - b
  OBVIOUS
<1>2. r \in 0 .. SeqMod - 1 /\ r = SeqMod * 0 + r
  BY <1>1, Sizes
<1>3. r % SeqMod = r
  BY <1>2, Sizes, ModUnique
<1> QED
  BY <1>1, <1>3, DifferenceIs

\* and by SeqMod more, if it is behind.
LEMMA BehindIs ==
  ASSUME NEW a \in Int, NEW b \in Int, 0 < b - a, b - a <= SeqMod
  PROVE  (Seq(a) - Seq(b)) % SeqMod = a - b + SeqMod
<1>1. PICK d \in Int : d = a - b
  OBVIOUS
<1>2. PICK r \in Int : r = d + SeqMod
  BY Sizes
<1>3. r \in 0 .. SeqMod - 1 /\ d = SeqMod * (-1) + r
  BY <1>1, <1>2, Sizes
<1>4. d % SeqMod = r
  BY <1>3, Sizes, ModUnique
<1> QED
  BY <1>1, <1>2, <1>4, DifferenceIs

\* Minus, the signed difference, is the distance of two packets no further apart
\* than half the sequence numbers.
LEMMA MinusIs ==
  ASSUME NEW a \in Int, NEW b \in Int, 2 * (b - a) <= SeqMod, 2 * (a - b) < SeqMod
  PROVE  Minus(Seq(a), Seq(b)) = a - b
<1>1. CASE a - b >= 0
  BY <1>1, AheadIs, Sizes DEF Minus
<1>2. CASE a - b < 0
  <2>1. (Seq(a) - Seq(b)) % SeqMod = a - b + SeqMod
    BY <1>2, BehindIs, Sizes
  <2> QED
    BY <2>1, <1>2, Sizes DEF Minus
<1> QED
  BY <1>1, <1>2

\* Different packets less than a ring apart have different slots.
LEMMA SlotsApart ==
  ASSUME NEW a \in Int, NEW b \in Int, a - b < BufFrames, b - a < BufFrames,
         SlotOf(a) = SlotOf(b)
  PROVE  a = b
<1>1. PICK c \in Int : c = FirstSeq + a
  BY Sizes
<1>2. PICK d \in Int : d = FirstSeq + b
  BY Sizes
<1>3. c % BufFrames = d % BufFrames /\ c - d < BufFrames /\ d - c < BufFrames
  BY <1>1, <1>2, Sizes DEF SlotOf
<1>4. BufFrames \in Int /\ BufFrames > 0
  BY Sizes
<1>5. c = d
  BY <1>3, <1>4, ModSame
<1> QED
  BY <1>1, <1>2, <1>5, Sizes

\* Min of the community modules is the least element.
LEMMA MinIs ==
  ASSUME NEW S, S \subseteq Nat, S /= {}
  PROVE  Min(S) \in S /\ \A x \in S : Min(S) <= x
<1> DEFINE R == {ss \in Nat \X Nat : ss[1] < ss[2]}
<1>1. IsWellFoundedOn(R, Nat)
  BY NatLessThanWellFounded DEF OpToRel
<1> HIDE DEF R
<1>2. PICK x \in S : \A y \in S : ~(<<y, x>> \in R)
  BY <1>1, WFMin
<1>3. \A y \in S : x <= y
  <2> SUFFICES ASSUME NEW y \in S, y < x
               PROVE  FALSE
    BY <1>2
  <2>1. <<y, x>> \in Nat \X Nat /\ <<y, x>>[1] = y /\ <<y, x>>[2] = x
    BY <1>2
  <2>2. <<y, x>> \in R
    BY <2>1 DEF R
  <2> QED
    BY <1>2, <2>2
<1> QED
  BY <1>2, <1>3 DEF Min

\* Minus is a number.
LEMMA MinusIn ==
  ASSUME NEW s \in Int, NEW t \in Int
  PROVE  Minus(s, t) \in Int
<1>1. PICK d \in Int : d = ((s - t) % SeqMod)
  BY Sizes, ModRange
<1> QED
  BY <1>1, Sizes DEF Minus

\* check_for_resend moves the cursor to the first missing packet, or to the end, if
\* all before the old cursor have arrived or the cursor is out of the window.
LEMMA ResendRight ==
  ASSUME NEW slots, NEW r \in Int, NEW w \in Int, r <= w, w - r < BufFrames,
         NEW c, c = Minus(cursor, Seq(r)),
         ResendCheck(slots, Seq(r), Seq(w)),
         cursor \in Int,
         cursor /= NULL /\ c \in 0 .. w - r - 1 =>
           \A i \in 0 .. c - 1 : slots[SlotOf(r + i)].ready
  PROVE  \E p \in r .. w : /\ cursor' = Seq(p)
                           /\ \A n \in r .. p - 1 : slots[SlotOf(n)].ready
<1> DEFINE start == IF cursor /= NULL /\ c \in 0 .. w - r - 1 THEN c ELSE 0
           missing == {i \in start .. w - r - 1 : ~slots[SlotOf(r + i)].ready}
<1>1. Minus(Seq(w), Seq(r)) = w - r
  BY MinusIs, Sizes
<1>2. (Seq(w) - Seq(r)) % SeqMod = w - r
  BY AheadIs, Sizes
<1>3. c \in Int
  <2>1. Seq(r) \in Int
    BY SeqIn DEF SeqNo
  <2> QED
    BY <2>1, MinusIn
<1>4. start \in Int
  BY <1>3
<1>5. \A i \in Int : BUFIDX(Seq(r) + i) = SlotOf(r + i)
  BY IndexIs
<1>6. missing = {i \in start .. w - r - 1 : ~slots[BUFIDX(Seq(r) + i)].ready}
  BY <1>4, <1>5
<1>7. cursor' = NextCursor(Seq(r), Seq(w), missing)
  BY <1>1, <1>2, <1>6 DEF ResendCheck
<1>8. \A i \in 0 .. start - 1 : slots[SlotOf(r + i)].ready
  BY <1>3
<1>9. \A i \in 0 .. w - r - 1 : i \notin missing => slots[SlotOf(r + i)].ready
  BY <1>4, <1>8
<1>10. missing \subseteq 0 .. w - r - 1
  BY <1>3
<1> HIDE DEF missing, start
<1>11. CASE missing = {}
  <2>1. cursor' = Seq(w)
    BY <1>7, <1>11 DEF NextCursor
  <2>2. ASSUME NEW n \in r .. w - 1
        PROVE  slots[SlotOf(n)].ready
    <3>1. n - r \in 0 .. w - r - 1 /\ r + (n - r) = n
      OBVIOUS
    <3>2. slots[SlotOf(r + (n - r))].ready
      BY <1>9, <1>11, <3>1
    <3> QED
      BY <3>1, <3>2
  <2> QED
    BY <2>1, <2>2
<1>12. CASE missing /= {}
  <2>1. /\ Min(missing) \in missing
        /\ \A i \in missing : Min(missing) <= i
    <3>1. missing \subseteq Nat
      BY <1>10
    <3> QED
      BY <1>12, <3>1, MinIs
  <2>2. PICK m \in 0 .. w - r - 1 : m = Min(missing)
    BY <1>10, <2>1
  <2>3. cursor' = Seq(r + m)
    BY <1>7, <1>12, <2>2, PlusIs DEF NextCursor
  <2>4. ASSUME NEW n \in r .. (r + m) - 1
        PROVE  slots[SlotOf(n)].ready
    <3>1. n - r \in 0 .. w - r - 1 /\ r + (n - r) = n /\ n - r < m
      OBVIOUS
    <3>2. n - r \notin missing
      BY <2>1, <2>2, <3>1
    <3>3. slots[SlotOf(r + (n - r))].ready
      BY <1>9, <3>1, <3>2
    <3> QED
      BY <3>1, <3>3
  <2>5. r + m \in r .. w
    OBVIOUS
  <2> QED
    BY <2>3, <2>4, <2>5
<1> QED
  BY <1>11, <1>12

\* What the invariant says of the window, in the words of the actions.
LEMMA WindowFacts ==
  ASSUME Inv, ab_synced, WithinReach
  PROVE  /\ readN \in Nat /\ Fill \in Nat /\ Fill < BufFrames
         /\ readN + Fill <= MaxPacket
         /\ ab_read = Seq(readN) /\ ab_write = Seq(readN + Fill)
         /\ \A i \in Int : BUFIDX(ab_read + i) = SlotOf(readN + i)
         /\ \A i \in Int : At(i) = slot[SlotOf(readN + i)]
         /\ \A i \in Int : SlotOf(readN + i) \in Slots
<1>1. readN \in Nat /\ top \in Int /\ top + 1 <= MaxPacket
  BY Sizes DEF Inv, TypeOK, Packet, NULL
<1>2. ab_read = Seq(readN) /\ ab_write = Seq(readN + Fill)
      /\ Fill <= MaxWindow /\ readN + Fill <= top + 1
  BY DEF Inv, PositionInv
<1>3. Fill \in Nat
  <2>1. ab_write \in Int /\ ab_read \in Int
    BY DEF Inv, TypeOK, SeqNo
  <2>2. PICK d \in Int : d = ab_write - ab_read
    BY <2>1
  <2>3. (d % SeqMod) \in Nat
    BY Sizes, ModRange
  <2> QED
    BY <2>2, <2>3 DEF Fill
<1>4. \A i \in Int : BUFIDX(ab_read + i) = SlotOf(readN + i)
  BY <1>1, <1>2, IndexIs
<1>5. \A i \in Int : SlotOf(readN + i) \in Slots
  BY <1>1, SlotIn
<1>6. \A i \in Int : At(i) = slot[SlotOf(readN + i)]
  BY <1>4 DEF At
<1> QED
  BY <1>1, <1>2, <1>3, <1>4, <1>5, <1>6, Sizes DEF WithinReach

\* A step that only moves the player on, by i packets of the window, and keeps the
\* slots of the packets that are left, keeps the invariant.
LEMMA WindowKept ==
  ASSUME Inv, ab_synced, WithinReach, ab_write' = ab_write, cursor' = cursor,
         NEW i \in 0 .. Fill, readN' = readN + i, ab_read' = Seq(readN + i),
         top <= top', top' \in Int,
         \A n \in readN + i .. readN + Fill - 1 : slot'[SlotOf(n)] = slot[SlotOf(n)]
  PROVE  PositionInv' /\ HoldInv' /\ CursorInv' /\ Window' = readN + i .. readN + Fill - 1
<1>1. readN \in Nat /\ Fill \in Nat /\ Fill < BufFrames
  BY WindowFacts
<1>17. PICK w \in Nat : w = readN + Fill
  BY <1>1
<1>2. ab_write = Seq(w) /\ Fill <= MaxWindow /\ w <= top + 1 /\ top \in Int
  BY Sizes, <1>17 DEF Inv, PositionInv, TypeOK, Packet, NULL
<1>3. Fill' = Fill - i /\ readN' + Fill' = w
  <2>1. (Seq(w) - Seq(readN + i)) % SeqMod = w - (readN + i)
    BY <1>1, AheadIs, Sizes, <1>17
  <2>2. Fill' = w - (readN + i)
    BY <1>2, <2>1 DEF Fill
  <2> QED
    BY <1>1, <2>2, <1>17
<1>4. PositionInv'
  <2>1. w <= top' + 1
    BY <1>1, <1>2
  <2>2. Fill' <= MaxWindow
    BY <1>1, <1>2, <1>3, Sizes
  <2>3. ab_write' = Seq(readN' + Fill')
    BY <1>2, <1>3
  <2> QED
    BY <1>3, <2>1, <2>2, <2>3 DEF PositionInv
<1>5. HoldInv'
  <2>1. ASSUME NEW n \in Window'
        PROVE  n \in Window /\ slot'[SlotOf(n)] = slot[SlotOf(n)]
    BY <1>1, <1>3, <1>17 DEF Window
  <2>2. HoldInv
    BY DEF Inv
  <2> QED
    BY <2>1, <2>2 DEF HoldInv
<1>6. CursorInv'
  <2>1. PICK p \in readN + Fill - MaxWindow .. readN + Fill :
          /\ cursor = Seq(p)
          /\ \A n \in readN .. p - 1 : slot[SlotOf(n)].ready
    BY DEF Inv, CursorInv
  <2>2. p \in readN' + Fill' - MaxWindow .. readN' + Fill'
    BY <1>1, <1>3, Sizes, <1>17
  <2>3. ASSUME NEW n \in readN' .. p - 1
        PROVE  slot'[SlotOf(n)].ready
    <3>1. n \in readN .. p - 1 /\ n \in readN + i .. readN + Fill - 1
      BY <1>1, <2>1, Sizes
    <3> QED
      BY <2>1, <3>1
  <2> QED
    BY <2>1, <2>2, <2>3 DEF CursorInv
<1>7. Window' = readN + i .. readN + Fill - 1
  BY <1>1, <1>3, <1>17 DEF Window
<1> QED
  BY <1>4, <1>5, <1>6, <1>7

\* The bounds that the type invariant needs.
LEMMA Bounds ==
  /\ MaxPacket \in Nat /\ MaxTime \in Nat /\ MaxLate \in Nat /\ MaxWindow \in Nat
  /\ 0 \in 0 .. MaxPacket /\ 0 \in SeqNo /\ -1 \in Int /\ SeqNo \subseteq Nat
BY Sizes DEF SeqNo

\* The fill is a number.
LEMMA FillIn ==
  ASSUME NEW r \in SeqNo, NEW w \in SeqNo
  PROVE  (w - r) % SeqMod \in Nat
<1>1. PICK d \in Int : d = w - r
  BY Bounds
<1>2. (d % SeqMod) \in Nat
  BY Sizes, ModRange
<1> QED
  BY <1>1, <1>2

\* A step that leaves the ring, the player and the cursor alone keeps the invariant.
LEMMA QuietKeeps ==
  ASSUME Inv, WithinReach, TypeOK', top <= top',
         UNCHANGED <<slot, ab_read, ab_write, ab_synced, readN, cursor, inUse>>
  PROVE  Inv'
<1>1. InUseInv'
  BY DEF Inv, InUseInv
<1>2. ASSUME ab_synced
      PROVE  PositionInv' /\ HoldInv' /\ CursorInv'
  <2>1. readN \in Nat /\ Fill \in Nat /\ ab_read = Seq(readN)
    BY <1>2, WindowFacts
  <2>2. top' \in Int
    BY Sizes DEF TypeOK, Packet, NULL
  <2>3. 0 \in 0 .. Fill /\ readN + 0 = readN
    BY <2>1
  <2> QED
    BY <1>2, <2>1, <2>2, <2>3, WindowKept
<1> QED
  BY <1>1, <1>2 DEF Inv

\* So does a request to flush,
LEMMA DoFlushKeeps ==
  ASSUME Inv, WithinReach, NEW timestamp \in 0 .. MaxPacket, do_flush(timestamp)
  PROVE  Inv'
<1>1. TypeOK'
  BY DEF Inv, TypeOK, do_flush, bufferVars
<1>2. top <= top'
  BY Bounds DEF Inv, TypeOK, Packet, NULL, do_flush
<1> QED
  BY <1>1, <1>2, QuietKeeps DEF do_flush, bufferVars

\* turning the output on or off,
LEMMA OutputKeeps ==
  ASSUME Inv, WithinReach, OutputOff \/ OutputOn
  PROVE  Inv'
<1>1. flush' \in [requested: BOOLEAN, timestamp: 0 .. MaxPacket, flushed: BOOLEAN]
  <2>1. CASE OutputOff
    BY <2>1, Bounds DEF Inv, TypeOK, OutputOff
  <2>2. CASE OutputOn
    BY <2>2 DEF Inv, TypeOK, OutputOn
  <2> QED
    BY <2>1, <2>2
<1>2. output' \in BOOLEAN
  BY DEF Inv, TypeOK, OutputOff, OutputOn
<1>3. UNCHANGED <<bufferVars, first_packet_timestamp, cursor, counted, inUse, resync,
                  now, top>>
  BY DEF OutputOff, OutputOn, bufferVars
<1>4. TypeOK'
  BY <1>1, <1>2, <1>3 DEF Inv, TypeOK, bufferVars
<1>5. top <= top'
  BY <1>3, Bounds DEF Inv, TypeOK, Packet, NULL
<1> QED
  BY <1>3, <1>4, <1>5, QuietKeeps DEF bufferVars

\* the passing of time,
LEMMA TickKeeps ==
  ASSUME Inv, WithinReach, Tick
  PROVE  Inv'
<1>1. TypeOK'
  BY Bounds DEF Inv, TypeOK, Tick, bufferVars
<1>2. top <= top'
  BY Bounds DEF Inv, TypeOK, Packet, NULL, Tick
<1> QED
  BY <1>1, <1>2, QuietKeeps DEF Tick, bufferVars

\* and doing nothing.
LEMMA StutterKeeps ==
  ASSUME Inv, WithinReach, UNCHANGED vars
  PROVE  Inv'
<1>1. TypeOK'
  BY DEF Inv, TypeOK, vars, bufferVars
<1>2. top <= top'
  BY Bounds DEF Inv, TypeOK, Packet, NULL, vars
<1> QED
  BY <1>1, <1>2, QuietKeeps DEF vars, bufferVars

\* The type of a slot.
Slot == [ready: BOOLEAN, sequence_number: SeqNo, timestamp: 0 .. MaxPacket,
         payload: Packet \union {NULL}]

\* The answer to a flush request leaves one of the right type.
LEMMA AnswerType ==
  ASSUME Inv, AnswerRequest
  PROVE  flush' \in [requested: BOOLEAN, timestamp: 0 .. MaxPacket, flushed: BOOLEAN]
<1>1. flush \in [requested: BOOLEAN, timestamp: 0 .. MaxPacket, flushed: BOOLEAN]
  BY DEF Inv, TypeOK
<1>2. FlushAll \/ NotEmptyAsInt \in BOOLEAN
  BY DEF FlushAll, NotEmptyAsInt, Inv, TypeOK
<1>3. CASE DropRequest
  BY <1>3, Sizes DEF AnswerRequest, NoRequest
<1>4. CASE ~DropRequest /\ flush.requested
  BY <1>1, <1>2, <1>4 DEF AnswerRequest
<1>5. CASE ~DropRequest /\ ~flush.requested
  BY <1>1, <1>5 DEF AnswerRequest
<1> QED
  BY <1>3, <1>4, <1>5

\* ab_resync keeps the invariant: it says nothing of the window any more.
LEMMA FlushBufferKeeps ==
  ASSUME Inv, WithinReach, FlushBuffer
  PROVE  Inv'
<1>1. slot \in [Slots -> Slot] /\ 0 \in SeqNo
  BY Sizes DEF Inv, TypeOK, Slot, SeqNo
<1>2. slot' \in [Slots -> Slot]
  BY <1>1 DEF FlushBuffer, ab_resync, Slot
<1>3. TypeOK'
  BY <1>2, AnswerType, Bounds DEF Inv, TypeOK, FlushBuffer, ab_resync, Slot
<1> QED
  BY <1>3 DEF FlushBuffer, ab_resync, Inv, InUseInv

\* Giving the frame back clears a slot outside the window.
LEMMA PlayFrameKeeps ==
  ASSUME Inv, WithinReach, PlayFrame
  PROVE  Inv'
<1>1. slot \in [Slots -> Slot] /\ 0 \in SeqNo /\ inUse \in Slots
  BY Sizes DEF Inv, TypeOK, Slot, SeqNo, PlayFrame
<1>2. slot' \in [Slots -> Slot]
  <2>1. slot[inUse] \in Slot
    BY <1>1
  <2>2. [slot[inUse] EXCEPT !.timestamp = 0, !.sequence_number = 0, !.payload = NULL]
          \in Slot
    BY <1>1, <2>1, Bounds DEF Slot
  <2> QED
    BY <1>1, <2>1, <2>2 DEF PlayFrame
<1>3. TypeOK'
  <2>1. resync' \in BOOLEAN
    BY DEF PlayFrame
  <2> QED
    BY <1>2, <2>1 DEF Inv, TypeOK, PlayFrame, Slot
<1>4. ab_synced /\ readN > 0 /\ inUse = SlotOf(readN - 1)
  BY DEF Inv, InUseInv, PlayFrame
<1>5. readN \in Nat /\ Fill \in Nat /\ ab_read = Seq(readN) /\ Fill < BufFrames
  BY <1>4, WindowFacts
<1>6. ASSUME NEW n \in readN + 0 .. readN + Fill - 1
      PROVE  slot'[SlotOf(n)] = slot[SlotOf(n)]
  <2>1. n \in Int /\ readN - 1 \in Int /\ n /= readN - 1
        /\ n - (readN - 1) < BufFrames /\ (readN - 1) - n < BufFrames
    BY <1>5, Sizes
  <2>2. SlotOf(n) /= inUse
    BY <1>4, <2>1, SlotsApart
  <2>3. SlotOf(n) \in Slots
    BY <2>1, SlotIn
  <2> QED
    BY <1>1, <2>2, <2>3 DEF PlayFrame
<1>7. top <= top' /\ top' \in Int /\ 0 \in 0 .. Fill /\ readN + 0 = readN
  BY <1>5, Sizes DEF Inv, TypeOK, Packet, NULL, PlayFrame
<1>8. PositionInv' /\ HoldInv' /\ CursorInv'
  BY <1>4, <1>5, <1>6, <1>7, WindowKept DEF PlayFrame
<1> QED
  BY <1>3, <1>8 DEF Inv, InUseInv, PlayFrame

\* The slot of packet n when it has arrived, and ab_write after it.
Arrived(n) ==
  [ready |-> TRUE, sequence_number |-> Seq(n), timestamp |-> n + 1, payload |-> n]

NextExpected(n) == IF n >= readN + Fill THEN n + 1 ELSE readN + Fill

\* An arrived packet is a slot,
LEMMA ArrivedType ==
  ASSUME NEW n \in Packet
  PROVE  Arrived(n) \in Slot
<1>1. n \in Int /\ n + 1 \in 0 .. MaxPacket
  BY Bounds DEF Packet
<1>2. Seq(n) \in SeqNo
  BY <1>1, SeqIn
<1> QED
  BY <1>1, <1>2 DEF Arrived, Slot

\* and so is one marked missing.
LEMMA MissingType ==
  ASSUME NEW s \in Slot
  PROVE  Missing(s) \in Slot
BY Bounds DEF Missing, Slot

\* A packet that may come is near enough to ab_read and ab_write for their signed
\* differences to be its distances: its wrapped number is never mistaken.
LEMMA AcceptWhere ==
  ASSUME Inv, WithinReach, ab_synced, NEW n \in Packet, MayCome(n)
  PROVE  /\ n \in Nat /\ readN \in Nat /\ Fill \in Nat /\ n < readN + MaxWindow
         /\ Fill <= MaxWindow /\ MaxWindow < BufFrames
         /\ Minus(Seq(n), ab_write) = n - (readN + Fill)
         /\ Minus(Seq(n), ab_read) = n - readN
<1>1. /\ readN \in Nat /\ Fill \in Nat /\ Fill <= MaxWindow
      /\ ab_read = Seq(readN) /\ ab_write = Seq(readN + Fill)
      /\ readN + Fill <= top + 1
  BY WindowFacts DEF Inv, PositionInv
<1>2. n \in Nat /\ top \in Int /\ MaxWindow \in Nat /\ MaxLate \in Nat
  BY Bounds DEF Inv, TypeOK, Packet, NULL
<1>3. top - MaxLate <= n /\ n < readN + MaxWindow
  BY DEF MayCome
<1>4. PICK w \in Nat : w = readN + Fill
  BY <1>1
<1>5. MaxWindow < BufFrames /\ 2 * (MaxLate + 1) <= SeqMod
  BY DEF WithinReach
<1>6. SeqMod \in Int /\ BufFrames \in Int /\ 2 * BufFrames <= SeqMod
  BY Sizes
<1>7. w - n <= MaxLate + 1 /\ n - w < BufFrames /\ readN - n <= MaxLate + 1
      /\ n - readN < BufFrames
  BY <1>1, <1>2, <1>3, <1>4, <1>5, <1>6
<1>8. /\ 2 * (w - n) <= SeqMod /\ 2 * (n - w) < SeqMod
      /\ 2 * (readN - n) <= SeqMod /\ 2 * (n - readN) < SeqMod
  BY <1>1, <1>2, <1>4, <1>5, <1>6, <1>7
<1>9. Minus(Seq(n), Seq(w)) = n - w
  BY <1>2, <1>4, <1>8, MinusIs
<1>10. Minus(Seq(n), Seq(readN)) = n - readN
  BY <1>1, <1>2, <1>8, MinusIs
<1> QED
  BY <1>1, <1>2, <1>3, <1>4, <1>5, <1>9, <1>10

\* Accept fills the packet's slot, marks those of the packets it skips missing and
\* leaves the slots of the other packets in the window, and the frame in use, alone.
LEMMA AcceptSlots ==
  ASSUME Inv, WithinReach, ab_synced, NEW n \in Packet, MayCome(n), Accept(n)
  PROVE  /\ ab_write' = Seq(NextExpected(n))
         /\ \A m \in readN - 1 .. NextExpected(n) - 1 :
              slot'[SlotOf(m)] = IF m = n /\ n >= readN THEN Arrived(n)
                                 ELSE IF m < readN + Fill THEN slot[SlotOf(m)]
                                 ELSE Missing(slot[SlotOf(m)])
<1>1. /\ n \in Nat /\ readN \in Nat /\ Fill \in Nat /\ n < readN + MaxWindow
      /\ Fill <= MaxWindow /\ MaxWindow < BufFrames
      /\ Minus(Seq(n), ab_write) = n - (readN + Fill)
      /\ Minus(Seq(n), ab_read) = n - readN
      /\ MaxWindow \in Nat /\ BufFrames \in Int
  BY AcceptWhere, Sizes
<1>2. PICK w \in Nat : w = readN + Fill
  BY <1>1
<1>3. ab_write = Seq(w) /\ ab_read = Seq(readN)
  BY <1>2, WindowFacts
<1>4. ab_write' = Seq(NextExpected(n))
  <2>1. n - w >= 0 <=> n >= w
    BY <1>1
  <2>2. Plus(Seq(n), 1) = Seq(n + 1)
    BY <1>1, PlusIs
  <2> QED
    BY <1>1, <1>2, <1>3, <2>1, <2>2 DEF Accept, NextExpected
<1> DEFINE skipped == {BUFIDX(ab_write + i) : i \in 0 .. n - w - 1}
<1>5. \A k \in Slots :
        slot'[k] = CASE n >= readN /\ k = SlotOf(n) -> Arrived(n)
                     [] k \in skipped \ {SlotOf(n)} -> Missing(slot[k])
                     [] OTHER -> slot[k]
  <2>1. BUFIDX(Seq(n)) = SlotOf(n)
    <3>1. BUFIDX(Seq(n) + 0) = SlotOf(n + 0)
      BY <1>1, IndexIs
    <3>2. Seq(n) + 0 = Seq(n) /\ n + 0 = n
      BY <1>1, SeqIn DEF SeqNo
    <3> QED
      BY <3>1, <3>2
  <2>2. n - w >= 0 \/ ~TooLate(Seq(n), ab_read) <=> n >= readN
    BY <1>1, <1>2 DEF TooLate
  <2> QED
    BY <1>1, <1>2, <2>1, <2>2 DEF Accept, Arrived
<1>6. \A m \in Int : SlotOf(m) \in skipped <=> \E i \in w .. n - 1 : SlotOf(m) = SlotOf(i)
  <2>1. \A i \in Int : BUFIDX(ab_write + i) = SlotOf(w + i)
    BY <1>3, IndexIs
  <2>2. \A i \in w .. n - 1 : i - w \in 0 .. n - w - 1 /\ w + (i - w) = i
    BY <1>1
  <2>3. \A i \in 0 .. n - w - 1 : w + i \in w .. n - 1
    BY <1>1
  <2> QED
    BY <2>1, <2>2, <2>3
<1> HIDE DEF skipped
<1>7. ASSUME NEW m \in readN - 1 .. NextExpected(n) - 1
      PROVE  slot'[SlotOf(m)] = IF m = n /\ n >= readN THEN Arrived(n)
                                ELSE IF m < w THEN slot[SlotOf(m)]
                                ELSE Missing(slot[SlotOf(m)])
  <2>1. /\ m \in Int /\ SlotOf(m) \in Slots /\ readN - 1 <= m
        /\ m < w \/ m <= n
    BY <1>1, <1>2, SlotIn DEF NextExpected
  <2>2. n >= readN => m - n < BufFrames /\ n - m < BufFrames
    BY <1>1, <1>2, <2>1
  <2>3. n >= readN /\ SlotOf(m) = SlotOf(n) => m = n
    BY <1>1, <2>1, <2>2, SlotsApart
  <2>4. SlotOf(m) \in skipped <=> w <= m /\ m < n
    <3>1. ASSUME NEW i \in w .. n - 1, SlotOf(m) = SlotOf(i)
          PROVE  i = m
      <4>1. i \in Int /\ m - i < BufFrames /\ i - m < BufFrames
        BY <1>1, <1>2, <2>1
      <4> QED
        BY <2>1, <3>1, <4>1, SlotsApart
    <3>2. w <= m /\ m < n => m \in w .. n - 1
      BY <1>1, <2>1
    <3>3. \A i \in w .. n - 1 : w <= i /\ i < n
      BY <1>1
    <3> QED
      BY <1>6, <2>1, <3>1, <3>2, <3>3
  <2>5. CASE m = n /\ n >= readN
    BY <1>5, <2>1, <2>5
  <2>6. CASE ~(m = n /\ n >= readN) /\ m < w
    BY <1>5, <2>1, <2>3, <2>4, <2>6
  <2>7. CASE ~(m = n /\ n >= readN) /\ m >= w
    <3>1. m < n /\ n >= readN
      BY <1>1, <1>2, <2>1, <2>7
    <3> QED
      BY <1>5, <2>1, <2>3, <2>4, <2>7, <3>1
  <2> QED
    BY <1>1, <1>2, <2>1, <2>5, <2>6, <2>7
<1> QED
  BY <1>2, <1>4, <1>7

\* So it keeps the invariant, in a stream,
LEMMA AcceptSynced ==
  ASSUME Inv, WithinReach, ab_synced, NEW n \in Packet, MayCome(n), Accept(n),
         top' = IF n > top THEN n ELSE top, inUse' = inUse
  PROVE  /\ PositionInv' /\ HoldInv' /\ CursorInv' /\ InUseInv'
         /\ readN' = readN /\ ab_read' = ab_read /\ ab_synced' /\ ab_write' \in SeqNo
         /\ Window' = readN .. NextExpected(n) - 1
<1>1. /\ n \in Nat /\ readN \in Nat /\ Fill \in Nat /\ n < readN + MaxWindow
      /\ Fill <= MaxWindow /\ MaxWindow < BufFrames
  BY AcceptWhere
<1>2. /\ MaxWindow \in Nat /\ BufFrames \in Int /\ SeqMod \in Int
      /\ 2 * BufFrames <= SeqMod /\ BufFrames > 0
  BY Sizes
<1>3. PICK w \in Nat : w = readN + Fill
  BY <1>1
<1>4. PICK v \in Nat : v = NextExpected(n)
  BY <1>1 DEF NextExpected
<1>5. /\ w <= v /\ readN <= v /\ v - readN <= MaxWindow
      /\ v = n + 1 \/ v = w
      /\ n < v /\ (n >= w => v = n + 1) /\ (n < w => v = w)
  BY <1>1, <1>2, <1>3, <1>4 DEF NextExpected
<1>6. ab_read' = ab_read /\ readN' = readN /\ ab_synced'
  BY DEF Accept
<1>7. /\ ab_write' = Seq(v)
      /\ \A m \in readN - 1 .. v - 1 :
           slot'[SlotOf(m)] = IF m = n /\ n >= readN THEN Arrived(n)
                              ELSE IF m < w THEN slot[SlotOf(m)]
                              ELSE Missing(slot[SlotOf(m)])
  BY <1>3, <1>4, AcceptSlots
<1>8. ab_read = Seq(readN) /\ w <= top + 1 /\ top \in Int
  BY <1>3, Bounds DEF Inv, PositionInv, TypeOK, Packet, NULL
<1>9. Fill' = v - readN
  <2>1. (Seq(v) - Seq(readN)) % SeqMod = v - readN
    BY <1>1, <1>2, <1>5, AheadIs
  <2> QED
    BY <1>6, <1>7, <1>8, <2>1 DEF Fill
<1>10. readN' + Fill' = v
  BY <1>1, <1>6, <1>9
<1>11. PositionInv'
  <2>1. v <= top' + 1
    BY <1>1, <1>5, <1>8
  <2> QED
    BY <1>5, <1>6, <1>7, <1>8, <1>9, <1>10, <2>1 DEF PositionInv
<1>17. Window' = readN .. v - 1
  BY <1>1, <1>5, <1>6, <1>9 DEF Window
<1>12. HoldInv'
  <2> SUFFICES ASSUME NEW m \in readN .. v - 1
               PROVE  LET s == slot'[SlotOf(m)] IN
                      IF s.ready
                      THEN s.payload = m /\ s.timestamp = m + 1 /\ s.sequence_number = Seq(m)
                      ELSE s.timestamp = 0
    BY <1>17 DEF HoldInv
  <2>1. m \in readN - 1 .. v - 1 /\ m >= readN
    BY <1>1
  <2>2. CASE m = n
    BY <1>7, <2>1, <2>2 DEF Arrived
  <2>3. CASE m /= n /\ m < w
    <3>1. slot'[SlotOf(m)] = slot[SlotOf(m)]
      BY <1>7, <2>1, <2>3
    <3>2. m \in Window
      BY <1>1, <1>3, <2>1, <2>3 DEF Window
    <3>3. HoldInv
      BY DEF Inv
    <3> QED
      BY <3>1, <3>2, <3>3 DEF HoldInv
  <2>4. CASE m /= n /\ ~(m < w)
    <3>1. slot'[SlotOf(m)] = Missing(slot[SlotOf(m)])
      BY <1>7, <2>1, <2>4
    <3>2. slot[SlotOf(m)] \in Slot
      BY <1>1, SlotIn DEF Inv, TypeOK, Slot
    <3>3. /\ ~Missing(slot[SlotOf(m)]).ready
          /\ Missing(slot[SlotOf(m)]).timestamp = 0
      BY <3>2 DEF Missing, Slot
    <3> QED
      BY <3>1, <3>3
  <2> QED
    BY <2>2, <2>3, <2>4
<1>13. CursorInv'
  <2>1. PICK p \in readN + Fill - MaxWindow .. readN + Fill :
          /\ cursor = Seq(p)
          /\ \A m \in readN .. p - 1 : slot[SlotOf(m)].ready
    BY DEF Inv, CursorInv
  <2>2. p \in Int /\ p <= w
    BY <1>1, <1>2, <1>3
  <2>3. Minus(cursor, Seq(readN)) = p - readN
    <3>1. 2 * (readN - p) <= SeqMod /\ 2 * (p - readN) < SeqMod
      BY <1>1, <1>2
    <3> QED
      BY <1>1, <2>1, <2>2, <3>1, MinusIs
  <2>4. ASSUME NEW i \in 0 .. (p - readN) - 1
        PROVE  slot'[SlotOf(readN + i)].ready
    <3>1. readN + i \in readN .. p - 1 /\ readN + i \in readN - 1 .. v - 1
          /\ readN + i < w
      BY <1>1, <1>5, <2>2
    <3>2. slot[SlotOf(readN + i)].ready
      BY <2>1, <3>1
    <3> QED
      BY <1>7, <3>1, <3>2 DEF Arrived
  <2>5. ResendCheck(slot', Seq(readN), Seq(v))
    BY <1>7, <1>8 DEF Accept
  <2>6. cursor \in Int
    BY <2>1, <2>2, SeqIn DEF SeqNo
  <2>7. PICK q \in readN .. v : /\ cursor' = Seq(q)
                                /\ \A m \in readN .. q - 1 : slot'[SlotOf(m)].ready
    <3>1. PICK c \in Int : c = p - readN
      BY <1>1, <2>2
    <3>2. readN <= v /\ v - readN < BufFrames
      BY <1>1, <1>2, <1>5
    <3> QED
      BY <1>1, <2>3, <2>4, <2>5, <2>6, <3>1, <3>2, ResendRight
  <2>8. q \in v - MaxWindow .. v
    BY <1>1, <1>2, <1>5
  <2>9. q \in readN' + Fill' - MaxWindow .. readN' + Fill'
    BY <1>1, <1>2, <1>5, <1>6, <1>9, <2>8
  <2> QED
    BY <1>6, <2>7, <2>9 DEF CursorInv
<1>14. InUseInv'
  <2> SUFFICES ASSUME inUse /= NULL
               PROVE  readN > 0 /\ inUse = SlotOf(readN - 1) /\ ~slot'[inUse].ready
    BY <1>6 DEF InUseInv
  <2>1. readN > 0 /\ inUse = SlotOf(readN - 1) /\ ~slot[inUse].ready
    BY DEF Inv, InUseInv
  <2>2. readN - 1 \in readN - 1 .. v - 1 /\ readN - 1 < w
        /\ ~(readN - 1 = n /\ n >= readN)
    BY <1>1, <1>3, <1>5
  <2>3. slot'[SlotOf(readN - 1)] = slot[SlotOf(readN - 1)]
    BY <1>7, <2>2
  <2> QED
    BY <2>1, <2>3
<1>15. ab_write' \in SeqNo
  BY <1>7, SeqIn
<1> QED
  BY <1>4, <1>6, <1>11, <1>12, <1>13, <1>14, <1>15, <1>17

\* and at its start, where the window is that packet alone.
LEMMA AcceptUnsynced ==
  ASSUME Inv, WithinReach, ~ab_synced, NEW n \in Packet, Accept(n),
         top' = IF n > top THEN n ELSE top, inUse' = inUse
  PROVE  /\ PositionInv' /\ HoldInv' /\ CursorInv' /\ InUseInv'
         /\ readN' = n /\ ab_read' = Seq(n) /\ ab_synced' /\ ab_write' = Seq(n + 1)
         /\ Fill' = 1 /\ slot'[SlotOf(n)] = Arrived(n)
<1>1. n \in Nat /\ MaxWindow \in Nat /\ MaxWindow > 0 /\ SeqMod \in Int /\ SeqMod > 1
      /\ BufFrames \in Int /\ BufFrames > 1
  BY Sizes DEF Packet, WithinReach
<1>2. ab_read' = Seq(n) /\ readN' = n /\ ab_synced'
  BY DEF Accept
<1>3. Minus(Seq(n), Seq(n)) = 0
  <2>1. 2 * (n - n) <= SeqMod /\ 2 * (n - n) < SeqMod /\ n - n = 0
    BY <1>1
  <2> QED
    BY <1>1, <2>1, MinusIs
<1>4. ab_write' = Seq(n + 1)
  BY <1>1, <1>3, PlusIs DEF Accept
<1>5. BUFIDX(Seq(n)) = SlotOf(n) /\ SlotOf(n) \in Slots
  <2>1. BUFIDX(Seq(n) + 0) = SlotOf(n + 0)
    BY <1>1, IndexIs
  <2>2. Seq(n) + 0 = Seq(n) /\ n + 0 = n
    BY <1>1, SeqIn DEF SeqNo
  <2> QED
    BY <1>1, <2>1, <2>2, SlotIn
<1>6. slot'[SlotOf(n)] = Arrived(n)
  BY <1>3, <1>5 DEF Accept, Arrived
<1>7. Fill' = 1
  <2>1. (Seq(n + 1) - Seq(n)) % SeqMod = (n + 1) - n
    BY <1>1, AheadIs
  <2> QED
    BY <1>1, <1>2, <1>4, <2>1 DEF Fill
<1>8. top' \in Int /\ n <= top'
  BY <1>1 DEF Inv, TypeOK, Packet, NULL
<1>9. PositionInv'
  BY <1>1, <1>2, <1>4, <1>7, <1>8 DEF PositionInv
<1>10. HoldInv'
  <2>1. \A m \in Window' : m = n
    BY <1>1, <1>2, <1>7 DEF Window
  <2> QED
    BY <1>6, <2>1 DEF HoldInv, Arrived
<1>11. CursorInv'
  <2>1. ResendCheck(slot', Seq(n), Seq(n + 1))
    BY <1>2, <1>4 DEF Accept
  <2>2. PICK c : c = Minus(cursor, Seq(n))
    OBVIOUS
  <2>3. \A i \in 0 .. c - 1 : c \in 0 .. (n + 1) - n - 1 => slot'[SlotOf(n + i)].ready
    BY <1>1
  <2>4. cursor \in Int
    BY Bounds DEF Inv, TypeOK, NULL, SeqNo
  <2>5. n \in Int /\ n + 1 \in Int /\ n <= n + 1 /\ (n + 1) - n < BufFrames
    BY <1>1
  <2>6. PICK q \in n .. n + 1 : /\ cursor' = Seq(q)
                                /\ \A m \in n .. q - 1 : slot'[SlotOf(m)].ready
    BY <2>1, <2>2, <2>3, <2>4, <2>5, ResendRight
  <2>7. q \in readN' + Fill' - MaxWindow .. readN' + Fill'
    BY <1>1, <1>2, <1>7
  <2> QED
    BY <1>2, <2>6, <2>7 DEF CursorInv
<1>12. InUseInv'
  BY DEF Inv, InUseInv
<1> QED
  BY <1>2, <1>4, <1>6, <1>7, <1>9, <1>10, <1>11, <1>12

\* player_put_packet keeps the invariant.
LEMMA PutKeeps ==
  ASSUME Inv, WithinReach, NEW n \in Packet, player_put_packet(n)
  PROVE  Inv'
<1>1. /\ n \in Nat /\ n < MaxPacket /\ top \in Int /\ top <= top'
      /\ top' \in Packet \union {NULL}
  BY Bounds DEF Inv, TypeOK, Packet, NULL, player_put_packet
<1>2. flush' \in [requested: BOOLEAN, timestamp: 0 .. MaxPacket, flushed: BOOLEAN]
  BY Bounds DEF Inv, TypeOK, player_put_packet
<1>3. UNCHANGED <<ab_buffering, output, inUse, resync, now>> /\ counted' = TRUE
  BY DEF player_put_packet
<1>4. CASE ~output
  <2>1. UNCHANGED <<slot, ab_read, ab_write, ab_synced, readN, first_packet_timestamp,
                    cursor>>
    BY <1>4 DEF player_put_packet
  <2>2. TypeOK'
    BY <1>1, <1>2, <1>3, <2>1 DEF Inv, TypeOK
  <2> QED
    BY <1>1, <1>3, <2>1, <2>2, QuietKeeps
<1>5. CASE output
  <2>1. Accept(n) /\ MayCome(n) /\ top' = (IF n > top THEN n ELSE top)
    BY <1>5 DEF player_put_packet
  <2>2. /\ PositionInv' /\ HoldInv' /\ CursorInv' /\ InUseInv'
        /\ readN' \in 0 .. MaxPacket /\ ab_read' \in SeqNo /\ ab_write' \in SeqNo
        /\ ab_synced' = TRUE
    <3>1. CASE ab_synced
      BY <1>3, <2>1, <3>1, AcceptSynced DEF Inv, TypeOK, Accept
    <3>2. CASE ~ab_synced
      BY <1>1, <1>3, <2>1, <3>2, AcceptUnsynced, SeqIn, Bounds DEF Accept
    <3> QED
      BY <3>1, <3>2
  <2>3. slot' \in [Slots -> Slot]
    <3>1. slot \in [Slots -> Slot]
      BY DEF Inv, TypeOK, Slot
    <3>2. Arrived(n) \in Slot /\ \A k \in Slots : Missing(slot[k]) \in Slot
      BY <3>1, ArrivedType, MissingType
    <3> QED
      BY <2>1, <3>1, <3>2 DEF Accept, Arrived
  <2>4. cursor' \in SeqNo \union {NULL}
    <3>1. PICK p \in readN' + Fill' - MaxWindow .. readN' + Fill' : cursor' = Seq(p)
      BY <2>2 DEF CursorInv
    <3>2. readN' \in Int /\ Fill' \in Int /\ MaxWindow \in Int
      BY <2>2, FillIn, Bounds DEF Fill
    <3> QED
      BY <3>1, SeqIn
  <2>5. first_packet_timestamp' \in 0 .. MaxPacket
    BY <2>1, Bounds DEF Accept, Inv, TypeOK
  <2>6. TypeOK'
    BY <1>1, <1>2, <1>3, <2>2, <2>3, <2>4, <2>5 DEF Inv, TypeOK, Slot
  <2> QED
    BY <2>2, <2>6 DEF Inv
<1> QED
  BY <1>4, <1>5 DEF Inv, TypeOK

\* A packet of the window that is ready has its own number, payload and timestamp;
\* one that is not has timestamp 0.
LEMMA HeldSlot ==
  ASSUME Inv, WithinReach, ab_synced, NEW i \in 0 .. Fill - 1
  PROVE  /\ At(i) = slot[SlotOf(readN + i)]
         /\ At(i).ready =>
              /\ At(i).payload = readN + i /\ At(i).timestamp = readN + i + 1
              /\ At(i).sequence_number = Seq(readN + i)
         /\ ~At(i).ready => At(i).timestamp = 0
<1>1. readN \in Nat /\ Fill \in Nat /\ At(i) = slot[SlotOf(readN + i)]
  BY WindowFacts
<1>2. readN + i \in Window
  BY <1>1 DEF Window
<1>3. HoldInv
  BY DEF Inv
<1> QED
  BY <1>1, <1>2, <1>3 DEF HoldInv

\* The scan of a flush inside the buffer stops within it, at the first packet that
\* does not end before the flush frame: the last packet is one.
LEMMA FlushScan ==
  ASSUME Inv, WithinReach, ab_synced, flush.requested, ~FlushAll, FlushInside
  PROVE  /\ Flushed \in 0 .. Fill - 1 /\ ~EndsBeforeFlush(At(Flushed))
         /\ \A i \in 0 .. Flushed - 1 : EndsBeforeFlush(At(i))
<1>1. Fill \in Nat /\ readN \in Nat
  BY WindowFacts
<1> DEFINE S == {i \in 0 .. Fill - 1 : ~EndsBeforeFlush(At(i))}
<1>2. Flushed = Min(S)
  BY DEF Flushed
<1>3. Fill > 0
  <2>1. ab_write > ab_read
    BY DEF FlushInside, Decidable, NotEmptyAsInt
  <2>2. ab_write \in Nat /\ ab_read \in Nat
    BY Bounds DEF Inv, TypeOK
  <2>3. ab_write /= ab_read
    BY <2>1, <2>2
  <2>4. readN + 0 = readN
    BY <1>1
  <2>5. ab_read = Seq(readN) /\ ab_write = Seq(readN + Fill)
    BY WindowFacts
  <2>6. Fill /= 0
    BY <2>3, <2>4, <2>5
  <2> QED
    BY <1>1, <2>6
<1>4. Fill - 1 \in S
  <2>1. At(Fill - 1).ready /\ flush.timestamp <= LastFrame(At(Fill - 1))
    BY DEF FlushInside, Decidable
  <2>2. Fill - 1 \in 0 .. Fill - 1
    BY <1>1, <1>3
  <2>3. At(Fill - 1).timestamp = readN + (Fill - 1) + 1
    BY <2>1, <2>2, HeldSlot
  <2>4. LastFrame(At(Fill - 1)) \in Int /\ At(Fill - 1).timestamp /= 0
        /\ flush.timestamp \in Int
    BY <1>1, <1>3, <2>3, BufferAssumption DEF LastFrame, Inv, TypeOK
  <2>5. ~EndsBeforeFlush(At(Fill - 1))
    BY <2>1, <2>4 DEF EndsBeforeFlush
  <2> QED
    BY <2>2, <2>5
<1>5. S \subseteq Nat /\ S \subseteq 0 .. Fill - 1
  BY <1>1
<1>6. /\ \A i \in 0 .. Fill - 1 : i \notin S => EndsBeforeFlush(At(i))
      /\ \A i \in S : ~EndsBeforeFlush(At(i))
  OBVIOUS
<1> HIDE DEF S
<1>7. Flushed \in S /\ \A i \in S : Flushed <= i
  BY <1>2, <1>4, <1>5, MinIs
<1>8. \A i \in 0 .. Flushed - 1 : i \in 0 .. Fill - 1 /\ i \notin S
  BY <1>1, <1>5, <1>7
<1> QED
  BY <1>5, <1>6, <1>7, <1>8

\* Whatever the request, what the scan drops ends before the flush frame.
LEMMA FlushedIs ==
  ASSUME Inv, WithinReach, ab_synced
  PROVE  /\ Flushed \in 0 .. Fill
         /\ Flushed > 0 => flush.requested /\ ~FlushAll /\ FlushInside /\ NotEmptyAsInt
         /\ \A i \in 0 .. Flushed - 1 : EndsBeforeFlush(At(i))
<1>1. Fill \in Nat
  BY WindowFacts
<1>2. CASE ~(flush.requested /\ ~FlushAll /\ FlushInside)
  <2>1. Flushed = 0
    BY <1>2 DEF Flushed
  <2> QED
    BY <1>1, <2>1
<1>3. CASE flush.requested /\ ~FlushAll /\ FlushInside
  BY <1>1, <1>3, FlushScan DEF FlushInside, Decidable
<1> QED
  BY <1>2, <1>3

\* The loop over late packets goes on from there, stops in the window, and passes
\* over nothing but packets that it may skip.
LEMMA SkippedIs ==
  ASSUME Inv, WithinReach, ab_synced
  PROVE  /\ Skipped \in 0 .. Fill /\ Flushed <= Skipped
         /\ \A i \in Flushed .. Skipped - 1 : MaySkip(At(i))
         /\ NotEmptyAsInt /\ Skipped < Fill => ~MaySkip(At(Skipped))
<1>1. /\ Fill \in Nat /\ Flushed \in 0 .. Fill
      /\ Flushed > 0 => NotEmptyAsInt
  BY WindowFacts, FlushedIs
<1>2. CASE ~NotEmptyAsInt
  <2>1. Skipped = 0 /\ Flushed = 0
    BY <1>1, <1>2 DEF Skipped
  <2> QED
    BY <1>1, <1>2, <2>1
<1>3. CASE NotEmptyAsInt
  <2> DEFINE S == {i \in Flushed .. Fill : i = Fill \/ ~MaySkip(At(i))}
  <2>1. Skipped = Min(S)
    BY <1>3 DEF Skipped
  <2>2. Fill \in S
    BY <1>1
  <2>3. S \subseteq Nat /\ S \subseteq Flushed .. Fill
    BY <1>1
  <2>4. \A i \in Flushed .. Fill : i \notin S => MaySkip(At(i))
    OBVIOUS
  <2>5. \A i \in S : i = Fill \/ ~MaySkip(At(i))
    OBVIOUS
  <2> HIDE DEF S
  <2>6. Skipped \in S /\ \A i \in S : Skipped <= i
    BY <2>1, <2>2, <2>3, MinIs
  <2>7. \A i \in Flushed .. Skipped - 1 : i \in Flushed .. Fill /\ i \notin S
    BY <1>1, <2>3, <2>6
  <2>8. Skipped \in Flushed .. Fill
    BY <2>3, <2>6
  <2> QED
    BY <1>1, <2>4, <2>5, <2>6, <2>7, <2>8
<1> QED
  BY <1>2, <1>3

\* Without a stream nothing is skipped.
LEMMA UnsyncedSkip ==
  ASSUME ~ab_synced
  PROVE  Flushed = 0 /\ Skipped = 0
BY DEF Flushed, Skipped, FlushInside, Decidable, NotEmptyAsInt

\* Skipping a packet frees its payload and leaves the rest of its slot,
LEMMA SlotsAfterSkipType ==
  ASSUME Inv
  PROVE  /\ SlotsAfterSkip \in [Slots -> Slot]
         /\ \A k \in Slots : /\ SlotsAfterSkip[k].ready = slot[k].ready
                             /\ SlotsAfterSkip[k].timestamp = slot[k].timestamp
                             /\ SlotsAfterSkip[k].sequence_number = slot[k].sequence_number
<1>1. slot \in [Slots -> Slot]
  BY DEF Inv, TypeOK, Slot
<1>2. \A s \in Slot : /\ [s EXCEPT !.payload = NULL] \in Slot
                      /\ [s EXCEPT !.payload = NULL].ready = s.ready
                      /\ [s EXCEPT !.payload = NULL].timestamp = s.timestamp
                      /\ [s EXCEPT !.payload = NULL].sequence_number = s.sequence_number
  BY DEF Slot
<1>3. ASSUME NEW k \in Slots
      PROVE  \/ SlotsAfterSkip[k] = slot[k]
             \/ SlotsAfterSkip[k] = [slot[k] EXCEPT !.payload = NULL]
  BY DEF SlotsAfterSkip
<1>4. SlotsAfterSkip \in [Slots -> Slot]
  <2>1. \A k \in Slots : SlotsAfterSkip[k] \in Slot
    BY <1>1, <1>2, <1>3
  <2>2. SlotsAfterSkip = [k \in Slots |-> SlotsAfterSkip[k]]
    BY DEF SlotsAfterSkip
  <2> QED
    BY <2>1, <2>2
<1> QED
  BY <1>1, <1>2, <1>3, <1>4

\* and does not touch the slots of other packets.
LEMMA SlotsAfterSkipKeeps ==
  ASSUME Inv, WithinReach, ab_synced,
         NEW n \in Int, n >= readN + Skipped \/ n < readN, n < readN + BufFrames,
         n >= readN + Fill - BufFrames
  PROVE  SlotsAfterSkip[SlotOf(n)] = slot[SlotOf(n)]
<1>1. /\ readN \in Nat /\ Fill \in Nat /\ Fill < BufFrames /\ BufFrames \in Int
      /\ \A i \in Int : BUFIDX(ab_read + i) = SlotOf(readN + i)
  BY WindowFacts, Sizes
<1>2. Skipped \in 0 .. Fill /\ Flushed \in 0 .. Fill
  BY SkippedIs, FlushedIs
<1> DEFINE late == {BUFIDX(ab_read + i) : i \in Flushed .. Skipped - 1}
<1>3. SlotOf(n) \in Slots
  BY SlotIn
<1>4. SlotOf(n) \notin late
  <2> SUFFICES ASSUME NEW i \in Flushed .. Skipped - 1, SlotOf(n) = BUFIDX(ab_read + i)
               PROVE  FALSE
    OBVIOUS
  <2>1. i \in Int /\ 0 <= i /\ i < Skipped
    BY <1>2
  <2>2. readN + i \in Int /\ SlotOf(n) = SlotOf(readN + i)
    BY <1>1, <2>1
  <2>3. n - (readN + i) < BufFrames /\ (readN + i) - n < BufFrames /\ n /= readN + i
    BY <1>1, <1>2, <2>1
  <2> QED
    BY <2>2, <2>3, SlotsApart
<1> QED
  BY <1>3, <1>4 DEF SlotsAfterSkip

\* The slot buffer_get_frame looks at is that of its packet: the code's check that
\* its sequence number is the one expected never fails.
LEMMA NeverAliased ==
  ASSUME Inv, WithinReach, ab_synced, Skipped < Fill
  PROVE  /\ Plus(ab_read, Skipped) = Seq(readN + Skipped)
         /\ BUFIDX(Plus(ab_read, Skipped)) = SlotOf(readN + Skipped)
         /\ SlotsAfterSkip[SlotOf(readN + Skipped)] = slot[SlotOf(readN + Skipped)]
         /\ ~Aliased(Plus(ab_read, Skipped))
<1>1. /\ readN \in Nat /\ Fill \in Nat /\ Fill < BufFrames /\ ab_read = Seq(readN)
      /\ Skipped \in 0 .. Fill /\ BufFrames \in Int
  BY WindowFacts, SkippedIs, Sizes
<1>2. PICK n \in Int : n = readN + Skipped
  BY <1>1
<1>3. Plus(ab_read, Skipped) = Seq(n)
  BY <1>1, <1>2, PlusIs
<1>4. BUFIDX(Seq(n)) = SlotOf(n)
  <2>1. BUFIDX(Seq(n) + 0) = SlotOf(n + 0)
    BY IndexIs
  <2>2. Seq(n) + 0 = Seq(n) /\ n + 0 = n
    BY SeqIn DEF SeqNo
  <2> QED
    BY <2>1, <2>2
<1>5. SlotsAfterSkip[SlotOf(n)] = slot[SlotOf(n)]
  <2>1. n >= readN + Skipped /\ n < readN + BufFrames /\ n >= readN + Fill - BufFrames
    BY <1>1, <1>2
  <2> QED
    BY <2>1, SlotsAfterSkipKeeps
<1>6. slot[SlotOf(n)].ready => slot[SlotOf(n)].sequence_number = Seq(n)
  <2>1. n \in Window
    BY <1>1, <1>2 DEF Window
  <2> QED
    BY <2>1 DEF Inv, HoldInv
<1>7. ~Aliased(Seq(n))
  BY <1>4, <1>5, <1>6 DEF Aliased
<1> QED
  BY <1>2, <1>3, <1>4, <1>5, <1>7

\* The packet a pass of buffer_get_frame comes to, after those it skips;
Frame == readN + Skipped

\* the pass takes it,
Taken ==
  LET cur == SlotsAfterSkip[SlotOf(Frame)] IN
  /\ readN' = Frame + 1 /\ ab_read' = Seq(Frame + 1)
  /\ slot' = [SlotsAfterSkip EXCEPT ![SlotOf(Frame)] =
                [@ EXCEPT !.ready = FALSE,
                          !.timestamp = IF cur.ready THEN cur.timestamp ELSE 0]]
  /\ inUse' = SlotOf(Frame) /\ resync' = FALSE

\* or leaves it for a later pass.
Left ==
  /\ readN' = Frame /\ ab_read' = Seq(Frame) /\ slot' = SlotsAfterSkip
  /\ UNCHANGED <<inUse, resync>>

\* These are the two outcomes of a pass that finds a packet.
LEMMA LookAtFrameIs ==
  ASSUME Inv, WithinReach, LookAtFrame
  PROVE  /\ ab_synced /\ inUse = NULL /\ Skipped \in 0 .. Fill - 1 /\ ~FlushNeeded
         /\ AnswerRequest
         /\ UNCHANGED <<ab_write, ab_synced, cursor, counted, output, now, top>>
         /\ Taken \/ Left
         /\ first_packet_timestamp' \in 0 .. MaxPacket /\ ab_buffering' \in BOOLEAN
<1>1. ab_synced /\ inUse = NULL /\ Skipped < Fill /\ ~FlushNeeded /\ AnswerRequest
      /\ UNCHANGED <<ab_write, ab_synced, cursor, counted, output, now, top>>
  BY DEF LookAtFrame
<1>2. Skipped \in 0 .. Fill /\ readN \in Nat /\ Fill \in Nat
  BY <1>1, SkippedIs, WindowFacts
<1>3. PICK s : s = Plus(ab_read, Skipped)
  OBVIOUS
<1>4. /\ s = Seq(Frame) /\ BUFIDX(s) = SlotOf(Frame) /\ ~Aliased(s)
      /\ SlotsAfterSkip[SlotOf(Frame)] = slot[SlotOf(Frame)]
      /\ Frame \in Nat /\ readN + Skipped = Frame /\ 1 + Frame = Frame + 1
  BY <1>1, <1>2, <1>3, NeverAliased DEF Frame
<1>5. Plus(s, 1) = Seq(Frame + 1)
  BY <1>4, PlusIs
<1>6. Taken \/ Left
  BY <1>3, <1>4, <1>5 DEF LookAtFrame, Taken, Left
<1>7. slot[SlotOf(Frame)] \in Slot
  BY <1>4, SlotIn DEF Inv, TypeOK, Slot
<1>8. first_packet_timestamp' \in 0 .. MaxPacket
  BY <1>3, <1>4, <1>7, Bounds DEF LookAtFrame, Inv, TypeOK, Slot
<1>9. ab_buffering' \in BOOLEAN
  <2>1. ab_buffering \in BOOLEAN /\ resync \in BOOLEAN
    BY DEF Inv, TypeOK
  <2>2. \/ ab_buffering' \in {FALSE} \/ ab_buffering' \in BOOLEAN
        \/ ab_buffering' \in {ab_buffering \/ resync}
    BY DEF LookAtFrame
  <2> QED
    BY <2>1, <2>2
<1> QED
  BY <1>1, <1>2, <1>6, <1>8, <1>9

\* A pass moves the player on, over what it skips and at most one packet more, and
\* keeps the slots of the packets that are left.
LEMMA LookAdvances ==
  ASSUME Inv, WithinReach, ab_synced, LookAtFrame \/ LookAtNothing
  PROVE  \E i \in 0 .. Fill :
           /\ Skipped <= i /\ i <= Skipped + 1
           /\ readN' = readN + i /\ ab_read' = Seq(readN + i)
           /\ \A n \in readN + i .. readN + Fill - 1 : slot'[SlotOf(n)] = slot[SlotOf(n)]
<1>1. /\ readN \in Nat /\ Fill \in Nat /\ Fill < BufFrames /\ BufFrames \in Int
      /\ ab_read = Seq(readN) /\ Skipped \in 0 .. Fill
  BY WindowFacts, SkippedIs, Sizes
<1>2. Frame \in Nat /\ Frame = readN + Skipped
  BY <1>1 DEF Frame
<1>3. ASSUME NEW n \in Frame .. readN + Fill - 1
      PROVE  n \in Int /\ SlotOf(n) \in Slots /\ SlotsAfterSkip[SlotOf(n)] = slot[SlotOf(n)]
  <2>1. /\ n \in Int /\ n >= readN + Skipped /\ n < readN + BufFrames
        /\ n >= readN + Fill - BufFrames
    BY <1>1, <1>2
  <2> QED
    BY <2>1, SlotIn, SlotsAfterSkipKeeps
<1>4. ASSUME readN' = Frame, ab_read' = Seq(Frame), slot' = SlotsAfterSkip
      PROVE  /\ readN' = readN + Skipped /\ ab_read' = Seq(readN + Skipped)
             /\ \A n \in readN + Skipped .. readN + Fill - 1 : slot'[SlotOf(n)] = slot[SlotOf(n)]
  BY <1>2, <1>3, <1>4
<1>5. CASE LookAtNothing
  <2>1. ab_read' = Seq(readN + Skipped)
    BY <1>1, <1>5, PlusIs DEF LookAtNothing
  <2> QED
    BY <1>1, <1>2, <1>4, <1>5, <2>1 DEF LookAtNothing
<1>6. CASE LookAtFrame /\ Left
  BY <1>1, <1>4, <1>6 DEF Left
<1>7. CASE LookAtFrame /\ Taken
  <2>1. PICK i \in 0 .. Fill : i = Skipped + 1
    BY <1>1, <1>7, LookAtFrameIs
  <2>2. readN' = readN + i /\ ab_read' = Seq(readN + i)
    <3>1. Frame + 1 = readN + i
      BY <1>1, <1>2, <2>1
    <3> QED
      BY <1>7, <3>1 DEF Taken
  <2>3. ASSUME NEW n \in readN + i .. readN + Fill - 1
        PROVE  slot'[SlotOf(n)] = slot[SlotOf(n)]
    <3>1. /\ n \in Frame .. readN + Fill - 1 /\ n \in Int /\ n /= Frame
          /\ n - Frame < BufFrames /\ Frame - n < BufFrames
      BY <1>1, <1>2, <2>1
    <3>2. SlotOf(n) /= SlotOf(Frame)
      BY <1>2, <3>1, SlotsApart
    <3> QED
      BY <1>3, <1>7, <3>1, <3>2, SlotsAfterSkipType DEF Taken
  <2> QED
    BY <1>1, <2>1, <2>2, <2>3
<1> QED
  BY <1>5, <1>6, <1>7, LookAtFrameIs

\* A pass that finds nothing keeps the invariant,
LEMMA LookAtNothingKeeps ==
  ASSUME Inv, WithinReach, LookAtNothing
  PROVE  Inv'
<1>1. UNCHANGED <<ab_write, ab_synced, ab_buffering, first_packet_timestamp, cursor,
                  counted, output, inUse, resync, now, top>>
      /\ inUse = NULL /\ readN' = readN + Skipped /\ ab_read' = Plus(ab_read, Skipped)
      /\ slot' \in [Slots -> Slot]
      /\ flush' \in [requested: BOOLEAN, timestamp: 0 .. MaxPacket, flushed: BOOLEAN]
  BY SlotsAfterSkipType, AnswerType DEF LookAtNothing
<1>2. readN \in 0 .. MaxPacket /\ ab_read \in Int /\ top <= top' /\ top' \in Int
  BY <1>1, Bounds DEF Inv, TypeOK, Packet, NULL
<1>3. CASE ab_synced
  <2>1. /\ readN \in Nat /\ Fill \in Nat /\ readN + Fill <= MaxPacket
    BY <1>3, WindowFacts
  <2>2. PICK i \in 0 .. Fill :
          /\ readN' = readN + i /\ ab_read' = Seq(readN + i)
          /\ \A n \in readN + i .. readN + Fill - 1 : slot'[SlotOf(n)] = slot[SlotOf(n)]
    BY <1>3, LookAdvances
  <2>3. ab_read' \in SeqNo /\ readN' \in 0 .. MaxPacket
    BY <2>1, <2>2, SeqIn, Bounds
  <2>4. PositionInv' /\ HoldInv' /\ CursorInv'
    BY <1>1, <1>2, <1>3, <2>2, WindowKept
  <2> QED
    BY <1>1, <2>3, <2>4 DEF Inv, InUseInv, TypeOK, Slot
<1>4. CASE ~ab_synced
  <2>1. Skipped = 0
    BY <1>4, UnsyncedSkip
  <2>2. PICK r \in Int : r = ab_read + 0
    BY <1>2
  <2>3. (r % SeqMod) \in SeqNo
    BY Sizes, ModRange DEF SeqNo
  <2>4. ab_read' \in SeqNo /\ readN' \in 0 .. MaxPacket
    BY <1>1, <1>2, <2>1, <2>2, <2>3 DEF Plus
  <2> QED
    BY <1>1, <1>4, <2>4 DEF Inv, InUseInv, TypeOK, Slot
<1> QED
  BY <1>3, <1>4

\* and so does one that finds a packet.
LEMMA LookAtFrameKeeps ==
  ASSUME Inv, WithinReach, LookAtFrame
  PROVE  Inv'
<1>1. /\ ab_synced /\ inUse = NULL /\ Skipped \in 0 .. Fill - 1
      /\ AnswerRequest
      /\ UNCHANGED <<ab_write, ab_synced, cursor, counted, output, now, top>>
      /\ Taken \/ Left
      /\ first_packet_timestamp' \in 0 .. MaxPacket /\ ab_buffering' \in BOOLEAN
  BY LookAtFrameIs
<1>2. readN \in Nat /\ Fill \in Nat /\ readN + Fill <= MaxPacket
  BY <1>1, WindowFacts
<1>3. Frame \in Nat /\ SlotOf(Frame) \in Slots
  BY <1>1, <1>2, SlotIn DEF Frame
<1>4. PICK i \in 0 .. Fill :
        /\ readN' = readN + i /\ ab_read' = Seq(readN + i)
        /\ \A n \in readN + i .. readN + Fill - 1 : slot'[SlotOf(n)] = slot[SlotOf(n)]
  BY <1>1, LookAdvances
<1>5. top <= top' /\ top' \in Int
  BY <1>1, Bounds DEF Inv, TypeOK, Packet, NULL
<1>6. PositionInv' /\ HoldInv' /\ CursorInv'
  BY <1>1, <1>4, <1>5, WindowKept
<1>7. SlotsAfterSkip \in [Slots -> Slot]
  BY SlotsAfterSkipType
<1>8. /\ readN' \in 0 .. MaxPacket /\ ab_read' \in SeqNo
      /\ flush' \in [requested: BOOLEAN, timestamp: 0 .. MaxPacket, flushed: BOOLEAN]
  BY <1>1, <1>2, <1>4, AnswerType, SeqIn, Bounds
<1>9. CASE Left
  BY <1>1, <1>6, <1>7, <1>8, <1>9 DEF Inv, InUseInv, TypeOK, Left, Slot
<1>10. CASE Taken
  <2>1. slot' \in [Slots -> Slot] /\ ~slot'[SlotOf(Frame)].ready
    <3>1. SlotsAfterSkip[SlotOf(Frame)] \in Slot
      BY <1>3, <1>7
    <3> DEFINE s == SlotsAfterSkip[SlotOf(Frame)]
               t == IF s.ready THEN s.timestamp ELSE 0
               new == [s EXCEPT !.ready = FALSE, !.timestamp = t]
    <3>2. t \in 0 .. MaxPacket
      BY <3>1, Bounds DEF Slot
    <3>3. new \in Slot /\ ~new.ready
      <4> HIDE DEF t
      <4> QED
        BY <3>1, <3>2 DEF Slot
    <3>4. slot' = [SlotsAfterSkip EXCEPT ![SlotOf(Frame)] = new]
      BY <1>10 DEF Taken
    <3> HIDE DEF new
    <3> QED
      BY <1>3, <1>7, <3>3, <3>4
  <2>2. readN' > 0 /\ readN' - 1 = Frame
    BY <1>3, <1>10 DEF Taken
  <2>3. TypeOK'
    BY <1>1, <1>3, <1>8, <1>10, <2>1 DEF Inv, TypeOK, Taken, Slot
  <2>4. InUseInv'
    BY <1>1, <1>10, <2>1, <2>2 DEF InUseInv, Taken
  <2> QED
    BY <1>6, <2>3, <2>4 DEF Inv
<1> QED
  BY <1>1, <1>9, <1>10

\* The invariant holds at first,
LEMMA InitInv == Init => Inv
<1> SUFFICES ASSUME Init
             PROVE  Inv
  OBVIOUS
<1>1. EmptySlot \in Slot
  BY Bounds DEF EmptySlot, Slot
<1>2. slot \in [Slots -> Slot]
  BY <1>1 DEF Init
<1>3. flush \in [requested: BOOLEAN, timestamp: 0 .. MaxPacket, flushed: BOOLEAN]
  BY Bounds DEF Init, NoRequest
<1>4. /\ ab_read \in SeqNo /\ ab_write \in SeqNo /\ readN \in 0 .. MaxPacket
      /\ first_packet_timestamp \in 0 .. MaxPacket /\ cursor \in SeqNo \union {NULL}
      /\ inUse \in Slots \union {NULL} /\ now \in 0 .. MaxTime
      /\ top \in Packet \union {NULL}
  BY Bounds DEF Init
<1>5. /\ ab_synced \in BOOLEAN /\ ab_buffering \in BOOLEAN /\ counted \in BOOLEAN
      /\ output \in BOOLEAN /\ resync \in BOOLEAN
  BY DEF Init
<1>6. TypeOK
  BY <1>2, <1>3, <1>4, <1>5 DEF TypeOK, Slot
<1> QED
  BY <1>6 DEF Init, Inv, InUseInv

\* every step keeps it,
LEMMA NextInv == Inv /\ WithinReach /\ [Next]_vars => Inv'
<1> SUFFICES ASSUME Inv, WithinReach, [Next]_vars
             PROVE  Inv'
  OBVIOUS
<1>1. ASSUME NEW n \in Packet, player_put_packet(n)
      PROVE  Inv'
  BY <1>1, PutKeeps
<1>2. ASSUME NEW timestamp \in 0 .. MaxPacket, do_flush(timestamp)
      PROVE  Inv'
  BY <1>2, DoFlushKeeps
<1>3. CASE OutputOff \/ OutputOn
  BY <1>3, OutputKeeps
<1>4. CASE buffer_get_frame
  BY <1>4, FlushBufferKeeps, LookAtFrameKeeps, LookAtNothingKeeps DEF buffer_get_frame
<1>5. CASE PlayFrame
  BY <1>5, PlayFrameKeeps
<1>6. CASE Tick
  BY <1>6, TickKeeps
<1>7. CASE UNCHANGED vars
  BY <1>7, StutterKeeps
<1> QED
  BY <1>1, <1>2, <1>3, <1>4, <1>5, <1>6, <1>7 DEF Next

\* and so it always holds.
LEMMA Invariance ==
  ASSUME WithinReach
  PROVE  Spec => []Inv
<1>1. Inv /\ [Next]_vars => Inv'
  BY NextInv
<1> QED
  BY <1>1, InitInv, PTL DEF Spec

\* Every variable keeps its type: in particular no index leaves the ring, however
\* often the sequence numbers wrap (player_put_packet, buffer_get_frame).
THEOREM TypeCorrect ==
  ASSUME WithinReach
  PROVE  Spec => []TypeOK
<1>1. Inv => TypeOK
  BY DEF Inv
<1> QED
  BY <1>1, Invariance, PTL

\* What the run checks of the buffer follows from the invariant.
LEMMA InvImpliesKept ==
  ASSUME Inv, WithinReach
  PROVE  BufferKept
<1>1. WindowHoldsItsPackets
  <2> SUFFICES ASSUME ab_synced
               PROVE  /\ ab_read = Seq(readN)
                      /\ Fill <= BufFrames
                      /\ \A i \in 0 .. Fill - 1 :
                           At(i).ready => /\ At(i).payload = readN + i
                                          /\ At(i).timestamp = readN + i + 1
                                          /\ At(i).sequence_number = Plus(ab_read, i)
    BY DEF WindowHoldsItsPackets
  <2>1. readN \in Nat /\ Fill \in Nat /\ Fill < BufFrames /\ ab_read = Seq(readN)
        /\ BufFrames \in Int
    BY WindowFacts, Sizes
  <2>2. \A i \in Int : Plus(ab_read, i) = Seq(readN + i)
    BY <2>1, PlusIs
  <2> QED
    BY <2>1, <2>2, HeldSlot
<1>2. CursorCoversMissing
  <2> SUFFICES ASSUME ab_synced, Minus(cursor, ab_read) \in 0 .. Fill,
                      NEW i \in 0 .. Minus(cursor, ab_read) - 1
               PROVE  At(i).ready
    BY DEF CursorCoversMissing
  <2>1. /\ readN \in Nat /\ Fill \in Nat /\ ab_read = Seq(readN) /\ Fill <= MaxWindow
        /\ MaxWindow \in Nat /\ MaxWindow < BufFrames /\ BufFrames \in Int
        /\ SeqMod \in Int /\ 2 * BufFrames <= SeqMod
        /\ \A j \in Int : At(j) = slot[SlotOf(readN + j)]
    BY WindowFacts, Sizes DEF Inv, PositionInv, WithinReach
  <2>2. PICK p \in readN + Fill - MaxWindow .. readN + Fill :
          /\ cursor = Seq(p)
          /\ \A n \in readN .. p - 1 : slot[SlotOf(n)].ready
    BY DEF Inv, CursorInv
  <2>3. Minus(cursor, ab_read) = p - readN
    <3>1. p \in Int /\ 2 * (readN - p) <= SeqMod /\ 2 * (p - readN) < SeqMod
      BY <2>1
    <3> QED
      BY <2>1, <2>2, <3>1, MinusIs
  <2>4. i \in Int /\ readN + i \in readN .. p - 1
    BY <2>1, <2>3
  <2> QED
    BY <2>1, <2>2, <2>4
<1> QED
  BY <1>1, <1>2 DEF BufferKept

\* Each slot between ab_read and ab_write holds the packet with that number or is
\* marked missing, and what check_for_resend will not look at again has arrived:
\* through wraps, gaps, late and repeated packets, flushes and restarts.
THEOREM BufferStaysRight ==
  ASSUME WithinReach
  PROVE  Spec => []BufferKept
<1>1. Inv => BufferKept
  BY InvImpliesKept
<1> QED
  BY <1>1, Invariance, PTL

\* The packets held are those of the window that are ready.
InWindow == {n \in Window : slot[SlotOf(n)].ready}

\* Held, in these words,
LEMMA HeldIs ==
  Inv /\ WithinReach => (ab_synced => Held = InWindow) /\ (~ab_synced => Held = {})
<1> SUFFICES ASSUME Inv, WithinReach, ab_synced
             PROVE  Held = InWindow
  BY DEF Held
<1>1. readN \in Nat /\ Fill \in Nat /\ \A i \in Int : At(i) = slot[SlotOf(readN + i)]
  BY WindowFacts
<1>2. ASSUME NEW n \in InWindow
      PROVE  n \in Held
  <2>1. n - readN \in 0 .. Fill - 1 /\ readN + (n - readN) = n /\ slot[SlotOf(n)].ready
    BY <1>1 DEF InWindow, Window
  <2>2. At(n - readN) = slot[SlotOf(n)]
    BY <1>1, <2>1
  <2> QED
    BY <2>1, <2>2 DEF Held
<1>3. ASSUME NEW n \in Held
      PROVE  n \in InWindow
  <2>1. PICK i \in 0 .. Fill - 1 : n = readN + i /\ At(i).ready
    BY DEF Held
  <2>2. n \in Window /\ At(i) = slot[SlotOf(n)]
    BY <1>1, <2>1 DEF Window
  <2> QED
    BY <2>1, <2>2 DEF InWindow
<1> QED
  BY <1>2, <1>3

\* and after a step.
LEMMA HeldIsNext ==
  ASSUME Inv', WithinReach
  PROVE  (ab_synced' => Held' = InWindow') /\ (~ab_synced' => Held' = {})
<1>1. (Inv /\ WithinReach => (ab_synced => Held = InWindow) /\ (~ab_synced => Held = {}))'
  BY HeldIs, PTL
<1> QED
  BY <1>1

\* A pass of buffer_get_frame loses no packet but those it moves on over.
LEMMA LookHeld ==
  ASSUME Inv, WithinReach, ab_synced, LookAtFrame \/ LookAtNothing
  PROVE  /\ ab_synced' /\ readN \in Nat /\ readN' \in Nat
         /\ readN + Skipped <= readN' /\ readN' <= readN + Skipped + 1
         /\ Held' = {n \in Held : n >= readN'}
<1>1. Inv' /\ ab_synced' /\ cursor' = cursor /\ ab_write' = ab_write /\ top' = top
  BY LookAtFrameKeeps, LookAtNothingKeeps DEF LookAtFrame, LookAtNothing
<1>2. /\ readN \in Nat /\ Fill \in Nat /\ Skipped \in 0 .. Fill /\ top \in Int
  BY WindowFacts, SkippedIs, Bounds DEF Inv, TypeOK, Packet, NULL
<1>3. PICK i \in 0 .. Fill :
        /\ Skipped <= i /\ i <= Skipped + 1
        /\ readN' = readN + i /\ ab_read' = Seq(readN + i)
        /\ \A n \in readN + i .. readN + Fill - 1 : slot'[SlotOf(n)] = slot[SlotOf(n)]
  BY LookAdvances
<1>4. Window' = readN + i .. readN + Fill - 1
  BY <1>1, <1>2, <1>3, WindowKept
<1>5. InWindow' = {n \in InWindow : n >= readN'}
  <2>1. \A n \in readN + i .. readN + Fill - 1 : n \in Window /\ n >= readN'
    BY <1>2, <1>3 DEF Window
  <2>2. \A n \in Window : n >= readN' => n \in readN + i .. readN + Fill - 1
    BY <1>2, <1>3 DEF Window
  <2> QED
    BY <1>3, <1>4, <2>1, <2>2 DEF InWindow
<1> QED
  BY <1>1, <1>2, <1>3, <1>5, HeldIs, HeldIsNext

\* The frame in use is not overwritten while the player holds it: this is why the
\* slot just behind ab_read must stay out of reach.
LEMMA FrameKept ==
  ASSUME Inv, WithinReach, [Next]_vars, inUse /= NULL
  PROVE  slot'[inUse] = slot[inUse] \/ inUse' = NULL
<1>1. ASSUME NEW n \in Packet, player_put_packet(n)
      PROVE  slot'[inUse] = slot[inUse]
  <2>1. ab_synced /\ inUse = SlotOf(readN - 1)
    BY DEF Inv, InUseInv
  <2>2. CASE ~output
    BY <1>1, <2>2 DEF player_put_packet
  <2>3. CASE output
    <3>1. Accept(n) /\ MayCome(n)
      BY <1>1, <2>3 DEF player_put_packet
    <3>2. \A m \in readN - 1 .. NextExpected(n) - 1 :
            slot'[SlotOf(m)] = IF m = n /\ n >= readN THEN Arrived(n)
                               ELSE IF m < readN + Fill THEN slot[SlotOf(m)]
                               ELSE Missing(slot[SlotOf(m)])
      BY <2>1, <3>1, AcceptSlots
    <3>3. readN \in Nat /\ Fill \in Nat /\ n \in Nat
      BY <2>1, <3>1, AcceptWhere
    <3>4. /\ readN - 1 \in readN - 1 .. NextExpected(n) - 1
          /\ ~(readN - 1 = n /\ n >= readN) /\ readN - 1 < readN + Fill
      BY <3>3 DEF NextExpected
    <3> QED
      BY <2>1, <3>2, <3>4
  <2> QED
    BY <2>2, <2>3 DEF Inv, TypeOK
<1>2. CASE PlayFrame
  BY <1>2 DEF PlayFrame
<1>3. ASSUME NEW timestamp \in 0 .. MaxPacket, do_flush(timestamp)
      PROVE  slot' = slot
  BY <1>3 DEF do_flush, bufferVars
<1>4. CASE Tick \/ UNCHANGED vars
  BY <1>4 DEF Tick, vars, bufferVars
<1>5. ~OutputOff /\ ~OutputOn /\ ~buffer_get_frame
  BY DEF OutputOff, OutputOn, buffer_get_frame, FlushBuffer, LookAtFrame, LookAtNothing
<1> QED
  BY <1>1, <1>2, <1>3, <1>4, <1>5 DEF Next

\* A flush whose frame is in the buffer leaves no packet that ends before it, and
\* while the timestamp 0 of a missing packet counts as before the stream this is so
\* whatever is missing.
LEMMA FlushDrops ==
  ASSUME Inv, WithinReach, buffer_get_frame, flush.requested, ~FlushAll,
         ab_read < ab_write, readN \in Held, readN + Fill - 1 \in Held,
         flush.timestamp - 1 \in readN .. readN + Fill - 1,
         HighTimestamps => (readN .. flush.timestamp - 2) \subseteq Held,
         NEW n \in readN .. flush.timestamp - 2
  PROVE  n \notin Held'
<1>1. ab_synced
  BY DEF Held
<1>2. /\ readN \in Nat /\ Fill \in Nat /\ \A i \in Int : At(i) = slot[SlotOf(readN + i)]
      /\ Held = InWindow
  BY <1>1, WindowFacts, HeldIs
<1>3. flush.timestamp \in Nat /\ ab_read \in Nat /\ ab_write \in Nat
  BY Bounds DEF Inv, TypeOK
<1>4. n \in Int /\ Fill > 0 /\ n < flush.timestamp - 1
  BY <1>2, <1>3
<1>5. CASE FlushBuffer
  <2>1. ~ab_synced'
    BY <1>5 DEF FlushBuffer, ab_resync
  <2> QED
    BY <2>1 DEF Held
<1>6. CASE LookAtFrame \/ LookAtNothing
  <2>1. ~FlushNeeded
    BY <1>6 DEF LookAtFrame, LookAtNothing
  <2>2. Decidable
    <3>1. At(0).ready /\ At(Fill - 1).ready
      <4>1. readN + 0 = readN /\ readN + (Fill - 1) = readN + Fill - 1
        BY <1>2
      <4>2. slot[SlotOf(readN)].ready /\ slot[SlotOf(readN + Fill - 1)].ready
        BY <1>2 DEF InWindow
      <4> QED
        BY <1>2, <4>1, <4>2
    <3> QED
      BY <1>1, <1>3, <3>1 DEF Decidable, NotEmptyAsInt
  <2>3. ~FlushExpired
    <3>1. At(0).timestamp = readN + 0 + 1
      BY <1>1, <1>2, <1>4, <2>2, HeldSlot DEF Decidable
    <3> QED
      BY <1>2, <1>3, <1>4, <3>1 DEF FlushExpired
  <2>4. FlushInside
    <3>1. At(Fill - 1).timestamp = readN + (Fill - 1) + 1
      BY <1>1, <1>2, <1>4, <2>2, HeldSlot DEF Decidable
    <3>2. LastFrame(At(Fill - 1)) \in Int
      BY <1>2, <3>1, BufferAssumption DEF LastFrame
    <3> QED
      BY <1>3, <2>1, <2>2, <2>3, <3>2 DEF FlushNeeded, FlushBeyond, FlushInside
  <2>5. Flushed \in 0 .. Fill - 1 /\ ~EndsBeforeFlush(At(Flushed))
    BY <1>1, <2>4, FlushScan
  <2>6. Flushed \in Int /\ readN + Flushed \in Window
    BY <1>2, <2>5 DEF Window
  <2>7. n < readN + Flushed
    <3>1. CASE At(Flushed).ready
      <4>1. At(Flushed).timestamp = readN + Flushed + 1
        BY <1>1, <2>5, <3>1, HeldSlot
      <4>2. ~(LastFrame(At(Flushed)) < flush.timestamp)
        BY <1>2, <2>5, <2>6, <4>1 DEF EndsBeforeFlush
      <4> QED
        BY <1>2, <1>3, <1>4, <2>6, <4>1, <4>2, BufferAssumption DEF LastFrame
    <3>2. CASE ~At(Flushed).ready
      <4>1. At(Flushed).timestamp = 0
        BY <1>1, <2>5, <3>2, HeldSlot
      <4>2. HighTimestamps
        BY <2>5, <4>1 DEF EndsBeforeFlush
      <4>3. readN + Flushed \notin Held
        BY <1>2, <2>6, <3>2 DEF InWindow
      <4>4. readN + Flushed \notin readN .. flush.timestamp - 2
        BY <4>2, <4>3
      <4> QED
        BY <1>2, <1>3, <1>4, <2>5, <2>6, <4>4
    <3> QED
      BY <3>1, <3>2
  <2>8. Skipped \in Int /\ Flushed <= Skipped
    BY <1>1, <1>2, SkippedIs
  <2>9. readN' \in Nat /\ readN + Skipped <= readN' /\ Held' = {m \in Held : m >= readN'}
    BY <1>1, <1>6, LookHeld
  <2>10. n < readN'
    BY <1>2, <1>4, <2>6, <2>7, <2>8, <2>9
  <2> QED
    BY <1>4, <2>9, <2>10
<1> QED
  BY <1>5, <1>6 DEF buffer_get_frame

\* No step changes the frame the player is playing (player_put_packet, do_flush and
\* buffer_get_frame share the ring with play_frame), and the pass that answers a
\* flush inside the buffer drops all packets before the flush frame.
THEOREM StepsStayRight ==
  ASSUME WithinReach
  PROVE  Spec => StepsRight
<1>1. Inv /\ [Next]_vars =>
        [inUse /= NULL => slot'[inUse] = slot[inUse] \/ inUse' = NULL]_vars
  BY FrameKept
<1>2. Inv /\ [Next]_vars =>
        [buffer_get_frame /\ flush.requested /\ ~FlushAll /\ ab_read < ab_write =>
           LET end == readN + Fill - 1
               before == readN .. flush.timestamp - 2
           IN  /\ {readN, end} \subseteq Held
               /\ flush.timestamp - 1 \in readN .. end
               /\ HighTimestamps => before \subseteq Held
               => before \intersect Held' = {}]_vars
  BY FlushDrops
<1> QED
  BY <1>1, <1>2, Invariance, PTL DEF StepsRight, FrameInUseKept, FlushDropsEarlier, Spec

\* The packet being played is the same if its slot is.
LEMMA PlayingSame ==
  ASSUME inUse' = inUse, inUse /= NULL => slot'[inUse] = slot[inUse]
  PROVE  Playing' = Playing
BY DEF Playing

\* player_put_packet adds its packet to the queue, unless the player has passed it.
LEMMA ArriveStep ==
  ASSUME Inv, WithinReach, NEW n \in Packet, player_put_packet(n), output
  PROVE  Queue!Arrive(n)
<1>1. /\ Inv' /\ Accept(n) /\ MayCome(n) /\ inUse' = inUse
      /\ top' = (IF n > top THEN n ELSE top) /\ ab_synced'
  BY PutKeeps DEF player_put_packet, Accept
<1>2. CASE ab_synced
  <2>1. /\ readN' = readN /\ readN \in Nat /\ Fill \in Nat /\ n \in Nat
    BY <1>1, <1>2, AcceptSynced, AcceptWhere
  <2>2. /\ ab_write' = Seq(NextExpected(n))
        /\ \A m \in readN - 1 .. NextExpected(n) - 1 :
              slot'[SlotOf(m)] = IF m = n /\ n >= readN THEN Arrived(n)
                                 ELSE IF m < readN + Fill THEN slot[SlotOf(m)]
                                 ELSE Missing(slot[SlotOf(m)])
    BY <1>1, <1>2, AcceptSlots
  <2>3. Window' = readN .. NextExpected(n) - 1
    BY <1>1, <1>2, <2>1, AcceptSynced
  <2>4. PICK v \in Nat : /\ v = NextExpected(n) /\ n < v /\ readN + Fill <= v
                         /\ n < readN + Fill => v = readN + Fill
    BY <2>1 DEF NextExpected
  <2>5. Held = InWindow /\ Held' = InWindow'
    BY <1>1, <1>2, HeldIs, HeldIsNext
  <2>6. Held' = IF n >= readN THEN Held \union {n} ELSE Held
    <3>1. ASSUME NEW m \in readN .. v - 1
          PROVE  slot'[SlotOf(m)].ready <=>
                   m = n \/ (m < readN + Fill /\ slot[SlotOf(m)].ready)
      <4>1. m \in readN - 1 .. v - 1 /\ m \in Int /\ m >= readN
        BY <2>1
      <4>2. CASE m = n
        <5>1. slot'[SlotOf(m)] = Arrived(n)
          BY <2>2, <2>4, <4>1, <4>2
        <5>2. slot'[SlotOf(m)].ready
          BY <5>1 DEF Arrived
        <5> QED
          BY <4>2, <5>2
      <4>3. CASE m /= n /\ m < readN + Fill
        BY <2>2, <2>4, <4>1, <4>3
      <4>4. CASE m /= n /\ ~(m < readN + Fill)
        <5>1. slot'[SlotOf(m)] = Missing(slot[SlotOf(m)])
          BY <2>2, <2>4, <4>1, <4>4
        <5>2. slot[SlotOf(m)] \in Slot
          BY <4>1, SlotIn DEF Inv, TypeOK, Slot
        <5> QED
          BY <4>4, <5>1, <5>2 DEF Missing, Slot
      <4> QED
        BY <4>2, <4>3, <4>4
    <3>2. InWindow' = {m \in readN .. v - 1 :
                         m = n \/ (m < readN + Fill /\ slot[SlotOf(m)].ready)}
      BY <2>3, <2>4, <3>1 DEF InWindow
    <3>3. InWindow = {m \in readN .. readN + Fill - 1 : slot[SlotOf(m)].ready}
      BY DEF InWindow, Window
    <3>4. ASSUME NEW m \in InWindow'
          PROVE  m \in InWindow \/ (m = n /\ n >= readN)
      BY <2>1, <2>4, <3>2, <3>3
    <3>5. ASSUME NEW m \in InWindow
          PROVE  m \in InWindow'
      BY <2>1, <2>4, <3>2, <3>3
    <3>6. n >= readN => n \in InWindow'
      BY <2>1, <2>4, <3>2
    <3> QED
      BY <2>5, <3>4, <3>5, <3>6
  <2>7. Playing' = Playing
    <3>1. ASSUME inUse /= NULL
          PROVE  slot'[inUse] = slot[inUse]
      <4>1. inUse = SlotOf(readN - 1)
        BY <3>1 DEF Inv, InUseInv
      <4>2. /\ readN - 1 \in readN - 1 .. NextExpected(n) - 1
            /\ ~(readN - 1 = n /\ n >= readN) /\ readN - 1 < readN + Fill
        BY <2>1, <2>4
      <4> QED
        BY <2>2, <4>1, <4>2
    <3> QED
      BY <1>1, <3>1, PlayingSame
  <2> QED
    BY <1>1, <1>2, <2>1, <2>6, <2>7 DEF Queue!Arrive
<1>3. CASE ~ab_synced
  <2>1. /\ readN' = n /\ ab_synced' /\ Fill' = 1 /\ slot'[SlotOf(n)] = Arrived(n)
    BY <1>1, <1>3, AcceptUnsynced
  <2>2. n \in Nat
    BY DEF Packet
  <2>3. Window' = {n}
    BY <2>1, <2>2 DEF Window
  <2>4. Held' = {n}
    <3>1. InWindow' = {n}
      BY <2>1, <2>3 DEF InWindow, Arrived
    <3> QED
      BY <1>1, <3>1, HeldIsNext
  <2>5. Playing' = Playing
    BY <1>1, <1>3, PlayingSame DEF Inv, InUseInv
  <2> QED
    BY <1>1, <1>3, <2>1, <2>4, <2>5 DEF Queue!Arrive
<1> QED
  BY <1>2, <1>3

\* A pass of buffer_get_frame advances the queue: a packet it drops is played, late
\* or ends before a flush.
LEMMA AdvanceStep ==
  ASSUME Inv, WithinReach, PacketLength = 1, ab_synced, LookAtFrame \/ LookAtNothing
  PROVE  Queue!Advance
<1>1. /\ ab_synced' /\ readN \in Nat /\ readN' \in Nat
      /\ readN + Skipped <= readN' /\ readN' <= readN + Skipped + 1
      /\ Held' = {n \in Held : n >= readN'}
  BY LookHeld
<1>2. /\ Fill \in Nat /\ Skipped \in 0 .. Fill /\ Flushed \in 0 .. Fill /\ Flushed <= Skipped
      /\ \A i \in 0 .. Flushed - 1 : EndsBeforeFlush(At(i))
      /\ \A i \in Flushed .. Skipped - 1 : MaySkip(At(i))
      /\ Flushed > 0 => flush.requested /\ ~FlushAll
      /\ \A i \in Int : At(i) = slot[SlotOf(readN + i)]
      /\ Held = InWindow
  BY WindowFacts, SkippedIs, FlushedIs, HeldIs
<1>3. inUse = NULL /\ Playing = NULL
  BY DEF LookAtFrame, LookAtNothing, Playing
<1>4. ASSUME NEW n \in Held, ~(n >= readN + Skipped)
      PROVE  \/ n < now
             \/ n < (IF ~flush.requested THEN 0
                     ELSE IF FlushAll THEN MaxPacket ELSE flush.timestamp - 1)
  <2>1. PICK i \in 0 .. Fill - 1 : n = readN + i /\ At(i).ready
    BY DEF Held
  <2>2. i \in Int /\ i < Skipped /\ At(i).timestamp = n + 1 /\ n \in Int
    BY <1>1, <1>2, <1>4, <2>1, HeldSlot
  <2>3. CASE i < Flushed
    <3>1. EndsBeforeFlush(At(i)) /\ flush.requested /\ ~FlushAll
      BY <1>2, <2>1, <2>2, <2>3
    <3>2. LastFrame(At(i)) < flush.timestamp
      BY <2>1, <2>2, <3>1, <1>1 DEF EndsBeforeFlush
    <3>3. n < flush.timestamp - 1
      BY <2>2, <3>2, Bounds DEF LastFrame, Inv, TypeOK
    <3> QED
      BY <3>1, <3>3
  <2>4. CASE ~(i < Flushed)
    <3>1. MaySkip(At(i))
      BY <1>2, <2>2, <2>4
    <3> QED
      BY <2>1, <2>2, <3>1 DEF MaySkip
  <2> QED
    BY <2>3, <2>4
<1>5. \/ readN' = Frame + 1 /\ Playing' = IF Frame \in Held THEN Frame ELSE NULL
      \/ readN' = Frame /\ Playing' = NULL
  <2>1. CASE LookAtFrame /\ Taken
    <3>1. /\ Skipped \in 0 .. Fill - 1 /\ Frame \in Nat /\ Frame \in Window
          /\ At(Skipped) = slot[SlotOf(Frame)]
      BY <1>1, <1>2, <2>1, LookAtFrameIs DEF Frame, Window
    <3>2. SlotsAfterSkip[SlotOf(Frame)] = slot[SlotOf(Frame)]
      BY <1>2, <2>1, <3>1, LookAtFrameIs, NeverAliased DEF Frame
    <3>3. /\ SlotOf(Frame) \in Slots /\ slot[SlotOf(Frame)] \in Slot
          /\ SlotsAfterSkip \in [Slots -> Slot]
      BY <3>1, SlotIn, SlotsAfterSkipType DEF Inv, TypeOK, Slot
    <3> DEFINE s == slot[SlotOf(Frame)]
    <3>4. slot'[SlotOf(Frame)] = [s EXCEPT !.ready = FALSE,
                                           !.timestamp = IF s.ready THEN s.timestamp ELSE 0]
      BY <2>1, <3>2, <3>3 DEF Taken
    <3>5. /\ slot'[SlotOf(Frame)].timestamp = IF s.ready THEN s.timestamp ELSE 0
          /\ slot'[SlotOf(Frame)].payload = s.payload
      BY <3>3, <3>4 DEF Slot
    <3>6. s.ready => s.payload = Frame /\ s.timestamp = Frame + 1
      BY <3>1, HeldSlot DEF Frame
    <3>7. Frame \in Held <=> s.ready
      BY <1>2, <3>1 DEF InWindow
    <3>8. inUse' = SlotOf(Frame) /\ inUse' /= NULL
      BY <2>1, <3>3, Sizes DEF Taken, Slots, NULL
    <3> QED
      BY <2>1, <3>1, <3>5, <3>6, <3>7, <3>8 DEF Taken, Playing
  <2>2. CASE LookAtFrame /\ Left
    BY <1>3, <2>2 DEF Left, Playing
  <2>3. CASE LookAtNothing
    BY <1>3, <2>3 DEF LookAtNothing, Playing, Frame
  <2> QED
    BY <2>1, <2>2, <2>3, LookAtFrameIs
<1>6. Frame = readN + Skipped /\ Frame \in Nat
  BY <1>1, <1>2 DEF Frame
<1>7. readN' >= readN
  BY <1>1, <1>2
<1>8. \A n \in Held : n \in Int
  BY <1>1, <1>2 DEF InWindow, Window
<1>9. \A n \in Held \ Held' :
        \/ n < now
        \/ n < (IF ~flush.requested THEN 0
                ELSE IF FlushAll THEN MaxPacket ELSE flush.timestamp - 1)
        \/ Playing' = n
  <2> SUFFICES ASSUME NEW n \in Held, ~(n >= readN'), n >= readN + Skipped
               PROVE  Playing' = n
    BY <1>1, <1>4
  <2>1. n = Frame /\ readN' /= Frame
    BY <1>1, <1>6, <1>8
  <2> QED
    BY <1>5, <2>1
<1>10. Playing' /= Playing => Playing = NULL /\ Playing' = readN' - 1
  BY <1>3, <1>5, <1>6
<1> QED
  BY <1>1, <1>7, <1>9, <1>10 DEF Queue!Advance

\* ab_resync empties the queue of packets that a flush covers.
LEMMA EmptyStep ==
  ASSUME Inv, WithinReach, PacketLength = 1, FlushBuffer
  PROVE  Queue!Empty
<1>1. ~ab_synced' /\ Held' = {} /\ inUse = NULL /\ inUse' = NULL
  BY DEF FlushBuffer, ab_resync, Held
<1>2. Playing' = Playing
  BY <1>1, PlayingSame
<1>3. ASSUME NEW n \in Held
      PROVE  n < (IF ~flush.requested THEN 0
                  ELSE IF FlushAll THEN MaxPacket ELSE flush.timestamp - 1)
  <2>1. ab_synced
    BY DEF Held
  <2>2. readN \in Nat /\ Fill \in Nat /\ readN + Fill <= MaxPacket /\ MaxPacket \in Nat
    BY <2>1, WindowFacts, Bounds
  <2>3. PICK i \in 0 .. Fill - 1 : n = readN + i
    BY <2>1 DEF Held
  <2>4. flush.requested
    BY DEF FlushBuffer, FlushNeeded
  <2>5. CASE FlushAll
    BY <2>2, <2>3, <2>4, <2>5
  <2>6. CASE ~FlushAll
    <3>1. At(Fill - 1).ready /\ flush.timestamp > LastFrame(At(Fill - 1))
      BY <2>6 DEF FlushBuffer, FlushNeeded, FlushBeyond, Decidable
    <3>2. At(Fill - 1).timestamp = readN + (Fill - 1) + 1
      BY <2>1, <2>2, <2>3, <3>1, HeldSlot
    <3>3. LastFrame(At(Fill - 1)) = readN + Fill /\ flush.timestamp \in Int
      BY <2>2, <3>2, Bounds DEF LastFrame, Inv, TypeOK
    <3> QED
      BY <2>2, <2>3, <2>4, <2>6, <3>1, <3>3
  <2> QED
    BY <2>5, <2>6
<1> QED
  BY <1>1, <1>2, <1>3 DEF Queue!Empty

\* play_frame ends the packet being played.
LEMMA PlayedOutStep ==
  ASSUME Inv, WithinReach, PlayFrame
  PROVE  Queue!PlayedOut
<1>1. Inv' /\ inUse' = NULL /\ inUse \in Slots
      /\ UNCHANGED <<ab_synced, readN, ab_read, ab_write>>
  BY PlayFrameKeeps DEF PlayFrame, Inv, TypeOK
<1>2. ab_synced
  BY DEF PlayFrame, Inv, InUseInv
<1>3. \A k \in Slots : slot'[k].ready = slot[k].ready
  <2>1. slot \in [Slots -> Slot]
    BY DEF Inv, TypeOK, Slot
  <2> QED
    BY <1>1, <2>1 DEF PlayFrame, Slot
<1>4. Window' = Window /\ Window \subseteq Int
  <2>1. readN \in Nat /\ Fill \in Nat
    BY <1>2, WindowFacts
  <2> QED
    BY <1>1, <2>1 DEF Window, Fill
<1>5. InWindow' = InWindow
  BY <1>3, <1>4, SlotIn DEF InWindow
<1>6. Held' = Held
  BY <1>1, <1>2, <1>5, HeldIs, HeldIsNext
<1>7. Playing' = NULL
  BY <1>1 DEF Playing
<1> QED
  BY <1>1, <1>6, <1>7 DEF Queue!PlayedOut

\* Steps that leave the buffer alone leave the queue alone,
LEMMA QuietStep ==
  ASSUME UNCHANGED <<bufferVars, inUse>>
  PROVE  UNCHANGED Queue!vars
<1>1. Fill' = Fill /\ slot' = slot /\ ab_read' = ab_read /\ readN' = readN
      /\ ab_synced' = ab_synced
  BY DEF bufferVars, Fill
<1>2. Held' = Held
  BY <1>1 DEF Held, At
<1>3. Playing' = Playing
  BY <1>1 DEF Playing
<1> QED
  BY <1>1, <1>2, <1>3 DEF Queue!vars

\* and so does a pass before the first packet.
LEMMA NothingStep ==
  ASSUME ~ab_synced, LookAtNothing
  PROVE  UNCHANGED Queue!vars
<1>1. ~ab_synced' /\ inUse = NULL /\ inUse' = NULL /\ ab_synced' = ab_synced
  BY DEF LookAtNothing
<1>2. Held = {} /\ Held' = {}
  BY <1>1 DEF Held
<1>3. Playing = NULL /\ Playing' = NULL
  BY <1>1 DEF Playing
<1> QED
  BY <1>1, <1>2, <1>3 DEF Queue!vars

\* The ring with its wrapped numbers is a queue of packets: what the player plays is
\* what arrived, in order and, until ab_resync, each once at most, and a packet is
\* dropped only as late or flushed (player_put_packet, buffer_get_frame, ab_resync).
THEOREM QueueImplemented ==
  ASSUME WithinReach, PacketLength = 1
  PROVE  Spec => ImplementsQueue
<1>1. Init => Queue!Init
  BY DEF Init, Queue!Init, Held, Playing
<1>2. Inv /\ [Next]_vars => [Queue!Next]_Queue!vars
  <2> SUFFICES ASSUME Inv, [Next]_vars
               PROVE  [Queue!Next]_Queue!vars
    OBVIOUS
  <2>1. ASSUME NEW n \in Packet, player_put_packet(n)
        PROVE  [Queue!Next]_Queue!vars
    <3>1. CASE output
      BY <2>1, <3>1, ArriveStep DEF Queue!Next
    <3>2. CASE ~output
      BY <2>1, <3>2, QuietStep DEF player_put_packet, bufferVars
    <3> QED
      BY <3>1, <3>2
  <2>2. CASE \/ \E timestamp \in 0 .. MaxPacket : do_flush(timestamp)
             \/ OutputOff \/ OutputOn \/ Tick \/ UNCHANGED vars
    BY <2>2, QuietStep DEF do_flush, OutputOff, OutputOn, Tick, vars
  <2>3. CASE FlushBuffer
    BY <2>3, EmptyStep DEF Queue!Next
  <2>4. CASE LookAtFrame \/ LookAtNothing
    <3>1. CASE ab_synced
      BY <2>4, <3>1, AdvanceStep DEF Queue!Next
    <3>2. CASE ~ab_synced
      BY <2>4, <3>2, NothingStep DEF LookAtFrame
    <3> QED
      BY <3>1, <3>2
  <2>5. CASE PlayFrame
    BY <2>5, PlayedOutStep DEF Queue!Next
  <2> QED
    BY <2>1, <2>2, <2>3, <2>4, <2>5 DEF Next, buffer_get_frame
<1> QED
  BY <1>1, <1>2, Invariance, PTL DEF Spec, ImplementsQueue, Queue!Spec
===============================================================================
