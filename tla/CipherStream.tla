---------------------------- MODULE CipherStream ----------------------------
(***************************************************************************)
(* One direction of a ciphered channel: write_encrypted and encrypt at one *)
(* end, read_encrypted and decrypt at the other, with a TCP connection     *)
(* between them that hands over the bytes in pieces of any length.  A      *)
(* message is cut into blocks of at most ENCRYPTED_LEN_MAX bytes; a block  *)
(* is its length in two bytes, the data and a tag, and is sealed with a    *)
(* counter that both ends keep.                                            *)
(*                                                                         *)
(* The data are positions: what is sealed is the stream 1, 2, 3, ... and   *)
(* blocks[i] is where the i-th block of it ends.                           *)
(***************************************************************************)
EXTENDS Integers, Sequences, SequenceTheorems, TLAPS

CONSTANTS
  Longest,      \* ENCRYPTED_LEN_MAX, 0x400
  Tag,          \* AUTHTAG_LENGTH, 16
  Messages,     \* lengths of what is written at once
  Buffer,       \* sizeof(in) of read_encrypted, 4096
  Counts,       \* how much the reader asks for
  LoneBytes,    \* may TCP leave the reader with one byte of a block?
  MaxBytes      \* bound: bytes that are written

VARIABLES
  blocks,       \* where each block that was sealed ends
  encryption_counter,
  remain,       \* ciphertext that write_encrypted has yet to write
  socket,       \* and what is on the connection
  reader,       \* "calls", "reads", or "failed": read_encrypted gave -1
  asked,        \* the count of the call in progress
  encrypted_read_buffer,   \* the number of bytes in it
  drained,                 \* how many were taken out of it before
  plaintext_read_buffer,   \* the number of bytes in it
  decryption_counter,
  returned      \* the number of bytes the reader got

streamVars ==
  <<blocks, encryption_counter, remain, socket, reader, asked, encrypted_read_buffer, drained,
    plaintext_read_buffer, decryption_counter, returned>>

\* The length of the first n blocks, in plain and sealed
PlainLength(n) == IF n = 0 THEN 0 ELSE blocks[n]
Written == PlainLength(Len(blocks))
Header == 2
CipherLength(n) == PlainLength(n) + n * (Header + Tag)

StreamInit ==
  /\ blocks = <<>> /\ encryption_counter = 0 /\ remain = 0 /\ socket = 0
  /\ reader = "calls" /\ asked = 0
  /\ encrypted_read_buffer = 0 /\ drained = 0 /\ plaintext_read_buffer = 0
  /\ decryption_counter = 0 /\ returned = 0

readerVars ==
  <<reader, asked, encrypted_read_buffer, drained, plaintext_read_buffer, decryption_counter,
    returned>>

-----------------------------------------------------------------------------
\* encrypt: the blocks are full but for the last.
BlockCount(length) == 1 + ((length - 1) \div Longest)
Cut(length) ==
  LET n == BlockCount(length)
  IN  [i \in 1 .. n |-> Written + (IF i = n THEN length ELSE i * Longest)]

\* write_encrypted seals a message and then writes what it got, as much as the socket takes.
Encrypt ==
  /\ remain = 0
  /\ \E length \in Messages :
       /\ Written + length <= MaxBytes
       /\ blocks' = blocks \o Cut(length)
       /\ encryption_counter' = encryption_counter + BlockCount(length)
       /\ remain' = BlockCount(length) * (Header + Tag) + length
  /\ UNCHANGED <<socket, readerVars>>

Write ==
  /\ remain > 0
  /\ \E wrote \in 1 .. remain : remain' = remain - wrote /\ socket' = socket + wrote
  /\ UNCHANGED <<blocks, encryption_counter, readerVars>>

-----------------------------------------------------------------------------
\* The rest of the plaintext is forgotten
BugReturn(plain, count) ==
  LET bytes == IF plain > count THEN count ELSE plain
  IN  /\ returned' = returned + bytes
      /\ plaintext_read_buffer' = 0
      /\ reader' = "calls" /\ asked' = 0

\* As much is taken as is asked for
BugOverdrawn(plain, count) ==
  /\ returned' = returned + count
  /\ plaintext_read_buffer' = plain - count
  /\ reader' = "calls" /\ asked' = 0

\* buf_remove, out of the plaintext
Return(plain, count) ==
  LET bytes == IF plain > count THEN count ELSE plain
  IN  /\ returned' = returned + bytes
      /\ plaintext_read_buffer' = plain - bytes
      /\ reader' = "calls" /\ asked' = 0

\* read_encrypted gives what is left of earlier blocks, or reads.
Call ==
  /\ reader = "calls"
  /\ \E count \in Counts :
       IF plaintext_read_buffer > 0
       THEN Return(plaintext_read_buffer, count)
       ELSE reader' = "reads" /\ asked' = count /\ UNCHANGED <<plaintext_read_buffer, returned>>
  /\ UNCHANGED <<blocks, encryption_counter, remain, socket, encrypted_read_buffer, drained,
                 decryption_counter>>

\* A block that ends with the buffer is left for the next read
BugWholeBlocks(length) ==
  CHOOSE n \in decryption_counter .. Len(blocks) :
    /\ n > decryption_counter => CipherLength(n) < drained + length
    /\ n < Len(blocks) => CipherLength(n + 1) >= drained + length

\* decrypt opens the blocks that are there as a whole, from the first of the buffer, which
\* must be the block its counter says.  It returns -1 for a buffer of less than a length.
WholeBlocks(length) ==
  CHOOSE n \in decryption_counter .. Len(blocks) :
    /\ CipherLength(n) <= drained + length
    /\ n < Len(blocks) => CipherLength(n + 1) > drained + length

InStep == CipherLength(decryption_counter) = drained
Decrypts(length) == length >= Header /\ InStep

\* One read of the loop of read_encrypted: it ends when there is any plaintext.
ReadBlocks ==
  /\ reader = "reads"
  /\ \E got \in 1 .. (IF socket > Buffer THEN Buffer ELSE socket) :
       LET length == encrypted_read_buffer + got
           n == WholeBlocks(length)
           consumed == CipherLength(n) - CipherLength(decryption_counter)
           plain == PlainLength(n) - PlainLength(decryption_counter)
       IN  /\ LoneBytes \/ length /= 1
           /\ socket' = socket - got
           /\ IF ~Decrypts(length)
              THEN /\ reader' = "failed"
                   /\ encrypted_read_buffer' = length
                   /\ UNCHANGED <<drained, decryption_counter, plaintext_read_buffer, returned,
                                  asked>>
              ELSE /\ decryption_counter' = n
                   /\ encrypted_read_buffer' = length - consumed
                   /\ drained' = drained + consumed
                   /\ IF plain > 0 THEN Return(plain, asked)
                      ELSE UNCHANGED <<reader, asked, plaintext_read_buffer, returned>>
  /\ UNCHANGED <<blocks, encryption_counter, remain>>

StreamNext == Encrypt \/ Write \/ Call \/ ReadBlocks

StreamStep == Write \/ Call \/ ReadBlocks

StreamSpec ==
  StreamInit /\ [][StreamNext]_streamVars /\ WF_streamVars(Write)
    /\ WF_streamVars(Call) /\ WF_streamVars(ReadBlocks)

-----------------------------------------------------------------------------
StreamTypeOK ==
  /\ blocks \in Seq(1 .. MaxBytes)
  /\ encryption_counter \in Nat /\ decryption_counter \in 0 .. Len(blocks)
  /\ remain \in Nat /\ socket \in Nat
  /\ reader \in {"calls", "reads", "failed"} /\ asked \in Counts \cup {0}
  /\ encrypted_read_buffer \in Nat /\ drained \in Nat
  /\ plaintext_read_buffer \in Nat /\ returned \in 0 .. MaxBytes

\* The two ends keep in step across any division of the stream: no byte is lost or taken
\* twice between the socket and the two buffers, each end has counted the blocks the other
\* one has, a reader that waits in read(2) holds no block that it could have returned, and
\* a connection on which nothing is wrong does not fail.
StreamsAgree ==
  /\ CipherLength(Len(blocks)) = drained + encrypted_read_buffer + socket + remain
  /\ encryption_counter = Len(blocks)
  /\ PlainLength(decryption_counter) = returned + plaintext_read_buffer
  /\ reader = "reads" /\ decryption_counter < Len(blocks) =>
       CipherLength(decryption_counter + 1) > drained + encrypted_read_buffer
  /\ reader /= "failed"

\* What was written reaches a reader that goes on calling.
AllReturned == []<>(returned = Written)

\* pair_homekit.c:3072 says that decrypt stops at what is not an entire block.
WaitsForBlock == reader /= "failed"

-----------------------------------------------------------------------------
(***************************************************************************)
(* The two ends agree, for any lengths of blocks, tags, messages, buffers  *)
(* and requests.                                                           *)
(***************************************************************************)

\* Lengths are numbers, and nobody writes nothing.
StreamAssumption ==
  /\ Longest \in Nat \ {0} /\ Tag \in Nat /\ Messages \subseteq Nat \ {0}
  /\ Buffer \in Nat /\ Counts \subseteq Nat /\ MaxBytes \in Nat

\* Every place in the sealed stream is in some block, or at the end.
PlaceFound ==
  \A x \in 0 .. CipherLength(Len(blocks)) :
    \E n \in 0 .. Len(blocks) :
      CipherLength(n) <= x /\ (n < Len(blocks) => x < CipherLength(n + 1))

BlocksInOrder == \A i, j \in 1 .. Len(blocks) : i < j => blocks[i] < blocks[j]

\* No block that is there as a whole has been left sealed, also between two calls.
AllOpened ==
  decryption_counter < Len(blocks) =>
    CipherLength(decryption_counter + 1) > drained + encrypted_read_buffer

StreamInv ==
  /\ StreamTypeOK /\ BlocksInOrder /\ PlaceFound
  /\ InStep /\ AllOpened /\ reader /= "failed"
  /\ reader = "reads" => plaintext_read_buffer = 0
  /\ CipherLength(Len(blocks)) = drained + encrypted_read_buffer + socket + remain
  /\ encryption_counter = Len(blocks)
  /\ PlainLength(decryption_counter) = returned + plaintext_read_buffer

LEMMA Quotient ==
  ASSUME NEW a \in Nat, NEW b \in Nat \ {0}
  PROVE  a \div b \in Nat /\ (a \div b) * b <= a /\ a < (a \div b) * b + b
OBVIOUS

LEMMA Product ==
  ASSUME NEW a \in Int, NEW b \in Int, NEW h \in Int
  PROVE  a * h \in Int /\ (a + b) * h = a * h + b * h /\ h * (a + b) = h * a + h * b
OBVIOUS

LEMMA ProductGrows ==
  ASSUME NEW a \in Int, NEW b \in Int, NEW h \in Nat, a <= b
  PROVE  a * h <= b * h
OBVIOUS

\* What a block adds to its data
LEMMA Overhead ==
  ASSUME StreamAssumption
  PROVE  Header + Tag \in Nat /\ Header + Tag > 0
BY DEF StreamAssumption, Header

\* Where blocks end, in plain and sealed, are numbers.
LEMMA Lengths ==
  ASSUME StreamAssumption, StreamTypeOK
  PROVE  /\ Len(blocks) \in Nat
         /\ \A n \in 0 .. Len(blocks) :
              /\ PlainLength(n) \in Nat /\ PlainLength(n) <= MaxBytes
              /\ n * (Header + Tag) \in Nat /\ CipherLength(n) \in Nat
<1>1. blocks \in Seq(1 .. MaxBytes) /\ MaxBytes \in Nat /\ Len(blocks) \in Nat
  BY DEF StreamTypeOK, StreamAssumption
<1>2. ASSUME NEW n \in 0 .. Len(blocks)
      PROVE  /\ PlainLength(n) \in Nat /\ PlainLength(n) <= MaxBytes
             /\ n * (Header + Tag) \in Nat /\ CipherLength(n) \in Nat
  <2>1. PlainLength(n) \in Nat /\ PlainLength(n) <= MaxBytes
    <3>1. CASE n = 0
      BY <1>1, <3>1 DEF PlainLength
    <3>2. CASE n /= 0
      <4>1. n \in 1 .. Len(blocks)
        BY <1>1, <3>2
      <4>2. blocks[n] \in 1 .. MaxBytes
        BY <1>1, <4>1, ElementOfSeq
      <4> QED
        BY <1>1, <3>2, <4>2 DEF PlainLength
    <3> QED
      BY <3>1, <3>2
  <2>2. n * (Header + Tag) \in Nat
    <3>1. n \in Nat /\ 0 * (Header + Tag) <= n * (Header + Tag) /\ n * (Header + Tag) \in Int
      BY <1>1, Overhead, Product, ProductGrows
    <3> QED
      BY <3>1, Overhead
  <2> QED
    BY <2>1, <2>2 DEF CipherLength
<1> QED
  BY <1>1, <1>2

\* Later blocks end later.
LEMMA LengthsGrow ==
  ASSUME StreamAssumption, StreamTypeOK, BlocksInOrder,
         NEW i \in 0 .. Len(blocks), NEW j \in 0 .. Len(blocks), i < j
  PROVE  PlainLength(i) < PlainLength(j) /\ CipherLength(i) < CipherLength(j)
<1>1. Len(blocks) \in Nat /\ i \in Nat /\ j \in 1 .. Len(blocks)
  BY Lengths
<1>2. PlainLength(i) < PlainLength(j)
  <2>1. blocks[j] \in 1 .. MaxBytes
    <3>1. blocks \in Seq(1 .. MaxBytes)
      BY DEF StreamTypeOK
    <3> QED
      BY <1>1, <3>1, ElementOfSeq
  <2>2. CASE i = 0
    BY <1>1, <2>1, <2>2 DEF PlainLength
  <2>3. CASE i /= 0
    <3>1. i \in 1 .. Len(blocks)
      BY <1>1, <2>3
    <3>2. blocks[i] < blocks[j]
      BY <1>1, <3>1 DEF BlocksInOrder
    <3> QED
      BY <1>1, <2>3, <3>2 DEF PlainLength
  <2> QED
    BY <2>2, <2>3
<1>3. i * (Header + Tag) <= j * (Header + Tag)
  BY <1>1, Overhead, ProductGrows
<1> QED
  BY <1>2, <1>3, Lengths DEF CipherLength

\* The blocks that are there as a whole are found, and are no fewer than were opened.
LEMMA BlocksFound ==
  ASSUME StreamAssumption, StreamInv, NEW length \in Nat,
         drained + length <= CipherLength(Len(blocks))
  PROVE  /\ WholeBlocks(length) \in decryption_counter .. Len(blocks)
         /\ CipherLength(WholeBlocks(length)) <= drained + length
         /\ WholeBlocks(length) < Len(blocks) =>
              CipherLength(WholeBlocks(length) + 1) > drained + length
<1> DEFINE dc == decryption_counter
           There(n) == /\ CipherLength(n) <= drained + length
                       /\ n < Len(blocks) => CipherLength(n + 1) > drained + length
<1>1. StreamTypeOK /\ BlocksInOrder /\ PlaceFound /\ InStep
  BY DEF StreamInv
<1>2. Len(blocks) \in Nat /\ dc \in 0 .. Len(blocks) /\ drained \in Nat
  BY <1>1, Lengths DEF StreamTypeOK
<1>3. drained + length \in 0 .. CipherLength(Len(blocks))
  BY <1>1, <1>2, Lengths
<1>4. PICK n \in 0 .. Len(blocks) :
        CipherLength(n) <= drained + length /\ (n < Len(blocks) => drained + length < CipherLength(n + 1))
  BY <1>1, <1>3, Zenon DEF PlaceFound
<1>5. n \in dc .. Len(blocks)
  <2>1. SUFFICES ASSUME n < dc
                 PROVE  FALSE
    BY <1>2, <1>4
  <2>2. n + 1 \in 0 .. Len(blocks) /\ n + 1 <= dc /\ n < Len(blocks)
    BY <1>2, <2>1
  <2>3. CipherLength(n + 1) <= CipherLength(dc)
    <3>1. CASE n + 1 = dc
      BY <1>1, <1>2, <3>1, Lengths
    <3>2. CASE n + 1 < dc
      <4>1. CipherLength(n + 1) < CipherLength(dc)
        BY <1>1, <1>2, <2>2, <3>2, LengthsGrow
      <4> QED
        BY <1>1, <1>2, <2>2, <4>1, Lengths
    <3> QED
      BY <1>2, <2>2, <3>1, <3>2
  <2>4. CipherLength(dc) = drained
    BY <1>1 DEF InStep
  <2>5. CipherLength(n + 1) \in Nat
    BY <1>1, <2>2, Lengths
  <2> QED
    BY <1>2, <1>4, <2>2, <2>3, <2>4, <2>5
<1>6. There(n)
  BY <1>1, <1>2, <1>4, Lengths
<1>7. WholeBlocks(length) = CHOOSE m \in dc .. Len(blocks) : There(m)
  BY DEF WholeBlocks
<1> HIDE DEF There
<1>8. WholeBlocks(length) \in dc .. Len(blocks) /\ There(WholeBlocks(length))
  BY <1>5, <1>6, <1>7, Zenon
<1> QED
  BY <1>8 DEF There

\* How far the first i blocks of a message of that length go
Part(length, i) == IF i = BlockCount(length) THEN length ELSE i * Longest

LEMMA PartsOfMessage ==
  ASSUME StreamAssumption, NEW length \in Nat \ {0}
  PROVE  /\ BlockCount(length) \in Nat \ {0} /\ Part(length, 0) = 0
         /\ \A i \in 0 .. BlockCount(length) :
              Part(length, i) \in Nat /\ Part(length, i) <= length /\ Part(length, i) <= i * Longest
         /\ \A i, j \in 0 .. BlockCount(length) : i < j => Part(length, i) < Part(length, j)
<1> DEFINE q == (length - 1) \div Longest
<1>1. Longest \in Nat \ {0}
  BY DEF StreamAssumption
<1>2. q \in Nat /\ q * Longest <= length - 1 /\ length - 1 < q * Longest + Longest
  BY <1>1, Quotient
<1>3. BlockCount(length) = q + 1
  BY <1>2 DEF BlockCount
<1> HIDE DEF q
<1>4. (q + 1) * Longest = q * Longest + Longest /\ q * Longest \in Int
  BY <1>1, <1>2, Product
<1>5. ASSUME NEW i \in 0 .. q + 1
      PROVE  /\ Part(length, i) \in Nat /\ Part(length, i) <= length
             /\ Part(length, i) <= i * Longest
             /\ i <= q => Part(length, i) = i * Longest
  <2>1. CASE i = q + 1
    <3>1. length <= (q + 1) * Longest
      BY <1>1, <1>2, <1>4
    <3> QED
      BY <1>2, <1>3, <2>1, <3>1 DEF Part
  <2>2. CASE i <= q
    <3>1. i * Longest <= q * Longest /\ 0 * Longest <= i * Longest /\ i * Longest \in Int
      BY <1>1, <1>2, <2>2, Product, ProductGrows
    <3>2. Part(length, i) = i * Longest
      BY <1>2, <1>3, <2>2 DEF Part
    <3> QED
      BY <1>1, <1>2, <1>4, <3>1, <3>2
  <2> QED
    BY <1>2, <2>1, <2>2
<1>6. ASSUME NEW i \in 0 .. q + 1, NEW j \in 0 .. q + 1, i < j
      PROVE  Part(length, i) < Part(length, j)
  <2>1. i <= q /\ i \in Int /\ j \in Int /\ Part(length, i) = i * Longest /\ i * Longest \in Int
    BY <1>1, <1>2, <1>5, <1>6, Product
  <2>2. CASE j = q + 1
    <3>1. i * Longest <= q * Longest
      BY <1>1, <1>2, <2>1, ProductGrows
    <3>2. Part(length, j) = length
      BY <1>3, <2>2 DEF Part
    <3> QED
      BY <1>2, <1>4, <2>1, <3>1, <3>2
  <2>3. CASE j <= q
    <3>1. (i + 1) * Longest <= j * Longest /\ (i + 1) * Longest = i * Longest + 1 * Longest
      BY <1>1, <1>6, <2>1, Product, ProductGrows
    <3>2. Part(length, j) = j * Longest /\ j * Longest \in Int
      BY <1>1, <1>5, <2>1, <2>3, Product
    <3> QED
      BY <1>1, <2>1, <3>1, <3>2
  <2> QED
    BY <1>2, <2>1, <2>2, <2>3
<1>7. Part(length, 0) = 0
  <2>1. 0 \in 0 .. q + 1 /\ 0 <= q /\ 0 * Longest = 0
    BY <1>1, <1>2
  <2> QED
    BY <1>5, <2>1
<1> QED
  BY <1>2, <1>3, <1>5, <1>6, <1>7

\* A message goes behind what was sealed, its blocks after one another.
LEMMA MessageSealed ==
  ASSUME StreamAssumption, StreamTypeOK, NEW length \in Nat \ {0}, Written + length <= MaxBytes,
         NEW N \in Nat, N = Len(blocks), blocks' = blocks \o Cut(length)
  PROVE  /\ blocks' \in Seq(1 .. MaxBytes) /\ Len(blocks') = N + BlockCount(length)
         /\ \A n \in 0 .. N :
              PlainLength(n)' = PlainLength(n) /\ CipherLength(n)' = CipherLength(n)
         /\ \A i \in 0 .. BlockCount(length) :
              /\ PlainLength(N + i)' = Written + Part(length, i)
              /\ CipherLength(N + i)' =
                   CipherLength(N) + Part(length, i) + i * (Header + Tag)
         /\ \A i \in 1 .. N : blocks'[i] = blocks[i]
         /\ \A i \in 1 .. BlockCount(length) : blocks'[N + i] = Written + Part(length, i)
<1> DEFINE K == BlockCount(length)
           cut == Cut(length)
<1>1. /\ K \in Nat \ {0} /\ Part(length, 0) = 0
      /\ \A i \in 0 .. K : Part(length, i) \in Nat /\ Part(length, i) <= length
      /\ \A i, j \in 0 .. K : i < j => Part(length, i) < Part(length, j)
  BY PartsOfMessage
<1>2. /\ blocks \in Seq(1 .. MaxBytes) /\ N \in Nat /\ Written \in Nat /\ MaxBytes \in Nat
      /\ \A n \in 0 .. N : PlainLength(n) \in Nat /\ n * (Header + Tag) \in Nat
  BY Lengths DEF StreamTypeOK, Written, StreamAssumption
<1>3. cut = [i \in 1 .. K |-> Written + Part(length, i)]
  BY DEF Cut, Part
<1> HIDE DEF K, cut
<1>4. \A i \in 1 .. K : Written + Part(length, i) \in 1 .. MaxBytes
  <2> SUFFICES ASSUME NEW i \in 1 .. K
               PROVE  Written + Part(length, i) \in 1 .. MaxBytes
    OBVIOUS
  <2>1. i \in 0 .. K /\ 0 \in 0 .. K /\ 0 < i
    BY <1>1
  <2>2. 0 < Part(length, i) /\ Part(length, i) \in Nat /\ Part(length, i) <= length
    BY <1>1, <2>1
  <2> QED
    BY <1>2, <2>2
<1>5. cut \in Seq(1 .. MaxBytes) /\ Len(cut) = K
  BY <1>1, <1>3, <1>4
<1>6. /\ blocks' \in Seq(1 .. MaxBytes) /\ Len(blocks') = N + K
      /\ \A i \in 1 .. N + K : blocks'[i] = IF i <= N THEN blocks[i] ELSE cut[i - N]
  <2>1. blocks' = blocks \o cut
    BY DEF cut
  <2> QED
    <3>1. /\ blocks \o cut \in Seq(1 .. MaxBytes) /\ Len(blocks \o cut) = Len(blocks) + Len(cut)
          /\ \A i \in 1 .. Len(blocks) + Len(cut) :
               (blocks \o cut)[i] = IF i <= Len(blocks) THEN blocks[i] ELSE cut[i - Len(blocks)]
      BY <1>2, <1>5, ConcatProperties, Zenon
    <3> QED
      BY <1>5, <2>1, <3>1, Zenon
<1>7. \A i \in 1 .. N : blocks'[i] = blocks[i]
  BY <1>1, <1>2, <1>6
<1>8. \A i \in 1 .. K : blocks'[N + i] = Written + Part(length, i)
  <2> SUFFICES ASSUME NEW i \in 1 .. K
               PROVE  blocks'[N + i] = Written + Part(length, i)
    OBVIOUS
  <2>1. N + i \in 1 .. N + K /\ ~(N + i <= N) /\ (N + i) - N = i
    BY <1>1, <1>2
  <2>2. blocks'[N + i] = cut[i]
    BY <1>6, <2>1
  <2> QED
    BY <1>3, <2>2
<1>9. ASSUME NEW n \in 0 .. N
      PROVE  PlainLength(n)' = PlainLength(n) /\ CipherLength(n)' = CipherLength(n)
  <2>1. PlainLength(n)' = PlainLength(n)
    <3>1. n = 0 \/ n \in 1 .. N
      BY <1>2
    <3> QED
      BY <1>7, <3>1 DEF PlainLength
  <2> QED
    BY <2>1 DEF CipherLength
<1>10. ASSUME NEW i \in 0 .. K
       PROVE  /\ PlainLength(N + i)' = Written + Part(length, i)
              /\ CipherLength(N + i)' = CipherLength(N) + Part(length, i) + i * (Header + Tag)
  <2>1. PlainLength(N + i)' = Written + Part(length, i)
    <3>1. CASE i = 0
      BY <1>1, <1>2, <1>9, <3>1 DEF Written
    <3>2. CASE i /= 0
      <4>1. i \in 1 .. K /\ N + i /= 0
        BY <1>1, <3>2
      <4> QED
        BY <1>8, <4>1 DEF PlainLength
    <3> QED
      BY <3>1, <3>2
  <2>2. /\ (N + i) * (Header + Tag) = N * (Header + Tag) + i * (Header + Tag)
        /\ N * (Header + Tag) \in Int /\ i * (Header + Tag) \in Int
    <3>1. Header + Tag \in Int /\ N \in Int /\ i \in Int
      BY <1>1, Overhead
    <3> QED
      BY <3>1, Product
  <2>3. CipherLength(N) = Written + N * (Header + Tag)
    BY DEF CipherLength, Written
  <2>4. CipherLength(N + i)' = PlainLength(N + i)' + (N + i) * (Header + Tag)
    BY DEF CipherLength
  <2>5. Part(length, i) \in Nat
    BY <1>1
  <2> QED
    BY <1>2, <2>1, <2>2, <2>3, <2>4, <2>5
<1> QED
  BY <1>6, <1>7, <1>8, <1>9, <1>10 DEF K

\* The place in the new blocks is found by division, for all of them but the last are full.
LEMMA EncryptRight ==
  ASSUME StreamAssumption, StreamInv, Encrypt
  PROVE  StreamInv'
<1>0. PICK N \in Nat : N = Len(blocks)
  BY Lengths DEF StreamInv
<1>1. PICK length \in Messages :
        /\ Written + length <= MaxBytes
        /\ blocks' = blocks \o Cut(length)
        /\ encryption_counter' = encryption_counter + BlockCount(length)
        /\ remain' = BlockCount(length) * (Header + Tag) + length
  BY DEF Encrypt
<1>2. remain = 0 /\ UNCHANGED readerVars /\ socket' = socket
  BY DEF Encrypt
<1> DEFINE K == BlockCount(length)
           block == Header + Tag
<1>3. StreamTypeOK /\ BlocksInOrder /\ PlaceFound
  BY DEF StreamInv
<1>4. length \in Nat \ {0} /\ Longest \in Nat \ {0} /\ block \in Nat /\ block > 0
  BY Overhead DEF StreamAssumption
<1>5. /\ K \in Nat \ {0} /\ Part(length, 0) = 0
      /\ \A i \in 0 .. K : /\ Part(length, i) \in Nat /\ Part(length, i) <= length
                           /\ Part(length, i) <= i * Longest
      /\ \A i, j \in 0 .. K : i < j => Part(length, i) < Part(length, j)
  BY <1>4, PartsOfMessage, Zenon
<1>6. Part(length, K) = length
  BY DEF Part
<1>7. /\ blocks' \in Seq(1 .. MaxBytes) /\ Len(blocks') = N + K
      /\ \A n \in 0 .. N : PlainLength(n)' = PlainLength(n) /\ CipherLength(n)' = CipherLength(n)
      /\ \A i \in 0 .. K :
           /\ PlainLength(N + i)' = Written + Part(length, i)
           /\ CipherLength(N + i)' = CipherLength(N) + Part(length, i) + i * block
      /\ \A i \in 1 .. N : blocks'[i] = blocks[i]
      /\ \A i \in 1 .. K : blocks'[N + i] = Written + Part(length, i)
  BY <1>0, <1>1, <1>3, <1>4, MessageSealed, Zenon
<1> HIDE DEF K, block
<1>8. /\ \A n \in 0 .. N : PlainLength(n) \in Nat /\ CipherLength(n) \in Nat
      /\ Written \in Nat
  BY <1>0, <1>3, Lengths DEF Written
<1>9. /\ drained' = drained /\ encrypted_read_buffer' = encrypted_read_buffer
      /\ decryption_counter' = decryption_counter /\ reader' = reader /\ asked' = asked
      /\ returned' = returned /\ plaintext_read_buffer' = plaintext_read_buffer
      /\ decryption_counter \in 0 .. N /\ drained \in Nat /\ encrypted_read_buffer \in Nat
      /\ socket \in Nat /\ remain \in Nat
  BY <1>0, <1>2, <1>3 DEF readerVars, StreamTypeOK
<1>10. remain' = K * block + length /\ K * block \in Nat
  <2>1. 0 * block <= K * block /\ K * block \in Int
    BY <1>4, <1>5, Product, ProductGrows
  <2> QED
    BY <1>1, <1>4, <2>1 DEF K, block
<1>11. StreamTypeOK'
  <2>1. encryption_counter' \in Nat
    BY <1>1, <1>3, <1>5 DEF StreamTypeOK, K
  <2>2. decryption_counter' \in 0 .. Len(blocks')
    BY <1>5, <1>7, <1>9
  <2>3. remain' \in Nat /\ socket' \in Nat
    BY <1>2, <1>4, <1>9, <1>10
  <2> QED
    BY <1>3, <1>7, <1>9, <2>1, <2>2, <2>3 DEF StreamTypeOK
<1>12. BlocksInOrder'
  <2> SUFFICES ASSUME NEW i \in 1 .. N + K, NEW j \in 1 .. N + K, i < j
               PROVE  blocks'[i] < blocks'[j]
    BY <1>7 DEF BlocksInOrder
  <2>1. CASE j <= N
    <3>1. i \in 1 .. N /\ j \in 1 .. N
      BY <1>5, <2>1
    <3>2. blocks[i] < blocks[j]
      BY <1>0, <1>3, <3>1 DEF BlocksInOrder
    <3> QED
      BY <1>7, <3>1, <3>2
  <2>2. CASE j > N
    <3>1. PICK l \in 1 .. K : j = N + l
      <4>1. j - N \in 1 .. K /\ j = N + (j - N)
        BY <1>5, <2>2
      <4> QED
        BY <4>1
    <3>2. blocks'[j] = Written + Part(length, l) /\ Part(length, l) \in Nat /\ 0 < Part(length, l)
      <4>1. l \in 0 .. K /\ 0 \in 0 .. K /\ 0 < l
        BY <1>5
      <4>2. Part(length, 0) < Part(length, l) /\ Part(length, l) \in Nat
        BY <1>5, <4>1, Zenon
      <4> QED
        BY <1>5, <1>7, <3>1, <4>2
    <3>3. CASE i <= N
      <4>1. i \in 1 .. N
        BY <3>3
      <4>2. blocks'[i] = PlainLength(i) /\ PlainLength(i) \in Nat
        <5>1. i /= 0 /\ i \in 0 .. N
          BY <4>1
        <5> QED
          BY <1>7, <1>8, <4>1, <5>1 DEF PlainLength
      <4>3. PlainLength(i) <= Written
        <5>1. CASE i = N
          BY <1>0, <4>2, <5>1 DEF Written
        <5>2. CASE i < N
          <6>1. i \in 0 .. Len(blocks) /\ Len(blocks) \in 0 .. Len(blocks) /\ i < Len(blocks)
            BY <1>0, <4>1, <5>2
          <6>2. PlainLength(i) < PlainLength(Len(blocks))
            BY <1>3, <6>1, LengthsGrow
          <6> QED
            BY <1>8, <4>2, <6>2 DEF Written
        <5> QED
          BY <4>1, <5>1, <5>2
      <4> QED
        BY <1>8, <3>2, <4>2, <4>3
    <3>4. CASE i > N
      <4>1. i - N \in 1 .. K /\ i = N + (i - N) /\ i - N < l
        BY <1>5, <3>1, <3>4
      <4>2. blocks'[i] = Written + Part(length, i - N)
        BY <1>7, <4>1
      <4>3. Part(length, i - N) < Part(length, l) /\ Part(length, i - N) \in Nat
        <5>1. i - N \in 0 .. K /\ l \in 0 .. K
          BY <1>5, <4>1
        <5> QED
          BY <1>5, <4>1, <5>1
      <4> QED
        BY <1>8, <3>2, <4>2, <4>3
    <3> QED
      BY <3>3, <3>4
  <2> QED
    BY <2>1, <2>2
<1>13. CipherLength(N + K)' = CipherLength(N) + length + K * block
  <2>1. K \in 0 .. K
    BY <1>5
  <2> QED
    BY <1>6, <1>7, <2>1, Zenon
<1>14. CipherLength(Len(blocks))' = CipherLength(N + K)'
  BY <1>7
<1>15. PlaceFound'
  <2> SUFFICES ASSUME NEW x \in 0 .. CipherLength(N + K)'
               PROVE  \E n \in 0 .. N + K :
                        CipherLength(n)' <= x /\ (n < N + K => x < CipherLength(n + 1)')
    BY <1>7, <1>14 DEF PlaceFound
  <2>1. CASE x < CipherLength(N)
    <3>1. PICK n \in 0 .. N : CipherLength(n) <= x /\ (n < N => x < CipherLength(n + 1))
      <4>1. x \in 0 .. CipherLength(Len(blocks))
        BY <1>0, <1>8, <2>1
      <4> QED
        BY <1>0, <1>3, <4>1 DEF PlaceFound
    <3>2. n < N
      <4>1. n = N => ~(x < CipherLength(N))
        BY <1>8, <3>1
      <4> QED
        BY <2>1, <4>1
    <3>3. n + 1 \in 0 .. N /\ n \in 0 .. N + K
      BY <1>5, <3>2
    <3>4. CipherLength(n)' <= x /\ x < CipherLength(n + 1)'
      BY <1>7, <3>1, <3>2, <3>3
    <3> QED
      BY <3>3, <3>4
  <2>2. CASE x >= CipherLength(N)
    <3>1. PICK y \in Nat : x = CipherLength(N) + y
      <4>1. CipherLength(N) \in Nat
        BY <1>8
      <4>2. x - CipherLength(N) \in Nat /\ x = CipherLength(N) + (x - CipherLength(N))
        BY <2>2, <4>1
      <4> QED
        BY <4>2
    <3>2. CipherLength(N) \in Nat
      BY <1>8
    <3>3. CASE y >= length + K * block
      <4>1. CipherLength(N + K)' <= x
        BY <1>4, <1>10, <1>13, <3>1, <3>2, <3>3
      <4>2. N + K \in 0 .. N + K
        BY <1>5
      <4> QED
        BY <4>1, <4>2
    <3>4. CASE y < length + K * block
      <4> DEFINE whole == Longest + block
                 k == y \div whole
      <4>1. whole \in Nat \ {0} /\ k \in Nat /\ k * whole <= y /\ y < k * whole + whole
        <5>1. whole \in Nat \ {0}
          BY <1>4
        <5> QED
          BY <5>1, Quotient
      <4>2. \A i \in Nat : /\ i * whole = i * Longest + i * block
                           /\ i * Longest \in Int /\ i * block \in Int
        BY <1>4, Product
      <4>3. k * whole + whole = (k + 1) * whole
        <5>1. k \in Int /\ whole \in Int
          BY <4>1
        <5>2. (k + 1) * whole = k * whole + 1 * whole
          BY <5>1, Product
        <5> QED
          BY <5>1, <5>2
      <4> HIDE DEF whole, k
      <4>4. k < K
        <5> SUFFICES ASSUME K <= k
                     PROVE  FALSE
          BY <1>5, <4>1
        <5>1. K * whole <= k * whole
          BY <1>5, <4>1, ProductGrows
        <5>2. length <= K * Longest
          <6>1. K \in 0 .. K
            BY <1>5
          <6>2. Part(length, K) <= K * Longest
            BY <1>5, <6>1, Zenon
          <6> QED
            BY <1>6, <6>2
        <5>3. K * whole = K * Longest + K * block /\ K * Longest \in Int /\ k * whole \in Int
          BY <1>5, <4>1, <4>2
        <5> QED
          BY <1>4, <1>10, <3>4, <4>1, <5>1, <5>2, <5>3
      <4>5. k \in 0 .. K /\ k + 1 \in 0 .. K
        BY <1>5, <4>1, <4>4
      <4>6. CipherLength(N + k)' <= x
        <5>1. CipherLength(N + k)' = CipherLength(N) + Part(length, k) + k * block
          BY <1>7, <4>5, Zenon
        <5>2. Part(length, k) <= k * Longest /\ Part(length, k) \in Nat
          BY <1>5, <4>5, Zenon
        <5>3. k * whole = k * Longest + k * block /\ k * Longest \in Int /\ k * block \in Int
          BY <4>1, <4>2
        <5> QED
          BY <3>1, <3>2, <4>1, <5>1, <5>2, <5>3
      <4>7. x < CipherLength(N + (k + 1))'
        <5>1. CipherLength(N + (k + 1))' = CipherLength(N) + Part(length, k + 1) + (k + 1) * block
          BY <1>7, <4>5, Zenon
        <5>2. CASE k + 1 = K
          BY <1>4, <1>6, <1>10, <3>1, <3>2, <3>4, <5>1, <5>2
        <5>3. CASE k + 1 /= K
          <6>1. Part(length, k + 1) = (k + 1) * Longest
            BY <5>3 DEF Part, K
          <6>2. /\ (k + 1) * whole = (k + 1) * Longest + (k + 1) * block
                /\ (k + 1) * Longest \in Int /\ (k + 1) * block \in Int
            BY <4>1, <4>2
          <6> QED
            BY <3>1, <3>2, <4>1, <4>3, <5>1, <6>1, <6>2
        <5> QED
          BY <5>2, <5>3
      <4>8. N + k \in 0 .. N + K /\ N + (k + 1) = (N + k) + 1
        BY <1>5, <4>1, <4>4
      <4>9. x < CipherLength((N + k) + 1)'
        BY <4>7, <4>8
      <4> QED
        BY <4>6, <4>8, <4>9
    <3> QED
      BY <1>4, <1>10, <3>1, <3>3, <3>4
  <2> QED
    BY <1>8, <2>1, <2>2
<1>16. InStep'
  BY <1>3, <1>7, <1>9 DEF StreamInv, InStep
<1>17. CipherLength(N) = drained + encrypted_read_buffer + socket
  BY <1>0, <1>2, <1>9 DEF StreamInv
<1>18. AllOpened'
  <2> SUFFICES ASSUME decryption_counter < N + K
               PROVE  CipherLength(decryption_counter + 1)' > drained + encrypted_read_buffer
    BY <1>7, <1>9 DEF AllOpened
  <2>1. CASE decryption_counter < N
    <3>1. decryption_counter + 1 \in 0 .. N
      BY <1>9, <2>1
    <3>2. CipherLength(decryption_counter + 1) > drained + encrypted_read_buffer
      BY <1>0, <2>1 DEF StreamInv, AllOpened
    <3>3. PICK n \in 0 .. N : n = decryption_counter + 1
      BY <3>1
    <3>4. CipherLength(n)' = CipherLength(n)
      BY <1>7
    <3> QED
      BY <1>9, <3>2, <3>3, <3>4
  <2>2. CASE decryption_counter = N
    <3>1. CipherLength(N + 1)' = CipherLength(N) + Part(length, 1) + 1 * block
      BY <1>5, <1>7
    <3>2. Part(length, 1) \in Nat /\ 1 * block = block
      BY <1>4, <1>5
    <3>3. CipherLength(N + 1)' > drained + encrypted_read_buffer
      BY <1>4, <1>8, <1>9, <1>17, <3>1, <3>2
    <3> QED
      BY <1>9, <2>2, <3>3
  <2> QED
    BY <1>9, <2>1, <2>2
<1>19. /\ reader' /= "failed" /\ (reader' = "reads" => plaintext_read_buffer' = 0)
       /\ encryption_counter' = Len(blocks')
       /\ PlainLength(decryption_counter)' = returned' + plaintext_read_buffer'
  <2>1. PICK n \in 0 .. N : n = decryption_counter
    BY <1>9
  <2>2. PlainLength(n)' = PlainLength(n)
    BY <1>7
  <2> QED
    BY <1>0, <1>1, <1>7, <1>9, <2>1, <2>2 DEF StreamInv, K
<1>20. CipherLength(Len(blocks))' = drained' + encrypted_read_buffer' + socket' + remain'
  BY <1>2, <1>4, <1>8, <1>9, <1>10, <1>13, <1>14, <1>17
<1> QED
  BY <1>11, <1>12, <1>15, <1>16, <1>18, <1>19, <1>20, Zenon DEF StreamInv

\* What a step leaves to be shown that seals nothing
LEMMA SameBlocks ==
  ASSUME StreamInv, blocks' = blocks, encryption_counter' = encryption_counter
  PROVE  /\ BlocksInOrder' /\ PlaceFound' /\ encryption_counter' = Len(blocks')
         /\ CipherLength(Len(blocks))' = CipherLength(Len(blocks))
         /\ \A n : PlainLength(n)' = PlainLength(n) /\ CipherLength(n)' = CipherLength(n)
<1>1. \A n : PlainLength(n)' = PlainLength(n) /\ CipherLength(n)' = CipherLength(n)
  BY Zenon DEF PlainLength, CipherLength
<1>2. CipherLength(Len(blocks))' = CipherLength(Len(blocks))
  BY Zenon DEF CipherLength, PlainLength
<1>3. BlocksInOrder' /\ PlaceFound'
  BY Zenon DEF StreamInv, BlocksInOrder, PlaceFound, CipherLength, PlainLength
<1> QED
  BY <1>1, <1>2, <1>3, Zenon DEF StreamInv

LEMMA WriteRight ==
  ASSUME StreamAssumption, StreamInv, Write
  PROVE  StreamInv'
<1>1. PICK wrote \in 1 .. remain : remain' = remain - wrote /\ socket' = socket + wrote
  BY DEF Write
<1>2. /\ blocks' = blocks /\ encryption_counter' = encryption_counter
      /\ reader' = reader /\ asked' = asked /\ encrypted_read_buffer' = encrypted_read_buffer
      /\ drained' = drained /\ plaintext_read_buffer' = plaintext_read_buffer
      /\ decryption_counter' = decryption_counter /\ returned' = returned
  BY DEF Write, readerVars
<1>3. StreamTypeOK
  BY DEF StreamInv
<1>4. StreamTypeOK'
  BY <1>1, <1>2, <1>3 DEF StreamTypeOK
<1>5. /\ BlocksInOrder' /\ PlaceFound' /\ encryption_counter' = Len(blocks')
      /\ CipherLength(Len(blocks))' = CipherLength(Len(blocks))
  BY <1>2, SameBlocks, Zenon
<1>6. InStep' /\ AllOpened' /\ PlainLength(decryption_counter)' = returned' + plaintext_read_buffer'
  BY <1>2, Zenon DEF StreamInv, InStep, AllOpened, CipherLength, PlainLength
<1>7. CipherLength(Len(blocks)) = drained + encrypted_read_buffer + socket + remain
  BY DEF StreamInv
<1>8. CipherLength(Len(blocks))' = drained' + encrypted_read_buffer' + socket' + remain'
  BY <1>1, <1>2, <1>3, <1>5, <1>7 DEF StreamTypeOK
<1>9. reader' /= "failed" /\ (reader' = "reads" => plaintext_read_buffer' = 0)
  BY <1>2, Zenon DEF StreamInv
<1> QED
  BY <1>4, <1>5, <1>6, <1>8, <1>9, Zenon DEF StreamInv

\* What is returned comes out of the plaintext, and no more than there is.
LEMMA Returned ==
  ASSUME NEW plain \in Nat, NEW count \in Nat, returned \in Nat, Return(plain, count)
  PROVE  /\ reader' = "calls" /\ asked' = 0
         /\ returned' \in Nat /\ plaintext_read_buffer' \in Nat
         /\ returned' + plaintext_read_buffer' = returned + plain
BY DEF Return

LEMMA CallRight ==
  ASSUME StreamAssumption, StreamInv, Call
  PROVE  StreamInv'
<1>1. PICK count \in Counts :
        IF plaintext_read_buffer > 0
        THEN Return(plaintext_read_buffer, count)
        ELSE reader' = "reads" /\ asked' = count /\ UNCHANGED <<plaintext_read_buffer, returned>>
  BY DEF Call
<1>2. /\ blocks' = blocks /\ encryption_counter' = encryption_counter
      /\ remain' = remain /\ socket' = socket /\ encrypted_read_buffer' = encrypted_read_buffer
      /\ drained' = drained /\ decryption_counter' = decryption_counter
  BY DEF Call
<1>3. StreamTypeOK /\ count \in Nat /\ MaxBytes \in Nat
  BY DEF StreamInv, StreamAssumption
<1>4. PlainLength(decryption_counter) = returned + plaintext_read_buffer
  BY DEF StreamInv
<1>5. /\ reader' \in {"calls", "reads"} /\ asked' \in Counts \cup {0}
      /\ returned' \in Nat /\ plaintext_read_buffer' \in Nat
      /\ returned' + plaintext_read_buffer' = returned + plaintext_read_buffer
      /\ reader' = "reads" => plaintext_read_buffer' = 0
  <2>1. plaintext_read_buffer \in Nat /\ returned \in Nat
    BY <1>3 DEF StreamTypeOK
  <2>2. CASE plaintext_read_buffer > 0
    <3>1. Return(plaintext_read_buffer, count)
      BY <1>1, <2>2
    <3> QED
      BY <1>3, <2>1, <3>1, Returned
  <2>3. CASE ~(plaintext_read_buffer > 0)
    BY <1>1, <2>1, <2>3
  <2> QED
    BY <2>2, <2>3
<1>6. PlainLength(decryption_counter) <= MaxBytes
  BY <1>3, Lengths DEF StreamTypeOK
<1>7. returned' \in 0 .. MaxBytes
  <2>1. PICK r \in Nat, p \in Nat : r = returned' /\ p = plaintext_read_buffer'
    BY <1>5
  <2>2. r + p <= MaxBytes
    BY <1>4, <1>5, <1>6, <2>1
  <2>3. r \in 0 .. MaxBytes
    BY <1>3, <2>2
  <2> QED
    BY <2>1, <2>3, Zenon
<1>8. StreamTypeOK'
  BY <1>2, <1>3, <1>5, <1>7 DEF StreamTypeOK
<1>9. /\ BlocksInOrder' /\ PlaceFound' /\ encryption_counter' = Len(blocks')
      /\ CipherLength(Len(blocks))' = CipherLength(Len(blocks))
  BY <1>2, SameBlocks, Zenon
<1>10. InStep' /\ AllOpened' /\ PlainLength(decryption_counter)' = PlainLength(decryption_counter)
  BY <1>2, Zenon DEF StreamInv, InStep, AllOpened, CipherLength, PlainLength
<1>11. CipherLength(Len(blocks))' = drained' + encrypted_read_buffer' + socket' + remain'
  BY <1>2, <1>9, Zenon DEF StreamInv
<1>12. /\ reader' /= "failed" /\ (reader' = "reads" => plaintext_read_buffer' = 0)
       /\ PlainLength(decryption_counter)' = returned' + plaintext_read_buffer'
  BY <1>4, <1>5, <1>10
<1> QED
  BY <1>8, <1>9, <1>10, <1>11, <1>12, Zenon DEF StreamInv

\* A read that leaves two bytes at least finds the block that its counter says, and opens all
\* that are there.
LEMMA ReadBlocksRight ==
  ASSUME StreamAssumption, ~LoneBytes, StreamInv, ReadBlocks
  PROVE  StreamInv'
<1> DEFINE dc == decryption_counter
<1>1. StreamTypeOK /\ BlocksInOrder /\ InStep /\ reader /= "failed"
  BY DEF StreamInv
<1>2. /\ CipherLength(Len(blocks)) = drained + encrypted_read_buffer + socket + remain
      /\ PlainLength(dc) = returned + plaintext_read_buffer
  BY DEF StreamInv
<1>3. /\ dc \in 0 .. Len(blocks) /\ Len(blocks) \in Nat
      /\ drained \in Nat /\ encrypted_read_buffer \in Nat /\ socket \in Nat /\ remain \in Nat
      /\ returned \in Nat /\ plaintext_read_buffer \in Nat /\ asked \in Counts \cup {0} /\ asked \in Nat
      /\ MaxBytes \in Nat /\ Buffer \in Nat
  BY <1>1, Lengths DEF StreamTypeOK, StreamAssumption
<1>4. PICK got \in 1 .. (IF socket > Buffer THEN Buffer ELSE socket) :
       LET length == encrypted_read_buffer + got
           n == WholeBlocks(length)
           consumed == CipherLength(n) - CipherLength(decryption_counter)
           plain == PlainLength(n) - PlainLength(decryption_counter)
       IN  /\ LoneBytes \/ length /= 1
           /\ socket' = socket - got
           /\ IF ~Decrypts(length)
              THEN /\ reader' = "failed"
                   /\ encrypted_read_buffer' = length
                   /\ UNCHANGED <<drained, decryption_counter, plaintext_read_buffer, returned,
                                  asked>>
              ELSE /\ decryption_counter' = n
                   /\ encrypted_read_buffer' = length - consumed
                   /\ drained' = drained + consumed
                   /\ IF plain > 0 THEN Return(plain, asked)
                      ELSE UNCHANGED <<reader, asked, plaintext_read_buffer, returned>>
  BY Zenon DEF ReadBlocks
<1> DEFINE length == encrypted_read_buffer + got
           n == WholeBlocks(length)
           consumed == CipherLength(n) - CipherLength(dc)
           plain == PlainLength(n) - PlainLength(dc)
<1>5. /\ blocks' = blocks /\ encryption_counter' = encryption_counter /\ remain' = remain
      /\ reader = "reads" /\ plaintext_read_buffer = 0
  BY DEF ReadBlocks, StreamInv
<1>6. got \in Nat /\ 1 <= got /\ got <= socket
  BY <1>3
<1>7. length \in Nat /\ length >= 2
  <2>1. length /= 1
    BY <1>4
  <2> QED
    BY <1>3, <1>6, <2>1
<1>8. Decrypts(length)
  BY <1>1, <1>7 DEF Decrypts, Header
<1>9. /\ socket' = socket - got /\ decryption_counter' = n
      /\ encrypted_read_buffer' = length - consumed
      /\ drained' = drained + consumed
      /\ IF plain > 0 THEN Return(plain, asked)
         ELSE UNCHANGED <<reader, asked, plaintext_read_buffer, returned>>
  BY <1>4, <1>8, Zenon
<1>10. drained + length <= CipherLength(Len(blocks))
  BY <1>2, <1>3, <1>6
<1>11. /\ n \in dc .. Len(blocks) /\ CipherLength(n) <= drained + length
       /\ n < Len(blocks) => CipherLength(n + 1) > drained + length
  BY <1>7, <1>10, BlocksFound
<1> HIDE DEF n, length
<1>12. /\ n \in 0 .. Len(blocks) /\ CipherLength(n) \in Nat /\ CipherLength(dc) \in Nat
       /\ PlainLength(n) \in Nat /\ PlainLength(dc) \in Nat /\ PlainLength(n) <= MaxBytes
       /\ CipherLength(dc) = drained
  <2>1. n \in 0 .. Len(blocks)
    BY <1>3, <1>11
  <2>2. CipherLength(dc) = drained
    BY <1>1 DEF InStep
  <2> QED
    BY <1>1, <1>3, <2>1, <2>2, Lengths
<1>13. consumed \in Nat /\ plain \in Nat /\ (plain = 0 => n = dc)
  <2>1. CASE n = dc
    BY <1>12, <2>1
  <2>2. CASE n /= dc
    <3>1. dc < n
      BY <1>3, <1>11, <2>2
    <3>2. PlainLength(dc) < PlainLength(n) /\ CipherLength(dc) < CipherLength(n)
      BY <1>1, <1>3, <1>12, <3>1, LengthsGrow
    <3> QED
      BY <1>12, <3>2
  <2> QED
    BY <2>1, <2>2
<1>14. /\ drained' = CipherLength(n) /\ drained' \in Nat /\ encrypted_read_buffer' \in Nat
       /\ drained' + encrypted_read_buffer' = drained + length
  <2>1. /\ CipherLength(n) \in Nat /\ CipherLength(dc) = drained /\ drained \in Nat
        /\ CipherLength(n) <= drained + length /\ length \in Nat
        /\ drained' = drained + (CipherLength(n) - CipherLength(dc))
        /\ encrypted_read_buffer' = length - (CipherLength(n) - CipherLength(dc))
        /\ CipherLength(n) - CipherLength(dc) \in Nat
    BY <1>3, <1>7, <1>9, <1>11, <1>12, <1>13, Zenon
  <2>2. PICK e : e = CipherLength(n)
    OBVIOUS
  <2>3. drained' = e /\ encrypted_read_buffer' = length - (e - drained)
    BY <2>1, <2>2
  <2> QED
    BY <2>1, <2>2, <2>3
<1>15. /\ reader' \in {"calls", "reads"} /\ asked' \in Counts \cup {0}
       /\ returned' \in Nat /\ plaintext_read_buffer' \in Nat
       /\ PlainLength(n) = returned' + plaintext_read_buffer'
       /\ reader' = "reads" => plaintext_read_buffer' = 0
  <2> HIDE DEF plain
  <2>1. CASE plain > 0
    <3>1. Return(plain, asked)
      BY <1>9, <2>1
    <3>2. /\ reader' = "calls" /\ asked' = 0
          /\ returned' \in Nat /\ plaintext_read_buffer' \in Nat
          /\ returned' + plaintext_read_buffer' = returned + plain
      BY <1>3, <1>13, <3>1, Returned
    <3>3. PlainLength(n) = returned + plain
      BY <1>2, <1>3, <1>5, <1>12 DEF plain
    <3> QED
      BY <3>2, <3>3
  <2>2. CASE ~(plain > 0)
    <3>1. plain = 0 /\ n = dc
      BY <1>13, <2>2
    <3>2. UNCHANGED <<reader, asked, plaintext_read_buffer, returned>>
      BY <1>9, <2>2
    <3> QED
      BY <1>2, <1>3, <1>5, <3>1, <3>2
  <2> QED
    BY <2>1, <2>2
<1>16. returned' \in 0 .. MaxBytes
  <2>1. PICK r \in Nat, p \in Nat : r = returned' /\ p = plaintext_read_buffer'
    BY <1>15
  <2>2. r + p <= MaxBytes
    BY <1>12, <1>15, <2>1
  <2>3. r \in 0 .. MaxBytes
    BY <1>3, <2>2
  <2> QED
    BY <2>1, <2>3, Zenon
<1>17. StreamTypeOK'
  <2>1. decryption_counter' \in 0 .. Len(blocks')
    BY <1>5, <1>9, <1>12
  <2>2. socket' \in Nat /\ remain' \in Nat
    BY <1>3, <1>5, <1>6, <1>9
  <2> QED
    BY <1>1, <1>5, <1>14, <1>15, <1>16, <2>1, <2>2 DEF StreamTypeOK
<1>18. /\ BlocksInOrder' /\ PlaceFound' /\ encryption_counter' = Len(blocks')
       /\ CipherLength(Len(blocks))' = CipherLength(Len(blocks))
       /\ \A m : PlainLength(m)' = PlainLength(m) /\ CipherLength(m)' = CipherLength(m)
  BY <1>5, SameBlocks, Zenon
<1>19. PICK m \in 0 .. Len(blocks) : m = n
  BY <1>12
<1>20. InStep' /\ PlainLength(decryption_counter)' = returned' + plaintext_read_buffer'
  <2>1. CipherLength(decryption_counter)' = CipherLength(m)' /\ PlainLength(decryption_counter)' = PlainLength(m)'
    BY <1>9, <1>19
  <2> QED
    BY <1>14, <1>15, <1>18, <1>19, <2>1, Zenon DEF InStep
<1>21. AllOpened'
  <2> SUFFICES ASSUME m < Len(blocks)
               PROVE  CipherLength(m + 1)' > drained' + encrypted_read_buffer'
    BY <1>5, <1>9, <1>19 DEF AllOpened
  <2>1. CipherLength(m + 1)' = CipherLength(m + 1)
    BY <1>18
  <2> QED
    BY <1>11, <1>14, <1>19, <2>1
<1>22. CipherLength(Len(blocks))' = drained' + encrypted_read_buffer' + socket' + remain'
  <2>1. drained' + encrypted_read_buffer' = drained + (encrypted_read_buffer + got)
    BY <1>14 DEF length
  <2>2. socket' = socket - got /\ remain' = remain
    BY <1>5, <1>9
  <2>3. CipherLength(Len(blocks))' = drained + encrypted_read_buffer + socket + remain
    BY <1>2, <1>18
  <2>4. PICK d \in Nat, e \in Nat : d = drained' /\ e = encrypted_read_buffer'
    BY <1>14
  <2>5. d + e = drained + (encrypted_read_buffer + got)
    BY <2>1, <2>4
  <2>6. d + e + (socket - got) + remain = drained + encrypted_read_buffer + socket + remain
    BY <1>3, <1>6, <2>5
  <2> QED
    BY <2>2, <2>3, <2>4, <2>6
<1>23. reader' /= "failed"
  BY <1>15
<1> QED
  BY <1>15, <1>17, <1>18, <1>20, <1>21, <1>22, <1>23, Zenon DEF StreamInv

LEMMA StreamInitRight ==
  ASSUME StreamAssumption, StreamInit
  PROVE  StreamInv
<1>1. /\ blocks = <<>> /\ Len(blocks) = 0 /\ blocks \in Seq(1 .. MaxBytes) /\ encryption_counter = 0
      /\ remain = 0 /\ socket = 0 /\ reader = "calls" /\ asked = 0 /\ encrypted_read_buffer = 0
      /\ drained = 0 /\ plaintext_read_buffer = 0 /\ decryption_counter = 0 /\ returned = 0
  BY DEF StreamInit
<1>2. StreamTypeOK
  BY <1>1 DEF StreamTypeOK, StreamAssumption
<1>3. PlainLength(0) = 0 /\ CipherLength(0) = 0
  BY Overhead DEF PlainLength, CipherLength
<1>4. BlocksInOrder /\ InStep /\ AllOpened
  BY <1>1, <1>3 DEF BlocksInOrder, InStep, AllOpened
<1>5. PlaceFound
  BY <1>1, <1>3 DEF PlaceFound
<1> QED
  BY <1>1, <1>2, <1>3, <1>4, <1>5 DEF StreamInv

LEMMA StreamStepRight ==
  ASSUME StreamAssumption, ~LoneBytes, StreamInv, [StreamNext]_streamVars
  PROVE  StreamInv'
<1>1. CASE UNCHANGED streamVars
  BY <1>1, Zenon DEF streamVars, StreamInv, StreamTypeOK, BlocksInOrder, PlaceFound, InStep,
                     AllOpened, PlainLength, CipherLength
<1>2. CASE StreamNext
  BY <1>2, EncryptRight, WriteRight, CallRight, ReadBlocksRight, Zenon DEF StreamNext
<1> QED
  BY <1>1, <1>2, Zenon

\* Every step of either end (encrypt, decrypt, read_encrypted) keeps the places of both ends in
\* the sealed stream, and no block that is there as a whole stays sealed.
THEOREM StreamStaysRight ==
  ASSUME StreamAssumption, ~LoneBytes
  PROVE  StreamSpec => []StreamInv
<1>1. StreamInit => StreamInv
  BY StreamInitRight
<1>2. StreamInv /\ [StreamNext]_streamVars => StreamInv'
  BY StreamStepRight
<1> QED
  BY <1>1, <1>2, PTL DEF StreamSpec

\* However write(2) and read(2) divide a stream of whatever messages, and whatever is asked for
\* at once, read_encrypted loses no byte and takes none twice, opens every block with the counter
\* it was sealed with, and does not fail, as long as TCP never leaves it a single byte.
THEOREM StreamsStayInStep ==
  ASSUME StreamAssumption, ~LoneBytes
  PROVE  StreamSpec => []StreamsAgree
<1>1. StreamSpec => []StreamInv
  BY StreamStaysRight
<1>2. StreamInv => StreamsAgree
  BY Zenon DEF StreamInv, AllOpened, StreamsAgree
<1> QED
  BY <1>1, <1>2, PTL
=============================================================================
