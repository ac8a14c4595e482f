------------------------------ MODULE PairTlv ------------------------------
(***************************************************************************)
(* The messages of pairing as bytes: pair_tlv_add_value, pair_tlv_format   *)
(* and pair_tlv_parse.  A message is a list of values; a value goes out in *)
(* chunks of a type, a length and at most 255 bytes of data.  Chunk is     *)
(* that number made small.                                                 *)
(*                                                                         *)
(* A byte of data is named after the value it is of and its place in it,   *)
(* so that a byte that gets lost, or into another value, is noticed.       *)
(***************************************************************************)
EXTENDS Integers, Sequences, SequencesExt

CONSTANTS Chunk, Types, Sizes, MaxValues

VARIABLES values    \* the list: for each value its type and its data

\* A value that pair_tlv_add_value copies: the n-th of the list
Value(n, type, size) == [type |-> type, data |-> [i \in 1 .. size |-> <<n, i>>]]

TlvInit == values = <<>>

\* pair_tlv_add_value, by whoever makes a message: no type is added twice in a row, and
\* only the separator has no data.
AddValue ==
  /\ Len(values) < MaxValues
  /\ \E type \in Types, size \in Sizes :
       /\ size = 0 <=> type = "separator"
       /\ values /= <<>> => Last(values).type /= type
       /\ values' = Append(values, Value(Len(values) + 1, type, size))

-----------------------------------------------------------------------------
\* One value in chunks: a type, a length, data
Chunks(v) ==
  LET count == (Len(v.data) + Chunk - 1) \div Chunk
      Part(k) == SubSeq(v.data, k * Chunk + 1,
                        IF k + 1 = count THEN Len(v.data) ELSE (k + 1) * Chunk)
  IN  IF v.data = <<>> THEN <<v.type, 0>>
      ELSE FlattenSeq([k \in 1 .. count |-> <<v.type, Len(Part(k - 1))>> \o Part(k - 1)])

\* pair_tlv_format writes everything, and returns a size to which a value without data
\* adds nothing: what is sent is cut off there.
RequiredSize(vs) ==
  FoldLeft(LAMBDA sum, v : sum + Len(v.data) + 2 * ((Len(v.data) + Chunk - 1) \div Chunk),
           0, vs)
Format(vs) == SubSeq(FlattenSeq([n \in DOMAIN vs |-> Chunks(vs[n])]), 1, RequiredSize(vs))

-----------------------------------------------------------------------------
\* A full chunk is taken to go on whatever follows
BugLastChunk(buffer, i) ==
  LET last[j \in Nat] ==
        IF j + 1 <= Len(buffer) /\ buffer[j] = buffer[i] /\ buffer[j + 1] = Chunk
           /\ j + Chunk + 3 <= Len(buffer)
        THEN last[j + Chunk + 2] ELSE j
  IN  last[i]

\* pair_tlv_parse.  From place i on, the chunks of one value: all that are full, and the
\* one after them if it has the same type.
LastChunk(buffer, i) ==
  LET last[j \in Nat] ==
        IF j + 1 <= Len(buffer) /\ buffer[j] = buffer[i] /\ buffer[j + 1] = Chunk
           /\ j + Chunk + 3 <= Len(buffer) /\ buffer[j + Chunk + 2] = buffer[i]
        THEN last[j + Chunk + 2] ELSE j
  IN  last[i]

TooShort == [error |-> "PAIR_TLV_ERROR_INSUFFICIENT_SIZE"]

\* The data between i and the end of the last chunk, without the headers of the chunks
DataOf(buffer, i, end) ==
  LET n == 1 + (end - i) \div (Chunk + 2)
      Part(k) == LET at == i + k * (Chunk + 2) IN SubSeq(buffer, at + 2, at + 1 + buffer[at + 1])
  IN  FlattenSeq([k \in 1 .. n |-> Part(k - 1)])

Parse(buffer) ==
  LET from[i \in Nat] ==
        IF i > Len(buffer) THEN [error |-> "none", values |-> <<>>]
        ELSE IF i + 1 > Len(buffer) THEN TooShort
        ELSE LET end == LastChunk(buffer, i)
                 after == end + 2 + buffer[end + 1]
             IN  IF after > Len(buffer) + 1 THEN TooShort
                 ELSE LET rest == from[after]
                      IN  IF rest.error /= "none" THEN rest
                          ELSE [rest EXCEPT !.values =
                                 <<[type |-> buffer[i], data |-> DataOf(buffer, i, end)]>> \o @]
  IN  from[1]

-----------------------------------------------------------------------------
TlvTypeOK == values \in Seq([type : Types, data : Seq(Nat \X Nat)])

\* What one end makes into a message, the other gets out of it: values longer than a chunk,
\* values that fill their chunks to the byte, and an empty one at the end.
HasSeparator == \E n \in DOMAIN values : values[n].data = <<>>
RoundTrip ==
  ~HasSeparator => Parse(Format(values)) = [error |-> "none", values |-> values]

\* What server_list_cb relies on when it puts a separator between two pairings
SeparatedRoundTrip == Parse(Format(values)) = [error |-> "none", values |-> values]
=============================================================================
