----------------------------- MODULE SampleOutput -----------------------------
(***************************************************************************)
(* A sample on its way out, as process_sample takes it: times the volume   *)
(* in a product of twice its width, with dither of the width that is then  *)
(* cut off, cut to the width of the output's format, and put down byte by  *)
(* byte.  Widths are those of the code divided by the same number: with    *)
(* Byte bits to a byte, four bytes to a sample and eight to a product.     *)
(***************************************************************************)
EXTENDS Integers, Sequences, SequencesExt

CONSTANTS
  Byte,           \* 8
  Volumes,        \* fix_volume, up to what stands for 0x10000
  Loudness        \* values of do_loudness

VARIABLES
  sample, volume, format, dither,
  loud,           \* do_loudness: the volume is in the sample already
  r, previous_random_number,
  hyper_sample,
  stage,          \* "scale", "dither", "place" or "done"
  out             \* the bytes

sampleVars ==
  <<sample, volume, format, dither, loud, r, previous_random_number, hyper_sample, stage, out>>

Bits == 4 * Byte          \* of a sample
Wide == 8 * Byte          \* of the product, int64_t
Signed(width) == -(2 ^ (width - 1)) .. 2 ^ (width - 1) - 1
MaxWide == 2 ^ (Wide - 1) - 1
MinWide == -(2 ^ (Wide - 1))

Formats ==
  {"S32_LE", "S32_BE", "S24_3LE", "S24_3BE", "S24_LE", "S24_BE", "S24", "S16_LE", "S16_BE", "S8", "U8"}

Width(f) == Byte * (CASE f \in {"S32_LE", "S32_BE"} -> 4
                      [] f \in {"S24_3LE", "S24_3BE", "S24_LE", "S24_BE", "S24"} -> 3
                      [] f \in {"S16_LE", "S16_BE"} -> 2
                      [] f \in {"S8", "U8"} -> 1)

\* The bits that dither is of: all that will be cut off.
Mask(f) == 2 ^ (Wide - Width(f)) - 1

SampleInit ==
  /\ sample \in Signed(Bits) /\ volume \in Volumes /\ format \in Formats
  /\ dither \in BOOLEAN /\ loud \in Loudness
  /\ r \in IF dither THEN {0, Mask(format)} ELSE {0}
  /\ previous_random_number \in IF dither THEN {0, Mask(format)} ELSE {0}
  /\ hyper_sample = 0 /\ stage = "scale" /\ out = <<>>

Scale ==
  /\ stage = "scale"
  /\ hyper_sample' = IF loud THEN sample * 2 ^ Bits ELSE sample * (volume * 2 ^ (2 * Byte))
  /\ stage' = IF dither THEN "dither" ELSE "place"
  /\ UNCHANGED <<sample, volume, format, dither, loud, r, previous_random_number, out>>

\* The sum with dither, which is kept from overflowing.
BugClipped(h, tpdf) == h + tpdf
Clipped(h, tpdf) ==
  IF tpdf >= 0
    THEN IF MaxWide - tpdf >= h THEN h + tpdf ELSE MaxWide
    ELSE IF MinWide - tpdf <= h THEN h + tpdf ELSE MinWide

Dither ==
  /\ stage = "dither"
  /\ hyper_sample' = Clipped(hyper_sample, r - previous_random_number)
  /\ previous_random_number' = r
  /\ stage' = "place"
  /\ UNCHANGED <<sample, volume, format, dither, loud, r, out>>

Octet(n, j) == (n \div 2 ^ (Byte * j)) % 2 ^ Byte
LittleEnd(n, bytes) == [j \in 1 .. bytes |-> Octet(n, j - 1)]
BigEnd(n, bytes) == Reverse(LittleEnd(n, bytes))

\* U8 has its zero in the middle; 24 bits in four bytes have a byte of 0, or of sign for the
\* format of the machine itself.
Bytes(n, f) ==
  CASE f = "S32_LE" -> LittleEnd(n, 4)
    [] f = "S32_BE" -> BigEnd(n, 4)
    [] f = "S24_3LE" -> LittleEnd(n, 3)
    [] f = "S24_3BE" -> BigEnd(n, 3)
    [] f = "S24_LE" -> LittleEnd(n, 3) \o <<0>>
    [] f = "S24_BE" -> <<0>> \o BigEnd(n, 3)
    [] f = "S24" -> LittleEnd(n, 4)
    [] f = "S16_LE" -> LittleEnd(n, 2)
    [] f = "S16_BE" -> BigEnd(n, 2)
    [] f = "S8" -> LittleEnd(n, 1)
    [] f = "U8" -> LittleEnd(n + 2 ^ (Byte - 1), 1)

Place ==
  /\ stage = "place"
  /\ out' = Bytes(hyper_sample \div 2 ^ (Wide - Width(format)), format)
  /\ stage' = "done"
  /\ UNCHANGED <<sample, volume, format, dither, loud, r, previous_random_number, hyper_sample>>

SampleNext == Scale \/ Dither \/ Place

SampleSpec == SampleInit /\ [][SampleNext]_sampleVars

---------------------------------------------------------------------------
SampleTypeOK ==
  /\ hyper_sample \in Signed(Wide)
  /\ stage \in {"scale", "dither", "place", "done"}
  /\ out \in Seq(0 .. 2 ^ Byte - 1) /\ Len(out) <= 4

\* What the device makes of the bytes.
Unsigned(bytes) == FoldLeftDomain(LAMBDA n, j : n + bytes[j] * 2 ^ (Byte * (j - 1)), 0, bytes)
Number(bytes) ==
  IF Unsigned(bytes) < 2 ^ (Byte * Len(bytes) - 1) THEN Unsigned(bytes)
  ELSE Unsigned(bytes) - 2 ^ (Byte * Len(bytes))

Device(f) ==
  CASE f \in {"S32_LE", "S24_3LE", "S24", "S16_LE", "S8"} -> Number(out)
    [] f \in {"S32_BE", "S24_3BE", "S16_BE"} -> Number(Reverse(out))
    [] f = "S24_LE" -> Number(SubSeq(out, 1, 3))
    [] f = "S24_BE" -> Number(Reverse(SubSeq(out, 2, 4)))
    [] f = "U8" -> Unsigned(out) - 2 ^ (Byte - 1)

\* The device plays the sample at its volume, whatever the format: rounded down, and with
\* dither within two steps of it, on this side of the largest there is.
PlayedAsMeant ==
  stage = "done" =>
    LET meant == sample * (IF loud THEN 2 ^ Bits ELSE volume * 2 ^ (2 * Byte))
        exact == meant \div 2 ^ (Wide - Width(format))
    IN IF dither THEN Device(format) \in exact - 2 .. exact + 2 ELSE Device(format) = exact
=============================================================================
