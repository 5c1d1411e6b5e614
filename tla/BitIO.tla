-------------------------------- MODULE BitIO --------------------------------
(* Bits in bytes (xdelta3-second.h).  What is written is a sequence of bits, *)
(* the lowest bit of a byte (cur_mask = 1) first, so a byte is every         *)
(* ByteBits of them; the last one is filled up with zeros.                   *)
EXTENDS Integers, Sequences, SequencesExt, Functions, FiniteSets, TLC

CONSTANTS
  ByteBits,      \* bits of a byte (8)
  ALPHABET_SIZE  \* values of a byte (256)

ASSUME BitIOAssumption ==
  ByteBits \in Nat \ {0} /\ ALPHABET_SIZE \in Nat /\ ALPHABET_SIZE >= 2 /\ ALPHABET_SIZE <= 2^ByteBits

\* FoldLeft, with the state so far evaluated once per element: a step here looks at it often.
Along(Step(_, _), start, seq) ==
  LET after[k \in 0 .. Len(seq)] ==
        IF k = 0 THEN start ELSE LET st == after[k - 1] IN Step(st, seq[k])
  IN  after[Len(seq)]

Symbols == 0 .. ALPHABET_SIZE - 1

\* xd3_encode_bits: the highest bit of the value first.
EncodeBits(nbits, value) == [i \in 1 .. nbits |-> (value \div 2^(nbits - i)) % 2]

\* xd3_decode_bits: the value of bits in that order.
DecodeBits(bits) == Along(LAMBDA value, bit : 2 * value + bit, 0, bits)

\* xd3_flush_bits: a byte that has begun is emitted.
ByteCount(nbits) == (nbits + ByteBits - 1) \div ByteBits
FlushBits(bits) == bits \o [i \in 1 .. ByteCount(Len(bits)) * ByteBits - Len(bits) |-> 0]
==============================================================================
