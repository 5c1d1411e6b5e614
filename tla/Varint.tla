-------------------------------- MODULE Varint --------------------------------
(***************************************************************************)
(* The variable-length integers of VCDIFF (xdelta3-internal.h).  A byte    *)
(* holds Bits bits of the number, most significant first, and says whether *)
(* another follows.  The decoder takes bytes as they come and keeps the    *)
(* part of an integer it has read in the stream (dec_32part, dec_64part);  *)
(* inside a section a second reader has all of the bytes at hand.          *)
(***************************************************************************)
EXTENDS Integers, Sequences

CONSTANTS
  Bits,    \* bits of the number in a byte (7)
  Width,   \* bits of the type (32 for usize_t and 64 for xoff_t, or 64 for both)
  MaxBytes \* bound: bytes of an integer that is read

ASSUME VarintAssumption ==
  /\ Bits \in Nat \ {0} /\ Width \in Nat /\ Width > Bits
  /\ MaxBytes \in Nat

Radix == 2^Bits
Limit == 2^Width          \* values of the type
Byte  == 0 .. 2 * Radix - 1
More(byte)  == byte >= Radix
Digit(byte) == byte % Radix

\* UINT32_OFLOW_MASK: the Bits upper bits of the type.
OverflowsMutantNarrow(part) == part \div 2^(Width - Bits + 1) # 0
Overflows(part) == part \div 2^(Width - Bits) # 0

\* PART << 7 | next & 127, in Width bits.
Shift(part, byte) == (part * Radix + Digit(byte)) % Limit

-----------------------------------------------------------------------------
(* The encoder. *)

Digits[num \in Nat] ==
  IF num < Radix THEN <<num>> ELSE Append(Digits[num \div Radix], num % Radix)

\* EMIT_INTEGER_TYPE: all bytes but the last have the upper bit.
Emit(num) ==
  LET d == Digits[num]
  IN  [i \in DOMAIN d |-> IF i < Len(d) THEN d[i] + Radix ELSE d[i]]

\* xd3_sizeof_uint32_t: 5 (10 for 64 bits) is what is left.
MaxSize == (Width + Bits - 1) \div Bits
Sizeof(num) ==
  IF \E n \in 1 .. MaxSize - 1 : num < 2^(Bits * n)
    THEN CHOOSE n \in 1 .. MaxSize - 1 :
           num < 2^(Bits * n) /\ \A m \in 1 .. n - 1 : num >= 2^(Bits * m)
    ELSE MaxSize

-----------------------------------------------------------------------------
(* READ_INTEGER_TYPE: val[i] is val after i bytes, as far as the loop gets; *)
(* the result is the integer and the bytes it took, or -1.                  *)

Read(bytes) ==
  LET val[i \in 0 .. Len(bytes)] == IF i = 0 THEN 0 ELSE Shift(val[i - 1], bytes[i])
      stops == {i \in 1 .. Len(bytes) : Overflows(val[i - 1]) \/ ~More(bytes[i])}
      n == CHOOSE i \in stops : \A j \in stops : i <= j
  IN  IF stops = {} \/ Overflows(val[n - 1]) THEN [val |-> -1, size |-> Len(bytes)]
      ELSE [val |-> val[n], size |-> n]

-----------------------------------------------------------------------------
(* The decoder of the stream: DECODE_INTEGER_TYPE, a byte at a time. *)

VARIABLES
  part,    \* stream->dec_32part
  val,     \* what the last integer was, or -1
  status,  \* what xd3_decode_size returns: "OK", "INPUT" or "INVALID"
  taken,   \* history: the bytes of the integer so far
  number,  \* history: the integer that the encoder has emitted, or -1: any input
  coming   \* the bytes of number that are not read

varintVars == <<part, val, status, taken, number, coming>>

VarintInit ==
  /\ part = 0 /\ val = -1 /\ status = "INPUT" /\ taken = <<>>
  /\ number \in -1 .. Limit - 1
  /\ coming = IF number = -1 THEN <<>> ELSE Emit(number)

DecodeByte(byte) ==
  /\ status = "INPUT"
  /\ taken' = Append(taken, byte)
  /\ IF Overflows(part)
       THEN status' = "INVALID" /\ UNCHANGED <<part, val>>
       ELSE IF More(byte)
         THEN part' = Shift(part, byte) /\ UNCHANGED <<val, status>>
         ELSE status' = "OK" /\ val' = Shift(part, byte) /\ part' = 0

\* The next byte, of what was emitted or of any input.
VarintByte ==
  \E byte \in Byte :
    /\ DecodeByte(byte)
    /\ IF number = -1 THEN Len(taken) < MaxBytes /\ UNCHANGED coming
       ELSE coming # <<>> /\ byte = Head(coming) /\ coming' = Tail(coming)
    /\ UNCHANGED number

\* The next integer: any input.
VarintAgain ==
  /\ status = "OK" /\ Len(taken) <= 2
  /\ status' = "INPUT" /\ taken' = <<>> /\ number' = -1 /\ coming' = <<>>
  /\ UNCHANGED <<part, val>>

VarintNext == VarintByte \/ VarintAgain

-----------------------------------------------------------------------------
(* What the bytes mean, without a width. *)

Value(bytes) ==
  LET sum[i \in 0 .. Len(bytes)] == IF i = 0 THEN 0 ELSE sum[i - 1] * Radix + Digit(bytes[i])
  IN  sum[Len(bytes)]

\* The overflow test (a look at the upper bits before the next shift) refuses
\* exactly the integers that do not fit, also those with leading zeros and those
\* that follow another one; both readers agree on every sequence of bytes; and an
\* integer that is emitted is read as itself, in as many bytes as xd3_sizeof_size
\* says, which the length of a window's encoding is computed from.
IntegersRead ==
  /\ status = "OK" => val = Value(taken) /\ Value(taken) < Limit /\ Read(taken) = [val |-> val, size |-> Len(taken)]
  /\ status = "INVALID" => Value(taken) >= Limit /\ Read(taken).val = -1
  /\ status = "INPUT" => part = Value(taken)
  /\ number # -1 /\ coming = <<>> =>
       status = "OK" /\ val = number /\ taken = Emit(number) /\ Len(taken) = Sizeof(number)
==============================================================================
