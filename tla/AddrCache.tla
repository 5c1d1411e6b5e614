------------------------------ MODULE AddrCache ------------------------------
(***************************************************************************)
(* The VCDIFF address caches of xdelta3.c.                                 *)
(*                                                                         *)
(* A COPY instruction names an earlier position of the decoder's address   *)
(* space (the source segment followed by the target produced so far).      *)
(* Encoder and decoder each keep a "near" ring of the last SNear addresses *)
(* and a "same" table of SSame * Radix addresses, and an address is sent   *)
(* as a mode and a small number relative to one of those entries.  Nothing *)
(* but the addresses themselves keeps the two pairs of tables equal, and   *)
(* one disagreement turns every later COPY of the window into garbage.     *)
(*                                                                         *)
(* The wire is the sequence of instructions the encoder has written and    *)
(* the decoder has not read: the start of a window with the lengths of its *)
(* source segment and of its target, an instruction that only adds bytes,  *)
(* a COPY with its mode, the number in the ADDR section and that number's  *)
(* form ("size" for a variable-length integer, "byte" for the one byte of  *)
(* a SAME mode), or the end of the INST section.  The history variable     *)
(* sent remembers, for each of them, the encoder's state when it was       *)
(* written and the address that was meant; no action reads it.             *)
(*                                                                         *)
(* The encoder counts from the start of its input window, the decoder from *)
(* the start of the source segment.                                        *)
(***************************************************************************)
EXTENDS Integers, Sequences

CONSTANTS
  SNear,      \* number of near modes (4 in the default code table)
  SSame,      \* number of same modes (3 in the default code table)
  Radix,      \* values of the one byte of a SAME address (256)
  SmallMax,   \* largest integer that is encoded in one byte (127)
  Segments,   \* lengths of source segment a window may start with
  Lengths,    \* lengths of target a window may have
  Sizes,      \* sizes of an instruction
  MaxPending  \* bound: instructions on the wire

ASSUME CacheAssumption ==
  /\ SNear \in Nat
  /\ SSame \in Nat
  /\ Radix \in Nat \ {0}
  /\ SmallMax \in Nat
  /\ Segments \subseteq Nat
  /\ Lengths \subseteq Nat
  /\ Sizes \subseteq Nat \ {0}

VARIABLES
  enc,               \* the encoder's stream->acache
  enc_state,         \* "ENC_SEARCH" inside a window, "ENC_INPUT" between two
  taroff,            \* source segment of the window being encoded
  avail_in,          \* length of the window being encoded
  unencoded_offset,  \* how much of it has been encoded
  dec,               \* the decoder's stream->acache
  dec_cpylen,        \* source segment of the window being decoded
  dec_maxpos,        \* end of its address space
  dec_position,      \* addresses filled in by the decoder
  failed,            \* the decoder returned XD3_INVALID_INPUT
  wire,              \* instructions written and not yet read
  sent               \* history: what the encoder meant by each of them

encVars == <<enc, enc_state, taroff, avail_in, unencoded_offset>>
decVars == <<dec, dec_cpylen, dec_maxpos, dec_position, failed>>
vars == <<encVars, decVars, wire, sent>>

-----------------------------------------------------------------------------
(* The caches. *)

NearSlots == 0 .. SNear - 1
SameSize  == SSame * Radix
SameSlots == 0 .. SameSize - 1

Caches == [near : [NearSlots -> Nat], next : Nat, same : [SameSlots -> Nat]]

\* xd3_init_cache
InitCache == [near |-> [i \in NearSlots |-> 0],
              next |-> 0,
              same |-> [i \in SameSlots |-> 0]]

\* xd3_update_cache
UpdateCache(c, addr) ==
  [near |-> [i \in NearSlots |-> IF i = c.next THEN addr ELSE c.near[i]],
   next |-> IF c.next + 1 < SNear THEN c.next + 1 ELSE 0,
   same |-> [i \in SameSlots |-> IF i = addr % SameSize THEN addr ELSE c.same[i]]]

-----------------------------------------------------------------------------
(* The encoder's choice of an address mode. *)

VCD_SELF  == 0
VCD_HERE  == 1
SameStart == 2 + SNear

\* The modes that can express addr as an integer, and the integer of each.
IntModes(c, addr) ==
  {VCD_SELF, VCD_HERE} \cup {m \in 2 .. SameStart - 1 : c.near[m - 2] <= addr}

Delta(c, addr, pos, m) ==
  IF m = VCD_SELF THEN addr
  ELSE IF m = VCD_HERE THEN pos - addr
  ELSE addr - c.near[m - 2]

SameHit(c, addr) == SSame > 0 /\ c.same[addr % SameSize] = addr

\* SMALLEST_INT leaves the search at the first integer of one byte.
SmallModes(c, addr, pos) ==
  {m \in IntModes(c, addr) : Delta(c, addr, pos, m) <= SmallMax}

FirstMode(ms) == CHOOSE m \in ms : \A n \in ms : m <= n

\* Otherwise the strictly smallest integer wins, the earliest mode on a tie.
LeastModes(c, addr, pos) ==
  {m \in IntModes(c, addr) :
     \A n \in IntModes(c, addr) : Delta(c, addr, pos, m) <= Delta(c, addr, pos, n)}

IntAddress(c, addr, pos, m) ==
  [mode |-> m, form |-> "size", val |-> Delta(c, addr, pos, m)]

\* Mutant: the byte is an index into the whole table.
SameAddressMutantNoPage(addr) ==
  [mode |-> SameStart + (addr % SameSize) \div Radix,
   form |-> "byte",
   val  |-> addr % SameSize]

SameAddress(addr) ==
  [mode |-> SameStart + (addr % SameSize) \div Radix,
   form |-> "byte",
   val  |-> (addr % SameSize) % Radix]

\* Mutant: the same table is never consulted.
EncodeAddressNoSame(c, addr, pos) ==
  IF SmallModes(c, addr, pos) # {}
    THEN IntAddress(c, addr, pos, FirstMode(SmallModes(c, addr, pos)))
  ELSE IntAddress(c, addr, pos, FirstMode(LeastModes(c, addr, pos)))

\* xd3_encode_address, without the cache update that ends it
EncodeAddress(c, addr, pos) ==
  IF SmallModes(c, addr, pos) # {}
    THEN IntAddress(c, addr, pos, FirstMode(SmallModes(c, addr, pos)))
  ELSE IF SameHit(c, addr)
    THEN SameAddress(addr)
  ELSE IntAddress(c, addr, pos, FirstMode(LeastModes(c, addr, pos)))

\* xd3_decode_address, without the cache update that ends it
DecodeAddress(c, a, pos) ==
  IF a.mode < SameStart
    THEN IF a.mode = VCD_SELF THEN a.val
         ELSE IF a.mode = VCD_HERE THEN pos - a.val
         ELSE a.val + c.near[a.mode - 2]
    ELSE c.same[(a.mode - SameStart) * Radix + a.val]

-----------------------------------------------------------------------------
(* The encoder: xd3_encode_input starts and ends a window, and             *)
(* xd3_iopt_finish_encoding writes one instruction.                        *)

\* inst->pos + stream->taroff
here == taroff + unencoded_offset

EncView == [cache |-> enc, pos |-> here, base |-> taroff, end |-> taroff + avail_in]
DecView == [cache |-> dec, pos |-> dec_position, base |-> dec_cpylen, end |-> dec_maxpos]

Write(inst, addr) ==
  /\ Len(wire) < MaxPending
  /\ wire' = Append(wire, inst)
  /\ sent' = Append(sent, [view |-> EncView, addr |-> addr])
  /\ UNCHANGED decVars

EncodeWindow(base, length) ==
  /\ enc_state = "ENC_INPUT"
  /\ enc_state' = "ENC_SEARCH"
  /\ enc' = InitCache
  /\ taroff' = base
  /\ avail_in' = length
  /\ unencoded_offset' = 0
  /\ Write([op |-> "WIN", size |-> base, tgt |-> length], 0)

\* What xd3_iopt_finish_encoding asserts of every instruction ("Check for
\* input overflow") and does for it.
Encode(size) ==
  /\ enc_state = "ENC_SEARCH"
  /\ unencoded_offset + size <= avail_in
  /\ unencoded_offset' = unencoded_offset + size
  /\ UNCHANGED <<enc_state, taroff, avail_in>>

\* XD3_ADD and XD3_RUN write no address.
EncodeData(size) ==
  /\ Encode(size)
  /\ Write([op |-> "DATA", size |-> size], 0)
  /\ UNCHANGED enc

\* A copy from the source (xtra) lies inside the source window; one from the
\* target starts at a byte that is already there, and is offset by taroff.
EncodeCopy(xtra, addr, size) ==
  /\ Encode(size)
  /\ IF xtra THEN addr + size <= taroff ELSE addr < unencoded_offset
  /\ LET a == IF xtra THEN addr ELSE taroff + addr
     IN  /\ enc' = UpdateCache(enc, a)
         /\ Write([op |-> "CPY", size |-> size, code |-> EncodeAddress(enc, a, here)], a)

\* xd3_iopt_add_finalize has encoded the rest of the input.
EncodeEnd ==
  /\ enc_state = "ENC_SEARCH"
  /\ unencoded_offset = avail_in
  /\ enc_state' = "ENC_INPUT"
  /\ Write([op |-> "END", size |-> 0], 0)
  /\ UNCHANGED <<enc, taroff, avail_in, unencoded_offset>>

-----------------------------------------------------------------------------
(* The decoder: xd3_decode_init_window, xd3_decode_parse_halfinst and the   *)
(* end of xd3_decode_emit.                                                  *)

Read(op) ==
  /\ ~failed
  /\ wire # <<>>
  /\ Head(wire).op = op
  /\ wire' = Tail(wire)
  /\ sent' = Tail(sent)
  /\ UNCHANGED encVars

\* Mutant: the end of the window is counted from its own start.
WindowBoundsNoSegment(base, length) ==
  /\ dec_cpylen' = base
  /\ dec_position' = base
  /\ dec_maxpos' = length

WindowBounds(base, length) ==
  /\ dec_cpylen' = base
  /\ dec_position' = base
  /\ dec_maxpos' = base + length

\* Mutant: the cache is carried over from the previous window.
DecodeWindowKeepCache ==
  /\ Read("WIN")
  /\ WindowBounds(Head(wire).size, Head(wire).tgt)
  /\ UNCHANGED <<dec, failed>>

DecodeWindow ==
  /\ Read("WIN")
  /\ dec' = InitCache
  /\ WindowBounds(Head(wire).size, Head(wire).tgt)
  /\ UNCHANGED failed

\* "Cannot copy an address before it is filled-in", and a copy "cannot exceed
\* the remaining buffer space in its own segment".
CanCopy(base, pos, addr, size) ==
  /\ addr < pos
  /\ addr < base => addr + size <= base

\* "The instruction will not overflow the output buffer": the last check, of
\* any instruction.  One that is rejected does not advance dec_position.
Advance(size, ok) ==
  /\ failed' = ~(ok /\ dec_position + size <= dec_maxpos)
  /\ dec_position' = IF failed' THEN dec_position ELSE dec_position + size
  /\ UNCHANGED <<dec_cpylen, dec_maxpos>>

DecodeData ==
  /\ Read("DATA")
  /\ Advance(Head(wire).size, TRUE)
  /\ UNCHANGED dec

\* Mutant: an address found in the same table is not entered again.
DecodeCopySkipSame ==
  /\ Read("CPY")
  /\ LET addr == DecodeAddress(dec, Head(wire).code, dec_position)
         size == Head(wire).size
     IN  /\ dec' = IF Head(wire).code.form = "byte" THEN dec ELSE UpdateCache(dec, addr)
         /\ Advance(size, CanCopy(dec_cpylen, dec_position, addr, size))

\* The cache is updated with the address before the address is judged.
DecodeCopy ==
  /\ Read("CPY")
  /\ LET addr == DecodeAddress(dec, Head(wire).code, dec_position)
         size == Head(wire).size
     IN  /\ dec' = UpdateCache(dec, addr)
         /\ Advance(size, CanCopy(dec_cpylen, dec_position, addr, size))

\* avail_out, here dec_position - dec_cpylen, is judged against dec_tgtlen when
\* the instructions are at an end: "wrong window length".
DecodeEnd ==
  /\ Read("END")
  /\ failed' = (dec_position # dec_maxpos)
  /\ UNCHANGED <<dec, dec_cpylen, dec_maxpos, dec_position>>

-----------------------------------------------------------------------------
Init ==
  /\ enc = InitCache
  /\ dec = InitCache
  /\ enc_state = "ENC_INPUT"
  /\ taroff = 0
  /\ avail_in = 0
  /\ unencoded_offset = 0
  /\ dec_cpylen = 0
  /\ dec_maxpos = 0
  /\ dec_position = 0
  /\ failed = FALSE
  /\ wire = <<>>
  /\ sent = <<>>

EncodeStep ==
  \/ \E base \in Segments, length \in Lengths : EncodeWindow(base, length)
  \/ \E size \in Sizes : EncodeData(size)
  \/ \E xtra \in BOOLEAN, size \in Sizes : \E addr \in 0 .. here : EncodeCopy(xtra, addr, size)
  \/ EncodeEnd

DecodeStep == DecodeWindow \/ DecodeData \/ DecodeCopy \/ DecodeEnd

Next == EncodeStep \/ DecodeStep

Spec == Init /\ [][Next]_vars

-----------------------------------------------------------------------------
(* Properties. *)

Views == [cache : Caches, pos : Nat, base : Nat, end : Nat]

Codes ==
  [mode : 0 .. SameStart - 1, form : {"size"}, val : Nat] \cup
  [mode : SameStart .. SameStart + SSame - 1, form : {"byte"}, val : 0 .. Radix - 1]

Insts ==
  [op : {"WIN"}, size : Nat, tgt : Nat] \cup [op : {"DATA", "END"}, size : Nat] \cup
  [op : {"CPY"}, size : Nat, code : Codes]

EncTypeOK ==
  /\ enc \in Caches
  /\ enc_state \in {"ENC_INPUT", "ENC_SEARCH"}
  /\ taroff \in Nat /\ avail_in \in Nat /\ unencoded_offset \in Nat

\* Types.  Codes says that a number's form is the one the decoder infers from
\* the mode, so the ADDR section is cut where the encoder ended each number.
TypeOK ==
  /\ EncTypeOK
  /\ DecView \in Views
  /\ failed \in BOOLEAN
  /\ wire \in Seq(Insts)
  /\ sent \in Seq([view : Views, addr : Nat])
  /\ Len(sent) = Len(wire)

\* What the next instruction must leave behind: the state of either side after
\* an instruction that was meant to copy from addr.
After(v, inst, addr) ==
  CASE inst.op = "WIN"  -> [cache |-> InitCache, pos |-> inst.size, base |-> inst.size,
                            end |-> inst.size + inst.tgt]
    [] inst.op = "DATA" -> [v EXCEPT !.pos = @ + inst.size]
    [] inst.op = "CPY"  -> [cache |-> UpdateCache(v.cache, addr),
                            pos |-> v.pos + inst.size, base |-> v.base, end |-> v.end]
    [] inst.op = "END"  -> v

\* The view in which instruction i of the wire was written; past the end, the
\* encoder's present one.
ViewAt(i) == IF i <= Len(sent) THEN sent[i].view ELSE EncView

\* The decoder is exactly as far behind the encoder as the wire is long:
\* replaying the wire from its state passes through every state the encoder
\* was in (xd3_update_cache is called with the same addresses in the same
\* order on both sides, and xd3_init_cache at the same window starts).
Lockstep ==
  /\ ViewAt(1) = DecView
  /\ \A i \in 1 .. Len(wire) : After(sent[i].view, wire[i], sent[i].addr) = ViewAt(i + 1)

\* xd3_decode_address applied to the next COPY returns the address that was
\* given to xd3_encode_address, whatever was decoded before it.
AddrAgree ==
  (wire # <<>> /\ Head(wire).op = "CPY") =>
    DecodeAddress(dec, Head(wire).code, dec_position) = Head(sent).addr

\* The decoder rejects nothing the encoder wrote: not for an address that is
\* not there yet, a copy across the end of the source segment, an instruction
\* across the end of the window, or a window that is not full at the end of its
\* instructions.
NeverRejects == ~failed

\* What the encoder's assertions make of an instruction that is written in the
\* view v: it carries what xd3_encode_address made of its address, and satisfies
\* what the decoder will ask of it in its own coordinates.
AsMeant(v, inst, addr) ==
  /\ inst.op = "CPY" => /\ inst.code = EncodeAddress(v.cache, addr, v.pos)
                        /\ CanCopy(v.base, v.pos, addr, inst.size)
  /\ inst.op \in {"DATA", "CPY"} => v.pos + inst.size <= v.end
  /\ inst.op = "END" => v.pos = v.end

EncodedAsMeant ==
  \A i \in 1 .. Len(wire) : AsMeant(sent[i].view, wire[i], sent[i].addr)

\* The inductive invariant.
IInv == TypeOK /\ Lockstep /\ EncodedAsMeant /\ NeverRejects

\* xd3_sizeof_size: the bytes of an integer in base 128 (here SmallMax + 1), ten
\* of which hold every usize_t.
IntLength(d) ==
  LET L1 == SmallMax + 1
      L2 == L1 * L1
      L3 == L1 * L2
      L4 == L1 * L3
      L5 == L1 * L4
      L6 == L1 * L5
      L7 == L1 * L6
      L8 == L1 * L7
      L9 == L1 * L8
  IN  IF d < L1 THEN 1 ELSE IF d < L2 THEN 2 ELSE IF d < L3 THEN 3
      ELSE IF d < L4 THEN 4 ELSE IF d < L5 THEN 5 ELSE IF d < L6 THEN 6
      ELSE IF d < L7 THEN 7 ELSE IF d < L8 THEN 8 ELSE IF d < L9 THEN 9 ELSE 10

CodeLength(a) == IF a.form = "byte" THEN 1 ELSE IntLength(a.val)

\* "Attempt to find the address mode that yields the smallest integer value
\* ... thereby minimizing the encoded size of the address": no mode, SAME
\* included, would have taken fewer bytes than the one xd3_encode_address
\* chose, although it stops at the first integer of one byte.
CheapestAddress ==
  \A i \in 1 .. Len(wire) : wire[i].op = "CPY" =>
    LET v    == sent[i].view
        addr == sent[i].addr
    IN  /\ \A m \in IntModes(v.cache, addr) :
              CodeLength(wire[i].code) <= IntLength(Delta(v.cache, addr, v.pos, m))
        /\ SameHit(v.cache, addr) => CodeLength(wire[i].code) = 1
=============================================================================
