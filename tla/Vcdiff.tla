------------------------------- MODULE Vcdiff -------------------------------
(***************************************************************************)
(* The delta format as xd3_emit_hdr and the output sections write it, and  *)
(* what a delta means: the target window that its instructions describe.   *)
(*                                                                         *)
(* A byte of a delta file is a record: "at" says what it was written as,   *)
(* "n" is its numeric value where it has one, and "op" the entry of the    *)
(* code table that an opcode byte stands for.                              *)
(***************************************************************************)
EXTENDS Integers, Sequences, SequencesExt

CONSTANTS
  Deltas,   \* sequence of the deltas that are decoded
  Base      \* radix of variable-length integers (128 in the code)

\* A delta has a header, secondary and appheader (its length, or -1), and a
\* sequence of windows.  A window has a source segment, cpylen and cpyoff,
\* whether it carries a checksum, and pairs of half-instructions.
NOOP == [type |-> "NOOP", size |-> 0, addr |-> 0, coded |-> FALSE]

\* A half-instruction is coded when its size is not in the code table and so
\* follows the opcode.
Run(size)             == [type |-> "RUN", size |-> size, addr |-> 0, coded |-> TRUE]
Add(size, coded)      == [type |-> "ADD", size |-> size, addr |-> 0, coded |-> coded]
Cpy(size, addr, coded) == [type |-> "CPY", size |-> size, addr |-> addr, coded |-> coded]

Halves(w) == SelectSeq(FlattenSeq(w.insts), LAMBDA h : h.type # "NOOP")

ASSUME VcdiffAssumption ==
  /\ Base \in Nat \ {0, 1}
  /\ \A d \in DOMAIN Deltas : \A k \in DOMAIN Deltas[d].windows :
       LET w == Deltas[d].windows[k]
       IN  \A i \in DOMAIN w.insts : w.insts[i] \in Seq(
             [type : {"NOOP", "RUN", "ADD", "CPY"}, size : Nat, addr : Nat, coded : BOOLEAN])

Total(f(_), seq) == FoldLeft(LAMBDA n, x : n + f(x), 0, seq)

Size(h)      == h.size
DataBytes(h) == CASE h.type = "ADD" -> h.size [] h.type = "RUN" -> 1 [] OTHER -> 0

TgtLen(w) == Total(Size, Halves(w))

-----------------------------------------------------------------------------
(* The file *)

NoOp == <<NOOP, NOOP>>
Byte(f, k, i, n, op) == [at |-> <<f, k, i>>, n |-> n, op |-> op]

Digits(n) ==
  CASE n < Base        -> <<n>>
    [] n < Base * Base -> <<Base + (n \div Base), n % Base>>
    [] OTHER           -> <<Base + (n \div (Base * Base)), Base + ((n \div Base) % Base), n % Base>>

\* xd3_emit_size, xd3_emit_offset; from: the index of the first byte
SizeBytes(f, k, from, n) ==
  [i \in DOMAIN Digits(n) |-> Byte(f, k, from + i - 1, Digits(n)[i], NoOp)]

OneByte(f, k, n)   == <<Byte(f, k, 1, n, NoOp)>>
Bytes(f, k, n, len) == [i \in 1 .. len |-> Byte(f, k, i, n, NoOp)]

When(p, seq) == IF p THEN seq ELSE <<>>

\* Indicator bits
VCD_SECONDARY == 1
VCD_APPHEADER == 4
VCD_SOURCE    == 1
VCD_ADLER32   == 4
Bit(p, b) == IF p THEN b ELSE 0
Has(ind, b) == (ind \div b) % 2 = 1

Header(d) ==
  LET app == d.appheader >= 0
  IN  Bytes("VCHEAD", 0, 0, 4)
        \o OneByte("HDRIND", 0, Bit(d.secondary, VCD_SECONDARY) + Bit(app, VCD_APPHEADER))
        \o When(d.secondary, OneByte("SECONDID", 0, 1))
        \o When(app, SizeBytes("APPLEN", 0, 1, d.appheader) \o Bytes("APPDAT", 0, 0, d.appheader))

DataSection(w, k) == Bytes("DATA", k, 0, Total(DataBytes, Halves(w)))

\* The opcode, then the sizes that the code table does not give.
Opcode(w, k, i) ==
  LET op == [j \in 1 .. 2 |-> [w.insts[i][j] EXCEPT !.size = IF w.insts[i][j].coded THEN 0 ELSE @,
                                                    !.addr = 0, !.coded = FALSE]]
  IN  <<Byte("INST", k, i, 0, op)>>
        \o FlattenSeq([j \in 1 .. 2 |-> When(w.insts[i][j].coded,
                                             SizeBytes("SIZE", k, i, w.insts[i][j].size))])

InstSection(w, k) == FlattenSeq([i \in DOMAIN w.insts |-> Opcode(w, k, i)])

AddrSection(w, k) ==
  LET copies == SelectSeq(Halves(w), LAMBDA h : h.type = "CPY")
  IN  FlattenSeq([i \in DOMAIN copies |-> SizeBytes("ADDR", k, i, copies[i].addr)])

WindowHeader(w, k) ==
  LET data == Len(DataSection(w, k))
      inst == Len(InstSection(w, k))
      addr == Len(AddrSection(w, k))
      size(n) == Len(Digits(n))
      cksum == IF w.adler THEN 4 ELSE 0
      enc == 1 + size(TgtLen(w)) + size(data) + size(inst) + size(addr)
               + data + inst + addr + cksum
  IN  OneByte("WININD", k, Bit(w.cpylen > 0, VCD_SOURCE) + Bit(w.adler, VCD_ADLER32))
        \o When(w.cpylen > 0, SizeBytes("CPYLEN", k, 1, w.cpylen)
                                \o SizeBytes("CPYOFF", k, 1, w.cpyoff))
        \o SizeBytes("ENCLEN", k, 1, enc) \o SizeBytes("TGTLEN", k, 1, TgtLen(w))
        \o OneByte("DELIND", k, 0)
        \o SizeBytes("DATALEN", k, 1, data) \o SizeBytes("INSTLEN", k, 1, inst)
        \o SizeBytes("ADDRLEN", k, 1, addr)
        \o Bytes("CKSUM", k, k, cksum)

Window(w, k) ==
  WindowHeader(w, k) \o DataSection(w, k) \o InstSection(w, k) \o AddrSection(w, k)

File(d) ==
  Header(d) \o FlattenSeq([k \in DOMAIN d.windows |-> Window(d.windows[k], k)])

\* Offsets in the file at which the header and the windows end.
Ends(d) == [k \in 0 .. Len(d.windows) |->
  Len(Header(d)) + Total(LAMBDA i : Len(Window(d.windows[i], i)), [i \in 1 .. k |-> i])]

-----------------------------------------------------------------------------
(* The meaning *)

\* The sources that a decoder may be given: the one the delta was made from,
\* one of the same length that differs in every byte, one that is too short,
\* or none.
Sources == {"right", "other", "short", "none"}
SourceByte(source, off) == <<"SRC", IF source = "other" THEN 1 ELSE 0, off>>

\* RFC 3284: byte j of the target is byte cpylen + j of a string that starts
\* with the source segment; every instruction defines the bytes it covers.
Target(w, k, source) ==
  LET       hs == Halves(w)
      from == [i \in DOMAIN hs |-> w.cpylen + Total(Size, SubSeq(hs, 1, i - 1))]
      data == [i \in DOMAIN hs |-> Total(DataBytes, SubSeq(hs, 1, i - 1))]
      u[j \in 0 .. w.cpylen + TgtLen(w) - 1] ==
        IF j < w.cpylen THEN SourceByte(source, w.cpyoff + j)
        ELSE LET i == CHOOSE i \in DOMAIN hs : from[i] <= j /\ j < from[i] + hs[i].size
             IN  CASE hs[i].type = "ADD" -> <<"DATA", k, data[i] + j - from[i] + 1>>
                   [] hs[i].type = "RUN" -> <<"DATA", k, data[i] + 1>>
                   [] hs[i].type = "CPY" -> u[hs[i].addr + j - from[i]]
  IN  [j \in 1 .. TgtLen(w) |-> u[w.cpylen + j - 1]]

\* A delta with all that follows from it, worked out once.
Delta(d) ==
  [windows |-> d.windows, file |-> File(d), ends |-> Ends(d),
   target  |-> [k \in DOMAIN d.windows |->
                  [source \in {"right", "other"} |-> Target(d.windows[k], k, source)]]]
=============================================================================
