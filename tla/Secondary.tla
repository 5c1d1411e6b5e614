------------------------------ MODULE Secondary ------------------------------
(***************************************************************************)
(* Secondary compression (xdelta3-second.h): a section of the window is    *)
(* compressed by the type of the stream, and what comes out is sent if it  *)
(* is small enough.  The compressor of a section and its decompressor are  *)
(* made once for all windows; Huffman coding with FGK (xdelta3-fgk.h)      *)
(* keeps a tree in them, DJW (xdelta3-djw.h) keeps nothing.                *)
(*                                                                         *)
(* A section that comes to FGK is chosen symbol by symbol, as it is        *)
(* encoded; each other function of the code is one step.                   *)
(***************************************************************************)
EXTENDS Fgk, Djw, Varint

CONSTANTS
  SECONDARY_MIN_INPUT,    \* shortest section that is compressed (10)
  SECONDARY_MIN_SAVINGS,  \* bytes that must be saved (2)
  SectionSizes,           \* sizes of the sections that FGK is given
  InefficientCfgs,        \* values of cfg->inefficient of a stream with FGK
  DjwSections,            \* [input, cfg]: sections that DJW is given
  MaxSections             \* bound: sections of a stream

ASSUME SecondaryAssumption ==
  /\ {SECONDARY_MIN_INPUT, SECONDARY_MIN_SAVINGS, MaxSections} \subseteq Nat
  /\ SectionSizes \subseteq Nat \ {0} /\ InefficientCfgs \subseteq BOOLEAN
  /\ \A s \in DjwSections : s.cfg.inefficient \in BOOLEAN /\ Range(s.input) \subseteq Symbols

VARIABLES
  sec_type,  \* stream->sec_type: "FGK" or "DJW"
  etree,     \* sec_stream_d of the encoder: its tree
  dtree,     \* sec_stream of the decoder
  at,        \* "IDLE", "ENCODE" or "DECODE"
  section,   \* [size, inefficient]: what is asked for
  input,     \* the section so far
  bits,      \* what has been written after the size; with DJW, <<>> is XD3_NOSECOND
  output,    \* what the decoder makes of it
  sections,  \* sections so far
  result,    \* of the last section: "NONE", "RAW", "OK" or "ERROR"
  dropped    \* history: FGK has encoded a section that was not sent compressed
secondaryVars == <<sec_type, etree, dtree, at, section, input, bits, output, sections, result, dropped>>

\* Bytes that the compressed section has: the size comes first.
Before(size) == Len(Emit(size))
CompSize == Before(Len(input)) + ByteCount(Len(bits))

SecondaryInit ==
  /\ sec_type \in {"FGK", "DJW"}
  /\ etree = InitTree /\ dtree = InitTree
  /\ at = "IDLE"
  /\ section \in [size : {0}, inefficient : IF sec_type = "FGK" THEN InefficientCfgs ELSE {FALSE}]
  /\ input = <<>> /\ bits = <<>> /\ output = <<>> /\ sections = 0 /\ result = "NONE"
  /\ dropped = FALSE

\* xd3_encode_secondary with FGK: a short section is left as it is.
BeginFgk ==
  /\ sec_type = "FGK" /\ at = "IDLE" /\ sections < MaxSections /\ result # "ERROR"
  /\ \E size \in SectionSizes :
       /\ section' = [section EXCEPT !.size = size]
       /\ IF size < SECONDARY_MIN_INPUT
            THEN result' = "RAW" /\ UNCHANGED at
            ELSE at' = "ENCODE" /\ result' = "NONE"
  /\ sections' = sections + 1 /\ input' = <<>> /\ bits' = <<>> /\ output' = <<>>
  /\ UNCHANGED <<sec_type, etree, dtree, dropped>>

\* xd3_encode_fgk: the code of a symbol, and the tree is updated.
EncodeFgk ==
  /\ sec_type = "FGK" /\ at = "ENCODE" /\ Len(input) < section.size
  /\ \E sym \in Symbols :
       /\ input' = Append(input, sym)
       /\ bits' = bits \o Code(etree, sym)
       /\ etree' = UpdateTree(etree, sym)
  /\ UNCHANGED <<sec_type, dtree, at, section, output, sections, result, dropped>>

\* The same with DJW, which decides itself that a section is not worth it.
EncodeDjw ==
  /\ sec_type = "DJW" /\ at = "IDLE" /\ sections < MaxSections /\ result # "ERROR"
  /\ \E s \in DjwSections :
       /\ section' = [size |-> Len(s.input), inefficient |-> s.cfg.inefficient]
       /\ input' = s.input
       /\ bits' = (IF Len(s.input) < SECONDARY_MIN_INPUT THEN <<>>
                   ELSE EncodeHuff(s.input, s.cfg, Before(Len(s.input)), HowManyGroups(s.cfg, Len(s.input))))
       /\ IF bits' = <<>> THEN result' = "RAW" /\ UNCHANGED at
          ELSE at' = "ENCODE" /\ result' = "NONE"
  /\ sections' = sections + 1 /\ output' = <<>>
  /\ UNCHANGED <<sec_type, etree, dtree, dropped>>

\* The end of xd3_encode_secondary: the compressed section is sent or thrown away, and
\* the tree of the encoder stays as it is.
Saves ==
  CompSize < Len(input) - SECONDARY_MIN_SAVINGS \/ section.inefficient
EndMutantFresh ==
  /\ at = "ENCODE" /\ Len(input) = section.size
  /\ bits' = FlushBits(bits) /\ etree' = InitTree
  /\ IF Saves THEN at' = "DECODE" /\ UNCHANGED result ELSE at' = "IDLE" /\ result' = "RAW"
  /\ dropped' = dropped
  /\ UNCHANGED <<sec_type, dtree, section, input, output, sections>>
End ==
  /\ at = "ENCODE" /\ Len(input) = section.size
  /\ bits' = FlushBits(bits)
  /\ IF Saves THEN at' = "DECODE" /\ UNCHANGED result ELSE at' = "IDLE" /\ result' = "RAW"
  /\ dropped' = (dropped \/ (sec_type = "FGK" /\ ~Saves))
  /\ UNCHANGED <<sec_type, etree, dtree, section, input, output, sections>>

\* xd3_decode_fgk: bit by bit until the size is reached.
FgkBit(st, d, size) ==
  LET sym == DecodeData(st.tree, d)
      next == UpdateTree(st.tree, sym)
  IN  IF ~d.done THEN [st EXCEPT !.at = @ + 1, !.d = [at |-> d.at, coded |-> d.coded]]
      ELSE [tree |-> next, d |-> [at |-> next.root, coded |-> <<>>], out |-> Append(st.out, sym), at |-> st.at + 1]
RECURSIVE DecodeFgk(_, _)
DecodeFgk(st, size) ==
  IF Len(st.out) = size \/ st.at = Len(bits) THEN st
  ELSE DecodeFgk(FgkBit(st, DecodeBit(st.tree, st.d, bits[st.at + 1]), size), size)

Decompressed(size) ==
  IF sec_type = "FGK"
    THEN DecodeFgk([tree |-> dtree, d |-> [at |-> dtree.root, coded |-> <<>>], out |-> <<>>, at |-> 0], size)
    ELSE DecodeHuff(bits, size) @@ [tree |-> dtree]

\* xd3_decode_secondary: the size must be reached, and all bytes used.
Decode ==
  /\ at = "DECODE"
  /\ \E d \in {Decompressed(section.size)} :
       /\ output' = d.out
       /\ dtree' = d.tree
       /\ result' = (IF /\ sec_type = "DJW" => d.ok
                        /\ Len(d.out) = section.size
                        /\ ByteCount(d.at) * ByteBits = Len(bits)
                     THEN "OK" ELSE "ERROR")
  /\ at' = "IDLE"
  /\ UNCHANGED <<sec_type, etree, section, input, bits, sections, dropped>>

SecondaryNext == BeginFgk \/ EncodeFgk \/ EncodeDjw \/ End \/ Decode

-----------------------------------------------------------------------------
(* Properties. *)

\* What is decoded from a compressed section is the section (the comparison that
\* test_secondary_decode of xdelta3-test.h makes); no section that the encoder sends is refused.
\* Not so with FGK after a section that was thrown away: README, section 5.
SectionsDecoded ==
  ~dropped /\ result \notin {"NONE", "RAW"} => result = "OK" /\ output = input

\* Between sections the two trees are the same: nothing but the sections tells the decoder
\* how the encoder's tree has changed (as long as none was thrown away).
TreesAgree == ~dropped /\ at = "IDLE" => etree = dtree

\* The same for every section; it does not hold (README, section 5).
TreesAlwaysAgree == at = "IDLE" /\ result # "ERROR" => etree = dtree

\* The trees stay trees through all updates: every symbol has a code that is its own, and
\* weights of internal nodes are those of their children.
TreesSound == sec_type = "FGK" => TreeWellFormed(etree) /\ BlocksKept(etree)
==============================================================================
