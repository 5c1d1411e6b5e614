------------------------------ MODULE CodeTable ------------------------------
(***************************************************************************)
(* The last step of encoding an instruction, and the first of decoding     *)
(* one: opcodes of one or two instructions.  The encoder holds one         *)
(* instruction back (iout) to pair it with the next; it computes opcodes   *)
(* by formulas of its own, the decoder looks them up in the table.  The    *)
(* instruction section is a sequence of opcodes and sizes; the integers    *)
(* that sizes become are in Varint.                                        *)
(***************************************************************************)
EXTENDS Integers, Sequences, SequencesExt

CONSTANTS
  InstSizes, \* sizes of instructions
  InstModes, \* modes of COPY instructions
  MaxInsts   \* bound: instructions of a window

NOOP == 0
ADD  == 1
RUN  == 2
CPY  == 3   \* and the mode

MIN_MATCH == 4

ASSUME CodeTableAssumption ==
  InstSizes \subseteq Nat \ {0} /\ InstModes \subseteq 0 .. 8 /\ MaxInsts \in Nat

None == [type |-> NOOP, size |-> 0]

-----------------------------------------------------------------------------
(* The table, from its description. *)

rfc3284 ==
  [add_sizes |-> 17, near_modes |-> 4, same_modes |-> 3, cpy_sizes |-> 15,
   addcopy_add_max |-> 4, addcopy_near_cpy_max |-> 6, addcopy_same_cpy_max |-> 4,
   copyadd_add_max |-> 1, copyadd_near_cpy_max |-> 4, copyadd_same_cpy_max |-> 4]

\* The entries of the table: pairs of half-instructions, the second often none.
Half(type, size) == [type |-> type, size |-> size]
Single(type, size) == <<<<Half(type, size), None>>>>
Pair(first, second) == <<first, second>>

\* xd3_build_code_table: nested loops, the innermost last.
Build(desc) ==
  LET Entries(Op(_), first, last) == [i \in 1 .. last - first + 1 |-> Op(first + i - 1)]
      cpy_modes == 2 + desc.near_modes + desc.same_modes
      Most(mode, near, same) == IF mode < 2 + desc.near_modes THEN near ELSE same
      Adds == Entries(LAMBDA size : <<Half(ADD, size), None>>, 1, desc.add_sizes)
      Copies(mode) == Single(CPY + mode, 0)
        \o Entries(LAMBDA size : <<Half(CPY + mode, size), None>>, MIN_MATCH, MIN_MATCH + desc.cpy_sizes - 1)
      AddCopies(mode) ==
        FlattenSeq(Entries(
          LAMBDA size1 : Entries(
            LAMBDA size2 : Pair(Half(ADD, size1), Half(CPY + mode, size2)),
            MIN_MATCH, Most(mode, desc.addcopy_near_cpy_max, desc.addcopy_same_cpy_max)),
          1, desc.addcopy_add_max))
      CopyAdds(mode) ==
        FlattenSeq(Entries(
          LAMBDA size1 : Entries(
            LAMBDA size2 : Pair(Half(CPY + mode, size1), Half(ADD, size2)),
            1, desc.copyadd_add_max),
          MIN_MATCH, Most(mode, desc.copyadd_near_cpy_max, desc.copyadd_same_cpy_max)))
  IN  Single(RUN, 0) \o Single(ADD, 0) \o Adds
      \o FlattenSeq(Entries(Copies, 0, cpy_modes - 1))
      \o FlattenSeq(Entries(AddCopies, 0, cpy_modes - 1))
      \o FlattenSeq(Entries(CopyAdds, 0, cpy_modes - 1))

__rfc3284_code_table == Build(rfc3284)

\* The opcodes are 0 .. 255.
code_table == [code \in 0 .. 255 |-> __rfc3284_code_table[code + 1]]

-----------------------------------------------------------------------------
(* xd3_choose_instruction: the opcode of an instruction, and the common one *)
(* with the one before it, or 0.                                            *)

Code1MutantSize(inst) ==
  IF inst.type = RUN THEN 0
  ELSE IF inst.type = ADD THEN 1 + (IF inst.size <= 17 THEN inst.size ELSE 0)
  ELSE 19 + 16 * (inst.type - CPY) + (IF inst.size <= 19 /\ inst.size >= 4 THEN inst.size - 3 ELSE 0)
Code1(inst) ==
  IF inst.type = RUN THEN 0
  ELSE IF inst.type = ADD THEN 1 + (IF inst.size <= 17 THEN inst.size ELSE 0)
  ELSE 19 + 16 * (inst.type - CPY) + (IF inst.size <= 18 /\ inst.size >= 4 THEN inst.size - 3 ELSE 0)

Code2MutantMode(prev, inst) ==
  LET mode == inst.type - CPY
  IN  IF inst.type = ADD /\ inst.size = 1 /\ prev.type >= CPY /\ prev.size = 4
        THEN 247 + (prev.type - CPY)
      ELSE IF inst.type >= CPY /\ inst.size >= 4 /\ prev.type = ADD /\ prev.size <= 4
        THEN IF inst.size <= 6 /\ mode <= 5 THEN 163 + mode * 12 + 3 * (prev.size - 1) + (inst.size - 4)
             ELSE IF inst.size = 4 /\ mode > 6 THEN 235 + (mode - 6) * 4 + (prev.size - 1)
             ELSE 0
      ELSE 0
Code2(prev, inst) ==
  LET mode == inst.type - CPY
  IN  IF inst.type = ADD /\ inst.size = 1 /\ prev.type >= CPY /\ prev.size = 4
        THEN 247 + (prev.type - CPY)
      ELSE IF inst.type >= CPY /\ inst.size >= 4 /\ prev.type = ADD /\ prev.size <= 4
        THEN IF inst.size <= 6 /\ mode <= 5 THEN 163 + mode * 12 + 3 * (prev.size - 1) + (inst.size - 4)
             ELSE IF inst.size = 4 /\ mode >= 6 THEN 235 + (mode - 6) * 4 + (prev.size - 1)
             ELSE 0
      ELSE 0

-----------------------------------------------------------------------------
VARIABLES
  phase,  \* "ENCODE", then "DECODE" and "END"
  iout,   \* stream->iout, or None
  sect,   \* the instruction section: what is not decoded of it
  sent,   \* history: the instructions of the window
  opcodes,\* history: the opcodes that were emitted
  got     \* history: the instructions the decoder found

codeVars == <<phase, iout, sect, sent, opcodes, got>>

CodeInit ==
  /\ phase = "ENCODE" /\ iout = None
  /\ sect = <<>> /\ sent = <<>> /\ opcodes = <<>> /\ got = <<>>

Insts == [type : {ADD, RUN} \cup {CPY + mode : mode \in InstModes}, size : InstSizes]

\* xd3_emit_single.
EmitSingle(inst) ==
  LET code == Code1(inst)
  IN  sect' = sect \o <<code>> \o (IF code_table[code][1].size = 0 THEN <<inst.size>> ELSE <<>>)
      /\ opcodes' = Append(opcodes, code)

\* xd3_iopt_finish_encoding, from the choice of the opcode on.  The gap between two
\* matches is one ADD, so an ADD does not follow an ADD.
FinishEncoding(inst) ==
  LET code2 == Code2(iout, inst)
  IN  /\ phase = "ENCODE" /\ Len(sent) < MaxInsts
      /\ inst.type = ADD /\ sent # <<>> => sent[Len(sent)].type # ADD
      /\ sent' = Append(sent, inst)
      /\ IF iout # None /\ code2 # 0
           THEN \* xd3_emit_double
                /\ sect' = Append(sect, code2) /\ opcodes' = Append(opcodes, code2)
                /\ iout' = None
           ELSE /\ IF iout # None THEN EmitSingle(iout) ELSE UNCHANGED <<sect, opcodes>>
                /\ iout' = inst
      /\ UNCHANGED <<phase, got>>

\* xd3_iopt_add_finalize: the instruction that was held back; the window is sent.
AddFinalize ==
  /\ phase = "ENCODE" /\ phase' = "DECODE"
  /\ IF iout # None THEN EmitSingle(iout) ELSE UNCHANGED <<sect, opcodes>>
  /\ iout' = None
  /\ UNCHANGED <<sent, got>>

\* xd3_decode_instruction: a size that the table does not give is in the section.
DecodeInstruction ==
  LET entry == code_table[Head(sect)]
      sized == entry[1].size = 0
      first == [entry[1] EXCEPT !.size = IF sized THEN sect[2] ELSE @]
  IN  /\ phase = "DECODE" /\ sect # <<>>
      /\ sized => Len(sect) > 1
      /\ sect' = SubSeq(sect, IF sized THEN 3 ELSE 2, Len(sect))
      /\ got' = got \o <<first>> \o (IF entry[2].type = NOOP THEN <<>> ELSE <<entry[2]>>)
      /\ UNCHANGED <<phase, iout, sent, opcodes>>

DecodeEnds ==
  /\ phase = "DECODE" /\ sect = <<>> /\ phase' = "END"
  /\ UNCHANGED <<iout, sect, sent, opcodes, got>>

CodeNext ==
  \/ \E inst \in Insts : FinishEncoding(inst)
  \/ AddFinalize
  \/ DecodeInstruction
  \/ DecodeEnds

-----------------------------------------------------------------------------
\* The decoder finds the instructions that were encoded, all of them, in order: the
\* formulas of the encoder and the table agree, also where one opcode is two instructions.
InstructionsRead ==
  /\ IsPrefix(got, sent)
  /\ phase = "END" => got = sent

\* No two instructions in a row that the table has a common opcode for take two:
\* looking one instruction back is enough, also after a pair, and at the end of the window.
PairsTaken ==
  \A i \in 1 .. Len(opcodes) - 1 :
    LET a == code_table[opcodes[i]]
        b == code_table[opcodes[i + 1]]
    IN  a[2] = None /\ b[2] = None => \A code \in 163 .. 255 : code_table[code] # <<a[1], b[1]>>
==============================================================================
