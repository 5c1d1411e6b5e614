------------------------------- MODULE MCCoding -------------------------------
(* The coding of integers, of instructions, of headers and of whole sections, and *)
(* the merging of deltas: a behaviour is one of the five, and nothing of the      *)
(* others happens in it.                                                          *)
EXTENDS CodeTable, Framing, Secondary, Merge

VARIABLE part_of \* "integers", "instructions", "headers", "sections" or "merge"

MCBasic == <<2>>
MCExtra == <<1>>
\* One symbol only; even ones; lengths that are too long with one table; sectors of two
\* kinds; and an end that is no whole sector.
MCInputs ==
  LET Rep(sym, n) == [i \in 1 .. n |-> sym]
  IN  { Rep(2, 14), Rep(0, 3), <<0, 1, 2, 3, 0, 1, 2, 3, 0, 1, 2, 3>>,
        Rep(0, 12) \o Rep(1, 6) \o Rep(2, 2) \o <<3>>,
        Rep(0, 10) \o Rep(3, 10) \o Rep(0, 5) \o <<1, 3, 3>>,
        Rep(1, 90) \o Rep(2, 7) }
MCDjwSections ==
  {[input |-> i, cfg |-> [ngroups |-> g[1], sector_size |-> g[2], data_type |-> d, inefficient |-> e]] :
     i \in MCInputs, g \in {<<0, 0>>, <<2, 5>>, <<3, 10>>}, d \in {"DATA", "ADDR"}, e \in BOOLEAN}

\* Not recoded; without checksums and compressor; with another of each.
MCRecodings ==
  {NoRecode, [on |-> TRUE, checksum |-> FALSE, sec |-> -1, app |-> -2],
   [on |-> TRUE, checksum |-> TRUE, sec |-> 2, app |-> 5]}

\* With and without checksum and source; an empty target; and numbers of the largest size.
MCWindows ==
  LET Win(adler32, srclen, srcbase, tgt, data, inst, addr) ==
        [adler32 |-> adler32, srclen |-> srclen, srcbase |-> srcbase, tgt |-> tgt,
         made |-> [DATA |-> data, INST |-> inst, ADDR |-> addr]]
  IN  {Win(a, s[1], s[2], 17 - s[1], 5, 4, 1) : a \in BOOLEAN, s \in {<<0, 0>>, <<3, 4>>}}
      \cup {Win(TRUE, 0, 0, 0, 0, 0, 0), Win(FALSE, 20, 43, 64, 0, 4, 5)}

\* xd3_encode_reset has cleared the variable, or it has been used for something else.
MCLeftover == {[srclen |-> 0, srcbase |-> 0], [srclen |-> 3, srcbase |-> 6]}

\* A section in which one table has codes that are too long, with a symbol that never occurs.
MCSkewed == <<3, 1>>
MCGroupSections ==
  LET Rep(sym, n) == [i \in 1 .. n |-> sym]
      mixed == <<0, 0, 0, 1, 2, 0, 0, 0, 1, 3, 0, 0, 1, 1, 4>>
  IN  {[input |-> mixed \o Rep(4, 15),
        cfg |-> [ngroups |-> 2, sector_size |-> 5, data_type |-> "DATA", inefficient |-> e]] : e \in BOOLEAN}

\* Chains that fit, with a delta that has no digests, with a delta that was made
\* from the first source instead, with both, and that one with armor disabled.
MCChains ==
  LET Made(links, strange, bare, no_armor) ==
        [links |-> links, strange |-> strange, bare |-> bare, no_armor |-> no_armor]
  IN  {Made(1, 0, {}, FALSE), Made(3, 0, {}, FALSE), Made(3, 0, {2}, FALSE),
       Made(2, 2, {}, FALSE), Made(2, 2, {}, TRUE), Made(3, 3, {}, FALSE), Made(3, 3, {2}, FALSE)}
MCOrigin       == <<1, 2>>
MCTargets      == <<3, 2, 2>>
MCDeltaWindows == <<2, 1, 1>>

Init ==
  /\ part_of \in {"integers", "instructions", "headers", "sections", "merge"}
  /\ CodeInit
  /\ SecondaryInit /\ (part_of # "sections" => sec_type = "DJW")
  /\ MergeInit /\ (part_of # "merge" => made.links = 1)
  /\ IF part_of = "integers" THEN VarintInit
     ELSE part = 0 /\ val = -1 /\ status = "INPUT" /\ taken = <<>> /\ number = -1 /\ coming = <<>>
  /\ IF part_of = "headers" THEN FramingInit
     ELSE /\ file = [sec |-> -1, app |-> -1] /\ wins = <<>> /\ wire = <<>> /\ found = <<>>
          /\ recode = NoRecode /\ recoder = [src |-> FALSE, adler32 |-> FALSE] /\ written = <<>>
          /\ state = "VCHEAD" /\ count = 4 /\ fields = NoFields

readerVars == <<wire, state, fields, count, found>>

TakeIntegers ==
  part_of = "integers" /\ VarintNext
  /\ UNCHANGED <<part_of, codeVars, secondaryVars, mergeVars, writtenVars, readerVars>>
TakeInstructions ==
  part_of = "instructions" /\ CodeNext
  /\ UNCHANGED <<part_of, varintVars, secondaryVars, mergeVars, writtenVars, readerVars>>
TakeHeaders ==
  part_of = "headers" /\ FramingNext
  /\ UNCHANGED <<part_of, codeVars, secondaryVars, mergeVars, number, coming>>
TakeSections ==
  part_of = "sections" /\ SecondaryNext
  /\ UNCHANGED <<part_of, codeVars, varintVars, mergeVars, writtenVars, readerVars>>
TakeMerge ==
  part_of = "merge" /\ MergeNext
  /\ UNCHANGED <<part_of, codeVars, varintVars, secondaryVars, writtenVars, readerVars>>

vars == <<part_of, codeVars, varintVars, secondaryVars, mergeVars, writtenVars, readerVars>>

\* An integer, a window, a delta or the sections of a stream are complete, or the
\* merged delta is written or refused.
Done ==
  /\ part_of = "integers" => status # "INPUT" \/ Len(taken) = MaxBytes
  /\ part_of = "instructions" => phase = "END"
  /\ part_of = "headers" => AllRead /\ Len(wins) = MaxWindows
  /\ part_of = "sections" => at = "IDLE" /\ (sections = MaxSections \/ result = "ERROR")
  /\ part_of = "merge" => chain \in {"done", "error"}
  /\ UNCHANGED vars

Next == TakeIntegers \/ TakeInstructions \/ TakeHeaders \/ TakeSections \/ TakeMerge \/ Done
Spec == Init /\ [][Next]_vars

\* Only what is around the sections.
HeadersSpec == Init /\ part_of = "headers" /\ [][Next]_vars
==============================================================================
