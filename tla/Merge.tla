------------------------------- MODULE Merge -------------------------------
(***************************************************************************)
(* "xdelta3 merge -m d1 -m d2 ... dn": main_merge_arguments reads one      *)
(* delta after the other into a whole_target, a list of instructions with  *)
(* their positions in the whole target file, and xd3_merge_inputs replaces *)
(* every copy from the source of the newer delta by the instructions with  *)
(* which the older one made those bytes.  main_merge_output encodes the    *)
(* last result in the windows of the last delta.                           *)
(*                                                                         *)
(* xd3_merge_source_copy calls itself for the target copies of the older   *)
(* delta: "stack" holds its frames, and a step is one piece.               *)
(***************************************************************************)
EXTENDS Integers, Sequences, SequencesExt

CONSTANTS
  Origin,      \* the file that the first delta was made from, a sequence of bytes
  Chains,      \* how the deltas of a chain fit: records, see MergeAssumption
  MaxTargets,  \* bound: for every delta of the longest chain, the length of its target
  DeltaWindows   \* bound: for every delta, its windows

ASSUME MergeAssumption ==
  /\ Origin \in Seq(Nat)
  \* links: the deltas of the chain.  strange: the delta that was not made from
  \* the target of the one before but from Origin, or 0.  bare: the deltas whose
  \* application header has no digests.  no_armor: the option -a.
  /\ Chains \subseteq [links : DOMAIN MaxTargets, strange : Nat,
                       bare : SUBSET DOMAIN MaxTargets, no_armor : BOOLEAN]
  /\ MaxTargets \in Seq(Nat)
  /\ DeltaWindows \in [DOMAIN MaxTargets -> Nat \ {0}]

VARIABLES
  chain,    \* what main is doing: "input", "merge", "output", "done", "error"
  made,     \* the chain, one of Chains
  link,     \* the delta that is read or merged
  opened,   \* its header has been read
  armor,    \* the armor_merge_ variables
  window,   \* the window being read: [cpyoff, cpylen, start, tgtlen]
  whole,    \* stream->whole_target, the newest delta
  older,    \* merge_input.whole_target or merge_stream->whole_target
  merged,   \* tmp_stream.whole_target of xd3_merge_input_output
  input_i,  \* the instruction of whole that is merged or encoded
  stack,    \* the frames of xd3_merge_source_copy
  out,      \* the windows encoded so far
  from, to  \* the files before and after this delta, had they been decoded

mergeVars == <<chain, made, link, opened, armor, window, whole, older, merged, input_i, stack, out, from, to>>

Whole == [inst |-> <<>>, adds |-> <<>>, wininfo |-> <<>>, length |-> 0]
NoWindow == [cpyoff |-> 0, cpylen |-> 0, start |-> 0, tgtlen |-> 0]

\* The digest of a file is its contents.
NoDigest     == [have |-> FALSE, file |-> <<>>]
Digest(file) == [have |-> link \notin made.bare,
                 file |-> IF link \in made.bare THEN <<>> ELSE file]

MergeInit ==
  /\ chain = "input" /\ made \in Chains /\ link = 1 /\ opened = FALSE
  /\ armor = [all |-> TRUE, broken |-> FALSE, first |-> NoDigest, prev |-> NoDigest,
              last |-> NoDigest]
  /\ window = NoWindow
  /\ whole = Whole /\ older = Whole /\ merged = Whole
  /\ input_i = 1 /\ stack = <<>> /\ out = <<>>
  /\ from = Origin /\ to = <<>>

-----------------------------------------------------------------------------
(* Reading a delta *)

\* main_armor_merge_link, at the header of every delta: is its source the
\* target of the delta before?
LinkMutantForget(a, source) ==
  [a EXCEPT !.all = @ /\ source.have, !.first = IF link = 1 THEN source ELSE @]
Link(a, source) ==
  [a EXCEPT !.all = @ /\ source.have, !.first = IF link = 1 THEN source ELSE @,
            !.broken = @ \/ (link > 1 /\ a.prev.have /\ source.have /\ a.prev.file # source.file)]

OpenDelta ==
  /\ chain = "input" /\ ~opened
  /\ opened' = TRUE
  /\ armor' = IF made.no_armor THEN armor ELSE Link(armor, Digest(from))
  /\ chain' = IF armor'.broken THEN "error" ELSE chain
  /\ UNCHANGED <<made, link, window, whole, older, merged, input_i, stack, out, from, to>>

\* The header's target digest, noted when the target is known.
LinkTarget ==
  armor' = IF made.no_armor THEN armor
           ELSE [armor EXCEPT !.prev = Digest(to),
                              !.last = IF link \in made.bare THEN @ ELSE Digest(to)]

\* The next delta, and the file that it was made from.
NextDelta ==
  /\ LinkTarget
  /\ link' = link + 1 /\ opened' = FALSE /\ window' = NoWindow
  /\ from' = IF made.strange = link + 1 THEN Origin ELSE to
  /\ to' = <<>>

\* xd3_whole_append_window for the next window, whose segment of the source
\* is any end of the file the delta was made from, or nothing.  Only an empty
\* file has an empty window.
AppendWindow ==
  /\ chain = "input" /\ opened /\ Len(to) = window.start + window.tgtlen
  /\ Len(whole.wininfo) < DeltaWindows[link]
  /\ \E off \in 0 .. Len(from) :
       \E tgtlen \in 0 .. MaxTargets[link] - Len(to) :
         /\ tgtlen = 0 => whole.wininfo = <<>>
         /\ Len(to) = 0 => whole.wininfo = <<>>
         /\ window' = [cpyoff |-> off, cpylen |-> Len(from) - off, start |-> Len(to), tgtlen |-> tgtlen]
         /\ whole' = [whole EXCEPT !.wininfo = Append(@,
              [length |-> tgtlen, offset |-> Len(to), adler32 |-> <<link, Len(@) + 1>>])]
  /\ UNCHANGED <<chain, made, link, opened, armor, older, merged, input_i, stack, out, from, to>>

\* A winst of the whole target that ends before "length".
With(w, inst, data) ==
  [w EXCEPT !.inst = Append(@, inst), !.adds = @ \o data]

\* The byte that an ADD or RUN of this delta puts at a position.
Fresh(pos) == 10 * link + pos

\* xd3_whole_append_inst; "to" is what the decoder would have made of it.
AppendInst ==
  /\ chain = "input"
  /\ \E size \in 1 .. window.start + window.tgtlen - Len(to) :
       \/ /\ size > 1
          /\ whole' = [With(whole, [type |-> "RUN", mode |-> 0, size |-> size,
                                    addr |-> Len(whole.adds), position |-> whole.length],
                            <<Fresh(whole.length)>>) EXCEPT !.length = @ + size]
          /\ to' = to \o [j \in 1 .. size |-> Fresh(whole.length)]
       \/ \E data \in {[j \in 1 .. size |-> Fresh(whole.length + j - 1)]} :
          /\ whole' = [With(whole, [type |-> "ADD", mode |-> 0, size |-> size,
                                    addr |-> Len(whole.adds), position |-> whole.length],
                            data) EXCEPT !.length = @ + size]
          /\ to' = to \o data
       \/ \E addr \in 0 .. window.cpylen + Len(to) - window.start - 1 :
          /\ addr < window.cpylen => addr + size <= window.cpylen
          /\ \E inst \in {[type |-> "CPY", size |-> size, position |-> whole.length,
                           mode |-> IF addr < window.cpylen THEN 1 ELSE 0,
                           addr |-> IF addr < window.cpylen THEN window.cpyoff + addr
                                    ELSE window.start + addr - window.cpylen]} :
             /\ whole' = [With(whole, inst, <<>>) EXCEPT !.length = @ + size]
             /\ to' = IF inst.mode = 1 THEN to \o SubSeq(from, inst.addr + 1, inst.addr + size)
                      ELSE to \o [j \in 1 .. size |->
                                    to[inst.addr + 1 + ((j - 1) % (Len(to) - inst.addr))]]
  /\ UNCHANGED <<chain, made, link, opened, armor, window, older, merged, input_i, stack, out, from>>

ReadAll ==
  /\ chain = "input" /\ whole.wininfo # <<>>
  /\ Len(to) = window.start + window.tgtlen

\* main_merge_arguments: the first delta becomes the next merge input.
FirstArgument ==
  /\ ReadAll /\ link = 1 /\ link < made.links
  /\ older' = whole /\ whole' = Whole
  /\ NextDelta
  /\ UNCHANGED <<chain, made, merged, input_i, stack, out>>

\* xd3_merge_input_output is called for every other argument, and at the end
\* of main_input for the last delta; xd3_merge_inputs copies the window list.
BeginMerge ==
  /\ ReadAll /\ link > 1
  /\ chain' = "merge" /\ input_i' = 1
  /\ merged' = [Whole EXCEPT !.wininfo = whole.wininfo]
  /\ LinkTarget /\ UNCHANGED <<made, link, opened, window, whole, older, stack, out, from, to>>

\* main_merge_output with one delta only: merge_stream is NULL.
OutputAlone ==
  /\ ReadAll /\ link = 1 /\ made.links = 1
  /\ chain' = "output" /\ input_i' = 1 /\ window' = NoWindow
  /\ LinkTarget /\ UNCHANGED <<made, link, opened, whole, older, merged, stack, out, from, to>>

-----------------------------------------------------------------------------
(* xd3_merge_inputs *)

Merging == chain = "merge" /\ stack = <<>> /\ input_i <= Len(whole.inst)
Inst    == whole.inst[input_i]

\* The next instruction; its length counts once it is merged whole.
Proceed(w) ==
  /\ merged' = [w EXCEPT !.length = @ + Inst.size]
  /\ input_i' = input_i + 1

\* xd3_merge_run, xd3_merge_add
MergeData ==
  /\ Merging /\ Inst.type \in {"RUN", "ADD"}
  /\ Proceed(With(merged, [Inst EXCEPT !.addr = Len(merged.adds), !.position = merged.length],
                  SubSeq(whole.adds, Inst.addr + 1,
                         Inst.addr + IF Inst.type = "RUN" THEN 1 ELSE Inst.size)))
  /\ UNCHANGED <<chain, made, link, opened, armor, window, whole, older, stack, out, from, to>>

\* xd3_merge_target_copy
MergeTargetCopy ==
  /\ Merging /\ Inst.type = "CPY" /\ Inst.mode = 0
  /\ Proceed(With(merged, Inst, <<>>))
  /\ UNCHANGED <<chain, made, link, opened, armor, window, whole, older, stack, out, from, to>>

\* xd3_merge_find_position: the binary search, here by its result
FindPosition(address) ==
  CHOOSE i \in DOMAIN older.inst :
    /\ older.inst[i].position <= address
    /\ address < older.inst[i].position + older.inst[i].size

\* A frame of xd3_merge_source_copy: the rest of its instruction, and the
\* instruction of the older delta that the rest starts in.
Frame(addr, size, position) ==
  [addr |-> addr, size |-> size, position |-> position, sinst |-> FindPosition(addr)]

MergeSourceCopy ==
  /\ Merging /\ Inst.type = "CPY" /\ Inst.mode = 1
  /\ IF Inst.addr >= older.length
     THEN chain' = "error" /\ stack' = <<>>
     ELSE chain' = chain /\ stack' = <<Frame(Inst.addr, Inst.size, Inst.position)>>
  /\ UNCHANGED <<made, link, opened, armor, window, whole, older, merged, input_i, out, from, to>>

Top      == stack[Len(stack)]
Sinst    == older.inst[Top.sinst]
Offset   == Top.addr - Sinst.position
ThisTake == IF Top.size < Sinst.size - Offset THEN Top.size ELSE Sinst.size - Offset
Copying  == chain = "merge" /\ stack # <<>> /\ Top.size > 0
Inside   == Copying /\ Top.sinst <= Len(older.inst)

\* The frame after a piece: the next instruction of the older delta.
AdvanceMutantStay(frame, take) ==
  [frame EXCEPT !.position = @ + take, !.size = @ - take, !.sinst = @ + 1]
Advance(frame, take) ==
  [frame EXCEPT !.position = @ + take, !.addr = @ + take, !.size = @ - take, !.sinst = @ + 1]

Advanced == [stack EXCEPT ![Len(stack)] = Advance(@, ThisTake)]

\* Where a piece of an ADD or of a source copy begins.
PieceMutantStart(sinst, offset) == sinst.addr
Piece(sinst, offset)            == sinst.addr + offset

\* A piece of a RUN or ADD of the older delta, with its data.
MergePieceData ==
  /\ Inside /\ Sinst.type \in {"RUN", "ADD"}
  /\ merged' = With(merged, [type |-> Sinst.type, mode |-> 0, size |-> ThisTake,
                             addr |-> Len(merged.adds), position |-> Top.position],
                    IF Sinst.type = "RUN" THEN <<older.adds[Sinst.addr + 1]>>
                    ELSE SubSeq(older.adds, Piece(Sinst, Offset) + 1,
                                Piece(Sinst, Offset) + ThisTake))
  /\ stack' = Advanced
  /\ UNCHANGED <<chain, made, link, opened, armor, window, whole, older, input_i, out, from, to>>

\* A piece of a source copy: a copy from the older source.
MergePieceCopy ==
  /\ Inside /\ Sinst.type = "CPY" /\ Sinst.mode # 0
  /\ merged' = With(merged, [type |-> "CPY", mode |-> Sinst.mode, size |-> ThisTake,
                             addr |-> Piece(Sinst, Offset), position |-> Top.position], <<>>)
  /\ stack' = Advanced
  /\ UNCHANGED <<chain, made, link, opened, armor, window, whole, older, input_i, out, from, to>>

\* A piece of a target copy: whatever made the bytes that it copies.
Nested(sinst, offset)           == sinst.addr + offset

MergePieceAgain ==
  /\ Inside /\ Sinst.type = "CPY" /\ Sinst.mode = 0
  /\ stack' = Append(Advanced, Frame(Nested(Sinst, Offset), ThisTake, Top.position))
  /\ UNCHANGED <<chain, made, link, opened, armor, window, whole, older, merged, input_i, out, from, to>>

\* A copy that goes on past the end of the older target: the assertion stops it,
\* and what a build without assertions reads there is not defined.
MergePastEnd ==
  /\ Copying /\ ~Inside
  /\ chain' = "error" /\ stack' = <<>>
  /\ UNCHANGED <<made, link, opened, armor, window, whole, older, merged, input_i, out, from, to>>

MergeSourceReturn ==
  /\ chain = "merge" /\ stack # <<>> /\ Top.size = 0
  /\ stack' = Front(stack)
  /\ IF Len(stack) = 1 THEN Proceed(merged) ELSE UNCHANGED <<merged, input_i>>
  /\ UNCHANGED <<chain, made, link, opened, armor, window, whole, older, out, from, to>>

\* main_merge_arguments saves the result as the next source, ...
MergedArgument ==
  /\ chain = "merge" /\ stack = <<>> /\ input_i > Len(whole.inst) /\ link < made.links
  /\ chain' = "input" /\ older' = merged /\ whole' = Whole /\ merged' = Whole
  /\ NextDelta
  /\ UNCHANGED <<made, input_i, stack, out>>

\* ... main_merge_output encodes it.
MergedLast ==
  /\ chain = "merge" /\ stack = <<>> /\ input_i > Len(whole.inst) /\ link = made.links
  /\ chain' = "output" /\ whole' = merged /\ merged' = Whole
  /\ input_i' = 1 /\ window' = NoWindow
  /\ UNCHANGED <<made, link, opened, armor, older, stack, out, from, to>>

-----------------------------------------------------------------------------
(* main_merge_output *)

Current == out[Len(out)]
Full    == out # <<>> => Current.pos = Current.size

\* A window of the output: its size and checksum are those of the input, "pos"
\* counts the bytes its instructions cover, srcset, srcmin and srcmax are the
\* part of the source they copy from.
OutputWindow ==
  /\ chain = "output" /\ Full
  /\ input_i <= Len(whole.inst) \/ out = <<>>
  /\ LET info == whole.wininfo[Len(out) + 1]
     IN  IF info.offset # FoldLeft(LAMBDA n, w : n + w.pos, 0, out)
         THEN chain' = "error" /\ out' = out
         ELSE /\ chain' = chain
              /\ out' = Append(out, [size |-> info.length, adler32 |-> info.adler32,
                                     start |-> info.offset, pos |-> 0, insts |-> <<>>,
                                     srcset |-> FALSE, srcmin |-> 0, srcmax |-> 0])
  /\ UNCHANGED <<made, link, opened, armor, window, whole, older, merged, input_i, stack, from, to>>

SrcMin(w, addr) == IF w.srcset /\ w.srcmin < addr THEN w.srcmin ELSE addr
SrcMax(w, end)  == IF w.srcset /\ w.srcmax > end THEN w.srcmax ELSE end

\* One instruction, or what of it fits in the window.
OutputInst ==
  /\ chain = "output" /\ ~Full /\ input_i <= Len(whole.inst)
  /\ \E take \in {IF Inst.size < Current.size - Current.pos THEN Inst.size
                  ELSE Current.size - Current.pos} :
       /\ out' = [out EXCEPT ![Len(out)] =
            [@ EXCEPT !.pos = @ + take,
               !.insts = Append(@,
                 CASE Inst.type = "RUN" -> [type |-> "RUN", size |-> take,
                                            data |-> <<whole.adds[Inst.addr + 1]>>, addr |-> 0]
                   [] Inst.type = "ADD" -> [type |-> "ADD", size |-> take, addr |-> 0,
                                            data |-> SubSeq(whole.adds, Inst.addr + 1,
                                                            Inst.addr + take)]
                   [] OTHER -> [type |-> IF Inst.mode = 0 THEN "TARGET" ELSE "SOURCE",
                                size |-> take, data |-> <<>>,
                                addr |-> IF Inst.mode = 0 THEN Inst.addr - Current.start
                                         ELSE Inst.addr]),
               !.srcset = @ \/ (Inst.type = "CPY" /\ Inst.mode # 0),
               !.srcmin = IF Inst.type = "CPY" /\ Inst.mode # 0 THEN SrcMin(Current, Inst.addr) ELSE @,
               !.srcmax = IF Inst.type = "CPY" /\ Inst.mode # 0
                          THEN SrcMax(Current, Inst.addr + take) ELSE @]]
       /\ IF take = Inst.size THEN input_i' = input_i + 1 /\ UNCHANGED whole
          ELSE /\ input_i' = input_i
               /\ whole' = [whole EXCEPT !.inst[input_i] =
                    [@ EXCEPT !.size = @ - take, !.addr = IF Inst.type = "RUN" THEN @ ELSE @ + take]]
  /\ UNCHANGED <<chain, made, link, opened, armor, window, older, merged, stack, from, to>>

OutputDone ==
  /\ chain = "output" /\ Full /\ out # <<>> /\ input_i > Len(whole.inst)
  /\ chain' = "done"
  /\ UNCHANGED <<made, link, opened, armor, window, whole, older, merged, input_i, stack, out, from, to>>

MergeNext ==
  \/ OpenDelta \/ AppendWindow \/ AppendInst \/ FirstArgument \/ BeginMerge \/ OutputAlone
  \/ MergeData \/ MergeTargetCopy \/ MergeSourceCopy \/ MergePieceData \/ MergePieceCopy
  \/ MergePieceAgain \/ MergePastEnd \/ MergeSourceReturn \/ MergedArgument \/ MergedLast
  \/ OutputWindow \/ OutputInst \/ OutputDone

-----------------------------------------------------------------------------
(* Properties *)

\* The file that a whole target describes, made from the first source.
Image(w) ==
  LET f[p \in 0 .. w.length - 1] ==
        LET i == CHOOSE i \in DOMAIN w.inst :
                   w.inst[i].position <= p /\ p < w.inst[i].position + w.inst[i].size
            n == w.inst[i]
        IN  CASE n.type = "RUN" -> w.adds[n.addr + 1]
              [] n.type = "ADD" -> w.adds[n.addr + p - n.position + 1]
              [] OTHER -> IF n.mode = 0 THEN f[n.addr + p - n.position]
                          ELSE Origin[n.addr + p - n.position + 1]
  IN  [p \in 1 .. w.length |-> f[p - 1]]

\* What a decoder makes of a window of the output: the segment of the source
\* is srcmin .. srcmax, and target addresses start at the window.
Decoded(w) ==
  LET seg == SubSeq(Origin, w.srcmin + 1, w.srcmax)
      step(done, n) ==
        done \o CASE n.type = "RUN"    -> [j \in 1 .. n.size |-> n.data[1]]
                  [] n.type = "ADD"    -> n.data
                  [] n.type = "SOURCE" -> SubSeq(seg, n.addr - w.srcmin + 1,
                                                 n.addr - w.srcmin + n.size)
                  [] n.type = "TARGET" -> [j \in 1 .. n.size |->
                       done[n.addr + 1 + ((j - 1) % (Len(done) - n.addr))]]
  IN  FoldLeft(step, <<>>, w.insts)

\* The file that the windows of the output make from the first source.
Written == FlattenSeq([k \in DOMAIN out |-> Decoded(out[k])])

\* The merged delta makes from the first source what the chain of deltas makes
\* one after the other: after every merge as a whole target, and at the end as
\* the windows that are written, whose checksums are those of the last delta.
MergedTrue ==
  made.strange = 0 =>
    /\ chain = "input" /\ link > 1 => Image(older) = from
    /\ chain = "done" => /\ Written = to
                         /\ \A k \in DOMAIN out : out[k].adler32 = <<made.links, k>>

\* main_merge_output puts the source digest of the first delta and the target
\* digest of the last into the header when every delta was armored.  Then the
\* merged delta does make the one file from the other, whatever deltas were
\* named; and a chain of armored deltas that do fit is not refused.
Rearmed == chain = "done" /\ ~made.no_armor /\ armor.all /\ armor.first.have /\ armor.last.have

RearmedTrue ==
  /\ Rearmed => armor.first.file = Origin /\ armor.last.file = Written
  /\ armor.broken => made.strange # 0

\* A chain of deltas that fit one another is merged without an error, and the
\* assertions of xd3_merge_run, xd3_merge_add, xd3_merge_target_copy,
\* xd3_merge_source_copy and main_merge_output hold.  The calls of
\* xd3_merge_source_copy within one another end: each copies from before the
\* bytes that its caller is at.
MergeHolds ==
  /\ made.strange = 0 =>
       /\ chain # "error"
       /\ Merging => merged.length = Inst.position
       /\ Copying => Inside /\ Top.addr >= Sinst.position /\ Sinst.size > Offset
  /\ chain = "output" /\ ~Full /\ input_i <= Len(whole.inst) =>
       (Inst.type = "CPY" /\ Inst.mode = 0 => Inst.addr >= Current.start)
  /\ \A i \in 1 .. Len(stack) - 1 : stack[i + 1].addr + stack[i + 1].size < stack[i].addr
=============================================================================
