-------------------------------- MODULE Iopt --------------------------------
(***************************************************************************)
(* The instruction buffer of the encoder (the iopt list of xdelta3.c) and  *)
(* the string matcher that fills it, for one target window.                *)
(*                                                                         *)
(* The matcher walks over the window and reports matches.  A match that is *)
(* not long enough is followed by a lazy search that may report a longer   *)
(* one starting a byte later, and a source match may extend backwards over *)
(* earlier ones, so the buffered instructions overlap.  When the buffer is *)
(* full, or the window ends, xd3_iopt_flush_instructions removes the       *)
(* overlaps and encodes instructions from the front; the gaps become ADDs. *)
(* The encoder is one thread: an action is one turn of a loop, and pc says *)
(* which loop it is in.                                                    *)
(*                                                                         *)
(* Which bytes match is data; here every match the code's tests admit may  *)
(* be found.  A copy is found with addr = pos (the address of a copy       *)
(* matters only relative to its position), so that a copy shortened from   *)
(* the left must still have addr = pos.                                    *)
(***************************************************************************)
EXTENDS Integers, Sequences, FiniteSets

CONSTANTS
  Profiles,   \* configurations of the stream, and windows, that are explored
  Elts,       \* slots that one more allocation adds
  MinMatch,   \* MIN_MATCH (4)
  MinRun,     \* MIN_RUN (8)
  MaxSplit,   \* MAX_MATCH_SPLIT (18)
  SLook,      \* smatcher.small_look (4)
  LLook       \* smatcher.large_look

\* avail_in: bytes of the window; iopt_size: slots at first; unlimited:
\* config.iopt_size = 0, so that the buffer grows; max_lazy: of the matcher;
\* greedy: XD3_BEGREEDY; max_back: bound on how far a source match extends back.
ASSUME IoptAssumption ==
  /\ {Elts, MinMatch, MinRun, MaxSplit, SLook, LLook} \subseteq Nat \ {0}
  /\ MinMatch <= SLook /\ MinMatch <= LLook /\ MinMatch <= MinRun /\ MinMatch <= MaxSplit
  /\ \A p \in Profiles :
       /\ {p.avail_in, p.iopt_size} \subseteq Nat \ {0}
       /\ {p.max_lazy, p.max_back} \subseteq Nat
       /\ {p.unlimited, p.greedy} \subseteq BOOLEAN

VARIABLES
  profile,
  pc,
  input_position,    \* where the matcher is
  min_match,         \* shortest match worth taking there
  new,               \* match waiting for a slot; mlen is its size from input_position
  used,              \* stream->iopt_used, front first
  free,              \* number of slots in stream->iopt_free
  slots,             \* stream->iopt_size
  iout,              \* stream->iout: encoded but held back to be paired
  unencoded_offset,  \* end of what has been encoded
  r1,                \* position in used of the compaction loop
  force,             \* argument of xd3_iopt_flush_instructions
  flushed            \* instructions this flush has encoded

matchVars == <<input_position, min_match, new>>
sizeVars == <<profile, slots>>
bufVars == <<used, free, sizeVars>>
outVars == <<iout, unencoded_offset>>
flushVars == <<r1, force, flushed>>
vars == <<pc, matchVars, bufVars, outVars, flushVars>>

AvailIn   == profile.avail_in
MaxLazy   == profile.max_lazy
Greedy    == profile.greedy

\* A COPY has an address mode that double instructions treat as near (SELF,
\* HERE, near: 0 to 5) or as same (6 to 8).
Copies == {"CPY", "CPYSAME"}
Types  == Copies \cup {"RUN"}
None   == [type |-> "NONE"]
Add(pos, size) == [type |-> "ADD", pos |-> pos, size |-> size]

End(r) == r.pos + r.size
At(i) == used[i]
Without(i) == SubSeq(used, 1, i - 1) \o SubSeq(used, i + 1, Len(used))

Larger(a, b)  == IF a < b THEN b ELSE a
Smaller(a, b) == IF a < b THEN a ELSE b

\* xd3_iopt_last_matched
LastMatched == IF used = <<>> THEN 0 ELSE End(used[Len(used)])

-----------------------------------------------------------------------------
(* The matcher. *)

\* Leave the loop: ENC_INSTR flushes with force.
LoopNoMore ==
  /\ pc' = "COMPACT"
  /\ r1' = 1 /\ force' = TRUE /\ flushed' = 0

RestartMutantSameEnd(p, last) ==
  /\ input_position' = p
  /\ IF p + SLook > AvailIn
       THEN LoopNoMore /\ UNCHANGED min_match
       ELSE /\ pc' = "SEARCH"
            /\ min_match' = IF last > p THEN Larger(MinMatch, last - p) ELSE MinMatch
            /\ UNCHANGED flushVars

\* restartloop: matches that end no later than the last one are not wanted.
Restart(p, last) ==
  /\ input_position' = p
  /\ IF p + SLook > AvailIn
       THEN LoopNoMore /\ UNCHANGED min_match
       ELSE /\ pc' = "SEARCH"
            /\ min_match' = IF last > p THEN Larger(MinMatch, 1 + last - p) ELSE MinMatch
            /\ UNCHANGED flushVars

\* updateone: the next byte, if one more string of SLook bytes fits.
UpdateOne ==
  IF input_position + SLook = AvailIn
    THEN LoopNoMore /\ UNCHANGED input_position
    ELSE pc' = "SEARCH" /\ input_position' = input_position + 1 /\ UNCHANGED flushVars

\* A match of length mlen at input_position, extended back bytes backwards.
Found(type, back, mlen) ==
  /\ mlen >= min_match
  /\ input_position + mlen <= AvailIn
  /\ new' = [inst |-> [type |-> type, pos |-> input_position - back,
                       size |-> back + mlen, addr |-> input_position - back],
             mlen |-> mlen, lazy |-> TRUE]
  /\ pc' = "SLOT"
  /\ UNCHANGED <<input_position, min_match>>

\* xd3_emit_run
FindRun ==
  /\ pc = "SEARCH"
  /\ \E n \in MinRun .. AvailIn : Found("RUN", 0, n)
  /\ UNCHANGED <<bufVars, outVars, flushVars>>

\* xd3_smatch found a match in the target window.
FindTarget ==
  /\ pc = "SEARCH"
  /\ \E n \in MinMatch .. AvailIn, type \in Copies : Found(type, 0, n)
  /\ UNCHANGED <<bufVars, outVars, flushVars>>

\* xd3_iopt_erase: a match that extends back to pos covers the last instructions,
\* as far as they start there or later.
Kept(pos) ==
  LET covered(n) == \A i \in n + 1 .. Len(used) : used[i].pos >= pos
  IN  SubSeq(used, 1, CHOOSE n \in 0 .. Len(used) :
                        covered(n) /\ (n > 0 => used[n].pos < pos))

\* xd3_source_match_setup and xd3_source_extend_match, in the loop.
FindSource ==
  /\ pc = "SEARCH"
  /\ input_position + LLook <= AvailIn
  /\ \E back \in 0 .. profile.max_back, n \in MinMatch .. AvailIn, type \in Copies :
       /\ back <= input_position - (IF Greedy THEN LastMatched ELSE unencoded_offset)
       /\ Found(type, back, n)
       /\ IF back > 0
            THEN /\ used' = Kept(input_position - back)
                 /\ free' = free + Len(used) - Len(used')
            ELSE UNCHANGED <<used, free>>
  /\ UNCHANGED <<sizeVars, outVars, flushVars>>

\* MATCH_TARGET in xd3_encode_input: the match of the previous window goes on,
\* or the inputs begin alike.  No lazy search follows this match.
ContinueMatch ==
  /\ pc = "START"
  /\ \E n \in MinMatch .. AvailIn, type \in Copies :
       new' = [inst |-> [type |-> type, pos |-> 0, size |-> n, addr |-> 0],
                mlen |-> n, lazy |-> FALSE]
  /\ pc' = "SLOT"
  /\ UNCHANGED <<input_position, min_match, bufVars, outVars, flushVars>>

StartSearch ==
  /\ pc = "START"
  /\ Restart(0, LastMatched)
  /\ UNCHANGED <<new, bufVars, outVars>>

\* The matcher needs a source block: it returns XD3_GETSRCBLK, and the next
\* call of xd3_encode_input enters it again at restartloop.
GetSourceBlock ==
  /\ pc = "SEARCH"
  /\ Restart(input_position, LastMatched)
  /\ UNCHANGED <<new, bufVars, outVars>>

\* None of the three kinds of match is long enough here.
NoMatch ==
  /\ pc = "SEARCH"
  /\ min_match' = IF min_match > MinMatch THEN min_match - 1 ELSE min_match
  /\ UpdateOne
  /\ UNCHANGED <<new, bufVars, outVars>>

-----------------------------------------------------------------------------
(* xd3_iopt_get_slot, and what follows the emission of the instruction. *)

\* TRYLAZYLEN
TryLazy(mlen) == mlen < MaxLazy /\ input_position + mlen <= AvailIn - 2

Place(available) ==
  /\ used' = Append(used, new.inst)
  /\ free' = available - 1
  /\ new' = None
  /\ IF new.lazy /\ TryLazy(new.mlen)
       THEN min_match' = new.mlen /\ UpdateOne
       ELSE Restart(input_position + new.mlen, End(new.inst))
  /\ UNCHANGED outVars

GetSlot ==
  /\ pc = "SLOT"
  /\ free > 0
  /\ Place(free)
  /\ UNCHANGED sizeVars

\* xd3_alloc_iopt
GrowSlots ==
  /\ pc = "SLOT"
  /\ free = 0 /\ profile.unlimited
  /\ slots' = slots + Elts
  /\ Place(Elts)
  /\ UNCHANGED profile

StartFlush ==
  /\ pc = "SLOT"
  /\ free = 0 /\ ~profile.unlimited
  /\ pc' = "COMPACT"
  /\ r1' = 1 /\ force' = FALSE /\ flushed' = 0
  /\ UNCHANGED <<matchVars, bufVars, outVars>>

\* The slot the flush has freed is taken.
PlaceAfterFlush ==
  /\ pc = "PLACE"
  /\ free > 0
  /\ Place(free)
  /\ UNCHANGED sizeVars

-----------------------------------------------------------------------------
(* xd3_iopt_flush_instructions, first loop: one turn with r1, the next     *)
(* instruction r2 and possibly the one after that, r3.                     *)

Pair == r1 < Len(used)
Third == r1 + 1 < Len(used)
Overlap == Pair /\ End(At(r1)) > At(r1 + 1).pos
Irrelevant == Third /\ At(r1 + 2).pos <= End(At(r1)) + 1

\* r2 is judged only with r3 in sight, or when nothing more will come.
Judged == Overlap /\ ~Irrelevant /\ (Third \/ force)

Gap   == End(At(r1 + 1)) - At(r1).pos
MostlyOverlap ==
  \/ Gap < 2 * MinMatch
  \/ End(At(r1 + 1)) - End(At(r1)) <= 2
  \/ At(r1 + 1).pos - At(r1).pos <= 2

Compacting == pc = "COMPACT" /\ UNCHANGED <<matchVars, outVars, sizeVars, force, flushed>>

SkipDisjointMutantStuck ==
  /\ Compacting
  /\ Pair /\ ~Overlap
  /\ UNCHANGED <<pc, r1, used, free>>

SkipDisjoint ==
  /\ Compacting
  /\ Pair /\ ~Overlap
  /\ r1' = r1 + 1
  /\ UNCHANGED <<pc, used, free>>

DropIrrelevant ==
  /\ Compacting
  /\ Overlap /\ Irrelevant
  /\ used' = Without(r1 + 1)
  /\ free' = free + 1
  /\ UNCHANGED <<pc, r1>>

DropShorterMutantFirst ==
  /\ Compacting
  /\ Judged /\ MostlyOverlap
  /\ used' = Without(r1) /\ r1' = r1
  /\ free' = free + 1
  /\ UNCHANGED pc

DropShorter ==
  /\ Compacting
  /\ Judged /\ MostlyOverlap
  /\ IF At(r1).size < At(r1 + 1).size
       THEN used' = Without(r1) /\ r1' = r1
       ELSE used' = Without(r1 + 1) /\ r1' = r1 + 1
  /\ free' = free + 1
  /\ UNCHANGED pc

\* Bytes to take off the end of a and off the start of b, two instructions
\* that overlap.
Overlapped(a, b) == End(a) - b.pos

Shorten(a, b) ==
  LET gap     == End(b) - a.pos
      newsize == Smaller(MaxSplit, gap - gap \div 2)
      \* balance the sizes, but take no more than the overlap
      balance == a.size - newsize
      cut     == IF b.pos > End(a) - balance THEN balance - (b.pos - (End(a) - balance))
                 ELSE balance
  IN  IF newsize > a.size THEN <<0, Overlapped(a, b)>>
      ELSE IF newsize > b.size THEN <<Overlapped(a, b), 0>>
      ELSE <<cut, Overlapped(a, b) - cut>>

ShortenOne ==
  /\ Compacting
  /\ Judged /\ ~MostlyOverlap
  /\ LET cut == Shorten(At(r1), At(r1 + 1))
     IN used' = [used EXCEPT ![r1].size = @ - cut[1],
                             ![r1 + 1].size = @ - cut[2],
                             ![r1 + 1].pos  = @ + cut[2],
                             ![r1 + 1].addr = @ + cut[2]]
  /\ r1' = r1 + 1
  /\ UNCHANGED <<pc, free>>

EndCompact ==
  /\ Compacting
  /\ ~Pair \/ (Overlap /\ ~Irrelevant /\ ~Judged)
  /\ pc' = "ENCODE"
  /\ r1' = 1
  /\ UNCHANGED <<used, free>>

-----------------------------------------------------------------------------
(* xd3_iopt_flush_instructions, second loop, and xd3_iopt_add_finalize. *)

\* xd3_choose_instruction: two instructions of one code of the default table.
IsDouble(prev, inst) ==
  \/ prev.type \in Copies /\ prev.size = 4 /\ inst.type = "ADD" /\ inst.size = 1
  \/ /\ prev.type = "ADD" /\ prev.size <= 4
     /\ \/ inst.type = "CPY" /\ inst.size \in 4 .. 6
        \/ inst.type = "CPYSAME" /\ inst.size = 4

SlotOf(inst) == IF inst.type \in Types THEN 1 ELSE 0

\* The part of xd3_iopt_finish_encoding that pairs inst with what is held in
\* o.iout; slots of instructions that have been written are freed.
HoldOrPair(o, inst) ==
  IF o.iout # None /\ IsDouble(o.iout, inst)
    THEN [iout |-> None, freed |-> o.freed + SlotOf(o.iout) + SlotOf(inst)]
    ELSE [iout |-> inst, freed |-> o.freed + SlotOf(o.iout)]

\* xd3_iopt_add: the unmatched bytes up to pos.
AddUpTo(o, pos) ==
  IF pos > unencoded_offset THEN HoldOrPair(o, Add(unencoded_offset, pos - unencoded_offset))
  ELSE o

Held == [iout |-> iout, freed |-> 0]

\* xd3_iopt_add_encoding of the front instruction.  Without force the loop
\* stops when half of the buffer is encoded, or at the last two instructions,
\* which the first loop has not judged.
EncodeFrontMutant(stop) ==
  /\ pc = "ENCODE"
  /\ used # <<>>
  /\ LET inst == Head(used)
         o    == HoldOrPair(AddUpTo(Held, inst.pos), inst)
     IN  /\ iout' = o.iout
         /\ free' = free + o.freed
         /\ unencoded_offset' = Larger(unencoded_offset, inst.pos) + inst.size
  /\ used' = Tail(used)
  /\ flushed' = IF force THEN flushed ELSE flushed + 1
  /\ pc' = IF ~force /\ stop THEN "PLACE" ELSE "ENCODE"
  /\ UNCHANGED <<matchVars, sizeVars, r1, force>>

EncodeFrontMutantNoPair == EncodeFrontMutant(flushed + 1 > slots \div 2 \/ Len(used) = 1)
EncodeFrontMutantOne == EncodeFrontMutant(TRUE)

EncodeFront ==
  /\ pc = "ENCODE"
  /\ used # <<>>
  /\ LET inst == Head(used)
         o    == HoldOrPair(AddUpTo(Held, inst.pos), inst)
     IN  /\ iout' = o.iout
         /\ free' = free + o.freed
         /\ unencoded_offset' = Larger(unencoded_offset, inst.pos) + inst.size
  /\ used' = Tail(used)
  /\ flushed' = IF force THEN flushed ELSE flushed + 1
  /\ pc' = IF ~force /\ (flushed + 1 > slots \div 2 \/ Len(used) - 1 <= 2)
           THEN "PLACE" ELSE "ENCODE"
  /\ UNCHANGED <<matchVars, sizeVars, r1, force>>

\* The list is empty: xd3_iopt_add_finalize writes the rest of the window.
Finalize ==
  /\ pc = "ENCODE"
  /\ used = <<>> /\ force
  /\ LET o == AddUpTo(Held, AvailIn)
     IN  free' = free + o.freed + SlotOf(o.iout)
  /\ iout' = None
  /\ unencoded_offset' = Larger(unencoded_offset, AvailIn)
  /\ pc' = "DONE"
  /\ UNCHANGED <<matchVars, used, sizeVars, flushVars>>

-----------------------------------------------------------------------------
Init ==
  /\ pc = "START"
  /\ input_position = 0 /\ min_match = MinMatch /\ new = None
  /\ profile \in Profiles /\ slots = profile.iopt_size
  /\ used = <<>> /\ free = slots
  /\ iout = None /\ unencoded_offset = 0
  /\ r1 = 1 /\ force = FALSE /\ flushed = 0

Match == FindRun \/ FindTarget \/ FindSource \/ ContinueMatch \/ StartSearch
         \/ GetSourceBlock \/ NoMatch
Slot  == GetSlot \/ GrowSlots \/ StartFlush \/ PlaceAfterFlush
Compact == SkipDisjoint \/ DropIrrelevant \/ DropShorter \/ ShortenOne \/ EndCompact
Encode == EncodeFront \/ Finalize

Done == pc = "DONE" /\ UNCHANGED vars

Next == Match \/ Slot \/ Compact \/ Encode \/ Done

Spec == Init /\ [][Next]_vars

\* One thread that runs until the window is encoded.
FairSpec == Spec /\ WF_vars(Next)

-----------------------------------------------------------------------------
(* Properties. *)

Instructions(types) == [type : types, pos : 0 .. AvailIn, size : Nat, addr : Nat]
Adds == [type : {"ADD"}, pos : 0 .. AvailIn, size : Nat]

\* Types; "new" is the instruction being entered, which is there exactly while a
\* step of entering it runs.
TypeOK ==
  /\ pc \in {"START", "SEARCH", "SLOT", "PLACE", "COMPACT", "ENCODE", "DONE"}
  /\ input_position \in 0 .. AvailIn
  /\ min_match \in MinMatch .. Larger(MinMatch, AvailIn)
  /\ new = None <=> (pc \notin {"SLOT", "PLACE"} /\ (pc \in {"COMPACT", "ENCODE"} => force))
  /\ new # None => new \in [inst : Instructions(Types), mlen : Nat, lazy : BOOLEAN]
  /\ used \in Seq(Instructions(Types))
  /\ profile \in Profiles /\ free \in Nat /\ slots \in Nat
  /\ iout \in {None} \cup Instructions(Types) \cup Adds
  /\ unencoded_offset \in Nat
  /\ r1 \in Nat \ {0} /\ force \in BOOLEAN /\ flushed \in Nat

\* The buffered instructions and the match that is waiting for a slot.
Buffered == IF new = None THEN used ELSE Append(used, new.inst)

\* Each buffered instruction starts and ends after the one before it: what
\* min_match and xd3_iopt_erase are for, what the assertions "min_match is
\* working" and "r2end > r1end" say, and what the compaction relies on.
Ordered ==
  \A i \in 1 .. Len(Buffered) - 1 :
    /\ Buffered[i].pos < Buffered[i + 1].pos
    /\ End(Buffered[i]) < End(Buffered[i + 1])

\* Compaction shortens no instruction below MIN_MATCH, nor past its own end, and
\* a copy that lost bytes at its start copies from as many bytes later.
Shortened ==
  \A i \in 1 .. Len(used) :
    /\ used[i].size >= MinMatch
    /\ used[i].type \in Copies => used[i].addr = used[i].pos

\* What xd3_iopt_flush_instructions, the lazy limit and the encoder of instructions
\* may rely on in the buffer, after any sequence of matches, erasures and turns of
\* the compaction.
BufferSound == TypeOK /\ Ordered /\ Shortened

\* XD3_ASSERT(stream->input_position >= greedy_or_not) of
\* xd3_source_match_setup, which then subtracts the two.
SearchNotBehind ==
  pc = "SEARCH" =>
    input_position >= (IF Greedy THEN LastMatched ELSE unencoded_offset)

\* XD3_ASSERT(stream->unencoded_offset == inst->pos) of
\* xd3_iopt_finish_encoding, for the instruction whose turn it is and, before
\* that, for every instruction that is still to come; and the matcher does not
\* search behind what is encoded.
NothingBehind ==
  /\ \A i \in 1 .. Len(Buffered) : Buffered[i].pos >= unencoded_offset
  /\ unencoded_offset <= AvailIn
  /\ SearchNotBehind

\* The assertion of xd3_iopt_finish_encoding itself, for the smallest buffers: it
\* does not hold of TinyProfiles (README, section 5).
FrontNotBehind ==
  pc = "ENCODE" /\ used # <<>> => Head(used).pos >= unencoded_offset

\* xd3_iopt_check: every slot is free, in use, or held by iout.
SlotsConserved == Len(used) + free + SlotOf(iout) = slots

\* XD3_ASSERT(!xd3_rlist_empty(&stream->iopt_free)) of xd3_iopt_get_slot: a
\* flush without force frees a slot, because none is lost and it encodes enough.
SlotsKept ==
  /\ SlotsConserved
  /\ pc = "PLACE" => free > 0

\* What keeps BufferSound, step by step.  The order of the buffer, and of the match
\* that waits for a slot, which ends at the end of what the matcher found.
InOrder ==
  /\ \A i \in 1 .. Len(used) - 1 :
        used[i].pos < used[i + 1].pos /\ End(used[i]) < End(used[i + 1])
  /\ \A i \in 1 .. Len(used) : End(used[i]) <= AvailIn

NewSound ==
  new # None =>
    /\ new.mlen >= MinMatch /\ new.inst.pos <= input_position
    /\ End(new.inst) = input_position + new.mlen /\ End(new.inst) <= AvailIn
    /\ new.inst.type \in Copies => new.inst.addr = new.inst.pos
    /\ new.lazy => input_position + SLook <= AvailIn
    /\ used # <<>> => /\ used[Len(used)].pos < new.inst.pos
                     /\ End(used[Len(used)]) < End(new.inst)

\* The shortest match worth taking ends after the last one.
MatcherAhead ==
  pc = "SEARCH" =>
    /\ input_position + SLook <= AvailIn
    /\ used # <<>> => /\ used[Len(used)].pos < input_position
                     /\ End(used[Len(used)]) < input_position + min_match

\* What the compaction loop has passed is disjoint; afterwards all is, but for
\* the last two instructions unless the flush was forced.
Disjoint(i) == End(used[i]) <= used[i + 1].pos
Compacted ==
  \A i \in 1 .. Len(used) - 1 :
    /\ pc = "COMPACT" /\ i < r1 => Disjoint(i)
    /\ pc = "ENCODE" /\ (force \/ i < Len(used) - 1) => Disjoint(i)

AtStart == pc = "START" => used = <<>> /\ input_position = 0

BufferInv ==
  TypeOK /\ InOrder /\ Shortened /\ NewSound /\ MatcherAhead /\ Compacted /\ AtStart

\* What keeps SlotsKept: a flush that has encoded something has freed a slot or
\* holds one in iout, which the next instruction frees.
SlotsInv ==
  /\ SlotsKept
  /\ ~profile.unlimited => slots = profile.iopt_size
  /\ profile.unlimited /\ pc \in {"COMPACT", "ENCODE", "PLACE"} => force
  /\ pc = "COMPACT" => flushed = 0
  /\ pc = "ENCODE" /\ ~force /\ flushed > 0 => free + SlotOf(iout) > 0

\* A flush without force always encodes one instruction.  It is one that the
\* compaction has judged, because more than two are there, or it happens not to
\* overlap the next.  Small buffers and lazy or backward matches can make it false.
FrontSettled ==
  pc = "ENCODE" /\ ~force /\ flushed = 0 /\ Len(used) \in 1 .. 2 =>
    End(Buffered[1]) <= Buffered[2].pos

\* What keeps NothingBehind, as long as FrontSettled holds.
BehindInv ==
  /\ NothingBehind
  /\ pc # "DONE" /\ (pc \in {"COMPACT", "ENCODE"} => ~force) => unencoded_offset <= input_position
  /\ pc = "COMPACT" => flushed = 0
  /\ pc = "ENCODE" /\ ~force /\ flushed > 0 => Len(used) > 2

Covered == UNION {used[i].pos .. End(used[i]) - 1 : i \in 1 .. Len(used)}

\* A turn of the compaction gives up fewer than MIN_MATCH matched bytes, and
\* never claims a byte that no match covered.
CompactionLosesLittle ==
  [][pc = "COMPACT" =>
       /\ Cardinality(Covered \ Covered') < MinMatch
       /\ Covered' \subseteq Covered]_vars

\* The matcher and both loops of the flush make progress: the window ends, and
\* then everything is encoded and every slot is back.
WindowEnds == <>(pc = "DONE" /\ unencoded_offset = AvailIn /\ free = slots)
=============================================================================
