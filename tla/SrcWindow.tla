------------------------------ MODULE SrcWindow ------------------------------
(***************************************************************************)
(* The encoder and its source (xdelta3.c): how the source is indexed ahead *)
(* of the input, how a match with it is extended over block boundaries     *)
(* when any block may be missing and has to be asked for, and how the      *)
(* source window of the delta is decided, before all of the copies that    *)
(* will use it are known.                                                  *)
(*                                                                         *)
(* The encoder is one thread that returns to its application with          *)
(* XD3_GETSRCBLK wherever it stands; the next call of xd3_encode_input     *)
(* enters again by match_state alone.  An action is what happens up to the *)
(* next request for a block, or one turn of a loop.                        *)
(*                                                                         *)
(* Source and target are sequences of bytes.  The search is the one of the *)
(* code: the checksum of a stretch is rolled along the target and looked   *)
(* up in the index of the source, and the target is searched for itself    *)
(* through a hash table and a ring of chains.  Of the instruction buffer   *)
(* (module Iopt) only this is kept: it holds a number of instructions, and *)
(* makes room by encoding some from its front.                             *)
(***************************************************************************)
EXTENDS Integers, Sequences, FiniteSets

CONSTANTS
  Encodings,   \* sources, targets and configurations that are explored
  LLook,       \* smatcher.large_look
  LStep,       \* smatcher.large_step
  SLook,       \* smatcher.small_look
  MinMatch,    \* MIN_MATCH
  MinRun,      \* MIN_RUN
  MaxLazy,     \* smatcher.max_lazy
  OffMod,      \* values of usize_t where it is narrower than xoff_t (2^32)
  Mult,        \* xd3_hash_multiplier
  CksumMod,    \* values of a checksum
  LSlots,      \* large_hash.size
  SSlots,      \* small_hash.size
  Slot(_, _),  \* xd3_checksum_hash of a table's size and a checksum
  SChain,      \* smatcher.small_chain
  SLChain,     \* smatcher.small_lchain
  LongEnough,  \* smatcher.long_enough
  SPrevSz,     \* sprevsz
  Far          \* lengths of copies that are dropped from some distance on

\* source: its bytes; windows: the windows of the target; blk: src->blksize;
\* kind: "file" and "pipe" are read by the callback of the command,
\* "app" answers XD3_GETSRCBLK, "single" has given the whole source as one block;
\* "none" has no source; small: not XD3_NOCOMPRESS;
\* lru: blocks that the callback keeps; window: src->max_winsize;
\* size_known: xd3_set_source_and_size was called; slots: instructions that
\* the buffer holds, 0 if it grows.
Kinds == {"file", "pipe", "app", "single", "none"}

ASSUME SrcAssumption ==
  /\ {LLook, LStep, SLook, MinMatch, MinRun, OffMod, Mult, CksumMod, LSlots, SSlots,
      SChain, SLChain, LongEnough, SPrevSz} \subseteq Nat \ {0}
  /\ MaxLazy \in Nat
  /\ MinMatch <= SLook /\ SLook <= LLook
  \* xd3_checksum_hash: a table has a slot for each hash
  /\ \A slots \in {LSlots, SSlots} : \A c \in 0 .. CksumMod - 1 : Slot(slots, c) \in 0 .. slots - 1
  /\ \A e \in Encodings :
       /\ e.kind \in Kinds /\ {e.size_known, e.small} \subseteq BOOLEAN
       \* bytes are numbers, and an encoder makes one window at least
       /\ e.source \in Seq(Nat) /\ e.windows \in Seq(Seq(Nat)) /\ e.windows # <<>>
       /\ {e.blk, e.lru} \subseteq Nat \ {0} /\ e.slots \in Nat
       \* xd3_set_source: whole blocks, and not none; a window fits usize_t
       /\ e.window \in Nat \ {0} /\ e.window % e.blk = 0 /\ 2 * e.window <= OffMod
       /\ e.kind \in {"file", "single"} => e.size_known
       /\ e.kind = "single" => Len(e.source) <= e.blk
       /\ e.kind = "none" => e.source = <<>>
       /\ e.kind = "pipe" => ~e.size_known /\ e.window = e.blk * e.lru /\ Len(e.source) >= e.window

VARIABLES
  enc,               \* what is encoded, one of Encodings
  pc,
  number,            \* windows finished
  total_in,          \* bytes in them
  input_position,
  min_match,
  unencoded_offset,
  next_move_point,
  loop,              \* run_l, run_c and lcksum of the loop of xd3_string_match
  small_table,       \* positions of the target by the slot of their hash, + 1, or 0
  small_prev,        \* for a position, the one that had its slot before, + 1, or 0
  search,            \* in xd3_smatch: where to compare, how often yet, and the longest match
  match,             \* the match_ fields of the stream, and who extends the match
  cksum_pos,         \* srcwin_cksum_pos: the source is indexed up to here
  maxsrcaddr,        \* end of the last source copy, over all windows
  table,             \* large_table: position + 1, or 0
  win,               \* source window of this target window
  src,               \* xd3_source: the block at hand, and what is known of the size
  used,              \* iopt_used
  new,               \* match waiting for a slot
  encoded,           \* copies encoded in this window, as they were encoded
  want               \* src->getblkno

posVars == <<input_position, min_match, unencoded_offset, next_move_point, loop>>
smallVars == <<small_table, small_prev, search>>
idxVars == <<cksum_pos, maxsrcaddr, table>>
outVars == <<win, used, encoded>>
inVars  == <<enc, number, total_in>>
vars == <<pc, posVars, smallVars, match, idxVars, outVars, inVars, src, new, want>>

Larger(a, b)  == IF a < b THEN b ELSE a
Smaller(a, b) == IF a < b THEN a ELSE b
Forever == 1000000   \* USIZE_T_MAX

S == enc.source
T == IF number < Len(enc.windows) THEN enc.windows[number + 1] ELSE <<>>
Blk == enc.blk
AvailIn == Len(T)
HasSource == enc.kind # "none"

None == [type |-> "NONE"]
End(r) == r.pos + r.size
LastMatched == IF used = <<>> THEN 0 ELSE End(used[Len(used)])

-----------------------------------------------------------------------------
(* Blocks.  What the callback and the application answer is what           *)
(* SourceCache promises: the block, or for a pipe that it is too far back. *)

OnBlock(b) == Smaller(Blk, Larger(0, Len(S) - b * Blk))

\* xd3_source_eof: only a bound on what has been seen while eof is not known.
Eof == src.max_blkno * Blk + src.onlastblk

Refused(b) == enc.kind = "pipe" /\ b # src.cur /\ b + enc.lru <= src.highest
Asked(b)   == enc.kind \in {"app", "single"} /\ b # src.cur
Ready(b)   == ~Refused(b) /\ ~Asked(b)

\* xd3_getblk
Getblk(b) ==
  [cur       |-> b,
   highest   |-> Larger(b, src.highest),
   max_blkno |-> Larger(b, src.max_blkno),
   onlastblk |-> IF b >= src.max_blkno THEN OnBlock(b) ELSE src.onlastblk,
   eof_known |-> src.eof_known \/ (b > src.max_blkno /\ OnBlock(b) # Blk)]

\* xd3_bytes_on_srcblk, once the block has been got.
BytesOn(s, b) == IF b = s.max_blkno THEN s.onlastblk ELSE Blk

AskFor(b) == pc' = "WAIT" /\ want' = b

-----------------------------------------------------------------------------
(* Checksums. *)

Input(p, n) == SubSeq(T, p + 1, p + n)

\* xd3_large_cksum: the sum of the bytes times the powers of the multiplier.
LargeCksum(bytes) ==
  LET sum[i \in 0 .. LLook] == IF i = 0 THEN 0 ELSE (Mult * sum[i - 1] + bytes[i]) % CksumMod
  IN  sum[LLook]

\* What the byte that leaves has been multiplied by, one place further.
Multiplier ==
  LET powers[i \in 0 .. LLook] == IF i = 0 THEN 1 ELSE (powers[i - 1] * Mult) % CksumMod
  IN  powers[LLook]

\* xd3_large_cksum_update: a byte leaves in front and one is added.
RolledCksum(cksum, old, next) == (Mult * cksum - Multiplier * old + next) % CksumMod

\* The slots of a stretch in the two tables.
LargeSlot(bytes) == Slot(LSlots, LargeCksum(bytes))
SmallSlot(p) ==
  LET sum[i \in 0 .. SLook] == IF i = 0 THEN 0 ELSE (Mult * sum[i - 1] + T[p + i]) % CksumMod
  IN  Slot(SSlots, sum[SLook])

-----------------------------------------------------------------------------
(* The large table. *)

CksumOffsetMutantNoBorrow(pos, low) ==
  LET s0 == pos \div OffMod
  IN  IF s0 = 0 THEN low ELSE s0 * OffMod + low

\* xd3_source_cksum_offset: the table holds the low bits of an offset.
CksumOffset(pos, low) ==
  LET s0 == pos \div OffMod
  IN  IF s0 = 0 THEN low
      ELSE IF low > pos % OffMod THEN (s0 - 1) * OffMod + low
      ELSE s0 * OffMod + low

SetupOkMutantAgain(srcpos) ==
  /\ ~(srcpos < cksum_pos /\ cksum_pos - srcpos > enc.window)
  /\ win.decided => win.base <= srcpos /\ srcpos <= win.base + win.len

\* xd3_source_match_setup succeeds: srcpos is not what was tried last, it is not
\* too far behind, and it lies in the source window if that is decided.
SetupOk(srcpos) ==
  /\ ~(srcpos # 0 /\ srcpos = match.last_srcpos)
  /\ ~(srcpos < cksum_pos /\ cksum_pos - srcpos > enc.window)
  /\ win.decided => win.base <= srcpos /\ srcpos <= win.base + win.len

\* The limits of a match at srcpos.
MaxBack(srcpos) ==
  Smaller(input_position - unencoded_offset, IF win.decided THEN srcpos - win.base ELSE srcpos)
MaxFwd(srcpos) ==
  LET avail == AvailIn - input_position
  IN  IF win.decided THEN Smaller(avail, win.base + win.len - srcpos)
      ELSE IF src.eof_known THEN Smaller(avail, Eof - srcpos)
      ELSE avail

SetupMatch(srcpos, state, by) ==
  match' = [state |-> state, srcpos |-> srcpos, last_srcpos |-> srcpos, back |-> 0, fwd |-> 0,
            maxback |-> MaxBack(srcpos), maxfwd |-> MaxFwd(srcpos), by |-> by]

-----------------------------------------------------------------------------
(* xd3_encode_input: the window starts, or is entered again. *)

LargeFits(p) == HasSource /\ p + LLook <= AvailIn

\* NEXTRUN, and xd3_comprun over the bytes at p.
NextRun(run, byte) ==
  IF byte = run.c THEN [run EXCEPT !.l = @ + 1] ELSE [run EXCEPT !.c = byte, !.l = 1]
Comprun(p) ==
  LET run[i \in 0 .. SLook] ==
        IF i = 0 THEN [l |-> 0, c |-> 0, lcksum |-> loop.lcksum] ELSE NextRun(run[i - 1], T[p + i])
  IN  run[SLook]

\* The matcher is entered, or goes to restartloop.
Restart(p, last) ==
  /\ input_position' = p
  /\ IF p + SLook > AvailIn
       THEN pc' = "INSTR" /\ UNCHANGED <<min_match, loop>>
       ELSE /\ pc' = IF LargeFits(p) THEN "MOVE" ELSE "RUN"
            /\ min_match' = IF last > p THEN Larger(MinMatch, 1 + last - p) ELSE MinMatch
            /\ loop' = IF LargeFits(p) THEN [Comprun(p) EXCEPT !.lcksum = LargeCksum(Input(p, LLook))]
                       ELSE Comprun(p)
  /\ UNCHANGED <<unencoded_offset, next_move_point>>

\* MATCH_TARGET: the last window ended in a match (or this is the first one).
ContinueMatch ==
  /\ pc = "START" /\ HasSource /\ match.state = "TARGET" /\ AvailIn > 0
  /\ SetupMatch(match.srcpos, "FORWARD", "entry")
  /\ pc' = "EXTEND"
  /\ UNCHANGED <<posVars, smallVars, idxVars, outVars, inVars, src, new, want>>

StartSearch ==
  /\ pc = "START" /\ (HasSource => match.state = "SEARCHING") /\ AvailIn > 0
  /\ Restart(0, LastMatched)
  /\ UNCHANGED <<smallVars, match, idxVars, outVars, inVars, src, new, want>>

EmptyWindow ==
  /\ pc = "START" /\ AvailIn = 0
  /\ match' = IF HasSource THEN [match EXCEPT !.state = "SEARCHING", !.fwd = 0] ELSE match
  /\ pc' = "INSTR"
  /\ UNCHANGED <<posVars, smallVars, idxVars, outVars, inVars, src, new, want>>

\* The application gives the block, and calls xd3_encode_input again.
GiveBlock ==
  /\ pc = "WAIT"
  /\ src' = [src EXCEPT !.cur = want, !.highest = Larger(want, @)]
  /\ IF match.state = "SEARCHING"
       THEN Restart(input_position, LastMatched) /\ UNCHANGED match
       ELSE /\ match' = [match EXCEPT !.by = "entry"]
            /\ pc' = "EXTEND"
            /\ UNCHANGED posVars
  /\ UNCHANGED <<smallVars, idxVars, outVars, inVars, new, want>>

-----------------------------------------------------------------------------
(* xd3_srcwin_move_point *)

Indexed == src.eof_known /\ cksum_pos = Eof

\* What a long match has passed over is not indexed.
IndexPos == IF Indexed THEN cksum_pos ELSE Larger(cksum_pos, maxsrcaddr)

IndexTarget ==
  LET absolute == total_in + input_position
      ahead == absolute + enc.window \div 2 + 2 * Blk
  IN  IF absolute < enc.window \div 2 THEN enc.window ELSE ahead - (ahead % Blk)

IndexMore == IndexPos < IndexTarget /\ (src.eof_known => IndexPos < Eof)

IndexBlk == IndexPos \div Blk

\* From the end of the block, a step at a time, down to what is indexed; the
\* first one is not compared with it.
Inserted(bytes) ==
  LET last == bytes - LLook
      old  == IndexPos % Blk
  IN  {IndexBlk * Blk + last - j * LStep : j \in {j \in 0 .. Blk : j = 0 \/ last - j * LStep >= old}}

Insert(positions) ==
  [h \in DOMAIN table |->
     LET here == {p \in positions : LargeSlot(SubSeq(S, p + 1, p + LLook)) = h}
     IN  IF here = {} THEN table[h]
         ELSE 1 + CHOOSE p \in here : \A q \in here : p <= q]

IndexBlock ==
  /\ pc = "MOVE" /\ IndexMore /\ Ready(IndexBlk)
  /\ src' = Getblk(IndexBlk)
  /\ LET bytes == BytesOn(src', IndexBlk)
     IN  table' = IF bytes < LLook THEN table ELSE Insert(Inserted(bytes))
  /\ cksum_pos' = (IndexBlk + 1) * Blk
  /\ UNCHANGED <<pc, posVars, smallVars, match, maxsrcaddr, outVars, inVars, new, want>>

IndexAsks ==
  /\ pc = "MOVE" /\ IndexMore /\ Asked(IndexBlk)
  /\ cksum_pos' = IndexPos
  /\ AskFor(IndexBlk)
  /\ UNCHANGED <<posVars, smallVars, match, maxsrcaddr, table, outVars, inVars, src, new>>

IndexEnds ==
  /\ pc = "MOVE" /\ ~IndexMore
  /\ IF src.eof_known /\ IndexPos >= Eof
       THEN cksum_pos' = Eof /\ next_move_point' = Forever
       ELSE cksum_pos' = IndexPos /\ next_move_point' = input_position + Blk
  /\ pc' = "RUN"
  /\ UNCHANGED <<input_position, min_match, unencoded_offset, loop, smallVars, match, maxsrcaddr, table, outVars,
                 inVars, src, new, want>>

-----------------------------------------------------------------------------
(* xd3_string_match: a turn of the loop is a run, a source match, a target *)
(* match, and the next byte.                                               *)

\* A match of type at input_position, extended back by back bytes.
Found(type, back, size, addr, lazy) ==
  /\ new' = [type |-> type, pos |-> input_position - back, size |-> back + size, addr |-> addr,
             mlen |-> size, lazy |-> lazy]
  /\ pc' = "SLOT"

\* A run is expanded when SLook bytes of it have been seen, and not before another
\* byte has been seen again.
RunStarts == loop.l = SLook
RunLength ==
  LET max == AvailIn - input_position
  IN  CHOOSE n \in SLook .. max :
        /\ \A i \in SLook + 1 .. n : T[input_position + i] = loop.c
        /\ n = max \/ T[input_position + n + 1] # loop.c
RunFound == RunStarts /\ RunLength >= Larger(min_match, MinRun)

FindRun ==
  /\ pc = "RUN" /\ RunFound
  /\ loop' = [loop EXCEPT !.l = RunLength]
  /\ Found("RUN", 0, RunLength, 0, TRUE)
  /\ UNCHANGED <<input_position, min_match, unencoded_offset, next_move_point, smallVars, match,
                 idxVars, outVars, inVars, src, want>>

NoRun ==
  /\ pc = "RUN" /\ ~RunFound
  /\ loop' = IF RunStarts THEN [loop EXCEPT !.l = RunLength] ELSE loop
  /\ pc' = "AT"
  /\ UNCHANGED <<input_position, min_match, unencoded_offset, next_move_point, smallVars, match,
                 idxVars, outVars, inVars, src, new, want>>

\* The step that comes back from there looks at the run again, and finds what it
\* found before.
MoveAgain ==
  /\ pc = "AT" /\ LargeFits(input_position) /\ input_position >= next_move_point
  /\ pc' = "MOVE"
  /\ UNCHANGED <<posVars, smallVars, match, idxVars, outVars, inVars, src, new, want>>

LargeEntry == table[Slot(LSlots, loop.lcksum)] % OffMod
LargePos == CksumOffset(cksum_pos, LargeEntry - 1)

LargeSearch ==
  /\ pc = "AT" /\ LargeFits(input_position) /\ input_position < next_move_point
  /\ LargeEntry # 0 /\ SetupOk(LargePos)
  /\ SetupMatch(LargePos, "BACKWARD", "loop")
  /\ pc' = "EXTEND"
  /\ UNCHANGED <<posVars, smallVars, idxVars, outVars, inVars, src, new, want>>

\* The table is empty here, or xd3_source_match_setup refuses what it says.
NoLarge ==
  /\ pc = "AT"
  /\ LargeFits(input_position) =>
       input_position < next_move_point /\ (LargeEntry # 0 => ~SetupOk(LargePos))
  /\ match' = IF LargeFits(input_position) /\ LargeEntry # 0
                THEN [match EXCEPT !.state = "SEARCHING", !.last_srcpos = LargePos,
                                   !.back = 0, !.fwd = 0, !.maxback = 0, !.maxfwd = 0]
                ELSE match
  /\ pc' = "SMALL"
  /\ UNCHANGED <<posVars, smallVars, idxVars, outVars, inVars, src, new, want>>

-----------------------------------------------------------------------------
(* xd3_smatch: the target is searched for itself.                          *)

\* Bytes alike at a and at input_position of the target.
Alike(a) ==
  LET rest   == AvailIn - input_position
      differ == {i \in 1 .. rest : T[a + i] # T[input_position + i]}
  IN  IF differ = {} THEN rest ELSE (CHOOSE i \in differ : \A j \in differ : i <= j) - 1

\* Another position of the chain is compared, if the chain goes on to a smaller
\* position that the ring has not forgotten.
PrevPos == small_prev[search.base % SPrevSz] - 1
GoesOn ==
  search.chain > 1 /\ PrevPos \in 0 .. search.base /\ input_position - PrevPos < SPrevSz

\* The limit of the chain is lower while a lazy match is looked for.
Chain == IF min_match = MinMatch THEN SChain ELSE SLChain

NoSearch == [base |-> 0, chain |-> 0, len |-> 0, offset |-> 0]

StartSmall ==
  /\ pc = "SMALL"
  /\ LET entry == IF enc.small THEN small_table[SmallSlot(input_position)] ELSE 0
     IN  IF entry = 0 THEN pc' = "CHOSEN" /\ search' = NoSearch
         ELSE pc' = "COMPARE" /\ search' = [NoSearch EXCEPT !.base = entry - 1, !.chain = Chain]
  /\ UNCHANGED <<posVars, small_table, small_prev, match, idxVars, outVars, inVars, src, new, want>>

\* A turn of the loop at again.
Compare ==
  /\ pc = "COMPARE"
  /\ LET len    == Alike(search.base)
         longer == len > search.len
         enough == longer /\ len >= Smaller(LongEnough, AvailIn - input_position)
         chosen == IF longer THEN [search EXCEPT !.len = len, !.offset = search.base] ELSE search
     IN  IF ~enough /\ GoesOn
           THEN search' = [chosen EXCEPT !.base = PrevPos, !.chain = @ - 1] /\ UNCHANGED pc
           ELSE search' = chosen /\ pc' = "CHOSEN"
  /\ UNCHANGED <<posVars, small_table, small_prev, match, idxVars, outVars, inVars, src, new, want>>

\* A short copy from far back is none.
MatchLength ==
  IF search.len \in DOMAIN Far /\ input_position - search.offset >= Far[search.len] THEN 0
  ELSE search.len

\* xd3_scksum_insert, after the search and whatever it has found.
InsertSmall ==
  IF ~enc.small THEN UNCHANGED <<small_table, small_prev>>
  ELSE LET slot == SmallSlot(input_position)
       IN  /\ small_prev' = [small_prev EXCEPT ![input_position % SPrevSz] = small_table[slot]]
           /\ small_table' = [small_table EXCEPT ![slot] = input_position + 1]

\* updateone
UpdateOne ==
  IF input_position + SLook = AvailIn
    THEN pc' = "INSTR" /\ UNCHANGED <<input_position, loop>>
    ELSE /\ pc' = "RUN"
         /\ input_position' = input_position + 1
         /\ LET run == NextRun(loop, T[input_position + SLook + 1])
            IN  loop' = IF ~LargeFits(input_position + 1) THEN run
                        ELSE [run EXCEPT !.lcksum = RolledCksum(@, T[input_position + 1],
                                                                T[input_position + LLook + 1])]

EndSmall ==
  /\ pc = "CHOSEN"
  /\ InsertSmall
  /\ search' = NoSearch
  /\ IF MatchLength >= min_match
       THEN Found("CPY", 0, MatchLength, search.offset, TRUE) /\ UNCHANGED posVars
       ELSE /\ min_match' = IF min_match > MinMatch THEN min_match - 1 ELSE min_match
            /\ UpdateOne
            /\ UNCHANGED <<unencoded_offset, next_move_point, new>>
  /\ UNCHANGED <<match, idxVars, outVars, inVars, src, want>>

-----------------------------------------------------------------------------
(* xd3_source_extend_match: backwards, then forwards, a block at a time.   *)

Backward == pc = "EXTEND" /\ match.state = "BACKWARD"
Forward  == pc = "EXTEND" /\ match.state = "FORWARD"

\* The block with the byte before the match, and the bytes on it before that.
BackOff == match.srcpos - match.back
BackBlk == (BackOff - 1) \div Blk
BackMore == match.back < match.maxback

\* The block with the byte after the match.
FwdOff == match.srcpos + match.fwd
FwdBlk == FwdOff \div Blk
FwdMore == match.fwd < match.maxfwd

\* The most bytes, up to limit, that are alike before or after the match.
MatchedBack(limit) ==
  CHOOSE n \in 0 .. limit :
    /\ \A i \in 0 .. n - 1 : S[BackOff - i] = T[input_position - match.back - i]
    /\ n < limit => S[BackOff - n] # T[input_position - match.back - n]
MatchedFwd(limit) ==
  CHOOSE n \in 0 .. limit :
    /\ \A i \in 1 .. n : S[FwdOff + i] = T[input_position + match.fwd + i]
    /\ n < limit => S[FwdOff + n + 1] # T[input_position + match.fwd + n + 1]

Extending == UNCHANGED <<posVars, smallVars, idxVars, outVars, inVars, new>>

BackBlock ==
  /\ Backward /\ BackMore /\ Ready(BackBlk)
  /\ src' = Getblk(BackBlk)
  /\ LET limit == Smaller(BackOff - BackBlk * Blk, match.maxback - match.back)
         n     == MatchedBack(limit)
     IN  match' = [match EXCEPT !.back = @ + n, !.state = IF n < limit THEN "FORWARD" ELSE @]
  /\ UNCHANGED <<pc, want>> /\ Extending

\* doneback, or if the match starts too far back there is none (donefwd).
BackEnds ==
  /\ Backward
  /\ IF BackMore
       THEN /\ Refused(BackBlk)
            /\ match' = [match EXCEPT !.state = IF match.back = 0 THEN "DONE" ELSE "FORWARD"]
       ELSE match' = [match EXCEPT !.state = "FORWARD"]
  /\ UNCHANGED <<pc, src, want>> /\ Extending

FwdBlock ==
  /\ Forward /\ FwdMore /\ Ready(FwdBlk)
  /\ src' = Getblk(FwdBlk)
  /\ LET limit == Smaller(match.maxfwd - match.fwd, OnBlock(FwdBlk) - (FwdOff % Blk))
         n     == MatchedFwd(limit)
     IN  match' = [match EXCEPT !.fwd = @ + n,
                                !.state = IF limit = 0 \/ n < limit THEN "DONE" ELSE @]
  /\ UNCHANGED <<pc, want>> /\ Extending

FwdEnds ==
  /\ Forward
  /\ FwdMore => Refused(FwdBlk)
  /\ match' = [match EXCEPT !.state = "DONE"]
  /\ UNCHANGED <<pc, src, want>> /\ Extending

ExtendAsks ==
  /\ \/ Backward /\ BackMore /\ Asked(BackBlk) /\ AskFor(BackBlk)
     \/ Forward /\ FwdMore /\ Asked(FwdBlk) /\ AskFor(FwdBlk)
  /\ UNCHANGED <<match, src>> /\ Extending

\* donefwd, and the match is too short.
NotTaken ==
  /\ pc = "EXTEND" /\ match.state = "DONE" /\ match.fwd < min_match
  /\ match' = [match EXCEPT !.state = "SEARCHING", !.fwd = 0]
  /\ IF match.by = "loop" THEN pc' = "SMALL" /\ UNCHANGED posVars
     ELSE Restart(input_position, LastMatched)
  /\ UNCHANGED <<smallVars, idxVars, outVars, inVars, src, new, want>>

\* xd3_iopt_erase: a match that starts at pos covers the last instructions, as far
\* as they start there or later.
Kept(pos) ==
  LET covered(n) == \A i \in n + 1 .. Len(used) : used[i].pos >= pos
  IN  SubSeq(used, 1, CHOOSE n \in 0 .. Len(used) :
                        covered(n) /\ (n > 0 => used[n].pos < pos))

TakenRangeMutantFirst ==
  LET end == match.srcpos + match.fwd
  IN  /\ win' = [win EXCEPT !.minaddr = IF win.maxaddr = 0 THEN match.srcpos - match.back ELSE @,
                            !.maxaddr = Larger(@, end)]
      /\ maxsrcaddr' = Larger(maxsrcaddr, end)

\* The bounds of the copies of this window, before the copy is emitted.
TakenRange ==
  LET start == match.srcpos - match.back
      end   == match.srcpos + match.fwd
  IN  /\ win' = [win EXCEPT
                   !.minaddr = IF win.maxaddr = 0 \/ start < @ THEN start ELSE @,
                   !.maxaddr = Larger(@, end)]
      /\ maxsrcaddr' = Larger(maxsrcaddr, end)

Taken ==
  /\ pc = "EXTEND" /\ match.state = "DONE" /\ match.fwd >= min_match
  /\ used' = IF match.back > 0 THEN Kept(input_position - match.back) ELSE used
  /\ TakenRange
  /\ Found("SRC", match.back, match.fwd, match.srcpos - match.back, match.by = "loop")
  /\ match' = IF input_position + match.fwd = AvailIn
                THEN [match EXCEPT !.state = "TARGET", !.srcpos = @ + match.fwd, !.back = 0]
                ELSE [match EXCEPT !.state = "SEARCHING", !.back = 0]
  /\ UNCHANGED <<posVars, smallVars, cksum_pos, table, encoded, inVars, src, want>>

-----------------------------------------------------------------------------
(* xd3_found_match and xd3_emit_run: a slot, and how the matcher goes on.  *)

Room == enc.slots = 0 \/ Len(used) < enc.slots

TryLazy(mlen) == mlen < MaxLazy /\ input_position + mlen <= AvailIn - 2

Inst(r) == [type |-> r.type, pos |-> r.pos, size |-> r.size, addr |-> r.addr]

Place ==
  /\ pc = "SLOT" /\ Room
  /\ used' = Append(used, Inst(new))
  /\ new' = None
  /\ IF new.lazy /\ TryLazy(new.mlen)
       THEN min_match' = new.mlen /\ UpdateOne /\ UNCHANGED <<unencoded_offset, next_move_point>>
       ELSE Restart(input_position + new.mlen, End(new))
  /\ UNCHANGED <<smallVars, match, idxVars, win, encoded, inVars, src, want>>

-----------------------------------------------------------------------------
(* xd3_iopt_finish_encoding of copies, and the source window. *)

\* xd3_srcwin_setup. With final (ENC_INSTR) there will be no more copies.
SetupWin(final) ==
  LET length == win.maxaddr - win.minaddr
      guess  == Larger(length, AvailIn + AvailIn \div 4)
      len    == IF final THEN length
                ELSE IF src.eof_known THEN Smaller(guess, Eof - win.minaddr) ELSE guess
  IN  IF win.decided THEN win
      ELSE IF final /\ win.maxaddr = 0 THEN [win EXCEPT !.decided = TRUE]
      ELSE [win EXCEPT !.decided = TRUE, !.base = win.minaddr, !.len = len]

\* What is written of a copy: its address in the window at that time.
Written(r, w) == [inst |-> r, base |-> w.base, len |-> w.len]

\* The instructions of the front are encoded, without what overlaps the next.
Encode(insts, final) ==
  LET copies == {r \in {insts[i] : i \in DOMAIN insts} : r.type # "RUN"}
  IN  /\ win' = IF copies = {} \/ ~HasSource THEN win ELSE SetupWin(final)
      /\ encoded' = encoded \cup {Written(r, win') : r \in copies}

CutEnd(r, end) == [r EXCEPT !.size = Smaller(@, end - r.pos)]
CutStart(r, start) ==
  IF r.pos >= start THEN r
  ELSE [r EXCEPT !.pos = start, !.size = @ - (start - r.pos), !.addr = @ + (start - r.pos)]

\* The overlap between two instructions goes to either one; of the ones that
\* stay, the first may lose its start.  Nothing is encoded past the start of the
\* match that waits (NothingBehind of Iopt).
MakeRoom ==
  /\ pc = "SLOT" /\ ~Room
  /\ \E k \in 1 .. Len(used) :
       \E cut \in IF k < Len(used) THEN {End(used[k]), Smaller(used[k + 1].pos, End(used[k]))}
                  ELSE {End(used[k])} :
         /\ cut <= new.pos
         /\ Encode([i \in 1 .. k |-> CutEnd(used[i], IF i = k THEN cut ELSE used[i + 1].pos)], FALSE)
         /\ unencoded_offset' = cut
         /\ used' = [i \in 1 .. Len(used) - k |-> CutStart(used[k + i], cut)]
  /\ UNCHANGED <<pc, input_position, min_match, next_move_point, loop, smallVars, match, idxVars,
                 inVars, src, new, want>>

\* ENC_INSTR: all of the instructions; then ENC_FLUSH writes the header.
EncodeAll ==
  /\ pc = "INSTR"
  /\ Encode([i \in DOMAIN used |->
               CutEnd(used[i], IF i = Len(used) THEN End(used[i]) ELSE used[i + 1].pos)], TRUE)
  /\ used' = <<>>
  /\ unencoded_offset' = AvailIn
  /\ pc' = "HEADER"
  /\ UNCHANGED <<input_position, min_match, next_move_point, loop, smallVars, match, idxVars, inVars,
                 src, new, want>>

NoWin == [decided |-> FALSE, base |-> 0, len |-> 0, minaddr |-> 0, maxaddr |-> 0]

EmptyTable(slots) == [slot \in 0 .. slots - 1 |-> 0]

\* The output is taken, xd3_encode_reset, and the next window: the table of the
\* target is emptied (small_reset), its ring is not.
NextWindow ==
  /\ pc = "HEADER"
  /\ number' = number + 1
  /\ total_in' = total_in + AvailIn
  /\ win' = NoWin /\ encoded' = {}
  /\ input_position' = 0 /\ min_match' = MinMatch /\ unencoded_offset' = 0
  /\ small_table' = EmptyTable(SSlots)
  /\ pc' = IF number' < Len(enc.windows) THEN "START" ELSE "ENDED"
  /\ UNCHANGED <<enc, next_move_point, loop, small_prev, search, match, idxVars, used, src, new, want>>

Stopped == pc = "ENDED" /\ UNCHANGED vars

-----------------------------------------------------------------------------
\* The block that main_set_source has read, or that the application has set;
\* the command reads the whole window before it cuts it into blocks.
InitSrc(e) ==
  CASE e.kind = "pipe" ->
         [cur |-> 0, highest |-> e.lru - 1, max_blkno |-> e.lru - 1, onlastblk |-> e.blk,
          eof_known |-> FALSE]
    [] OTHER ->
         [cur |-> IF e.kind = "app" THEN -1 ELSE 0, highest |-> 0,
          max_blkno |-> IF e.size_known THEN Len(e.source) \div e.blk ELSE 0,
          onlastblk |-> IF e.size_known THEN Len(e.source) % e.blk ELSE 0,
          eof_known |-> e.size_known]

Init ==
  /\ enc \in Encodings
  /\ pc = "START" /\ number = 0 /\ total_in = 0
  /\ input_position = 0 /\ min_match = MinMatch /\ unencoded_offset = 0 /\ next_move_point = 0
  /\ match = [state |-> "TARGET", srcpos |-> 0, last_srcpos |-> 0, back |-> 0, fwd |-> 0,
              maxback |-> 0, maxfwd |-> 0, by |-> "entry"]
  /\ cksum_pos = 0 /\ maxsrcaddr = 0
  /\ table = EmptyTable(LSlots)
  /\ loop = [l |-> 0, c |-> 0, lcksum |-> 0]
  /\ small_table = EmptyTable(SSlots) /\ small_prev = EmptyTable(SPrevSz)
  /\ search = NoSearch
  /\ win = NoWin /\ src = InitSrc(enc)
  /\ used = <<>> /\ new = None /\ encoded = {} /\ want = 0

Enter  == ContinueMatch \/ StartSearch \/ EmptyWindow \/ GiveBlock
Index  == IndexBlock \/ IndexAsks \/ IndexEnds
Search == FindRun \/ NoRun \/ MoveAgain \/ LargeSearch \/ NoLarge \/ StartSmall \/ Compare \/ EndSmall
Extend == BackBlock \/ BackEnds \/ FwdBlock \/ FwdEnds \/ ExtendAsks \/ NotTaken \/ Taken
Emit   == Place \/ MakeRoom \/ EncodeAll \/ NextWindow

Next == Enter \/ Index \/ Search \/ Extend \/ Emit \/ Stopped

\* One thread, and an application that gives what it is asked for.
Spec == Init /\ [][Next]_vars
FairSpec == Spec /\ WF_vars(Next)

-----------------------------------------------------------------------------
(* Properties. *)

\* Types of the variables; a match has its limits inside the window.
TypeOK ==
  /\ enc.kind \in Kinds /\ number \in 0 .. Len(enc.windows)
  /\ pc \in {"START", "WAIT", "MOVE", "RUN", "AT", "SMALL", "COMPARE", "CHOSEN", "EXTEND", "SLOT",
            "INSTR", "HEADER", "ENDED"}
  /\ {total_in, input_position, min_match, unencoded_offset, next_move_point,
      cksum_pos, maxsrcaddr, want} \subseteq Nat
  /\ match.state \in {"TARGET", "SEARCHING", "BACKWARD", "FORWARD", "DONE"}
  /\ match.by \in {"entry", "loop"}
  /\ {match.srcpos, match.last_srcpos, match.back, match.fwd, match.maxback, match.maxfwd} \subseteq Nat
  /\ match.back <= match.maxback \/ match.back = 0
  /\ win.decided \in BOOLEAN /\ {win.base, win.len, win.minaddr, win.maxaddr} \subseteq Nat
  /\ {loop.l, loop.c} \subseteq Nat /\ loop.lcksum \in 0 .. CksumMod - 1
  /\ {table[h] : h \in DOMAIN table} \subseteq Nat
  /\ {small_table[h] : h \in DOMAIN small_table} \subseteq 0 .. AvailIn
  /\ src.eof_known \in BOOLEAN /\ {src.highest, src.max_blkno, src.onlastblk} \subseteq Nat

\* The copies of a window are encoded against the source window that its
\* header announces, and lie in it, though most often it has to be decided
\* (xd3_srcwin_setup) while matches are still being found; assertions of
\* xd3_iopt_finish_encoding (xdelta3.c:2062).
CopiesInWindow ==
  \A c \in encoded :
    /\ win.decided = HasSource /\ c.base = win.base /\ c.len = win.len
    /\ c.inst.type = "SRC" =>
         win.base <= c.inst.addr /\ c.inst.addr + c.inst.size <= win.base + win.len

\* The copy has the bytes of the target.
SameBytes(r) ==
  \A i \in 1 .. r.size :
    IF r.type = "SRC" THEN r.addr + i <= Len(S) /\ S[r.addr + i] = T[r.pos + i]
    ELSE r.addr < r.pos /\ T[r.addr + i] = T[r.pos + i]

\* A copy says bytes that are in the target, wherever the extension of the
\* match was interrupted for a block, and however the instruction was cut; and it
\* lies in the source window of its target window.
CopiesTrue ==
  /\ TypeOK /\ CopiesInWindow
  /\ \A c \in encoded : SameBytes(c.inst)
  /\ new.type \in {"SRC", "CPY"} => SameBytes(new)

\* Indexing reads on: whenever it starts it is not past a known end (xdelta3.c:4022),
\* and a pipe never refuses the block it wants (comment at 4076).
IndexReadsOn ==
  /\ pc # "MOVE" /\ src.eof_known => cksum_pos <= Eof
  /\ pc = "MOVE" /\ IndexMore => ~Refused(IndexBlk)

\* A match that reached the end of a window can be continued in the next one:
\* the setup cannot fail (comment and assertion at xdelta3.c:2987).
ContinueOk == pc = "START" /\ HasSource /\ match.state = "TARGET" /\ AvailIn > 0 => SetupOk(match.srcpos)

\* A window that was decided early is not empty (xdelta3.c:3437 and 3547).
DecidedOk == pc \in {"RUN", "AT", "SMALL", "COMPARE", "CHOSEN", "EXTEND", "MOVE", "SLOT"} /\ win.decided => win.len > 0

\* A match is not extended past what is on the block (xdelta3.c:3736).
InBlock == Forward /\ FwdMore /\ Ready(FwdBlk) => FwdOff % Blk <= OnBlock(FwdBlk)

\* Who gives the whole source as one block of known size is never asked for
\* another (comments at xdelta3.c:3424 and in xd3_process_stream).
NeverAsked == enc.kind = "single" => pc # "WAIT"

\* What the search keeps from byte to byte is what it would compute from the bytes:
\* the run (xd3_verify_run_state) and the checksum (xd3_verify_large_state).
LoopTrue ==
  /\ pc = "RUN" /\ loop.l = SLook => \A i \in 1 .. SLook : T[input_position + i] = loop.c
  /\ pc \in {"RUN", "AT"} /\ LargeFits(input_position) =>
       loop.lcksum = LargeCksum(Input(input_position, LLook))

\* Each position that is compared lies behind and has the hash of the place it is
\* compared with, though the ring of chains is shorter than the window and keeps
\* entries of older windows (assertions at xdelta3.c:3885, 3897 and 3902).
ChainsTrue ==
  pc = "COMPARE" =>
    /\ min_match + input_position <= AvailIn
    /\ search.base < input_position /\ SmallSlot(search.base) = SmallSlot(input_position)

\* An offset that the table holds by its low bits is restored as it was, as long
\* as it may be used at all (xd3_source_cksum_offset).
OffsetsRestored ==
  \A h \in DOMAIN table :
    table[h] # 0 /\ cksum_pos - (table[h] - 1) <= enc.window =>
      CksumOffset(cksum_pos, (table[h] - 1) % OffMod) = table[h] - 1

\* What the encoder assumes of itself between calls.
Assumptions ==
  /\ IndexReadsOn /\ ContinueOk /\ DecidedOk /\ InBlock /\ NeverAsked /\ OffsetsRestored
  /\ LoopTrue /\ ChainsTrue

\* The search of every window ends: an encoder that is given the blocks it asks
\* for, one at a time, does not ask in circles (comment at xdelta3.c:3461).
WindowsEnd == <>(pc = "ENDED")
=============================================================================
