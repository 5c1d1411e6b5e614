------------------------------ MODULE Xdelta1 ------------------------------
(***************************************************************************)
(* xdelta 1 (src/xdelta1): the generator of xdelta.c, which looks the      *)
(* windows of the target up in a table of the blocks of the source and     *)
(* extends what it finds, the control it writes, and the commands of       *)
(* xdmain.c that make a patch and apply it, page by page through the       *)
(* handles of XdFile.                                                      *)
(*                                                                         *)
(* A patch has two sources: the data it carries (0) and the file it was    *)
(* made against (1).  An action is one turn of a loop of the code.  The    *)
(* comparison of whole ints in try_match computes what the comparison of   *)
(* bytes does and is left out; a compressed patch goes through zlib, which *)
(* is external.                                                            *)
(***************************************************************************)
EXTENDS XdFile

CONSTANTS QUERY_SIZE,     \* the logarithm of the size of a block
          ChecksumMod,    \* 2^16: the width of the two sums
          CHEW(_),        \* single_hash: a number for each byte
          CHash(_, _),    \* c_hash of the low and the high sum
          TableSize,      \* g_spaced_primes_closest, of glib
          Inputs          \* the jobs: [target, source, given, verify, writes]

QUERY_SIZE_POW == 2^QUERY_SIZE

\* Bytes, and what is read past the end of a page: it is not of the file.
Byte == 0 .. 255
Junk == -1

ASSUME XdeltaAssumptions ==
  /\ QUERY_SIZE \in Nat \ {0, 1} /\ QUERY_SIZE_POW \in Nat \ {0}
  /\ PageSize % QUERY_SIZE_POW = 0

ASSUME SumAssumptions ==
  /\ ChecksumMod \in Nat \ {0} /\ TableSize \in Nat \ {0}
  /\ \A b \in Byte \cup {Junk} : CHEW(b) \in Nat
  /\ \A low, high \in 0 .. ChecksumMod - 1 : CHash(low, high) \in Nat

ASSUME InputAssumptions ==
  \A j \in Inputs :
    /\ j \in [target : Seq(Byte), source : Seq(Byte), given : Seq(Byte),
               verify : BOOLEAN, writes : Nat]
    /\ \A data \in {j.target, j.source, j.given} : Len(data) \div PageSize < LastPage

VARIABLES job,     \* what is to be done
          in,      \* the handle of the target
          from,    \* the handle of the source, while a patch is made or applied
          out,     \* the handle that is written
          gen,     \* the generator
          match,   \* the match that try_match is extending
          cont,    \* the control and the rest of the patch
          pc,      \* which loop the program is in
          exit     \* the status of the command that ended last

vars == <<job, in, from, out, gen, match, cont, pc, exit>>

Target == job.target
InLength == Len(Target)
FromLength == Len(job.source)

(***************************************************************************)
(* Positions: a page and an offset, and the page that is mapped.           *)
(***************************************************************************)

InitPos == [page |-> 0, off |-> 0, mem_page |-> Null]
At(n) == [page |-> n \div PageSize, off |-> n % PageSize]
XPOS(p) == p.page * PageSize + p.off
MovedTo(p, n) == [p EXCEPT !.page = At(n).page, !.off = At(n).off]
FLIP_FORWARD(p) == IF p.off = PageSize THEN [p EXCEPT !.page = @ + 1, !.off = 0] ELSE p

\* The handle after unmap_page and map_page of a position, and the position.
Unmapped(h, p) == IF p.mem_page = Null THEN h ELSE UnmapPage(h, p.mem_page)
MapPos(h, p) == IF p.mem_page = p.page THEN h
                ELSE LET left == Unmapped(h, p) IN
                     IF left.status # "ok" THEN left ELSE MapPage(left, p.page, job.verify)
InMem(p) == [p EXCEPT !.mem_page = p.page]
Rem(h, p) == OnPage(h, p.page)

\* A byte of the page that is mapped at a position.
ByteAt(h, p, off) ==
  IF off < OnPage(h, p.mem_page) THEN h.data[p.mem_page * PageSize + off + 1] ELSE Junk

(***************************************************************************)
(* Checksums of blocks, and the table.                                     *)
(***************************************************************************)

\* init_query_checksum: the sum of the bytes and the sum of those sums.
InitQueryChecksum(h, p, off) ==
  LET sums[i \in 0..QUERY_SIZE_POW] ==
        IF i = 0 THEN [low |-> 0, high |-> 0]
        ELSE LET low == sums[i - 1].low + CHEW(ByteAt(h, p, off + i - 1)) IN
             [low |-> low % ChecksumMod, high |-> (sums[i - 1].high + low) % ChecksumMod]
  IN sums[QUERY_SIZE_POW]

RolledMutantHigh(sum, old, new) ==
  LET low == (sum.low - old + new) % ChecksumMod IN
  [low |-> low, high |-> (sum.high - old + low) % ChecksumMod]

\* The checksum of the window one byte further on.
Rolled(sum, old, new) ==
  LET low == (sum.low - old + new) % ChecksumMod IN
  [low |-> low, high |-> (sum.high - (old * QUERY_SIZE_POW) + low) % ChecksumMod]

Index(sum) == CHash(sum.low, sum.high) % TableSize

\* The blocks of the source from last to first, a later one giving way to an
\* earlier one in the same place of the table.  Null is the empty place; an
\* entry of the code also names the source, which is always the file.
Table(cksums) ==
  [i \in 0..TableSize - 1 |->
     LET here == {j \in 1..Len(cksums) : Index(cksums[j]) = i} IN
     IF here = {} THEN Null ELSE Min(here) - 1]

(***************************************************************************)
(* The control: what the target is put together from.                      *)
(***************************************************************************)

ControlCopyMutantMerge(g, src, a, b) ==
  LET last == Len(g.insts) IN
  IF last > 0 /\ g.insts[last].index = src
  THEN [g EXCEPT !.insts[last].length = @ + (b - a)]
  ELSE [g EXCEPT !.insts = Append(@, [index |-> src, offset |-> a, length |-> b - a]),
                 !.used = @ \cup {src},
                 !.sequential[src] = @ /\ g.position[src] = a,
                 !.position[src] = b]

\* control_copy: a copy that continues the last one lengthens it, and then
\* the position of the source stays where it was.
ControlCopy(g, src, a, b) ==
  LET last == Len(g.insts) IN
  IF last > 0 /\ g.insts[last].index = src /\ g.insts[last].offset + g.insts[last].length = a
  THEN [g EXCEPT !.insts[last].length = @ + (b - a)]
  ELSE [g EXCEPT !.insts = Append(@, [index |-> src, offset |-> a, length |-> b - a]),
                 !.used = @ \cup {src},
                 !.sequential[src] = @ /\ g.position[src] = a,
                 !.position[src] = b]

\* region_insert: bytes of the page that is mapped, from the place that
\* to_output_pos has on its page.
InsertBytes(g, h, x, len) ==
  [i \in 1..len |-> ByteAt(h, x, (g.to_output_pos % PageSize) + i - 1)]
InsertWrite(g, o, h, x, len) ==
  IF len = 0 THEN o ELSE HandleWrite(o, InsertBytes(g, h, x, len), job.verify)
Inserted(g, len) ==
  IF len = 0 THEN g
  ELSE [ControlCopy(g, 0, g.data_output_pos, g.data_output_pos + len)
        EXCEPT !.to_output_pos = @ + len, !.data_output_pos = @ + len]

\* region_copy
Copied(g, a, b) == [ControlCopy(g, 1, a, b) EXCEPT !.to_output_pos = @ + (b - a)]

(***************************************************************************)
(* The command delta: the header, then the blocks of the source.           *)
(***************************************************************************)

NoMatch == [to |-> 0, src |-> 0, back |-> 0, fwd |-> 0, one_insert |-> FALSE]
NewGen ==
  [xpos |-> InitPos, ypos |-> InitPos, sum |-> [low |-> 0, high |-> 0], page |-> 0,
   cksums |-> <<>>, table |-> [i \in 0..TableSize - 1 |-> Null],
   to_output_pos |-> 0, data_output_pos |-> 0, ok |-> TRUE, insts |-> <<>>, used |-> {},
   sequential |-> [src \in 0..1 |-> TRUE], position |-> [src \in 0..1 |-> 0]]
NoControl == [made |-> FALSE]

Init ==
  /\ job \in Inputs
  /\ in = ReadHandle(job.target, FALSE)
  /\ from = ReadHandle(job.source, TRUE)
  /\ out = HandleClose(WriteHandle(job.writes))
  /\ gen = NewGen
  /\ match = NoMatch
  /\ cont = NoControl
  /\ pc = IF InLength < QUERY_SIZE_POW \/ FromLength < QUERY_SIZE_POW THEN "just" ELSE "sums"
  /\ exit = [delta |-> "runs", patch |-> "waits"]

\* The command that runs returns 2, or an assertion fails.
Ends(how) ==
  /\ exit' = IF exit.delta = "runs" THEN [exit EXCEPT !.delta = how] ELSE [exit EXCEPT !.patch = how]
  /\ pc' = "ended"

Stops(status) == Ends(status) /\ UNCHANGED <<job, in, from, out, gen, match, cont>>

\* generate_checksums, for one page.
SumPage ==
  /\ pc = "sums"
  /\ LET mapped == MapPage(from, gen.page, job.verify) IN
     LET h == UnmapPage(mapped, gen.page) IN
     LET blocks == [j \in 1..(OnPage(from, gen.page) \div QUERY_SIZE_POW) |->
                      InitQueryChecksum(mapped, [InitPos EXCEPT !.mem_page = gen.page],
                                        (j - 1) * QUERY_SIZE_POW)] IN
     LET cksums == gen.cksums \o blocks IN
     IF mapped.status # "ok" \/ h.status # "ok" THEN Stops(h.status)
     ELSE /\ from' = h
          /\ gen' = [gen EXCEPT !.page = @ + 1, !.cksums = cksums, !.table = Table(cksums)]
          /\ pc' = IF gen.page + 1 > PagesOf(from) THEN "scan" ELSE "sums"
          /\ UNCHANGED <<job, in, out, match, cont, exit>>

(***************************************************************************)
(* compute_copies: the windows of the target, one byte further each turn.  *)
(***************************************************************************)

\* The loop is over: what follows the last match is to be inserted, from its
\* place on its page.
Rest(g) == [g EXCEPT !.xpos.off = g.to_output_pos % PageSize]

\* nextpage: what the page still holds is inserted before the page is left.
NextPage(g) ==
  IF Rem(in, g.xpos) < PageSize
  THEN /\ gen' = Rest(g)
       /\ pc' = "rest"
       /\ UNCHANGED out
  ELSE LET x == [g.xpos EXCEPT !.page = @ + 1, !.off = 0] IN
       LET len == XPOS(x) - g.to_output_pos IN
       /\ out' = InsertWrite(g, out, in, x, len)
       /\ gen' = [Inserted(g, len) EXCEPT !.xpos = x]
       /\ pc' = "scan"

\* The window moves on by a byte, unless it is the last one of the page.
NextOffset(g) ==
  IF g.xpos.off + QUERY_SIZE_POW >= Rem(in, g.xpos) THEN NextPage(g)
  ELSE /\ gen' = [g EXCEPT !.xpos.off = @ + 1,
                           !.sum = Rolled(@, CHEW(ByteAt(in, g.xpos, g.xpos.off)),
                                          CHEW(ByteAt(in, g.xpos, g.xpos.off + QUERY_SIZE_POW)))]
       /\ pc' = "roll"
       /\ UNCHANGED out

\* A write that fails ends the command; only the loop for the rest goes on.
WriteFails ==
  /\ out.status # "ok" /\ pc \in {"scan", "forward", "matched", "just"}
  /\ Stops("2")

ScanEnds ==
  /\ pc = "scan" /\ out.status = "ok"
  /\ XPOS(gen.xpos) > InLength - QUERY_SIZE_POW
  /\ gen' = Rest(gen)
  /\ pc' = "rest"
  /\ UNCHANGED <<job, in, from, out, match, cont, exit>>

ScanPage ==
  /\ pc = "scan" /\ out.status = "ok"
  /\ XPOS(gen.xpos) <= InLength - QUERY_SIZE_POW
  /\ LET h == MapPos(in, gen.xpos) IN
     LET x == InMem(gen.xpos) IN
     IF h.status # "ok" \/ Rem(in, x) <= x.off
     THEN Stops(IF h.status # "ok" THEN h.status ELSE "abort")
     ELSE /\ in' = h
          /\ IF Rem(in, x) - x.off < QUERY_SIZE_POW THEN pc' = "nextpage" /\ gen' = [gen EXCEPT !.xpos = x]
             ELSE /\ pc' = "roll"
                  /\ gen' = [gen EXCEPT !.xpos = x, !.sum = InitQueryChecksum(h, x, x.off)]
          /\ UNCHANGED <<job, from, out, match, cont, exit>>

LeavePage ==
  /\ pc = "nextpage"
  /\ NextPage(gen)
  /\ UNCHANGED <<job, in, from, match, cont, exit>>

\* The block of the source that the table has for the window, if its sums are
\* the same.
Hit == LET j == gen.table[Index(gen.sum)] IN j # Null /\ gen.cksums[j + 1] = gen.sum

Roll ==
  /\ pc = "roll" /\ ~Hit
  /\ NextOffset(gen)
  /\ UNCHANGED <<job, in, from, match, cont, exit>>

(***************************************************************************)
(* try_match: the match is extended backwards on the page of the target,   *)
(* then forwards over any number of pages.                                 *)
(***************************************************************************)

\* match_backward_max: not before the source, not over what is put out, not
\* off the page.
BackMax(m, x) == Min({m.src, m.to - gen.to_output_pos, x.off})
ForwardMax(m) == Min({InLength - m.to, FromLength - m.src})

TryMatch ==
  /\ pc = "roll" /\ Hit
  /\ LET src == gen.table[Index(gen.sum)] * QUERY_SIZE_POW IN
     /\ match' = [to |-> XPOS(gen.xpos), src |-> src, back |-> 0, fwd |-> 0, one_insert |-> FALSE]
     /\ gen' = [gen EXCEPT !.ypos = MovedTo(@, src)]
  /\ pc' = "back"
  /\ UNCHANGED <<job, in, from, out, cont, exit>>

\* The bytes that agree before two places, and from two places on, up to rem.
AgreeBefore(h, x, y, rem) ==
  LET differ == {i \in 1..rem : ByteAt(in, x, x.off - i) # ByteAt(h, y, y.off - i)} IN
  IF differ = {} THEN rem ELSE Min(differ) - 1
AgreeFrom(hx, x, hy, y, rem) ==
  LET differ == {i \in 1..rem : ByteAt(hx, x, x.off + i - 1) # ByteAt(hy, y, y.off + i - 1)} IN
  IF differ = {} THEN rem ELSE Min(differ) - 1

\* doneback: the forward match begins again at the window.
DoneBack(g, m) == [g EXCEPT !.xpos = MovedTo(@, m.to), !.ypos = MovedTo(@, m.src)]

Backward ==
  /\ pc = "back"
  /\ LET max == BackMax(match, At(match.to)) IN
     LET y == IF gen.ypos.off > 0 THEN gen.ypos
              ELSE [gen.ypos EXCEPT !.off = PageSize, !.page = @ - 1] IN
     LET h == MapPos(from, y) IN
     LET rem == Min({gen.xpos.off, y.off, max - match.back}) IN
     IF match.back >= max
     THEN /\ gen' = DoneBack(gen, match)
          /\ pc' = "forward"
          /\ UNCHANGED <<from, match>>
     ELSE LET run == AgreeBefore(h, gen.xpos, InMem(y), rem) IN
          LET moved == [gen EXCEPT !.xpos.off = @ - run, !.ypos = [InMem(y) EXCEPT !.off = @ - run]] IN
          /\ from' = h
          /\ match' = [match EXCEPT !.back = @ + run]
          /\ gen' = IF run < rem THEN DoneBack(moved, match) ELSE moved
          /\ pc' = IF run < rem THEN "forward" ELSE "back"
  /\ UNCHANGED <<job, in, out, cont, exit>>

\* A turn that is about to map the next page of the target first inserts what
\* precedes the match: the page it is on goes away.
Forward ==
  /\ pc = "forward" /\ out.status = "ok"
  /\ match.fwd < ForwardMax(match)
  /\ LET hy == MapPos(from, gen.ypos) IN
     LET turns == ~match.one_insert /\ gen.xpos.page # gen.xpos.mem_page IN
     LET len == IF turns THEN match.to - match.back - gen.to_output_pos ELSE 0 IN
     LET hx == MapPos(in, gen.xpos) IN
     LET x == InMem(gen.xpos) IN
     LET y == InMem(gen.ypos) IN
     LET rem == Min({Rem(in, x) - x.off, Rem(from, y) - y.off, ForwardMax(match) - match.fwd}) IN
     LET run == AgreeFrom(hx, x, hy, y, rem) IN
     LET Flip(p) == IF run < rem THEN [p EXCEPT !.off = @ + run]
                    ELSE FLIP_FORWARD([p EXCEPT !.off = @ + run]) IN
     IF hy.status # "ok" \/ hx.status # "ok" THEN Stops("2")
     ELSE /\ from' = hy
          /\ in' = hx
          /\ out' = InsertWrite(gen, out, in, gen.xpos, len)
          /\ gen' = [Inserted(gen, len) EXCEPT !.xpos = Flip(x), !.ypos = Flip(y)]
          /\ match' = [match EXCEPT !.fwd = @ + run, !.one_insert = @ \/ turns]
          /\ pc' = IF run < rem THEN "matched" ELSE "forward"
          /\ UNCHANGED <<job, cont, exit>>

ForwardEnds ==
  /\ pc = "forward" /\ out.status = "ok"
  /\ match.fwd = ForwardMax(match)
  /\ pc' = "matched"
  /\ UNCHANGED <<job, in, from, out, gen, match, cont, exit>>

LongEnough == match.fwd + match.back >= QUERY_SIZE_POW

\* The match is taken: what precedes it is inserted, if it was not before.
Found ==
  /\ pc = "matched" /\ out.status = "ok" /\ LongEnough
  /\ LET len == IF match.one_insert THEN 0 ELSE match.to - match.back - gen.to_output_pos IN
     LET done == Copied(Inserted(gen, len), match.src - match.back, match.src + match.fwd) IN
     /\ out' = InsertWrite(gen, out, in, gen.xpos, len)
     /\ gen' = done
     /\ pc' = IF XPOS(gen.xpos) = done.to_output_pos THEN "scan" ELSE "ended"
     /\ exit' = IF XPOS(gen.xpos) = done.to_output_pos THEN exit ELSE [exit EXCEPT !.delta = "abort"]
  /\ UNCHANGED <<job, in, from, match, cont>>

\* The sums agreed and the bytes did not: the window goes on from where it was.
NotFound ==
  /\ pc = "matched" /\ out.status = "ok" /\ ~LongEnough
  /\ IF match.one_insert THEN Stops("abort")
     ELSE /\ NextOffset([gen EXCEPT !.xpos = MovedTo(@, match.to)])
          /\ UNCHANGED <<job, in, from, match, cont, exit>>

(***************************************************************************)
(* What is left of the target, and a target or a source without a block.   *)
(***************************************************************************)

\* One turn of the last loop of compute_copies and of just_output: the page
\* from the position to its end.  The former goes on after a failed write, to
\* the end of the file, and fails then.
RestOfPage ==
  /\ pc \in {"rest", "just"} /\ (pc = "just" => out.status = "ok")
  /\ gen.to_output_pos < InLength
  /\ LET h == MapPos(in, gen.xpos) IN
     LET x == InMem(gen.xpos) IN
     LET len == Rem(in, x) - x.off IN
     LET o == InsertWrite(gen, out, h, x, len) IN
     LET g == IF o.status = "ok" THEN Inserted(gen, len) ELSE [gen EXCEPT !.ok = FALSE] IN
     IF h.status # "ok" THEN Stops("2")
     ELSE /\ in' = h
          /\ out' = o
          /\ gen' = [g EXCEPT !.xpos = [x EXCEPT !.page = @ + 1, !.off = 0]]
          /\ UNCHANGED <<job, from, match, cont, pc, exit>>

\* xdp_generate_delta closes the data, which fixes its length and digest.
RestEnds ==
  /\ pc \in {"rest", "just"} /\ (pc = "just" => out.status = "ok")
  /\ gen.to_output_pos >= InLength
  /\ in' = Unmapped(in, gen.xpos)
  /\ IF gen.ok THEN pc' = "digest" /\ out' = HandleClose(out) /\ UNCHANGED exit
     ELSE Ends("2") /\ UNCHANGED out
  /\ UNCHANGED <<job, from, gen, match, cont>>

(***************************************************************************)
(* The digests of the target and the source, and the control.              *)
(***************************************************************************)

DigestIn ==
  /\ pc = "digest" /\ ~Digested(in)
  /\ LET h == DigestPage(in, job.verify) IN
     IF h.status # "ok" THEN Stops(h.status)
     ELSE in' = h /\ UNCHANGED <<job, from, out, gen, match, cont, pc, exit>>

DigestFrom ==
  /\ pc = "digest" /\ Digested(in) /\ ~Digested(from)
  /\ LET h == DigestPage(from, job.verify) IN
     IF h.status # "ok" THEN Stops(h.status)
     ELSE from' = h /\ UNCHANGED <<job, in, out, gen, match, cont, pc, exit>>

\* control_add_info and control_reindex: the sources that are used, in order,
\* take the numbers from zero on.
SourceInfo ==
  LET data == [isdata |-> TRUE, sequential |-> gen.sequential[0],
               len |-> Len(out.bytes), md5 |-> out.md5] IN
  LET file == [isdata |-> FALSE, sequential |-> gen.sequential[1],
               len |-> FromLength, md5 |-> from.hashed] IN
  (IF 0 \in gen.used THEN <<data>> ELSE <<>>) \o (IF 1 \in gen.used THEN <<file>> ELSE <<>>)
Reindexed ==
  [i \in 1..Len(gen.insts) |->
     [gen.insts[i] EXCEPT !.index = Cardinality({src \in gen.used : src < @})]]

\* The positions the instructions of a sequential source are at, before each
\* instruction and after the last.
Before(insts, index, i) ==
  LET upto[k \in 0 .. i - 1] ==
        IF k = 0 THEN 0
        ELSE upto[k - 1] + (IF insts[k].index = index THEN insts[k].length ELSE 0)
  IN  upto[i - 1]

\* pack_instructions leaves out the offset of an instruction that is where its
\* sequential source is, and asserts that it is.
PackHolds(infos, insts) ==
  \A i \in 1..Len(insts) : infos[insts[i].index + 1].sequential
    => insts[i].offset = Before(insts, insts[i].index, i)
Packed(infos, insts) ==
  [i \in 1..Len(insts) |->
     IF infos[insts[i].index + 1].sequential THEN [insts[i] EXCEPT !.offset = 0] ELSE insts[i]]

\* unpack_instructions puts the offsets back.
Unpacked(infos, insts) ==
  [i \in 1..Len(insts) |->
     IF infos[insts[i].index + 1].sequential
     THEN [insts[i] EXCEPT !.offset = Before(insts, insts[i].index, i)] ELSE insts[i]]

\* What xdp_generate_delta returns, with the flags of the header and the data.
Control ==
  [made |-> TRUE, infos |-> SourceInfo, insts |-> Reindexed, to_len |-> InLength,
   to_md5 |-> in.hashed, no_verify |-> ~job.verify, data |-> out.file]

\* xdp_control_write: the instructions are packed, and the control is written.
ControlPacked == [Control EXCEPT !.insts = Packed(SourceInfo, @)]
ControlWritten == HandleWrite(out, <<>>, job.verify)

\* The control follows the data; its offset ends the patch.
WriteControl ==
  /\ pc = "digest" /\ Digested(in) /\ Digested(from)
  /\ IF ~PackHolds(SourceInfo, Reindexed) THEN Stops("abort")
     ELSE IF ControlWritten.status # "ok"
     THEN out' = ControlWritten /\ Ends("2") /\ UNCHANGED <<job, in, from, gen, match, cont>>
     ELSE /\ out' = ControlWritten
          /\ cont' = ControlPacked
          /\ exit' = [exit EXCEPT !.delta = "0"]
          /\ pc' = "made"
          /\ UNCHANGED <<job, in, from, gen, match>>

(***************************************************************************)
(* The command patch.  The data is read in sequence, whatever the offset;  *)
(* the file is mapped page by page.                                        *)
(***************************************************************************)

\* The number of the file among the sources of a control, or 0: the data comes
\* first if there is any.  Other controls are not of this program.
FromSource(infos) ==
  IF Len(infos) > 1 THEN 2 ELSE IF Len(infos) = 1 /\ ~infos[1].isdata THEN 1 ELSE 0
Incompatible(infos) == Len(infos) > 2 \/ (Len(infos) = 2 /\ ~infos[1].isdata)

\* xdp_control_read: the control as it was before it was packed.
ControlRead == [cont EXCEPT !.insts = Unpacked(cont.infos, @)]

\* process_patch: the patch is opened, its parts are found, and its data is next.
ProcessPatch ==
  LET c == ControlRead IN
  [made |-> c.made, infos |-> c.infos, insts |-> c.insts, to_len |-> c.to_len, to_md5 |-> c.to_md5,
   no_verify |-> c.no_verify, data |-> c.data,
   from_source |-> FromSource(c.infos), pos |-> 0, inst |-> 1, copied |-> 0]

\* The part of patch_command before the copies: the file that is written is
\* opened, and the source must have the length of the one the patch was made with.
ReadPatch ==
  /\ pc = "made"
  /\ LET n == ProcessPatch.from_source IN
     IF Incompatible(cont.infos) THEN Ends("2") /\ UNCHANGED <<from, out, cont>>
     ELSE /\ out' = WriteHandle(job.writes)
          /\ IF n # 0 /\ Len(job.given) # cont.infos[n].len
             THEN Ends("2") /\ UNCHANGED <<from, cont>>
             ELSE /\ from' = ReadHandle(job.given, TRUE)
                  /\ cont' = ProcessPatch
                  /\ exit' = [exit EXCEPT !.patch = "runs"]
                  /\ pc' = "copy"
  /\ UNCHANGED <<job, in, gen, match>>

Inst == cont.insts[cont.inst]
IsData == Inst.index + 1 # cont.from_source

\* handle_copy for the data: what is read comes next in the patch.
CopyData ==
  /\ pc = "copy" /\ out.status = "ok" /\ cont.inst <= Len(cont.insts)
  /\ IsData
  /\ LET bytes == [i \in 1..Inst.length |->
                     IF cont.pos + i <= Len(cont.data) THEN cont.data[cont.pos + i] ELSE Junk] IN
     /\ out' = HandleWrite(out, bytes, ~cont.no_verify)
     /\ cont' = [cont EXCEPT !.pos = @ + Inst.length, !.inst = @ + 1]
  /\ UNCHANGED <<job, in, from, gen, match, pc, exit>>

\* handle_copy for the file: one turn of its loop copies from one page.
CopyPage ==
  /\ pc = "copy" /\ out.status = "ok" /\ cont.inst <= Len(cont.insts)
  /\ ~IsData
  /\ LET at == At(Inst.offset + cont.copied) IN
     LET on == OnPage(from, at.page) IN
     LET len == Min({Inst.length - cont.copied, on - at.off}) IN
     LET mapped == MapPage(from, at.page, ~cont.no_verify) IN
     LET h == UnmapPage(mapped, at.page) IN
     LET bytes == [i \in 1..len |-> ByteAt(mapped, [InitPos EXCEPT !.mem_page = at.page],
                                           at.off + i - 1)] IN
     IF on <= 0 THEN Stops("2")
     ELSE IF mapped.status # "ok" \/ h.status # "ok" THEN Stops(h.status)
     ELSE /\ from' = h
          /\ out' = HandleWrite(out, bytes, ~cont.no_verify)
          /\ cont' = IF cont.copied + len = Inst.length
                     THEN [cont EXCEPT !.inst = @ + 1, !.copied = 0]
                     ELSE [cont EXCEPT !.copied = @ + len]
          /\ UNCHANGED <<job, in, gen, match, pc, exit>>

CopyFails ==
  /\ pc = "copy" /\ out.status # "ok"
  /\ Stops("2")

\* check_stream_integrity
Intact(h, md5, len) == Len(h.bytes) = len /\ h.md5 = md5

\* What was written must be what the control says.
CheckResult ==
  /\ pc = "copy" /\ out.status = "ok" /\ cont.inst > Len(cont.insts)
  /\ LET o == HandleClose(out) IN
     /\ out' = o
     /\ Ends(IF Intact(o, cont.to_md5, cont.to_len) THEN "0" ELSE "2")
  /\ UNCHANGED <<job, in, from, gen, match, cont>>

\* Both commands have returned.
Done == pc = "ended" /\ UNCHANGED vars

DeltaNext ==
  \/ SumPage \/ ScanEnds \/ ScanPage \/ LeavePage \/ Roll \/ TryMatch
  \/ Backward \/ Forward \/ ForwardEnds \/ Found \/ NotFound \/ WriteFails
  \/ RestOfPage \/ RestEnds \/ DigestIn \/ DigestFrom \/ WriteControl
PatchNext == ReadPatch \/ CopyData \/ CopyPage \/ CopyFails \/ CheckResult
Next == DeltaNext \/ PatchNext \/ Done

Spec == Init /\ [][Next]_vars

(***************************************************************************)
(* Properties.                                                             *)
(***************************************************************************)

\* A patch gives the target back.  With the source it was made with, both
\* commands end with 0 unless a write fails (the tests of xdelta 1 apply each
\* patch they make); with another one, patch ends with 0 only if what it wrote
\* is the target, when the patch has digests.
PatchTrue ==
  /\ exit.patch = "0" /\ (~cont.no_verify \/ job.given = job.source)
       => out.bytes = Target /\ out.file = Target
  /\ exit.delta = "2" => out.status # "ok"
  /\ exit.patch = "2" /\ job.given = job.source => out.status # "ok"

\* No assertion of xdelta.c or xdmain.c fails, the page that a position has
\* mapped stays mapped, and the sum that is rolled along the target is the sum
\* of the window (the check of DEBUG_CKSUM_UPDATE, xdelta.c 767-774).
AssertsHold ==
  /\ exit.delta # "abort" /\ exit.patch # "abort"
  /\ pc \in {"roll", "back", "forward", "matched"} =>
       /\ in.refs[gen.xpos.mem_page] > 0
       /\ gen.ypos.mem_page # Null => from.refs[gen.ypos.mem_page] > 0
  /\ pc = "roll" => gen.sum = InitQueryChecksum(in, gen.xpos, gen.xpos.off)

\* The list of the mapped pages of a file is sound after any mapping, and when
\* a digest is complete it is the one of the whole file.
PagesSound ==
  \A h \in {in, from} :
    /\ h.status = "ok" => ListSound(h)
    /\ Digested(h) => h.hashed = (IF job.verify THEN h.data ELSE <<>>)
=============================================================================
