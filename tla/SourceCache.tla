---------------------------- MODULE SourceCache ----------------------------
(***************************************************************************)
(* How a block of the source reaches the encoder or the decoder:           *)
(* xd3_getblk (xdelta3.c), which keeps what is known of the length of the  *)
(* source, calls the command's main_getblk_func (xdelta3-blkcache.h),      *)
(* which keeps some blocks in buffers and reads the others, seeking when   *)
(* it can and reading forward when it cannot.                              *)
(*                                                                         *)
(* A buffer's contents are abstracted to the offset they were read from.   *)
(* One request is several steps: look up, seek, skip block by block, read. *)
(***************************************************************************)
EXTENDS Integers, Sequences, FiniteSets

CONSTANTS
  BlkBytes,    \* block size when the source window is split into blocks
  MinWin,      \* XD3_MINSRCWINSZ
  Sources,     \* the sources that are explored
  MaxBlk       \* bound: highest block that is requested

\* file: a regular file or a block device, whose size fstat or ioctl tells
\* pipe: neither size nor seeking
\* device: seeking but no size
\* app: no callback; the application answers XD3_GETSRCBLK and called
\*      xd3_set_source without a size
AllKinds == {"file", "pipe", "device", "app"}

\* slots: MAX_LRU_SIZE of the build; past_end: blocks that start after the end of
\* the source are requested, as when decoding against a source that is too short;
\* seek_errors: seeking in a regular file may fail.
AllSources == [kind : AllKinds, size : Nat, slots : Nat \ {0}, past_end : BOOLEAN,
               seek_errors : BOOLEAN]

\* Only even numbers divide it.
PowerOfTwo(p) == \A d \in 2 .. p : p % d = 0 => d % 2 = 0

\* MaxBlk leaves room for the blocks of the first window.
ASSUME CacheAssumption ==
  /\ {BlkBytes, MinWin} \subseteq Nat \ {0} /\ MaxBlk \in Nat
  /\ \A n \in {BlkBytes, MinWin} \cup {s.slots : s \in Sources} : PowerOfTwo(n)
  /\ Sources \subseteq AllSources
  /\ \A s \in Sources :
       /\ MinWin <= BlkBytes * s.slots /\ s.slots <= MaxBlk + 1
       /\ s.seek_errors => s.kind = "file"

VARIABLES
  source,            \* the source, with its kind and its true length
  offset,            \* where the operating system will read next
  pc,                \* "SET", "IDLE", or the step of the request
  request, blru,     \* block requested, buffer chosen for it
  ret,               \* result of the last request
  lru,               \* lru[i]: blkno and size, and where the bytes come from
  lru_list,          \* buffers, least recently used first
  lru_size, do_src_fifo,
  source_position, seek_failed,   \* in main_file
  src                \* xd3_source

osVars   == <<source, offset>>
reqVars  == <<pc, request, blru, ret>>
setVars  == <<lru_size, do_src_fifo>>
fileVars == <<source_position, seek_failed>>
vars == <<osVars, reqVars, lru, lru_list, setVars, fileVars, src>>

kind == source.kind
size == source.size
LruSize == source.slots

Larger(a, b)  == IF a < b THEN b ELSE a
Smaller(a, b) == IF a < b THEN a ELSE b

Window == BlkBytes * LruSize
Slots  == 0 .. LruSize - 1

\* XD3_INVALID_OFFSET, larger than any block number
Invalid == MaxBlk + 1

\* xd3_xoff_roundup: the least power of two that is not smaller than n > 0.
RoundUp(n) == CHOOSE p \in n .. 2 * n - 1 : PowerOfTwo(p)

\* Bytes that a read of n bytes at from returns (main_read_primary_input
\* repeats short reads until the end of the source).
BytesAt(from, n) == IF from >= size THEN 0 ELSE Smaller(n, size - from)

Start(blkno) == blkno * src.blksize

\* xd3_source_eof
Eof == Start(src.max_blkno) + src.onlastblk

-----------------------------------------------------------------------------
(* main_set_source, and xd3_set_source for an application without callback *)

\* The window is read at once.  A source that fits stays one block; otherwise
\* the buffer is split into LruSize blocks.
SetSource ==
  LET win   == IF kind = "file" /\ size < Window
                 THEN RoundUp(Larger(MinWin, size)) ELSE Window
      first == BytesAt(0, win)
      known == kind = "file" \/ first < win
      split == ~known \/ size > win
  IN  /\ pc = "SET" /\ kind # "app"
      /\ pc' = "IDLE"
      /\ offset' = first /\ source_position' = first
      /\ lru_size' = IF split THEN LruSize ELSE 1
      /\ lru' = [i \in Slots |->
                   IF split
                     THEN [blkno |-> i, from |-> i * BlkBytes, size |-> BlkBytes]
                     ELSE [blkno |-> 0, from |-> 0, size |-> IF i = 0 THEN first ELSE 0]]
      /\ lru_list' = IF split THEN [i \in 1 .. LruSize |-> i - 1] ELSE <<0>>
      /\ do_src_fifo' = ~known
      /\ LET blksize == IF split THEN BlkBytes ELSE win
         IN  src' = [blksize |-> blksize, curblkno |-> 0, curblk |-> 0,
                     onblk |-> IF split THEN BlkBytes ELSE first,
                     max_blkno |-> IF known THEN size \div blksize ELSE LruSize - 1,
                     onlastblk |-> IF known THEN size % blksize ELSE BlkBytes,
                     eof_known |-> known]
      /\ UNCHANGED <<source, request, blru, ret, seek_failed>>

AppSetSource ==
  /\ pc = "SET" /\ kind = "app"
  /\ pc' = "IDLE"
  /\ src' = [src EXCEPT !.blksize = BlkBytes]
  /\ UNCHANGED <<osVars, request, blru, ret, lru, lru_list, setVars, fileVars>>

-----------------------------------------------------------------------------
(* xd3_getblk *)

GotBlockMutantAlways(s, blkno) ==
  LET new == blkno > s.max_blkno
  IN  [s EXCEPT !.max_blkno = IF new THEN blkno ELSE @,
                !.eof_known = @ \/ (new /\ s.onblk # s.blksize),
                !.onlastblk = s.onblk]

\* After the block is there: what it tells about the end of the source.
GotBlock(s, blkno) ==
  LET new == blkno > s.max_blkno
  IN  [s EXCEPT !.max_blkno = IF new THEN blkno ELSE @,
                !.eof_known = @ \/ (new /\ s.onblk # s.blksize),
                !.onlastblk = IF blkno >= s.max_blkno THEN s.onblk ELSE @]

Reachable(blkno) == source.past_end \/ Start(blkno) <= size

Request(blkno) ==
  /\ pc = "IDLE"
  /\ ret # "XD3_INVALID_INPUT"
  /\ Reachable(blkno)
  /\ request' = blkno
  /\ UNCHANGED <<osVars, blru, lru, lru_list, setVars, fileVars>>
  /\ IF blkno = src.curblkno
       THEN pc' = "IDLE" /\ ret' = "OK" /\ src' = GotBlock(src, blkno)
       ELSE pc' = "LOOKUP" /\ UNCHANGED <<ret, src>>

\* blru is a local variable of the callback.
Fail(r) == pc' = "IDLE" /\ ret' = r /\ blru' = 0

\* The callback returns with the block in buffer b.
Return(b, onblk) ==
  /\ pc' = "IDLE" /\ ret' = "OK" /\ blru' = 0
  /\ src' = GotBlock([src EXCEPT !.curblkno = request, !.curblk = b,
                                 !.onblk = onblk], request)

\* An application serves XD3_GETSRCBLK, and the call is repeated.
AppGetblk ==
  /\ pc = "LOOKUP" /\ kind = "app"
  /\ lru' = [lru EXCEPT ![0] = [blkno |-> request, from |-> Start(request),
                                size |-> BytesAt(Start(request), BlkBytes)]]
  /\ Return(0, lru'[0].size)
  /\ UNCHANGED <<osVars, request, lru_list, setVars, fileVars>>

-----------------------------------------------------------------------------
(* main_getblk_lru *)

FifoSlotMutantLast(blkno) == blkno % (lru_size - 1)

FifoSlot(blkno) == blkno % lru_size

MoveToBack(i) ==
  LET k == CHOOSE k \in DOMAIN lru_list : lru_list[k] = i
  IN  Append(SubSeq(lru_list, 1, k - 1) \o SubSeq(lru_list, k + 1, Len(lru_list)), i)

\* The buffer a block is in, if any.
Cached(blkno) ==
  {i \in 0 .. lru_size - 1 :
     /\ lru[i].blkno = blkno
     /\ do_src_fifo => i = FifoSlot(blkno)}

\* No going backwards in a sequential scan.
TooFarInFifo(blkno) ==
  /\ do_src_fifo
  /\ Cached(blkno) = {}
  /\ lru[FifoSlot(blkno)].blkno # Invalid
  /\ lru[FifoSlot(blkno)].blkno > blkno

\* The buffer that a block which is not cached will take.
Victim(blkno) == IF do_src_fifo THEN FifoSlot(blkno) ELSE Head(lru_list)
Evicted(blkno) == IF do_src_fifo THEN lru_list ELSE MoveToBack(Victim(blkno))

LookingUp == pc = "LOOKUP" /\ kind # "app"

HitMutantOnblk ==
  /\ LookingUp
  /\ \E i \in Cached(request) :
       /\ lru_list' = IF do_src_fifo THEN lru_list ELSE MoveToBack(i)
       /\ Return(i, src.onblk)
  /\ UNCHANGED <<osVars, request, lru, setVars, fileVars>>

Hit ==
  /\ LookingUp
  /\ \E i \in Cached(request) :
       /\ lru_list' = IF do_src_fifo THEN lru_list ELSE MoveToBack(i)
       /\ Return(i, lru[i].size)
  /\ UNCHANGED <<osVars, request, lru, setVars, fileVars>>

TooFarBack ==
  /\ LookingUp
  /\ TooFarInFifo(request)
  /\ Fail("XD3_TOOFARBACK")
  /\ UNCHANGED <<osVars, request, lru, lru_list, setVars, fileVars, src>>

Miss ==
  /\ LookingUp
  /\ Cached(request) = {} /\ ~TooFarInFifo(request)
  /\ blru' = Victim(request)
  /\ lru' = [lru EXCEPT ![blru'].blkno = Invalid]
  /\ lru_list' = Evicted(request)
  /\ pc' = IF Start(request) = source_position THEN "READ" ELSE "SEEK"
  /\ UNCHANGED <<osVars, request, ret, setVars, fileVars, src>>

-----------------------------------------------------------------------------
(* main_read_seek_source and main_getblk_func *)

CanSeek == kind \in {"file", "device"}

Seek ==
  /\ pc = "SEEK" /\ ~seek_failed /\ CanSeek
  /\ offset' = Start(request) /\ source_position' = Start(request)
  /\ pc' = "READ"
  /\ UNCHANGED <<source, request, blru, ret, lru, lru_list, setVars, seek_failed, src>>

\* From here on the source is read forward only.
SeekFails ==
  /\ pc = "SEEK"
  /\ seek_failed \/ ~CanSeek \/ source.seek_errors
  /\ seek_failed' = TRUE
  /\ IF source_position > Start(request)
       THEN Fail("XD3_TOOFARBACK")
       ELSE pc' = "SKIP" /\ UNCHANGED <<ret, blru>>
  /\ UNCHANGED <<osVars, request, lru, lru_list, setVars, source_position, src>>

SkipBlkno == source_position \div src.blksize

SkipMutantStay ==
  /\ pc = "SKIP" /\ source_position < Start(request)
  /\ LET i     == Victim(SkipBlkno)
         nread == BytesAt(offset, src.blksize)
     IN  /\ lru' = [lru EXCEPT ![i] = [blkno |-> SkipBlkno, from |-> offset, size |-> nread]]
         /\ lru_list' = Evicted(SkipBlkno)
         /\ offset' = offset + nread
         /\ UNCHANGED <<source_position, pc, ret>>
  /\ UNCHANGED <<source, request, blru, setVars, seek_failed, src>>

\* One block is read past.  It takes a buffer like any other.
Skip ==
  /\ pc = "SKIP" /\ source_position < Start(request)
  /\ LET i     == IF Cached(SkipBlkno) # {} THEN CHOOSE j \in Cached(SkipBlkno) : TRUE
                  ELSE Victim(SkipBlkno)
         nread == BytesAt(offset, src.blksize)
         full  == nread = src.blksize
     IN  /\ lru' = [lru EXCEPT ![i].blkno = SkipBlkno,
                               ![i].from  = offset,
                               ![i].size  = IF full THEN nread ELSE @]
         /\ lru_list' = IF do_src_fifo THEN lru_list ELSE MoveToBack(i)
         /\ offset' = offset + nread
         /\ IF full
              THEN source_position' = source_position + nread /\ UNCHANGED <<pc, ret, blru>>
              ELSE Fail("XD3_INVALID_INPUT") /\ UNCHANGED source_position
  /\ UNCHANGED <<source, request, setVars, seek_failed, src>>

EndSkip ==
  /\ pc = "SKIP" /\ source_position >= Start(request)
  /\ pc' = "READ"
  /\ UNCHANGED <<osVars, request, blru, ret, lru, lru_list, setVars, fileVars, src>>

Read ==
  /\ pc = "READ"
  /\ LET nread == BytesAt(offset, src.blksize)
     IN  /\ lru' = [lru EXCEPT ![blru] = [blkno |-> request, from |-> offset, size |-> nread]]
         /\ offset' = offset + nread
         /\ source_position' = Start(request) + nread
         /\ Return(blru, nread)
  /\ UNCHANGED <<source, request, lru_list, setVars, seek_failed>>

-----------------------------------------------------------------------------
Init ==
  /\ source \in Sources
  /\ offset = 0
  /\ pc = "SET" /\ request = 0 /\ blru = 0 /\ ret = "OK"
  /\ lru = [i \in Slots |-> [blkno |-> Invalid, from |-> 0, size |-> 0]]
  /\ lru_list = <<>> /\ lru_size = 1 /\ do_src_fifo = FALSE
  /\ source_position = 0 /\ seek_failed = FALSE
  /\ src = [blksize |-> BlkBytes, curblkno |-> Invalid, curblk |-> 0, onblk |-> 0,
            max_blkno |-> 0, onlastblk |-> 0, eof_known |-> FALSE]

Serve == AppGetblk \/ Hit \/ TooFarBack \/ Miss \/ Seek \/ SeekFails \/ Skip \/ EndSkip \/ Read

\* The error ends the program.
Stopped == ret = "XD3_INVALID_INPUT" /\ UNCHANGED vars

Next ==
  \/ SetSource \/ AppSetSource
  \/ \E blkno \in 0 .. MaxBlk : Request(blkno)
  \/ Serve
  \/ Stopped

Spec == Init /\ [][Next]_vars

\* The callback runs to its end; nobody has to ask for a block.
FairSpec == Spec /\ WF_vars(Serve)

-----------------------------------------------------------------------------
(* Properties. *)

Blknos == 0 .. Invalid

\* Types, and that the LRU list holds every block of the cache exactly once.
TypeOK ==
  /\ source \in Sources /\ offset \in Nat
  /\ pc \in {"SET", "IDLE", "LOOKUP", "SEEK", "SKIP", "READ"}
  /\ request \in 0 .. MaxBlk /\ blru \in Slots
  /\ ret \in {"OK", "XD3_TOOFARBACK", "XD3_INVALID_INPUT"}
  /\ lru \in [Slots -> [blkno : Blknos, from : Nat, size : Nat]]
  /\ lru_list \in Seq(Slots)
  /\ pc # "SET" /\ kind # "app" =>
       Len(lru_list) = lru_size /\ {lru_list[i] : i \in 1 .. Len(lru_list)} = 0 .. lru_size - 1
  /\ lru_size \in {1, LruSize} /\ {do_src_fifo, seek_failed} \subseteq BOOLEAN
  /\ source_position \in Nat
  /\ src \in [blksize : Nat \ {0}, curblkno : Blknos, curblk : Slots, onblk : Nat,
              max_blkno : Nat, onlastblk : Nat, eof_known : BOOLEAN]

\* No error that ends the program.
Alive == pc \notin {"SET"} /\ ret # "XD3_INVALID_INPUT"

\* A buffer that says it holds a block holds that block's bytes, all of them.
\* This spans the split of the first buffer into blocks (whose numbers are
\* written in without reading), evictions, seeks and skipped blocks.
BuffersTrue ==
  Alive => \A i \in 0 .. lru_size - 1 :
    lru[i].blkno # Invalid =>
      /\ lru[i].from = Start(lru[i].blkno)
      /\ lru[i].size = BytesAt(Start(lru[i].blkno), src.blksize)

\* xd3_getblk returns at once when the block is source->curblkno: the buffer
\* that source->curblk points into must not have been given to another block
\* since, by a skip or by a request that failed.
CurrentTrue ==
  (Alive /\ pc = "IDLE" /\ src.curblkno # Invalid) =>
    /\ lru[src.curblk].from = Start(src.curblkno)
    /\ src.onblk = BytesAt(Start(src.curblkno), src.blksize)

\* XD3_ASSERT(is_new), XD3_ASSERT(skip_offset == 0) and XD3_ASSERT(pos -
\* sfile->source_position >= source->blksize) of main_read_seek_source.  After the
\* end of a source, or with seeks that fail, they need not hold (README, section 5).
SkipAlignedAlways ==
  (pc = "SKIP" /\ source_position < Start(request)) =>
    /\ source_position % src.blksize = 0
    /\ Cached(SkipBlkno) = {}
SkipAligned == ~source.past_end /\ ~source.seek_errors => SkipAlignedAlways

\* What the program reads as a source block is that block, in the cache and in
\* the block at hand; and blocks that are read past are read past whole.
BlocksTrue == TypeOK /\ BuffersTrue /\ CurrentTrue /\ SkipAligned

\* What xd3_getblk concludes of the end of the source: a lower bound while
\* eof_known is unset, and the length of the source once it is set.  A block
\* after the end of the source ends decoding.
EofTrue ==
  (Alive /\ pc = "IDLE" /\ ~source.past_end) => IF src.eof_known THEN Eof = size ELSE Eof <= size

\* A pipe is read once: the last LruSize blocks read, the one that found the
\* end included, can be had again, whatever was requested, skipped or refused.
WindowKept ==
  (kind = "pipe" /\ do_src_fifo /\ pc = "IDLE" /\ Alive) =>
    \E newest \in {lru[i].blkno : i \in Slots} :
      \A blkno \in 0 .. MaxBlk : Cached(blkno) # {} <=> blkno \in newest - LruSize + 1 .. newest

RefusedGone ==
  (pc = "IDLE" /\ ret = "XD3_TOOFARBACK") =>
    /\ Cached(request) = {}
    /\ \/ Start(request) < source_position
       \/ kind = "device" /\ lru[FifoSlot(request)].blkno \in request + 1 .. MaxBlk

\* A block is refused only if it is gone and lies before the read position, and of
\* a pipe it is gone only when LruSize blocks have been read since.  A device whose
\* size is not known may seek, but is kept as a pipe is: any block is refused
\* whose buffer holds a later one (README, section 5).
RefusedOnlyBehind == RefusedGone /\ WindowKept

\* "The decoder will fail when the source buffer is too small, but only when the input
\* is non-seekable" (xdelta3-blkcache.h:460-462).  It is not so for a device whose size
\* is not known.
RefusedOnlyUnseekable ==
  (pc = "IDLE" /\ ret = "XD3_TOOFARBACK") => ~CanSeek \/ seek_failed

\* What keeps them.  The next read is where the file is, at the start of a block or
\* at the end of the source.
Placed ==
  (Alive /\ kind # "app") =>
    /\ offset = source_position
    /\ source_position >= size \/ \E k \in 0 .. source_position : source_position = Start(k)

\* The steps of a request, and what is possible with each kind of source.
Stepping ==
  /\ pc = "SET" =>
       /\ src.curblkno = Invalid /\ src.max_blkno = 0 /\ src.onlastblk = 0 /\ ~src.eof_known
       /\ lru_size = 1 /\ lru[0].blkno = Invalid /\ ~do_src_fifo /\ ret = "OK"
  /\ pc = "READ" => source_position = Start(request)
  /\ pc = "SKIP" => source_position <= Start(request)
  /\ pc # "IDLE" => ret # "XD3_INVALID_INPUT"
  /\ pc \notin {"SET", "IDLE"} /\ ~source.past_end => Start(request) <= size
  /\ pc = "SEEK" => Cached(request) = {}
  /\ kind = "app" =>
       pc \in {"SET", "IDLE", "LOOKUP"} /\ ret # "XD3_TOOFARBACK" /\ src.blksize = BlkBytes
  /\ CanSeek /\ ~source.seek_errors => ~seek_failed /\ pc # "SKIP"
  /\ do_src_fifo => lru_size = LruSize /\ kind \in {"pipe", "device"}

\* The block at hand is overwritten only by a request that gets another, or by one
\* that ends the program.
AtHand ==
  (Alive /\ pc \in {"IDLE", "LOOKUP", "SEEK"} /\ src.curblkno # Invalid) =>
    /\ lru[src.curblk].from = Start(src.curblkno)
    /\ src.onblk = BytesAt(Start(src.curblkno), src.blksize)

\* The end of the source, once it is known, is in its last block.
EndInv ==
  (pc # "SET" /\ ~source.past_end) =>
    /\ Start(src.max_blkno) <= size
    /\ IF src.eof_known THEN Eof = size /\ src.onlastblk < src.blksize ELSE Eof <= size

\* The buffers of a pipe hold the blocks up to newest, but for the one that is
\* being replaced; the next to be read is after newest.
Slide(newest) ==
  /\ newest >= LruSize - 1
  /\ \A i \in Slots :
       \/ lru[i].blkno \in newest - LruSize + 1 .. newest /\ lru[i].blkno % LruSize = i
       \/ pc \in {"SEEK", "SKIP", "READ"} /\ i = blru /\ lru[i].blkno = Invalid
  /\ source_position <= size
  /\ \/ source_position = Start(newest + 1)
     \/ source_position = size /\ Start(newest) <= size /\ size < Start(newest + 1)
  /\ pc \in {"SEEK", "SKIP", "READ"} => request > newest /\ blru = FifoSlot(request)
Sliding == (kind = "pipe" /\ do_src_fifo /\ Alive) => \E newest \in 0 .. MaxBlk : Slide(newest)

\* A pipe that is shorter than the window stays in one buffer.
OneBlock ==
  (kind = "pipe" /\ ~do_src_fifo /\ pc # "SET" /\ ~source.past_end) =>
    lru[0].blkno = 0 /\ size < src.blksize /\ pc \in {"IDLE", "LOOKUP"} /\ ret = "OK"

CacheInv ==
  TypeOK /\ Placed /\ Stepping /\ BuffersTrue /\ AtHand /\ EndInv /\ Sliding /\ OneBlock
  /\ RefusedGone

\* Every request is answered.
Answered == (pc = "LOOKUP") ~> (pc = "IDLE")
=============================================================================
