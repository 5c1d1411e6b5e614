# TLA+ models of xdelta

This directory holds TLA+ specifications of the xdelta 3 library and command
(`src/xdelta3`) and of the first xdelta (`src/xdelta1`), TLC configurations that
check them on small instances, and proofs that TLAPS checks. Line numbers refer to the
files under `src/`.

Checking: `tlc -config <run>.cfg <module>` for the runs of `PROJECT.json`,
`tlapm` with each of the modules of section 4 for the proofs.

## 1. The system

xdelta 3 encodes a target file as a VCDIFF delta (RFC 3284) against a source
file, window by window, and decodes it. The library is single-threaded and
non-blocking: `xd3_encode_input` and `xd3_decode_input` return a code
(`XD3_INPUT`, `XD3_OUTPUT`, `XD3_GETSRCBLK`, `XD3_WINSTART`, `XD3_WINFINISH`, ...)
whenever they need the application, and go on from a saved state at the next
call. What is hard in it is of that kind: state that is used across returns to the
application, input cut at any byte, buffers at their limit, and two sides
(encoder and decoder) that must make the same steps without being told. The
command is concurrent: it forks programs that compress and decompress, and
copiers that feed them.

| Component | Where | State | Operations | Interaction |
|---|---|---|---|---|
| Address caches | xdelta3.c 1238-1395, xdelta3-decode.h 237-308 | `acache`: near ring, same table, one in each stream | init at a window, encode or decode an address, update | only through the delta: both sides see the same addresses |
| String matcher | xdelta3.c 3299-4455, xdelta3-hash.h, xdelta3-cfgs.h | hash tables, rolled checksums, run, `input_position`, `min_match` | find target, source and run matches | reports matches to the instruction buffer; asks for source blocks |
| Source window and index | xdelta3.c 3340-3830, 4014-4170 | `srcwin_cksum_pos`, `srcbase`, `srclen`, `match_*` | set up a match, extend it, index further blocks, decide the window | calls `xd3_getblk`, which may return `XD3_GETSRCBLK` in the middle |
| Instruction buffer | xdelta3.c 2026-2455 | `iopt_used`, `iopt_free`, `iout`, `unencoded_offset` | enter, erase, flush (compaction, encoding), finish | fed by the matcher, writes instructions to the output pages |
| Source blocks | xdelta3.c 1777-1880, xdelta3-blkcache.h | `xd3_source`, `lru`, `lru_list`, `source_position`, `seek_failed` | open, request, replace, seek, skip, read | serves matcher and decoder; the operating system behind it |
| Encoder windowing | xdelta3.c 1899-1938, 2704-3195 | `enc_state`, `buf_in`, `buf_leftover`, output pages | buffer, search, flush, output, reset, close | called by the application in a loop |
| Decoder | xdelta3-decode.h | `dec_state`, partial fields, sections, half-instructions, output window | decode a header field, collect a section, execute an instruction, finish a window, skip | called by the application in a loop; asks for source blocks |
| Framing | xdelta3.c 2556-2698, xdelta3-decode.h 722-1043 | indicator bits, lengths | write and read the headers of file and window | between sections and bytes |
| Integers | xdelta3-internal.h 126-260 | `dec_32part`, `dec_64part` | emit, size, read, decode | all header fields, sizes and addresses |
| Code table | xdelta3.c 754-1020, 2474-2515 | the table, `iout` | choose an opcode for one or two instructions, look it up | last step of encoding, first of decoding an instruction |
| Secondary compression | xdelta3-second.h, -fgk.h, -djw.h, -lzma.h | trees, bit state | compress or decompress a section | between sections and output, and between input and sections |
| Merge | xdelta3-merge.h, xdelta3-main.h 1979-2330 | `whole_target`: instructions, adds, windows | append, merge, write | decoder with `XD3_SKIP_EMIT`, encoder from the middle |
| Recode | xdelta3-main.h 1837-1975 | `recode_stream` | decode a window, write it again | decoder with `XD3_SKIP_EMIT`, framing |
| Driver | xdelta3-main.h 3000-4000 | files, options, armor | main_input loop | drives the library and the children |
| External compression | xdelta3-main.h 2331-2960 | pipes, `ext_subprocs` | fork decompressor, copier and recompressor, reap | pipes, signals, exit statuses |
| xdelta 1 | src/xdelta1 | control, sources, rolling sums, mapped pages | generate, apply, rsync | a program of its own, kept for old deltas |

What makes each of them correct:

* address caches: what is decoded is what was encoded, always (there is no
  redundancy that would show a disagreement);
* instruction buffer: the window is covered exactly once, nothing already encoded
  is touched again, no slot is lost, and the flush makes progress;
* matcher and source window: a match is a match, and a copy lies inside the window that is announced;
* source blocks: a block that is returned has that block's bytes, also when it is
  served without a lookup, and the end of the source is found where it is;
* windowing: every byte is encoded once and in order, whatever the pieces;
* decoder: windows come out whole, in order and right, or there is an error;
* framing, integers, code table, secondary compression: decoding undoes encoding;
* merge: applying the merged delta is applying all of the chain; recode: nothing but what was asked for changes;
* driver and children: success means that the work is done, and everybody ends;
* xdelta 1: a patch gives the target back, or fails.

`PROJECT.json` lists the hazards at the lines where they bite.

## 2. What is modelled

### AddrCache (proofs in AddrCacheProofs, instance in MCAddrCache)

An encoder and a decoder with a queue of instructions between them. `enc` and
`dec` are the two `acache`s. The encoder counts in its input window (`unencoded_offset` up to `avail_in`; `here` adds
`taroff` for `xd3_encode_address`), and its guards are the assertions of `xd3_iopt_finish_encoding` in these coordinates, apart for copies from
the source and from the target. The decoder counts from the start of the source segment (`dec_cpylen`, `dec_position`, `dec_maxpos`)
and judges every instruction again: `CanCopy` is its first two checks, `Advance` the third, which is of ADD and RUN
too, and `DecodeEnd` the window's length when the instructions are at an end. `EncodeWindow`, `EncodeData`, `EncodeCopy` and `EncodeEnd` write;
`DecodeWindow`, `DecodeData`, `DecodeCopy` and `DecodeEnd` read; the lengths of the source segment and of the target go with the window.
`EncodeAddress` is the search over modes in its order with the early stop at a
one-byte integer; `DecodeAddress` the three cases of `xd3_decode_address`.
The history variable `sent` remembers what was meant; no action reads it.

### Iopt (proofs in IoptProofs, instance in MCIopt)

One target window: the matcher's loop as far as it decides which match may come next
(`input_position`, `min_match`, lazy search), and the buffer. An action is one
turn of a loop; `pc` says of which. Every match that the tests in the code admit
may be found. `profile` is the stream's configuration: window length, slots,
whether the buffer grows, `max_lazy`, `XD3_BEGREEDY`, and a bound on backward extension.

### SourceCache (proofs in SourceCacheProofs, instance in MCSourceCache)

`SetSource` is `main_set_source`; `Request` enters `xd3_getblk`; `Hit`, `TooFarBack` and `Miss`
are `main_getblk_lru`; `Seek`, `SeekFails`, `Skip` and `EndSkip` are `main_read_seek_source`;
`Read` is the end of `main_getblk_func`; `AppSetSource` and `AppGetblk` are an application that
serves blocks itself. The contents of a buffer are the offset they were read from.
`source` is what is given to the program: its kind, length and slots, and whether seeks may fail
or blocks past the end be asked for; it is chosen in `Init` from `Sources` and never changes.
With the last two, only what the code still promises is required of it (`EofTrue`, `SkipAligned`); seeks fail only for regular files.

### Vcdiff, WindowDecoder and DecodeInput (instance in MCDecodeInput)

`Vcdiff` says what a delta is: a file as a sequence of bytes, each of which knows the field it
belongs to, and the meaning of a window by RFC 3284 (byte by byte, the
reference definition). `WindowDecoder` is the abstract specification: windows are received
in order, each equal to its meaning, or there is an error that only a wrong source explains.
`DecodeInput` is `xd3_decode_input` with all its states and the application around it.
It implements `WindowDecoder` with `failed <- ret = "XD3_INVALID_INPUT"`.

### EncodeInput (proofs in EncodeInputProofs)

`xd3_encode_input` with its states, `xd3_encode_buffer_leftover`, the pages of output and the
four applications: the command, `xd3_process_stream`, one that gives pieces of any
size and one that never sets `XD3_FLUSH`. A byte is its position, and the application's buffer is
overwritten by the next piece, so that a pointer kept too long shows.
The search of a window is abstracted to the number of source blocks it
asks for and the output it makes; `Iopt`, `SrcWindow` and `SourceCache` are what it stands for.

### SrcWindow (instance in MCSrcWindow)

The matcher and its source over several target windows, with real bytes in both.
`pc` says which loop the thread stands in, or `WAIT` when `XD3_GETSRCBLK` has been returned; like the code it
enters again by `match_state` alone.

| Actions | Code |
|---|---|
| `ContinueMatch`, `StartSearch`, `EmptyWindow`, `GiveBlock` | the entry of `xd3_encode_input` at ENC_SEARCH, for a new window or with the block that was asked for |
| `IndexBlock`, `IndexAsks`, `IndexEnds` | `xd3_srcwin_move_point`, a block per step |
| `FindRun`, `NoRun`, `MoveAgain`, `LargeSearch`, `NoLarge` | a turn of the loop of `xd3_string_match`: the run, the large checksum |
| `StartSmall`, `Compare`, `EndSmall` | the lookup of the small checksum, `xd3_smatch` with a turn per position of the chain, `xd3_scksum_insert` |
| `BackBlock`, `BackEnds`, `FwdBlock`, `FwdEnds`, `ExtendAsks`, `Taken`, `NotTaken` | `xd3_source_extend_match`, a block per step |
| `Place`, `MakeRoom`, `EncodeAll`, `NextWindow` | `xd3_iopt_get_slot`, the flushes, `xd3_srcwin_setup` at the first copy, `xd3_encode_reset` |

`table` is the large table: the last source position that was entered for a hash, of which a lookup sees the low
bits (`OffMod` stands for 2^32). `loop` is what the loop keeps from byte to byte: the run and the large checksum, which is
rolled. `small_table` and `small_prev` are the table of small checksums and the ring of earlier positions with the same slot.
`Slot` maps checksums to slots, so that unlike strings collide in both tables.
A block is answered as `SourceCache` promises, with the ring of a pipe as `highest` and `lru`.
Abstracted: the compaction of the instruction buffer (`MakeRoom` encodes any number of instructions from the front and cuts
overlaps at either end, a superset of what `Iopt` does in detail). The greedy limit is left to `Iopt`.

### Varint, CodeTable, Framing, BitIO, Fgk, Djw and Secondary (instance in MCCoding)

What becomes bytes and bits, each with its writer and its reader.

* `Varint`: an integer is given as bytes, one at a time (`VarintByte`), and read in place of a section
  (`Read`); the bytes may be those of `Emit` or any others, up to `MaxBytes`. `Bits` and `Width` stand for 7 and for 32 or 64.
* `CodeTable`: `__rfc3284_code_table` is built at full size by the loops of `xd3_build_code_table`; `Code1` and `Code2` are the
  formulas of `xd3_choose_instruction`; `EmitSingle`, `FinishEncoding` and `AddFinalize` hold one instruction back as `iout`.
* `Framing`: `EmitWindow` writes headers and sections, `DecodeHeader` reads the headers byte by byte through the states
  VCHEAD ... CKSUM with their fall-through (`FallThrough`, `Present`), their checks (`Refused`) and
  the length of the encoding computed a second time (`EncLenCheck`); `ReadSections` takes the sections and decompresses
  them. `made` has the sizes that the sections of a window were made with, `packed` those of the ones that were compressed (`Packings`: any
  size that saves something, since what a compressor makes of a section is in `Secondary`); a compressed section begins with its size in `made`.
  `recode` puts the command recode in between:
  `Recoded` is what `main_recode_func` makes of a window, whose sections it has decompressed and `xd3_emit_hdr` compresses anew if there is a
  compressor; `recoder` is what stays set in `recode_stream`, `Leftover` what the variable it points to may hold when its call has returned.
* `BitIO`: bits into bytes and back. `Fgk`: the tree as the code links it (nodes, blocks, zeros).
  `Djw`: heap, code lengths with the repair of codes that are too long, move-to-front and 1-2 coding, one table or several with
  sectors assigned in rounds, and the decoder.
* `Secondary`: sections of a stream go through `BeginFgk`/`EncodeFgk` (the symbols chosen one by one) or `EncodeDjw`, are sent
  compressed or not (`End`, `Saves`) and are decoded (`Decode`).

The parts share no state; `part_of` of MCCoding chooses one of them, or `Merge`, so that one run checks all.

### Merge (instance in MCCoding)

`made` says how a chain of deltas was made. `OpenDelta`, `AppendWindow` and `AppendInst` are `main_input(CMD_MERGE_ARG)`
with `xd3_whole_append_window` and `xd3_whole_append_inst`, any instruction that fits; `Link` is `main_armor_merge_link`.
`MergeData`, `MergeTargetCopy` and `MergeSourceCopy` are a turn of `xd3_merge_inputs`; `FindPosition` is the binary search of
`xd3_merge_find_position`; `MergePieceData`, `MergePieceCopy`, `MergePieceAgain` and `MergeSourceReturn` the loop
of `xd3_merge_source_copy` and its recursion, with the frames on `stack`. `OutputWindow`, `OutputInst` and `OutputDone` are `main_merge_output`.

### MainInput (proofs in MainInputProofs, instance in MCMain)

One command, encode or decode, with its children as processes. `script` is what main has still to do in the order of the code:
open the source, the input and what is to be hashed, encode or decode window by window, close, compare, reap.

| Actions | Code |
|---|---|
| `OpenFile`, `ForkDecompressor`, `ForkCopier`, `ParentCloses` | `main_secondary_decompress_check`, `main_input_decompress_setup` |
| `ReadUnit`, `ReadEnds`, `ReadSource`, `EncodeWindow`, `EncodeEnds` | reading and encoding |
| `Hash`, `Reap`, `Verify`, `Compare` | `main_armor_hash_file`, the digest of the source at XD3_GOTHEADER, that of the output at the end |
| `OpenOutput`, `ForkRecompressor`, `OutputParent`, `DecodeWrite`, `WriteBroken`, `DecodeFails`, `DecodeEnds` | `main_open_output`, `main_recompress_output`, writing |
| `CloseFile`, `Finish`, `Exit`, `Killed` | closing, `main_external_compression_finish` and `_cleanup` |
| `ChildStarts`, `CopierReads`, `CopierWrites`, `CopierReadFails`, `CopierExits` | the child of `main_input_decompress_setup` and `main_pipe_copier` |
| `DecompressorReads`, `DecompressorWrites`, `Recompresses`, `ChildFails` | the programs that are run (external) |

A pipe holds `PipeSize` units and knows the processes that hold each of its ends, which `fork` copies and `close` and exit
remove: a reader sees the end, and a writer SIGPIPE or EPIPE, only when the last one is gone.
Encoding and decoding are taken by windows; their loops are in `EncodeInput` and `DecodeInput`. A digest is the content.

### XdFile and Xdelta1 (instance in MCXdelta1)

`XdFile` is the file handles of `xdmain.c`: pages that are mapped, counted and evicted, with their list kept by `prev` and `next` as
in the code, digests taken on the way, and output that may fail. `Xdelta1` is `delta` and then `patch`:
`SumPage` is `generate_checksums`; `ScanPage`, `Roll`, `LeavePage` and `ScanEnds` are the rolling search of `compute_copies`;
`TryMatch`, `Backward`, `Forward` and `ForwardEnds` are `try_match` over pages of both files; `Found`, `RestOfPage` and `RestEnds` write the
inserts; `WriteControl` packs and writes the control; `ReadPatch` reads and unpacks it; `CopyData`, `CopyPage` and `CheckResult` are `xdp_apply_delta` and the comparison of the digests.

## 3. The runs

| Run | Checks | States | Bounds |
|---|---|---|---|
| addr_cache | encoder and decoder any number of instructions apart agree on every address; the chosen mode is the cheapest; no check of the decoder rejects what the encoder wrote | 340,000 | near 2, same 2 pages of 2: ring wraps, slots collide; integers of 1-3 bytes; windows of 0, 3 and 6 bytes with and without a source segment: instructions that end exactly with it and with the window |
| iopt | one window in every way a matcher can fill it: covered once, nothing behind, no slot lost, ends | 1,500,000 | windows of 12 and 20 bytes, MIN_MATCH 4 as in the code: up to four matches that overlap, one flush or several |
| source_cache | requests in any order to files, pipes and devices of lengths around the window, with seek errors, requests past the end, and applications that serve blocks | 896,000 | blocks of 2 bytes, 4 slots or 2; sizes shorter than a block, than the window, equal, one more, and half as long again |
| decode_input | three deltas in pieces, in all modes, four sources, cut short, skipped; implements `WindowDecoder` | 520,000 | pieces of 1 to 4 bytes, three windows, source blocks of 4 bytes so that copies cross blocks |
| encode_input | inputs of up to two windows in pieces of every size | 226,000 | windows of 3 bytes, pages of 2 items, sections of none, one and two pages |
| src_window | the search of whole targets: copies are true and lie in the announced window, what is kept from byte to byte is what the bytes say, the index and the extension go on rightly after each request for a block, every window ends | 314,000 | blocks of 4 and 8 bytes, a source window of 8, sources of 3, 8, 22 and 24 bytes as file, pipe, application with and without known size, single block and none; two and three windows of 0 to 24 bytes; a ring of 8 positions, 5 slots, chains of a few; a buffer that grows, of one and of two instructions; offsets of 4 bits |
| coding | integers, opcodes, headers and sections are read as what was written, and after recoding have the sizes they had before they were compressed; the FGK trees of both sides are equal and sound; a merged delta does what the chain does, as whole target and as written windows, the digests in its header are those of its files, and no assertion fails | 1,930,000 | integers of 7 bits in digits of 2; three instructions of eight sizes and four modes; two windows with every indicator, each section that can be compressed sent as it is and in one or two shorter sizes, an empty window among them; three sections, FGK of four symbols, DJW of four symbols with codes of at most two bits; bytes of 4 bits for the sections, so that three symbols may be worth compressing or not; for merging a source of two letters, targets of three and two, up to three deltas, two windows |
| djw_groups | finding | | two groups, one of which has codes that are too long |
| recode_source | finding | | two windows, with and without a source |
| main | success means done, a wrong source is refused before the output is opened, and everybody ends | 373,000 | files of three units, pipes of one, blocks of two, up to six children, one failing read |
| subprocs | finding | | source and target compressed, armor |
| xdelta1 | a patch gives the target back or fails, no assertion fails, the list of pages stays a list | 81,000 | pages of 8 bytes, two of them mapped, blocks of 4, sums modulo 4, sources of 0, 3, 8 and 18 letters |

Why these bounds are enough. All the arithmetic that decides anything is relative:
to the block size, the window size, the ring's length, MIN_MATCH. The instances have at least two
of each thing plus the boundary cases (equal, one less, one more), and
run for several rounds: the near ring wraps, the FIFO ring is filled twice, the ring of small checksums three times, the input takes
two windows and a remainder, a fixed instruction buffer is flushed several times in a window, every table of DJW needs the
repair of long codes in some section, every pipe is full and empty. The
constants of the code are kept where small ones would change the behaviour: MIN_MATCH and MIN_RUN of `Iopt` and the whole code table
are as compiled; MAX_MATCH_SPLIT is scaled with the window. `SrcWindow` scales all of its lengths together (`LLook` 3 for 9, `SLook` and
`MinMatch` 2 for 4, a source window of two blocks): a block then begins, continues and ends matches, the
index runs three blocks ahead, and offsets wrap within one source. Merging needs no more than two letters, since only where a byte comes from
matters; three deltas are the fewest with a delta that is both the newer and the older of a merge. Six children are
more than any command of the run starts, and a pipe of one unit blocks as soon as one of any size can.

A full block enters `large_table` from its end in steps of `LStep`; here, as with all matchers built
in, position 0 is not among them unless the first block is short. The guard against endless search
(xdelta3.c:3468) makes an exception of position 0, where a match cannot go backwards.

Deadlock is checked everywhere; a system that has ended stutters in an action
of its own (`Stopped` or `Done`).

### Fairness

* Iopt: weak fairness of `Next`: it is one loop of one thread.
* SourceCache: weak fairness of `Serve` only: the callback is a call that runs; requests are never forced.
* DecodeInput: weak fairness of the decoder's steps and of the application's, both
  loops of one thread. The application never stops giving input before the end of the file.
* EncodeInput: the same.
* SrcWindow: weak fairness of `Next`: one thread, and an application that gives each block it is asked for and calls again.
* MainInput: weak fairness of main and of each child, which are processes that the system schedules; none of a failure. A program reads what
  it is given and writes what it makes until it ends or its output is gone.

No strong fairness is used: no step competes with another for being enabled. Merge, Xdelta1 and the modules of
`coding` have safety properties only: they are loops over what they are given.

## 4. The proofs

`tlapm` proves these for every value of the constants that the assumption of the module and the hypotheses of
the theorem allow; each names the definition that a run checks.

| Module | Theorem | States | Hypotheses beyond the module's assumption |
|---|---|---|---|
| AddrCacheProofs | `RoundTrip`, `TypeCorrect`, `CachesInLockstep`, `AddressesAgree`, `EncoderIsAccepted` | decoding undoes encoding; the invariants of the run: all checks of the decoder pass | |
| | `AddressesAreCheapest` | `CheapestAddress`: no mode has a shorter address than the one that is sent | |
| IoptProofs | `BufferSoundAlways` | `BufferSound`: what is buffered is ordered and does not nest, whatever the matcher finds | |
| | `SlotsKeptAlways` | `SlotsKept`: no slot is lost, and `xd3_iopt_get_slot` finds a free one | every profile grows its buffer or has at least 4 slots |
| | `NothingBehindAlways` | `NothingBehind`: nothing in the buffer and no search is behind what is encoded | not greedy, and the buffer grows |
| SourceCacheProofs | `BlocksTrueAlways` | `BlocksTrue`: a cached block has the bytes of its number, and skips are of whole blocks | |
| | `EofTrueAlways` | `EofTrue`: the end of the source is where it is | |
| | `RefusedOnlyBehindAlways` | `RefusedOnlyBehind`: a pipe keeps its last `LruSize` blocks, XD3_TOOFARBACK is only for one that is gone | |
| EncodeInputProofs | `InputKeptAlways` | `InputKept`: windows are the input, in order, complete | `MaxPiece <= WinSize` |
| | `OutputInOrderAlways` | `OutputInOrder`: sections come out whole and in order, and no page is lost or in two lists | |
| MainInputProofs | `ExitTrueAlways` | `ExitTrue`: success means that all was read, or written, and that the recompressor has it | |
| | `VerifiedFirstAlways` | `VerifiedFirst`: under armor a wrong source is refused before the output is opened | |
| SrcWindowProofs | `CopiesTrueAlways` | `CopiesTrue`: a copy says the bytes of the target, and lies in the source window of the header | |
| | `AssumptionsAlways` | `Assumptions`: what the encoder assumes of itself between calls | no source is empty (`SourcesThere`); a lazy match is not longer than what a pipe keeps (`LazyFits`) |
| Xdelta1Proofs | `PatchAlways` | `PatchTrue`: a patch gives the target back, or the command fails | |
| | `AssertsAlways` | `AssertsHold`: no assertion fails, no page is freed while it is used, the rolled sum is the sum | |
| | `PagesAlways` | `PagesSound`: the list of mapped pages is a list, a complete digest is that of the file | |

`Lemmas` has what several of them use: least elements, steps that increase, removal from a sequence, arithmetic of
blocks and remainders, and that a function defined by recursion along a range exists (`Recursion`) and keeps what each of its steps keeps (`AllAlong`).

Arguments. None of the properties is inductive; the strengthened invariant of each component is defined in its module
(`IInv`, `BufferInv` with `SlotsInv` and `BehindInv`, `CacheInv`, `InputInv` and `OutputInv`, `MainInv`, again `IInv` with `SInv`, which rests on it, and `XInv`) and was checked by TLC on the instances of the runs first.

* **AddrCache.** `AddrAgree` speaks of the next instruction, and says nothing of the ones behind it.
  `IInv == TypeOK /\ Lockstep /\ EncodedAsMeant /\ NeverRejects`: the decoder's state is the view in which the first
  instruction was written, and replaying each instruction gives the view of the next (`Lockstep`); each COPY carries
  what `EncodeAddress` made of its address, and each instruction satisfies in the decoder's coordinates what the encoder asserted in its
  own (`EncodedAsMeant`, made of `AsMeant`). Reading keeps them
  because the head of the queue is decoded in the view it was written in (`HeadAsMeant`, `HeadDecodes`), so that no check rejects it; writing because the last view is the
  encoder's present state. `RoundTrip` rests on `DivMod`, `PageInTable` and `LeastNat`: the search returns a mode that yields the least value.
  `AddressesAreCheapest` follows from the least value, since integers of more bytes are larger.
* **Iopt.** The order of the buffer alone is lost when a lazy match erases or cuts from behind. `BufferInv` adds that the starts *and* the ends increase
  (`InOrder`), what a match that waits for a slot may look like (`NewSound`), where the matcher stands (`MatcherAhead`), and what each turn of the compaction
  has judged already (`Compacted`). For the slots, `SlotsInv` adds that a flush without force that has encoded anything has freed a slot or holds
  one in `iout`. With fewer than four slots the last premise fails: a flush encodes two instructions fewer than there are.
  `NothingBehind` needs that the one instruction that a flush without force always encodes does not overlap the next (`FrontSettled`). It holds of a buffer that
  grows, since this one is only flushed with force, and the theorem is about this one. For a fixed buffer nothing is proved: lazy matches
  and backward extension that are long in relation to the number of slots make it false (section 5), and no bound in the code excludes them;
  the run has fixed buffers where they are not.
* **SourceCache.** `CacheInv` in two parts. `Core`: the read position is where the file is, at the start of a block or at the end
  (`Placed`); what each step of a request may rely on (`Stepping`); every buffer is true to its number (`BuffersTrue`) and the one at hand
  is not given away (`AtHand`); the end is known rightly (`EndInv`). `Pipe`: the FIFO ring holds the `LruSize` blocks up to the newest, block number
  `b` in buffer `b % LruSize`, except the one that is being replaced, and the next to be read is the one after the newest
  (`Sliding`); a skip therefore moves the window by exactly one block. A pipe shorter than its window stays in one buffer (`OneBlock`).
  The assumption is what `main_set_source` and the command line ensure: block size, minimal window and number of
  slots are powers of two, the slots hold the minimal window, and seeks fail only for regular files.
* **EncodeInput.** `InputInv` says for each encoder state where the bytes that were given are: in the window, buffered, in the application's
  piece, or left over (`Accounted`); which results belong to which state (`Returns`); when the flush flag is
  set (`Flushing`); and that nothing comes after a short window (`ShortIsLast`). With `MaxPiece > WinSize` it is not true (section 5).
  `OutputInOrder` compares pages that were consumed with counts, so it needs what is on each page on the way. `OutputInv`: every page is at one place of one
  list, of a section, of the chain or of the free ones (`OnePlace`); page `j` of a section has the `j`-th `PageSize` of its items, also in the
  chain, where a section begins below what the sections before it take (`PagesTrue`); and what was output, with the page at hand, is all up to
  that page (`OutputTrue`). The hard steps are those that change the lists: `EmitPages` (a page that is filled is no other's, since what is
  allocated is new or was free), `FourLists` with `ChainInOnePlace` (chaining), and `CutChain` (the reset, which cuts
  at other places than those that were joined, and needs the chain to have four pages: each section has at least one).
* **MainInput.** What main has still to do is a sequence, so most of `RunInv` says what may stand in it: steps follow one another in the order of
  the code (`Ordered`), those that start children come at once (`Chained`), and each kind of step brings along what it
  relies on (`Forking`, `Writes`, `Doing`). Processes and pipes are tied by number: the decompressor `pid` writes to pipe `pid` and the copier `pid + 1`
  feeds it through pipe `pid + 1` (`Paired`), two forks apart, so that the pairing has to say which half there is.
  `ExitTrue` then rests on counting: what main has read of a file is what its decompressor has made, less what it holds and what is
  in the pipe (`Taken`, `Piped`), and in the same way the output is what the recompressor has plus its pipe (`Gathering`).
  Main sees the end of a pipe only when no process holds the writing end, hence when the decompressor has exited; a decompressor that did so with success
  has made every unit (`Making`), one that got SIGPIPE had no reader, and any other exit is met when it is waited for: every child is in `ext_subprocs` until it has been found to have ended well
  (`Waiting`). A copier that misreads is not relied on: the decompressor tells a unit that is not the next.
  `VerifiedFirst`: with a wrong source the step `verify` stays in the script, and `output` comes later in the order.
* **SrcWindow.** `CopiesTrue` looks at copies that are written or wait; `IInv` follows a match from the index to the delta. While it is
  extended its bytes are alike over all that was gone back and forward, within limits that were set when the window stood where it stands (`MatchInv`), and
  since a block may be missing at any point, also while the application is asked (`WAIT`). The limits come from what is known of the source's
  end, and this is the hard part (`BlocksInv`, `IndexInv`): it may be a bound on what has been seen only, or, for a source shorter than a block, one
  block too many; a position restored from the table is nevertheless a place with `LLook` bytes (`LargePosFacts`), since what is inserted ends
  before `cksum_pos`. In the buffer each copy lies between the bounds of the open source window or in the decided
  one (`InWindow`), which is why deciding it with the first copies cannot leave out one that still waits (`SetupWinFacts`, `EncodeFacts`); an instruction
  that loses its start or its end stays true (`CutStartGood`, `CutEndFits`).
* **Assumptions of SrcWindow.** `SInv` has a part for each thing that must be carried along. `LoopInv`: the run and the large checksum are those at the place of
  the loop; the checksum is a sum of powers modulo `CksumMod`, and rolling it drops the first byte and adds the next
  (`SumsMove`, `RolledIs`), which is congruent to computing it anew. `RingInv`: an entry of the ring says nothing by itself, since it may be from
  long ago, so there is a set `G` of the positions entered in this window; as long as one of them is
  less than the ring's size behind, what the ring has for it is 0 or one that was entered earlier in the same slot; the search along a chain stops where it is further behind. `LazyInv`:
  how far instructions reach beyond `input_position`, which is what a match waiting for a better one may be long. `ContinueInv`: a match that goes on in
  the next window is at the end of this one, has moved since it was last set up, and is not too far behind the index. `BlockInv`: a source of one block is known to end
  where it does, so that nothing beyond is wanted. `PipeInv`: a pipe is read at most `(lru - 1)` blocks ahead of the furthest of the index, the
  last copy and the match at hand, which is why the block that the index reads next is still there. `LengthInv`: the bounds of the source window
  are apart as soon as anything is copied from it.
  The hypotheses: an empty source does trip the assertion of xdelta3.c:3437 (section 5). A pipe has 32 blocks of at least 512 bytes
  (xdelta3-internal.h:420-422, xdelta3-blkcache.h:201), hence keeps 31 * 512, and the largest `MAXLAZY` of the built-in matchers is 90 (xdelta3-cfgs.h:133); only
  `-C` (xdelta3-main.h:3621) sets another. The run's instance meets the second with equality.
* **Xdelta1.** `PatchTrue` looks only at the end, so `XInv` has a part for every loop. The two files: `Sound` names the sequence of pages that the
  pointers make (`ListIs`, `Tracks`), which mapping extends at the head, eviction shortens at the tail, and a page that is used again is moved
  through; `Digests` says that what was hashed is the pages below `md5_page`,
  up to which a page that is mapped out of turn must be caught up with; `InTurn`, that `delta` lists no page beyond. What is made: the instructions, read in order, are the
  target up to `to_output_pos` (`Makes`, with the sequential sources in step by `Ordered`, and the data as written by
  `Wrote`). A copy that continues the last one lengthens it and
  leaves the position of its source behind (`control_copy`), so `sequential` would be wrong from then on; no copy of the file ever does, because each ends where the bytes
  differ or a file does (`Parted`). While a match is extended, `MatchAt`, `BackAt` and `ForwardAt` say how many bytes are alike and where the two positions are; only they hold pages
  (`UsedBy`). The rolled sum is that of the window taken anew, modulo `ChecksumMod` (`WindowAt`). Between the commands, `MadeHolds`: packing and
  unpacking the control are inverse, since the sources that were used are numbered in order (`ControlOf`). In `patch`, `Copying`: what was written is the prefix of the
  target that the instructions so far make, if the source is the one of the digest; `Finished` draws the conclusion for another one.
  The assumptions: a page is a number of whole blocks, which holds for every `-s` up to `XD_PAGE_SIZE` (both are powers of two, xdelta.c:63-71, xdmain.c:69); hashes are natural numbers, of
  whatever quality; a file is a sequence of bytes with fewer pages than the model numbers.

Left to TLC: liveness and anything with ENABLED, which TLAPS does not do; and what is defined by recursion over data, for
which the library's induction theorems cannot be instantiated: the meaning of a delta in `Vcdiff` (so `DecodeInput`), sums, integers and instructions byte by
byte (`Varint`, `CodeTable`), the trees of `Fgk` and `Djw`, and `Image` in `Merge`. Where a recursive function only goes along a range, as the checksums,
the runs and the multiplier of `SrcWindow` do, `Recursion` and `AllAlong` are enough.

## 5. Disagreements between code and documentation

Three are shown by a run that TLC ends with a counterexample.

* **djw_groups** - a section with several Huffman tables of which one needs codes longer than the maximum
  (xdelta3-djw.h:456-458): the repair gives symbols that never occur a code, in this table only; the encoder leaves
  out lengths by what is zero in the same table, the decoder by what is zero in the one before.
* **subprocs** - encoding under armor a compressed target from a compressed source starts more children than `ext_subprocs`
  has entries for (xdelta3-main.h:2331-2333, 2516).
* **recode_source** - `recode_stream->src` keeps pointing to a variable of a call that has returned (xdelta3-main.h:1882): a window without
  a source after one with a source, which the encoder makes whenever it copies nothing from the source, is announced with
  whatever is there. xdelta3-test.h:2034 has "recode does not change" the source.

The others have no run of their own. Where the models state what does not hold, it can be seen by checking the
definition named here as an INVARIANT with the constant named here:

| Module and invariant | With | What happens |
|---|---|---|
| MCIopt, `FrontNotBehind` | `Profiles <- TinyProfiles` | `-I 3` to `-I 6`: `xd3_iopt_flush_instructions` tests "only two instructions remaining" after it has removed one (xdelta3.c:2376). It then encodes one of two instructions that may still overlap, and the other trips the assertion of xdelta3.c:2138 |
| MCIopt, `SearchNotBehind` | `Profiles <- GreedyProfiles` | `XD3_BEGREEDY` (xdelta3.h:536) does not disable lazy matching; the lazy search stands behind the greedy limit (3500), against the assertion of xdelta3.c:3512 |
| MCSourceCache, `SkipAlignedAlways` | `Sources <- ShortPipes` | a pipe that is shorter than the delta's source: after the last partial block, skipping starts in the middle of a block (xdelta3-blkcache.h:381, assertion at 386) |
| MCSourceCache, `RefusedOnlyUnseekable` | `Sources <- UnsizedDevices` | a device that can seek but has no known size is kept as a pipe is (xdelta3-blkcache.h:219-221, "treats the source as unsized" in xdelta3-main.h:1162-1166), and `main_getblk_lru` returns XD3_TOOFARBACK (284-287) before anything seeks; the comment at 460-462 says "only when the input is non-seekable" |
| MCDecodeInput, `ClosedAtBoundary` | as it is | a file of one to three of the magic bytes closes without error (xdelta3.c:1922; xdelta3.h:1265-1267 says "at a window boundary") |
| EncodeInput, `ClosedIsFlushed` | `Styles = {"noflush"}`, `Totals = {5}` | `xd3_close_stream` does not look at `buf_avail`: what a piece left over for the next window is lost without error (xdelta3.c:1915; xdelta3.h:1265-1267 says "the encoder is flushed") |
| EncodeInput, `LeftoverFits` | `Styles = {"pieces"}`, `MaxPiece = 7`, `Totals = {7}` | a piece larger than a window after a shorter one violates the assertion of xdelta3.c:2720, though "the entire input will be consumed" (xdelta3.h:1344-1346) |
| MCCoding, `RecodeKeepsChecksum` | as it is | XD3_ADLER32_RECODE is never cleared (xdelta3-main.h:1888): a window without a checksum after one with it gets the older one, and a decoder that verifies refuses it; xdelta3-test.h:1980-1982 has "it can only preserve it or remove it". xdelta3 writes checksums in all windows of a delta or in none, so this takes a delta of another encoder |
| MCCoding, `TreesAlwaysAgree` | as it is | with FGK, a section that is not sent compressed after all (xdelta3-second.h:252-271) has changed the encoder's tree, which is made once per stream (87-97); the decoder never sees it, and decodes the next section with another tree. The LZMA glue knows of it ("Can't skip windows", xdelta3-lzma.h:118); FGK says "For demonstration purposes only" (xdelta3-fgk.h:16) |

These are why `iopt` has fixed buffers with more slots than lazy matches can fill and no greedy one, why most sources of
`source_cache` are asked only for blocks that begin inside them or at their end, and why `encode_input` gives
pieces of at most a window to an encoder that is flushed. The model keeps the behaviour, and the property says how far it holds, for

* a read error of the copier: `main_file_read` returns a positive errno and the copier tests for a negative one
  (xdelta3-main.h:2455-2458), so that it writes its last block again; the decompressor finds out;
* FGK: `fgk_promote` returns early when the left neighbour is the node of the zeros (xdelta3-fgk.h:380-382), so
  that the order of siblings (51-52) may be off by that node; `TreesSound` leaves it out.
  After a section that was thrown away `SectionsDecoded` and `TreesAgree` require nothing (`dropped`), see the table;
* seek errors: after seeking back, the skip loop meets a cached block (xdelta3-blkcache.h:392, foreseen by the comment at 358).

Met while modelling and left out of the instances: with `-I 1` to `-I 3` (no lower bound, xdelta3-main.h:4480) a flush without force may leave no free
slot (assertion of xdelta3.c:2411; hence the hypothesis of `SlotsKeptAlways`); with any fixed buffer, lazy matches and backward extension that are long
enough make the front instruction overlap the next when it is encoded (`FrontSettled`);
a source shorter than one block leaves `eof_known` unset when the application serves
blocks itself (xdelta3.c:1814 against xdelta3.h:887); with an empty source of known size, a window that is
flushed before its end trips the assertion of xdelta3.c:3437, since a source window is decided for the first target copy.
`main_secondary_decompress_check` drops an error of its second read (xdelta3-main.h:2678-2687). When a child ends with an error,
`main_external_compression_finish` leaves its process id in the table (2392-2394), and the cleanup sends that id a signal (2411).
Deltas without digests that do not fit one another may make `xd3_merge_source_copy` run past the list of pieces (xdelta3-merge.h:351; the
assertion says so). In xdelta 1, `-m` with a number that has no suffix is refused (xdmain.c:441), on DOS `max_mapped_pages` may come out
as 0 (358-360), `xdp_source_index` makes a source and writes no index (xdelta.c:370-383), and the instructions of version 0 are taken apart
with a width where a mask is meant (1501).

## 6. What is not modelled, and the plan

Left out inside of modelled components:

* VCD_TARGET windows and custom code tables, which the decoder refuses (xdelta3-decode.h:84-116, 800-830): only the refusal is modelled;
* the composition of the pieces in one run: windows are cut in `EncodeInput`, searched in `SrcWindow`, compacted in `Iopt`, written in
  `AddrCache`, `CodeTable`, `Framing` and `Secondary`, and read in `DecodeInput`; each takes from the others what
  their properties say of them, since all of them at once are out of a model checker's reach;
* memory allocation and its failure; I/O errors other than seek errors, reads of a copier and a full disk in xdelta 1;
* the application header as text (file names and programs in it), of which `Framing` has the length and `MainInput` the digests;
* in `Merge`, the windows of the older deltas: only positions in the whole target matter after reading.

Not modelled: the command line and `main_print_func` (formatting of what the decoder found), LZMA (a thin layer over a library), the arithmetic of
Adler-32 and BLAKE3 (a checksum or a digest is what it is taken of), the rsync part of xdelta 1 (`xdrsync.c`, incomplete as it says
itself and without a command), its serialization library and generated code, the tests.

What is worth proving next, in this order:

1. `Varint`: `Overflows` refuses exactly what does not fit, in one step of the loop (the loop itself is recursive and stays with TLC).
2. `DecodeInput`: the step simulation to `WindowDecoder` at the boundary of a window.
