--------------------------------- MODULE Djw ---------------------------------
(***************************************************************************)
(* Static Huffman coding with several tables (xdelta3-djw.h).  A section   *)
(* is cut into sectors, each is coded with one of the tables (groups).     *)
(* A table is sent as the lengths of its codes; the lengths are coded by   *)
(* move to front, run lengths and a Huffman code of their own, and so is   *)
(* the choice of a table per sector.  The decoder makes everything else    *)
(* from the lengths.  Arrays are functions from 0; a section is a          *)
(* sequence of symbols, pages of input and output are put together.        *)
(***************************************************************************)
EXTENDS BitIO

CONSTANTS
  DJW_MAX_CODELEN,     \* longest code of a symbol (20)
  djw_encode_12basic,  \* lengths in the initial order of move to front: those
  djw_encode_12extra,  \* whose codes are always sent, and the others
  EFFICIENCY_BITS,     \* what compression has to save (16)
  Thousand             \* the unit of the sizes that suggest a number of groups (1000)

ASSUME DjwAssumption ==
  /\ ALPHABET_SIZE <= 2^DJW_MAX_CODELEN /\ Thousand \in Nat
  /\ {djw_encode_12basic[i] : i \in DOMAIN djw_encode_12basic}
       \cup {djw_encode_12extra[i] : i \in DOMAIN djw_encode_12extra} = 1 .. DJW_MAX_CODELEN
  /\ Len(djw_encode_12basic) + Len(djw_encode_12extra) = DJW_MAX_CODELEN

RUN_0 == 0
RUN_1 == 1
DJW_TOTAL_CODES == DJW_MAX_CODELEN + 2
DJW_EXTRA_12OFFSET == Len(djw_encode_12basic) + 2
DJW_EXTRA_CODE_BITS == 4
DJW_GROUP_BITS == 3
DJW_SECTORSZ_MULT == 5
DJW_SECTORSZ_BITS == 5
DJW_MAX_ITER == 6
DJW_MIN_IMPROVEMENT == 20
DJW_MAX_CLCLEN == 15
DJW_CLCLEN_BITS == 4
DJW_MAX_GBCLEN == 7
DJW_GBCLEN_BITS == 3

\* A sum, and how often a symbol stands in a sequence.
RECURSIVE Sum(_, _)
Sum(f, set) == IF set = {} THEN 0 ELSE LET x == CHOOSE y \in set : TRUE IN f[x] + Sum(f, set \ {x})
Count(seq, sym) == Cardinality({i \in DOMAIN seq : seq[i] = sym})

-----------------------------------------------------------------------------
(* The heap of djw_build_prefix: heap[1 .. last] are indexes of ents.  heap[0] *)
(* is an entry that nothing is less than.                                      *)

HeapLess(a, b) == a.freq < b.freq \/ (a.freq = b.freq /\ a.depth < b.depth)

RECURSIVE SiftUp(_, _, _, _)
SiftUp(heap, ents, p, e) ==
  IF HeapLess(ents[e], ents[heap[p \div 2]])
    THEN SiftUp([heap EXCEPT ![p] = heap[p \div 2]], ents, p \div 2, e)
    ELSE [heap EXCEPT ![p] = e]

RECURSIVE SiftDown(_, _, _, _)
SiftDown(heap, ents, p, last) ==
  LET pc == IF 2 * p < last /\ HeapLess(ents[heap[2 * p + 1]], ents[heap[2 * p]]) THEN 2 * p + 1 ELSE 2 * p
  IN  IF 2 * p > last \/ ~HeapLess(ents[heap[pc]], ents[heap[p]]) THEN heap
      ELSE SiftDown([heap EXCEPT ![p] = heap[pc], ![pc] = heap[p]], ents, pc, last)

\* heap_insert and heap_extract; h is [heap, last].
HeapInsert(h, ents, e) ==
  [heap |-> SiftUp((h.last + 1) :> e @@ h.heap, ents, h.last + 1, e), last |-> h.last + 1]
HeapExtract(h, ents) ==
  [heap |-> SiftDown([h.heap EXCEPT ![1] = h.heap[h.last]], ents, 1, h.last - 1), last |-> h.last - 1]

\* The tree is built: the two least entries become the children of a new one.
RECURSIVE BuildTree(_, _)
BuildTree(h, ents) ==
  IF h.last = 1 THEN ents
  ELSE LET h1 == h.heap[1]
           rest == HeapExtract(h, ents)
           h2 == rest.heap[1]
           new == Cardinality(DOMAIN ents)
           entry == [freq |-> ents[h1].freq + ents[h2].freq, parent |-> 0,
                     depth |-> 1 + (IF ents[h1].depth >= ents[h2].depth THEN ents[h1].depth ELSE ents[h2].depth)]
           grown == new :> entry @@ [ents EXCEPT ![h1].parent = new, ![h2].parent = new]
       IN  BuildTree(HeapInsert(HeapExtract(rest, ents), grown, new), grown)

RECURSIVE Depth(_, _)
Depth(ents, i) == IF ents[i].parent = 0 THEN 0 ELSE 1 + Depth(ents, ents[i].parent)

\* Lengths of codes for frequencies of which at least two are not zero.
CodeLengths(freq, asize) ==
  LET Entry(f) == [freq |-> f, depth |-> 0, parent |-> 0]
      ents == [i \in 0 .. asize |-> IF i = 0 THEN Entry(0) ELSE Entry(freq[i - 1])]
      used == SetToSortSeq({i \in 1 .. asize : freq[i - 1] # 0}, <)
      heap == Along(LAMBDA h, e : HeapInsert(h, ents, e), [heap |-> (0 :> 0), last |-> 0], used)
      tree == BuildTree(heap, ents)
  IN  [i \in 0 .. asize - 1 |-> IF freq[i] = 0 THEN 0 ELSE Depth(tree, i + 1)]

\* The loop of djw_build_prefix: a second symbol for one that is alone, and all
\* frequencies (also those that are zero) halved while a code is too long.
RECURSIVE Lengths(_, _, _, _)
Lengths(freq, asize, maxlen, first) ==
  LET clen == CodeLengths(freq, asize)
  IN  IF Cardinality({i \in 0 .. asize - 1 : freq[i] # 0}) = 1
        THEN Lengths([freq EXCEPT ![IF first # 0 THEN asize - 1 ELSE 0] = 1], asize, maxlen, first)
      ELSE IF \E i \in 0 .. asize - 1 : clen[i] > maxlen
        THEN Lengths([i \in 0 .. asize - 1 |-> freq[i] \div 2 + 1], asize, maxlen, first)
      ELSE clen

BuildPrefix(freq, asize, maxlen) ==
  LET clen == Lengths(freq, asize, maxlen, freq[0])
  IN  [clen |-> clen, bits |-> Sum([i \in DOMAIN clen |-> clen[i] * freq[i]], DOMAIN clen)]

\* djw_build_codes: codes in the order of lengths, and of symbols.
BuildCodes(clen) ==
  LET nr(l) == Cardinality({i \in DOMAIN clen : clen[i] = l})
      first[l \in 1 .. DJW_MAX_CODELEN + DJW_MAX_CLCLEN] ==
        IF l = 1 THEN 0 ELSE 2 * (first[l - 1] + nr(l - 1))
  IN  [i \in {j \in DOMAIN clen : clen[j] # 0} |->
         first[clen[i]] + Cardinality({j \in DOMAIN clen : j < i /\ clen[j] = clen[i]})]

-----------------------------------------------------------------------------
(* Move to front, and runs in digits of base 2 that begin at 1. *)

ToFront(mtf, j) == [k \in DOMAIN mtf |-> IF k = 0 THEN mtf[j] ELSE IF k <= j THEN mtf[k - 1] ELSE mtf[k]]

\* djw_update_1_2.
RECURSIVE Run12(_)
Run12(run) ==
  IF run = 0 THEN <<>>
  ELSE <<IF (run - 1) % 2 = 1 THEN RUN_1 ELSE RUN_0>> \o Run12((run - 1) \div 2)

\* djw_compute_mtf_1_2: the codes and their frequencies.
MtfStep(st, sym) ==
  LET j == CHOOSE i \in DOMAIN st.mtf : st.mtf[i] = sym
  IN  IF j = 0 THEN [st EXCEPT !.run = @ + 1]
      ELSE [mtf |-> ToFront(st.mtf, j), run |-> 0, out |-> st.out \o Run12(st.run) \o <<j + RUN_1>>]
Flushed(end) == end.out \o Run12(end.run)
WithFreq(mtfsym, nsym) == [mtfsym |-> mtfsym, freq |-> [code \in 0 .. nsym + 1 |-> Count(mtfsym, code)]]
ComputeMtf12(symbols, initial, nsym) ==
  WithFreq(Flushed(Along(MtfStep, [mtf |-> initial, run |-> 0, out |-> <<>>], symbols)), nsym)

\* djw_init_clen_mtf_1_2.
ClenMtf ==
  LET order == <<0>> \o djw_encode_12basic \o djw_encode_12extra
  IN  [i \in 0 .. Len(order) - 1 |-> order[i + 1]]

-----------------------------------------------------------------------------
(* The encoder. *)

RECURSIVE EmitCodes(_, _, _)
EmitCodes(clen, codes, syms) ==
  IF syms = <<>> THEN <<>>
  ELSE EncodeBits(clen[Head(syms)], codes[Head(syms)]) \o EmitCodes(clen, codes, Tail(syms))

\* djw_encode_prefix: the lengths of the codes of lengths, and the lengths in these codes.
PrefixBits(mtfsym, clclen) ==
  LET used == {k \in 0 .. DJW_TOTAL_CODES - 1 : clclen[k] # 0} \cup {DJW_EXTRA_12OFFSET - 1}
      num_to_encode == 1 + Max(used)
  IN  EncodeBits(DJW_EXTRA_CODE_BITS, num_to_encode - DJW_EXTRA_12OFFSET)
        \o FlattenSeq([k \in 1 .. num_to_encode |-> EncodeBits(DJW_CLCLEN_BITS, clclen[k - 1])])
        \o EmitCodes(clclen, BuildCodes(clclen), mtfsym)
PrefixWithFreq(prefix) ==
  PrefixBits(prefix.mtfsym, BuildPrefix(prefix.freq, DJW_TOTAL_CODES, DJW_MAX_CLCLEN).clen)
EncodePrefix(symbols) == PrefixWithFreq(ComputeMtf12(symbols, ClenMtf, DJW_MAX_CODELEN))

\* djw_compute_multi_prefix: the lengths of all groups; zeros are left out after the first.
MultiPrefixMutantNoSkip(clen) ==
  FlattenSeq([g \in DOMAIN clen |-> [k \in 1 .. ALPHABET_SIZE |-> clen[g][k - 1]]])
MultiPrefix(clen) ==
  FlattenSeq([g \in DOMAIN clen |->
    LET all == [k \in 1 .. ALPHABET_SIZE |-> clen[g][k - 1]]
    IN  IF g = 1 THEN all ELSE SelectSeq(all, LAMBDA len : len # 0)])

\* xd3_encode_howmany_groups: <<below which size, groups, sector size>>, and the last for all.
Suggested(data_type) ==
  CASE data_type = "DATA" -> << <<1, 1, 0>>, <<4, 2, 10>>, <<7, 3, 10>>, <<10, 4, 10>>, <<25, 5, 10>>,
                                <<50, 7, 20>>, <<100, 8, 30>>, <<0, 8, 70>> >>
    [] data_type = "INST" -> << <<7, 1, 0>>, <<10, 2, 50>>, <<25, 3, 50>>, <<50, 6, 40>>, <<0, 8, 40>> >>
    [] data_type = "ADDR" -> << <<9, 1, 0>>, <<25, 2, 130>>, <<50, 3, 130>>, <<100, 5, 130>>, <<0, 7, 130>> >>
HowManyGroups(cfg, input_size) ==
  LET table == Suggested(cfg.data_type)
      row == table[Min({i \in DOMAIN table : input_size < table[i][1] * Thousand} \cup {Len(table)})]
      groups == IF cfg.ngroups # 0 THEN cfg.ngroups ELSE row[2]
      sector_size == IF cfg.sector_size # 0 THEN cfg.sector_size ELSE row[3]
      least == CASE cfg.data_type = "DATA" -> 20 [] cfg.data_type = "INST" -> 50 [] OTHER -> 130
  IN  <<groups, IF groups # 1 /\ sector_size = 0 THEN least ELSE sector_size>>

\* The tables to begin with: each group takes symbols until it has its share of the input;
\* the last entry is FALSE where a group has none.
InitialTables(freq, size, groups) ==
  LET Take(st, gp) ==
        LET goal == st.left \div (groups - gp + 1)
            Upto(k) == Sum(freq, st.sym2 .. k - 1)
            sym2 == CHOOSE k \in st.sym2 .. ALPHABET_SIZE :
                      Upto(k) >= goal /\ \A j \in st.sym2 .. k - 1 : Upto(j) < goal
        IN  [left |-> st.left - Upto(sym2), sym1 |-> sym2 + 1, sym2 |-> sym2, full |-> st.full /\ goal # 0,
             clen |-> Append(st.clen, [s \in Symbols |-> IF s \in st.sym1 .. sym2 THEN 1 ELSE 16])]
  IN  Along(Take, [left |-> size, sym1 |-> 0, sym2 |-> 0, full |-> TRUE, clen |-> <<>>],
               [gp \in 1 .. groups |-> gp])

Sectors(input, sector_size) ==
  [c \in 1 .. 1 + (Len(input) - 1) \div sector_size |->
     SubSeq(input, 1 + (c - 1) * sector_size, Min({c * sector_size, Len(input)}))]

\* One round: each sector takes the group that codes it best, and each group new lengths
\* for what it has; a symbol of the input that it has not gets one as well.
Winner(sector, clen) ==
  LET cost == [gp \in DOMAIN clen |-> Sum([k \in DOMAIN sector |-> clen[gp][sector[k]]], DOMAIN sector)]
  IN  CHOOSE w \in DOMAIN clen : \A gp \in DOMAIN clen : cost[w] < cost[gp] \/ (cost[w] = cost[gp] /\ w <= gp)

Faked(freq, real_freq) == {s \in Symbols : freq[s] = 0 /\ real_freq[s] # 0}
NotFaked(built, zero) == [clen |-> built.clen, bits |-> built.bits - Sum(built.clen, zero)]
Relength(freq, zero) ==
  NotFaked(BuildPrefix([s \in Symbols |-> IF s \in zero THEN 1 ELSE freq[s]], ALPHABET_SIZE, DJW_MAX_CODELEN),
           zero)

GroupFreq(sectors, won) == [s \in Symbols |-> Sum([c \in DOMAIN sectors |-> Count(sectors[c], s)], won)]
Evolved(gbest, built) ==
  [gbest |-> gbest, clen |-> [gp \in DOMAIN built |-> built[gp].clen],
   bits |-> Sum([gp \in DOMAIN built |-> built[gp].bits], DOMAIN built)]
WithFreqs(real_freq, gbest, freq) ==
  Evolved(gbest, [gp \in DOMAIN freq |-> Relength(freq[gp], Faked(freq[gp], real_freq))])
WithWinners(sectors, real_freq, gbest, groups) ==
  WithFreqs(real_freq, gbest,
              [gp \in 1 .. groups |-> GroupFreq(sectors, {c \in DOMAIN sectors : gbest[c] = gp})])
Evolve(sectors, real_freq, clen) ==
  WithWinners(sectors, real_freq, [c \in DOMAIN sectors |-> Winner(sectors[c], clen)], Len(clen))

\* The rounds: two, and more as long as they save enough; the difference is unsigned, so
\* they also go on after one that lost.
GoesOn(niter, saved) ==
  niter = 1 \/ (niter < DJW_MAX_ITER /\ (saved >= DJW_MIN_IMPROVEMENT \/ saved < 0))
RECURSIVE Rounds(_, _, _, _, _)
Rounds(sectors, real_freq, e, niter, best_bits) ==
  IF niter = 0 \/ GoesOn(niter, best_bits - e.bits)
    THEN Rounds(sectors, real_freq, Evolve(sectors, real_freq, e.clen), niter + 1, e.bits)
    ELSE e

\* The efficiency checks of xd3_encode_huff, after some bits and some that are to come.
Inefficient(input, cfg, before, written, bits) ==
  ~cfg.inefficient /\ bits + ByteBits * (before + written \div ByteBits) + EFFICIENCY_BITS >= Len(input) * ByteBits

\* xd3_encode_huff with one group, and with several; <<>> is XD3_NOSECOND.  `before` bytes
\* are in the output.
OneWith(input, cfg, before, one, prefix) ==
  IF Inefficient(input, cfg, before, Len(prefix), one.bits) THEN <<>>
  ELSE prefix \o EmitCodes(one.clen, BuildCodes(one.clen), input)
EncodeOne(input, cfg, before, one) ==
  IF Inefficient(input, cfg, 0, 0, one.bits) THEN <<>>
  ELSE OneWith(input, cfg, before, one,
               EncodeBits(DJW_GROUP_BITS, 0) \o EncodePrefix([k \in 1 .. ALPHABET_SIZE |-> one.clen[k - 1]]))

\* The choice of a group per sector: its codes, and how many bits the choices take.
SelectorBits(mtfsym, gb) ==
  [bits |-> gb.bits,
   written |-> FlattenSeq([k \in 1 .. Cardinality(DOMAIN gb.clen) |-> EncodeBits(DJW_GBCLEN_BITS, gb.clen[k - 1])])
                 \o EmitCodes(gb.clen, BuildCodes(gb.clen), mtfsym)]
SelectorWith(sel, groups) == SelectorBits(sel.mtfsym, BuildPrefix(sel.freq, groups + 1, DJW_MAX_GBCLEN))
Selector(gbest, groups) ==
  SelectorWith(ComputeMtf12([c \in DOMAIN gbest |-> gbest[c] - 1], [g \in 0 .. groups - 1 |-> g], groups), groups)

Sent(prefix, sectors, e, codes) ==
  prefix \o FlattenSeq([c \in DOMAIN sectors |-> EmitCodes(e.clen[e.gbest[c]], codes[e.gbest[c]], sectors[c])])
GroupsWith(input, cfg, before, sectors, e, prefix, select_bits) ==
  IF Inefficient(input, cfg, before, Len(prefix), e.bits + select_bits) THEN <<>>
  ELSE Sent(prefix, sectors, e, [gp \in DOMAIN e.clen |-> BuildCodes(e.clen[gp])])
GroupsSelected(input, cfg, before, sector_size, sectors, e, selector) ==
  GroupsWith(input, cfg, before, sectors, e,
             EncodeBits(DJW_GROUP_BITS, Len(e.clen) - 1)
               \o EncodeBits(DJW_SECTORSZ_BITS, (sector_size \div DJW_SECTORSZ_MULT) - 1)
               \o EncodePrefix(MultiPrefix(e.clen)) \o selector.written,
             selector.bits)
EncodeGroups(input, cfg, before, sector_size, sectors, e) ==
  IF Inefficient(input, cfg, 0, 0, e.bits) THEN <<>>
  ELSE GroupsSelected(input, cfg, before, sector_size, sectors, e, Selector(e.gbest, Len(e.clen)))

\* The whole, which begins again with a group less if the symbols are not enough for them.
RECURSIVE EncodeFreqs(_, _, _, _, _, _, _)
EncodeFreqs(input, cfg, before, groups, sector_size, real_freq, tables) ==
  IF groups = 1
    THEN EncodeOne(input, cfg, before, BuildPrefix(real_freq, ALPHABET_SIZE, DJW_MAX_CODELEN))
  ELSE IF ~tables.full /\ ~cfg.inefficient
    THEN EncodeFreqs(input, cfg, before, groups - 1, sector_size, real_freq,
                     InitialTables(real_freq, Len(input), groups - 1))
  ELSE EncodeGroups(input, cfg, before, sector_size, Sectors(input, sector_size),
                    Rounds(Sectors(input, sector_size), real_freq, [clen |-> tables.clen, bits |-> 0], 0, 0))
EncodeHuff(input, cfg, before, sizes) ==
  LET real_freq == [s \in Symbols |-> Count(input, s)]
  IN  EncodeFreqs(input, cfg, before, sizes[1], sizes[2], real_freq,
                  InitialTables(real_freq, Len(input), sizes[1]))

-----------------------------------------------------------------------------
(* The decoder.  It takes bits from a position; ok says that nothing was refused. *)

TakeBits(bits, at, n) ==
  [ok |-> at + n <= Len(bits), at |-> at + n,
   value |-> IF at + n <= Len(bits) THEN DecodeBits(SubSeq(bits, at + 1, at + n)) ELSE 0]

\* djw_build_decoder: the codes of a length lie between base and limit, in the order of symbols.
BuildDecoder(clen, abs_max) ==
  LET nr(l) == Cardinality({i \in DOMAIN clen : clen[i] = l})
      lengths == {l \in 1 .. abs_max : nr(l) # 0}
      table[l \in 0 .. Max(lengths \cup {0})] ==
        IF l < Min(lengths) THEN [limit |-> -1, base |-> 0, first |-> 0]
        ELSE LET last_limit == (table[l - 1].limit + 1) * 2
                 first == IF l = Min(lengths) THEN 0 ELSE table[l - 1].first + nr(l - 1)
             IN  [limit |-> last_limit + nr(l) - 1, base |-> last_limit - first, first |-> first]
  IN  [min |-> Min(lengths), max |-> Max(lengths), table |-> table,
       inorder |-> SetToSortSeq({i \in DOMAIN clen : clen[i] # 0},
                                LAMBDA i, j : clen[i] < clen[j] \/ (clen[i] = clen[j] /\ i < j))]

\* djw_decode_symbol: bits are taken until their number is within the limit of a length.
DecodeSymbol(decoder, bits, at) ==
  LET Code(n) == TakeBits(bits, at, n).value
      found == {n \in decoder.min .. decoder.max : at + n <= Len(bits) /\ Code(n) <= decoder.table[n].limit}
      n == Min(found)
      offset == Code(n) - decoder.table[n].base
  IN  IF found = {} \/ offset < 0 \/ offset >= Len(decoder.inorder) THEN [ok |-> FALSE, sym |-> 0, at |-> at]
      ELSE [ok |-> TRUE, sym |-> decoder.inorder[offset + 1], at |-> at + n]

\* A length of zero everywhere, or bits that are too few, are refused (the code reads
\* tables that were not written; no encoder sends this).
Start(values, mtf, at, ok) ==
  [values |-> values, rep |-> 0, mtf |-> 0, s |-> 0, at |-> at, front |-> mtf, ok |-> ok]

\* djw_decode_1_2: st is [values, rep, mtf, s, at, front].  A value is known to be zero where it was zero a group before.
RECURSIVE Decode12(_, _, _, _, _)
Decode12(st, decoder, bits, elts, skip_offset) ==
  LET n == Len(st.values)
      got == DecodeSymbol(decoder, bits, st.at)
  IN  IF n = elts THEN IF st.rep = 0 THEN st ELSE [st EXCEPT !.ok = FALSE]
      ELSE IF skip_offset # 0 /\ n >= skip_offset /\ st.values[n - skip_offset + 1] = 0
        THEN Decode12([st EXCEPT !.values = Append(@, 0)], decoder, bits, elts, skip_offset)
      ELSE IF st.rep # 0
        THEN Decode12([st EXCEPT !.values = Append(@, st.front[0]), !.rep = @ - 1], decoder, bits, elts, skip_offset)
      ELSE IF st.mtf # 0
        THEN Decode12([st EXCEPT !.values = Append(@, st.front[st.mtf]), !.front = ToFront(@, st.mtf), !.mtf = 0],
                      decoder, bits, elts, skip_offset)
      ELSE IF ~got.ok THEN [st EXCEPT !.ok = FALSE]
      ELSE IF got.sym <= RUN_1
        THEN Decode12([st EXCEPT !.at = got.at, !.rep = (got.sym + 1) * 2^st.s, !.s = @ + 1],
                      decoder, bits, elts, skip_offset)
      ELSE Decode12([st EXCEPT !.at = got.at, !.mtf = got.sym - RUN_1, !.s = 0], decoder, bits, elts, skip_offset)

\* djw_decode_clclen and djw_decode_prefix: the lengths of all groups.
DecodePrefix(bits, at0, groups) ==
  LET extra == TakeBits(bits, at0, DJW_EXTRA_CODE_BITS)
      num_codes == extra.value + DJW_EXTRA_12OFFSET
      clclen == [k \in 0 .. DJW_TOTAL_CODES - 1 |->
                   IF k < num_codes THEN TakeBits(bits, extra.at + k * DJW_CLCLEN_BITS, DJW_CLCLEN_BITS).value
                   ELSE 0]
      at == extra.at + num_codes * DJW_CLCLEN_BITS
      decoder == BuildDecoder(clclen, DJW_MAX_CLCLEN)
  IN  Decode12(Start(<<>>, ClenMtf, at, TRUE), decoder, bits,
               ALPHABET_SIZE * groups, ALPHABET_SIZE)

\* xd3_decode_huff: the tables of the groups, the groups of the sectors, and the symbols.
GroupDecoders(values, groups) ==
  [g \in 0 .. groups - 1 |->
     BuildDecoder([sym \in Symbols |-> values[g * ALPHABET_SIZE + sym + 1]], DJW_MAX_CODELEN)]

DecodeSelector(bits, at, groups, sectors) ==
  LET decoder == BuildDecoder([g \in 0 .. groups |->
                   TakeBits(bits, at + g * DJW_GBCLEN_BITS, DJW_GBCLEN_BITS).value], DJW_MAX_GBCLEN)
  IN  IF groups = 1 THEN Start(<<0>>, <<>>, at, TRUE)
      ELSE Decode12(Start(<<>>, [g \in 0 .. groups |-> g], at + (groups + 1) * DJW_GBCLEN_BITS, TRUE),
                    decoder, bits, sectors, 0)

RECURSIVE DecodeSectors(_, _, _, _, _, _)
DecodeSectors(st, bits, decoders, select, sector_size, size) ==
  LET got == DecodeSymbol(decoders[select[1 + Len(st.out) \div sector_size]], bits, st.at)
  IN  IF ~st.ok \/ Len(st.out) = size THEN st
      ELSE DecodeSectors([ok |-> got.ok, at |-> got.at, out |-> Append(st.out, got.sym)],
                         bits, decoders, select, sector_size, size)

DecodeSelected(bits, size, sector_size, values, groups, select) ==
  DecodeSectors([ok |-> select.ok, at |-> select.at, out |-> <<>>], bits,
                GroupDecoders(values, groups), select.values, sector_size, size)
DecodeTables(bits, size, sector_size, groups, prefix) ==
  IF ~prefix.ok THEN [ok |-> FALSE, at |-> prefix.at, out |-> <<>>]
  ELSE DecodeSelected(bits, size, sector_size, prefix.values, groups,
                      DecodeSelector(bits, prefix.at, groups, 1 + (size - 1) \div sector_size))
DecodeGroups(bits, size, groups) ==
  IF groups = 1 THEN DecodeTables(bits, size, size, 1, DecodePrefix(bits, DJW_GROUP_BITS, 1))
  ELSE DecodeTables(bits, size,
                    (TakeBits(bits, DJW_GROUP_BITS, DJW_SECTORSZ_BITS).value + 1) * DJW_SECTORSZ_MULT, groups,
                    DecodePrefix(bits, DJW_GROUP_BITS + DJW_SECTORSZ_BITS, groups))
DecodeHuff(bits, size) == DecodeGroups(bits, size, TakeBits(bits, 0, DJW_GROUP_BITS).value + 1)
==============================================================================
