--------------------------- MODULE SrcWindowProofs ---------------------------
(***************************************************************************)
(* Every copy that the encoder makes says the bytes of the target, for all *)
(* sources, targets and windows, however the extension of a match was cut  *)
(* by blocks that were not there and however the instructions were cut to  *)
(* make room; and what the encoder assumes of itself between calls holds.  *)
(***************************************************************************)
EXTENDS SrcWindow, Lemmas

-----------------------------------------------------------------------------
(* The invariant, in parts. *)

Insts == [type : {"RUN", "CPY", "SRC"}, pos : Nat, size : Int, addr : Nat]
Matches == [type : {"RUN", "CPY", "SRC"}, pos : Nat, size : Nat, addr : Nat, mlen : Nat, lazy : BOOLEAN]
Runs == [l : Nat, c : Nat, lcksum : 0 .. CksumMod - 1]

\* The match_ fields of the stream, and who extends the match.
Tries == [state : {"TARGET", "SEARCHING", "BACKWARD", "FORWARD", "DONE"}, srcpos : Nat, last_srcpos : Nat,
          back : Nat, fwd : Nat, maxback : Nat, maxfwd : Nat, by : {"entry", "loop"}]
USE DEF Tries

\* Types, in the form of record sets.
TypeInv ==
  /\ enc \in Encodings /\ number \in Nat /\ number <= Len(enc.windows)
  /\ pc # "ENDED" => number < Len(enc.windows)
  /\ pc \in {"START", "WAIT", "MOVE", "RUN", "AT", "SMALL", "COMPARE", "CHOSEN", "EXTEND", "SLOT",
             "INSTR", "HEADER", "ENDED"}
  /\ total_in \in Nat /\ input_position \in Nat /\ min_match \in Nat /\ unencoded_offset \in Nat
  /\ next_move_point \in Nat /\ cksum_pos \in Nat /\ maxsrcaddr \in Nat /\ want \in Nat
  /\ loop \in Runs
  /\ match \in Tries
  /\ win \in [decided : BOOLEAN, base : Nat, len : Nat, minaddr : Nat, maxaddr : Nat]
  /\ src \in [cur : Int, highest : Nat, max_blkno : Nat, onlastblk : Nat, eof_known : BOOLEAN]
  /\ search \in [base : Nat, chain : Int, len : Nat, offset : Nat]
  /\ table \in [0 .. LSlots - 1 -> Nat]
  /\ small_table \in [0 .. SSlots - 1 -> Nat]
  /\ used \in Seq(Insts)

\* Places in the window.
Looking == {"MOVE", "RUN", "AT", "SMALL", "COMPARE", "CHOSEN"}
PosInv ==
  /\ input_position <= AvailIn
  /\ pc # "HEADER" => unencoded_offset <= input_position
  /\ pc = "START" => input_position = 0
  /\ MinMatch <= min_match
  /\ pc \in Looking => input_position + SLook <= AvailIn
  /\ pc = "EXTEND" /\ match.by = "loop" => input_position + SLook <= AvailIn
  /\ pc \in {"MOVE", "EXTEND", "WAIT"} => HasSource

\* What is known of the size of the source.  A source shorter than a block whose
\* size was not given is taken for a block long, once the block after it was asked for.
Seen(n) == n <= (src.max_blkno + 1) * Blk
EndIsKnown == src.max_blkno = Len(S) \div Blk /\ src.onlastblk = Len(S) % Blk
EndIsBlock == Len(S) < Blk /\ src.max_blkno = 1 /\ src.onlastblk = 0
BlocksInv ==
  IF src.eof_known THEN EndIsKnown \/ EndIsBlock
  ELSE src.max_blkno > 0 => (src.max_blkno + 1) * Blk <= Len(S)

\* The index is behind the blocks that have been seen.
InSource(n) == n <= Len(S) /\ Seen(n)
IndexInv ==
  /\ InSource(maxsrcaddr) /\ Seen(cksum_pos)
  /\ pc # "MOVE" /\ src.eof_known => cksum_pos <= Eof
  /\ src.eof_known /\ ~EndIsKnown => Blk <= cksum_pos
  /\ \A h \in 0 .. LSlots - 1 :
       table[h] # 0 => table[h] - 1 + LLook <= Len(S) /\ table[h] - 1 + LLook <= cksum_pos

\* The table of the target has only what is behind.
SmallInv ==
  \A h \in 0 .. SSlots - 1 :
    /\ small_table[h] <= AvailIn
    /\ small_table[h] <= input_position + (IF pc \in {"SLOT", "INSTR", "HEADER"} THEN 1 ELSE 0)

\* The longest match so far of a search in the target.
SearchInv ==
  /\ pc = "COMPARE" => search.base < input_position
  /\ pc \in {"COMPARE", "CHOSEN"} /\ search.len > 0 =>
       /\ search.offset < input_position /\ input_position + search.len <= AvailIn
       /\ \A i \in 1 .. search.len : T[search.offset + i] = T[input_position + i]

\* The match that is extended: its bytes are alike, and it stays within its limits.
InExtension == match.state \in {"BACKWARD", "FORWARD", "DONE"}
MatchAlike == \A i \in 1 - match.back .. match.fwd : S[match.srcpos + i] = T[input_position + i]
MatchInv ==
  /\ InExtension =>
       /\ pc \in {"EXTEND", "WAIT"}
       /\ match.back <= match.maxback /\ match.maxback <= match.srcpos
       /\ unencoded_offset + match.maxback <= input_position
       /\ match.fwd <= match.maxfwd /\ input_position + match.maxfwd <= AvailIn
       /\ win.decided => win.base + match.maxback <= match.srcpos
                         /\ match.srcpos + match.maxfwd <= win.base + win.len
       /\ InSource(match.srcpos + match.fwd)
       /\ MatchAlike
  /\ match.state = "TARGET" => InSource(match.srcpos)
  /\ match.back <= match.maxback \/ match.back = 0

\* A copy from the source lies in the source window, or in what it will be.
InWindow(r) ==
  r.type = "SRC" =>
    /\ HasSource /\ r.addr + r.size > 0
    /\ IF win.decided THEN win.base <= r.addr /\ r.addr + r.size <= win.base + win.len
       ELSE win.minaddr <= r.addr /\ r.addr + r.size <= win.maxaddr
Good(r) == End(r) \in Nat /\ InWindow(r) /\ (r.type # "RUN" => SameBytes(r))

\* The match that waits for a slot.
NewInv ==
  IF pc = "SLOT"
  THEN /\ new \in Matches /\ Good(new)
       /\ new.pos <= input_position
       /\ MinMatch <= new.mlen /\ input_position + new.mlen <= AvailIn
       /\ new.lazy => input_position + SLook <= AvailIn
  ELSE new = None

\* The instructions in the buffer.
UsedInv ==
  /\ \A i \in 1 .. Len(used) : Good(used[i])
  /\ pc \in {"START", "HEADER", "ENDED"} => used = <<>>

\* The source window, and its bounds while it is open.
WinInv ==
  /\ win.minaddr <= win.maxaddr /\ win.maxaddr <= Len(S)
  /\ win.decided => HasSource
  /\ ~win.decided => win.base = 0 /\ win.len = 0
  /\ pc \in {"START", "ENDED"} => encoded = {} /\ ~win.decided

\* The copies that are written.
EncodedInv ==
  \A c \in encoded :
    /\ c.inst.type \in {"CPY", "SRC"} /\ SameBytes(c.inst)
    /\ win.decided = HasSource /\ c.base = win.base /\ c.len = win.len
    /\ c.inst.type = "SRC" =>
         win.base <= c.inst.addr /\ c.inst.addr + c.inst.size <= win.base + win.len

IInv ==
  /\ TypeInv /\ PosInv /\ BlocksInv /\ IndexInv /\ SmallInv /\ SearchInv /\ MatchInv
  /\ NewInv /\ UsedInv /\ WinInv /\ EncodedInv

-----------------------------------------------------------------------------
(* The constants, and what is encoded. *)

LEMMA Sizes ==
  /\ LLook \in Nat \ {0} /\ LStep \in Nat \ {0} /\ SLook \in Nat \ {0}
  /\ MinMatch \in Nat \ {0} /\ MinRun \in Nat \ {0} /\ OffMod \in Nat \ {0} /\ Mult \in Nat \ {0}
  /\ CksumMod \in Nat \ {0} /\ LSlots \in Nat \ {0} /\ SSlots \in Nat \ {0}
  /\ SChain \in Nat \ {0} /\ SLChain \in Nat \ {0} /\ LongEnough \in Nat \ {0}
  /\ SPrevSz \in Nat \ {0} /\ MaxLazy \in Nat /\ MinMatch <= SLook /\ SLook <= LLook
  BY SrcAssumption

LEMMA EncodingFacts ==
  ASSUME enc \in Encodings
  PROVE  /\ enc.kind \in Kinds /\ enc.size_known \in BOOLEAN /\ enc.small \in BOOLEAN
         /\ S \in Seq(Nat) /\ Len(S) \in Nat /\ Blk \in Nat \ {0}
         /\ enc.windows \in Seq(Seq(Nat)) /\ enc.windows # <<>> /\ Len(enc.windows) \in Nat \ {0}
         /\ enc.lru \in Nat \ {0} /\ enc.window \in Nat \ {0}
<1>1. /\ enc.kind \in Kinds /\ enc.size_known \in BOOLEAN /\ enc.small \in BOOLEAN
      /\ enc.source \in Seq(Nat) /\ enc.windows \in Seq(Seq(Nat)) /\ enc.windows # <<>>
      /\ enc.blk \in Nat \ {0} /\ enc.lru \in Nat \ {0} /\ enc.window \in Nat \ {0}
  BY SrcAssumption
<1>2. Len(enc.source) \in Nat /\ Len(enc.windows) \in Nat /\ Len(enc.windows) # 0
  BY <1>1
<1>3. QED
  BY <1>1, <1>2 DEF S, Blk

\* A block is not as large as the numbers of the table.
LEMMA BlockFits ==
  ASSUME enc \in Encodings
  PROVE  Blk < OffMod
<1>1. enc.window \in Nat \ {0} /\ enc.blk \in Nat \ {0} /\ enc.window % enc.blk = 0 /\ 2 * enc.window <= OffMod
  BY SrcAssumption
<1>2. OffMod \in Nat
  BY Sizes
<1>3. enc.window \div enc.blk \in Nat /\ enc.window = (enc.window \div enc.blk) * enc.blk + 0
  BY <1>1, Division
<1>4. PICK q \in Nat : q = enc.window \div enc.blk
  BY <1>3
<1>5. q # 0
  BY <1>1, <1>3, <1>4
<1>6. 1 * enc.blk <= q * enc.blk /\ q * enc.blk \in Nat
  BY <1>1, <1>4, <1>5, BlockStarts
<1>7. enc.blk <= enc.window
  BY <1>1, <1>3, <1>4, <1>6
<1>8. QED
  BY <1>1, <1>2, <1>7 DEF Blk

LEMMA TargetFacts ==
  ASSUME TypeInv
  PROVE  T \in Seq(Nat) /\ AvailIn \in Nat /\ \A i \in 1 .. AvailIn : T[i] \in Nat
<1>1. enc.windows \in Seq(Seq(Nat)) /\ number \in Nat
  BY EncodingFacts DEF TypeInv
<1>2. number < Len(enc.windows) => number + 1 \in 1 .. Len(enc.windows)
  BY <1>1
<1>3. T \in Seq(Nat)
  BY <1>1, <1>2 DEF T
<1>4. QED
  BY <1>3 DEF AvailIn

-----------------------------------------------------------------------------
(* Checksums and runs: the recursive functions that define them exist.      *)

Cksums == 0 .. CksumMod - 1

LEMMA LargeCksumFacts ==
  ASSUME NEW bytes, \A i \in 1 .. LLook : bytes[i] \in Nat
  PROVE  /\ LargeCksum(bytes) \in Cksums
         /\ \E sum \in [0 .. LLook -> Cksums] :
              /\ sum[0] = 0 /\ \A i \in 1 .. LLook : sum[i] = (Mult * sum[i - 1] + bytes[i]) % CksumMod
              /\ LargeCksum(bytes) = sum[LLook]
<1>1. LLook \in Nat /\ CksumMod \in Nat \ {0} /\ Mult \in Nat
  BY Sizes
<1> DEFINE step == [p \in (1 .. LLook) \X Cksums |-> (Mult * p[2] + bytes[p[1]]) % CksumMod]
           Sums(g) == g = [i \in 0 .. LLook |-> IF i = 0 THEN 0 ELSE (Mult * g[i - 1] + bytes[i]) % CksumMod]
<1>2. ASSUME NEW c \in Cksums, NEW i \in 1 .. LLook
      PROVE  (Mult * c + bytes[i]) % CksumMod \in Cksums
  <2>1. Mult * c + bytes[i] \in Nat
    BY <1>1 DEF Cksums
  <2>2. QED
    BY <1>1, <2>1, Division DEF Cksums
<1>3. 0 \in Cksums
  BY <1>1 DEF Cksums
<1>4. step \in [(1 .. LLook) \X Cksums -> Cksums]
  BY <1>2
<1>5. PICK f : Recursive(LLook, Cksums, 0, step, f)
  <2> HIDE DEF step
  <2> QED BY <1>1, <1>3, <1>4, Recursion
<1>6. Sums(f)
  <2>1. ASSUME NEW i \in 0 .. LLook
        PROVE  f[i] = IF i = 0 THEN 0 ELSE (Mult * f[i - 1] + bytes[i]) % CksumMod
    <3>1. CASE i = 0
      BY <1>5, <3>1 DEF Recursive
    <3>2. CASE i # 0
      <4>1. i \in 1 .. LLook /\ i - 1 \in 0 .. LLook
        BY <1>1, <3>2
      <4>2. f[i - 1] \in Cksums
        BY <1>5, <4>1 DEF Recursive
      <4>3. step[<<i, f[i - 1]>>] = (Mult * f[i - 1] + bytes[i]) % CksumMod
        BY <4>1, <4>2
      <4>4. QED
        BY <1>5, <3>2, <4>1, <4>3 DEF Recursive
    <3>3. QED
      BY <3>1, <3>2
  <2>2. f = [i \in 0 .. LLook |-> f[i]]
    BY <1>5 DEF Recursive
  <2>3. QED
    BY <2>1, <2>2, Zenon
<1> DEFINE g == CHOOSE g : Sums(g)
<1>7. Sums(g)
  BY <1>6
<1>8. LargeCksum(bytes) = g[LLook]
  BY DEF LargeCksum
<1> HIDE DEF g
<1>9. g[0] \in Cksums /\ \A i \in 1 .. LLook : g[i - 1] \in Cksums => g[i] \in Cksums
  <2>1. 0 \in 0 .. LLook
    BY <1>1
  <2>2. g[0] = 0
    BY <1>7, <2>1
  <2>3. ASSUME NEW i \in 1 .. LLook, g[i - 1] \in Cksums PROVE g[i] \in Cksums
    <3>1. i \in 0 .. LLook /\ i # 0
      BY <1>1
    <3>2. g[i] = (Mult * g[i - 1] + bytes[i]) % CksumMod
      BY <1>7, <3>1
    <3>3. QED
      BY <1>2, <2>3, <3>2
  <2>4. QED
    BY <1>3, <2>2, <2>3
<1>10. \A i \in 0 .. LLook : g[i] \in Cksums
  BY <1>1, <1>9, AllAlong
<1>11. g[0] = 0 /\ \A i \in 1 .. LLook : g[i] = (Mult * g[i - 1] + bytes[i]) % CksumMod
  <2>1. 0 \in 0 .. LLook
    BY <1>1
  <2>2. g[0] = 0
    BY <1>7, <2>1
  <2>3. ASSUME NEW i \in 1 .. LLook PROVE g[i] = (Mult * g[i - 1] + bytes[i]) % CksumMod
    <3>1. i \in 0 .. LLook /\ i # 0
      BY <1>1
    <3>2. QED
      BY <1>7, <3>1
  <2>4. QED
    BY <2>2, <2>3
<1>12. g \in [0 .. LLook -> Cksums]
  <2>1. g = [i \in 0 .. LLook |-> g[i]]
    BY <1>7, Zenon
  <2>2. QED
    BY <1>10, <2>1
<1>13. LargeCksum(bytes) \in Cksums
  BY <1>1, <1>8, <1>10
<1>14. QED
  BY <1>8, <1>11, <1>12, <1>13, Zenon

LEMMA MultiplierFacts ==
  /\ Multiplier \in Nat
  /\ \E powers \in [0 .. LLook -> Nat] :
       /\ powers[0] = 1 /\ \A i \in 1 .. LLook : powers[i] = (powers[i - 1] * Mult) % CksumMod
       /\ Multiplier = powers[LLook]
<1>1. LLook \in Nat /\ SLook \in Nat /\ CksumMod \in Nat \ {0} /\ Mult \in Nat
  BY Sizes
<1> DEFINE step == [p \in (1 .. LLook) \X Nat |-> (p[2] * Mult) % CksumMod]
           Values(g) == g = [i \in 0 .. LLook |-> IF i = 0 THEN 1 ELSE (g[i - 1] * Mult) % CksumMod]
<1>2. ASSUME NEW c \in Nat, NEW i \in 1 .. LLook
      PROVE  (c * Mult) % CksumMod \in Nat
  <2>1. c * Mult \in Nat
    BY <1>1
  <2>2. QED
    BY <1>1, <2>1, Division
<1>3. 1 \in Nat
  BY <1>1 DEF Cksums, Runs
<1>4. step \in [(1 .. LLook) \X Nat -> Nat]
  BY <1>2
<1>5. PICK f : Recursive(LLook, Nat, 1, step, f)
  <2> HIDE DEF step
  <2> QED BY <1>1, <1>3, <1>4, Recursion
<1>6. Values(f)
  <2>1. ASSUME NEW i \in 0 .. LLook
        PROVE  f[i] = IF i = 0 THEN 1 ELSE (f[i - 1] * Mult) % CksumMod
    <3>1. CASE i = 0
      BY <1>5, <3>1 DEF Recursive
    <3>2. CASE i # 0
      <4>1. i \in 1 .. LLook /\ i - 1 \in 0 .. LLook
        BY <1>1, <3>2
      <4>2. f[i - 1] \in Nat
        BY <1>5, <4>1 DEF Recursive
      <4>3. step[<<i, f[i - 1]>>] = (f[i - 1] * Mult) % CksumMod
        BY <4>1, <4>2
      <4>4. QED
        BY <1>5, <3>2, <4>1, <4>3 DEF Recursive
    <3>3. QED
      BY <3>1, <3>2
  <2>2. f = [i \in 0 .. LLook |-> f[i]]
    BY <1>5 DEF Recursive
  <2>3. QED
    BY <2>1, <2>2, Zenon
<1> DEFINE g == CHOOSE g : Values(g)
<1>7. Values(g)
  BY <1>6
<1>8. Multiplier = g[LLook]
  BY DEF Multiplier
<1> HIDE DEF g
<1>9. g[0] \in Nat /\ \A i \in 1 .. LLook : g[i - 1] \in Nat => g[i] \in Nat
  <2>1. 0 \in 0 .. LLook
    BY <1>1
  <2>2. g[0] = 1
    BY <1>7, <2>1
  <2>3. ASSUME NEW i \in 1 .. LLook, g[i - 1] \in Nat PROVE g[i] \in Nat
    <3>1. i \in 0 .. LLook /\ i # 0
      BY <1>1
    <3>2. g[i] = (g[i - 1] * Mult) % CksumMod
      BY <1>7, <3>1
    <3>3. QED
      BY <1>2, <2>3, <3>2
  <2>4. QED
    BY <1>3, <2>2, <2>3
<1>10. \A i \in 0 .. LLook : g[i] \in Nat
  BY <1>1, <1>9, AllAlong
<1>11. g[0] = 1 /\ \A i \in 1 .. LLook : g[i] = (g[i - 1] * Mult) % CksumMod
  <2>1. 0 \in 0 .. LLook
    BY <1>1
  <2>2. g[0] = 1
    BY <1>7, <2>1
  <2>3. ASSUME NEW i \in 1 .. LLook PROVE g[i] = (g[i - 1] * Mult) % CksumMod
    <3>1. i \in 0 .. LLook /\ i # 0
      BY <1>1
    <3>2. QED
      BY <1>7, <3>1
  <2>4. QED
    BY <2>2, <2>3
<1>12. g \in [0 .. LLook -> Nat]
  <2>1. g = [i \in 0 .. LLook |-> g[i]]
    BY <1>7, Zenon
  <2>2. QED
    BY <1>10, <2>1
<1>13. Multiplier \in Nat
  BY <1>1, <1>8, <1>10
<1>14. QED
  BY <1>8, <1>11, <1>12, <1>13, Zenon

LEMMA NextRunType ==
  ASSUME NEW run \in Runs, NEW byte \in Nat
  PROVE  NextRun(run, byte) \in Runs
<1>1. PICK l \in Nat, c \in Nat, k \in 0 .. CksumMod - 1 : run = [l |-> l, c |-> c, lcksum |-> k]
  BY DEF Runs
<1>2. [run EXCEPT !.l = run.l + 1] = [l |-> l + 1, c |-> c, lcksum |-> k]
  BY <1>1
<1>3. [run EXCEPT !.c = byte, !.l = 1] = [l |-> 1, c |-> byte, lcksum |-> k]
  <2> DEFINE r == [run EXCEPT !.c = byte]
  <2>1. r = [l |-> l, c |-> byte, lcksum |-> k]
    BY <1>1
  <2> HIDE DEF r
  <2>2. [r EXCEPT !.l = 1] = [l |-> 1, c |-> byte, lcksum |-> k]
    BY <2>1
  <2>3. QED
    BY <2>2 DEF r
<1>4. QED
  BY <1>2, <1>3 DEF NextRun, Runs

LEMMA ComprunFacts ==
  ASSUME NEW p \in Nat, \A i \in 1 .. SLook : T[p + i] \in Nat, loop \in Runs
  PROVE  /\ Comprun(p) \in Runs
         /\ \E run \in [0 .. SLook -> Runs] :
              /\ run[0] = [l |-> 0, c |-> 0, lcksum |-> loop.lcksum]
              /\ \A i \in 1 .. SLook : run[i] = NextRun(run[i - 1], T[p + i])
              /\ Comprun(p) = run[SLook]
<1>1. LLook \in Nat /\ SLook \in Nat /\ CksumMod \in Nat \ {0} /\ Mult \in Nat
  BY Sizes
<1> DEFINE step == [q \in (1 .. SLook) \X Runs |-> NextRun(q[2], T[p + q[1]])]
           Values(g) == g = [i \in 0 .. SLook |->
                               IF i = 0 THEN [l |-> 0, c |-> 0, lcksum |-> loop.lcksum]
                               ELSE NextRun(g[i - 1], T[p + i])]
<1>2. ASSUME NEW c \in Runs, NEW i \in 1 .. SLook
      PROVE  NextRun(c, T[p + i]) \in Runs
  <2>1. T[p + i] \in Nat
    OBVIOUS
  <2>2. QED
    BY <2>1, NextRunType
<1>3. [l |-> 0, c |-> 0, lcksum |-> loop.lcksum] \in Runs
  BY <1>1 DEF Cksums, Runs
<1>4. step \in [(1 .. SLook) \X Runs -> Runs]
  BY <1>2
<1>5. PICK f : Recursive(SLook, Runs, [l |-> 0, c |-> 0, lcksum |-> loop.lcksum], step, f)
  <2> HIDE DEF step
  <2> QED BY <1>1, <1>3, <1>4, Recursion
<1>6. Values(f)
  <2>1. ASSUME NEW i \in 0 .. SLook
        PROVE  f[i] = IF i = 0 THEN [l |-> 0, c |-> 0, lcksum |-> loop.lcksum] ELSE NextRun(f[i - 1], T[p + i])
    <3>1. CASE i = 0
      BY <1>5, <3>1 DEF Recursive
    <3>2. CASE i # 0
      <4>1. i \in 1 .. SLook /\ i - 1 \in 0 .. SLook
        BY <1>1, <3>2
      <4>2. f[i - 1] \in Runs
        BY <1>5, <4>1 DEF Recursive
      <4>3. step[<<i, f[i - 1]>>] = NextRun(f[i - 1], T[p + i])
        BY <4>1, <4>2
      <4>4. QED
        BY <1>5, <3>2, <4>1, <4>3 DEF Recursive
    <3>3. QED
      BY <3>1, <3>2
  <2>2. f = [i \in 0 .. SLook |-> f[i]]
    BY <1>5 DEF Recursive
  <2>3. QED
    BY <2>1, <2>2, Zenon
<1> DEFINE g == CHOOSE g : Values(g)
<1>7. Values(g)
  BY <1>6
<1>8. Comprun(p) = g[SLook]
  BY DEF Comprun
<1> HIDE DEF g
<1>9. g[0] \in Runs /\ \A i \in 1 .. SLook : g[i - 1] \in Runs => g[i] \in Runs
  <2>1. 0 \in 0 .. SLook
    BY <1>1
  <2>2. g[0] = [l |-> 0, c |-> 0, lcksum |-> loop.lcksum]
    BY <1>7, <2>1
  <2>3. ASSUME NEW i \in 1 .. SLook, g[i - 1] \in Runs PROVE g[i] \in Runs
    <3>1. i \in 0 .. SLook /\ i # 0
      BY <1>1
    <3>2. g[i] = NextRun(g[i - 1], T[p + i])
      BY <1>7, <3>1
    <3>3. QED
      BY <1>2, <2>3, <3>2
  <2>4. QED
    BY <1>3, <2>2, <2>3
<1>10. \A i \in 0 .. SLook : g[i] \in Runs
  BY <1>1, <1>9, AllAlong
<1>11. g[0] = [l |-> 0, c |-> 0, lcksum |-> loop.lcksum] /\ \A i \in 1 .. SLook : g[i] = NextRun(g[i - 1], T[p + i])
  <2>1. 0 \in 0 .. SLook
    BY <1>1
  <2>2. g[0] = [l |-> 0, c |-> 0, lcksum |-> loop.lcksum]
    BY <1>7, <2>1
  <2>3. ASSUME NEW i \in 1 .. SLook PROVE g[i] = NextRun(g[i - 1], T[p + i])
    <3>1. i \in 0 .. SLook /\ i # 0
      BY <1>1
    <3>2. QED
      BY <1>7, <3>1
  <2>4. QED
    BY <2>2, <2>3
<1>12. g \in [0 .. SLook -> Runs]
  <2>1. g = [i \in 0 .. SLook |-> g[i]]
    BY <1>7, Zenon
  <2>2. QED
    BY <1>10, <2>1
<1>13. Comprun(p) \in Runs
  BY <1>1, <1>8, <1>10
<1>14. QED
  BY <1>8, <1>11, <1>12, <1>13, Zenon

LEMMA SmallSlotType ==
  ASSUME NEW p \in Nat, \A i \in 1 .. SLook : T[p + i] \in Nat
  PROVE  SmallSlot(p) \in 0 .. SSlots - 1
<1>1. LLook \in Nat /\ SLook \in Nat /\ CksumMod \in Nat \ {0} /\ Mult \in Nat
  BY Sizes
<1> DEFINE step == [q \in (1 .. SLook) \X Cksums |-> (Mult * q[2] + T[p + q[1]]) % CksumMod]
           Values(g) == g = [i \in 0 .. SLook |-> IF i = 0 THEN 0 ELSE (Mult * g[i - 1] + T[p + i]) % CksumMod]
<1>2. ASSUME NEW c \in Cksums, NEW i \in 1 .. SLook
      PROVE  (Mult * c + T[p + i]) % CksumMod \in Cksums
  <2>1. Mult * c + T[p + i] \in Nat
    BY <1>1 DEF Cksums
  <2>2. QED
    BY <1>1, <2>1, Division DEF Cksums
<1>3. 0 \in Cksums
  BY <1>1 DEF Cksums, Runs
<1>4. step \in [(1 .. SLook) \X Cksums -> Cksums]
  BY <1>2
<1>5. PICK f : Recursive(SLook, Cksums, 0, step, f)
  <2> HIDE DEF step
  <2> QED BY <1>1, <1>3, <1>4, Recursion
<1>6. Values(f)
  <2>1. ASSUME NEW i \in 0 .. SLook
        PROVE  f[i] = IF i = 0 THEN 0 ELSE (Mult * f[i - 1] + T[p + i]) % CksumMod
    <3>1. CASE i = 0
      BY <1>5, <3>1 DEF Recursive
    <3>2. CASE i # 0
      <4>1. i \in 1 .. SLook /\ i - 1 \in 0 .. SLook
        BY <1>1, <3>2
      <4>2. f[i - 1] \in Cksums
        BY <1>5, <4>1 DEF Recursive
      <4>3. step[<<i, f[i - 1]>>] = (Mult * f[i - 1] + T[p + i]) % CksumMod
        BY <4>1, <4>2
      <4>4. QED
        BY <1>5, <3>2, <4>1, <4>3 DEF Recursive
    <3>3. QED
      BY <3>1, <3>2
  <2>2. f = [i \in 0 .. SLook |-> f[i]]
    BY <1>5 DEF Recursive
  <2>3. QED
    BY <2>1, <2>2, Zenon
<1> DEFINE g == CHOOSE g : Values(g)
<1>7. Values(g)
  BY <1>6
<1>8. SmallSlot(p) = Slot(SSlots, g[SLook])
  BY DEF SmallSlot
<1> HIDE DEF g
<1>9. g[0] \in Cksums /\ \A i \in 1 .. SLook : g[i - 1] \in Cksums => g[i] \in Cksums
  <2>1. 0 \in 0 .. SLook
    BY <1>1
  <2>2. g[0] = 0
    BY <1>7, <2>1
  <2>3. ASSUME NEW i \in 1 .. SLook, g[i - 1] \in Cksums PROVE g[i] \in Cksums
    <3>1. i \in 0 .. SLook /\ i # 0
      BY <1>1
    <3>2. g[i] = (Mult * g[i - 1] + T[p + i]) % CksumMod
      BY <1>7, <3>1
    <3>3. QED
      BY <1>2, <2>3, <3>2
  <2>4. QED
    BY <1>3, <2>2, <2>3
<1>10. g[SLook] \in Cksums
  <2>1. \A i \in 0 .. SLook : g[i] \in Cksums
    BY <1>1, <1>9, AllAlong
  <2>2. QED
    BY <1>1, <2>1
<1>11. QED
  BY <1>8, <1>10, SrcAssumption DEF Cksums

\* The numbers of a state.
LEMMA StateNumbers ==
  ASSUME TypeInv
  PROVE  /\ AvailIn \in Nat /\ input_position \in Nat /\ unencoded_offset \in Nat /\ min_match \in Nat
         /\ cksum_pos \in Nat /\ maxsrcaddr \in Nat /\ want \in Nat /\ total_in \in Nat
         /\ next_move_point \in Nat /\ Len(S) \in Nat /\ Blk \in Nat \ {0} /\ enc \in Encodings
<1>1. AvailIn \in Nat
  BY TargetFacts
<1>2. enc \in Encodings
  BY DEF TypeInv
<1>3. Len(S) \in Nat /\ Blk \in Nat \ {0}
  BY <1>2, EncodingFacts
<1>4. QED
  BY <1>1, <1>2, <1>3 DEF TypeInv

-----------------------------------------------------------------------------
(* What the comparisons find. *)

\* xd3_smatch compares up to the first byte that differs, or the end.
LEMMA AlikeFacts ==
  ASSUME TypeInv, input_position <= AvailIn, NEW a
  PROVE  /\ Alike(a) \in Nat /\ input_position + Alike(a) <= AvailIn
         /\ \A i \in 1 .. Alike(a) : T[a + i] = T[input_position + i]
<1> DEFINE rest   == AvailIn - input_position
           differ == {i \in 1 .. rest : T[a + i] # T[input_position + i]}
<1>1. AvailIn \in Nat /\ input_position \in Nat /\ rest \in Nat
  <2>1. AvailIn \in Nat /\ input_position \in Nat
    BY StateNumbers
  <2>2. QED
    BY <2>1
<1>2. CASE differ = {}
  <2>1. Alike(a) = rest
    BY <1>2 DEF Alike
  <2>2. \A i \in 1 .. rest : T[a + i] = T[input_position + i]
    BY <1>2
  <2>3. QED
    BY <1>1, <2>1, <2>2
<1>3. CASE differ # {}
  <2>1. differ \subseteq Nat
    BY <1>1
  <2>2. \E i \in differ : \A j \in differ : i <= j
    <3> HIDE DEF differ
    <3> QED BY <1>3, <2>1, LeastNat
  <2> DEFINE m == CHOOSE i \in differ : \A j \in differ : i <= j
  <2>3. m \in differ /\ \A j \in differ : m <= j
    BY <2>2
  <2>4. Alike(a) = m - 1
    BY <1>3 DEF Alike
  <2> HIDE DEF m
  <2>5. m \in 1 .. rest
    BY <2>3
  <2>6. ASSUME NEW i \in 1 .. m - 1 PROVE T[a + i] = T[input_position + i]
    <3>1. i \in 1 .. rest /\ ~(m <= i)
      BY <1>1, <2>5
    <3>2. QED
      BY <2>3, <3>1
  <2>7. QED
    BY <1>1, <2>4, <2>5, <2>6
<1>4. QED
  BY <1>2, <1>3

\* xd3_string_match expands a run up to the first other byte, or the end.
LEMMA RunLengthFacts ==
  ASSUME TypeInv, input_position + SLook <= AvailIn
  PROVE  RunLength \in Nat /\ SLook <= RunLength /\ input_position + RunLength <= AvailIn
<1> DEFINE max == AvailIn - input_position
           Is(n) == /\ \A i \in SLook + 1 .. n : T[input_position + i] = loop.c
                    /\ n = max \/ T[input_position + n + 1] # loop.c
           Other == {i \in Nat : T[input_position + SLook + i] # loop.c}
<1>1. AvailIn \in Nat /\ input_position \in Nat /\ SLook \in Nat /\ max \in Nat /\ max - SLook \in Nat
  <2>1. AvailIn \in Nat /\ input_position \in Nat /\ SLook \in Nat
    BY StateNumbers, Sizes
  <2>2. QED
    BY <2>1
<1>2. PICK n \in 0 .. max - SLook :
        (\A i \in 1 .. n : i \notin Other) /\ (n < max - SLook => n + 1 \in Other)
  <2> HIDE DEF Other
  <2> QED BY <1>1, LongestPrefix
<1>3. SLook + n \in SLook .. max
  BY <1>1
<1>4. Is(SLook + n)
  <2>1. ASSUME NEW i \in SLook + 1 .. SLook + n PROVE T[input_position + i] = loop.c
    <3>1. i - SLook \in 1 .. n /\ i - SLook \in Nat /\ input_position + SLook + (i - SLook) = input_position + i
      BY <1>1
    <3>2. QED
      BY <1>2, <3>1
  <2>2. CASE n < max - SLook
    <3>1. input_position + SLook + (n + 1) = input_position + (SLook + n) + 1
      BY <1>1
    <3>2. T[input_position + SLook + (n + 1)] # loop.c
      BY <1>2, <2>2
    <3>3. QED
      BY <2>1, <3>1, <3>2
  <2>3. CASE ~(n < max - SLook)
    BY <1>1, <1>3, <2>1, <2>3
  <2>4. QED
    BY <2>2, <2>3
<1>5. RunLength = CHOOSE k \in SLook .. max : Is(k)
  BY DEF RunLength
<1> HIDE DEF Is
<1>6. RunLength \in SLook .. max
  BY <1>3, <1>4, <1>5
<1>7. QED
  BY <1>1, <1>6

\* xd3_source_extend_match backwards: the bytes it passes over are alike.
LEMMA MatchedBackFacts ==
  ASSUME NEW limit \in Nat
  PROVE  /\ MatchedBack(limit) \in 0 .. limit
         /\ \A i \in 0 .. MatchedBack(limit) - 1 : S[BackOff - i] = T[input_position - match.back - i]
<1> DEFINE Is(n) == /\ \A i \in 0 .. n - 1 : S[BackOff - i] = T[input_position - match.back - i]
                    /\ n < limit => S[BackOff - n] # T[input_position - match.back - n]
           Other == {i \in Nat : S[BackOff - (i - 1)] # T[input_position - match.back - (i - 1)]}
<1>1. PICK n \in 0 .. limit : (\A i \in 1 .. n : i \notin Other) /\ (n < limit => n + 1 \in Other)
  <2> HIDE DEF Other
  <2> QED BY LongestPrefix
<1>2. Is(n)
  <2>1. ASSUME NEW i \in 0 .. n - 1 PROVE S[BackOff - i] = T[input_position - match.back - i]
    <3>1. i + 1 \in 1 .. n /\ i + 1 \in Nat /\ (i + 1) - 1 = i
      OBVIOUS
    <3>2. QED
      BY <1>1, <3>1
  <2>2. n < limit => S[BackOff - n] # T[input_position - match.back - n]
    <3>1. n + 1 \in Nat /\ (n + 1) - 1 = n
      OBVIOUS
    <3>2. QED
      BY <1>1, <3>1
  <2>3. QED
    BY <2>1, <2>2
<1>3. MatchedBack(limit) = CHOOSE k \in 0 .. limit : Is(k)
  BY DEF MatchedBack
<1>4. MatchedBack(limit) \in 0 .. limit /\ Is(MatchedBack(limit))
  <2> HIDE DEF Is
  <2> QED BY <1>2, <1>3
<1>5. QED
  BY <1>4

\* xd3_forward_match: the bytes it passes over are alike.
LEMMA MatchedFwdFacts ==
  ASSUME NEW limit \in Nat, FwdOff \in Nat, input_position \in Nat, match.fwd \in Nat
  PROVE  /\ MatchedFwd(limit) \in 0 .. limit
         /\ \A i \in 1 .. MatchedFwd(limit) : S[FwdOff + i] = T[input_position + match.fwd + i]
<1> DEFINE Is(n) == /\ \A i \in 1 .. n : S[FwdOff + i] = T[input_position + match.fwd + i]
                    /\ n < limit => S[FwdOff + n + 1] # T[input_position + match.fwd + n + 1]
           Other == {i \in Nat : S[FwdOff + i] # T[input_position + match.fwd + i]}
<1>1. PICK n \in 0 .. limit : (\A i \in 1 .. n : i \notin Other) /\ (n < limit => n + 1 \in Other)
  <2> HIDE DEF Other
  <2> QED BY LongestPrefix
<1>2. Is(n)
  <2>1. ASSUME NEW i \in 1 .. n PROVE S[FwdOff + i] = T[input_position + match.fwd + i]
    BY <1>1, <2>1
  <2>2. n < limit => S[FwdOff + n + 1] # T[input_position + match.fwd + n + 1]
    <3>1. /\ FwdOff + (n + 1) = FwdOff + n + 1
          /\ input_position + match.fwd + (n + 1) = input_position + match.fwd + n + 1
      <4> HIDE DEF Other
      <4> QED BY DEF FwdOff
    <3>2. n + 1 \in Other => S[FwdOff + (n + 1)] # T[input_position + match.fwd + (n + 1)]
      OBVIOUS
    <3>3. QED
      BY <1>1, <3>1, <3>2
  <2>3. QED
    BY <2>1, <2>2
<1>3. MatchedFwd(limit) = CHOOSE k \in 0 .. limit : Is(k)
  BY DEF MatchedFwd
<1>4. MatchedFwd(limit) \in 0 .. limit /\ Is(MatchedFwd(limit))
  <2> HIDE DEF Is
  <2> QED BY <1>2, <1>3
<1>5. QED
  BY <1>4

-----------------------------------------------------------------------------
(* Blocks. *)

\* xd3_source_eof is not before the end, once it is known.
LEMMA EofFacts ==
  ASSUME TypeInv, BlocksInv
  PROVE  /\ Eof \in Nat
         /\ src.eof_known => Len(S) <= Eof /\ Seen(Eof)
         /\ src.eof_known /\ EndIsKnown => Eof = Len(S)
         /\ src.eof_known /\ ~EndIsKnown => EndIsBlock /\ Eof = Blk
<1>1. PICK k \in Nat \ {0} : k = Blk
  BY StateNumbers
<1>2. PICK n \in Nat : n = Len(S)
  BY StateNumbers
<1>3. PICK m \in Nat, o \in Nat : m = src.max_blkno /\ o = src.onlastblk
  BY DEF TypeInv
<1>4. m * k \in Nat /\ (m + 1) * k = m * k + k /\ 1 * k = k /\ (1 + 1) * k = k + k
  BY BlockStarts
<1>5. Eof = m * k + o
  BY <1>1, <1>3 DEF Eof
<1>6. ASSUME src.eof_known, EndIsKnown PROVE Eof = n /\ Eof <= (m + 1) * k
  <2>1. m = n \div k /\ o = n % k
    BY <1>1, <1>2, <1>3, <1>6 DEF EndIsKnown
  <2>2. o \in 0 .. k - 1 /\ n = m * k + o
    BY <2>1, Division
  <2>3. QED
    BY <1>4, <1>5, <2>2
<1>7. ASSUME src.eof_known, ~EndIsKnown PROVE EndIsBlock /\ Eof = k /\ n <= k /\ Eof <= (m + 1) * k
  <2>1. EndIsBlock
    BY <1>7 DEF BlocksInv
  <2>2. n < k /\ m = 1 /\ o = 0
    BY <1>1, <1>2, <1>3, <2>1 DEF EndIsBlock
  <2>3. QED
    BY <1>4, <1>5, <2>1, <2>2
<1>8. Eof \in Nat
  BY <1>4, <1>5
<1>9. Seen(Eof) <=> Eof <= (m + 1) * k
  BY <1>1, <1>3 DEF Seen
<1>10. src.eof_known => Len(S) <= Eof /\ Seen(Eof)
  BY <1>2, <1>4, <1>6, <1>7, <1>8, <1>9
<1>11. QED
  BY <1>1, <1>2, <1>6, <1>7, <1>8, <1>10

\* What xd3_getblk does to what is known of the size, for a block that is not
\* beyond the one after the last that was seen, nor beyond a known end.
MayGet(b) == b <= src.max_blkno + 1 /\ (src.eof_known => b <= src.max_blkno)
GotBlock(b) ==
  /\ BlocksInv'
  /\ src' \in [cur : Int, highest : Nat, max_blkno : Nat, onlastblk : Nat, eof_known : BOOLEAN]
  /\ src.max_blkno <= src'.max_blkno /\ b <= src'.max_blkno
  /\ src.eof_known => src'.eof_known /\ src'.max_blkno = src.max_blkno /\ src'.onlastblk = src.onlastblk
  /\ ~src.eof_known /\ src'.eof_known => src'.max_blkno = src.max_blkno + 1
  /\ ~src.eof_known /\ src'.eof_known /\ EndIsBlock' => b = 1
  /\ b = src'.max_blkno => src'.onlastblk = OnBlock(b)

LEMMA OnBlockFacts ==
  ASSUME enc \in Encodings, NEW b \in Nat
  PROVE  /\ OnBlock(b) \in 0 .. Blk
         /\ b * Blk <= Len(S) => b * Blk + OnBlock(b) <= Len(S)
         /\ OnBlock(b) # Blk => IF b * Blk <= Len(S) THEN Len(S) = b * Blk + OnBlock(b)
                                ELSE OnBlock(b) = 0
         /\ OnBlock(b) = Blk => b * Blk + Blk <= Len(S)
         /\ \A i \in Nat : b * Blk + i <= Len(S) /\ i <= Blk => i <= OnBlock(b)
<1>1. PICK k \in Nat \ {0} : k = Blk
  BY EncodingFacts
<1>2. PICK n \in Nat : n = Len(S)
  BY EncodingFacts
<1>3. PICK p \in Nat : p = b * k
  OBVIOUS
<1>4. b * Blk = p
  BY <1>1, <1>3
<1>5. OnBlock(b) = IF k < (IF 0 < n - p THEN n - p ELSE 0) THEN k ELSE IF 0 < n - p THEN n - p ELSE 0
  BY <1>1, <1>2, <1>4 DEF OnBlock, Smaller, Larger
<1>6. PICK o : o = OnBlock(b)
  OBVIOUS
<1>7. /\ o \in 0 .. k
      /\ p <= n => p + o <= n
      /\ o # k => IF p <= n THEN n = p + o ELSE o = 0
      /\ o = k => p + k <= n
      /\ \A i \in Nat : p + i <= n /\ i <= k => i <= o
  BY <1>5, <1>6
<1>8. QED
  BY <1>1, <1>2, <1>4, <1>6, <1>7, Zenon

LEMMA GetblkFacts ==
  ASSUME TypeInv, BlocksInv, NEW b \in Nat, MayGet(b), src' = Getblk(b), enc' = enc
  PROVE  GotBlock(b)
<1>1. PICK k \in Nat \ {0} : k = Blk
  BY StateNumbers
<1>2. PICK n \in Nat : n = Len(S)
  BY StateNumbers
<1>3. PICK m \in Nat, o \in Nat : m = src.max_blkno /\ o = src.onlastblk
  BY DEF TypeInv
<1>4. S' = S /\ Blk' = k /\ Len(S)' = n
  BY <1>1, <1>2 DEF S, Blk
<1>5. b <= m + 1 /\ (src.eof_known => b <= m) /\ src.eof_known \in BOOLEAN /\ src.highest \in Nat
  BY <1>3 DEF MayGet, TypeInv
<1>6. PICK on \in 0 .. k : on = OnBlock(b)
  BY <1>1, OnBlockFacts, StateNumbers
<1>7. /\ on # k => IF b * k <= n THEN n = b * k + on ELSE on = 0
      /\ on = k => b * k + k <= n
  BY <1>1, <1>2, <1>6, OnBlockFacts, StateNumbers
<1>8. /\ src'.cur = b /\ src'.highest = Larger(b, src.highest)
      /\ src'.max_blkno = IF b <= m THEN m ELSE b
      /\ src'.onlastblk = IF m <= b THEN on ELSE o
      /\ src'.eof_known = (src.eof_known \/ (b > m /\ on # k))
      /\ src' \in [cur : Int, highest : Nat, max_blkno : Nat, onlastblk : Nat, eof_known : BOOLEAN]
  BY <1>1, <1>3, <1>5, <1>6 DEF Getblk, Larger
<1>9. /\ m * k \in Nat /\ b * k \in Nat /\ (m + 1) * k = m * k + k /\ 1 * k = k /\ (b + 1) * k = b * k + k
  BY BlockStarts
<1>10. ASSUME src.eof_known
       PROVE  src'.max_blkno = m /\ src'.onlastblk = o /\ src'.eof_known /\ BlocksInv'
  <2>1. src'.max_blkno = m /\ src'.eof_known
    BY <1>5, <1>8, <1>10
  <2>2. CASE EndIsKnown
    <3>1. m = n \div k /\ o = n % k
      BY <1>1, <1>2, <1>3, <2>2 DEF EndIsKnown
    <3>2. o \in 0 .. k - 1 /\ n = m * k + o
      BY <3>1, Division
    <3>3. b = m => on = o
      BY <1>6, <1>7, <1>9, <3>2
    <3>4. src'.onlastblk = o
      BY <1>5, <1>8, <1>10, <3>3
    <3>5. EndIsKnown'
      BY <1>4, <2>1, <3>1, <3>4 DEF EndIsKnown
    <3>6. QED
      BY <2>1, <3>4, <3>5 DEF BlocksInv
  <2>3. CASE ~EndIsKnown
    <3>1. n < k /\ m = 1 /\ o = 0
      BY <1>1, <1>2, <1>3, <1>10, <2>3 DEF BlocksInv, EndIsBlock
    <3>2. b = 1 => on = o
      BY <1>6, <1>7, <1>9, <3>1
    <3>3. src'.onlastblk = o
      BY <1>5, <1>8, <1>10, <3>1, <3>2
    <3>4. EndIsBlock'
      BY <1>4, <2>1, <3>1, <3>3 DEF EndIsBlock
    <3>5. QED
      BY <2>1, <3>3, <3>4 DEF BlocksInv
  <2>4. QED
    BY <2>2, <2>3
<1>11. ASSUME ~src.eof_known, m < b
       PROVE  /\ BlocksInv' /\ src'.max_blkno = m + 1
              /\ EndIsBlock' => b = 1
  <2>1. b = m + 1 /\ src'.max_blkno = m + 1 /\ src'.onlastblk = on /\ src'.eof_known = (on # k)
    BY <1>5, <1>8, <1>11
  <2>2. m > 0 => b * k <= n
    BY <1>1, <1>2, <1>3, <1>11, <2>1 DEF BlocksInv
  <2>3. ASSUME on = k PROVE BlocksInv'
    <3>1. (b + 1) * k <= n
      BY <1>7, <1>9, <2>3
    <3>2. (src'.max_blkno + 1) * Blk' = (b + 1) * k
      BY <1>4, <2>1
    <3>3. QED
      BY <1>4, <2>1, <2>3, <3>1, <3>2 DEF BlocksInv
  <2>4. ASSUME on # k, b * k <= n PROVE BlocksInv'
    <3>1. n = b * k + on /\ on \in 0 .. k - 1
      BY <1>6, <1>7, <2>4
    <3>2. n \div k = b /\ n % k = on
      BY <3>1, DivisionIs
    <3>3. EndIsKnown'
      BY <1>4, <2>1, <3>2 DEF EndIsKnown
    <3>4. QED
      BY <2>1, <2>4, <3>3 DEF BlocksInv
  <2>5. ASSUME on # k, ~(b * k <= n) PROVE BlocksInv'
    <3>1. on = 0 /\ m = 0 /\ b = 1
      BY <1>7, <2>1, <2>2, <2>5
    <3>2. n < k
      BY <1>9, <2>5, <3>1
    <3>3. EndIsBlock'
      BY <1>4, <2>1, <3>1, <3>2 DEF EndIsBlock
    <3>4. QED
      BY <2>1, <2>5, <3>3 DEF BlocksInv
  <2>6. EndIsBlock' => b = 1
    BY <2>1 DEF EndIsBlock
  <2>7. QED
    BY <2>1, <2>3, <2>4, <2>5, <2>6
<1>12. ASSUME ~src.eof_known, ~(m < b)
       PROVE  BlocksInv' /\ src'.max_blkno = m /\ ~src'.eof_known
  <2>1. src'.max_blkno = m /\ ~src'.eof_known
    BY <1>5, <1>8, <1>12
  <2>2. m > 0 => (m + 1) * k <= n
    BY <1>1, <1>2, <1>3, <1>12 DEF BlocksInv
  <2>3. (src'.max_blkno + 1) * Blk' = (m + 1) * k
    BY <1>4, <2>1
  <2>4. QED
    BY <1>4, <2>1, <2>2, <2>3 DEF BlocksInv
<1>13. BlocksInv'
  BY <1>10, <1>11, <1>12
<1>14. m <= src'.max_blkno /\ b <= src'.max_blkno /\ (b = src'.max_blkno => src'.onlastblk = on)
  BY <1>5, <1>8
<1>15. ~src.eof_known /\ src'.eof_known => src'.max_blkno = m + 1 /\ (EndIsBlock' => b = 1)
  BY <1>11, <1>12
<1>16. QED
  BY <1>3, <1>6, <1>8, <1>10, <1>13, <1>14, <1>15 DEF GotBlock

\* xd3_source_cksum_offset gives a place that is indexed, and below the modulus
\* the one that was put in.
LEMMA OffsetFacts ==
  ASSUME NEW pos \in Nat, NEW e \in Nat, e % OffMod # 0, e <= pos
  PROVE  /\ CksumOffset(pos, (e % OffMod) - 1) \in Nat
         /\ CksumOffset(pos, (e % OffMod) - 1) <= pos
         /\ pos < OffMod => CksumOffset(pos, (e % OffMod) - 1) = e - 1
<1>1. PICK k \in Nat \ {0} : k = OffMod
  BY Sizes
<1>2. PICK q \in Nat, r \in 0 .. k - 1 : q = pos \div k /\ r = pos % k /\ pos = q * k + r
  BY Division
<1>3. PICK a \in Nat, b \in 0 .. k - 1 : a = e \div k /\ b = e % k /\ e = a * k + b
  BY Division
<1>4. b \in 1 .. k - 1
  BY <1>1, <1>3
<1>5. q * k \in Nat /\ a * k \in Nat /\ 0 * k = 0 /\ (0 < q => 0 * k + k <= q * k) /\ (0 < a => 0 * k + k <= a * k)
  BY BlockStarts
<1>6. q # 0 => (q - 1) * k \in Nat /\ q * k = (q - 1) * k + k
  <2>1. ASSUME q # 0 PROVE (q - 1) * k \in Nat /\ q * k = (q - 1) * k + k
    <3>1. q - 1 \in Nat /\ (q - 1) + 1 = q
      BY <2>1
    <3>2. QED
      BY <3>1, BlockStarts
  <2>2. QED
    BY <2>1
<1>7. CksumOffset(pos, b - 1) = IF q = 0 THEN b - 1 ELSE IF b - 1 > r THEN (q - 1) * k + (b - 1)
                                ELSE q * k + (b - 1)
  BY <1>1, <1>2 DEF CksumOffset
<1>8. CksumOffset(pos, b - 1) \in Nat /\ CksumOffset(pos, b - 1) <= pos
  <2>1. CASE q = 0
    <3>1. a = 0
      BY <1>2, <1>3, <1>4, <1>5, <2>1
    <3>2. b = e
      BY <1>3, <1>5, <3>1
    <3>3. QED
      BY <1>4, <1>7, <2>1, <3>2
  <2>2. CASE q # 0 /\ b - 1 > r
    BY <1>2, <1>4, <1>6, <1>7, <2>2
  <2>3. CASE q # 0 /\ ~(b - 1 > r)
    BY <1>2, <1>4, <1>5, <1>7, <2>3
  <2>4. QED
    BY <2>1, <2>2, <2>3
<1>9. pos < k => CksumOffset(pos, b - 1) = e - 1
  <2>1. ASSUME pos < k PROVE q = 0 /\ a = 0
    BY <1>2, <1>3, <1>5, <2>1
  <2>2. ASSUME pos < k PROVE b = e
    BY <1>3, <1>5, <2>1, <2>2
  <2>3. QED
    BY <1>7, <2>1, <2>2
<1>10. QED
  BY <1>1, <1>3, <1>8, <1>9

\* A place of the source that the large table gives is one.
LEMMA LargePosFacts ==
  ASSUME TypeInv, BlocksInv, IndexInv, pc # "MOVE", LargeEntry # 0
  PROVE  LargePos \in Nat /\ InSource(LargePos) /\ LargePos <= cksum_pos
<1> DEFINE slot == Slot(LSlots, loop.lcksum)
<1>1. slot \in 0 .. LSlots - 1
  <2>1. loop.lcksum \in 0 .. CksumMod - 1
    BY DEF TypeInv, Runs
  <2>2. QED
    BY <2>1, SrcAssumption
<1>2. PICK e \in Nat : e = table[slot]
  <2> HIDE DEF slot
  <2> QED BY <1>1 DEF TypeInv
<1>3. PICK k \in Nat \ {0} : k = Blk
  BY StateNumbers
<1>4. PICK n \in Nat, pos \in Nat : n = Len(S) /\ pos = cksum_pos
  BY StateNumbers
<1>5. PICK m \in Nat : m = src.max_blkno
  BY DEF TypeInv
<1>6. LLook \in Nat \ {0} /\ OffMod \in Nat \ {0} /\ k < OffMod
  BY <1>3, Sizes, BlockFits, StateNumbers
<1>7. e % OffMod # 0 /\ LargePos = CksumOffset(pos, (e % OffMod) - 1)
  BY <1>2, <1>4 DEF LargeEntry, LargePos
<1>8. e # 0
  BY <1>6, <1>7
<1>9. e - 1 + LLook <= n /\ e - 1 + LLook <= pos
  <2> HIDE DEF slot
  <2> QED BY <1>1, <1>2, <1>4, <1>8 DEF IndexInv
<1>10. e <= pos /\ e - 1 <= n
  BY <1>6, <1>9
<1>11. PICK r \in Nat : r = LargePos /\ r <= pos /\ (pos < OffMod => r = e - 1)
  BY <1>7, <1>10, OffsetFacts
<1>12. (m + 1) * k \in Nat /\ (m = 0 => (m + 1) * k = k)
  BY BlockStarts
<1>13. pos <= (m + 1) * k
  BY <1>3, <1>4, <1>5 DEF IndexInv, Seen
<1>14. pos <= n \/ pos <= k
  <2>1. CASE src.eof_known
    <3>1. pos <= Eof
      BY <1>4, <2>1 DEF IndexInv
    <3>2. Eof = n \/ Eof = k
      BY <1>3, <1>4, <2>1, EofFacts
    <3>3. QED
      BY <3>1, <3>2
  <2>2. CASE ~src.eof_known
    <3>1. m > 0 => (m + 1) * k <= n
      BY <1>3, <1>4, <1>5, <2>2 DEF BlocksInv
    <3>2. QED
      BY <1>12, <1>13, <3>1
  <2>3. QED
    BY <2>1, <2>2
<1>15. r <= n
  BY <1>6, <1>10, <1>11, <1>14
<1>16. r <= (m + 1) * k
  BY <1>11, <1>12, <1>13
<1>17. LargePos \in Nat /\ InSource(LargePos)
  BY <1>3, <1>4, <1>5, <1>11, <1>15, <1>16 DEF InSource, Seen
<1>18. QED
  BY <1>4, <1>11, <1>17

-----------------------------------------------------------------------------
(* What leaves a part of the state as it is leaves its part of the          *)
(* invariant.                                                               *)

LEMMA SameWindow ==
  ASSUME UNCHANGED inVars
  PROVE  S' = S /\ T' = T /\ AvailIn' = AvailIn /\ Blk' = Blk /\ HasSource' = HasSource
         /\ enc' = enc /\ number' = number
<1>1. enc' = enc /\ number' = number
  BY DEF inVars
<1>2. S' = S /\ T' = T /\ Blk' = Blk /\ HasSource' = HasSource
  BY <1>1 DEF S, T, Blk, HasSource
<1>3. AvailIn' = AvailIn
  BY <1>2 DEF AvailIn
<1>4. QED
  BY <1>1, <1>2, <1>3

LEMMA SourceStays ==
  ASSUME BlocksInv, IndexInv, UNCHANGED inVars, UNCHANGED idxVars, src' = src,
         pc' # "MOVE" => pc # "MOVE"
  PROVE  BlocksInv' /\ IndexInv'
<1>1. S' = S /\ Blk' = Blk
  BY SameWindow
<1>2. cksum_pos' = cksum_pos /\ maxsrcaddr' = maxsrcaddr /\ table' = table
  BY DEF idxVars
<1>3. /\ EndIsKnown' = EndIsKnown /\ EndIsBlock' = EndIsBlock /\ Eof' = Eof
      /\ \A n : Seen(n)' = Seen(n)
  BY <1>1 DEF EndIsKnown, EndIsBlock, Eof, Seen
<1>4. BlocksInv'
  BY <1>1, <1>3 DEF BlocksInv
<1>5. IndexInv'
  BY <1>1, <1>2, <1>3 DEF IndexInv, InSource, Seen
<1>6. QED
  BY <1>4, <1>5

LEMMA GoodStays ==
  ASSUME UNCHANGED inVars, win' = win, NEW r
  PROVE  Good(r)' = Good(r)
<1>1. S' = S /\ T' = T /\ HasSource' = HasSource
  BY SameWindow
<1>2. QED
  BY <1>1 DEF Good, End, InWindow, SameBytes

LEMMA OutStays ==
  ASSUME UsedInv, WinInv, EncodedInv, UNCHANGED inVars, UNCHANGED outVars,
         pc' \notin {"START", "HEADER", "ENDED"}
  PROVE  UsedInv' /\ WinInv' /\ EncodedInv'
<1>1. S' = S /\ T' = T /\ HasSource' = HasSource
  BY SameWindow
<1>2. win' = win /\ used' = used /\ encoded' = encoded
  BY DEF outVars
<1>3. UsedInv'
  <2>1. ASSUME NEW i \in 1 .. Len(used) PROVE Good(used[i])'
    <3>1. Good(used[i])
      BY DEF UsedInv
    <3>2. used[i]' = used[i]
      BY <1>2
    <3>3. QED
      BY <1>1, <1>2, <3>1, <3>2 DEF Good, End, InWindow, SameBytes
  <2>2. QED
    BY <1>2, <2>1 DEF UsedInv
<1>4. WinInv'
  BY <1>1, <1>2 DEF WinInv
<1>5. EncodedInv'
  BY <1>1, <1>2 DEF EncodedInv, SameBytes
<1>6. QED
  BY <1>3, <1>4, <1>5

LEMMA MatchStays ==
  ASSUME MatchInv, UNCHANGED inVars, UNCHANGED posVars, match' = match, win' = win, src' = src,
         InExtension => pc' \in {"EXTEND", "WAIT"}
  PROVE  MatchInv'
<1>1. S' = S /\ T' = T /\ AvailIn' = AvailIn /\ Blk' = Blk
  BY SameWindow
<1>2. input_position' = input_position /\ unencoded_offset' = unencoded_offset
  BY DEF posVars
<1>3. \A n : InSource(n)' = InSource(n)
  BY <1>1 DEF InSource, Seen
<1>4. InExtension' = InExtension /\ MatchAlike' = MatchAlike
  BY <1>1, <1>2 DEF InExtension, MatchAlike
<1>5. /\ InSource(match.srcpos)' = InSource(match.srcpos)
      /\ InSource(match.srcpos + match.fwd)' = InSource(match.srcpos + match.fwd)
  BY <1>1 DEF InSource, Seen
<1>6. QED
  BY <1>1, <1>2, <1>4, <1>5 DEF MatchInv

\* A match that is not being extended.
LEMMA MatchRests ==
  ASSUME MatchInv, UNCHANGED inVars, ~InExtension, match' = match, src' = src
  PROVE  MatchInv'
<1>1. S' = S /\ Blk' = Blk
  BY SameWindow
<1>2. InExtension' = InExtension /\ InSource(match.srcpos)' = InSource(match.srcpos)
  BY <1>1 DEF InExtension, InSource, Seen
<1>3. QED
  BY <1>2 DEF MatchInv

-----------------------------------------------------------------------------
(* How the matcher is entered and goes on. *)

\* The end of the last instruction is a place.
LEMMA LastMatchedType ==
  ASSUME TypeInv, UsedInv
  PROVE  LastMatched \in Nat
<1>1. used \in Seq(Insts)
  BY DEF TypeInv
<1>2. Len(used) \in Nat /\ (used # <<>> => Len(used) \in 1 .. Len(used))
  BY <1>1
<1>3. used # <<>> => Good(used[Len(used)])
  BY <1>2 DEF UsedInv
<1>4. QED
  BY <1>3 DEF LastMatched, Good

\* restartloop at p.
Restarted(p) ==
  /\ input_position' = p /\ unencoded_offset' = unencoded_offset /\ next_move_point' = next_move_point
  /\ pc' \in {"INSTR", "MOVE", "RUN"}
  /\ pc' # "INSTR" => p + SLook <= AvailIn
  /\ pc' = "MOVE" => HasSource
  /\ min_match' \in Nat /\ MinMatch <= min_match'
  /\ loop' \in Runs

LEMMA RestartFacts ==
  ASSUME TypeInv, PosInv, NEW p \in Nat, NEW last \in Nat, Restart(p, last)
  PROVE  Restarted(p)
<1>1. /\ input_position' = p /\ unencoded_offset' = unencoded_offset /\ next_move_point' = next_move_point
  BY DEF Restart
<1>2. AvailIn \in Nat /\ SLook \in Nat /\ LLook \in Nat /\ MinMatch \in Nat /\ CksumMod \in Nat \ {0}
  BY StateNumbers, Sizes
<1>3. min_match \in Nat /\ MinMatch <= min_match /\ loop \in Runs
  BY DEF TypeInv, PosInv
<1>4. CASE p + SLook > AvailIn
  <2>1. pc' = "INSTR" /\ min_match' = min_match /\ loop' = loop
    BY <1>4 DEF Restart
  <2>2. QED
    BY <1>1, <1>3, <2>1 DEF Restarted
<1>5. CASE ~(p + SLook > AvailIn)
  <2>1. /\ pc' = IF LargeFits(p) THEN "MOVE" ELSE "RUN"
        /\ min_match' = IF last > p THEN Larger(MinMatch, 1 + last - p) ELSE MinMatch
        /\ loop' = IF LargeFits(p) THEN [Comprun(p) EXCEPT !.lcksum = LargeCksum(Input(p, LLook))]
                   ELSE Comprun(p)
    BY <1>5 DEF Restart
  <2>2. p + SLook <= AvailIn
    BY <1>2, <1>5
  <2>3. min_match' \in Nat /\ MinMatch <= min_match'
    BY <1>2, <2>1 DEF Larger
  <2>4. \A i \in 1 .. SLook : T[p + i] \in Nat
    <3>1. ASSUME NEW i \in 1 .. SLook PROVE T[p + i] \in Nat
      <4>1. p + i \in 1 .. AvailIn
        BY <1>2, <2>2
      <4>2. QED
        BY <4>1, TargetFacts
    <3>2. QED
      BY <3>1
  <2>5. Comprun(p) \in Runs
    BY <1>3, <2>4, ComprunFacts
  <2>6. LargeFits(p) => LargeCksum(Input(p, LLook)) \in Cksums
    <3>1. ASSUME LargeFits(p) PROVE \A i \in 1 .. LLook : Input(p, LLook)[i] \in Nat
      <4>1. p + LLook <= AvailIn
        BY <3>1 DEF LargeFits
      <4>2. ASSUME NEW i \in 1 .. LLook PROVE Input(p, LLook)[i] \in Nat
        <5>1. p + 1 \in Nat /\ p + LLook \in Nat /\ (p + LLook) - (p + 1) + 1 = LLook /\ (p + 1) + i - 1 = p + i
          BY <1>2
        <5>2. Input(p, LLook)[i] = T[p + i]
          BY <1>2, <5>1 DEF Input
        <5>3. p + i \in 1 .. AvailIn
          BY <1>2, <4>1
        <5>4. QED
          BY <5>2, <5>3, TargetFacts
      <4>3. QED
        BY <4>2
    <3>2. QED
      BY <3>1, LargeCksumFacts
  <2>7. loop' \in Runs
    <3>1. PICK run \in Runs : run = Comprun(p)
      BY <2>5
    <3>2. \A c \in Cksums : [run EXCEPT !.lcksum = c] \in Runs
      BY DEF Runs, Cksums
    <3>3. QED
      BY <2>1, <2>6, <3>1, <3>2
  <2>8. pc' \in {"MOVE", "RUN"} /\ (pc' = "MOVE" => HasSource)
    BY <2>1 DEF LargeFits
  <2>9. QED
    BY <1>1, <2>2, <2>3, <2>7, <2>8 DEF Restarted
<1>6. QED
  BY <1>4, <1>5

\* updateone.
Updated ==
  /\ loop' \in Runs
  /\ \/ pc' = "INSTR" /\ input_position' = input_position
     \/ pc' = "RUN" /\ input_position' = input_position + 1 /\ input_position + 1 + SLook <= AvailIn

LEMMA UpdateFacts ==
  ASSUME TypeInv, input_position + SLook <= AvailIn, UpdateOne
  PROVE  Updated
<1>1. AvailIn \in Nat /\ SLook \in Nat /\ LLook \in Nat \ {0} /\ CksumMod \in Nat \ {0} /\ Mult \in Nat
      /\ input_position \in Nat
  BY StateNumbers, Sizes
<1>2. loop \in Runs
  BY DEF TypeInv
<1>3. CASE input_position + SLook = AvailIn
  BY <1>2, <1>3 DEF UpdateOne, Updated
<1>4. CASE input_position + SLook # AvailIn
  <2> DEFINE next == T[input_position + SLook + 1]
             run  == NextRun(loop, next)
             fits == LargeFits(input_position + 1)
  <2>1. /\ pc' = "RUN" /\ input_position' = input_position + 1
        /\ loop' = IF ~fits THEN run
                   ELSE [run EXCEPT !.lcksum = RolledCksum(@, T[input_position + 1], T[input_position + LLook + 1])]
    BY <1>4 DEF UpdateOne
  <2>2. input_position + 1 + SLook <= AvailIn
    BY <1>1, <1>4
  <2>3. next \in Nat
    <3>1. input_position + SLook + 1 \in 1 .. AvailIn
      BY <1>1, <2>2
    <3>2. QED
      BY <3>1, TargetFacts
  <2>4. run \in Runs
    BY <1>2, <2>3, NextRunType
  <2>5. ASSUME fits, NEW c \in Cksums
        PROVE  RolledCksum(c, T[input_position + 1], T[input_position + LLook + 1]) \in Cksums
    <3>1. input_position + 1 + LLook <= AvailIn
      BY <2>5 DEF LargeFits
    <3>2. input_position + 1 \in 1 .. AvailIn /\ input_position + LLook + 1 \in 1 .. AvailIn
      BY <1>1, <3>1
    <3>3. PICK a \in Nat, b \in Nat : a = T[input_position + 1] /\ b = T[input_position + LLook + 1]
      BY <3>2, TargetFacts
    <3>4. PICK w \in Nat : w = Multiplier
      BY MultiplierFacts
    <3>5. Mult * c - w * a + b \in Int
      BY <1>1 DEF Cksums
    <3>6. (Mult * c - w * a + b) % CksumMod \in 0 .. CksumMod - 1
      <4>1. PICK x \in Int : x = Mult * c - w * a + b
        BY <3>5
      <4>2. x % CksumMod \in 0 .. CksumMod - 1
        BY <1>1
      <4>3. QED
        BY <4>1, <4>2
    <3>7. QED
      BY <3>3, <3>4, <3>6 DEF RolledCksum, Cksums
  <2>6. loop' \in Runs
    <3>1. PICK l \in Nat, c \in Nat, k \in Cksums : run = [l |-> l, c |-> c, lcksum |-> k]
      BY <2>4 DEF Runs, Cksums
    <3>2. PICK v : v = RolledCksum(k, T[input_position + 1], T[input_position + LLook + 1])
      OBVIOUS
    <3>3. fits => v \in Cksums
      BY <2>5, <3>2
    <3>4. run.lcksum = k
      BY <3>1
    <3>5. fits => loop' = [l |-> l, c |-> c, lcksum |-> v]
      BY <2>1, <3>1, <3>2, <3>4
    <3>6. fits => loop' \in Runs
      BY <3>3, <3>5 DEF Runs, Cksums
    <3>7. QED
      BY <2>1, <2>4, <3>6
  <2>7. QED
    BY <2>1, <2>2, <2>6 DEF Updated
<1>5. QED
  BY <1>3, <1>4

-----------------------------------------------------------------------------
(* What the invariant says of the copies. *)

\* The properties follow.
LEMMA CopiesFollow ==
  ASSUME IInv
  PROVE  CopiesTrue
<1>1. TypeInv /\ SmallInv /\ MatchInv /\ NewInv /\ EncodedInv
  BY DEF IInv
<1>2. TypeOK
  <2>1. enc.kind \in Kinds /\ Len(enc.windows) \in Nat /\ AvailIn \in Nat
    BY <1>1, EncodingFacts, StateNumbers
  <2>2. number \in 0 .. Len(enc.windows)
    BY <1>1, <2>1 DEF TypeInv
  <2>3. {total_in, input_position, min_match, unencoded_offset, next_move_point,
         cksum_pos, maxsrcaddr, want} \subseteq Nat
    BY <1>1 DEF TypeInv
  <2>4. /\ match.state \in {"TARGET", "SEARCHING", "BACKWARD", "FORWARD", "DONE"}
        /\ match.by \in {"entry", "loop"}
        /\ {match.srcpos, match.last_srcpos, match.back, match.fwd, match.maxback, match.maxfwd} \subseteq Nat
    BY <1>1 DEF TypeInv
  <2>5. match.back <= match.maxback \/ match.back = 0
    BY <1>1 DEF MatchInv
  <2>6. win.decided \in BOOLEAN /\ {win.base, win.len, win.minaddr, win.maxaddr} \subseteq Nat
    BY <1>1 DEF TypeInv
  <2>7. {loop.l, loop.c} \subseteq Nat /\ loop.lcksum \in 0 .. CksumMod - 1
    BY <1>1 DEF TypeInv, Runs
  <2>8. {table[h] : h \in DOMAIN table} \subseteq Nat
    <3>1. table \in [0 .. LSlots - 1 -> Nat]
      BY <1>1 DEF TypeInv
    <3>2. \A h \in DOMAIN table : table[h] \in Nat
      BY <3>1
    <3>3. QED
      BY <3>2
  <2>9. {small_table[h] : h \in DOMAIN small_table} \subseteq 0 .. AvailIn
    <3>1. small_table \in [0 .. SSlots - 1 -> Nat]
      BY <1>1 DEF TypeInv
    <3>2. \A h \in 0 .. SSlots - 1 : small_table[h] <= AvailIn
      BY <1>1 DEF SmallInv
    <3>3. \A h \in DOMAIN small_table : small_table[h] \in 0 .. AvailIn
      BY <2>1, <3>1, <3>2
    <3>4. QED
      BY <3>3
  <2>10. src.eof_known \in BOOLEAN /\ {src.highest, src.max_blkno, src.onlastblk} \subseteq Nat
    BY <1>1 DEF TypeInv
  <2>11. pc \in {"START", "WAIT", "MOVE", "RUN", "AT", "SMALL", "COMPARE", "CHOSEN", "EXTEND", "SLOT",
                 "INSTR", "HEADER", "ENDED"}
    BY <1>1 DEF TypeInv
  <2>12. QED
    BY <2>1, <2>2, <2>3, <2>4, <2>5, <2>6, <2>7, <2>8, <2>9, <2>10, <2>11 DEF TypeOK
<1>3. CopiesInWindow
  BY <1>1 DEF CopiesInWindow, EncodedInv
<1>4. \A c \in encoded : SameBytes(c.inst)
  BY <1>1 DEF EncodedInv
<1>5. new.type \in {"SRC", "CPY"} => SameBytes(new)
  <2>1. pc = "SLOT" => Good(new)
    BY <1>1 DEF NewInv
  <2>2. pc # "SLOT" => new = None
    BY <1>1 DEF NewInv
  <2>3. QED
    BY <2>1, <2>2 DEF Good, None
<1>6. QED
  BY <1>2, <1>3, <1>4, <1>5 DEF CopiesTrue

-----------------------------------------------------------------------------
(* The start. *)

\* xd3_set_source and xd3_set_source_and_size, and main_set_source for a pipe.
LEMMA InitBlocks ==
  ASSUME enc \in Encodings, src = InitSrc(enc)
  PROVE  /\ src \in [cur : Int, highest : Nat, max_blkno : Nat, onlastblk : Nat, eof_known : BOOLEAN]
         /\ BlocksInv /\ (src.eof_known => EndIsKnown)
<1>1. PICK n \in Nat : n = Len(S)
  BY EncodingFacts
<1>2. PICK k \in Nat : k = Blk /\ k # 0
  BY EncodingFacts
<1>3. PICK l \in Nat : l = enc.lru /\ l # 0
  BY EncodingFacts
<1>4. n \div k \in Nat /\ n % k \in Nat
  BY <1>2, Division
<1>5. CASE enc.kind = "pipe"
  <2>1. src = [cur |-> 0, highest |-> l - 1, max_blkno |-> l - 1, onlastblk |-> k, eof_known |-> FALSE]
    BY <1>2, <1>3, <1>5 DEF InitSrc, Blk
  <2>2. enc.window = k * l /\ Len(enc.source) >= enc.window
    BY <1>2, <1>3, <1>5, SrcAssumption DEF Blk
  <2>3. k * l <= n /\ (l - 1 + 1) * k = k * l
    BY <1>1, <1>2, <1>3, <2>2 DEF S
  <2>4. QED
    BY <1>1, <1>2, <1>3, <2>1, <2>3 DEF BlocksInv
<1>6. CASE enc.kind # "pipe"
  <2>1. PICK c \in Int : src = [cur |-> c, highest |-> 0,
           max_blkno |-> IF enc.size_known THEN n \div k ELSE 0,
           onlastblk |-> IF enc.size_known THEN n % k ELSE 0, eof_known |-> enc.size_known]
    <3>1. InitSrc(enc) = [cur |-> IF enc.kind = "app" THEN -1 ELSE 0, highest |-> 0,
            max_blkno |-> IF enc.size_known THEN Len(enc.source) \div enc.blk ELSE 0,
            onlastblk |-> IF enc.size_known THEN Len(enc.source) % enc.blk ELSE 0,
            eof_known |-> enc.size_known]
      BY <1>6 DEF InitSrc
    <3>2. n = Len(enc.source) /\ k = enc.blk
      BY <1>1, <1>2 DEF S, Blk
    <3>3. PICK c : c = IF enc.kind = "app" THEN -1 ELSE 0
      OBVIOUS
    <3>4. c \in Int
      BY <3>3
    <3>5. src = [cur |-> c, highest |-> 0,
           max_blkno |-> IF enc.size_known THEN n \div k ELSE 0,
           onlastblk |-> IF enc.size_known THEN n % k ELSE 0, eof_known |-> enc.size_known]
      BY <3>1, <3>2, <3>3
    <3>6. QED
      BY <3>4, <3>5
  <2>2. enc.size_known \in BOOLEAN
    BY EncodingFacts
  <2>3. CASE enc.size_known
    BY <1>1, <1>2, <1>4, <2>1, <2>2, <2>3 DEF BlocksInv, EndIsKnown
  <2>4. CASE ~enc.size_known
    BY <1>1, <1>2, <2>1, <2>2, <2>4 DEF BlocksInv
  <2>5. QED
    BY <2>3, <2>4
<1>7. QED
  BY <1>5, <1>6

LEMMA InitInv ==
  ASSUME Init
  PROVE  IInv
<1>1. /\ enc \in Encodings
      /\ pc = "START" /\ number = 0 /\ total_in = 0
      /\ input_position = 0 /\ min_match = MinMatch /\ unencoded_offset = 0 /\ next_move_point = 0
      /\ cksum_pos = 0 /\ maxsrcaddr = 0 /\ used = <<>> /\ new = None /\ encoded = {} /\ want = 0
  BY DEF Init
<1>2. /\ match = [state |-> "TARGET", srcpos |-> 0, last_srcpos |-> 0, back |-> 0, fwd |-> 0,
                  maxback |-> 0, maxfwd |-> 0, by |-> "entry"]
      /\ table = EmptyTable(LSlots) /\ loop = [l |-> 0, c |-> 0, lcksum |-> 0]
      /\ small_table = EmptyTable(SSlots) /\ search = NoSearch /\ win = NoWin /\ src = InitSrc(enc)
  BY DEF Init
<1>3. /\ Len(enc.windows) \in Nat \ {0} /\ Len(S) \in Nat /\ Blk \in Nat \ {0}
  BY <1>1, EncodingFacts
<1>4. /\ src \in [cur : Int, highest : Nat, max_blkno : Nat, onlastblk : Nat, eof_known : BOOLEAN]
      /\ BlocksInv /\ (src.eof_known => EndIsKnown)
  BY <1>1, <1>2, InitBlocks
<1>5. TypeInv
  <2>1. loop \in Runs
    BY <1>2, Sizes DEF Runs
  <2>2. win \in [decided : BOOLEAN, base : Nat, len : Nat, minaddr : Nat, maxaddr : Nat]
    BY <1>2 DEF NoWin
  <2>3. search \in [base : Nat, chain : Int, len : Nat, offset : Nat]
    BY <1>2 DEF NoSearch
  <2>4. table \in [0 .. LSlots - 1 -> Nat] /\ small_table \in [0 .. SSlots - 1 -> Nat]
    BY <1>2 DEF EmptyTable
  <2>5. match \in Tries
    BY <1>2
  <2>6. used \in Seq(Insts)
    BY <1>1
  <2>7. MinMatch \in Nat
    BY Sizes
  <2>8. QED
    BY <1>1, <1>3, <1>4, <2>1, <2>2, <2>3, <2>4, <2>5, <2>6, <2>7, SMTT(60) DEF TypeInv
<1>6. PosInv
  <2>1. AvailIn \in Nat /\ MinMatch \in Nat
    BY <1>5, StateNumbers, Sizes
  <2>2. QED
    BY <1>1, <2>1 DEF PosInv, Looking
<1>7. IndexInv
  <2>1. \A h \in 0 .. LSlots - 1 : table[h] = 0
    BY <1>2 DEF EmptyTable
  <2>2. PICK m \in Nat, k \in Nat, e \in Nat : m = src.max_blkno /\ k = Blk /\ e = Eof
    BY <1>3, <1>4, <1>5, EofFacts
  <2>3. (m + 1) * k \in Nat
    BY <2>2
  <2>4. InSource(maxsrcaddr) /\ Seen(cksum_pos)
    BY <1>1, <1>3, <2>2, <2>3 DEF InSource, Seen
  <2>5. cksum_pos <= Eof
    BY <1>1, <2>2
  <2>6. QED
    BY <1>4, <2>1, <2>4, <2>5 DEF IndexInv
<1>8. SmallInv
  <2>1. \A h \in 0 .. SSlots - 1 : small_table[h] = 0
    BY <1>2 DEF EmptyTable
  <2>2. QED
    BY <1>1, <1>5, <2>1, StateNumbers DEF SmallInv
<1>9. SearchInv
  BY <1>1 DEF SearchInv
<1>10. MatchInv
  <2>1. InSource(0)
    <3>1. PICK m \in Nat, k \in Nat : m = src.max_blkno /\ k = Blk
      BY <1>3, <1>4
    <3>2. (m + 1) * k \in Nat
      BY <3>1
    <3>3. QED
      BY <1>3, <3>1, <3>2 DEF InSource, Seen
  <2>2. QED
    BY <1>2, <2>1 DEF MatchInv, InExtension
<1>11. NewInv /\ UsedInv /\ EncodedInv
  BY <1>1 DEF NewInv, UsedInv, EncodedInv
<1>12. WinInv
  BY <1>1, <1>2, <1>3 DEF WinInv, NoWin
<1>13. QED
  BY <1>4, <1>5, <1>6, <1>7, <1>8, <1>9, <1>10, <1>11, <1>12 DEF IInv

-----------------------------------------------------------------------------
(* More that a step leaves. *)

\* The table of the target stays behind, as the place moves on.
Slack == {"SLOT", "INSTR", "HEADER"}
LEMMA SmallStays ==
  ASSUME TypeInv, SmallInv, UNCHANGED inVars, small_table' = small_table, input_position' \in Nat,
         IF pc \in Slack /\ pc' \notin Slack THEN input_position < input_position'
         ELSE input_position <= input_position'
  PROVE  SmallInv'
<1>1. AvailIn' = AvailIn
  BY SameWindow
<1>2. input_position \in Nat
  BY StateNumbers
<1>3. ASSUME NEW h \in 0 .. SSlots - 1
      PROVE  /\ small_table[h]' <= AvailIn'
             /\ small_table[h]' <= input_position' + (IF pc' \in {"SLOT", "INSTR", "HEADER"} THEN 1 ELSE 0)
  <2>1. /\ small_table[h] <= AvailIn
        /\ small_table[h] <= input_position + (IF pc \in {"SLOT", "INSTR", "HEADER"} THEN 1 ELSE 0)
    BY DEF SmallInv
  <2>2. PICK n \in Nat : n = small_table[h]
    BY DEF TypeInv
  <2>3. small_table[h]' = n
    BY <2>2
  <2>4. QED
    BY <1>1, <1>2, <2>1, <2>2, <2>3 DEF Slack
<1>4. QED
  BY <1>3 DEF SmallInv

\* A match that is given up.
LEMMA MatchGivenUp ==
  ASSUME MatchInv, match'.state = "SEARCHING",
         match'.back = 0 \/ (match'.back = match.back /\ match'.maxback = match.maxback)
  PROVE  MatchInv'
BY DEF MatchInv, InExtension

\* A step into no search leaves nothing of one.
LEMMA SearchStays ==
  ASSUME pc' \notin {"COMPARE", "CHOSEN"}
  PROVE  SearchInv'
BY DEF SearchInv

\* xd3_source_match_setup sets limits that keep the match in the windows.
LEMMA SetupFacts ==
  ASSUME TypeInv, PosInv, BlocksInv, MatchInv, WinInv, UNCHANGED inVars, UNCHANGED posVars, win' = win, src' = src,
         NEW p \in Nat, InSource(p), win.decided => win.base <= p /\ p <= win.base + win.len,
         NEW state \in {"BACKWARD", "FORWARD"}, NEW by \in {"entry", "loop"},
         SetupMatch(p, state, by), pc = "START" \/ pc = "AT", pc' = "EXTEND"
  PROVE  MatchInv' /\ match' \in Tries
<1>1. PICK ip \in Nat, unc \in Nat, n \in Nat, w \in Nat, l \in Nat, f \in Nat :
        /\ ip = input_position /\ unc = unencoded_offset /\ n = AvailIn
        /\ w = win.base /\ l = win.len /\ f = Eof
  <2>1. Eof \in Nat /\ AvailIn \in Nat /\ input_position \in Nat /\ unencoded_offset \in Nat
    BY EofFacts, StateNumbers
  <2>2. win.base \in Nat /\ win.len \in Nat
    BY DEF TypeInv
  <2>3. QED
    BY <2>1, <2>2
<1>2. unc <= ip /\ ip <= n
  BY <1>1 DEF PosInv
<1>3. src.eof_known => p <= f
  <2>1. Len(S) \in Nat
    BY StateNumbers
  <2>2. p <= Len(S) /\ (src.eof_known => Len(S) <= Eof)
    BY EofFacts DEF InSource
  <2>3. QED
    BY <1>1, <2>1, <2>2
<1>4. win.decided => w <= p /\ p <= w + l
  BY <1>1
<1>5. PICK mb : mb = MaxBack(p)
  OBVIOUS
<1>6. PICK mf : mf = MaxFwd(p)
  OBVIOUS
<1>7. mb \in Nat /\ mb <= p /\ unc + mb <= ip /\ (win.decided => w + mb <= p)
  BY <1>1, <1>2, <1>4, <1>5 DEF MaxBack, Smaller
<1>8. mf \in Nat /\ ip + mf <= n /\ (win.decided => p + mf <= w + l)
  BY <1>1, <1>2, <1>3, <1>4, <1>6 DEF MaxFwd, Smaller
<1>9. match' = [state |-> state, srcpos |-> p, last_srcpos |-> p, back |-> 0, fwd |-> 0,
                maxback |-> mb, maxfwd |-> mf, by |-> by]
  BY <1>5, <1>6 DEF SetupMatch
<1>10. AvailIn' = n /\ input_position' = ip /\ unencoded_offset' = unc /\ win'.base = w /\ win'.len = l
       /\ win'.decided = win.decided
  BY <1>1, SameWindow DEF posVars
<1>11. InSource(p)' /\ match'.srcpos + match'.fwd = p
  <2>1. InSource(p)'
    BY SameWindow DEF InSource, Seen
  <2>2. QED
    BY <1>9, <2>1
<1>12. MatchAlike'
  <2>1. 1 - match'.back = 1 /\ match'.fwd = 0
    BY <1>9
  <2>2. QED
    BY <2>1 DEF MatchAlike
<1>13. /\ match'.back <= match'.maxback /\ match'.maxback <= match'.srcpos
       /\ unencoded_offset' + match'.maxback <= input_position'
       /\ match'.fwd <= match'.maxfwd /\ input_position' + match'.maxfwd <= AvailIn'
       /\ win'.decided => win'.base + match'.maxback <= match'.srcpos
                          /\ match'.srcpos + match'.maxfwd <= win'.base + win'.len
  BY <1>7, <1>8, <1>9, <1>10
<1>14. InSource(match.srcpos + match.fwd)'
  BY <1>11
<1>15. match'.state # "TARGET"
  BY <1>9
<1>16. MatchInv'
  BY <1>12, <1>13, <1>14, <1>15 DEF MatchInv
<1>17. QED
  BY <1>7, <1>8, <1>9, <1>16

-----------------------------------------------------------------------------
(* The window starts, or is entered again. *)

\* A match that reached the end of a window is set up again in the next one.
LEMMA ContinueMatchKeeps ==
  ASSUME IInv, ContinueMatch
  PROVE  IInv'
<1>1. TypeInv /\ PosInv /\ BlocksInv /\ IndexInv /\ SmallInv /\ SearchInv /\ MatchInv
      /\ NewInv /\ UsedInv /\ WinInv /\ EncodedInv
  BY DEF IInv
<1>2. /\ pc = "START" /\ HasSource /\ match.state = "TARGET" /\ AvailIn > 0 /\ pc' = "EXTEND"
      /\ SetupMatch(match.srcpos, "FORWARD", "entry")
      /\ UNCHANGED posVars /\ UNCHANGED smallVars /\ UNCHANGED idxVars /\ UNCHANGED outVars
      /\ UNCHANGED inVars /\ src' = src /\ new' = new /\ want' = want
  BY DEF ContinueMatch
<1>3. /\ S' = S /\ T' = T /\ AvailIn' = AvailIn /\ Blk' = Blk /\ HasSource' = HasSource
      /\ enc' = enc /\ number' = number
  BY <1>2, SameWindow
<1>4. match.srcpos \in Nat /\ InSource(match.srcpos)
  BY <1>1, <1>2 DEF TypeInv, MatchInv
<1>5. win' = win /\ ~win.decided
  BY <1>1, <1>2 DEF outVars, WinInv
<1>6. MatchInv' /\ match' \in Tries
  BY <1>1, <1>2, <1>4, <1>5, SetupFacts
<1>7. match'.by = "entry"
  BY <1>2 DEF SetupMatch
<1>8. TypeInv'
  BY <1>1, <1>2, <1>3, <1>6 DEF TypeInv, posVars, smallVars, idxVars, outVars, inVars
<1>9. PosInv'
  BY <1>1, <1>2, <1>3, <1>7 DEF PosInv, Looking, posVars
<1>10. BlocksInv' /\ IndexInv'
  BY <1>1, <1>2, SourceStays
<1>11. SmallInv'
  <2>1. input_position \in Nat /\ input_position' = input_position /\ small_table' = small_table
    BY <1>1, <1>2, StateNumbers DEF posVars, smallVars
  <2>2. QED
    BY <1>1, <1>2, <2>1, SmallStays DEF Slack
<1>12. SearchInv' /\ NewInv'
  BY <1>1, <1>2, SearchStays DEF NewInv
<1>13. UsedInv' /\ WinInv' /\ EncodedInv'
  BY <1>1, <1>2, OutStays
<1>14. QED
  BY <1>6, <1>8, <1>9, <1>10, <1>11, <1>12, <1>13 DEF IInv

\* restartloop: what it leaves of the invariant, from where nothing waits for a
\* slot or after it got one.
LEMMA RestartKeeps ==
  ASSUME TypeInv, PosInv, SmallInv, NEW p \in Nat, input_position <= p, p <= AvailIn, pc # "HEADER",
         IF pc \in Slack THEN input_position < p ELSE TRUE, Restarted(p), small_table' = small_table,
         UNCHANGED inVars
  PROVE  PosInv' /\ SmallInv' /\ SearchInv' /\ min_match' \in Nat /\ loop' \in Runs
         /\ input_position' \in Nat /\ unencoded_offset' \in Nat /\ next_move_point' \in Nat
         /\ pc' \in {"INSTR", "MOVE", "RUN"}
<1>1. /\ input_position' = p /\ unencoded_offset' = unencoded_offset /\ next_move_point' = next_move_point
      /\ pc' \in {"INSTR", "MOVE", "RUN"}
      /\ pc' # "INSTR" => p + SLook <= AvailIn
      /\ pc' = "MOVE" => HasSource
      /\ min_match' \in Nat /\ MinMatch <= min_match'
      /\ loop' \in Runs
  BY DEF Restarted
<1>2. AvailIn' = AvailIn /\ HasSource' = HasSource
  BY SameWindow
<1>3. input_position \in Nat /\ unencoded_offset \in Nat /\ next_move_point \in Nat /\ AvailIn \in Nat
  BY StateNumbers
<1>4. PosInv'
  <2>1. unencoded_offset <= p
    BY <1>3 DEF PosInv
  <2>2. QED
    BY <1>1, <1>2, <2>1 DEF PosInv, Looking
<1>5. SmallInv'
  BY <1>1, <1>3, SmallStays
<1>6. SearchInv'
  BY <1>1, SearchStays
<1>7. QED
  BY <1>1, <1>3, <1>4, <1>5, <1>6

LEMMA StartSearchKeeps ==
  ASSUME IInv, StartSearch
  PROVE  IInv'
<1>1. TypeInv /\ PosInv /\ BlocksInv /\ IndexInv /\ SmallInv /\ SearchInv /\ MatchInv
      /\ NewInv /\ UsedInv /\ WinInv /\ EncodedInv
  BY DEF IInv
<1>2. /\ pc = "START" /\ AvailIn > 0 /\ Restart(0, LastMatched)
      /\ UNCHANGED smallVars /\ match' = match /\ UNCHANGED idxVars /\ UNCHANGED outVars
      /\ UNCHANGED inVars /\ src' = src /\ new' = new /\ want' = want
  BY DEF StartSearch
<1>3. /\ S' = S /\ T' = T /\ AvailIn' = AvailIn /\ Blk' = Blk /\ HasSource' = HasSource
      /\ enc' = enc /\ number' = number
  BY <1>2, SameWindow
<1>4. input_position = 0 /\ AvailIn \in Nat
  BY <1>1, <1>2, StateNumbers DEF PosInv
<1>5. Restarted(0)
  BY <1>1, <1>2, LastMatchedType, RestartFacts
<1>6. small_table' = small_table
  BY <1>2 DEF smallVars
<1>7. PosInv' /\ SmallInv' /\ SearchInv' /\ min_match' \in Nat /\ loop' \in Runs
      /\ input_position' \in Nat /\ unencoded_offset' \in Nat /\ next_move_point' \in Nat
      /\ pc' \in {"INSTR", "MOVE", "RUN"}
  BY <1>1, <1>2, <1>4, <1>5, <1>6, RestartKeeps DEF Slack
<1>8. TypeInv'
  BY <1>1, <1>2, <1>3, <1>7 DEF TypeInv, smallVars, idxVars, outVars, inVars
<1>9. ~InExtension
  BY <1>1, <1>2 DEF MatchInv
<1>10. MatchInv'
  BY <1>1, <1>2, <1>9, MatchRests
<1>11. BlocksInv' /\ IndexInv'
  BY <1>1, <1>2, SourceStays
<1>12. NewInv'
  BY <1>1, <1>2, <1>7 DEF NewInv
<1>13. UsedInv' /\ WinInv' /\ EncodedInv'
  BY <1>1, <1>2, <1>7, OutStays
<1>14. QED
  BY <1>7, <1>8, <1>10, <1>11, <1>12, <1>13 DEF IInv

LEMMA EmptyWindowKeeps ==
  ASSUME IInv, EmptyWindow
  PROVE  IInv'
<1>1. TypeInv /\ PosInv /\ BlocksInv /\ IndexInv /\ SmallInv /\ SearchInv /\ MatchInv
      /\ NewInv /\ UsedInv /\ WinInv /\ EncodedInv
  BY DEF IInv
<1>2. /\ pc = "START" /\ pc' = "INSTR"
      /\ match' = IF HasSource THEN [match EXCEPT !.state = "SEARCHING", !.fwd = 0] ELSE match
      /\ UNCHANGED posVars /\ UNCHANGED smallVars /\ UNCHANGED idxVars /\ UNCHANGED outVars
      /\ UNCHANGED inVars /\ src' = src /\ new' = new /\ want' = want
  BY DEF EmptyWindow
<1>3. /\ S' = S /\ T' = T /\ AvailIn' = AvailIn /\ Blk' = Blk /\ HasSource' = HasSource
      /\ enc' = enc /\ number' = number
  BY <1>2, SameWindow
<1>4. match' \in Tries
  BY <1>1, <1>2 DEF TypeInv
<1>5. TypeInv'
  BY <1>1, <1>2, <1>3, <1>4 DEF TypeInv, posVars, smallVars, idxVars, outVars, inVars
<1>6. PosInv'
  BY <1>1, <1>2, <1>3 DEF PosInv, Looking, posVars
<1>7. MatchInv'
  <2>1. CASE HasSource
    <3>1. match' = [match EXCEPT !.state = "SEARCHING", !.fwd = 0]
      BY <1>2, <2>1
    <3>2. match'.state = "SEARCHING" /\ match'.back = match.back /\ match'.maxback = match.maxback
      BY <1>1, <3>1 DEF TypeInv
    <3>3. QED
      BY <1>1, <3>2, MatchGivenUp
  <2>2. CASE ~HasSource
    <3>1. match' = match /\ ~InExtension
      BY <1>1, <1>2, <2>2 DEF MatchInv
    <3>2. QED
      BY <1>1, <1>2, <3>1, MatchRests
  <2>3. QED
    BY <2>1, <2>2
<1>8. SmallInv'
  <2>1. input_position \in Nat /\ input_position' = input_position /\ small_table' = small_table
    BY <1>1, <1>2, StateNumbers DEF posVars, smallVars
  <2>2. QED
    BY <1>1, <1>2, <2>1, SmallStays DEF Slack
<1>9. BlocksInv' /\ IndexInv'
  BY <1>1, <1>2, SourceStays
<1>10. SearchInv' /\ NewInv'
  BY <1>1, <1>2, SearchStays DEF NewInv
<1>11. UsedInv' /\ WinInv' /\ EncodedInv'
  BY <1>1, <1>2, OutStays
<1>12. QED
  BY <1>5, <1>6, <1>7, <1>8, <1>9, <1>10, <1>11 DEF IInv

\* The block at hand says nothing of the size.
LEMMA SourceKnown ==
  ASSUME BlocksInv, IndexInv, UNCHANGED inVars, UNCHANGED idxVars, pc' # "MOVE" => pc # "MOVE",
         src'.max_blkno = src.max_blkno, src'.onlastblk = src.onlastblk, src'.eof_known = src.eof_known
  PROVE  BlocksInv' /\ IndexInv' /\ \A n : InSource(n)' = InSource(n)
<1>1. S' = S /\ Blk' = Blk
  BY SameWindow
<1>2. cksum_pos' = cksum_pos /\ maxsrcaddr' = maxsrcaddr /\ table' = table
  BY DEF idxVars
<1>3. /\ \A n : Seen(n)' = Seen(n)
      /\ \A n : InSource(n)' = InSource(n)
      /\ EndIsKnown' = EndIsKnown /\ EndIsBlock' = EndIsBlock /\ Eof' = Eof
  BY <1>1 DEF Seen, InSource, EndIsKnown, EndIsBlock, Eof
<1>4. BlocksInv'
  BY <1>1, <1>3 DEF BlocksInv
<1>5. InSource(maxsrcaddr)' /\ Seen(cksum_pos)'
  BY <1>1, <1>2 DEF IndexInv, InSource, Seen
<1>6. IndexInv'
  BY <1>1, <1>2, <1>3, <1>5 DEF IndexInv
<1>7. QED
  BY <1>3, <1>4, <1>6

LEMMA GiveBlockKeeps ==
  ASSUME IInv, GiveBlock
  PROVE  IInv'
<1>1. TypeInv /\ PosInv /\ BlocksInv /\ IndexInv /\ SmallInv /\ SearchInv /\ MatchInv
      /\ NewInv /\ UsedInv /\ WinInv /\ EncodedInv
  BY DEF IInv
<1>2. /\ pc = "WAIT" /\ src' = [src EXCEPT !.cur = want, !.highest = Larger(want, @)]
      /\ UNCHANGED smallVars /\ UNCHANGED idxVars /\ UNCHANGED outVars
      /\ UNCHANGED inVars /\ new' = new /\ want' = want
  BY DEF GiveBlock
<1>3. /\ S' = S /\ T' = T /\ AvailIn' = AvailIn /\ Blk' = Blk /\ HasSource' = HasSource
      /\ enc' = enc /\ number' = number
  BY <1>2, SameWindow
<1>4. src' \in [cur : Int, highest : Nat, max_blkno : Nat, onlastblk : Nat, eof_known : BOOLEAN]
      /\ src'.max_blkno = src.max_blkno /\ src'.onlastblk = src.onlastblk /\ src'.eof_known = src.eof_known
  <2>1. PICK h \in Nat : h = Larger(want, src.highest)
    BY <1>1 DEF TypeInv, Larger
  <2>2. src' = [src EXCEPT !.cur = want, !.highest = h] /\ want \in Nat
    BY <1>1, <1>2, <2>1, StateNumbers
  <2>3. PICK c \in Int, g \in Nat, m \in Nat, o \in Nat, k \in BOOLEAN :
          src = [cur |-> c, highest |-> g, max_blkno |-> m, onlastblk |-> o, eof_known |-> k]
    BY <1>1 DEF TypeInv
  <2>4. src' = [cur |-> want, highest |-> h, max_blkno |-> m, onlastblk |-> o, eof_known |-> k]
    BY <2>2, <2>3
  <2>5. QED
    BY <2>1, <2>2, <2>3, <2>4
<1>5. BlocksInv' /\ IndexInv' /\ \A n : InSource(n)' = InSource(n)
  BY <1>1, <1>2, <1>4, SourceKnown
<1>6. small_table' = small_table /\ input_position \in Nat /\ AvailIn \in Nat /\ win' = win
  BY <1>1, <1>2, StateNumbers DEF smallVars, outVars
<1>7. CASE match.state = "SEARCHING"
  <2>1. Restart(input_position, LastMatched) /\ match' = match
    BY <1>7 DEF GiveBlock
  <2>2. Restarted(input_position)
    BY <1>1, <1>6, <2>1, LastMatchedType, RestartFacts
  <2>3. input_position <= AvailIn /\ input_position <= input_position
    BY <1>1, <1>6 DEF PosInv
  <2>4. PosInv' /\ SmallInv' /\ SearchInv' /\ min_match' \in Nat /\ loop' \in Runs
        /\ input_position' \in Nat /\ unencoded_offset' \in Nat /\ next_move_point' \in Nat
        /\ pc' \in {"INSTR", "MOVE", "RUN"}
    BY <1>1, <1>2, <1>6, <2>2, <2>3, RestartKeeps DEF Slack
  <2>5. TypeInv'
    BY <1>1, <1>2, <1>3, <1>4, <2>1, <2>4 DEF TypeInv, smallVars, idxVars, outVars, inVars
  <2>6. match'.state = "SEARCHING" /\ match'.back = match.back /\ match'.maxback = match.maxback
    BY <1>7, <2>1
  <2>7. MatchInv'
    BY <1>1, <2>6, MatchGivenUp
  <2>8. NewInv'
    BY <1>1, <1>2, <2>4 DEF NewInv
  <2>9. UsedInv' /\ WinInv' /\ EncodedInv'
    BY <1>1, <1>2, <2>4, OutStays
  <2>10. QED
    BY <1>5, <2>4, <2>5, <2>7, <2>8, <2>9 DEF IInv
<1>8. CASE match.state # "SEARCHING"
  <2>1. match' = [match EXCEPT !.by = "entry"] /\ pc' = "EXTEND" /\ UNCHANGED posVars
    BY <1>8 DEF GiveBlock
  <2>2. match' \in Tries
        /\ match'.state = match.state /\ match'.srcpos = match.srcpos /\ match'.back = match.back
        /\ match'.fwd = match.fwd /\ match'.maxback = match.maxback /\ match'.maxfwd = match.maxfwd
        /\ match'.by = "entry"
    BY <1>1, <2>1 DEF TypeInv
  <2>3. TypeInv'
    BY <1>1, <1>2, <1>3, <1>4, <2>1, <2>2 DEF TypeInv, posVars, smallVars, idxVars, outVars, inVars
  <2>4. PosInv'
    BY <1>1, <1>2, <1>3, <2>1, <2>2 DEF PosInv, Looking, posVars
  <2>5. MatchInv'
    <3>1. InExtension' = InExtension
      BY <2>2 DEF InExtension
    <3>2. MatchAlike' = MatchAlike
      BY <1>3, <2>1, <2>2 DEF MatchAlike, posVars
    <3>3. InSource(match.srcpos)' = InSource(match.srcpos)
          /\ InSource(match.srcpos + match.fwd)' = InSource(match.srcpos + match.fwd)
      BY <1>3, <1>4, <2>2 DEF InSource, Seen
    <3>4. input_position' = input_position /\ unencoded_offset' = unencoded_offset
      BY <2>1 DEF posVars
    <3>5. QED
      BY <1>1, <1>3, <1>6, <2>1, <2>2, <3>1, <3>2, <3>3, <3>4 DEF MatchInv
  <2>6. SmallInv'
    <3>1. input_position' = input_position
      BY <2>1 DEF posVars
    <3>2. QED
      BY <1>1, <1>2, <1>6, <2>1, <3>1, SmallStays DEF Slack
  <2>7. SearchInv' /\ NewInv'
    BY <1>1, <1>2, <2>1, SearchStays DEF NewInv
  <2>8. UsedInv' /\ WinInv' /\ EncodedInv'
    BY <1>1, <1>2, <2>1, OutStays
  <2>9. QED
    BY <1>5, <2>3, <2>4, <2>5, <2>6, <2>7, <2>8 DEF IInv
<1>9. QED
  BY <1>7, <1>8

-----------------------------------------------------------------------------
(* xd3_srcwin_move_point. *)

\* The block of a place that has been seen, or follows what has been, can be got.
LEMMA PlaceFits ==
  ASSUME TypeInv, BlocksInv, NEW n \in Nat, Seen(n), src.eof_known => n <= Len(S)
  PROVE  n \div Blk \in Nat /\ MayGet(n \div Blk)
<1>1. PICK k \in Nat \ {0}, l \in Nat, m \in Nat, o \in Nat :
        k = Blk /\ l = Len(S) /\ m = src.max_blkno /\ o = src.onlastblk
  <2>1. Blk \in Nat \ {0} /\ Len(S) \in Nat
    BY StateNumbers
  <2>2. src.max_blkno \in Nat /\ src.onlastblk \in Nat
    BY DEF TypeInv
  <2>3. QED
    BY <2>1, <2>2
<1>2. PICK q \in Nat, r \in 0 .. k - 1 : q = n \div k /\ n = q * k + r
  BY Division
<1>3. n <= (m + 1) * k
  BY <1>1 DEF Seen
<1>4. q <= m + 1
  <2>1. m + 1 < q => (m + 1) * k + k <= q * k
    BY BlockStarts
  <2>2. (m + 1) * k \in Nat /\ q * k \in Nat
    BY BlockStarts
  <2>3. QED
    BY <1>2, <1>3, <2>1, <2>2
<1>5. src.eof_known => q <= m
  <2>1. SUFFICES ASSUME src.eof_known, m < q PROVE FALSE
    BY <1>2
  <2>2. m * k + k <= q * k /\ m * k \in Nat /\ q * k \in Nat
    BY <2>1, BlockStarts
  <2>3. n <= l
    BY <1>1, <2>1
  <2>4. CASE EndIsKnown
    <3>1. m = l \div k
      BY <1>1, <2>4 DEF EndIsKnown
    <3>2. PICK s \in 0 .. k - 1 : l = m * k + s
      BY <3>1, Division
    <3>3. QED
      BY <1>2, <2>2, <2>3, <3>2
  <2>5. CASE EndIsBlock
    <3>1. l < k
      BY <1>1, <2>5 DEF EndIsBlock
    <3>2. QED
      BY <1>2, <2>2, <2>3, <3>1
  <2>6. QED
    BY <2>1, <2>4, <2>5 DEF BlocksInv
<1>6. QED
  BY <1>1, <1>2, <1>4, <1>5 DEF MayGet

\* The place that is indexed next.
LEMMA IndexPosFacts ==
  ASSUME TypeInv, BlocksInv, IndexInv
  PROVE  /\ IndexPos \in Nat /\ cksum_pos <= IndexPos /\ Seen(IndexPos)
         /\ src.eof_known /\ ~EndIsKnown => Eof <= IndexPos
<1>1. cksum_pos \in Nat /\ maxsrcaddr \in Nat
  BY StateNumbers
<1>2. IndexPos = cksum_pos \/ IndexPos = maxsrcaddr
  BY DEF IndexPos, Larger
<1>3. IndexPos \in Nat /\ cksum_pos <= IndexPos
  BY <1>1 DEF IndexPos, Larger
<1>4. Seen(IndexPos)
  BY <1>2 DEF IndexInv, InSource
<1>5. src.eof_known /\ ~EndIsKnown => Eof <= IndexPos
  <2>1. src.eof_known /\ ~EndIsKnown => Eof = Blk /\ Blk <= cksum_pos
    BY EofFacts DEF IndexInv
  <2>2. Blk \in Nat
    BY StateNumbers
  <2>3. QED
    BY <1>1, <1>3, <2>1, <2>2
<1>6. QED
  BY <1>3, <1>4, <1>5

\* What is put into the table.
LEMMA InsertFacts ==
  ASSUME NEW positions, positions \subseteq Nat, table \in [0 .. LSlots - 1 -> Nat]
  PROVE  /\ Insert(positions) \in [0 .. LSlots - 1 -> Nat]
         /\ \A h \in 0 .. LSlots - 1 :
              Insert(positions)[h] = table[h] \/ Insert(positions)[h] - 1 \in positions
<1> DEFINE here(h) == {p \in positions : LargeSlot(SubSeq(S, p + 1, p + LLook)) = h}
           entry(h) == IF here(h) = {} THEN table[h]
                       ELSE 1 + CHOOSE p \in here(h) : \A q \in here(h) : p <= q
<1>1. Insert(positions) = [h \in 0 .. LSlots - 1 |-> entry(h)]
  BY DEF Insert
<1>2. ASSUME NEW h \in 0 .. LSlots - 1
      PROVE  entry(h) \in Nat /\ (entry(h) = table[h] \/ entry(h) - 1 \in positions)
  <2>1. here(h) \subseteq Nat /\ here(h) \subseteq positions
    OBVIOUS
  <2>2. table[h] \in Nat
    OBVIOUS
  <2>3. CASE here(h) = {}
    BY <2>2, <2>3
  <2>4. CASE here(h) # {}
    <3> DEFINE X == here(h)
               c == CHOOSE p \in X : \A q \in X : p <= q
    <3>1. X \subseteq Nat /\ X # {} /\ X \subseteq positions
      BY <2>1, <2>4
    <3>2. entry(h) = 1 + c
      BY <2>4
    <3> HIDE DEF X, here, entry
    <3>3. \E p \in X : \A q \in X : p <= q
      BY <3>1, LeastNat
    <3>4. c \in X
      BY <3>3
    <3> HIDE DEF c
    <3>5. c \in Nat /\ c \in positions
      BY <3>1, <3>4
    <3>6. entry(h) \in Nat /\ entry(h) - 1 = c
      BY <3>2, <3>5
    <3>7. QED
      BY <3>5, <3>6
  <2>5. QED
    BY <2>3, <2>4
<1> HIDE DEF entry, here
<1>3. QED
  BY <1>1, <1>2

\* What has been seen stays seen, and the block that was got has been.
LEMMA SeenStays ==
  ASSUME TypeInv, NEW b \in Nat, GotBlock(b), UNCHANGED inVars
  PROVE  /\ \A n \in Nat : Seen(n) => Seen(n)'
         /\ \A n \in Nat : InSource(n) => InSource(n)'
         /\ \A n \in Nat : n <= (b + 1) * Blk => Seen(n)'
<1>1. S' = S /\ Blk' = Blk
  BY SameWindow
<1>2. PICK k \in Nat \ {0}, m \in Nat, mm \in Nat : k = Blk /\ m = src.max_blkno /\ mm = src'.max_blkno
  BY StateNumbers DEF TypeInv, GotBlock
<1>3. m <= mm /\ b <= mm
  BY <1>2 DEF GotBlock
<1>4. (m + 1) * k <= (mm + 1) * k /\ (b + 1) * k <= (mm + 1) * k
  BY <1>3, BlockStarts
<1>5. (m + 1) * k \in Nat /\ (mm + 1) * k \in Nat /\ (b + 1) * k \in Nat
  BY BlockStarts
<1>6. ASSUME NEW n \in Nat
      PROVE  (Seen(n) => Seen(n)') /\ (n <= (b + 1) * Blk => Seen(n)')
  BY <1>1, <1>2, <1>4, <1>5 DEF Seen
<1>7. QED
  BY <1>1, <1>6 DEF InSource

\* What is read of a block lies in the source, as far as it is indexed.
LEMMA BytesFacts ==
  ASSUME TypeInv, BlocksInv, src.eof_known => EndIsKnown, NEW b \in Nat, GotBlock(b), UNCHANGED inVars
  PROVE  /\ BytesOn(src', b) \in Nat /\ BytesOn(src', b) <= Blk
         /\ BytesOn(src', b) = 0 \/ b * Blk + BytesOn(src', b) <= Len(S)
<1>1. S' = S /\ Blk' = Blk
  BY SameWindow
<1>2. PICK k \in Nat \ {0}, l \in Nat, m \in Nat, o \in Nat, mm \in Nat, oo \in Nat, on \in Nat :
        /\ k = Blk /\ l = Len(S) /\ m = src.max_blkno /\ mm = src'.max_blkno /\ oo = src'.onlastblk
        /\ o = src.onlastblk /\ on = OnBlock(b)
  <2>1. Blk \in Nat \ {0} /\ Len(S) \in Nat
    BY StateNumbers
  <2>2. src.max_blkno \in Nat /\ src.onlastblk \in Nat
    BY DEF TypeInv
  <2>3. src'.max_blkno \in Nat /\ src'.onlastblk \in Nat
    BY DEF GotBlock
  <2>4. OnBlock(b) \in Nat
    <3>1. OnBlock(b) \in 0 .. Blk
      BY StateNumbers, OnBlockFacts
    <3>2. QED
      BY <2>1, <3>1
  <2>5. QED
    BY <2>1, <2>2, <2>3, <2>4
<1>3. /\ b <= mm /\ (b = mm => oo = on)
      /\ src.eof_known => src'.eof_known /\ mm = m /\ oo = o
      /\ ~src.eof_known /\ src'.eof_known /\ EndIsBlock' => b = 1
      /\ BlocksInv' /\ src'.eof_known \in BOOLEAN
  BY <1>2 DEF GotBlock
<1>4. on \in 0 .. k /\ (b * k <= l => b * k + on <= l) /\ (~(b * k <= l) => on = 0)
  <2>1. enc \in Encodings
    BY StateNumbers
  <2>2. on \in 0 .. k /\ (b * k <= l => b * k + on <= l)
    BY <1>2, <2>1, OnBlockFacts
  <2>3. ASSUME ~(b * k <= l) PROVE on = 0
    <3>1. on # k => IF b * k <= l THEN l = b * k + on ELSE on = 0
      BY <1>2, <2>1, OnBlockFacts
    <3>2. on = k => b * k + k <= l
      BY <1>2, <2>1, OnBlockFacts
    <3>3. b * k \in Nat
      BY BlockStarts
    <3>4. QED
      BY <1>2, <2>3, <3>1, <3>2, <3>3
  <2>4. QED
    BY <2>2, <2>3
<1>5. CASE b = mm
  <2>1. BytesOn(src', b) = on
    BY <1>2, <1>3, <1>5 DEF BytesOn
  <2>2. QED
    BY <1>2, <1>4, <2>1
<1>6. CASE b # mm
  <2>1. BytesOn(src', b) = k
    BY <1>2, <1>6 DEF BytesOn
  <2>2. b * k + k <= l
    <3>1. b < mm
      BY <1>2, <1>3, <1>6
    <3>2. b * k + k <= mm * k /\ (mm + 1) * k = mm * k + k /\ mm * k \in Nat /\ b * k \in Nat
      BY <3>1, BlockStarts
    <3>3. CASE ~src'.eof_known
      <4>1. mm > 0 => (mm + 1) * k <= l
        BY <1>1, <1>2, <1>3, <3>3 DEF BlocksInv
      <4>2. QED
        BY <3>1, <3>2, <4>1
    <3>4. CASE src'.eof_known
      <4>1. ~EndIsBlock'
        <5>1. CASE ~src.eof_known
          <6>1. ASSUME EndIsBlock' PROVE FALSE
            <7>1. b = 1 /\ mm = 1
              BY <1>2, <1>3, <3>4, <5>1, <6>1 DEF EndIsBlock
            <7>2. QED
              BY <1>6, <7>1
          <6>2. QED
            BY <6>1
        <5>2. CASE src.eof_known
          <6>1. m = l \div k /\ mm = m
            BY <1>2, <1>3, <5>2 DEF EndIsKnown
          <6>2. PICK s \in 0 .. k - 1 : l = m * k + s
            BY <6>1, Division
          <6>3. ASSUME EndIsBlock' PROVE FALSE
            <7>1. l < k /\ m = 1
              BY <1>1, <1>2, <6>1, <6>3 DEF EndIsBlock
            <7>2. QED
              BY <6>2, <7>1
          <6>4. QED
            BY <6>3
        <5>3. QED
          BY <5>1, <5>2
      <4>2. mm = l \div k
        BY <1>1, <1>2, <1>3, <3>4, <4>1 DEF BlocksInv, EndIsKnown
      <4>3. PICK s \in 0 .. k - 1 : l = mm * k + s
        BY <4>2, Division
      <4>4. QED
        BY <3>2, <4>3
    <3>5. QED
      BY <3>3, <3>4
  <2>3. QED
    BY <1>2, <2>1, <2>2
<1>7. QED
  BY <1>5, <1>6

LEMMA IndexBlockKeeps ==
  ASSUME IInv, IndexBlock
  PROVE  IInv'
<1>1. TypeInv /\ PosInv /\ BlocksInv /\ IndexInv /\ SmallInv /\ SearchInv /\ MatchInv
      /\ NewInv /\ UsedInv /\ WinInv /\ EncodedInv
  BY DEF IInv
<1> DEFINE b == IndexBlk
           bytes == BytesOn(src', b)
<1>2. /\ pc = "MOVE" /\ IndexMore /\ src' = Getblk(b) /\ pc' = pc
      /\ table' = IF bytes < LLook THEN table ELSE Insert(Inserted(bytes))
      /\ cksum_pos' = (b + 1) * Blk
      /\ UNCHANGED posVars /\ UNCHANGED smallVars /\ match' = match /\ maxsrcaddr' = maxsrcaddr
      /\ UNCHANGED outVars /\ UNCHANGED inVars /\ new' = new /\ want' = want
  BY DEF IndexBlock
<1>3. /\ S' = S /\ T' = T /\ AvailIn' = AvailIn /\ Blk' = Blk /\ HasSource' = HasSource
      /\ enc' = enc /\ number' = number
  BY <1>2, SameWindow
<1>4. IndexPos \in Nat /\ cksum_pos <= IndexPos /\ Seen(IndexPos)
  BY <1>1, IndexPosFacts
<1>5. src.eof_known => EndIsKnown /\ IndexPos <= Len(S)
  <2>1. src.eof_known => IndexPos < Eof
    BY <1>2 DEF IndexMore
  <2>2. Eof \in Nat /\ (src.eof_known /\ EndIsKnown => Eof = Len(S))
    BY <1>1, EofFacts
  <2>3. src.eof_known /\ ~EndIsKnown => Eof <= IndexPos
    BY <1>1, IndexPosFacts
  <2>4. QED
    BY <1>4, <2>1, <2>2, <2>3
<1>6. b \in Nat /\ MayGet(b)
  BY <1>1, <1>4, <1>5, PlaceFits DEF IndexBlk
<1>7. GotBlock(b)
  BY <1>1, <1>2, <1>3, <1>6, GetblkFacts
<1>8. bytes \in Nat /\ bytes <= Blk /\ (bytes = 0 \/ b * Blk + bytes <= Len(S))
  BY <1>1, <1>2, <1>5, <1>6, <1>7, BytesFacts
<1>9. PICK k \in Nat \ {0}, n \in Nat, c \in Nat, q \in Nat, l \in Nat \ {0}, st \in Nat \ {0}, y \in Nat :
        k = Blk /\ n = IndexPos /\ c = cksum_pos /\ q = b /\ l = LLook /\ st = LStep /\ y = bytes
  <2>1. Blk \in Nat \ {0} /\ cksum_pos \in Nat /\ LLook \in Nat \ {0} /\ LStep \in Nat \ {0}
    BY <1>1, StateNumbers, Sizes
  <2>2. bytes \in Nat /\ b \in Nat
    BY <1>6, <1>8
  <2> HIDE DEF b, bytes
  <2>3. QED
    BY <1>4, <2>1, <2>2
<1>10. n < (q + 1) * k /\ q * k \in Nat /\ (q + 1) * k = q * k + k /\ k <= (q + 1) * k
  <2>1. q = n \div k
    BY <1>9 DEF IndexBlk
  <2>2. PICK r \in 0 .. k - 1 : n = q * k + r
    BY <2>1, Division, ZenonT(40)
  <2>3. q * k \in Nat /\ (q + 1) * k = q * k + k
    BY BlockStarts
  <2>4. QED
    BY <2>2, <2>3
<1>11. cksum_pos' \in Nat /\ c <= cksum_pos' /\ Blk <= cksum_pos' /\ cksum_pos' = (q + 1) * k
  BY <1>2, <1>4, <1>9, <1>10
<1>12. ASSUME ~(bytes < LLook), NEW p \in Inserted(bytes)
       PROVE  p \in Nat /\ p + LLook <= Len(S) /\ p + LLook <= cksum_pos'
  <2> DEFINE last == bytes - LLook
             old  == IndexPos % Blk
  <2>1. PICK j \in 0 .. Blk : /\ p = b * Blk + last - j * LStep
                              /\ j = 0 \/ last - j * LStep >= old
    BY <1>12 DEF Inserted
  <2>2. j \in Nat /\ (j = 0 => j * st = 0) /\ j * st \in Nat
    BY <1>9, <2>1
  <2>3. PICK d \in Nat : d = j * LStep /\ (j = 0 => d = 0)
    BY <1>9, <2>2
  <2>4. PICK t \in Nat : t = old
    BY <1>9, Division
  <2>5. d <= y - l
    <3>1. l <= y
      BY <1>9, <1>12
    <3>2. j = 0 \/ y - l - d >= t
      BY <1>9, <2>1, <2>3, <2>4
    <3>3. QED
      BY <2>3, <3>1, <3>2
  <2>6. p = q * k + (y - l) - d
    BY <1>9, <2>1, <2>3
  <2>7. y # 0 /\ y <= k /\ q * k + y <= Len(S)
    <3>1. y # 0
      BY <1>9, <1>12
    <3>2. QED
      BY <1>8, <1>9, <3>1
  <2>8. Len(S) \in Nat
    BY <1>1, StateNumbers
  <2>9. p \in Nat /\ p + l <= q * k + y
    BY <1>10, <2>5, <2>6
  <2>10. p + l <= Len(S) /\ p + l <= (q + 1) * k
    BY <1>10, <2>7, <2>8, <2>9
  <2>11. QED
    BY <1>9, <1>11, <2>9, <2>10
<1>13. table' \in [0 .. LSlots - 1 -> Nat]
       /\ \A h \in 0 .. LSlots - 1 :
            table'[h] = table[h] \/ (table'[h] - 1 + LLook <= Len(S) /\ table'[h] - 1 + LLook <= cksum_pos')
  <2>1. table \in [0 .. LSlots - 1 -> Nat]
    BY <1>1 DEF TypeInv
  <2>2. CASE bytes < LLook
    BY <1>2, <2>1, <2>2
  <2>3. CASE ~(bytes < LLook)
    <3> DEFINE I == Inserted(bytes)
    <3>1. I \subseteq Nat /\ \A p \in I : p + LLook <= Len(S) /\ p + LLook <= cksum_pos'
      BY <1>12, <2>3
    <3>2. table' = Insert(I)
      BY <1>2, <2>3
    <3> HIDE DEF I
    <3>3. /\ Insert(I) \in [0 .. LSlots - 1 -> Nat]
          /\ \A h \in 0 .. LSlots - 1 : Insert(I)[h] = table[h] \/ Insert(I)[h] - 1 \in I
      BY <2>1, <3>1, InsertFacts
    <3>4. QED
      BY <3>1, <3>2, <3>3
  <2>4. QED
    BY <2>2, <2>3
<1>14. IndexInv'
  <2>1. InSource(maxsrcaddr)'
    <3>1. InSource(maxsrcaddr) /\ maxsrcaddr \in Nat
      BY <1>1, StateNumbers DEF IndexInv
    <3>2. InSource(maxsrcaddr)' <=> (maxsrcaddr' <= Len(S)' /\ maxsrcaddr' <= (src'.max_blkno + 1) * Blk')
      BY DEF InSource, Seen
    <3>3. \A m \in Nat : InSource(m) => InSource(m)'
      BY <1>1, <1>2, <1>6, <1>7, SeenStays
    <3>4. QED
      BY <1>2, <3>1, <3>3 DEF InSource, Seen
  <2>2. Seen(cksum_pos)'
    <3>1. \A m \in Nat : m <= (b + 1) * Blk => Seen(m)'
      BY <1>1, <1>2, <1>6, <1>7, SeenStays
    <3>2. cksum_pos' <= (b + 1) * Blk
      BY <1>9, <1>11
    <3>3. PICK m \in Nat : m = cksum_pos'
      BY <1>11
    <3>4. Seen(m)'
      BY <3>1, <3>2, <3>3
    <3>5. QED
      BY <3>3, <3>4 DEF Seen
  <2>3. ASSUME NEW h \in 0 .. LSlots - 1, table'[h] # 0
        PROVE  table'[h] - 1 + LLook <= Len(S)' /\ table'[h] - 1 + LLook <= cksum_pos'
    <3>1. CASE table'[h] = table[h]
      <4>1. table[h] - 1 + LLook <= Len(S) /\ table[h] - 1 + LLook <= cksum_pos
        BY <1>1, <2>3, <3>1 DEF IndexInv
      <4>2. table[h] \in Nat
        BY <1>1 DEF TypeInv
      <4>3. table[h] - 1 + l <= cksum_pos'
        BY <1>9, <1>11, <4>1, <4>2
      <4>4. QED
        BY <1>3, <1>9, <3>1, <4>1, <4>3
    <3>2. CASE table'[h] # table[h]
      BY <1>3, <1>13, <3>2
    <3>3. QED
      BY <3>1, <3>2
  <2>4. pc' = "MOVE" /\ Blk' <= cksum_pos'
    BY <1>2, <1>3, <1>11
  <2>5. QED
    BY <2>1, <2>2, <2>3, <2>4 DEF IndexInv
<1> HIDE DEF b, bytes
<1>15. src' \in [cur : Int, highest : Nat, max_blkno : Nat, onlastblk : Nat, eof_known : BOOLEAN]
       /\ BlocksInv'
  BY <1>7 DEF GotBlock
<1>16. TypeInv'
  BY <1>1, <1>2, <1>3, <1>11, <1>13, <1>15 DEF TypeInv, posVars, smallVars, idxVars, outVars, inVars
<1>17. PosInv'
  BY <1>1, <1>2, <1>3 DEF PosInv, Looking, posVars
<1>18. SmallInv'
  <2>1. input_position \in Nat /\ input_position' = input_position /\ small_table' = small_table
    BY <1>1, <1>2, StateNumbers DEF posVars, smallVars
  <2>2. QED
    BY <1>1, <1>2, <2>1, SmallStays DEF Slack
<1>19. SearchInv' /\ NewInv'
  BY <1>1, <1>2, SearchStays DEF NewInv
<1>20. UsedInv' /\ WinInv' /\ EncodedInv'
  BY <1>1, <1>2, OutStays
<1>21. MatchInv'
  <2>1. ~InExtension
    BY <1>1, <1>2 DEF MatchInv
  <2>2. match.srcpos \in Nat /\ (match.state = "TARGET" => InSource(match.srcpos))
    BY <1>1 DEF TypeInv, MatchInv
  <2>3. \A m \in Nat : InSource(m) => InSource(m)'
    BY <1>1, <1>2, <1>6, <1>7, SeenStays
  <2>4. match'.state = "TARGET" => InSource(match.srcpos)'
    BY <1>2, <2>2, <2>3 DEF InSource, Seen
  <2>5. QED
    BY <1>1, <1>2, <2>1, <2>4 DEF MatchInv, InExtension
<1>22. QED
  BY <1>14, <1>15, <1>16, <1>17, <1>18, <1>19, <1>20, <1>21 DEF IInv

\* The index moves on without a block.
LEMMA IndexMoves ==
  ASSUME TypeInv, BlocksInv, IndexInv, UNCHANGED inVars, src' = src, table' = table, maxsrcaddr' = maxsrcaddr,
         NEW c \in Nat, cksum_pos' = c, Seen(c), src.eof_known => c <= Eof,
         cksum_pos <= c \/ (src.eof_known /\ c = Eof)
  PROVE  BlocksInv' /\ IndexInv'
<1>1. S' = S /\ Blk' = Blk
  BY SameWindow
<1>2. /\ EndIsKnown' = EndIsKnown /\ EndIsBlock' = EndIsBlock /\ Eof' = Eof
      /\ \A n : Seen(n)' = Seen(n)
  BY <1>1 DEF EndIsKnown, EndIsBlock, Eof, Seen
<1>3. BlocksInv'
  BY <1>1, <1>2 DEF BlocksInv
<1>4. cksum_pos \in Nat /\ Len(S) \in Nat /\ Eof \in Nat /\ LLook \in Nat /\ Blk \in Nat
  BY StateNumbers, EofFacts, Sizes
<1>5. ASSUME NEW h \in 0 .. LSlots - 1, table[h] # 0
      PROVE  table[h] - 1 + LLook <= Len(S) /\ table[h] - 1 + LLook <= c
  <2>1. table[h] - 1 + LLook <= Len(S) /\ table[h] - 1 + LLook <= cksum_pos
    BY <1>5 DEF IndexInv
  <2>2. table[h] \in Nat
    BY DEF TypeInv
  <2>3. src.eof_known => Len(S) <= Eof
    BY EofFacts
  <2>4. QED
    BY <1>4, <2>1, <2>2, <2>3
<1>6. src.eof_known /\ ~EndIsKnown => Blk <= c
  <2>1. src.eof_known /\ ~EndIsKnown => Eof = Blk /\ Blk <= cksum_pos
    BY EofFacts DEF IndexInv
  <2>2. QED
    BY <1>4, <2>1
<1>7. InSource(maxsrcaddr)' /\ Seen(cksum_pos)'
  BY <1>1 DEF IndexInv, InSource, Seen
<1>8. IndexInv'
  BY <1>1, <1>2, <1>5, <1>6, <1>7 DEF IndexInv
<1>9. QED
  BY <1>3, <1>8

LEMMA IndexAsksKeeps ==
  ASSUME IInv, IndexAsks
  PROVE  IInv'
<1>1. TypeInv /\ PosInv /\ BlocksInv /\ IndexInv /\ SmallInv /\ SearchInv /\ MatchInv
      /\ NewInv /\ UsedInv /\ WinInv /\ EncodedInv
  BY DEF IInv
<1>2. /\ pc = "MOVE" /\ IndexMore /\ pc' = "WAIT" /\ want' = IndexBlk /\ cksum_pos' = IndexPos
      /\ UNCHANGED posVars /\ UNCHANGED smallVars /\ match' = match /\ maxsrcaddr' = maxsrcaddr
      /\ table' = table /\ UNCHANGED outVars /\ UNCHANGED inVars /\ src' = src /\ new' = new
  BY DEF IndexAsks, AskFor
<1>3. /\ S' = S /\ T' = T /\ AvailIn' = AvailIn /\ Blk' = Blk /\ HasSource' = HasSource
      /\ enc' = enc /\ number' = number
  BY <1>2, SameWindow
<1>4. IndexPos \in Nat /\ cksum_pos <= IndexPos /\ Seen(IndexPos) /\ Blk \in Nat \ {0} /\ Eof \in Nat
  BY <1>1, IndexPosFacts, StateNumbers, EofFacts
<1>5. src.eof_known => IndexPos <= Eof
  BY <1>2, <1>4 DEF IndexMore
<1>6. IndexBlk \in Nat
  BY <1>4, Division DEF IndexBlk
<1>7. BlocksInv' /\ IndexInv'
  BY <1>1, <1>2, <1>4, <1>5, IndexMoves
<1>8. TypeInv'
  BY <1>1, <1>2, <1>3, <1>4, <1>6 DEF TypeInv, posVars, smallVars, outVars, inVars
<1>9. PosInv'
  BY <1>1, <1>2, <1>3 DEF PosInv, Looking, posVars
<1>10. SmallInv'
  <2>1. input_position \in Nat /\ input_position' = input_position /\ small_table' = small_table
    BY <1>1, <1>2, StateNumbers DEF posVars, smallVars
  <2>2. QED
    BY <1>1, <1>2, <2>1, SmallStays DEF Slack
<1>11. SearchInv' /\ NewInv'
  BY <1>1, <1>2, SearchStays DEF NewInv
<1>12. UsedInv' /\ WinInv' /\ EncodedInv'
  BY <1>1, <1>2, OutStays
<1>13. MatchInv'
  BY <1>1, <1>2, MatchRests DEF MatchInv
<1>14. QED
  BY <1>7, <1>8, <1>9, <1>10, <1>11, <1>12, <1>13 DEF IInv

LEMMA IndexEndsKeeps ==
  ASSUME IInv, IndexEnds
  PROVE  IInv'
<1>1. TypeInv /\ PosInv /\ BlocksInv /\ IndexInv /\ SmallInv /\ SearchInv /\ MatchInv
      /\ NewInv /\ UsedInv /\ WinInv /\ EncodedInv
  BY DEF IInv
<1>2. /\ pc = "MOVE" /\ ~IndexMore /\ pc' = "RUN"
      /\ IF src.eof_known /\ IndexPos >= Eof
           THEN cksum_pos' = Eof /\ next_move_point' = Forever
           ELSE cksum_pos' = IndexPos /\ next_move_point' = input_position + Blk
      /\ input_position' = input_position /\ min_match' = min_match
      /\ unencoded_offset' = unencoded_offset /\ loop' = loop
      /\ UNCHANGED smallVars /\ match' = match /\ maxsrcaddr' = maxsrcaddr
      /\ table' = table /\ UNCHANGED outVars /\ UNCHANGED inVars /\ src' = src /\ new' = new /\ want' = want
  BY DEF IndexEnds
<1>3. /\ S' = S /\ T' = T /\ AvailIn' = AvailIn /\ Blk' = Blk /\ HasSource' = HasSource
      /\ enc' = enc /\ number' = number
  BY <1>2, SameWindow
<1>4. /\ IndexPos \in Nat /\ cksum_pos <= IndexPos /\ Seen(IndexPos) /\ Blk \in Nat \ {0} /\ Eof \in Nat
      /\ input_position \in Nat /\ (src.eof_known => Seen(Eof))
  BY <1>1, IndexPosFacts, StateNumbers, EofFacts
<1>5. next_move_point' \in Nat
  BY <1>2, <1>4 DEF Forever
<1>6. /\ cksum_pos' \in Nat /\ Seen(cksum_pos') /\ (src.eof_known => cksum_pos' <= Eof)
      /\ cksum_pos <= cksum_pos' \/ (src.eof_known /\ cksum_pos' = Eof)
  <2>1. CASE src.eof_known /\ IndexPos >= Eof
    BY <1>2, <1>4, <2>1
  <2>2. CASE ~(src.eof_known /\ IndexPos >= Eof)
    <3>1. cksum_pos' = IndexPos
      BY <1>2, <2>2
    <3>2. QED
      BY <1>4, <2>2, <3>1
  <2>3. QED
    BY <2>1, <2>2
<1>7. BlocksInv' /\ IndexInv'
  <2>1. PICK c \in Nat : c = cksum_pos'
    BY <1>6
  <2>2. QED
    BY <1>1, <1>2, <1>6, <2>1, IndexMoves
<1>8. TypeInv'
  BY <1>1, <1>2, <1>3, <1>5, <1>6 DEF TypeInv, smallVars, outVars, inVars
<1>9. PosInv'
  BY <1>1, <1>2, <1>3 DEF PosInv, Looking
<1>10. SmallInv'
  <2>1. small_table' = small_table
    BY <1>2 DEF smallVars
  <2>2. QED
    BY <1>1, <1>2, <1>4, <2>1, SmallStays DEF Slack
<1>11. SearchInv' /\ NewInv'
  BY <1>1, <1>2, SearchStays DEF NewInv
<1>12. UsedInv' /\ WinInv' /\ EncodedInv'
  BY <1>1, <1>2, OutStays
<1>13. MatchInv'
  BY <1>1, <1>2, MatchRests DEF MatchInv
<1>14. QED
  BY <1>7, <1>8, <1>9, <1>10, <1>11, <1>12, <1>13 DEF IInv

-----------------------------------------------------------------------------
(* A turn of the loop: the run, and the source. *)

LEMMA FindRunKeeps ==
  ASSUME IInv, FindRun
  PROVE  IInv'
<1>1. TypeInv /\ PosInv /\ BlocksInv /\ IndexInv /\ SmallInv /\ SearchInv /\ MatchInv
      /\ NewInv /\ UsedInv /\ WinInv /\ EncodedInv
  BY DEF IInv
<1>2. /\ pc = "RUN" /\ RunFound /\ pc' = "SLOT"
      /\ loop' = [loop EXCEPT !.l = RunLength]
      /\ new' = [type |-> "RUN", pos |-> input_position - 0, size |-> 0 + RunLength, addr |-> 0,
                 mlen |-> RunLength, lazy |-> TRUE]
      /\ input_position' = input_position /\ min_match' = min_match
      /\ unencoded_offset' = unencoded_offset /\ next_move_point' = next_move_point
      /\ UNCHANGED smallVars /\ match' = match /\ UNCHANGED idxVars
      /\ UNCHANGED outVars /\ UNCHANGED inVars /\ src' = src /\ want' = want
  BY DEF FindRun, Found
<1>3. /\ S' = S /\ T' = T /\ AvailIn' = AvailIn /\ Blk' = Blk /\ HasSource' = HasSource
      /\ enc' = enc /\ number' = number
  BY <1>2, SameWindow
<1>4. input_position \in Nat /\ AvailIn \in Nat /\ min_match \in Nat /\ input_position + SLook <= AvailIn
      /\ MinMatch <= min_match /\ MinMatch \in Nat /\ MinRun \in Nat
  BY <1>1, <1>2, StateNumbers, Sizes DEF PosInv, Looking
<1>5. PICK n \in Nat : n = RunLength /\ input_position + n <= AvailIn
  BY <1>1, <1>4, RunLengthFacts
<1>6. MinMatch <= n
  <2>1. n >= Larger(min_match, MinRun)
    BY <1>2, <1>5 DEF RunFound
  <2>2. QED
    BY <1>4, <1>5, <2>1 DEF Larger
<1>7. loop' \in Runs
  BY <1>1, <1>2, <1>5 DEF TypeInv, Runs
<1>8. NewInv'
  <2>1. new' = [type |-> "RUN", pos |-> input_position, size |-> n, addr |-> 0, mlen |-> n, lazy |-> TRUE]
    <3>1. input_position - 0 = input_position /\ 0 + n = n
      BY <1>4
    <3>2. QED
      BY <1>2, <1>5, <3>1
  <2>2. new' \in Matches
    BY <1>4, <2>1 DEF Matches
  <2>3. Good(new)'
    BY <1>4, <2>1 DEF Good, End, InWindow
  <2>4. QED
    BY <1>2, <1>3, <1>4, <1>5, <1>6, <2>1, <2>2, <2>3 DEF NewInv
<1>9. TypeInv'
  BY <1>1, <1>2, <1>3, <1>7 DEF TypeInv, smallVars, idxVars, outVars, inVars
<1>10. PosInv'
  BY <1>1, <1>2, <1>3 DEF PosInv, Looking
<1>11. SmallInv'
  <2>1. small_table' = small_table
    BY <1>2 DEF smallVars
  <2>2. QED
    BY <1>1, <1>2, <1>4, <2>1, SmallStays DEF Slack
<1>12. SearchInv'
  BY <1>2, SearchStays
<1>13. BlocksInv' /\ IndexInv'
  BY <1>1, <1>2, SourceStays
<1>14. UsedInv' /\ WinInv' /\ EncodedInv'
  BY <1>1, <1>2, OutStays
<1>15. MatchInv'
  BY <1>1, <1>2, MatchRests DEF MatchInv
<1>16. QED
  BY <1>8, <1>9, <1>10, <1>11, <1>12, <1>13, <1>14, <1>15 DEF IInv

LEMMA NoRunKeeps ==
  ASSUME IInv, NoRun
  PROVE  IInv'
<1>1. TypeInv /\ PosInv /\ BlocksInv /\ IndexInv /\ SmallInv /\ SearchInv /\ MatchInv
      /\ NewInv /\ UsedInv /\ WinInv /\ EncodedInv
  BY DEF IInv
<1>2. /\ pc = "RUN" /\ pc' = "AT"
      /\ loop' = IF RunStarts THEN [loop EXCEPT !.l = RunLength] ELSE loop
      /\ input_position' = input_position /\ min_match' = min_match
      /\ unencoded_offset' = unencoded_offset /\ next_move_point' = next_move_point
      /\ UNCHANGED smallVars /\ match' = match /\ UNCHANGED idxVars
      /\ UNCHANGED outVars /\ UNCHANGED inVars /\ src' = src /\ new' = new /\ want' = want
  BY DEF NoRun
<1>3. /\ S' = S /\ T' = T /\ AvailIn' = AvailIn /\ Blk' = Blk /\ HasSource' = HasSource
      /\ enc' = enc /\ number' = number
  BY <1>2, SameWindow
<1>4. input_position \in Nat /\ AvailIn \in Nat /\ input_position + SLook <= AvailIn
  BY <1>1, <1>2, StateNumbers DEF PosInv, Looking
<1>5. PICK n \in Nat : n = RunLength
  BY <1>1, <1>4, RunLengthFacts
<1>6. loop' \in Runs
  BY <1>1, <1>2, <1>5 DEF TypeInv, Runs
<1>7. TypeInv'
  BY <1>1, <1>2, <1>3, <1>6 DEF TypeInv, smallVars, idxVars, outVars, inVars
<1>8. PosInv'
  BY <1>1, <1>2, <1>3 DEF PosInv, Looking
<1>9. SmallInv'
  <2>1. small_table' = small_table
    BY <1>2 DEF smallVars
  <2>2. QED
    BY <1>1, <1>2, <1>4, <2>1, SmallStays DEF Slack
<1>10. SearchInv' /\ NewInv'
  BY <1>1, <1>2, SearchStays DEF NewInv
<1>11. BlocksInv' /\ IndexInv'
  BY <1>1, <1>2, SourceStays
<1>12. UsedInv' /\ WinInv' /\ EncodedInv'
  BY <1>1, <1>2, OutStays
<1>13. MatchInv'
  BY <1>1, <1>2, MatchRests DEF MatchInv
<1>14. QED
  BY <1>7, <1>8, <1>9, <1>10, <1>11, <1>12, <1>13 DEF IInv

LEMMA MoveAgainKeeps ==
  ASSUME IInv, MoveAgain
  PROVE  IInv'
<1>1. TypeInv /\ PosInv /\ BlocksInv /\ IndexInv /\ SmallInv /\ SearchInv /\ MatchInv
      /\ NewInv /\ UsedInv /\ WinInv /\ EncodedInv
  BY DEF IInv
<1>2. /\ pc = "AT" /\ LargeFits(input_position) /\ pc' = "MOVE"
      /\ UNCHANGED posVars /\ UNCHANGED smallVars /\ match' = match /\ UNCHANGED idxVars
      /\ UNCHANGED outVars /\ UNCHANGED inVars /\ src' = src /\ new' = new /\ want' = want
  BY DEF MoveAgain
<1>3. /\ S' = S /\ T' = T /\ AvailIn' = AvailIn /\ Blk' = Blk /\ HasSource' = HasSource
      /\ enc' = enc /\ number' = number
  BY <1>2, SameWindow
<1>4. HasSource
  BY <1>2 DEF LargeFits
<1>5. TypeInv'
  BY <1>1, <1>2, <1>3 DEF TypeInv, posVars, smallVars, idxVars, outVars, inVars
<1>6. PosInv'
  BY <1>1, <1>2, <1>3, <1>4 DEF PosInv, Looking, posVars
<1>7. SmallInv'
  <2>1. input_position \in Nat /\ input_position' = input_position /\ small_table' = small_table
    BY <1>1, <1>2, StateNumbers DEF posVars, smallVars
  <2>2. QED
    BY <1>1, <1>2, <2>1, SmallStays DEF Slack
<1>8. SearchInv' /\ NewInv'
  BY <1>1, <1>2, SearchStays DEF NewInv
<1>9. BlocksInv' /\ IndexInv'
  <2>1. src'.max_blkno = src.max_blkno /\ src'.onlastblk = src.onlastblk /\ src'.eof_known = src.eof_known
    BY <1>2
  <2>2. S' = S /\ Blk' = Blk /\ cksum_pos' = cksum_pos /\ maxsrcaddr' = maxsrcaddr /\ table' = table
    BY <1>2, <1>3 DEF idxVars
  <2>3. EndIsKnown' = EndIsKnown /\ EndIsBlock' = EndIsBlock
    BY <2>1, <2>2 DEF EndIsKnown, EndIsBlock
  <2>4. BlocksInv'
    BY <1>1, <2>1, <2>2, <2>3 DEF BlocksInv
  <2>5. InSource(maxsrcaddr)' /\ Seen(cksum_pos)'
    BY <1>1, <2>1, <2>2 DEF IndexInv, InSource, Seen
  <2>6. IndexInv'
    BY <1>1, <1>2, <2>1, <2>2, <2>3, <2>5 DEF IndexInv
  <2>7. QED
    BY <2>4, <2>6
<1>10. UsedInv' /\ WinInv' /\ EncodedInv'
  BY <1>1, <1>2, OutStays
<1>11. MatchInv'
  BY <1>1, <1>2, MatchRests DEF MatchInv
<1>12. QED
  BY <1>5, <1>6, <1>7, <1>8, <1>9, <1>10, <1>11 DEF IInv

LEMMA LargeSearchKeeps ==
  ASSUME IInv, LargeSearch
  PROVE  IInv'
<1>1. TypeInv /\ PosInv /\ BlocksInv /\ IndexInv /\ SmallInv /\ SearchInv /\ MatchInv
      /\ NewInv /\ UsedInv /\ WinInv /\ EncodedInv
  BY DEF IInv
<1>2. /\ pc = "AT" /\ LargeFits(input_position) /\ LargeEntry # 0 /\ SetupOk(LargePos) /\ pc' = "EXTEND"
      /\ SetupMatch(LargePos, "BACKWARD", "loop")
      /\ UNCHANGED posVars /\ UNCHANGED smallVars /\ UNCHANGED idxVars
      /\ UNCHANGED outVars /\ UNCHANGED inVars /\ src' = src /\ new' = new /\ want' = want
  BY DEF LargeSearch
<1>3. /\ S' = S /\ T' = T /\ AvailIn' = AvailIn /\ Blk' = Blk /\ HasSource' = HasSource
      /\ enc' = enc /\ number' = number
  BY <1>2, SameWindow
<1>4. HasSource
  BY <1>2 DEF LargeFits
<1>5. LargePos \in Nat /\ InSource(LargePos)
  BY <1>1, <1>2, LargePosFacts
<1>6. win' = win /\ (win.decided => win.base <= LargePos /\ LargePos <= win.base + win.len)
  BY <1>2 DEF outVars, SetupOk
<1>7. MatchInv' /\ match' \in Tries
  BY <1>1, <1>2, <1>5, <1>6, SetupFacts
<1>8. input_position + SLook <= AvailIn
  BY <1>1, <1>2 DEF PosInv, Looking
<1>9. TypeInv'
  BY <1>1, <1>2, <1>3, <1>7 DEF TypeInv, posVars, smallVars, idxVars, outVars, inVars
<1>10. PosInv'
  BY <1>1, <1>2, <1>3, <1>4, <1>8 DEF PosInv, Looking, posVars
<1>11. SmallInv'
  <2>1. input_position \in Nat /\ input_position' = input_position /\ small_table' = small_table
    BY <1>1, <1>2, StateNumbers DEF posVars, smallVars
  <2>2. QED
    BY <1>1, <1>2, <2>1, SmallStays DEF Slack
<1>12. SearchInv' /\ NewInv'
  BY <1>1, <1>2, SearchStays DEF NewInv
<1>13. BlocksInv' /\ IndexInv'
  BY <1>1, <1>2, SourceStays
<1>14. UsedInv' /\ WinInv' /\ EncodedInv'
  BY <1>1, <1>2, OutStays
<1>15. QED
  BY <1>7, <1>9, <1>10, <1>11, <1>12, <1>13, <1>14 DEF IInv

LEMMA NoLargeKeeps ==
  ASSUME IInv, NoLarge
  PROVE  IInv'
<1>1. TypeInv /\ PosInv /\ BlocksInv /\ IndexInv /\ SmallInv /\ SearchInv /\ MatchInv
      /\ NewInv /\ UsedInv /\ WinInv /\ EncodedInv
  BY DEF IInv
<1>2. /\ pc = "AT" /\ pc' = "SMALL"
      /\ match' = IF LargeFits(input_position) /\ LargeEntry # 0
                    THEN [match EXCEPT !.state = "SEARCHING", !.last_srcpos = LargePos,
                                       !.back = 0, !.fwd = 0, !.maxback = 0, !.maxfwd = 0]
                    ELSE match
      /\ UNCHANGED posVars /\ UNCHANGED smallVars /\ UNCHANGED idxVars
      /\ UNCHANGED outVars /\ UNCHANGED inVars /\ src' = src /\ new' = new /\ want' = want
  BY DEF NoLarge
<1>3. /\ S' = S /\ T' = T /\ AvailIn' = AvailIn /\ Blk' = Blk /\ HasSource' = HasSource
      /\ enc' = enc /\ number' = number
  BY <1>2, SameWindow
<1>4. MatchInv' /\ match' \in Tries
  <2>1. CASE LargeFits(input_position) /\ LargeEntry # 0
    <3>1. PICK p \in Nat : p = LargePos
      BY <1>1, <1>2, <2>1, LargePosFacts
    <3>2. match' = [match EXCEPT !.state = "SEARCHING", !.last_srcpos = p,
                                 !.back = 0, !.fwd = 0, !.maxback = 0, !.maxfwd = 0]
      BY <1>2, <2>1, <3>1
    <3>3. match' \in Tries /\ match'.state = "SEARCHING" /\ match'.back = 0
      BY <1>1, <3>2 DEF TypeInv
    <3>4. QED
      BY <1>1, <3>3, MatchGivenUp
  <2>2. CASE ~(LargeFits(input_position) /\ LargeEntry # 0)
    <3>1. match' = match /\ ~InExtension
      BY <1>1, <1>2, <2>2 DEF MatchInv
    <3>2. QED
      BY <1>1, <1>2, <3>1, MatchRests DEF TypeInv
  <2>3. QED
    BY <2>1, <2>2
<1>5. TypeInv'
  BY <1>1, <1>2, <1>3, <1>4 DEF TypeInv, posVars, smallVars, idxVars, outVars, inVars
<1>6. PosInv'
  BY <1>1, <1>2, <1>3 DEF PosInv, Looking, posVars
<1>7. SmallInv'
  <2>1. input_position \in Nat /\ input_position' = input_position /\ small_table' = small_table
    BY <1>1, <1>2, StateNumbers DEF posVars, smallVars
  <2>2. QED
    BY <1>1, <1>2, <2>1, SmallStays DEF Slack
<1>8. SearchInv' /\ NewInv'
  BY <1>1, <1>2, SearchStays DEF NewInv
<1>9. BlocksInv' /\ IndexInv'
  BY <1>1, <1>2, SourceStays
<1>10. UsedInv' /\ WinInv' /\ EncodedInv'
  BY <1>1, <1>2, OutStays
<1>11. QED
  BY <1>4, <1>5, <1>6, <1>7, <1>8, <1>9, <1>10 DEF IInv

-----------------------------------------------------------------------------
(* xd3_smatch. *)

LEMMA StartSmallKeeps ==
  ASSUME IInv, StartSmall
  PROVE  IInv'
<1>1. TypeInv /\ PosInv /\ BlocksInv /\ IndexInv /\ SmallInv /\ SearchInv /\ MatchInv
      /\ NewInv /\ UsedInv /\ WinInv /\ EncodedInv
  BY DEF IInv
<1> DEFINE entry == IF enc.small THEN small_table[SmallSlot(input_position)] ELSE 0
<1>2. /\ pc = "SMALL"
      /\ IF entry = 0 THEN pc' = "CHOSEN" /\ search' = NoSearch
         ELSE pc' = "COMPARE" /\ search' = [NoSearch EXCEPT !.base = entry - 1, !.chain = Chain]
      /\ small_table' = small_table /\ small_prev' = small_prev
      /\ UNCHANGED posVars /\ match' = match /\ UNCHANGED idxVars
      /\ UNCHANGED outVars /\ UNCHANGED inVars /\ src' = src /\ new' = new /\ want' = want
  BY DEF StartSmall
<1>3. /\ S' = S /\ T' = T /\ AvailIn' = AvailIn /\ Blk' = Blk /\ HasSource' = HasSource
      /\ enc' = enc /\ number' = number
  BY <1>2, SameWindow
<1>4. input_position \in Nat /\ AvailIn \in Nat /\ SLook \in Nat /\ input_position + SLook <= AvailIn
  BY <1>1, <1>2, StateNumbers, Sizes DEF PosInv, Looking
<1>5. entry \in Nat /\ entry <= input_position
  <2>1. CASE enc.small
    <3>1. \A i \in 1 .. SLook : T[input_position + i] \in Nat
      <4>1. ASSUME NEW i \in 1 .. SLook PROVE T[input_position + i] \in Nat
        <5>1. input_position + i \in 1 .. AvailIn
          BY <1>4
        <5>2. QED
          BY <1>1, <5>1, TargetFacts
      <4>2. QED
        BY <4>1
    <3>2. SmallSlot(input_position) \in 0 .. SSlots - 1
      BY <1>4, <3>1, SmallSlotType
    <3>3. PICK h \in 0 .. SSlots - 1 : h = SmallSlot(input_position)
      BY <3>2
    <3>4. small_table[h] \in Nat
      BY <1>1 DEF TypeInv
    <3>5. small_table[h] <= input_position + (IF pc \in {"SLOT", "INSTR", "HEADER"} THEN 1 ELSE 0)
      BY <1>1 DEF SmallInv
    <3>6. small_table[h] <= input_position
      BY <1>2, <1>4, <3>4, <3>5
    <3>7. QED
      BY <2>1, <3>3, <3>4, <3>6
  <2>2. CASE ~enc.small
    BY <1>4, <2>2
  <2>3. QED
    BY <2>1, <2>2
<1> HIDE DEF entry
<1>6. pc' \in {"CHOSEN", "COMPARE"} /\ search' \in [base : Nat, chain : Int, len : Nat, offset : Nat]
      /\ search'.len = 0 /\ (pc' = "COMPARE" => search'.base < input_position)
  <2>1. CASE entry = 0
    BY <1>2, <2>1 DEF NoSearch
  <2>2. CASE entry # 0
    <3>1. PICK c \in Int : c = Chain
      BY Sizes DEF Chain
    <3>2. PICK b \in Nat : b = entry - 1 /\ b < input_position
      BY <1>4, <1>5, <2>2
    <3>3. pc' = "COMPARE" /\ search' = [base |-> b, chain |-> c, len |-> 0, offset |-> 0]
      BY <1>2, <2>2, <3>1, <3>2 DEF NoSearch
    <3>4. QED
      BY <3>2, <3>3
  <2>3. QED
    BY <2>1, <2>2
<1>7. TypeInv'
  BY <1>1, <1>2, <1>3, <1>6 DEF TypeInv, posVars, idxVars, outVars, inVars
<1>8. PosInv'
  BY <1>1, <1>2, <1>3, <1>6 DEF PosInv, Looking, posVars
<1>9. SmallInv'
  <2>1. input_position' = input_position
    BY <1>2 DEF posVars
  <2>2. QED
    BY <1>1, <1>2, <1>4, <1>6, <2>1, SmallStays DEF Slack
<1>10. SearchInv'
  <2>1. input_position' = input_position
    BY <1>2 DEF posVars
  <2>2. QED
    BY <1>6, <2>1 DEF SearchInv
<1>11. NewInv'
  BY <1>1, <1>2, <1>6 DEF NewInv
<1>12. BlocksInv' /\ IndexInv'
  BY <1>1, <1>2, SourceStays
<1>13. UsedInv' /\ WinInv' /\ EncodedInv'
  BY <1>1, <1>2, <1>6, OutStays
<1>14. MatchInv'
  BY <1>1, <1>2, MatchRests DEF MatchInv
<1>15. QED
  BY <1>7, <1>8, <1>9, <1>10, <1>11, <1>12, <1>13, <1>14 DEF IInv

LEMMA CompareKeeps ==
  ASSUME IInv, Compare
  PROVE  IInv'
<1>1. TypeInv /\ PosInv /\ BlocksInv /\ IndexInv /\ SmallInv /\ SearchInv /\ MatchInv
      /\ NewInv /\ UsedInv /\ WinInv /\ EncodedInv
  BY DEF IInv
<1> DEFINE len    == Alike(search.base)
           longer == len > search.len
           enough == longer /\ len >= Smaller(LongEnough, AvailIn - input_position)
           chosen == IF longer THEN [search EXCEPT !.len = len, !.offset = search.base] ELSE search
<1>2. /\ pc = "COMPARE"
      /\ IF ~enough /\ GoesOn
           THEN search' = [chosen EXCEPT !.base = PrevPos, !.chain = @ - 1] /\ pc' = pc
           ELSE search' = chosen /\ pc' = "CHOSEN"
      /\ small_table' = small_table /\ small_prev' = small_prev
      /\ UNCHANGED posVars /\ match' = match /\ UNCHANGED idxVars
      /\ UNCHANGED outVars /\ UNCHANGED inVars /\ src' = src /\ new' = new /\ want' = want
  BY DEF Compare
<1>3. /\ S' = S /\ T' = T /\ AvailIn' = AvailIn /\ Blk' = Blk /\ HasSource' = HasSource
      /\ enc' = enc /\ number' = number
  BY <1>2, SameWindow
<1>4. input_position \in Nat /\ AvailIn \in Nat /\ input_position <= AvailIn
  BY <1>1, StateNumbers DEF PosInv
<1>5. PICK b \in Nat, c \in Int, l \in Nat, o \in Nat : search = [base |-> b, chain |-> c, len |-> l, offset |-> o]
  BY <1>1 DEF TypeInv
<1>6. b < input_position
  BY <1>1, <1>2, <1>5 DEF SearchInv
<1>7. l > 0 => /\ o < input_position /\ input_position + l <= AvailIn
               /\ \A i \in 1 .. l : T[o + i] = T[input_position + i]
  BY <1>1, <1>2, <1>5 DEF SearchInv
<1>8. /\ Alike(b) \in Nat /\ input_position + Alike(b) <= AvailIn
      /\ \A i \in 1 .. Alike(b) : T[b + i] = T[input_position + i]
  BY <1>1, <1>4, AlikeFacts
<1>9. PICK ll \in Nat, oo \in Nat :
        /\ chosen = [base |-> b, chain |-> c, len |-> ll, offset |-> oo]
        /\ ll > 0 => /\ oo < input_position /\ input_position + ll <= AvailIn
                     /\ \A i \in 1 .. ll : T[oo + i] = T[input_position + i]
  <2>1. CASE longer
    <3>1. PICK a \in Nat : a = Alike(b) /\ a = len
      BY <1>5, <1>8
    <3>2. chosen = [base |-> b, chain |-> c, len |-> a, offset |-> b]
      BY <1>5, <2>1, <3>1
    <3>3. \A i \in 1 .. a : T[b + i] = T[input_position + i]
      BY <1>8, <3>1
    <3> HIDE DEF chosen
    <3>4. QED
      BY <1>6, <1>8, <3>1, <3>2, <3>3
  <2>2. CASE ~longer
    <3>1. chosen = [base |-> b, chain |-> c, len |-> l, offset |-> o]
      BY <1>5, <2>2
    <3> HIDE DEF chosen
    <3>2. QED
      BY <1>7, <3>1
  <2>3. QED
    BY <2>1, <2>2
<1> HIDE DEF chosen, enough
<1>10. PICK bb \in Nat, cc \in Int :
         /\ search' = [base |-> bb, chain |-> cc, len |-> ll, offset |-> oo] /\ bb < input_position
         /\ pc' \in {"COMPARE", "CHOSEN"}
  <2>1. CASE ~enough /\ GoesOn
    <3>1. PrevPos \in 0 .. b
      BY <1>5, <2>1 DEF GoesOn
    <3>2. PICK q \in Nat : q = PrevPos /\ q < input_position
      BY <1>4, <1>6, <3>1
    <3>3. PICK d \in Int : d = c - 1
      OBVIOUS
    <3>4. search' = [base |-> q, chain |-> d, len |-> ll, offset |-> oo]
      BY <1>2, <1>9, <2>1, <3>2, <3>3
    <3>5. pc' = "COMPARE"
      BY <1>2, <2>1
    <3>6. QED
      BY <3>2, <3>4, <3>5
  <2>2. CASE ~(~enough /\ GoesOn)
    BY <1>2, <1>6, <1>9, <2>2
  <2>3. QED
    BY <2>1, <2>2
<1>11. search' \in [base : Nat, chain : Int, len : Nat, offset : Nat]
  BY <1>10
<1>12. TypeInv'
  BY <1>1, <1>2, <1>3, <1>10, <1>11 DEF TypeInv, posVars, idxVars, outVars, inVars
<1>13. PosInv'
  BY <1>1, <1>2, <1>3, <1>10 DEF PosInv, Looking, posVars
<1>14. input_position' = input_position
  BY <1>2 DEF posVars
<1>15. SmallInv'
  BY <1>1, <1>2, <1>4, <1>10, <1>14, SmallStays DEF Slack
<1>16. SearchInv'
  <2>1. search'.len = ll /\ search'.offset = oo /\ search'.base = bb
    BY <1>10
  <2>2. QED
    BY <1>3, <1>9, <1>10, <1>14, <2>1 DEF SearchInv
<1>17. NewInv'
  BY <1>1, <1>2, <1>10 DEF NewInv
<1>18. BlocksInv' /\ IndexInv'
  BY <1>1, <1>2, <1>10, SourceStays
<1>19. UsedInv' /\ WinInv' /\ EncodedInv'
  BY <1>1, <1>2, <1>10, OutStays
<1>20. MatchInv'
  BY <1>1, <1>2, MatchRests DEF MatchInv
<1>21. QED
  BY <1>12, <1>13, <1>15, <1>16, <1>17, <1>18, <1>19, <1>20 DEF IInv

\* xd3_scksum_insert puts the place into the table, and the matcher moves on.
LEMMA InsertSmallFacts ==
  ASSUME TypeInv, SmallInv, InsertSmall, UNCHANGED inVars, pc = "CHOSEN", input_position + SLook <= AvailIn,
         \/ input_position' = input_position /\ pc' \in Slack
         \/ input_position' = input_position + 1
  PROVE  SmallInv' /\ small_table' \in [0 .. SSlots - 1 -> Nat]
<1>1. AvailIn' = AvailIn
  BY SameWindow
<1>2. PICK ip \in Nat, n \in Nat, l \in Nat \ {0} : ip = input_position /\ n = AvailIn /\ l = SLook
  BY StateNumbers, Sizes
<1>3. small_table \in [0 .. SSlots - 1 -> Nat]
  BY DEF TypeInv
<1>4. \A h \in 0 .. SSlots - 1 : small_table[h] <= n /\ small_table[h] <= ip
  <2>1. ASSUME NEW h \in 0 .. SSlots - 1 PROVE small_table[h] <= n /\ small_table[h] <= ip
    <3>1. /\ small_table[h] <= AvailIn
          /\ small_table[h] <= input_position + (IF pc \in {"SLOT", "INSTR", "HEADER"} THEN 1 ELSE 0)
      BY DEF SmallInv
    <3>2. QED
      BY <1>2, <3>1
  <2>2. QED
    BY <2>1
<1>5. small_table' \in [0 .. SSlots - 1 -> Nat]
      /\ \A h \in 0 .. SSlots - 1 : small_table'[h] = small_table[h] \/ small_table'[h] = ip + 1
  <2>1. CASE ~enc.small
    BY <1>3, <2>1 DEF InsertSmall
  <2>2. CASE enc.small
    <3>1. PICK s : s = SmallSlot(input_position)
      OBVIOUS
    <3>2. PICK v \in Nat : v = ip + 1
      OBVIOUS
    <3>3. small_table' = [small_table EXCEPT ![s] = v]
      BY <1>2, <2>2, <3>1, <3>2 DEF InsertSmall
    <3>4. small_table' \in [0 .. SSlots - 1 -> Nat]
      BY <1>3, <3>3
    <3>5. \A h \in 0 .. SSlots - 1 : small_table'[h] = small_table[h] \/ small_table'[h] = v
      BY <1>3, <3>3
    <3>6. QED
      BY <3>2, <3>4, <3>5
  <2>3. QED
    BY <2>1, <2>2
<1>6. ip + 1 <= n
  BY <1>2
<1>7. ASSUME NEW h \in 0 .. SSlots - 1
      PROVE  /\ small_table[h]' <= AvailIn'
             /\ small_table[h]' <= input_position' + (IF pc' \in {"SLOT", "INSTR", "HEADER"} THEN 1 ELSE 0)
  <2>1. PICK v \in Nat, w \in Nat : v = small_table[h] /\ w = small_table'[h] /\ (w = v \/ w = ip + 1)
    BY <1>2, <1>3, <1>5
  <2>2. w <= n /\ w <= ip + 1
    BY <1>2, <1>4, <1>6, <2>1
  <2>3. CASE input_position' = input_position /\ pc' \in Slack
    BY <1>1, <1>2, <2>1, <2>2, <2>3 DEF Slack
  <2>4. CASE input_position' = input_position + 1
    BY <1>1, <1>2, <2>1, <2>2, <2>4
  <2>5. QED
    BY <2>3, <2>4
<1>8. QED
  BY <1>5, <1>7 DEF SmallInv

LEMMA EndSmallKeeps ==
  ASSUME IInv, EndSmall
  PROVE  IInv'
<1>1. TypeInv /\ PosInv /\ BlocksInv /\ IndexInv /\ SmallInv /\ SearchInv /\ MatchInv
      /\ NewInv /\ UsedInv /\ WinInv /\ EncodedInv
  BY DEF IInv
<1>2. /\ pc = "CHOSEN" /\ InsertSmall /\ search' = NoSearch
      /\ match' = match /\ UNCHANGED idxVars
      /\ UNCHANGED outVars /\ UNCHANGED inVars /\ src' = src /\ want' = want
  BY DEF EndSmall
<1>3. /\ S' = S /\ T' = T /\ AvailIn' = AvailIn /\ Blk' = Blk /\ HasSource' = HasSource
      /\ enc' = enc /\ number' = number
  BY <1>2, SameWindow
<1>4. input_position \in Nat /\ AvailIn \in Nat /\ SLook \in Nat \ {0} /\ input_position + SLook <= AvailIn
      /\ min_match \in Nat /\ MinMatch \in Nat \ {0} /\ MinMatch <= min_match
      /\ unencoded_offset \in Nat /\ unencoded_offset <= input_position
  BY <1>1, <1>2, StateNumbers, Sizes DEF PosInv, Looking
<1>5. search' \in [base : Nat, chain : Int, len : Nat, offset : Nat]
  BY <1>2 DEF NoSearch
<1>6. BlocksInv' /\ IndexInv' /\ MatchInv'
      /\ (pc' \notin {"START", "HEADER", "ENDED"} => UsedInv' /\ WinInv' /\ EncodedInv')
  <2>1. pc' # "MOVE"
    BY <1>4 DEF EndSmall, Found, UpdateOne
  <2>2. BlocksInv' /\ IndexInv'
    BY <1>1, <1>2, <2>1, SourceStays
  <2>3. MatchInv'
    BY <1>1, <1>2, MatchRests DEF MatchInv
  <2>4. pc' \notin {"START", "HEADER", "ENDED"} => UsedInv' /\ WinInv' /\ EncodedInv'
    BY <1>1, <1>2, OutStays
  <2>5. QED
    BY <2>2, <2>3, <2>4
<1>7. CASE MatchLength >= min_match
  <2>1. Found("CPY", 0, MatchLength, search.offset, TRUE) /\ UNCHANGED posVars
    BY <1>7 DEF EndSmall
  <2>2. PICK l \in Nat, o \in Nat : l = search.len /\ o = search.offset
    BY <1>1 DEF TypeInv
  <2>3. MatchLength = l /\ l >= min_match /\ l > 0
    <3>1. MatchLength = 0 \/ MatchLength = l
      BY <2>2 DEF MatchLength
    <3>2. QED
      BY <1>4, <1>7, <2>2, <3>1
  <2>4. /\ o < input_position /\ input_position + l <= AvailIn
        /\ \A i \in 1 .. l : T[o + i] = T[input_position + i]
    BY <1>1, <1>2, <2>2, <2>3 DEF SearchInv
  <2>5. new' = [type |-> "CPY", pos |-> input_position, size |-> l, addr |-> o, mlen |-> l, lazy |-> TRUE]
    <3>1. input_position - 0 = input_position /\ 0 + l = l
      BY <1>4
    <3>2. QED
      BY <2>1, <2>2, <2>3, <3>1 DEF Found
  <2>6. pc' = "SLOT"
    BY <2>1 DEF Found
  <2>7. input_position' = input_position
    BY <2>1 DEF posVars
  <2>8. NewInv'
    <3>1. new' \in Matches
      BY <1>4, <2>5 DEF Matches
    <3>2. SameBytes(new)'
      BY <1>3, <2>4, <2>5 DEF SameBytes
    <3>3. End(new)' \in Nat /\ InWindow(new)'
      BY <1>4, <2>5 DEF End, InWindow
    <3>4. Good(new)'
      BY <3>2, <3>3 DEF Good
    <3>5. new'.pos = input_position /\ new'.mlen = l
      BY <2>5
    <3>6. MinMatch <= l
      BY <1>4, <2>3
    <3>7. QED
      BY <1>3, <1>4, <2>4, <2>6, <2>7, <3>1, <3>4, <3>5, <3>6 DEF NewInv
  <2>9. SmallInv' /\ small_table' \in [0 .. SSlots - 1 -> Nat]
    BY <1>1, <1>2, <1>4, <2>6, <2>7, InsertSmallFacts DEF Slack
  <2>10. TypeInv'
    BY <1>1, <1>2, <1>3, <1>5, <2>1, <2>6, <2>9 DEF TypeInv, posVars, idxVars, outVars, inVars
  <2>11. PosInv'
    BY <1>1, <1>2, <1>3, <2>1, <2>6 DEF PosInv, Looking, posVars
  <2>12. SearchInv'
    BY <2>6, SearchStays
  <2>13. QED
    BY <1>6, <2>6, <2>8, <2>9, <2>10, <2>11, <2>12 DEF IInv
<1>8. CASE ~(MatchLength >= min_match)
  <2>1. /\ min_match' = IF min_match > MinMatch THEN min_match - 1 ELSE min_match
        /\ UpdateOne
        /\ unencoded_offset' = unencoded_offset /\ next_move_point' = next_move_point /\ new' = new
    BY <1>8 DEF EndSmall
  <2>2. min_match' \in Nat /\ MinMatch <= min_match'
    BY <1>4, <2>1
  <2>3. /\ loop' \in Runs
        /\ \/ pc' = "INSTR" /\ input_position' = input_position
           \/ pc' = "RUN" /\ input_position' = input_position + 1 /\ input_position + 1 + SLook <= AvailIn
    BY <1>1, <1>4, <2>1, UpdateFacts DEF Updated
  <2>4. input_position' \in Nat /\ input_position <= input_position' /\ input_position' <= AvailIn
        /\ (pc' = "RUN" => input_position' + SLook <= AvailIn)
    BY <1>4, <2>3
  <2>5. SmallInv' /\ small_table' \in [0 .. SSlots - 1 -> Nat]
    BY <1>1, <1>2, <1>4, <2>3, InsertSmallFacts DEF Slack
  <2>6. pc' \in {"INSTR", "RUN"}
    BY <2>3
  <2>7. TypeInv'
    BY <1>1, <1>2, <1>3, <1>5, <2>1, <2>2, <2>3, <2>4, <2>5, <2>6 DEF TypeInv, idxVars, outVars, inVars
  <2>8. PosInv'
    <3>1. unencoded_offset' <= input_position'
      BY <1>4, <2>1, <2>4
    <3>2. QED
      BY <1>3, <2>2, <2>4, <2>6, <3>1 DEF PosInv, Looking
  <2>9. SearchInv' /\ NewInv'
    BY <1>1, <1>2, <2>1, <2>6, SearchStays DEF NewInv
  <2>10. QED
    BY <1>6, <2>5, <2>6, <2>7, <2>8, <2>9 DEF IInv
<1>9. QED
  BY <1>7, <1>8

-----------------------------------------------------------------------------
(* xd3_source_extend_match. *)

\* A block of the source that is got outside of the indexing leaves the index
\* behind the end, if that becomes known.
LEMMA GotIndexStays ==
  ASSUME TypeInv, BlocksInv, IndexInv, NEW b \in Nat, GotBlock(b), b * Blk <= Len(S),
         UNCHANGED inVars, UNCHANGED idxVars, pc # "MOVE"
  PROVE  IndexInv'
<1>1. S' = S /\ Blk' = Blk /\ cksum_pos' = cksum_pos /\ maxsrcaddr' = maxsrcaddr /\ table' = table
  BY SameWindow DEF idxVars
<1>2. PICK k \in Nat \ {0}, l \in Nat, m \in Nat, o \in Nat, mm \in Nat, oo \in Nat, c \in Nat :
        /\ k = Blk /\ l = Len(S) /\ m = src.max_blkno /\ mm = src'.max_blkno /\ oo = src'.onlastblk
        /\ o = src.onlastblk /\ c = cksum_pos
  <2>1. Blk \in Nat \ {0} /\ Len(S) \in Nat /\ cksum_pos \in Nat
    BY StateNumbers
  <2>2. src.max_blkno \in Nat /\ src.onlastblk \in Nat
    BY DEF TypeInv
  <2>3. src'.max_blkno \in Nat /\ src'.onlastblk \in Nat
    BY DEF GotBlock
  <2>4. QED
    BY <2>1, <2>2, <2>3
<1>3. /\ src.eof_known => src'.eof_known /\ mm = m /\ oo = o
      /\ ~src.eof_known /\ src'.eof_known => mm = m + 1
      /\ ~src.eof_known /\ src'.eof_known /\ EndIsBlock' => b = 1
      /\ BlocksInv'
  BY <1>2 DEF GotBlock
<1>4. InSource(maxsrcaddr)' /\ Seen(cksum_pos)'
  <2>1. \A n \in Nat : (Seen(n) => Seen(n)') /\ (InSource(n) => InSource(n)')
    BY SeenStays
  <2>2. PICK x \in Nat : x = maxsrcaddr
    BY StateNumbers
  <2>3. Seen(c) /\ InSource(x)
    BY <1>2, <2>2 DEF IndexInv
  <2>4. Seen(c)' /\ InSource(x)'
    BY <2>1, <2>3
  <2>5. QED
    BY <1>1, <1>2, <2>2, <2>4 DEF Seen, InSource
<1>5. src'.eof_known => cksum_pos' <= Eof'
  <2>1. CASE src.eof_known
    <3>1. cksum_pos <= Eof
      BY <2>1 DEF IndexInv
    <3>2. Eof' = Eof
      BY <1>1, <1>2, <1>3, <2>1 DEF Eof
    <3>3. QED
      BY <1>1, <3>1, <3>2
  <2>2. ASSUME ~src.eof_known, src'.eof_known PROVE cksum_pos' <= Eof'
    <3>1. Eof' = (m + 1) * k + oo
      BY <1>1, <1>2, <1>3, <2>2 DEF Eof
    <3>2. c <= (m + 1) * k
      BY <1>2 DEF IndexInv, Seen
    <3>3. (m + 1) * k \in Nat
      OBVIOUS
    <3>4. QED
      BY <1>1, <1>2, <3>1, <3>2, <3>3, SMTT(60)
  <2>3. QED
    BY <2>1, <2>2
<1>6. src'.eof_known /\ ~EndIsKnown' => Blk' <= cksum_pos'
  <2>1. CASE src.eof_known
    <3>1. EndIsKnown' = EndIsKnown
      BY <1>1, <1>2, <1>3, <2>1 DEF EndIsKnown
    <3>2. QED
      BY <1>1, <2>1, <3>1 DEF IndexInv
  <2>2. ASSUME ~src.eof_known, src'.eof_known, ~EndIsKnown' PROVE FALSE
    <3>1. EndIsBlock'
      BY <1>3, <2>2 DEF BlocksInv
    <3>2. b = 1 /\ l < k
      BY <1>1, <1>2, <1>3, <2>2, <3>1 DEF EndIsBlock
    <3>3. b * k = k /\ b * k <= l
      BY <1>2, <3>2
    <3>4. QED
      BY <3>2, <3>3
  <2>3. QED
    BY <2>1, <2>2
<1>7. QED
  BY <1>1, <1>4, <1>5, <1>6 DEF IndexInv

\* A step of the extension touches the match, and what is known of the source.
LEMMA ExtendingKeeps ==
  ASSUME IInv, pc = "EXTEND", pc' \in {"EXTEND", "WAIT"}, Extending, want' \in Nat, BlocksInv', IndexInv',
         src' \in [cur : Int, highest : Nat, max_blkno : Nat, onlastblk : Nat, eof_known : BOOLEAN],
         match' \in Tries,
         match'.by = match.by, MatchInv'
  PROVE  IInv'
<1>1. TypeInv /\ PosInv /\ BlocksInv /\ IndexInv /\ SmallInv /\ SearchInv /\ MatchInv
      /\ NewInv /\ UsedInv /\ WinInv /\ EncodedInv
  BY DEF IInv
<1>2. /\ UNCHANGED posVars /\ UNCHANGED smallVars /\ UNCHANGED idxVars /\ UNCHANGED outVars
      /\ UNCHANGED inVars /\ new' = new
  BY DEF Extending
<1>3. /\ S' = S /\ T' = T /\ AvailIn' = AvailIn /\ Blk' = Blk /\ HasSource' = HasSource
      /\ enc' = enc /\ number' = number
  BY <1>2, SameWindow
<1>4. TypeInv'
  BY <1>1, <1>2, <1>3 DEF TypeInv, posVars, smallVars, idxVars, outVars, inVars
<1>5. PosInv'
  BY <1>1, <1>2, <1>3 DEF PosInv, Looking, posVars
<1>6. SmallInv'
  <2>1. input_position \in Nat /\ input_position' = input_position /\ small_table' = small_table
    BY <1>1, <1>2, StateNumbers DEF posVars, smallVars
  <2>2. QED
    BY <1>1, <1>2, <2>1, SmallStays DEF Slack
<1>7. SearchInv' /\ NewInv'
  BY <1>1, <1>2, SearchStays DEF NewInv
<1>8. UsedInv' /\ WinInv' /\ EncodedInv'
  BY <1>1, <1>2, OutStays
<1>9. QED
  BY <1>4, <1>5, <1>6, <1>7, <1>8 DEF IInv

\* A match that is extended.
LEMMA ExtensionFacts ==
  ASSUME IInv, pc = "EXTEND", InExtension
  PROVE  /\ match.srcpos \in Nat /\ match.back \in Nat /\ match.fwd \in Nat /\ match.maxback \in Nat
         /\ match.maxfwd \in Nat
         /\ match.back <= match.maxback /\ match.maxback <= match.srcpos
         /\ unencoded_offset + match.maxback <= input_position
         /\ match.fwd <= match.maxfwd /\ input_position + match.maxfwd <= AvailIn
         /\ win.decided => win.base + match.maxback <= match.srcpos
                           /\ match.srcpos + match.maxfwd <= win.base + win.len
         /\ match.srcpos + match.fwd <= Len(S) /\ Seen(match.srcpos + match.fwd)
         /\ \A i \in 1 - match.back .. match.fwd : S[match.srcpos + i] = T[input_position + i]
<1>1. TypeInv /\ MatchInv
  BY DEF IInv
<1>2. match.srcpos \in Nat /\ match.back \in Nat /\ match.fwd \in Nat /\ match.maxback \in Nat
      /\ match.maxfwd \in Nat
  BY <1>1 DEF TypeInv
<1>3. /\ match.back <= match.maxback /\ match.maxback <= match.srcpos
      /\ unencoded_offset + match.maxback <= input_position
      /\ match.fwd <= match.maxfwd /\ input_position + match.maxfwd <= AvailIn
      /\ win.decided => win.base + match.maxback <= match.srcpos
                        /\ match.srcpos + match.maxfwd <= win.base + win.len
      /\ match.srcpos + match.fwd <= Len(S) /\ Seen(match.srcpos + match.fwd)
      /\ \A i \in 1 - match.back .. match.fwd : S[match.srcpos + i] = T[input_position + i]
  BY <1>1 DEF MatchInv, InSource, MatchAlike
<1>4. QED
  BY <1>2, <1>3

\* What the extension leaves of a match, once it has gone on to ba bytes before
\* and fw bytes after, with a block that was got or without.
LEMMA ExtendedMatch ==
  ASSUME IInv, pc = "EXTEND", InExtension, Extending, pc' = "EXTEND", NEW ba \in Nat, NEW fw \in Nat,
         NEW state \in {"BACKWARD", "FORWARD", "DONE"},
         match' = [match EXCEPT !.back = ba, !.fwd = fw, !.state = state],
         ba <= match.maxback, fw <= match.maxfwd, InSource(match.srcpos + fw)',
         \A i \in 1 - ba .. fw : S[match.srcpos + i] = T[input_position + i]
  PROVE  MatchInv' /\ match'.by = match.by
         /\ match' \in Tries
<1>1. TypeInv
  BY DEF IInv
<1>2. /\ match.srcpos \in Nat /\ match.maxback \in Nat /\ match.maxfwd \in Nat
      /\ match.maxback <= match.srcpos
      /\ unencoded_offset + match.maxback <= input_position
      /\ input_position + match.maxfwd <= AvailIn
      /\ win.decided => win.base + match.maxback <= match.srcpos
                        /\ match.srcpos + match.maxfwd <= win.base + win.len
  BY ExtensionFacts
<1>3. /\ match' \in Tries
      /\ match'.back = ba /\ match'.fwd = fw /\ match'.state = state /\ match'.srcpos = match.srcpos
      /\ match'.maxback = match.maxback /\ match'.maxfwd = match.maxfwd /\ match'.by = match.by
  BY <1>1 DEF TypeInv
<1>4. /\ input_position' = input_position /\ unencoded_offset' = unencoded_offset /\ win' = win
      /\ S' = S /\ T' = T /\ AvailIn' = AvailIn
  BY SameWindow DEF Extending, posVars, outVars
<1>5. MatchAlike'
  BY <1>3, <1>4 DEF MatchAlike
<1>6. InSource(match.srcpos + match.fwd)'
  BY <1>3 DEF InSource, Seen
<1>7. MatchInv'
  BY <1>2, <1>3, <1>4, <1>5, <1>6 DEF MatchInv
<1>8. QED
  BY <1>3, <1>7

\* Backwards, over what is alike on one block.
LEMMA BackBlockKeeps ==
  ASSUME IInv, BackBlock
  PROVE  IInv'
<1>1. TypeInv /\ PosInv /\ BlocksInv /\ IndexInv /\ SmallInv /\ SearchInv /\ MatchInv
      /\ NewInv /\ UsedInv /\ WinInv /\ EncodedInv
  BY DEF IInv
<1> DEFINE b     == BackBlk
           limit == Smaller(BackOff - b * Blk, match.maxback - match.back)
           n     == MatchedBack(limit)
<1>2. /\ pc = "EXTEND" /\ match.state = "BACKWARD" /\ BackMore /\ src' = Getblk(b)
      /\ match' = [match EXCEPT !.back = @ + n, !.state = IF n < limit THEN "FORWARD" ELSE @]
      /\ pc' = pc /\ want' = want /\ Extending
  BY DEF BackBlock, Backward
<1>3. InExtension /\ UNCHANGED inVars /\ UNCHANGED idxVars
  BY <1>2 DEF InExtension, Extending
<1>4. PICK p \in Nat, ba \in Nat, fw \in Nat, mb \in Nat, k \in Nat \ {0}, l \in Nat, ip \in Nat :
        /\ p = match.srcpos /\ ba = match.back /\ fw = match.fwd /\ mb = match.maxback
        /\ k = Blk /\ l = Len(S) /\ ip = input_position
  <2>1. match.srcpos \in Nat /\ match.back \in Nat /\ match.fwd \in Nat /\ match.maxback \in Nat
    BY <1>2, <1>3, ExtensionFacts
  <2>2. Blk \in Nat \ {0} /\ Len(S) \in Nat /\ input_position \in Nat
    BY <1>1, StateNumbers
  <2>3. QED
    BY <2>1, <2>2
<1>5. /\ ba <= mb /\ mb <= p /\ fw <= match.maxfwd /\ p + fw <= l /\ Seen(p + fw)
      /\ \A i \in 1 - ba .. fw : S[p + i] = T[ip + i]
  BY <1>2, <1>3, <1>4, ExtensionFacts
<1>6. ba < mb /\ BackOff = p - ba
  BY <1>2, <1>4 DEF BackMore, BackOff
<1>7. p - ba - 1 \in Nat /\ b = (p - ba - 1) \div k
  BY <1>4, <1>5, <1>6, SMTT(60) DEF BackBlk
<1>8. PICK a \in Nat : a = p - ba - 1
  BY <1>7
<1>9. Seen(a) /\ a <= Len(S) /\ a < l
  <2>1. PICK m \in Nat : m = src.max_blkno
    BY <1>1 DEF TypeInv
  <2>2. PICK x \in Nat : x = (m + 1) * k
    BY BlockStarts
  <2>3. p + fw <= x
    BY <1>4, <1>5, <2>1, <2>2 DEF Seen
  <2>4. a <= x /\ a < l
    BY <1>5, <1>8, <2>3
  <2>5. Seen(a)
    BY <1>4, <2>1, <2>2, <2>4 DEF Seen
  <2>6. QED
    BY <1>4, <2>4, <2>5
<1>10. b \in Nat /\ MayGet(b)
  <2>1. a \div Blk \in Nat /\ MayGet(a \div Blk)
    BY <1>1, <1>9, PlaceFits
  <2>2. b = a \div Blk
    BY <1>4, <1>7, <1>8
  <2>3. QED
    BY <2>1, <2>2
<1>11. GotBlock(b)
  BY <1>1, <1>2, <1>3, <1>10, GetblkFacts, SameWindow
<1>12. PICK q \in Nat, r \in 0 .. k - 1 : q = b /\ a = q * k + r /\ q * k \in Nat
  <2>1. b = a \div k
    BY <1>7, <1>8
  <2>2. PICK q \in Nat, r \in 0 .. k - 1 : q = a \div k /\ a = q * k + r
    BY Division
  <2>3. q * k \in Nat
    BY BlockStarts
  <2> HIDE DEF b
  <2>4. QED
    BY <2>1, <2>2, <2>3
<1>13. limit \in Nat /\ limit <= mb - ba
  <2>1. limit = Smaller((p - ba) - q * k, mb - ba)
    BY <1>4, <1>6, <1>12
  <2>2. (p - ba) - q * k = r + 1
    BY <1>8, <1>12
  <2>3. r + 1 \in Nat /\ mb - ba \in Nat
    BY <1>6
  <2>4. QED
    BY <2>1, <2>2, <2>3 DEF Smaller
<1> HIDE DEF limit
<1>14. n \in 0 .. limit /\ \A i \in 0 .. n - 1 : S[BackOff - i] = T[input_position - match.back - i]
  BY <1>13, MatchedBackFacts
<1> HIDE DEF n
<1>15. PICK nn \in Nat, bb \in Nat : nn = n /\ bb = ba + nn /\ bb <= mb
  BY <1>13, <1>14
<1>16. \A i \in 1 - bb .. fw : S[p + i] = T[ip + i]
  <2>1. ASSUME NEW i \in 1 - bb .. fw PROVE S[p + i] = T[ip + i]
    <3>1. CASE i \in 1 - ba .. fw
      BY <1>5, <3>1
    <3>2. CASE i \notin 1 - ba .. fw
      <4>1. PICK j \in 0 .. nn - 1 : j = 0 - ba - i
        BY <1>15, <3>2
      <4>2. (p - ba) - j = p + i /\ ip - ba - j = ip + i
        BY <4>1
      <4>3. S[(p - ba) - j] = T[ip - ba - j]
        BY <1>4, <1>6, <1>14, <1>15
      <4>4. QED
        BY <4>2, <4>3
    <3>3. QED
      BY <3>1, <3>2
  <2>2. QED
    BY <2>1
<1>17. PICK st \in {"BACKWARD", "FORWARD"} : st = IF n < limit THEN "FORWARD" ELSE match.state
  BY <1>2
<1>18. match' = [match EXCEPT !.back = bb, !.fwd = fw, !.state = st]
  <2>1. match' = [match EXCEPT !.back = bb, !.state = st]
    BY <1>2, <1>4, <1>15, <1>17
  <2>2. match \in Tries
    BY <1>1 DEF TypeInv
  <2>3. QED
    BY <1>4, <2>1, <2>2
<1>19. InSource(match.srcpos + fw)'
  <2>1. \A x \in Nat : InSource(x) => InSource(x)'
    BY <1>1, <1>3, <1>10, <1>11, SeenStays
  <2>2. PICK x \in Nat : x = p + fw
    OBVIOUS
  <2>3. InSource(x)
    BY <1>4, <1>5, <2>2 DEF InSource
  <2>4. match'.srcpos = p
    BY <1>1, <1>4, <1>18 DEF TypeInv
  <2>5. InSource(x)'
    BY <2>1, <2>3
  <2>6. QED
    BY <2>2, <2>4, <2>5 DEF InSource, Seen
<1>20. MatchInv' /\ match'.by = match.by /\ match' \in Tries
  <2>1. match.srcpos' = match.srcpos
    BY <1>1, <1>18 DEF TypeInv
  <2>2. \A i \in 1 - bb .. fw : S[match.srcpos + i] = T[input_position + i]
    BY <1>4, <1>16
  <2>3. bb <= match.maxback /\ fw <= match.maxfwd
    BY <1>4, <1>5, <1>15
  <2> HIDE DEF b
  <2>4. QED
    BY <1>2, <1>3, <1>18, <1>19, <2>2, <2>3, ExtendedMatch
<1>21. b * Blk <= Len(S)
  BY <1>4, <1>9, <1>12
<1>22. IndexInv'
  BY <1>1, <1>2, <1>3, <1>10, <1>11, <1>21, GotIndexStays
<1>23. BlocksInv' /\ src' \in [cur : Int, highest : Nat, max_blkno : Nat, onlastblk : Nat, eof_known : BOOLEAN]
  BY <1>11 DEF GotBlock
<1>24. want' \in Nat /\ pc' = "EXTEND"
  BY <1>1, <1>2, StateNumbers
<1> HIDE DEF b
<1>25. QED
  BY <1>2, <1>20, <1>22, <1>23, <1>24, ExtendingKeeps

\* Forwards, over what is alike on one block.
LEMMA FwdBlockKeeps ==
  ASSUME IInv, FwdBlock
  PROVE  IInv'
<1>1. TypeInv /\ PosInv /\ BlocksInv /\ IndexInv /\ SmallInv /\ SearchInv /\ MatchInv
      /\ NewInv /\ UsedInv /\ WinInv /\ EncodedInv
  BY DEF IInv
<1> DEFINE b     == FwdBlk
           limit == Smaller(match.maxfwd - match.fwd, OnBlock(b) - (FwdOff % Blk))
           n     == MatchedFwd(limit)
<1>2. /\ pc = "EXTEND" /\ match.state = "FORWARD" /\ FwdMore /\ src' = Getblk(b)
      /\ match' = [match EXCEPT !.fwd = @ + n, !.state = IF limit = 0 \/ n < limit THEN "DONE" ELSE @]
      /\ pc' = pc /\ want' = want /\ Extending
  BY DEF FwdBlock, Forward
<1>3. InExtension /\ UNCHANGED inVars /\ UNCHANGED idxVars
  BY <1>2 DEF InExtension, Extending
<1>4. PICK p \in Nat, ba \in Nat, fw \in Nat, mf \in Nat, k \in Nat \ {0}, l \in Nat, ip \in Nat :
        /\ p = match.srcpos /\ ba = match.back /\ fw = match.fwd /\ mf = match.maxfwd
        /\ k = Blk /\ l = Len(S) /\ ip = input_position
  <2>1. match.srcpos \in Nat /\ match.back \in Nat /\ match.fwd \in Nat /\ match.maxfwd \in Nat
    BY <1>2, <1>3, ExtensionFacts
  <2>2. Blk \in Nat \ {0} /\ Len(S) \in Nat /\ input_position \in Nat
    BY <1>1, StateNumbers
  <2>3. QED
    BY <2>1, <2>2
<1>5. /\ ba <= match.maxback /\ fw <= mf /\ p + fw <= l /\ Seen(p + fw)
      /\ \A i \in 1 - ba .. fw : S[p + i] = T[ip + i]
  BY <1>2, <1>3, <1>4, ExtensionFacts
<1>6. PICK a \in Nat : a = p + fw /\ FwdOff = a
  BY <1>4 DEF FwdOff
<1>7. Seen(a) /\ a <= Len(S) /\ a <= l
  BY <1>4, <1>5, <1>6
<1>8. b \in Nat /\ MayGet(b)
  BY <1>1, <1>6, <1>7, PlaceFits DEF FwdBlk
<1>9. GotBlock(b)
  BY <1>1, <1>2, <1>3, <1>8, GetblkFacts, SameWindow
<1>10. PICK q \in Nat, r \in 0 .. k - 1 :
         /\ q = b /\ r = FwdOff % Blk /\ a = q * k + r /\ q * k \in Nat /\ (q + 1) * k = q * k + k
  <2>1. b = a \div k /\ FwdOff % Blk = a % k
    BY <1>4, <1>6 DEF FwdBlk
  <2>2. PICK q \in Nat, r \in 0 .. k - 1 : q = a \div k /\ r = a % k /\ a = q * k + r
    BY Division
  <2>3. q * k \in Nat /\ (q + 1) * k = q * k + k
    BY BlockStarts
  <2> HIDE DEF b
  <2>4. QED
    BY <2>1, <2>2, <2>3
<1>11. PICK on \in 0 .. k : on = OnBlock(b) /\ r <= on /\ q * k + on <= l
  <2>1. enc \in Encodings
    BY <1>1, StateNumbers
  <2>2. OnBlock(q) \in 0 .. k /\ (q * k <= l => q * k + OnBlock(q) <= l)
        /\ \A i \in Nat : q * k + i <= l /\ i <= k => i <= OnBlock(q)
    BY <1>4, <2>1, OnBlockFacts
  <2>3. q * k <= l /\ q * k + r <= l /\ r \in Nat /\ r <= k
    BY <1>7, <1>10
  <2>4. QED
    BY <1>10, <2>2, <2>3
<1>12. limit \in Nat /\ limit <= mf - fw /\ limit <= on - r
  <2>1. limit = Smaller(mf - fw, on - r)
    BY <1>4, <1>10, <1>11
  <2>2. mf - fw \in Nat /\ on - r \in Nat
    BY <1>5, <1>11
  <2>3. QED
    BY <2>1, <2>2 DEF Smaller
<1> HIDE DEF limit
<1>13. n \in 0 .. limit /\ \A i \in 1 .. n : S[FwdOff + i] = T[input_position + match.fwd + i]
  BY <1>4, <1>6, <1>12, MatchedFwdFacts
<1> HIDE DEF n
<1>14. PICK nn \in Nat, ff \in Nat : nn = n /\ ff = fw + nn /\ ff <= mf /\ nn <= on - r
  BY <1>12, <1>13
<1>15. \A i \in 1 - ba .. ff : S[p + i] = T[ip + i]
  <2>1. ASSUME NEW i \in 1 - ba .. ff PROVE S[p + i] = T[ip + i]
    <3>1. CASE i \in 1 - ba .. fw
      BY <1>5, <3>1
    <3>2. CASE i \notin 1 - ba .. fw
      <4>1. PICK j \in 1 .. nn : j = i - fw
        BY <1>14, <3>2
      <4>2. a + j = p + i /\ ip + fw + j = ip + i
        BY <1>6, <4>1
      <4>3. S[a + j] = T[ip + fw + j]
        BY <1>4, <1>6, <1>13, <1>14
      <4>4. QED
        BY <4>2, <4>3
    <3>3. QED
      BY <3>1, <3>2
  <2>2. QED
    BY <2>1
<1>16. PICK st \in {"FORWARD", "DONE"} : st = IF limit = 0 \/ n < limit THEN "DONE" ELSE match.state
  BY <1>2
<1>17. match' = [match EXCEPT !.back = ba, !.fwd = ff, !.state = st]
  <2>1. match' = [match EXCEPT !.fwd = ff, !.state = st]
    BY <1>2, <1>4, <1>14, <1>16
  <2>2. match \in Tries
    BY <1>1 DEF TypeInv
  <2>3. QED
    BY <1>4, <2>1, <2>2
<1>18. InSource(match.srcpos + ff)'
  <2>1. \A x \in Nat : x <= (b + 1) * Blk => Seen(x)'
    BY <1>1, <1>3, <1>8, <1>9, SeenStays
  <2>2. PICK x \in Nat : x = p + ff
    OBVIOUS
  <2>3. x <= (q + 1) * k /\ x <= l
    BY <1>6, <1>10, <1>11, <1>14, <2>2
  <2>4. match'.srcpos = p
    BY <1>1, <1>4, <1>17 DEF TypeInv
  <2>5. Seen(x)' /\ S' = S
    BY <1>3, <1>4, <1>10, <2>1, <2>3, SameWindow
  <2>6. QED
    BY <1>4, <2>2, <2>3, <2>4, <2>5 DEF InSource, Seen
<1>19. MatchInv' /\ match'.by = match.by /\ match' \in Tries
  <2>1. \A i \in 1 - ba .. ff : S[match.srcpos + i] = T[input_position + i]
    BY <1>4, <1>15
  <2>2. ba <= match.maxback /\ ff <= match.maxfwd
    BY <1>4, <1>5, <1>14
  <2> HIDE DEF b
  <2>3. QED
    BY <1>2, <1>3, <1>17, <1>18, <2>1, <2>2, ExtendedMatch
<1>20. b * Blk <= Len(S)
  BY <1>4, <1>7, <1>10
<1>21. IndexInv'
  BY <1>1, <1>2, <1>3, <1>8, <1>9, <1>20, GotIndexStays
<1>22. BlocksInv' /\ src' \in [cur : Int, highest : Nat, max_blkno : Nat, onlastblk : Nat, eof_known : BOOLEAN]
  BY <1>9 DEF GotBlock
<1>23. want' \in Nat /\ pc' = "EXTEND"
  BY <1>1, <1>2, StateNumbers
<1> HIDE DEF b
<1>24. QED
  BY <1>2, <1>19, <1>21, <1>22, <1>23, ExtendingKeeps

\* doneback and donefwd, and a block that is too far back.
LEMMA EndsKeep ==
  ASSUME IInv, BackEnds \/ FwdEnds
  PROVE  IInv'
<1>1. TypeInv /\ PosInv /\ BlocksInv /\ IndexInv /\ SmallInv /\ SearchInv /\ MatchInv
      /\ NewInv /\ UsedInv /\ WinInv /\ EncodedInv
  BY DEF IInv
<1>2. /\ pc = "EXTEND" /\ match.state \in {"BACKWARD", "FORWARD"} /\ src' = src
      /\ pc' = pc /\ want' = want /\ Extending
  BY DEF BackEnds, FwdEnds, Backward, Forward
<1>3. InExtension /\ UNCHANGED inVars /\ UNCHANGED idxVars
  BY <1>2 DEF InExtension, Extending
<1>4. PICK st \in {"FORWARD", "DONE"} : match' = [match EXCEPT !.state = st]
  <2>1. CASE BackEnds
    BY <2>1 DEF BackEnds
  <2>2. CASE FwdEnds
    BY <2>2 DEF FwdEnds
  <2>3. QED
    BY <2>1, <2>2
<1>5. match' = [match EXCEPT !.back = match.back, !.fwd = match.fwd, !.state = st]
  <2>1. match \in Tries
    BY <1>1 DEF TypeInv
  <2>2. QED
    BY <1>4, <2>1
<1>6. /\ match.back \in Nat /\ match.fwd \in Nat /\ match.back <= match.maxback /\ match.fwd <= match.maxfwd
      /\ InSource(match.srcpos + match.fwd)
      /\ \A i \in 1 - match.back .. match.fwd : S[match.srcpos + i] = T[input_position + i]
  BY <1>2, <1>3, ExtensionFacts DEF InSource
<1>7. PICK p \in Nat, ba \in Nat, fw \in Nat : p = match.srcpos /\ ba = match.back /\ fw = match.fwd
  BY <1>1, <1>6 DEF TypeInv
<1>8. InSource(match.srcpos + fw)'
  <2>1. match'.srcpos = p
    BY <1>1, <1>4, <1>7 DEF TypeInv
  <2>2. S' = S /\ Blk' = Blk
    BY <1>3, SameWindow
  <2>3. QED
    BY <1>2, <1>6, <1>7, <2>1, <2>2 DEF InSource, Seen
<1>9. MatchInv' /\ match'.by = match.by /\ match' \in Tries
  BY <1>2, <1>3, <1>5, <1>6, <1>7, <1>8, ExtendedMatch
<1>10. BlocksInv' /\ IndexInv'
  BY <1>1, <1>2, <1>3, SourceStays
<1>11. want' \in Nat /\ pc' = "EXTEND"
       /\ src' \in [cur : Int, highest : Nat, max_blkno : Nat, onlastblk : Nat, eof_known : BOOLEAN]
  BY <1>1, <1>2 DEF TypeInv
<1>12. QED
  BY <1>2, <1>9, <1>10, <1>11, ExtendingKeeps

LEMMA ExtendAsksKeeps ==
  ASSUME IInv, ExtendAsks
  PROVE  IInv'
<1>1. TypeInv /\ PosInv /\ BlocksInv /\ IndexInv /\ SmallInv /\ SearchInv /\ MatchInv
      /\ NewInv /\ UsedInv /\ WinInv /\ EncodedInv
  BY DEF IInv
<1>2. /\ pc = "EXTEND" /\ match.state \in {"BACKWARD", "FORWARD"} /\ src' = src /\ match' = match
      /\ pc' = "WAIT" /\ Extending
      /\ \/ match.state = "BACKWARD" /\ BackMore /\ want' = BackBlk
         \/ match.state = "FORWARD" /\ want' = FwdBlk
  BY DEF ExtendAsks, Backward, Forward, AskFor
<1>3. InExtension /\ UNCHANGED inVars /\ UNCHANGED idxVars
  BY <1>2 DEF InExtension, Extending
<1>4. want' \in Nat
  <2>1. PICK p \in Nat, ba \in Nat, fw \in Nat, mb \in Nat, k \in Nat \ {0} :
          /\ p = match.srcpos /\ ba = match.back /\ fw = match.fwd /\ mb = match.maxback /\ k = Blk
    BY <1>1, StateNumbers DEF TypeInv
  <2>2. mb <= p
    BY <1>2, <1>3, <2>1, ExtensionFacts
  <2>3. CASE match.state = "BACKWARD"
    <3>1. ba < mb
      BY <1>2, <2>1, <2>3 DEF BackMore
    <3>2. PICK a \in Nat : a = (p - ba) - 1
      BY <2>2, <3>1
    <3>3. want' = a \div k
      BY <1>2, <2>1, <2>3, <3>2 DEF BackBlk, BackOff
    <3>4. QED
      BY <3>3, Division
  <2>4. CASE match.state = "FORWARD"
    <3>1. PICK a \in Nat : a = p + fw
      OBVIOUS
    <3>2. want' = a \div k
      BY <1>2, <2>1, <2>4, <3>1 DEF FwdBlk, FwdOff
    <3>3. QED
      BY <3>2, Division
  <2>5. QED
    BY <1>2, <2>3, <2>4
<1>5. MatchInv' /\ match'.by = match.by /\ match' \in Tries
  <2>1. UNCHANGED posVars /\ win' = win
    BY <1>2 DEF Extending, outVars
  <2>2. MatchInv'
    BY <1>1, <1>2, <1>3, <2>1, MatchStays
  <2>3. QED
    BY <1>1, <1>2, <2>2 DEF TypeInv
<1>6. BlocksInv' /\ IndexInv'
  BY <1>1, <1>2, <1>3, SourceStays
<1>7. src' \in [cur : Int, highest : Nat, max_blkno : Nat, onlastblk : Nat, eof_known : BOOLEAN]
  BY <1>1, <1>2 DEF TypeInv
<1>8. QED
  BY <1>2, <1>4, <1>5, <1>6, <1>7, ExtendingKeeps

\* A match that is too short.
LEMMA NotTakenKeeps ==
  ASSUME IInv, NotTaken
  PROVE  IInv'
<1>1. TypeInv /\ PosInv /\ BlocksInv /\ IndexInv /\ SmallInv /\ SearchInv /\ MatchInv
      /\ NewInv /\ UsedInv /\ WinInv /\ EncodedInv
  BY DEF IInv
<1>2. /\ pc = "EXTEND" /\ match' = [match EXCEPT !.state = "SEARCHING", !.fwd = 0]
      /\ UNCHANGED smallVars /\ UNCHANGED idxVars
      /\ UNCHANGED outVars /\ UNCHANGED inVars /\ src' = src /\ new' = new /\ want' = want
  BY DEF NotTaken
<1>3. /\ S' = S /\ T' = T /\ AvailIn' = AvailIn /\ Blk' = Blk /\ HasSource' = HasSource
      /\ enc' = enc /\ number' = number
  BY <1>2, SameWindow
<1>4. MatchInv' /\ match' \in Tries
  <2>1. match' \in Tries /\ match'.state = "SEARCHING" /\ match'.back = match.back /\ match'.maxback = match.maxback
    BY <1>1, <1>2 DEF TypeInv
  <2>2. QED
    BY <1>1, <2>1, MatchGivenUp
<1>5. input_position \in Nat /\ AvailIn \in Nat /\ input_position <= AvailIn /\ small_table' = small_table
  BY <1>1, <1>2, StateNumbers DEF PosInv, smallVars
<1>6. CASE match.by = "loop"
  <2>1. pc' = "SMALL" /\ UNCHANGED posVars
    BY <1>6 DEF NotTaken
  <2>2. TypeInv'
    BY <1>1, <1>2, <1>3, <1>4, <2>1 DEF TypeInv, posVars, smallVars, idxVars, outVars, inVars
  <2>3. PosInv'
    BY <1>1, <1>2, <1>3, <1>6, <2>1 DEF PosInv, Looking, posVars
  <2>4. SmallInv'
    <3>1. input_position' = input_position
      BY <2>1 DEF posVars
    <3>2. QED
      BY <1>1, <1>2, <1>5, <2>1, <3>1, SmallStays DEF Slack
  <2>5. SearchInv' /\ NewInv'
    BY <1>1, <1>2, <2>1, SearchStays DEF NewInv
  <2>6. BlocksInv' /\ IndexInv'
    BY <1>1, <1>2, <2>1, SourceStays
  <2>7. UsedInv' /\ WinInv' /\ EncodedInv'
    BY <1>1, <1>2, <2>1, OutStays
  <2>8. QED
    BY <1>4, <2>2, <2>3, <2>4, <2>5, <2>6, <2>7 DEF IInv
<1>7. CASE match.by # "loop"
  <2>1. Restart(input_position, LastMatched)
    BY <1>7 DEF NotTaken
  <2>2. Restarted(input_position)
    BY <1>1, <1>5, <2>1, LastMatchedType, RestartFacts
  <2>3. input_position <= input_position
    BY <1>5
  <2>4. PosInv' /\ SmallInv' /\ SearchInv' /\ min_match' \in Nat /\ loop' \in Runs
        /\ input_position' \in Nat /\ unencoded_offset' \in Nat /\ next_move_point' \in Nat
        /\ pc' \in {"INSTR", "MOVE", "RUN"}
    BY <1>1, <1>2, <1>5, <2>2, <2>3, RestartKeeps DEF Slack
  <2>5. TypeInv'
    BY <1>1, <1>2, <1>3, <1>4, <2>4 DEF TypeInv, smallVars, idxVars, outVars, inVars
  <2>6. NewInv'
    BY <1>1, <1>2, <2>4 DEF NewInv
  <2>7. BlocksInv' /\ IndexInv'
    BY <1>1, <1>2, SourceStays
  <2>8. UsedInv' /\ WinInv' /\ EncodedInv'
    BY <1>1, <1>2, <2>4, OutStays
  <2>9. QED
    BY <1>4, <2>4, <2>5, <2>6, <2>7, <2>8 DEF IInv
<1>8. QED
  BY <1>6, <1>7

\* xd3_iopt_erase leaves the first instructions as they are.
LEMMA KeptFacts ==
  ASSUME TypeInv, NEW pos \in Nat
  PROVE  /\ Kept(pos) \in Seq(Insts)
         /\ \A i \in 1 .. Len(Kept(pos)) : i \in 1 .. Len(used) /\ Kept(pos)[i] = used[i]
<1> DEFINE covered(n) == \A i \in n + 1 .. Len(used) : used[i].pos >= pos
           good(n) == covered(n) /\ (n > 0 => used[n].pos < pos)
           X == {n \in 0 .. Len(used) : covered(n)}
           n0 == CHOOSE n \in 0 .. Len(used) : good(n)
<1>1. used \in Seq(Insts) /\ Len(used) \in Nat
  BY DEF TypeInv
<1>2. \A i \in 1 .. Len(used) : used[i] \in Insts
  BY <1>1
<1>3. \A i \in 1 .. Len(used) : used[i].pos \in Nat
  BY <1>2 DEF Insts
<1>4. Len(used) \in X /\ X \subseteq Nat
  BY <1>1
<1>5. PICK m \in X : \A n \in X : m <= n
  <2> HIDE DEF X
  <2> QED BY <1>4, LeastNat
<1>6. m \in 0 .. Len(used) /\ covered(m)
  BY <1>5
<1>7. ASSUME m > 0, ~(used[m].pos < pos)
      PROVE  FALSE
  <2>1. m \in 1 .. Len(used) /\ used[m].pos >= pos
    BY <1>1, <1>3, <1>6, <1>7
  <2>2. \A i \in (m - 1) + 1 .. Len(used) : i = m \/ i \in m + 1 .. Len(used)
    BY <1>1, <2>1
  <2>3. covered(m - 1)
    BY <1>6, <2>1, <2>2
  <2>4. m - 1 \in X
    BY <1>1, <2>1, <2>3
  <2>5. m <= m - 1
    <3> HIDE DEF X
    <3> QED BY <1>5, <2>4
  <2>6. QED
    BY <1>1, <2>1, <2>5
<1>8. n0 \in 0 .. Len(used)
  BY <1>6, <1>7
<1>9. Kept(pos) = SubSeq(used, 1, n0)
  BY DEF Kept
<1> HIDE DEF n0
<1>10. /\ Kept(pos) \in Seq(Insts) /\ Len(Kept(pos)) = n0
       /\ \A i \in 1 .. n0 : Kept(pos)[i] = used[i]
  <2>1. \A i \in 1 .. n0 : used[i] \in Insts
    BY <1>1, <1>2, <1>8
  <2>2. QED
    BY <1>1, <1>8, <1>9, <2>1, SubSeqProperties
<1>11. QED
  BY <1>1, <1>8, <1>10

LEMMA WinFields ==
  ASSUME NEW w, NEW d, NEW b, NEW n, NEW lo, NEW hi,
         w = [decided |-> d, base |-> b, len |-> n, minaddr |-> lo, maxaddr |-> hi]
  PROVE  w.decided = d /\ w.base = b /\ w.len = n /\ w.minaddr = lo /\ w.maxaddr = hi
OBVIOUS

\* The bounds of the copies only widen.
LEMMA GoodWidens ==
  ASSUME TypeInv, UNCHANGED inVars, NEW start \in Nat, NEW end \in Nat, start <= end,
         win' = [win EXCEPT !.minaddr = IF win.maxaddr = 0 \/ start < @ THEN start ELSE @,
                            !.maxaddr = Larger(@, end)]
  PROVE  /\ win' \in [decided : BOOLEAN, base : Nat, len : Nat, minaddr : Nat, maxaddr : Nat]
         /\ win'.decided = win.decided /\ win'.base = win.base /\ win'.len = win.len
         /\ win'.minaddr <= start /\ end <= win'.maxaddr
         /\ win'.maxaddr = win.maxaddr \/ win'.maxaddr = end
         /\ win.minaddr <= win.maxaddr => win'.minaddr <= win'.maxaddr
         /\ \A r \in Insts : Good(r) => Good(r)'
<1>1. PICK d \in BOOLEAN, b \in Nat, n \in Nat, lo \in Nat, hi \in Nat :
        win = [decided |-> d, base |-> b, len |-> n, minaddr |-> lo, maxaddr |-> hi]
  BY DEF TypeInv
<1>2. PICK a \in Nat, e \in Nat :
        /\ a = IF hi = 0 \/ start < lo THEN start ELSE lo
        /\ e = Larger(hi, end)
  BY DEF Larger
<1>3. win' = [decided |-> d, base |-> b, len |-> n, minaddr |-> a, maxaddr |-> e]
  BY <1>1, <1>2
<1>4. a <= start /\ end <= e /\ (e = hi \/ e = end) /\ (lo <= hi => a <= e)
      /\ hi <= e /\ (hi > 0 => a <= lo)
  BY <1>2 DEF Larger
<1>5. /\ win'.decided = d /\ win'.base = b /\ win'.len = n /\ win'.minaddr = a /\ win'.maxaddr = e
      /\ win.decided = d /\ win.base = b /\ win.len = n /\ win.minaddr = lo /\ win.maxaddr = hi
  <2>1. win'.decided = d /\ win'.base = b /\ win'.len = n /\ win'.minaddr = a /\ win'.maxaddr = e
    <3>1. PICK w : w = win'
      OBVIOUS
    <3>2. w = [decided |-> d, base |-> b, len |-> n, minaddr |-> a, maxaddr |-> e]
      BY <1>3, <3>1
    <3>3. w.decided = d /\ w.base = b /\ w.len = n /\ w.minaddr = a /\ w.maxaddr = e
      BY <3>2, WinFields, Zenon
    <3>4. QED
      BY <3>1, <3>3
  <2>2. win.decided = d /\ win.base = b /\ win.len = n /\ win.minaddr = lo /\ win.maxaddr = hi
    BY <1>1, WinFields, Zenon
  <2>3. QED
    BY <2>1, <2>2
<1>6. ASSUME NEW r \in Insts, Good(r)
      PROVE  Good(r)'
  <2>1. S' = S /\ T' = T /\ HasSource' = HasSource
    BY SameWindow
  <2>2. End(r)' \in Nat /\ (r.type # "RUN" => SameBytes(r)')
    BY <1>6, <2>1 DEF Good, End, SameBytes
  <2>3. InWindow(r)'
    <3>1. SUFFICES ASSUME r.type = "SRC" PROVE InWindow(r)'
      BY DEF InWindow
    <3>2. PICK x \in Nat, s \in Int : x = r.addr /\ s = r.size
      BY DEF Insts
    <3>3. /\ HasSource /\ x + s > 0
          /\ IF d THEN b <= x /\ x + s <= b + n ELSE lo <= x /\ x + s <= hi
      BY <1>1, <1>6, <3>1, <3>2 DEF Good, InWindow
    <3>4. IF d THEN b <= x /\ x + s <= b + n ELSE a <= x /\ x + s <= e
      BY <1>4, <3>3
    <3>5. win'.decided = d /\ win'.base = b /\ win'.len = n /\ win'.minaddr = a /\ win'.maxaddr = e
      BY <1>5
    <3>6. IF win'.decided THEN win'.base <= r.addr /\ r.addr + r.size <= win'.base + win'.len
          ELSE win'.minaddr <= r.addr /\ r.addr + r.size <= win'.maxaddr
      BY <3>2, <3>4, <3>5
    <3>7. HasSource' /\ r.addr + r.size > 0
      BY <2>1, <3>2, <3>3
    <3>8. QED
      BY <3>6, <3>7 DEF InWindow
  <2>4. QED
    BY <2>2, <2>3 DEF Good
<1>7. win' \in [decided : BOOLEAN, base : Nat, len : Nat, minaddr : Nat, maxaddr : Nat]
  BY <1>3
<1>8. /\ win'.decided = win.decided /\ win'.base = win.base /\ win'.len = win.len
      /\ win'.minaddr <= start /\ end <= win'.maxaddr
      /\ win'.maxaddr = win.maxaddr \/ win'.maxaddr = end
      /\ win.minaddr <= win.maxaddr => win'.minaddr <= win'.maxaddr
  BY <1>4, <1>5
<1>9. QED
  BY <1>6, <1>7, <1>8

LEMMA TakenKeeps ==
  ASSUME IInv, Taken
  PROVE  IInv'
<1>1. TypeInv /\ PosInv /\ BlocksInv /\ IndexInv /\ SmallInv /\ SearchInv /\ MatchInv
      /\ NewInv /\ UsedInv /\ WinInv /\ EncodedInv
  BY DEF IInv
<1>2. /\ pc = "EXTEND" /\ match.state = "DONE" /\ match.fwd >= min_match
      /\ used' = IF match.back > 0 THEN Kept(input_position - match.back) ELSE used
      /\ TakenRange
      /\ Found("SRC", match.back, match.fwd, match.srcpos - match.back, match.by = "loop")
      /\ match' = IF input_position + match.fwd = AvailIn
                    THEN [match EXCEPT !.state = "TARGET", !.srcpos = @ + match.fwd, !.back = 0]
                    ELSE [match EXCEPT !.state = "SEARCHING", !.back = 0]
      /\ UNCHANGED posVars /\ UNCHANGED smallVars /\ cksum_pos' = cksum_pos /\ table' = table
      /\ encoded' = encoded /\ UNCHANGED inVars /\ src' = src /\ want' = want
  BY DEF Taken
<1>3. /\ S' = S /\ T' = T /\ AvailIn' = AvailIn /\ Blk' = Blk /\ HasSource' = HasSource
      /\ enc' = enc /\ number' = number
  BY <1>2, SameWindow
<1>4. InExtension /\ HasSource
  BY <1>1, <1>2 DEF InExtension, PosInv
<1>5. PICK p \in Nat, ba \in Nat, fw \in Nat, l \in Nat, ip \in Nat, av \in Nat, mm \in Nat, m0 \in Nat \ {0} :
        /\ p = match.srcpos /\ ba = match.back /\ fw = match.fwd
        /\ l = Len(S) /\ ip = input_position /\ av = AvailIn /\ mm = min_match /\ m0 = MinMatch
  <2>1. match.srcpos \in Nat /\ match.back \in Nat /\ match.fwd \in Nat
    BY <1>2, <1>4, ExtensionFacts
  <2>2. Len(S) \in Nat /\ input_position \in Nat /\ AvailIn \in Nat /\ min_match \in Nat /\ MinMatch \in Nat \ {0}
    BY <1>1, StateNumbers, Sizes
  <2>3. QED
    BY <2>1, <2>2
<1>6. /\ ba <= p /\ ba <= ip /\ ip + fw <= av /\ m0 <= fw
      /\ p + fw <= l /\ InSource(p + fw)
      /\ win.decided => win.base <= p - ba /\ p + fw <= win.base + win.len
      /\ \A i \in 1 - ba .. fw : S[p + i] = T[ip + i]
  <2>1. PICK mb \in Nat, mf \in Nat, u \in Nat, wb \in Nat, wl \in Nat :
          mb = match.maxback /\ mf = match.maxfwd /\ u = unencoded_offset /\ wb = win.base /\ wl = win.len
    BY <1>1, <1>2, <1>4, ExtensionFacts, StateNumbers DEF TypeInv
  <2>2. /\ ba <= mb /\ mb <= p /\ u + mb <= ip /\ fw <= mf /\ ip + mf <= av
        /\ win.decided => wb + mb <= p /\ p + mf <= wb + wl
        /\ p + fw <= l /\ Seen(p + fw)
        /\ \A i \in 1 - ba .. fw : S[p + i] = T[ip + i]
    BY <1>2, <1>4, <1>5, <2>1, ExtensionFacts
  <2>3. m0 <= fw
    <3>1. m0 <= mm /\ fw >= mm
      BY <1>1, <1>2, <1>5 DEF PosInv
    <3>2. QED
      BY <3>1
  <2>4. win.decided => wb <= p - ba /\ p + fw <= wb + wl
    BY <2>2
  <2>5. InSource(p + fw)
    BY <1>5, <2>2 DEF InSource
  <2>6. ba <= p /\ ba <= ip /\ ip + fw <= av
    BY <2>2
  <2>7. QED
    BY <2>1, <2>2, <2>3, <2>4, <2>5, <2>6
<1>7. PICK start \in Nat, end \in Nat, pos \in Nat, size \in Nat :
        start = p - ba /\ end = p + fw /\ pos = ip - ba /\ size = ba + fw /\ start <= end
        /\ start + size = end /\ end > 0 /\ pos + size = ip + fw
  BY <1>6
<1>8. /\ win' = [win EXCEPT !.minaddr = IF win.maxaddr = 0 \/ start < @ THEN start ELSE @,
                            !.maxaddr = Larger(@, end)]
      /\ maxsrcaddr' = Larger(maxsrcaddr, end)
  BY <1>2, <1>5, <1>7 DEF TakenRange
<1>9. /\ win' \in [decided : BOOLEAN, base : Nat, len : Nat, minaddr : Nat, maxaddr : Nat]
      /\ win'.decided = win.decided /\ win'.base = win.base /\ win'.len = win.len
      /\ win'.minaddr <= start /\ end <= win'.maxaddr
      /\ win'.maxaddr = win.maxaddr \/ win'.maxaddr = end
      /\ win.minaddr <= win.maxaddr => win'.minaddr <= win'.maxaddr
      /\ \A r \in Insts : Good(r) => Good(r)'
  BY <1>1, <1>2, <1>7, <1>8, GoodWidens
<1>10. maxsrcaddr' \in Nat /\ InSource(maxsrcaddr)'
  <2>1. PICK x \in Nat : x = maxsrcaddr
    BY <1>1, StateNumbers
  <2>2. maxsrcaddr' = x \/ maxsrcaddr' = end
    BY <1>8, <2>1 DEF Larger
  <2>3. InSource(x) /\ InSource(end)
    BY <1>1, <1>6, <1>7, <2>1 DEF IndexInv
  <2>4. QED
    BY <1>2, <1>3, <2>2, <2>3 DEF InSource, Seen
<1>11. BlocksInv' /\ IndexInv'
  <2>1. S' = S /\ Blk' = Blk
    BY <1>3
  <2>2. /\ EndIsKnown' = EndIsKnown /\ EndIsBlock' = EndIsBlock /\ Eof' = Eof
        /\ Seen(cksum_pos)' = Seen(cksum_pos)
    BY <1>2, <2>1 DEF EndIsKnown, EndIsBlock, Eof, Seen
  <2>3. BlocksInv'
    BY <1>1, <1>2, <2>1, <2>2 DEF BlocksInv
  <2>4. IndexInv'
    BY <1>1, <1>2, <1>10, <2>1, <2>2 DEF IndexInv
  <2>5. QED
    BY <2>3, <2>4
<1>12. pc' = "SLOT" /\ new' = [type |-> "SRC", pos |-> pos, size |-> size, addr |-> start,
                               mlen |-> fw, lazy |-> (match.by = "loop")]
  BY <1>2, <1>5, <1>7 DEF Found
<1>13. input_position' = ip /\ AvailIn' = av
  BY <1>2, <1>3, <1>5 DEF posVars
<1>14. NewInv'
  <2>1. PICK lazy \in BOOLEAN : lazy = (match.by = "loop")
    OBVIOUS
  <2>2. new' = [type |-> "SRC", pos |-> pos, size |-> size, addr |-> start, mlen |-> fw, lazy |-> lazy]
    BY <1>12, <2>1
  <2>3. new' \in Matches
    BY <2>2 DEF Matches
  <2>4. SameBytes(new)'
    <3>1. ASSUME NEW i \in 1 .. size
          PROVE  start + i <= l /\ S[start + i] = T[pos + i]
      <4>1. PICK j \in 1 - ba .. fw : j = i - ba
        BY <1>7
      <4>2. start + i = p + j /\ pos + i = ip + j
        BY <1>7, <4>1
      <4>3. start + i <= l
        BY <1>6, <1>7
      <4>4. QED
        BY <1>6, <4>1, <4>2, <4>3
    <3>2. QED
      BY <1>3, <1>5, <2>2, <3>1 DEF SameBytes
  <2>5. InWindow(new)'
    <3>1. IF win'.decided THEN win'.base <= start /\ start + size <= win'.base + win'.len
          ELSE win'.minaddr <= start /\ start + size <= win'.maxaddr
      BY <1>6, <1>7, <1>9
    <3>2. start + size > 0
      BY <1>7
    <3>3. QED
      BY <1>3, <1>4, <2>2, <3>1, <3>2 DEF InWindow
  <2>6. End(new)' \in Nat
    BY <2>2 DEF End
  <2>7. Good(new)'
    BY <2>4, <2>5, <2>6 DEF Good
  <2>8. lazy => ip + SLook <= av
    BY <1>1, <1>2, <1>5, <2>1 DEF PosInv
  <2>9. pos <= ip
    BY <1>7
  <2>10. new'.pos = pos /\ new'.mlen = fw /\ new'.lazy = lazy
    BY <2>2
  <2>11. MinMatch <= fw /\ ip + fw <= av
    BY <1>5, <1>6
  <2>12. QED
    BY <1>12, <1>13, <2>3, <2>7, <2>8, <2>9, <2>10, <2>11 DEF NewInv
<1>15. used' \in Seq(Insts) /\ \A i \in 1 .. Len(used') : i \in 1 .. Len(used) /\ used'[i] = used[i]
  <2>1. input_position - match.back = pos /\ used \in Seq(Insts)
    BY <1>1, <1>5, <1>7 DEF TypeInv
  <2>2. CASE match.back > 0
    BY <1>1, <1>2, <2>1, <2>2, KeptFacts
  <2>3. CASE ~(match.back > 0)
    BY <1>2, <2>1, <2>3
  <2>4. QED
    BY <2>2, <2>3
<1>16. UsedInv'
  <2>1. ASSUME NEW i \in 1 .. Len(used') PROVE Good(used[i])'
    <3>1. i \in 1 .. Len(used) /\ used'[i] = used[i]
      BY <1>15
    <3>2. used[i] \in Insts
      <4>1. used \in Seq(Insts)
        BY <1>1 DEF TypeInv
      <4>2. QED
        BY <3>1, <4>1
    <3>3. Good(used[i])
      BY <1>1, <3>1 DEF UsedInv
    <3>4. PICK r \in Insts : r = used[i]
      BY <3>2
    <3>5. Good(r)'
      BY <1>9, <3>3, <3>4
    <3>6. used'[i] = r
      BY <3>1, <3>4
    <3>7. QED
      BY <3>5, <3>6 DEF Good, End, InWindow, SameBytes
  <2>2. QED
    BY <1>12, <2>1 DEF UsedInv
<1>17. WinInv'
  <2>1. win'.maxaddr <= Len(S)'
    <3>1. end <= l
      BY <1>6, <1>7
    <3>2. QED
      BY <1>1, <1>3, <1>5, <1>9, <3>1 DEF WinInv
  <2>2. win'.minaddr <= win'.maxaddr
    BY <1>1, <1>9 DEF WinInv
  <2>3. QED
    BY <1>1, <1>3, <1>9, <1>12, <2>1, <2>2 DEF WinInv
<1>18. EncodedInv'
  BY <1>1, <1>2, <1>3, <1>9 DEF EncodedInv, SameBytes
<1>19. MatchInv' /\ match' \in Tries
  <2>1. PICK mv \in Tries : mv = match
    BY <1>1 DEF TypeInv
  <2>2. CASE ip + fw = av
    <3>1. match' = [mv EXCEPT !.state = "TARGET", !.srcpos = end, !.back = 0]
      BY <1>2, <1>5, <1>7, <2>1, <2>2
    <3>2. match' \in Tries
          /\ match'.state = "TARGET" /\ match'.srcpos = end /\ match'.back = 0
      BY <3>1
    <3>3. InSource(match.srcpos)'
      BY <1>2, <1>3, <1>6, <1>7, <3>2 DEF InSource, Seen
    <3>4. QED
      BY <3>2, <3>3 DEF MatchInv, InExtension
  <2>3. CASE ip + fw # av
    <3>1. match' = [mv EXCEPT !.state = "SEARCHING", !.back = 0]
      BY <1>2, <1>5, <2>1, <2>3
    <3>2. match' \in Tries
          /\ match'.state = "SEARCHING" /\ match'.back = 0
      BY <3>1
    <3>3. QED
      BY <1>1, <3>2, MatchGivenUp
  <2>4. QED
    BY <2>2, <2>3
<1>20. TypeInv'
  BY <1>1, <1>2, <1>3, <1>9, <1>10, <1>12, <1>15, <1>19, ZenonT(40) DEF TypeInv, posVars, smallVars, inVars
<1>21. PosInv'
  BY <1>1, <1>2, <1>3, <1>12 DEF PosInv, Looking, posVars
<1>22. SmallInv'
  <2>1. input_position' = input_position /\ small_table' = small_table
    BY <1>2 DEF posVars, smallVars
  <2>2. QED
    BY <1>1, <1>2, <1>5, <1>12, <2>1, SmallStays DEF Slack
<1>23. SearchInv'
  BY <1>12, SearchStays
<1>24. QED
  BY <1>11, <1>14, <1>16, <1>17, <1>18, <1>19, <1>20, <1>21, <1>22, <1>23 DEF IInv

-----------------------------------------------------------------------------
(* xd3_iopt_finish_encoding and xd3_srcwin_setup. *)

Wins == [decided : BOOLEAN, base : Nat, len : Nat, minaddr : Nat, maxaddr : Nat]

\* A source window that is decided stays, and one that is decided now has room
\* for all of the copies that were found before.
Decided(w) ==
  /\ w \in Wins /\ w.decided /\ w.minaddr = win.minaddr /\ w.maxaddr = win.maxaddr
  /\ win.decided => w = win
  /\ ~win.decided /\ win.maxaddr > 0 => w.base <= win.minaddr /\ win.maxaddr <= w.base + w.len

LEMMA SetupWinFacts ==
  ASSUME TypeInv, BlocksInv, WinInv, NEW final \in BOOLEAN
  PROVE  Decided(SetupWin(final))
<1>1. PICK d \in BOOLEAN, b \in Nat, n \in Nat, lo \in Nat, hi \in Nat :
        win = [decided |-> d, base |-> b, len |-> n, minaddr |-> lo, maxaddr |-> hi]
  BY DEF TypeInv
<1>2. win.decided = d /\ win.base = b /\ win.len = n /\ win.minaddr = lo /\ win.maxaddr = hi
  BY <1>1, WinFields, Zenon
<1>3. lo <= hi /\ hi <= Len(S)
  BY <1>2 DEF WinInv
<1>4. PICK l \in Nat, f \in Nat, av \in Nat, h \in Nat :
        l = Len(S) /\ f = Eof /\ av = AvailIn /\ h = AvailIn \div 4
  <2>1. Len(S) \in Nat
    BY EncodingFacts DEF TypeInv
  <2>2. Eof \in Nat
    BY EofFacts
  <2>3. AvailIn \in Nat
    BY TargetFacts
  <2>4. PICK av \in Nat : av = AvailIn
    BY <2>3
  <2>5. av \div 4 \in Nat
    OBVIOUS
  <2>6. QED
    BY <2>1, <2>2, <2>4, <2>5
<1>5. src.eof_known => hi <= f
  BY <1>3, <1>4, EofFacts
<1>6. PICK guess \in Nat : guess = Larger(hi - lo, av + h) /\ hi - lo <= guess
  <2>1. hi - lo \in Nat /\ av + h \in Nat
    BY <1>3
  <2>2. QED
    BY <2>1 DEF Larger
<1>7. PICK len \in Nat : /\ len = IF final THEN hi - lo
                                  ELSE IF src.eof_known THEN Smaller(guess, f - lo) ELSE guess
                         /\ hi - lo <= len
  BY <1>3, <1>5, <1>6 DEF Smaller
<1>8. SetupWin(final) = IF d THEN win
                        ELSE IF final /\ hi = 0 THEN [win EXCEPT !.decided = TRUE]
                        ELSE [win EXCEPT !.decided = TRUE, !.base = lo, !.len = len]
  BY <1>2, <1>4, <1>6, <1>7 DEF SetupWin
<1>9. PICK w : w = SetupWin(final)
  OBVIOUS
<1>10. CASE d
  <2>1. w = win
    BY <1>8, <1>9, <1>10
  <2>2. Decided(w)
    BY <1>1, <1>2, <1>10, <2>1 DEF Decided, Wins
  <2>3. QED
    BY <1>9, <2>2
<1>11. CASE ~d /\ final /\ hi = 0
  <2>1. w = [decided |-> TRUE, base |-> b, len |-> n, minaddr |-> lo, maxaddr |-> hi]
    BY <1>1, <1>8, <1>9, <1>11
  <2>2. w.decided = TRUE /\ w.base = b /\ w.len = n /\ w.minaddr = lo /\ w.maxaddr = hi
    BY <2>1, WinFields, Zenon
  <2>3. w \in Wins
    BY <2>1 DEF Wins
  <2>4. ~(hi > 0)
    BY <1>7, <1>11
  <2>5. Decided(w)
    BY <1>2, <1>11, <2>2, <2>3, <2>4 DEF Decided
  <2>6. QED
    BY <1>9, <2>5
<1>12. CASE ~d /\ ~(final /\ hi = 0)
  <2>1. w = [decided |-> TRUE, base |-> lo, len |-> len, minaddr |-> lo, maxaddr |-> hi]
    BY <1>1, <1>8, <1>9, <1>12
  <2>2. w.decided = TRUE /\ w.base = lo /\ w.len = len /\ w.minaddr = lo /\ w.maxaddr = hi
    BY <2>1, WinFields, Zenon
  <2>3. w \in Wins
    BY <2>1 DEF Wins
  <2>4. lo <= lo /\ hi <= lo + len
    BY <1>7, <1>12
  <2>5. Decided(w)
    BY <1>2, <1>12, <2>2, <2>3, <2>4 DEF Decided
  <2>6. QED
    BY <1>9, <2>5
<1>13. QED
  BY <1>10, <1>11, <1>12

\* A copy that is encoded: its bytes, and the source window that it will be in.
Fits(r) ==
  /\ r.type \in {"RUN", "CPY", "SRC"} /\ r.size \in Int /\ r.addr \in Nat
  /\ r.type # "RUN" => SameBytes(r)
  /\ r.type = "SRC" =>
       /\ HasSource
       /\ IF win.decided THEN win.base <= r.addr /\ r.addr + r.size <= win.base + win.len
          ELSE win.maxaddr > 0 /\ win.minaddr <= r.addr /\ r.addr + r.size <= win.maxaddr

\* A good instruction fits, and so does what is left of it without its end.
LEMMA CutEndFits ==
  ASSUME TypeInv, NEW r \in Insts, Good(r), NEW end \in Nat
  PROVE  Fits(CutEnd(r, end))
<1>1. PICK t \in {"RUN", "CPY", "SRC"}, p \in Nat, s \in Int, a \in Nat :
        r = [type |-> t, pos |-> p, size |-> s, addr |-> a]
  BY DEF Insts
<1>2. PICK z \in Int : z = Smaller(s, end - p) /\ z <= s
  BY DEF Smaller
<1>3. PICK c : c = CutEnd(r, end)
  OBVIOUS
<1>4. c = [type |-> t, pos |-> p, size |-> z, addr |-> a]
  BY <1>1, <1>2, <1>3 DEF CutEnd
<1>5. r.type = t /\ r.pos = p /\ r.size = s /\ r.addr = a
      /\ c.type = t /\ c.pos = p /\ c.size = z /\ c.addr = a
  BY <1>1, <1>4
<1>6. t # "RUN" => SameBytes(c)
  <2>1. \A i \in 1 .. z : i \in 1 .. s
    BY <1>2
  <2>2. QED
    BY <1>5, <2>1 DEF Good, SameBytes
<1>7. ASSUME t = "SRC"
      PROVE  /\ HasSource
             /\ IF win.decided THEN win.base <= a /\ a + z <= win.base + win.len
                ELSE win.maxaddr > 0 /\ win.minaddr <= a /\ a + z <= win.maxaddr
  <2>1. PICK b \in Nat, n \in Nat, lo \in Nat, hi \in Nat :
          b = win.base /\ n = win.len /\ lo = win.minaddr /\ hi = win.maxaddr
    BY DEF TypeInv
  <2>2. /\ HasSource /\ a + s > 0
        /\ IF win.decided THEN b <= a /\ a + s <= b + n ELSE lo <= a /\ a + s <= hi
    BY <1>5, <1>7, <2>1 DEF Good, InWindow
  <2>3. IF win.decided THEN b <= a /\ a + z <= b + n ELSE hi > 0 /\ lo <= a /\ a + z <= hi
    BY <1>2, <2>2
  <2>4. QED
    BY <2>1, <2>2, <2>3
<1>8. QED
  BY <1>3, <1>5, <1>6, <1>7 DEF Fits

\* The instructions of the front are encoded, all of them or some, and the
\* source window with the first copy.
LEMMA EncodeFacts ==
  ASSUME TypeInv, BlocksInv, WinInv, EncodedInv, UNCHANGED inVars, NEW final \in BOOLEAN, NEW insts,
         \A i \in DOMAIN insts : Fits(insts[i]), Encode(insts, final)
  PROVE  /\ win' \in Wins /\ win'.minaddr = win.minaddr /\ win'.maxaddr = win.maxaddr
         /\ win'.decided => HasSource
         /\ ~win'.decided => win' = win
         /\ EncodedInv'
         /\ \A r \in Insts : Good(r) => Good(r)'
<1> DEFINE copies == {r \in {insts[i] : i \in DOMAIN insts} : r.type # "RUN"}
<1>1. /\ win' = IF copies = {} \/ ~HasSource THEN win ELSE SetupWin(final)
      /\ encoded' = encoded \cup {Written(r, win') : r \in copies}
  BY DEF Encode
<1>2. \A r \in copies : Fits(r) /\ r.type \in {"CPY", "SRC"}
  <2>1. ASSUME NEW r \in copies PROVE Fits(r) /\ r.type \in {"CPY", "SRC"}
    <3>1. Fits(r) /\ r.type # "RUN"
      BY <2>1
    <3>2. QED
      BY <3>1 DEF Fits
  <2>2. QED
    BY <2>1
<1> HIDE DEF copies
<1>3. S' = S /\ T' = T /\ HasSource' = HasSource
  BY SameWindow
<1>4. win \in Wins
  BY DEF TypeInv, Wins
<1>5. CASE copies = {} \/ ~HasSource
  <2>1. win' = win
    BY <1>1, <1>5
  <2>2. EncodedInv'
    <3>1. ASSUME NEW c \in encoded'
          PROVE  /\ c.inst.type \in {"CPY", "SRC"} /\ SameBytes(c.inst)
                 /\ win.decided = HasSource /\ c.base = win.base /\ c.len = win.len
                 /\ c.inst.type = "SRC" =>
                      win.base <= c.inst.addr /\ c.inst.addr + c.inst.size <= win.base + win.len
      <4>1. CASE c \in encoded
        BY <4>1 DEF EncodedInv
      <4>2. CASE c \notin encoded
        <5>1. PICK r \in copies : c = Written(r, win')
          BY <1>1, <4>2
        <5>2. c.inst = r /\ c.base = win.base /\ c.len = win.len
          BY <2>1, <5>1 DEF Written
        <5>3. ~HasSource
          BY <1>5, <5>1
        <5>4. Fits(r) /\ r.type \in {"CPY", "SRC"}
          BY <1>2, <5>1
        <5>5. r.type = "CPY" /\ SameBytes(r)
          BY <5>3, <5>4 DEF Fits
        <5>6. ~win.decided
          BY <5>3 DEF WinInv
        <5>7. win.decided \in BOOLEAN /\ HasSource \in BOOLEAN
          BY <1>4 DEF Wins, HasSource
        <5>8. win.decided = HasSource
          BY <5>3, <5>6, <5>7
        <5>9. QED
          BY <5>2, <5>5, <5>8
      <4>3. QED
        BY <4>1, <4>2
    <3>2. QED
      BY <1>3, <2>1, <3>1 DEF EncodedInv, SameBytes
  <2>3. \A r \in Insts : Good(r) => Good(r)'
    BY <1>3, <2>1 DEF Good, End, InWindow, SameBytes
  <2>4. QED
    BY <1>4, <2>1, <2>2, <2>3 DEF WinInv
<1>6. CASE copies # {} /\ HasSource
  <2>1. PICK w : w = win'
    OBVIOUS
  <2>2. Decided(w)
    BY <1>1, <1>6, <2>1, SetupWinFacts
  <2>3. w \in Wins /\ w.decided /\ w.minaddr = win.minaddr /\ w.maxaddr = win.maxaddr
        /\ (win.decided => w = win)
        /\ (~win.decided /\ win.maxaddr > 0 => w.base <= win.minaddr /\ win.maxaddr <= w.base + w.len)
    BY <2>2 DEF Decided
  <2>4. PICK b \in Nat, n \in Nat, lo \in Nat, hi \in Nat, b0 \in Nat, n0 \in Nat :
          /\ b = w.base /\ n = w.len /\ lo = win.minaddr /\ hi = win.maxaddr /\ b0 = win.base /\ n0 = win.len
    BY <1>4, <2>3 DEF Wins
  <2>5. ASSUME NEW x \in Nat, NEW s \in Int,
               IF win.decided THEN b0 <= x /\ x + s <= b0 + n0 ELSE hi > 0 /\ lo <= x /\ x + s <= hi
        PROVE  b <= x /\ x + s <= b + n
    <3>1. CASE win.decided
      BY <2>3, <2>4, <2>5, <3>1
    <3>2. CASE ~win.decided
      BY <2>3, <2>4, <2>5, <3>2
    <3>3. QED
      BY <3>1, <3>2
  <2>6. w.decided = HasSource
    <3>1. w.decided = TRUE /\ HasSource = TRUE
      BY <1>6, <2>3 DEF Wins, HasSource
    <3>2. QED
      BY <3>1
  <2>7. ASSUME NEW c \in encoded'
        PROVE  /\ c.inst.type \in {"CPY", "SRC"} /\ SameBytes(c.inst)
               /\ c.base = w.base /\ c.len = w.len
               /\ c.inst.type = "SRC" =>
                    w.base <= c.inst.addr /\ c.inst.addr + c.inst.size <= w.base + w.len
    <3>1. CASE c \in encoded
      <4>1. /\ c.inst.type \in {"CPY", "SRC"} /\ SameBytes(c.inst)
            /\ win.decided = HasSource /\ c.base = win.base /\ c.len = win.len
            /\ c.inst.type = "SRC" =>
                 win.base <= c.inst.addr /\ c.inst.addr + c.inst.size <= win.base + win.len
        BY <3>1 DEF EncodedInv
      <4>2. w = win
        BY <1>6, <2>3, <4>1
      <4>3. QED
        BY <4>1, <4>2
    <3>2. CASE c \notin encoded
      <4>1. PICK r \in copies : c = Written(r, w)
        BY <1>1, <2>1, <3>2
      <4>2. c.inst = r /\ c.base = w.base /\ c.len = w.len
        BY <4>1 DEF Written
      <4>3. Fits(r) /\ r.type \in {"CPY", "SRC"}
        BY <1>2, <4>1
      <4>4. SameBytes(r)
        BY <4>3 DEF Fits
      <4>5. ASSUME r.type = "SRC" PROVE w.base <= r.addr /\ r.addr + r.size <= w.base + w.len
        <5>1. PICK x \in Nat, s \in Int : x = r.addr /\ s = r.size
          BY <4>3 DEF Fits
        <5>2. IF win.decided THEN b0 <= x /\ x + s <= b0 + n0 ELSE hi > 0 /\ lo <= x /\ x + s <= hi
          BY <2>4, <4>3, <4>5, <5>1 DEF Fits
        <5>3. b <= x /\ x + s <= b + n
          BY <2>5, <5>2
        <5>4. QED
          BY <2>4, <5>1, <5>3
      <4>6. QED
        BY <4>2, <4>3, <4>4, <4>5
    <3>3. QED
      BY <3>1, <3>2
  <2>8. EncodedInv'
    BY <1>3, <2>1, <2>6, <2>7 DEF EncodedInv, SameBytes
  <2>9. ASSUME NEW r \in Insts, Good(r)
        PROVE  Good(r)'
    <3>1. End(r)' \in Nat /\ (r.type # "RUN" => SameBytes(r)')
      BY <1>3, <2>9 DEF Good, End, SameBytes
    <3>2. ASSUME r.type = "SRC" PROVE r.addr + r.size > 0 /\ w.base <= r.addr /\ r.addr + r.size <= w.base + w.len
      <4>1. PICK x \in Nat, s \in Int : x = r.addr /\ s = r.size
        BY DEF Insts
      <4>2. /\ x + s > 0
            /\ IF win.decided THEN b0 <= x /\ x + s <= b0 + n0 ELSE lo <= x /\ x + s <= hi
        BY <2>4, <2>9, <3>2, <4>1 DEF Good, InWindow
      <4>3. IF win.decided THEN b0 <= x /\ x + s <= b0 + n0 ELSE hi > 0 /\ lo <= x /\ x + s <= hi
        BY <4>2
      <4>4. b <= x /\ x + s <= b + n
        BY <2>5, <4>3
      <4>5. QED
        BY <2>4, <4>1, <4>2, <4>4
    <3>3. InWindow(r)'
      BY <1>3, <1>6, <2>1, <2>3, <3>2 DEF InWindow
    <3>4. QED
      BY <3>1, <3>3 DEF Good
  <2>10. QED
    BY <1>6, <2>1, <2>3, <2>8, <2>9
<1>7. QED
  BY <1>5, <1>6

\* Only the first fields of a match go into the buffer, and they say all of it.
LEMMA InstFacts ==
  ASSUME NEW r \in Matches
  PROVE  Inst(r) \in Insts /\ End(Inst(r)) = End(r) /\ (Good(r) <=> Good(Inst(r)))
<1>1. PICK c : c = Inst(r)
  OBVIOUS
<1>2. c \in Insts /\ c.type = r.type /\ c.pos = r.pos /\ c.size = r.size /\ c.addr = r.addr
  BY <1>1 DEF Inst, Insts, Matches
<1>3. End(c) = End(r)
  BY <1>2 DEF End
<1>4. InWindow(c) <=> InWindow(r)
  BY <1>2 DEF InWindow
<1>5. SameBytes(c) <=> SameBytes(r)
  BY <1>2 DEF SameBytes
<1>6. QED
  BY <1>1, <1>2, <1>3, <1>4, <1>5 DEF Good

LEMMA PlaceKeeps ==
  ASSUME IInv, Place
  PROVE  IInv'
<1>1. TypeInv /\ PosInv /\ BlocksInv /\ IndexInv /\ SmallInv /\ SearchInv /\ MatchInv
      /\ NewInv /\ UsedInv /\ WinInv /\ EncodedInv
  BY DEF IInv
<1>2. /\ pc = "SLOT" /\ used' = Append(used, Inst(new)) /\ new' = None
      /\ UNCHANGED smallVars /\ match' = match /\ UNCHANGED idxVars /\ win' = win /\ encoded' = encoded
      /\ UNCHANGED inVars /\ src' = src /\ want' = want
  BY DEF Place
<1>3. /\ S' = S /\ T' = T /\ AvailIn' = AvailIn /\ Blk' = Blk /\ HasSource' = HasSource
      /\ enc' = enc /\ number' = number
  BY <1>2, SameWindow
<1>4. /\ new \in Matches /\ Good(new) /\ MinMatch <= new.mlen /\ input_position + new.mlen <= AvailIn
      /\ (new.lazy => input_position + SLook <= AvailIn)
  BY <1>1, <1>2 DEF NewInv
<1>5. PICK m \in Nat : m = new.mlen
  BY <1>4 DEF Matches
<1>6. /\ input_position \in Nat /\ AvailIn \in Nat /\ MinMatch \in Nat \ {0} /\ unencoded_offset \in Nat
      /\ next_move_point \in Nat /\ small_table' = small_table /\ unencoded_offset <= input_position
  BY <1>1, <1>2, StateNumbers, Sizes DEF PosInv, smallVars
<1>7. used' \in Seq(Insts) /\ \A i \in 1 .. Len(used') : Good(used'[i])
  <2>1. PICK c \in Insts : c = Inst(new) /\ Good(c)
    BY <1>4, InstFacts
  <2>2. used \in Seq(Insts)
    BY <1>1 DEF TypeInv
  <2>3. used' = Append(used, c)
    BY <1>2, <2>1
  <2>4. used' \in Seq(Insts) /\ Len(used') = Len(used) + 1
    BY <2>2, <2>3
  <2>5. ASSUME NEW i \in 1 .. Len(used') PROVE Good(used'[i])
    <3>1. CASE i = Len(used) + 1
      <4>1. used'[i] = c
        BY <2>2, <2>3, <3>1
      <4>2. QED
        BY <2>1, <4>1
    <3>2. CASE i # Len(used) + 1
      <4>1. i \in 1 .. Len(used)
        BY <2>2, <2>4, <3>2
      <4>2. used'[i] = used[i]
        BY <2>2, <2>3, <4>1
      <4>3. QED
        BY <1>1, <4>1, <4>2 DEF UsedInv
    <3>3. QED
      BY <3>1, <3>2
  <2>6. QED
    BY <2>4, <2>5
<1>8. /\ PosInv' /\ SmallInv' /\ SearchInv' /\ min_match' \in Nat /\ loop' \in Runs
      /\ input_position' \in Nat /\ unencoded_offset' \in Nat /\ next_move_point' \in Nat
      /\ pc' \in {"INSTR", "MOVE", "RUN"}
  <2>1. CASE new.lazy /\ TryLazy(new.mlen)
    <3>1. min_match' = m /\ UpdateOne /\ unencoded_offset' = unencoded_offset /\ next_move_point' = next_move_point
      BY <1>5, <2>1 DEF Place
    <3>2. /\ loop' \in Runs
          /\ \/ pc' = "INSTR" /\ input_position' = input_position
             \/ pc' = "RUN" /\ input_position' = input_position + 1 /\ input_position + 1 + SLook <= AvailIn
      BY <1>1, <1>4, <2>1, <3>1, UpdateFacts DEF Updated
    <3>3. /\ input_position' \in Nat /\ input_position <= input_position' /\ input_position' <= AvailIn
          /\ (pc' = "RUN" => input_position < input_position' /\ input_position' + SLook <= AvailIn)
          /\ pc' \in {"INSTR", "RUN"}
      <4>1. input_position <= AvailIn
        BY <1>1 DEF PosInv
      <4>2. CASE pc' = "INSTR" /\ input_position' = input_position
        BY <1>6, <4>1, <4>2
      <4>3. CASE pc' = "RUN" /\ input_position' = input_position + 1 /\ input_position + 1 + SLook <= AvailIn
        <5>1. SLook \in Nat
          BY Sizes
        <5>2. QED
          BY <1>6, <4>3, <5>1
      <4>4. QED
        BY <3>2, <4>2, <4>3
    <3>4. PosInv'
      <4>1. unencoded_offset' <= input_position'
        BY <1>6, <3>1, <3>3
      <4>2. QED
        BY <1>3, <1>4, <1>5, <3>1, <3>3, <4>1 DEF PosInv, Looking
    <3>5. SmallInv'
      BY <1>1, <1>2, <1>6, <3>3, SmallStays DEF Slack
    <3>6. QED
      BY <1>6, <3>1, <3>2, <3>3, <3>4, <3>5, SearchStays
  <2>2. CASE ~(new.lazy /\ TryLazy(new.mlen))
    <3>1. Restart(input_position + m, End(new))
      BY <1>5, <2>2 DEF Place
    <3>2. PICK p \in Nat, e \in Nat : p = input_position + m /\ e = End(new)
      BY <1>4, <1>6 DEF Good
    <3>3. Restarted(p)
      BY <1>1, <3>1, <3>2, RestartFacts
    <3>4. input_position < p /\ input_position <= p /\ p <= AvailIn
      BY <1>4, <1>5, <1>6, <3>2
    <3>5. QED
      BY <1>1, <1>2, <1>6, <3>3, <3>4, RestartKeeps
  <2>3. QED
    BY <2>1, <2>2
<1>9. TypeInv'
  BY <1>1, <1>2, <1>3, <1>7, <1>8 DEF TypeInv, smallVars, idxVars, inVars
<1>10. NewInv'
  BY <1>2, <1>8 DEF NewInv
<1>11. BlocksInv' /\ IndexInv'
  BY <1>1, <1>2, SourceStays
<1>12. MatchInv'
  BY <1>1, <1>2, MatchRests DEF MatchInv
<1>13. UsedInv'
  <2>1. ASSUME NEW i \in 1 .. Len(used') PROVE Good(used[i])'
    <3>1. PICK r : r = used'[i] /\ Good(r)
      BY <1>7
    <3>2. Good(r)'
      BY <1>2, <3>1, GoodStays
    <3>3. QED
      BY <3>1, <3>2 DEF Good, End, InWindow, SameBytes
  <2>2. QED
    BY <1>8, <2>1 DEF UsedInv
<1>14. WinInv'
  BY <1>1, <1>2, <1>3, <1>8 DEF WinInv
<1>15. EncodedInv'
  BY <1>1, <1>2, <1>3 DEF EncodedInv, SameBytes
<1>16. QED
  BY <1>8, <1>9, <1>10, <1>11, <1>12, <1>13, <1>14, <1>15 DEF IInv

-----------------------------------------------------------------------------
(* The buffer is emptied. *)

\* An instruction that loses its start says the same of what is left of it.
LEMMA CutStartGood ==
  ASSUME TypeInv, NEW r \in Insts, Good(r), NEW start \in Nat
  PROVE  CutStart(r, start) \in Insts /\ Good(CutStart(r, start))
<1>1. PICK t \in {"RUN", "CPY", "SRC"}, p \in Nat, s \in Int, a \in Nat :
        r = [type |-> t, pos |-> p, size |-> s, addr |-> a]
  BY DEF Insts
<1>2. r.type = t /\ r.pos = p /\ r.size = s /\ r.addr = a
  BY <1>1
<1>3. CASE p >= start
  <2>1. CutStart(r, start) = r
    BY <1>2, <1>3 DEF CutStart
  <2>2. QED
    BY <2>1
<1>4. CASE ~(p >= start)
  <2>1. PICK d \in Nat : d = start - p
    BY <1>4
  <2>2. PICK c : c = CutStart(r, start)
    OBVIOUS
  <2>3. c = [r EXCEPT !.pos = start, !.size = @ - d, !.addr = @ + d]
    BY <1>2, <1>4, <2>1, <2>2 DEF CutStart
  <2>4. c = [type |-> t, pos |-> start, size |-> s - d, addr |-> a + d]
    BY <1>1, <2>3
  <2>5. c.type = t /\ c.pos = start /\ c.size = s - d /\ c.addr = a + d
    BY <2>4
  <2>6. c \in Insts
    BY <2>4 DEF Insts
  <2>7. End(c) = End(r)
    BY <1>2, <2>1, <2>5 DEF End
  <2>8. InWindow(c)
    <3>1. CASE t = "SRC"
      <4>1. PICK b \in Nat, n \in Nat, lo \in Nat, hi \in Nat :
              b = win.base /\ n = win.len /\ lo = win.minaddr /\ hi = win.maxaddr
        BY DEF TypeInv
      <4>2. /\ HasSource /\ a + s > 0
            /\ IF win.decided THEN b <= a /\ a + s <= b + n ELSE lo <= a /\ a + s <= hi
        BY <1>2, <3>1, <4>1 DEF Good, InWindow
      <4>3. a <= a + d /\ (a + d) + (s - d) = a + s
        BY <2>1
      <4>4. IF win.decided THEN b <= a + d /\ (a + d) + (s - d) <= b + n
            ELSE lo <= a + d /\ (a + d) + (s - d) <= hi
        BY <4>2, <4>3
      <4>5. QED
        BY <2>5, <4>1, <4>2, <4>3, <4>4 DEF InWindow
    <3>2. CASE t # "SRC"
      BY <2>5, <3>2 DEF InWindow
    <3>3. QED
      BY <3>1, <3>2
  <2>9. t # "RUN" => SameBytes(c)
    <3>1. ASSUME t # "RUN", NEW i \in 1 .. s - d
          PROVE  IF t = "SRC" THEN a + d + i <= Len(S) /\ S[a + d + i] = T[start + i]
                 ELSE a + d < start /\ T[a + d + i] = T[start + i]
      <4>1. PICK j \in Nat : j = d + i
        BY <2>1
      <4>2. j \in 1 .. s /\ a + d + i = a + j /\ start + i = p + j
        BY <2>1, <4>1
      <4>3. IF t = "SRC" THEN a + j <= Len(S) /\ S[a + j] = T[p + j] ELSE a < p /\ T[a + j] = T[p + j]
        BY <1>2, <3>1, <4>2 DEF Good, SameBytes
      <4>4. a < p => a + d < start
        BY <2>1
      <4>5. QED
        BY <4>2, <4>3, <4>4
    <3>2. QED
      BY <2>5, <3>1 DEF SameBytes
  <2>10. Good(c)
    BY <2>5, <2>7, <2>8, <2>9 DEF Good
  <2>11. QED
    BY <2>2, <2>6, <2>10
<1>5. QED
  BY <1>3, <1>4

\* The bounds of the open source window are what they were.
LEMMA WinStays ==
  ASSUME WinInv, UNCHANGED inVars, win' \in Wins, win'.minaddr = win.minaddr, win'.maxaddr = win.maxaddr,
         win'.decided => HasSource, ~win'.decided => win' = win, pc' \notin {"START", "ENDED"}
  PROVE  WinInv'
<1>1. S' = S /\ HasSource' = HasSource
  BY SameWindow
<1>2. PICK w : w = win'
  OBVIOUS
<1>3. w.minaddr <= w.maxaddr /\ w.maxaddr <= Len(S)
  BY <1>2 DEF WinInv
<1>4. ~w.decided => w.base = 0 /\ w.len = 0
  BY <1>2 DEF WinInv
<1>5. QED
  BY <1>1, <1>2, <1>3, <1>4 DEF WinInv

\* xd3_iopt_get_slot: the overlap goes to either instruction, and what is encoded
\* ends before the match that waits.
LEMMA MakeRoomKeeps ==
  ASSUME IInv, MakeRoom
  PROVE  IInv'
<1>1. TypeInv /\ PosInv /\ BlocksInv /\ IndexInv /\ SmallInv /\ SearchInv /\ MatchInv
      /\ NewInv /\ UsedInv /\ WinInv /\ EncodedInv
  BY DEF IInv
<1>2. /\ pc = "SLOT" /\ pc' = pc /\ input_position' = input_position /\ min_match' = min_match
      /\ next_move_point' = next_move_point /\ loop' = loop /\ UNCHANGED smallVars /\ match' = match
      /\ UNCHANGED idxVars /\ UNCHANGED inVars /\ src' = src /\ new' = new /\ want' = want
  BY DEF MakeRoom
<1>3. /\ S' = S /\ T' = T /\ AvailIn' = AvailIn /\ Blk' = Blk /\ HasSource' = HasSource
      /\ enc' = enc /\ number' = number
  BY <1>2, SameWindow
<1>4. PICK k \in 1 .. Len(used) :
        \E cut \in IF k < Len(used) THEN {End(used[k]), Smaller(used[k + 1].pos, End(used[k]))}
                   ELSE {End(used[k])} :
         /\ cut <= new.pos
         /\ Encode([i \in 1 .. k |-> CutEnd(used[i], IF i = k THEN cut ELSE used[i + 1].pos)], FALSE)
         /\ unencoded_offset' = cut
         /\ used' = [i \in 1 .. Len(used) - k |-> CutStart(used[k + i], cut)]
  BY DEF MakeRoom
<1>5. used \in Seq(Insts) /\ Len(used) \in Nat /\ \A i \in 1 .. Len(used) : used[i] \in Insts /\ Good(used[i])
  <2>1. used \in Seq(Insts)
    BY <1>1 DEF TypeInv
  <2>2. QED
    BY <1>1, <2>1 DEF UsedInv
<1>6. ASSUME NEW i \in 1 .. Len(used) PROVE End(used[i]) \in Nat /\ used[i].pos \in Nat
  <2>1. PICK r \in Insts : r = used[i] /\ Good(r)
    BY <1>5
  <2>2. End(r) \in Nat /\ r.pos \in Nat
    BY <2>1 DEF Good, Insts
  <2>3. QED
    BY <2>1, <2>2
<1>7. PICK cut \in Nat :
         /\ cut <= new.pos
         /\ Encode([i \in 1 .. k |-> CutEnd(used[i], IF i = k THEN cut ELSE used[i + 1].pos)], FALSE)
         /\ unencoded_offset' = cut
         /\ used' = [i \in 1 .. Len(used) - k |-> CutStart(used[k + i], cut)]
  <2>1. End(used[k]) \in Nat
    BY <1>6
  <2>2. k < Len(used) => Smaller(used[k + 1].pos, End(used[k])) \in Nat
    <3>1. ASSUME k < Len(used) PROVE k + 1 \in 1 .. Len(used)
      BY <1>5, <3>1
    <3>2. k < Len(used) => used[k + 1].pos \in Nat
      BY <1>6, <3>1
    <3>3. QED
      BY <2>1, <3>2 DEF Smaller
  <2>3. QED
    BY <1>4, <2>1, <2>2
<1>8. \E insts : Encode(insts, FALSE) /\ \A i \in DOMAIN insts : Fits(insts[i])
  <2>1. PICK insts : insts = [i \in 1 .. k |-> CutEnd(used[i], IF i = k THEN cut ELSE used[i + 1].pos)]
    OBVIOUS
  <2>2. ASSUME NEW i \in DOMAIN insts PROVE Fits(insts[i])
    <3>1. i \in 1 .. k /\ i \in 1 .. Len(used) /\ (i # k => i + 1 \in 1 .. Len(used))
      BY <1>5, <2>1
    <3>2. PICK e \in Nat : e = IF i = k THEN cut ELSE used[i + 1].pos
      BY <1>6, <3>1
    <3>3. insts[i] = CutEnd(used[i], e)
      BY <2>1, <3>1, <3>2
    <3>4. PICK r \in Insts : r = used[i] /\ Good(r)
      BY <1>5, <3>1
    <3>5. Fits(CutEnd(r, e))
      BY <1>1, <3>4, CutEndFits
    <3>6. QED
      BY <3>3, <3>4, <3>5
  <2>3. QED
    BY <1>7, <2>1, <2>2
<1>9. PICK insts : Encode(insts, FALSE) /\ \A i \in DOMAIN insts : Fits(insts[i])
  BY <1>8
<1>10. /\ win' \in Wins /\ win'.minaddr = win.minaddr /\ win'.maxaddr = win.maxaddr
       /\ win'.decided => HasSource
       /\ ~win'.decided => win' = win
       /\ EncodedInv'
       /\ \A r \in Insts : Good(r) => Good(r)'
  BY <1>1, <1>2, <1>9, EncodeFacts
<1>11. /\ new \in Matches /\ Good(new) /\ new.pos <= input_position
       /\ MinMatch <= new.mlen /\ input_position + new.mlen <= AvailIn
       /\ (new.lazy => input_position + SLook <= AvailIn)
  BY <1>1, <1>2 DEF NewInv
<1>12. NewInv'
  <2>1. PICK c \in Insts : c = Inst(new) /\ Good(c)
    BY <1>11, InstFacts
  <2>2. Good(c)'
    BY <1>10, <2>1
  <2>3. c.type = new.type /\ c.pos = new.pos /\ c.size = new.size /\ c.addr = new.addr
    BY <2>1 DEF Inst
  <2>4. Good(new)'
    BY <1>2, <2>2, <2>3 DEF Good, End, InWindow, SameBytes
  <2>5. QED
    BY <1>2, <1>3, <1>11, <2>4 DEF NewInv
<1>13. used' \in Seq(Insts) /\ \A i \in 1 .. Len(used') : Good(used[i])'
  <2>1. PICK n \in Nat : n = Len(used) - k
    BY <1>5
  <2>2. PICK f : f = used'
    OBVIOUS
  <2>3. ASSUME NEW i \in 1 .. n
        PROVE  f[i] \in Insts /\ Good(f[i])'
    <3>1. k + i \in 1 .. Len(used)
      BY <1>5, <2>1
    <3>2. PICK r \in Insts : r = used[k + i] /\ Good(r)
      BY <1>5, <3>1
    <3>3. PICK c \in Insts : c = CutStart(r, cut) /\ Good(c)
      BY <1>1, <3>2, CutStartGood
    <3>4. Good(c)'
      BY <1>10, <3>3
    <3>5. f[i] = CutStart(used[k + i], cut)
      BY <1>7, <2>1, <2>2
    <3>6. c = f[i]
      BY <3>2, <3>3, <3>5
    <3>7. QED
      BY <3>4, <3>6 DEF Good, End, InWindow, SameBytes
  <2>4. DOMAIN f = 1 .. n /\ f = [i \in 1 .. n |-> f[i]]
    BY <1>7, <2>1, <2>2
  <2>5. f \in Seq(Insts) /\ Len(f) = n
    BY <2>1, <2>3, <2>4
  <2>6. ASSUME NEW i \in 1 .. Len(used') PROVE Good(used[i])'
    <3>1. i \in 1 .. n
      BY <2>2, <2>5
    <3>2. Good(f[i])'
      BY <2>3, <3>1
    <3>3. QED
      BY <2>2, <3>2 DEF Good, End, InWindow, SameBytes
  <2>7. QED
    BY <2>2, <2>5, <2>6
<1>14. UsedInv'
  BY <1>2, <1>13 DEF UsedInv
<1>15. WinInv'
  BY <1>1, <1>2, <1>10, WinStays
<1>16. TypeInv'
  BY <1>1, <1>2, <1>3, <1>7, <1>10, <1>13 DEF TypeInv, Wins, smallVars, idxVars, inVars
<1>17. PosInv'
  <2>1. unencoded_offset' <= input_position'
    <3>1. PICK p \in Nat : p = new.pos
      BY <1>11 DEF Matches
    <3>2. input_position \in Nat
      BY <1>1, StateNumbers
    <3>3. cut <= input_position
      BY <1>7, <1>11, <3>1, <3>2
    <3>4. QED
      BY <1>2, <1>7, <3>3
  <2>2. QED
    BY <1>1, <1>2, <1>3, <2>1 DEF PosInv, Looking
<1>18. SmallInv' /\ SearchInv'
  <2>1. input_position' = input_position /\ small_table' = small_table
    BY <1>2 DEF smallVars
  <2>2. input_position \in Nat
    BY <1>1, StateNumbers
  <2>3. SmallInv'
    BY <1>1, <1>2, <2>1, <2>2, SmallStays DEF Slack
  <2>4. QED
    BY <1>2, <2>3, SearchStays
<1>19. BlocksInv' /\ IndexInv'
  BY <1>1, <1>2, SourceStays
<1>20. MatchInv'
  BY <1>1, <1>2, MatchRests DEF MatchInv
<1>21. QED
  BY <1>10, <1>12, <1>14, <1>15, <1>16, <1>17, <1>18, <1>19, <1>20 DEF IInv

\* ENC_INSTR: all of the instructions, each one up to the next.
LEMMA EncodeAllKeeps ==
  ASSUME IInv, EncodeAll
  PROVE  IInv'
<1>1. TypeInv /\ PosInv /\ BlocksInv /\ IndexInv /\ SmallInv /\ SearchInv /\ MatchInv
      /\ NewInv /\ UsedInv /\ WinInv /\ EncodedInv
  BY DEF IInv
<1>2. /\ pc = "INSTR" /\ pc' = "HEADER" /\ input_position' = input_position /\ min_match' = min_match
      /\ next_move_point' = next_move_point /\ loop' = loop /\ UNCHANGED smallVars /\ match' = match
      /\ used' = <<>> /\ unencoded_offset' = AvailIn
      /\ UNCHANGED idxVars /\ UNCHANGED inVars /\ src' = src /\ new' = new /\ want' = want
  BY DEF EncodeAll
<1>3. /\ S' = S /\ T' = T /\ AvailIn' = AvailIn /\ Blk' = Blk /\ HasSource' = HasSource
      /\ enc' = enc /\ number' = number
  BY <1>2, SameWindow
<1>4. PICK insts : /\ Encode(insts, TRUE)
                   /\ insts = [i \in DOMAIN used |->
                        CutEnd(used[i], IF i = Len(used) THEN End(used[i]) ELSE used[i + 1].pos)]
  BY DEF EncodeAll
<1>5. used \in Seq(Insts) /\ Len(used) \in Nat
      /\ \A i \in 1 .. Len(used) : used[i] \in Insts /\ Good(used[i])
  <2>1. used \in Seq(Insts)
    BY <1>1 DEF TypeInv
  <2>2. QED
    BY <1>1, <2>1 DEF UsedInv
<1>6. ASSUME NEW i \in 1 .. Len(used) PROVE End(used[i]) \in Nat /\ used[i].pos \in Nat
  <2>1. PICK r \in Insts : r = used[i] /\ Good(r)
    BY <1>5
  <2>2. End(r) \in Nat /\ r.pos \in Nat
    BY <2>1 DEF Good, Insts
  <2>3. QED
    BY <2>1, <2>2
<1>7. ASSUME NEW i \in DOMAIN insts PROVE Fits(insts[i])
  <2>1. i \in 1 .. Len(used) /\ i \in DOMAIN used /\ (i # Len(used) => i + 1 \in 1 .. Len(used))
    BY <1>4, <1>5
  <2>2. PICK e \in Nat : e = IF i = Len(used) THEN End(used[i]) ELSE used[i + 1].pos
    BY <1>6, <2>1
  <2>3. insts[i] = CutEnd(used[i], e)
    BY <1>4, <2>1, <2>2
  <2>4. PICK r \in Insts : r = used[i] /\ Good(r)
    BY <1>5, <2>1
  <2>5. Fits(CutEnd(r, e))
    BY <1>1, <2>4, CutEndFits
  <2>6. QED
    BY <2>3, <2>4, <2>5
<1>8. /\ win' \in Wins /\ win'.minaddr = win.minaddr /\ win'.maxaddr = win.maxaddr
      /\ win'.decided => HasSource
      /\ ~win'.decided => win' = win
      /\ EncodedInv'
  BY <1>1, <1>2, <1>4, <1>7, EncodeFacts
<1>9. UsedInv'
  BY <1>2 DEF UsedInv
<1>10. WinInv'
  BY <1>1, <1>2, <1>8, WinStays
<1>11. used' \in Seq(Insts) /\ AvailIn \in Nat
  BY <1>1, <1>2, StateNumbers
<1>12. TypeInv'
  BY <1>1, <1>2, <1>3, <1>8, <1>11 DEF TypeInv, Wins, smallVars, idxVars, inVars
<1>13. PosInv'
  BY <1>1, <1>2, <1>3 DEF PosInv, Looking
<1>14. SmallInv' /\ SearchInv'
  <2>1. input_position' = input_position /\ small_table' = small_table
    BY <1>2 DEF smallVars
  <2>2. input_position \in Nat
    BY <1>1, StateNumbers
  <2>3. SmallInv'
    BY <1>1, <1>2, <2>1, <2>2, SmallStays DEF Slack
  <2>4. QED
    BY <1>2, <2>3, SearchStays
<1>15. BlocksInv' /\ IndexInv'
  BY <1>1, <1>2, SourceStays
<1>16. MatchInv'
  BY <1>1, <1>2, MatchRests DEF MatchInv
<1>17. NewInv'
  BY <1>1, <1>2 DEF NewInv
<1>18. QED
  BY <1>8, <1>9, <1>10, <1>12, <1>13, <1>14, <1>15, <1>16, <1>17 DEF IInv

\* xd3_encode_reset: what is known of the source stays, and the target is new.
LEMMA NextWindowKeeps ==
  ASSUME IInv, NextWindow
  PROVE  IInv'
<1>1. TypeInv /\ PosInv /\ BlocksInv /\ IndexInv /\ SmallInv /\ SearchInv /\ MatchInv
      /\ NewInv /\ UsedInv /\ WinInv /\ EncodedInv
  BY DEF IInv
<1>2. /\ pc = "HEADER" /\ number' = number + 1 /\ total_in' = total_in + AvailIn
      /\ win' = NoWin /\ encoded' = {}
      /\ input_position' = 0 /\ min_match' = MinMatch /\ unencoded_offset' = 0
      /\ small_table' = EmptyTable(SSlots)
      /\ pc' = (IF number' < Len(enc.windows) THEN "START" ELSE "ENDED")
      /\ enc' = enc /\ next_move_point' = next_move_point /\ loop' = loop /\ search' = search /\ match' = match
      /\ UNCHANGED idxVars /\ used' = used /\ src' = src /\ new' = new /\ want' = want
  BY DEF NextWindow
<1>3. S' = S /\ Blk' = Blk /\ HasSource' = HasSource
  BY <1>2 DEF S, Blk, HasSource
<1>4. PICK n \in Nat : n = Len(enc.windows)
  BY <1>1, EncodingFacts DEF TypeInv
<1>5. number \in Nat /\ number < n /\ number' \in Nat /\ number' <= n /\ (pc' # "ENDED" => number' < n)
  <2>1. PICK m \in Nat : m = number
    BY <1>1 DEF TypeInv
  <2>2. m < n
    BY <1>1, <1>2, <1>4, <2>1 DEF TypeInv
  <2>3. number' = m + 1
    BY <1>2, <2>1
  <2>4. pc' # "ENDED" => m + 1 < n
    BY <1>2, <1>4, <2>3
  <2>5. m + 1 \in Nat /\ m + 1 <= n
    BY <2>2
  <2>6. QED
    BY <2>1, <2>2, <2>3, <2>4, <2>5
<1>6. AvailIn' \in Nat
  <2>1. T' = IF number' < n THEN enc.windows[number' + 1] ELSE <<>>
    BY <1>2, <1>4 DEF T
  <2>2. enc.windows \in Seq(Seq(Nat))
    BY <1>1, EncodingFacts DEF TypeInv
  <2>3. T' \in Seq(Nat)
    <3>1. PICK m \in Nat : m = number'
      BY <1>5
    <3>2. m < n => m + 1 \in 1 .. n
      OBVIOUS
    <3>3. QED
      BY <1>4, <2>1, <2>2, <3>1, <3>2
  <2>4. QED
    BY <2>3 DEF AvailIn
<1>7. pc' \in {"START", "ENDED"}
  BY <1>2
<1>8. used = <<>>
  BY <1>1, <1>2 DEF UsedInv
<1>9. small_table' \in [0 .. SSlots - 1 -> Nat] /\ \A h \in 0 .. SSlots - 1 : small_table'[h] = 0
  BY <1>2 DEF EmptyTable
<1>10. total_in' \in Nat /\ MinMatch \in Nat
       /\ win' \in [decided : BOOLEAN, base : Nat, len : Nat, minaddr : Nat, maxaddr : Nat]
  <2>1. total_in \in Nat /\ AvailIn \in Nat
    BY <1>1, StateNumbers
  <2>2. QED
    BY <1>2, <2>1, Sizes DEF NoWin
<1>11. TypeInv'
  BY <1>1, <1>2, <1>4, <1>5, <1>7, <1>9, <1>10 DEF TypeInv, idxVars
<1>12. PosInv'
  BY <1>2, <1>6, <1>7, <1>10 DEF PosInv, Looking
<1>13. BlocksInv'
  BY <1>1, <1>2, <1>3 DEF BlocksInv, EndIsKnown, EndIsBlock
<1>14. IndexInv'
  <2>1. cksum_pos' = cksum_pos /\ maxsrcaddr' = maxsrcaddr /\ table' = table
    BY <1>2 DEF idxVars
  <2>2. QED
    BY <1>1, <1>2, <1>3, <2>1 DEF IndexInv, InSource, Seen, Eof, EndIsKnown
<1>15. SmallInv'
  <2>1. 0 <= AvailIn' /\ 0 <= input_position'
    BY <1>2, <1>6
  <2>2. QED
    BY <1>2, <1>7, <1>9, <2>1 DEF SmallInv
<1>16. SearchInv'
  BY <1>7, SearchStays
<1>17. MatchInv'
  BY <1>1, <1>2, <1>3 DEF MatchInv, InExtension, InSource, Seen
<1>18. NewInv'
  BY <1>1, <1>2, <1>7 DEF NewInv
<1>19. UsedInv'
  BY <1>2, <1>8 DEF UsedInv
<1>20. EncodedInv'
  BY <1>2 DEF EncodedInv
<1>21. WinInv'
  <2>1. win'.decided = FALSE /\ win'.base = 0 /\ win'.len = 0 /\ win'.minaddr = 0 /\ win'.maxaddr = 0
    BY <1>2 DEF NoWin
  <2>2. Len(S)' \in Nat
    BY <1>1, <1>3, StateNumbers
  <2>3. QED
    BY <1>2, <2>1, <2>2 DEF WinInv
<1>22. QED
  BY <1>11, <1>12, <1>13, <1>14, <1>15, <1>16, <1>17, <1>18, <1>19, <1>20, <1>21 DEF IInv

-----------------------------------------------------------------------------
(* The invariant of the encoder. *)

\* A step that changes nothing.
LEMMA StutterKeeps ==
  ASSUME IInv, UNCHANGED vars
  PROVE  IInv'
<1>1. TypeInv /\ PosInv /\ BlocksInv /\ IndexInv /\ SmallInv /\ SearchInv /\ MatchInv
      /\ NewInv /\ UsedInv /\ WinInv /\ EncodedInv
  BY DEF IInv
<1>2. /\ pc' = pc /\ UNCHANGED posVars /\ UNCHANGED smallVars /\ match' = match /\ UNCHANGED idxVars
      /\ UNCHANGED outVars /\ UNCHANGED inVars /\ src' = src /\ new' = new /\ want' = want
  BY DEF vars
<1>3. /\ S' = S /\ T' = T /\ AvailIn' = AvailIn /\ Blk' = Blk /\ HasSource' = HasSource
      /\ enc' = enc /\ number' = number
  BY <1>2, SameWindow
<1>4. TypeInv'
  BY <1>1, <1>2, <1>3 DEF TypeInv, posVars, smallVars, idxVars, outVars, inVars
<1>5. PosInv'
  BY <1>1, <1>2, <1>3 DEF PosInv, Looking, posVars
<1>6. SmallInv' /\ SearchInv'
  BY <1>1, <1>2, <1>3 DEF SmallInv, SearchInv, posVars, smallVars
<1>7. BlocksInv' /\ IndexInv'
  BY <1>1, <1>2, SourceStays
<1>8. MatchInv'
  BY <1>1, <1>2, <1>3 DEF MatchInv, InExtension, MatchAlike, InSource, Seen, posVars, outVars
<1>9. win' = win /\ used' = used /\ encoded' = encoded
  BY <1>2 DEF outVars
<1>10. NewInv'
  BY <1>1, <1>2, <1>3, <1>9 DEF NewInv, Good, End, InWindow, SameBytes, posVars
<1>11. UsedInv'
  <2>1. ASSUME NEW i \in 1 .. Len(used) PROVE Good(used[i])'
    <3>1. Good(used[i])
      BY <1>1, <2>1 DEF UsedInv
    <3>2. QED
      BY <1>3, <1>9, <3>1 DEF Good, End, InWindow, SameBytes
  <2>2. QED
    BY <1>1, <1>2, <1>9, <2>1 DEF UsedInv
<1>12. WinInv' /\ EncodedInv'
  BY <1>1, <1>2, <1>3, <1>9 DEF WinInv, EncodedInv, SameBytes
<1>13. QED
  BY <1>4, <1>5, <1>6, <1>7, <1>8, <1>10, <1>11, <1>12 DEF IInv

LEMMA NextKeeps ==
  ASSUME IInv, [Next]_vars
  PROVE  IInv'
<1>1. CASE Enter
  BY <1>1, ContinueMatchKeeps, StartSearchKeeps, EmptyWindowKeeps, GiveBlockKeeps DEF Enter
<1>2. CASE Index
  BY <1>2, IndexBlockKeeps, IndexAsksKeeps, IndexEndsKeeps DEF Index
<1>3. CASE Search
  BY <1>3, FindRunKeeps, NoRunKeeps, MoveAgainKeeps, LargeSearchKeeps, NoLargeKeeps, StartSmallKeeps,
     CompareKeeps, EndSmallKeeps DEF Search
<1>4. CASE Extend
  BY <1>4, BackBlockKeeps, FwdBlockKeeps, EndsKeep, ExtendAsksKeeps, NotTakenKeeps, TakenKeeps DEF Extend
<1>5. CASE Emit
  BY <1>5, PlaceKeeps, MakeRoomKeeps, EncodeAllKeeps, NextWindowKeeps DEF Emit
<1>6. CASE Stopped
  BY <1>6, StutterKeeps DEF Stopped
<1>7. CASE UNCHANGED vars
  BY <1>7, StutterKeeps
<1>8. QED
  BY <1>1, <1>2, <1>3, <1>4, <1>5, <1>6, <1>7 DEF Next

\* The inductive invariant, in every run of the encoder.
THEOREM Invariant == Spec => []IInv
<1>1. Init => IInv
  BY InitInv
<1>2. IInv /\ [Next]_vars => IInv'
  BY NextKeeps
<1>3. QED
  BY <1>1, <1>2, PTL DEF Spec

\* For every source, target, block size and source window: a copy that the encoder
\* writes says the bytes of the target, wherever the extension of its match had to
\* wait for a block (xd3_source_extend_match) and however the instruction was cut
\* (xd3_iopt_get_slot), and lies in the source window of the header, though that is
\* decided by the first copies alone (xd3_srcwin_setup).
THEOREM CopiesTrueAlways == Spec => []CopiesTrue
<1>1. IInv => CopiesTrue
  BY CopiesFollow
<1>2. QED
  BY <1>1, Invariant, PTL

(***************************************************************************)
(* What the encoder assumes of itself between calls, for all sources,      *)
(* targets and windows: what the search keeps from byte to byte is what    *)
(* the bytes say, the chains lead where they should though their ring      *)
(* forgets, a match that reached the end of a window can be continued, and *)
(* the index reads on.                                                     *)
(***************************************************************************)

USE DEF Tries

-----------------------------------------------------------------------------
(* The invariants, on top of IInv.                                         *)

\* The search goes on from where it stands to the next byte (updateone).
GoesByByte ==
  \/ pc \in Looking
  \/ pc = "EXTEND" /\ match.by = "loop"
  \/ pc = "SLOT" /\ new.lazy

\* The run ends with the bytes that were looked at last, and the checksum is theirs.
RunAt(run, p, n) == \A i \in 1 .. n : i + run.l > n => T[p + i] = run.c
RunTrue(run, p) == RunAt(run, p, SLook)
LoopInv ==
  GoesByByte =>
    /\ RunTrue(loop, input_position)
    /\ LargeFits(input_position) => loop.lcksum = LargeCksum(Input(input_position, LLook))

\* The slot of each place in the small table.
SlotOf == [p \in Nat |-> SmallSlot(p)]

\* The positions of G are those that were entered in this window.  What the ring has
\* for one of them is, unless the place was needed again, another one that lies before.
Ring(G) ==
  /\ \A p \in G : p \in Nat /\ p < input_position + (IF pc \in Slack THEN 1 ELSE 0)
  /\ \A h \in 0 .. SSlots - 1 :
       small_table[h] # 0 => small_table[h] - 1 \in G /\ SlotOf[small_table[h] - 1] = h
  /\ \A p \in G : input_position < p + SPrevSz =>
       LET prev == small_prev[p % SPrevSz]
       IN  prev # 0 => prev - 1 \in G /\ prev - 1 < p /\ SlotOf[prev - 1] = SlotOf[p]
  /\ pc = "COMPARE" => search.base \in G /\ SlotOf[search.base] = SlotOf[input_position]
RingInv ==
  /\ small_prev \in [0 .. SPrevSz - 1 -> Nat]
  /\ \E G : Ring(G)

\* How far a match must reach to be better than the last one, and where that one ends.
LeastMatch == Larger(MinMatch, MaxLazy - 1)
LazyInv ==
  /\ min_match <= LeastMatch
  /\ pc \in Looking \/ (pc = "EXTEND" /\ match.by = "loop") => input_position + min_match <= AvailIn
  /\ pc = "SLOT" => End(new) = input_position + new.mlen
  /\ pc # "INSTR" =>
       \A i \in 1 .. Len(used) :
         \/ End(used[i]) <= input_position
         \/ End(used[i]) + 2 <= AvailIn /\ End(used[i]) + 2 <= input_position + MaxLazy

\* A match that reached the end of a window is another than the one that was set up, and
\* not too far behind.
Continued == match.state = "TARGET"
ContinueInv ==
  HasSource =>
    /\ Continued =>
         /\ pc \in {"START", "SLOT", "INSTR", "HEADER", "ENDED"}
         /\ pc = "SLOT" => input_position + new.mlen = AvailIn
         /\ match.srcpos = 0 \/ match.srcpos # match.last_srcpos
         /\ match.srcpos <= maxsrcaddr
    /\ InExtension => match.srcpos = match.last_srcpos /\ match.srcpos <= Larger(cksum_pos, maxsrcaddr)
    /\ Continued \/ InExtension => cksum_pos <= match.srcpos + enc.window

\* Nothing but the application is waited for.  A source of one block is that block.
BlockInv ==
  /\ pc = "WAIT" => enc.kind = "app"
  /\ enc.kind = "single" =>
       /\ src.cur = 0 /\ src.eof_known /\ EndIsKnown
       /\ win.decided => win.base + win.len <= Len(S)
       /\ InExtension => match.srcpos + match.maxfwd <= Len(S)

\* How far a pipe has been read ahead of the index.
AheadOf(indexed, copied, room, reached) == Larger(Larger(indexed, copied) + room, reached)
Keeping == (enc.lru - 1) * Blk
Reached == IF InExtension THEN match.srcpos + match.fwd ELSE 0
Ahead == AheadOf(cksum_pos, maxsrcaddr, Keeping, Reached)
PipeInv ==
  enc.kind = "pipe" =>
    \/ src.eof_known /\ Len(S) <= cksum_pos
    \/ src.highest * Blk <= Ahead

\* The source window is not empty once it is decided.
LengthInv ==
  /\ win.maxaddr > 0 => win.minaddr < win.maxaddr
  /\ pc # "HEADER" /\ win.decided => win.len > 0

\* Sources are not empty, and a lazy match is shorter than what a pipe keeps: at least
\* 31 blocks of 512 bytes, and 90 is the most of the built-in matchers.
SourcesThere == \A e \in Encodings : e.kind # "none" => e.source # <<>>
LazyFits == \A e \in Encodings : e.kind = "pipe" => LeastMatch <= (e.lru - 1) * e.blk + 1

SInv == LoopInv /\ RingInv /\ LazyInv /\ ContinueInv /\ BlockInv /\ PipeInv /\ LengthInv

-----------------------------------------------------------------------------
(* The source window is not empty. *)

\* What changes the source window.
LEMMA WinRests ==
  ASSUME [Next]_vars, ~Taken, ~MakeRoom, ~EncodeAll, ~NextWindow
  PROVE  win' = win
<1>1. CASE Enter
  BY <1>1 DEF Enter, ContinueMatch, StartSearch, EmptyWindow, GiveBlock, outVars
<1>2. CASE Index
  BY <1>2 DEF Index, IndexBlock, IndexAsks, IndexEnds, outVars
<1>3. CASE Search
  BY <1>3 DEF Search, FindRun, NoRun, MoveAgain, LargeSearch, NoLarge, StartSmall, Compare, EndSmall, outVars
<1>4. CASE Extend
  BY <1>4 DEF Extend, BackBlock, BackEnds, FwdBlock, FwdEnds, ExtendAsks, NotTaken, Extending, outVars
<1>5. CASE Emit
  BY <1>5 DEF Emit, Place
<1>6. CASE Stopped \/ UNCHANGED vars
  BY <1>6 DEF Stopped, vars, outVars
<1>7. QED
  BY <1>1, <1>2, <1>3, <1>4, <1>5, <1>6 DEF Next

\* A window that is guessed has a length, since there is input and a source.
LEMMA GuessFacts ==
  ASSUME TypeInv, BlocksInv, WinInv, LengthInv, SourcesThere, HasSource, AvailIn > 0, pc # "HEADER"
  PROVE  SetupWin(FALSE).len > 0
<1>1. PICK b \in Nat, n \in Nat, lo \in Nat, hi \in Nat :
        b = win.base /\ n = win.len /\ lo = win.minaddr /\ hi = win.maxaddr
  BY DEF TypeInv
<1>2. lo <= hi /\ hi <= Len(S) /\ (hi > 0 => lo < hi) /\ (win.decided => n > 0)
  BY <1>1 DEF WinInv, LengthInv
<1>3. PICK l \in Nat, f \in Nat, av \in Nat, h \in Nat :
        l = Len(S) /\ f = Eof /\ av = AvailIn /\ h = AvailIn \div 4
  <2>1. Len(S) \in Nat /\ Eof \in Nat /\ AvailIn \in Nat
    BY StateNumbers, EofFacts
  <2>2. PICK av \in Nat : av = AvailIn
    BY <2>1
  <2>3. av \div 4 \in Nat
    OBVIOUS
  <2>4. QED
    BY <2>1, <2>2, <2>3
<1>4. l > 0
  <2>1. enc \in Encodings /\ S \in Seq(Nat)
    BY StateNumbers, EncodingFacts
  <2>2. S # <<>>
    BY <2>1 DEF SourcesThere, HasSource, S
  <2>3. Len(S) # 0
    BY <2>1, <2>2
  <2>4. QED
    BY <1>3, <2>3
<1>5. src.eof_known => l <= f
  BY <1>3, EofFacts
<1>6. PICK guess \in Nat : guess = Larger(hi - lo, av + h) /\ guess > 0
  <2>1. hi - lo \in Nat /\ av + h \in Nat /\ av + h > 0
    BY <1>2, <1>3
  <2>2. QED
    BY <2>1 DEF Larger
<1>7. src.eof_known => f - lo \in Nat /\ f - lo > 0
  BY <1>1, <1>2, <1>3, <1>4, <1>5
<1>8. PICK len \in Nat : /\ len = IF src.eof_known THEN Smaller(guess, f - lo) ELSE guess
                         /\ len > 0
  BY <1>6, <1>7 DEF Smaller
<1>9. PICK w : w = SetupWin(FALSE)
  OBVIOUS
<1>10. w = IF win.decided THEN win ELSE [win EXCEPT !.decided = TRUE, !.base = lo, !.len = len]
  BY <1>1, <1>3, <1>6, <1>8, <1>9 DEF SetupWin
<1>11. CASE win.decided
  BY <1>1, <1>2, <1>9, <1>10, <1>11
<1>12. CASE ~win.decided
  <2>1. w.len = len
    BY <1>10, <1>12 DEF TypeInv
  <2>2. QED
    BY <1>8, <1>9, <2>1
<1>13. QED
  BY <1>11, <1>12

\* Encoding decides the window, and leaves its bounds.
LEMMA EncodeWin ==
  ASSUME TypeInv, BlocksInv, WinInv, NEW final \in BOOLEAN, NEW insts, Encode(insts, final)
  PROVE  /\ win' = win \/ (HasSource /\ win' = SetupWin(final))
         /\ win'.minaddr = win.minaddr /\ win'.maxaddr = win.maxaddr
<1>1. win' = win \/ (HasSource /\ win' = SetupWin(final))
  BY DEF Encode
<1>2. Decided(SetupWin(final))
  BY SetupWinFacts
<1>3. QED
  BY <1>1, <1>2 DEF Decided

LEMMA LengthKeeps ==
  ASSUME IInv, LengthInv, SourcesThere, [Next]_vars
  PROVE  LengthInv'
<1>1. TypeInv /\ BlocksInv /\ WinInv /\ MatchInv /\ PosInv /\ NewInv
  BY DEF IInv
<1>2. CASE Taken
  <2>1. PICK b \in Nat, n \in Nat, lo \in Nat, hi \in Nat :
          b = win.base /\ n = win.len /\ lo = win.minaddr /\ hi = win.maxaddr
    BY <1>1 DEF TypeInv
  <2>2. PICK p \in Nat, ba \in Nat, fw \in Nat : p = match.srcpos /\ ba = match.back /\ fw = match.fwd
    BY <1>1 DEF TypeInv
  <2>3. MinMatch \in Nat \ {0} /\ min_match \in Nat /\ MinMatch <= min_match
    BY <1>1, Sizes, StateNumbers DEF PosInv
  <2>4. pc = "EXTEND" /\ match.state = "DONE" /\ fw >= min_match /\ pc' = "SLOT"
    BY <1>2, <2>2 DEF Taken, Found
  <2>5. ba <= match.maxback /\ match.maxback <= p
    BY <1>1, <2>2, <2>4 DEF MatchInv, InExtension
  <2>6. match.maxback \in Nat
    BY <1>1 DEF TypeInv
  <2>7. PICK start \in Nat, end \in Nat : start = p - ba /\ end = p + fw /\ start < end
    BY <2>3, <2>4, <2>5, <2>6
  <2>8. win' = [win EXCEPT !.minaddr = IF hi = 0 \/ start < lo THEN start ELSE lo, !.maxaddr = Larger(hi, end)]
    BY <1>2, <2>1, <2>2, <2>7 DEF Taken, TakenRange
  <2>9. win'.decided = win.decided /\ win'.len = n /\ win'.maxaddr = Larger(hi, end)
        /\ win'.minaddr = IF hi = 0 \/ start < lo THEN start ELSE lo
    BY <1>1, <2>1, <2>8 DEF TypeInv
  <2>10. win.decided => n > 0
    BY <2>1, <2>4 DEF LengthInv
  <2>11. hi > 0 => lo < hi
    BY <2>1 DEF LengthInv
  <2>12. (IF hi = 0 \/ start < lo THEN start ELSE lo) < Larger(hi, end)
    BY <2>7, <2>11 DEF Larger
  <2>13. QED
    BY <2>9, <2>10, <2>12 DEF LengthInv
<1>3. CASE MakeRoom
  <2>1. pc = "SLOT" /\ pc' = "SLOT" /\ \E insts : Encode(insts, FALSE)
    BY <1>3 DEF MakeRoom
  <2>2. win' = win \/ (HasSource /\ win' = SetupWin(FALSE))
    BY <1>1, <2>1, EncodeWin
  <2>3. win'.minaddr = win.minaddr /\ win'.maxaddr = win.maxaddr
    BY <1>1, <2>1, EncodeWin
  <2>4. AvailIn > 0
    <3>1. PICK m \in Nat : m = new.mlen
      BY <1>1, <2>1 DEF NewInv, Matches
    <3>2. MinMatch <= m /\ input_position + m <= AvailIn
      BY <1>1, <2>1, <3>1 DEF NewInv
    <3>3. QED
      BY <1>1, <3>2, Sizes, StateNumbers
  <2>5. HasSource => SetupWin(FALSE).len > 0
    BY <1>1, <2>1, <2>4, GuessFacts
  <2>6. win'.decided => win'.len > 0
    BY <2>1, <2>2, <2>5 DEF LengthInv
  <2>7. QED
    BY <2>3, <2>6 DEF LengthInv
<1>4. CASE EncodeAll
  <2>1. pc' = "HEADER" /\ \E insts : Encode(insts, TRUE)
    BY <1>4 DEF EncodeAll
  <2>2. win'.minaddr = win.minaddr /\ win'.maxaddr = win.maxaddr
    BY <1>1, <2>1, EncodeWin
  <2>3. QED
    BY <2>1, <2>2 DEF LengthInv
<1>5. CASE NextWindow
  <2>1. win' = NoWin
    BY <1>5 DEF NextWindow
  <2>2. win'.decided = FALSE /\ win'.maxaddr = 0
    BY <2>1 DEF NoWin
  <2>3. QED
    BY <2>2 DEF LengthInv
<1>6. CASE ~Taken /\ ~MakeRoom /\ ~EncodeAll /\ ~NextWindow
  <2>1. win' = win
    BY <1>6, WinRests
  <2>2. CASE pc = "HEADER"
    <3>1. pc' = "HEADER"
      BY <1>6, <2>2 DEF Next, Enter, ContinueMatch, StartSearch, EmptyWindow, GiveBlock, Index, IndexBlock, IndexAsks,
         IndexEnds, Search, FindRun, NoRun, MoveAgain, LargeSearch, NoLarge, StartSmall, Compare, EndSmall,
         Extend, BackBlock, Backward, BackEnds, FwdBlock, Forward, FwdEnds, ExtendAsks, NotTaken, Emit, Place, Stopped, vars
    <3>2. QED
      BY <2>1, <3>1 DEF LengthInv
  <2>3. CASE pc # "HEADER"
    BY <2>1, <2>3 DEF LengthInv
  <2>4. QED
    BY <2>2, <2>3
<1>7. QED
  BY <1>2, <1>3, <1>4, <1>5, <1>6

-----------------------------------------------------------------------------
(* What follows from IInv alone. *)

\* xd3_forward_match starts on the block that it has got.
LEMMA InBlockFollows ==
  ASSUME IInv
  PROVE  InBlock
<1> SUFFICES ASSUME Forward, FwdMore PROVE FwdOff % Blk <= OnBlock(FwdBlk)
  BY DEF InBlock
<1>1. TypeInv /\ MatchInv /\ enc \in Encodings /\ Blk \in Nat \ {0}
  BY StateNumbers DEF IInv
<1>2. InExtension
  BY DEF Forward, InExtension
<1>3. match.srcpos \in Nat /\ match.fwd \in Nat
  BY <1>1 DEF TypeInv
<1>4. PICK n \in Nat : n = FwdOff /\ n <= Len(S)
  BY <1>1, <1>2, <1>3 DEF MatchInv, InSource, FwdOff
<1>5. PICK q \in Nat, r \in Nat : q = n \div Blk /\ r = n % Blk /\ r <= Blk /\ n = q * Blk + r
  <2>1. PICK k \in Nat \ {0} : k = Blk
    BY <1>1
  <2>2. n \div k \in Nat /\ n % k \in 0 .. k - 1 /\ n = (n \div k) * k + (n % k)
    BY Division
  <2>3. n % k \in Nat /\ n % k <= k
    BY <2>2
  <2>4. QED
    BY <2>1, <2>2, <2>3
<1>6. r <= OnBlock(q)
  BY <1>1, <1>4, <1>5, OnBlockFacts
<1>7. QED
  BY <1>4, <1>5, <1>6 DEF FwdBlk

\* xd3_source_cksum_offset gives what was put in, as far behind as a source window.
LEMMA OffsetIs ==
  ASSUME NEW pos \in Nat, NEW a \in Nat, a <= pos, pos - a < OffMod
  PROVE  CksumOffset(pos, a % OffMod) = a
<1> DEFINE m == OffMod
<1>1. m \in Nat \ {0} /\ pos < a + m
  BY Sizes
<1> HIDE DEF m
<1>2. PICK s \in Nat, x \in Nat : s = pos \div m /\ x = pos % m /\ pos = s * m + x /\ x < m
  <2>1. pos \div m \in Nat /\ pos % m \in 0 .. m - 1 /\ pos = (pos \div m) * m + (pos % m)
    BY <1>1, Division
  <2>2. pos % m \in Nat /\ pos % m < m
    BY <1>1, <2>1
  <2>3. QED
    BY <2>1, <2>2
<1>3. PICK t \in Nat, low \in Nat : t = a \div m /\ low = a % m /\ a = t * m + low /\ low < m
  <2>1. a \div m \in Nat /\ a % m \in 0 .. m - 1 /\ a = (a \div m) * m + (a % m)
    BY <1>1, Division
  <2>2. a % m \in Nat /\ a % m < m
    BY <1>1, <2>1
  <2>3. QED
    BY <2>1, <2>2
<1>4. PICK sm \in Nat, tm \in Nat : sm = s * m /\ tm = t * m /\ pos = sm + x /\ a = tm + low
  BY <1>1, <1>2, <1>3, BlockStarts
<1>5. t < s => tm + m <= sm
  BY <1>1, <1>4, BlockStarts
<1>6. s < t => sm + m <= tm
  BY <1>1, <1>4, BlockStarts
<1>7. ~(s < t)
  BY <1>1, <1>2, <1>3, <1>4, <1>6
<1>8. CASE t = s
  <2>1. sm = tm
    BY <1>4, <1>8
  <2>10. low <= x
    BY <1>4, <2>1
  <2>2. s = 0 => sm = 0
    BY <1>1, <1>4, BlockStarts
  <2>3. ~(low > pos % m)
    BY <1>2, <2>10
  <2>4. CksumOffset(pos, low) = IF s = 0 THEN low ELSE sm + low
    BY <1>2, <1>4, <2>3 DEF CksumOffset, m
  <2>5. CksumOffset(pos, low) = tm + low
    BY <1>3, <2>1, <2>2, <2>4
  <2>6. QED
    BY <1>3, <1>4, <2>5 DEF m
<1>9. CASE t < s
  <2>1. PICK u \in Nat : s = u + 1
    <3>1. s - 1 \in Nat /\ s = (s - 1) + 1
      BY <1>9
    <3>2. QED
      BY <3>1
  <2>2. PICK um \in Nat : um = u * m /\ sm = um + m
    BY <1>1, <1>4, <2>1, BlockStarts
  <2>3. t < u => tm + m <= um
    BY <1>1, <1>4, <2>2, BlockStarts
  <2>4. ~(t < u)
    BY <1>1, <1>3, <1>4, <2>2, <2>3
  <2>5. t = u
    BY <1>9, <2>1, <2>4
  <2>6. low > x
    BY <1>1, <1>3, <1>4, <2>2, <2>5
  <2>7. CksumOffset(pos, low) = (s - 1) * m + low
    BY <1>2, <2>1, <2>6 DEF CksumOffset, m
  <2>8. (s - 1) = u
    BY <2>1
  <2>9. QED
    BY <1>3, <2>5, <2>7, <2>8 DEF m
<1>10. QED
  BY <1>7, <1>8, <1>9

LEMMA OffsetsFollow ==
  ASSUME IInv
  PROVE  OffsetsRestored
<1> SUFFICES ASSUME NEW h \in DOMAIN table, table[h] # 0, cksum_pos - (table[h] - 1) <= enc.window
             PROVE  CksumOffset(cksum_pos, (table[h] - 1) % OffMod) = table[h] - 1
  BY DEF OffsetsRestored
<1>1. TypeInv /\ IndexInv /\ cksum_pos \in Nat /\ enc \in Encodings
  BY StateNumbers DEF IInv
<1>2. h \in 0 .. LSlots - 1 /\ table[h] \in Nat
  BY <1>1 DEF TypeInv
<1>3. PICK a \in Nat : a = table[h] - 1 /\ a + LLook <= cksum_pos
  BY <1>1, <1>2, Sizes DEF IndexInv
<1>4. enc.window \in Nat \ {0} /\ 2 * enc.window <= OffMod
  BY <1>1, SrcAssumption
<1>5. a <= cksum_pos /\ cksum_pos - a < OffMod
  BY <1>1, <1>3, <1>4, Sizes
<1>6. QED
  BY <1>1, <1>3, <1>5, OffsetIs

-----------------------------------------------------------------------------
(* A match that reached the end of a window can be continued. *)

\* A match is extended, continued, or looked for.
LEMMA MatchStates ==
  ASSUME TypeInv, ContinueInv, HasSource
  PROVE  /\ match.state = "SEARCHING" \/ Continued \/ InExtension
         /\ pc \in Looking \cup {"EXTEND", "WAIT"} => ~Continued
BY DEF TypeInv, Continued, InExtension, ContinueInv, Looking

LEMMA Searching ==
  ASSUME IInv, ContinueInv, HasSource, pc \in Looking
  PROVE  match.state = "SEARCHING"
<1>1. TypeInv /\ MatchInv
  BY DEF IInv
<1>2. ~InExtension
  BY <1>1 DEF MatchInv, Looking
<1>3. QED
  BY <1>1, <1>2, MatchStates

\* Nothing is known of a match that is looked for.
LEMMA ContinueRests ==
  ASSUME match'.state = "SEARCHING"
  PROVE  ContinueInv'
BY DEF ContinueInv, Continued, InExtension

\* A step of the extension: the place in the source stays.
LEMMA ContinueExtends ==
  ASSUME ContinueInv, UNCHANGED inVars, InExtension, match'.state \in {"BACKWARD", "FORWARD", "DONE"},
         match'.srcpos = match.srcpos, match'.last_srcpos = match.last_srcpos, UNCHANGED idxVars
  PROVE  ContinueInv'
<1>1. HasSource' = HasSource /\ enc' = enc /\ cksum_pos' = cksum_pos /\ maxsrcaddr' = maxsrcaddr
  BY SameWindow DEF idxVars
<1>2. ~Continued'
  BY DEF Continued
<1>3. QED
  BY <1>1, <1>2 DEF ContinueInv, InExtension

\* xd3_source_match_setup: the place is in the index or behind the last copy, and not
\* too far behind.
LEMMA ContinueSetup ==
  ASSUME TypeInv, UNCHANGED inVars, UNCHANGED idxVars, NEW p \in Nat, SetupMatch(p, "FORWARD", "entry") \/ SetupMatch(p, "BACKWARD", "loop"),
         p <= Larger(cksum_pos, maxsrcaddr), cksum_pos <= p + enc.window
  PROVE  ContinueInv'
<1>1. cksum_pos' = cksum_pos /\ maxsrcaddr' = maxsrcaddr /\ enc' = enc
  BY DEF idxVars, inVars
<1>2. match'.srcpos = p /\ match'.last_srcpos = p /\ match'.state \in {"FORWARD", "BACKWARD"}
  BY DEF SetupMatch
<1>3. ~Continued'
  BY <1>2 DEF Continued
<1>4. QED
  BY <1>1, <1>2, <1>3 DEF ContinueInv


\* Steps that leave the match and the index as they are.
LEMMA ContinueStays ==
  ASSUME ContinueInv, UNCHANGED inVars, UNCHANGED idxVars,
         match'.state = match.state, match'.srcpos = match.srcpos, match'.last_srcpos = match.last_srcpos,
         Continued => pc' \in {"START", "INSTR", "HEADER", "ENDED"}
  PROVE  ContinueInv'
<1>1. HasSource' = HasSource /\ enc' = enc /\ cksum_pos' = cksum_pos /\ maxsrcaddr' = maxsrcaddr
  BY SameWindow DEF idxVars
<1>2. Continued' = Continued /\ InExtension' = InExtension
  BY DEF Continued, InExtension
<1>3. QED
  BY <1>1, <1>2 DEF ContinueInv

LEMMA ContinueEnter ==
  ASSUME IInv, ContinueInv, Enter
  PROVE  ContinueInv'
<1>1. TypeInv /\ MatchInv /\ PosInv
  BY DEF IInv
<1>2. CASE ContinueMatch
  <2>1. pc = "START" /\ HasSource /\ Continued /\ SetupMatch(match.srcpos, "FORWARD", "entry")
    BY <1>2 DEF ContinueMatch, Continued
  <2>2. UNCHANGED inVars /\ UNCHANGED idxVars
    BY <1>2 DEF ContinueMatch
  <2>3. PICK p \in Nat, c \in Nat, m \in Nat : p = match.srcpos /\ c = cksum_pos /\ m = maxsrcaddr
    BY <1>1 DEF TypeInv
  <2>4. p <= m /\ c <= p + enc.window
    BY <2>1, <2>3 DEF ContinueInv
  <2>5. p <= Larger(c, m)
    BY <2>4 DEF Larger
  <2>6. QED
    BY <1>1, <2>1, <2>2, <2>3, <2>4, <2>5, ContinueSetup
<1>3. CASE StartSearch
  <2>1. UNCHANGED inVars /\ UNCHANGED idxVars /\ match' = match /\ (HasSource => match.state = "SEARCHING")
    BY <1>3 DEF StartSearch
  <2>2. HasSource' = HasSource
    BY <2>1, SameWindow
  <2>3. QED
    BY <2>1, <2>2 DEF ContinueInv, Continued, InExtension
<1>4. CASE EmptyWindow
  <2>1. UNCHANGED inVars /\ (HasSource => match'.state = "SEARCHING")
    BY <1>1, <1>4 DEF EmptyWindow, TypeInv
  <2>2. HasSource' = HasSource
    BY <2>1, SameWindow
  <2>3. QED
    BY <2>1, <2>2 DEF ContinueInv, Continued, InExtension
<1>5. CASE GiveBlock
  <2>1. pc = "WAIT" /\ HasSource /\ UNCHANGED inVars /\ UNCHANGED idxVars
    BY <1>1, <1>5 DEF GiveBlock, PosInv
  <2>2. match'.state = match.state /\ match'.srcpos = match.srcpos /\ match'.last_srcpos = match.last_srcpos
    <3>1. match' = match \/ match' = [match EXCEPT !.by = "entry"]
      BY <1>5 DEF GiveBlock
    <3>2. QED
      BY <1>1, <3>1 DEF TypeInv
  <2>3. ~Continued
    BY <2>1 DEF ContinueInv
  <2>4. QED
    BY <2>1, <2>2, <2>3, ContinueStays
<1>6. QED
  BY <1>2, <1>3, <1>4, <1>5 DEF Enter

LEMMA ContinueIndex ==
  ASSUME IInv, ContinueInv, Index
  PROVE  ContinueInv'
<1>1. pc = "MOVE" /\ match' = match /\ UNCHANGED inVars
  BY DEF Index, IndexBlock, IndexAsks, IndexEnds
<1>2. HasSource => match.state = "SEARCHING"
  BY <1>1, Searching DEF Looking
<1>3. HasSource' = HasSource
  BY <1>1, SameWindow
<1>4. QED
  BY <1>1, <1>2, <1>3 DEF ContinueInv, Continued, InExtension

LEMMA ContinueSearch ==
  ASSUME IInv, ContinueInv, Search
  PROVE  ContinueInv'
<1>1. TypeInv /\ BlocksInv /\ IndexInv
  BY DEF IInv
<1>2. UNCHANGED inVars /\ UNCHANGED idxVars /\ pc \in Looking
  BY DEF Search, FindRun, NoRun, MoveAgain, LargeSearch, NoLarge, StartSmall, Compare, EndSmall, Looking
<1>3. HasSource' = HasSource
  BY <1>2, SameWindow
<1>4. HasSource => match.state = "SEARCHING"
  BY <1>2, Searching
<1>5. CASE LargeSearch
  <2>1. pc = "AT" /\ LargeEntry # 0 /\ SetupOk(LargePos) /\ SetupMatch(LargePos, "BACKWARD", "loop")
    BY <1>5 DEF LargeSearch
  <2>2. LargePos \in Nat /\ LargePos <= cksum_pos
    BY <1>1, <2>1, LargePosFacts
  <2>3. PICK p \in Nat, c \in Nat, m \in Nat : p = LargePos /\ c = cksum_pos /\ m = maxsrcaddr /\ p <= c
    BY <1>1, <2>2 DEF TypeInv
  <2>4. ~(p < c /\ c - p > enc.window)
    BY <2>1, <2>3 DEF SetupOk
  <2>5. PICK w \in Nat : w = enc.window
    BY <1>1, StateNumbers, EncodingFacts
  <2>6. c <= p + w
    BY <2>3, <2>4, <2>5
  <2>7. p <= Larger(c, m)
    BY <2>3 DEF Larger
  <2>8. QED
    BY <1>1, <1>2, <2>1, <2>3, <2>5, <2>6, <2>7, ContinueSetup
<1>6. CASE ~LargeSearch
  <2>1. match' = match \/ match'.state = "SEARCHING"
    <3>1. CASE NoLarge
      <4>1. match' = match \/ match' = [match EXCEPT !.state = "SEARCHING", !.last_srcpos = LargePos,
                                   !.back = 0, !.fwd = 0, !.maxback = 0, !.maxfwd = 0]
        BY <3>1 DEF NoLarge
      <4>2. QED
        BY <1>1, <4>1 DEF TypeInv
    <3>2. CASE ~NoLarge
      BY <1>6, <3>2 DEF Search, FindRun, NoRun, MoveAgain, StartSmall, Compare, EndSmall
    <3>3. QED
      BY <3>1, <3>2
  <2>2. HasSource => match'.state = "SEARCHING"
    BY <1>4, <2>1
  <2>3. QED
    BY <1>3, <2>2 DEF ContinueInv, Continued, InExtension
<1>7. QED
  BY <1>5, <1>6

\* What a step of the extension changes of the match.
LEMMA MatchStep ==
  ASSUME TypeInv, BackBlock \/ BackEnds \/ FwdBlock \/ FwdEnds \/ ExtendAsks
  PROVE  /\ match'.srcpos = match.srcpos /\ match'.last_srcpos = match.last_srcpos
         /\ match'.maxback = match.maxback /\ match'.maxfwd = match.maxfwd /\ match'.by = match.by
         /\ InExtension /\ match'.state \in {"BACKWARD", "FORWARD", "DONE"}
         /\ ~FwdBlock => match'.fwd = match.fwd
<1>1. InExtension
  BY DEF BackBlock, BackEnds, FwdBlock, FwdEnds, ExtendAsks, Backward, Forward, InExtension
<1>2. CASE BackBlock
  <2>1. PICK n, s : match' = [match EXCEPT !.back = @ + n, !.state = s] /\ s \in {"FORWARD", match.state}
    BY <1>2 DEF BackBlock
  <2>2. QED
    BY <1>1, <2>1 DEF TypeInv, InExtension
<1>3. CASE FwdBlock
  <2>1. PICK n, s : match' = [match EXCEPT !.fwd = @ + n, !.state = s] /\ s \in {"DONE", match.state}
    BY <1>3 DEF FwdBlock
  <2>2. QED
    BY <1>1, <1>3, <2>1 DEF TypeInv, InExtension
<1>4. CASE BackEnds \/ FwdEnds
  <2>1. PICK s : match' = [match EXCEPT !.state = s] /\ s \in {"DONE", "FORWARD"}
    BY <1>4 DEF BackEnds, FwdEnds
  <2>2. QED
    BY <1>1, <2>1 DEF TypeInv
<1>5. CASE ExtendAsks
  <2>1. match' = match
    BY <1>5 DEF ExtendAsks
  <2>2. QED
    BY <1>1, <2>1 DEF InExtension
<1>6. QED
  BY <1>2, <1>3, <1>4, <1>5

LEMMA ContinueExtend ==
  ASSUME IInv, ContinueInv, Extend
  PROVE  ContinueInv'
<1>1. TypeInv /\ MatchInv /\ PosInv
  BY DEF IInv
<1>2. pc = "EXTEND" /\ UNCHANGED inVars
  BY DEF Extend, BackBlock, BackEnds, FwdBlock, FwdEnds, ExtendAsks, NotTaken, Taken, Extending, Backward, Forward
<1>3. HasSource /\ HasSource' /\ enc' = enc
  BY <1>1, <1>2, SameWindow DEF PosInv
<1>4. CASE BackBlock \/ BackEnds \/ FwdBlock \/ FwdEnds \/ ExtendAsks
  <2>1. InExtension /\ UNCHANGED idxVars
    BY <1>4 DEF BackBlock, BackEnds, FwdBlock, FwdEnds, ExtendAsks, Extending, Backward, Forward, InExtension
  <2>3. match'.srcpos = match.srcpos /\ match'.last_srcpos = match.last_srcpos
        /\ match'.state \in {"BACKWARD", "FORWARD", "DONE"}
    BY <1>1, <1>4, MatchStep
  <2>4. QED
    BY <1>2, <2>1, <2>3, ContinueExtends
<1>5. CASE NotTaken
  <2>1. match' = [match EXCEPT !.state = "SEARCHING", !.fwd = 0]
    BY <1>5 DEF NotTaken
  <2>2. match'.state = "SEARCHING"
    BY <1>1, <2>1 DEF TypeInv
  <2>3. QED
    BY <2>2, ContinueRests
<1>6. CASE Taken
  <2>1. PICK p \in Nat, f \in Nat, ip \in Nat, c \in Nat, w \in Nat :
          p = match.srcpos /\ f = match.fwd /\ ip = input_position /\ c = cksum_pos /\ w = enc.window
    BY <1>1, StateNumbers, EncodingFacts DEF TypeInv
  <2>2. InExtension /\ f >= min_match /\ min_match \in Nat /\ MinMatch <= min_match
    BY <1>1, <1>6, <2>1, StateNumbers DEF Taken, InExtension, PosInv
  <2>3. f > 0
    BY <2>1, <2>2, Sizes
  <2>4. match.last_srcpos = p /\ c <= p + w
    BY <1>3, <2>1, <2>2 DEF ContinueInv
  <2>5. CASE ip + f = AvailIn
    <3>1. match' = [match EXCEPT !.state = "TARGET", !.srcpos = @ + match.fwd, !.back = 0]
      BY <1>6, <2>1, <2>5 DEF Taken
    <3>2. match'.state = "TARGET" /\ match'.srcpos = p + f /\ match'.last_srcpos = p
      BY <1>1, <2>1, <2>4, <3>1 DEF TypeInv
    <3>3. pc' = "SLOT" /\ new'.mlen = f /\ maxsrcaddr' = Larger(maxsrcaddr, p + f)
      BY <1>6, <2>1 DEF Taken, Found, TakenRange
    <3>4. cksum_pos' = c /\ input_position' = ip /\ AvailIn' = AvailIn
      BY <1>2, <1>6, <2>1, SameWindow DEF Taken, posVars
    <3>5. p + f <= Larger(maxsrcaddr, p + f)
      <4>1. PICK m \in Nat : m = maxsrcaddr
        BY <1>1 DEF TypeInv
      <4>4. PICK e \in Nat : e = p + f
        OBVIOUS
      <4>2. e <= Larger(m, e)
        BY DEF Larger
      <4>3. QED
        BY <4>1, <4>2, <4>4
    <3>6. p + f # p /\ c <= (p + f) + w
      BY <2>1, <2>3, <2>4
    <3>7. ~InExtension'
      BY <3>2 DEF InExtension
    <3>8. QED
      BY <1>3, <2>1, <2>5, <3>2, <3>3, <3>4, <3>5, <3>6, <3>7 DEF ContinueInv
  <2>6. CASE ip + f # AvailIn
    <3>1. match' = [match EXCEPT !.state = "SEARCHING", !.back = 0]
      BY <1>6, <2>1, <2>6 DEF Taken
    <3>2. match'.state = "SEARCHING"
      BY <1>1, <3>1 DEF TypeInv
    <3>3. QED
      BY <3>2, ContinueRests
  <2>7. QED
    BY <2>5, <2>6
<1>7. QED
  BY <1>4, <1>5, <1>6 DEF Extend

LEMMA ContinueEmit ==
  ASSUME IInv, ContinueInv, Emit
  PROVE  ContinueInv'
<1>1. TypeInv /\ NewInv /\ MatchInv
  BY DEF IInv
<1>2. pc \in {"SLOT", "INSTR", "HEADER"} /\ match' = match
  BY DEF Emit, Place, MakeRoom, EncodeAll, NextWindow
<1>3. ~InExtension
  BY <1>1, <1>2 DEF MatchInv
<1>4. HasSource' = HasSource /\ enc' = enc
  <2>1. enc' = enc
    BY DEF Emit, Place, MakeRoom, EncodeAll, NextWindow, inVars
  <2>2. QED
    BY <2>1 DEF HasSource
<1>5. cksum_pos' = cksum_pos /\ maxsrcaddr' = maxsrcaddr
  BY DEF Emit, Place, MakeRoom, EncodeAll, NextWindow, idxVars
<1>6. SUFFICES ASSUME HasSource, Continued
               PROVE  /\ pc' \in {"START", "SLOT", "INSTR", "HEADER", "ENDED"}
                      /\ pc' = "SLOT" => input_position' + new'.mlen = AvailIn'
  BY <1>2, <1>3, <1>4, <1>5 DEF ContinueInv, Continued, InExtension
<1>7. CASE Place
  <2>1. PICK ip \in Nat, m \in Nat, n \in Nat : ip = input_position /\ m = new.mlen /\ n = AvailIn
    BY <1>1, <1>7, StateNumbers DEF Place, NewInv, Matches
  <2>2. ip + m = n
    BY <1>6, <1>7, <2>1 DEF ContinueInv, Place
  <2>3. ~TryLazy(m)
    BY <2>1, <2>2 DEF TryLazy
  <2>4. Restart(ip + m, End(new))
    BY <1>7, <2>1, <2>3 DEF Place
  <2>5. pc' = "INSTR"
    BY <2>1, <2>2, <2>4, Sizes DEF Restart
  <2>6. QED
    BY <2>5
<1>8. CASE MakeRoom
  <2>1. pc = "SLOT" /\ new' = new /\ input_position' = input_position /\ UNCHANGED inVars
    BY <1>8 DEF MakeRoom
  <2>2. AvailIn' = AvailIn
    BY <2>1, SameWindow
  <2>3. QED
    BY <1>6, <2>1, <2>2, <1>8 DEF ContinueInv, MakeRoom
<1>9. CASE EncodeAll \/ NextWindow
  BY <1>9 DEF EncodeAll, NextWindow
<1>10. QED
  BY <1>7, <1>8, <1>9 DEF Emit

LEMMA ContinueKeeps ==
  ASSUME IInv, ContinueInv, [Next]_vars
  PROVE  ContinueInv'
<1>1. CASE Stopped \/ UNCHANGED vars
  <2>1. UNCHANGED vars
    BY <1>1 DEF Stopped
  <2>2. QED
    BY <2>1 DEF vars, inVars, idxVars, posVars, ContinueInv, Continued, InExtension, HasSource, AvailIn, T
<1>2. QED
  BY <1>1, ContinueEnter, ContinueIndex, ContinueSearch, ContinueExtend, ContinueEmit DEF Next

\* The setup of a match that goes on cannot fail.
LEMMA ContinueFollows ==
  ASSUME IInv, ContinueInv
  PROVE  ContinueOk
<1>1. TypeInv /\ WinInv
  BY DEF IInv
<1>2. SUFFICES ASSUME pc = "START", HasSource, Continued
               PROVE  SetupOk(match.srcpos)
  BY DEF ContinueOk, Continued
<1>3. ~win.decided
  BY <1>1, <1>2 DEF WinInv
<1>4. PICK p \in Nat, c \in Nat, w \in Nat : p = match.srcpos /\ c = cksum_pos /\ w = enc.window
  BY <1>1, StateNumbers, EncodingFacts DEF TypeInv
<1>5. c <= p + w /\ (p = 0 \/ p # match.last_srcpos)
  BY <1>2, <1>4 DEF ContinueInv
<1>6. ~(p < c /\ c - p > w)
  BY <1>4, <1>5
<1>7. QED
  BY <1>3, <1>4, <1>5, <1>6 DEF SetupOk

-----------------------------------------------------------------------------
(* How far a match must reach. *)

LEMMA LeastFacts ==
  LeastMatch \in Nat /\ MinMatch <= LeastMatch /\ MaxLazy - 1 <= LeastMatch
<1>1. PICK m \in Nat, z \in Int : m = MinMatch /\ z = MaxLazy - 1
  BY Sizes
<1>2. Larger(m, z) \in Nat /\ m <= Larger(m, z) /\ z <= Larger(m, z)
  BY DEF Larger
<1>3. QED
  BY <1>1, <1>2 DEF LeastMatch

\* An end of an instruction that may lie ahead, though not far.
NearEnd(end, p) == end <= p \/ (end + 2 <= AvailIn /\ end + 2 <= p + MaxLazy)

LEMMA LazyInvIs ==
  LazyInv <=>
    /\ min_match <= LeastMatch
    /\ pc \in Looking \/ (pc = "EXTEND" /\ match.by = "loop") => input_position + min_match <= AvailIn
    /\ pc = "SLOT" => End(new) = input_position + new.mlen
    /\ pc # "INSTR" => \A i \in 1 .. Len(used) : NearEnd(End(used[i]), input_position)
BY DEF LazyInv, NearEnd

\* A step that leaves the place, the match that waits and the buffer.
LEMMA LazyStays ==
  ASSUME LazyInv, UNCHANGED inVars, input_position' = input_position, min_match' = min_match, used' = used,
         pc' = "SLOT" => pc = "SLOT" /\ new' = new,
         pc' \in Looking \/ (pc' = "EXTEND" /\ match'.by = "loop") =>
           pc \in Looking \/ (pc = "EXTEND" /\ match.by = "loop"),
         pc' # "INSTR" => pc # "INSTR"
  PROVE  LazyInv'
<1>1. AvailIn' = AvailIn
  BY SameWindow
<1>2. LeastMatch' = LeastMatch
  BY DEF LeastMatch
<1>3. \A i \in 1 .. Len(used) : End(used[i])' = End(used[i])
  BY DEF End
<1>4. pc' = "SLOT" => End(new)' = End(new)
  BY DEF End
<1>5. QED
  BY <1>1, <1>2, <1>3, <1>4 DEF LazyInv

\* restartloop: the next match is to end behind the one that it may replace.
LEMMA LazyRestart ==
  ASSUME TypeInv, PosInv, LazyInv, UNCHANGED inVars, NEW p \in Nat, NEW last \in Nat, Restart(p, last), NearEnd(last, p),
         \A i \in 1 .. Len(used') : NearEnd(End(used'[i]), p)
  PROVE  LazyInv'
<1>1. AvailIn' = AvailIn /\ LeastMatch' = LeastMatch
  BY SameWindow DEF LeastMatch
<1>2. PICK n \in Nat, mm \in Nat, m0 \in Nat, least \in Nat, lazy \in Nat, look \in Nat :
        /\ n = AvailIn /\ mm = min_match /\ m0 = MinMatch /\ least = LeastMatch /\ lazy = MaxLazy /\ look = SLook
        /\ m0 <= least /\ lazy - 1 <= least /\ m0 <= look
  BY StateNumbers, LeastFacts, Sizes
<1>3. pc' \in {"INSTR", "MOVE", "RUN"} /\ input_position' = p /\ (pc' # "INSTR" => p + SLook <= AvailIn)
  BY RestartFacts DEF Restarted
<1>4. mm <= least
  BY <1>2 DEF LazyInv
<1>5. pc' = "INSTR" => min_match' = mm
  <2>1. pc' = "INSTR" => p + SLook > AvailIn
    BY DEF Restart
  <2>2. QED
    BY <1>2, <2>1 DEF Restart
<1>6. ASSUME pc' # "INSTR"
      PROVE  min_match' <= least /\ p + min_match' <= n
  <2>1. p + look <= n
    BY <1>2, <1>3, <1>6
  <2>2. min_match' = IF last > p THEN Larger(m0, 1 + last - p) ELSE m0
    BY <1>2, <1>6, <2>1 DEF Restart
  <2>3. last <= p \/ (last + 2 <= n /\ last + 2 <= p + lazy)
    BY <1>2 DEF NearEnd
  <2>4. QED
    BY <1>2, <2>1, <2>2, <2>3 DEF Larger
<1>7. min_match' <= least
  BY <1>4, <1>5, <1>6
<1>8. pc' # "INSTR" => \A i \in 1 .. Len(used') : NearEnd(End(used[i]), input_position)'
  BY <1>1, <1>3 DEF NearEnd, End
<1>9. QED
  BY <1>1, <1>2, <1>3, <1>6, <1>7, <1>8 DEF LazyInv, NearEnd, Looking

\* The last instruction ends near, too.
LEMMA LastIsNear ==
  ASSUME TypeInv, LazyInv, pc # "INSTR"
  PROVE  NearEnd(LastMatched, input_position)
<1>1. CASE used = <<>>
  BY <1>1, StateNumbers DEF LastMatched, NearEnd
<1>2. CASE used # <<>>
  <2>1. Len(used) \in 1 .. Len(used)
    BY <1>2 DEF TypeInv
  <2>2. NearEnd(End(used[Len(used)]), input_position)
    BY <2>1 DEF LazyInv, NearEnd
  <2>3. QED
    BY <1>2, <2>2 DEF LastMatched
<1>3. QED
  BY <1>1, <1>2

\* Going on with the byte at hand.
LEMMA LazyRestartHere ==
  ASSUME IInv, LazyInv, UNCHANGED inVars, Restart(input_position, LastMatched), pc # "INSTR", used' = used
  PROVE  LazyInv'
<1>1. TypeInv /\ PosInv /\ UsedInv
  BY DEF IInv
<1>2. LastMatched \in Nat /\ input_position \in Nat
  BY <1>1, LastMatchedType, StateNumbers
<1>3. NearEnd(LastMatched, input_position)
  BY <1>1, LastIsNear
<1>4. \A i \in 1 .. Len(used') : NearEnd(End(used'[i]), input_position)
  BY DEF LazyInv, NearEnd, End
<1>5. QED
  BY <1>1, <1>2, <1>3, <1>4, LazyRestart

LEMMA LazyEnter ==
  ASSUME IInv, LazyInv, Enter
  PROVE  LazyInv'
<1>1. UNCHANGED inVars /\ used' = used /\ pc \in {"START", "WAIT"}
  BY DEF Enter, ContinueMatch, StartSearch, EmptyWindow, GiveBlock, outVars
<1>2. CASE ContinueMatch
  <2>1. pc' = "EXTEND" /\ match'.by = "entry" /\ UNCHANGED posVars
    BY <1>2 DEF ContinueMatch, SetupMatch
  <2>2. QED
    BY <1>1, <2>1, LazyStays DEF posVars, Looking
<1>3. CASE StartSearch
  <2>1. input_position = 0
    BY <1>3 DEF IInv, PosInv, StartSearch
  <2>2. Restart(input_position, LastMatched)
    BY <1>3, <2>1 DEF StartSearch
  <2>3. QED
    BY <1>1, <2>2, LazyRestartHere
<1>4. CASE EmptyWindow
  <2>1. pc' = "INSTR" /\ UNCHANGED posVars
    BY <1>4 DEF EmptyWindow
  <2>2. QED
    BY <1>1, <2>1, LazyStays DEF posVars, Looking
<1>5. CASE GiveBlock
  <2>1. CASE match.state = "SEARCHING"
    BY <1>1, <1>5, <2>1, LazyRestartHere DEF GiveBlock
  <2>2. CASE match.state # "SEARCHING"
    <3>1. match' = [match EXCEPT !.by = "entry"] /\ pc' = "EXTEND" /\ UNCHANGED posVars
      BY <1>5, <2>2 DEF GiveBlock
    <3>2. match'.by = "entry"
      BY <3>1 DEF IInv, TypeInv
    <3>3. QED
      BY <1>1, <3>1, <3>2, LazyStays DEF posVars, Looking
  <2>3. QED
    BY <2>1, <2>2
<1>6. QED
  BY <1>2, <1>3, <1>4, <1>5 DEF Enter

LEMMA LazyIndex ==
  ASSUME IInv, LazyInv, Index
  PROVE  LazyInv'
<1>1. UNCHANGED inVars /\ used' = used /\ pc = "MOVE" /\ pc' \in {"MOVE", "WAIT", "RUN"}
      /\ input_position' = input_position /\ min_match' = min_match
  BY DEF Index, IndexBlock, IndexAsks, IndexEnds, AskFor, outVars, posVars
<1>2. QED
  BY <1>1, LazyStays DEF Looking

\* A match that is found at the place ends behind its length.
LEMMA FoundEnd ==
  ASSUME NEW type, NEW back \in Nat, NEW size \in Nat, NEW addr, NEW lazy, input_position \in Nat,
         Found(type, back, size, addr, lazy)
  PROVE  End(new)' = input_position + size /\ new'.mlen = size
<1>1. new'.pos = input_position - back /\ new'.size = back + size /\ new'.mlen = size
  BY DEF Found
<1>2. (input_position - back) + (back + size) = input_position + size
  OBVIOUS
<1>3. QED
  BY <1>1, <1>2 DEF End

LEMMA LazySearch ==
  ASSUME IInv, LazyInv, Search
  PROVE  LazyInv'
<1>1. TypeInv /\ PosInv /\ SearchInv
  BY DEF IInv
<1>2. UNCHANGED inVars /\ used' = used /\ pc \in Looking \ {"MOVE"}
  BY DEF Search, FindRun, NoRun, MoveAgain, LargeSearch, NoLarge, StartSmall, Compare, EndSmall, outVars, Looking
<1>3. PICK ip \in Nat, n \in Nat, mm \in Nat, least \in Nat :
        ip = input_position /\ n = AvailIn /\ mm = min_match /\ least = LeastMatch
  BY <1>1, StateNumbers, LeastFacts
<1>4. AvailIn' = n /\ LeastMatch' = least
  BY <1>2, <1>3, SameWindow DEF LeastMatch
<1>5. mm <= least /\ ip + mm <= n /\ \A i \in 1 .. Len(used) : NearEnd(End(used[i]), ip)
  BY <1>2, <1>3 DEF LazyInv, NearEnd, Looking
<1>6. ASSUME pc' = "SLOT", input_position' = ip, min_match' = mm, NEW size \in Nat,
             NEW type, NEW addr, Found(type, 0, size, addr, TRUE)
      PROVE  LazyInv'
  <2>1. End(new)' = ip + size /\ new'.mlen = size
    BY <1>3, <1>6, FoundEnd
  <2>2. \A i \in 1 .. Len(used') : NearEnd(End(used[i]), input_position)'
    BY <1>2, <1>3, <1>4, <1>5, <1>6 DEF NearEnd, End
  <2>3. QED
    BY <1>3, <1>4, <1>5, <1>6, <2>1, <2>2 DEF LazyInv, NearEnd, Looking
<1>7. CASE FindRun
  <2>1. Found("RUN", 0, RunLength, 0, TRUE) /\ input_position' = input_position /\ min_match' = min_match
    BY <1>7 DEF FindRun
  <2>2. RunLength \in Nat
    BY <1>1, <1>2, RunLengthFacts DEF PosInv, Looking
  <2>3. QED
    BY <1>3, <1>6, <2>1, <2>2 DEF Found
<1>8. CASE EndSmall
  <2>1. CASE MatchLength >= min_match
    <3>1. Found("CPY", 0, MatchLength, search.offset, TRUE) /\ UNCHANGED posVars
      BY <1>8, <2>1 DEF EndSmall
    <3>2. MatchLength \in Nat
      BY <1>1 DEF MatchLength, TypeInv
    <3>3. QED
      BY <1>3, <1>6, <3>1, <3>2 DEF Found, posVars
  <2>2. CASE ~(MatchLength >= min_match)
    <3>1. UpdateOne /\ min_match' = IF min_match > MinMatch THEN min_match - 1 ELSE min_match
      BY <1>8, <2>2 DEF EndSmall
    <3>2. PICK m0 \in Nat, look \in Nat : m0 = MinMatch /\ look = SLook /\ m0 <= look /\ m0 <= mm
      BY <1>1, <1>3, Sizes DEF PosInv
    <3>3. ip + look <= n
      BY <1>1, <1>2, <1>3, <3>2 DEF PosInv, Looking
    <3>4. Updated
      BY <1>1, <1>3, <3>1, <3>2, <3>3, UpdateFacts
    <3>5. min_match' \in Nat /\ min_match' <= mm
          /\ (mm > m0 => min_match' = mm - 1) /\ (~(mm > m0) => min_match' = m0)
      BY <1>3, <3>1, <3>2
    <3>6. CASE pc' = "INSTR"
      <4>1. min_match' <= least
        BY <1>3, <1>5, <3>5
      <4>2. QED
        BY <1>4, <3>6, <4>1 DEF LazyInv, Looking
    <3>7. CASE pc' = "RUN" /\ input_position' = ip + 1 /\ ip + 1 + look <= n
      <4>1. min_match' <= least /\ (ip + 1) + min_match' <= n
        <5>1. PICK m1 \in Nat : m1 = min_match'
          BY <3>5
        <5>2. (mm > m0 => m1 = mm - 1) /\ (~(mm > m0) => m1 = m0)
          BY <3>5, <5>1
        <5>3. m1 <= least /\ (ip + 1) + m1 <= n
          BY <1>3, <1>5, <3>2, <3>7, <5>2
        <5>4. QED
          BY <5>1, <5>3
      <4>2. ASSUME NEW i \in 1 .. Len(used)
            PROVE  NearEnd(End(used[i]), input_position)'
        <5>1. NearEnd(End(used[i]), ip)
          BY <1>5
        <5>2. End(used[i]) \in Int
          <6>1. used[i] \in Insts
            BY <1>1, SMTT(60) DEF TypeInv
          <6>2. QED
            BY <6>1 DEF End, Insts
        <5>3. MaxLazy \in Nat
          BY Sizes
        <5>4. NearEnd(End(used[i]), ip + 1)
          BY <5>1, <5>2, <5>3, <1>3 DEF NearEnd
        <5>5. QED
          BY <1>2, <1>3, <1>4, <3>7, <5>4 DEF NearEnd, End
      <4>3. QED
        BY <1>2, <1>4, <3>7, <4>1, <4>2 DEF LazyInv, NearEnd, Looking
    <3>8. QED
      BY <1>3, <3>2, <3>4, <3>6, <3>7 DEF Updated
  <2>3. QED
    BY <2>1, <2>2
<1>9. CASE LargeSearch
  <2>1. pc' = "EXTEND" /\ UNCHANGED posVars
    BY <1>9 DEF LargeSearch
  <2>2. QED
    BY <1>2, <2>1, LazyStays DEF posVars, Looking
<1>10. CASE NoRun \/ MoveAgain \/ NoLarge \/ StartSmall \/ Compare
  <2>1. pc' \in Looking /\ input_position' = input_position /\ min_match' = min_match
    BY <1>10 DEF NoRun, MoveAgain, NoLarge, StartSmall, Compare, posVars, Looking
  <2>2. QED
    BY <1>2, <2>1, LazyStays DEF Looking
<1>11. QED
  BY <1>7, <1>8, <1>9, <1>10 DEF Search

LEMMA LazyExtend ==
  ASSUME IInv, LazyInv, Extend
  PROVE  LazyInv'
<1>1. TypeInv /\ PosInv
  BY DEF IInv
<1>2. UNCHANGED inVars /\ pc = "EXTEND"
  BY DEF Extend, BackBlock, BackEnds, FwdBlock, FwdEnds, ExtendAsks, NotTaken, Taken, Extending, Backward, Forward
<1>3. CASE BackBlock \/ BackEnds \/ FwdBlock \/ FwdEnds \/ ExtendAsks
  <2>1. match'.by = match.by
    BY <1>1, <1>3, MatchStep
  <2>2. pc' \in {"EXTEND", "WAIT"} /\ used' = used /\ UNCHANGED posVars
    BY <1>3, <1>2 DEF BackBlock, BackEnds, FwdBlock, FwdEnds, ExtendAsks, AskFor, Extending, outVars
  <2>3. QED
    BY <1>2, <2>1, <2>2, LazyStays DEF posVars, Looking
<1>4. CASE NotTaken
  <2>1. used' = used
    BY <1>4 DEF NotTaken, outVars
  <2>2. CASE match.by = "loop"
    <3>1. pc' = "SMALL" /\ UNCHANGED posVars
      BY <1>4, <2>2 DEF NotTaken
    <3>2. QED
      BY <1>2, <2>1, <2>2, <3>1, LazyStays DEF posVars, Looking
  <2>3. CASE match.by # "loop"
    BY <1>2, <1>4, <2>1, <2>3, LazyRestartHere DEF NotTaken
  <2>4. QED
    BY <2>2, <2>3
<1>5. CASE Taken
  <2>1. PICK ba \in Nat, fw \in Nat, ip \in Nat : ba = match.back /\ fw = match.fwd /\ ip = input_position
    BY <1>1 DEF TypeInv
  <2>2. Found("SRC", ba, fw, match.srcpos - match.back, match.by = "loop") /\ UNCHANGED posVars
    BY <1>5, <2>1 DEF Taken
  <2>3. End(new)' = ip + fw /\ new'.mlen = fw
    BY <2>1, <2>2, FoundEnd
  <2>4. pc' = "SLOT" /\ input_position' = ip /\ min_match' = min_match /\ AvailIn' = AvailIn
    BY <1>2, <2>1, <2>2, SameWindow DEF Found, posVars
  <2>5. \A i \in 1 .. Len(used') : i \in 1 .. Len(used) /\ used'[i] = used[i]
    <3>1. CASE ba > 0
      <4>1. used' = Kept(ip - ba)
        BY <1>5, <2>1, <3>1 DEF Taken
      <4>2. unencoded_offset + match.maxback <= ip /\ ba <= match.maxback
        BY <1>5, <2>1 DEF IInv, MatchInv, InExtension, Taken
      <4>3. unencoded_offset \in Nat /\ match.maxback \in Nat
        BY <1>1 DEF TypeInv
      <4>4. ip - ba \in Nat
        BY <4>2, <4>3
      <4>5. QED
        BY <1>1, <4>1, <4>4, KeptFacts
    <3>2. CASE ~(ba > 0)
      BY <1>5, <2>1, <3>2 DEF Taken
    <3>3. QED
      BY <3>1, <3>2
  <2>6. ASSUME NEW i \in 1 .. Len(used')
        PROVE  NearEnd(End(used[i]), input_position)'
    <3>1. i \in 1 .. Len(used) /\ used'[i] = used[i]
      BY <2>5
    <3>2. NearEnd(End(used[i]), ip)
      BY <1>2, <2>1, <3>1 DEF LazyInv, NearEnd
    <3>3. QED
      BY <2>4, <3>1, <3>2 DEF NearEnd, End
  <2>7. min_match <= LeastMatch /\ LeastMatch' = LeastMatch
    BY DEF LazyInv, LeastMatch
  <2>8. QED
    BY <2>3, <2>4, <2>6, <2>7 DEF LazyInv, NearEnd, Looking
<1>6. QED
  BY <1>3, <1>4, <1>5 DEF Extend

LEMMA LazyPlace ==
  ASSUME IInv, LazyInv, Place
  PROVE  LazyInv'
<1>1. TypeInv /\ PosInv /\ NewInv
  BY DEF IInv
<1>2. pc = "SLOT" /\ UNCHANGED inVars /\ used' = Append(used, Inst(new))
  BY DEF Place
<1>3. new \in Matches
  BY <1>1, <1>2 DEF NewInv
<1>4. Inst(new) \in Insts /\ End(Inst(new)) = End(new)
  BY <1>3, InstFacts
<1>5. PICK ip \in Nat, n \in Nat, m \in Nat, lazy \in Nat, end \in Nat, m0 \in Nat, look \in Nat :
        /\ ip = input_position /\ n = AvailIn /\ m = new.mlen /\ lazy = MaxLazy /\ m0 = MinMatch /\ look = SLook
        /\ end = End(new) /\ end = ip + m /\ ip + m <= n /\ m0 <= m /\ m0 <= look /\ m0 > 0
  <2>1. PICK ip \in Nat, n \in Nat, lazy \in Nat, m0 \in Nat, look \in Nat :
          /\ ip = input_position /\ n = AvailIn /\ lazy = MaxLazy /\ m0 = MinMatch /\ look = SLook
          /\ m0 <= look /\ m0 > 0
    BY <1>1, Sizes, StateNumbers
  <2>2. PICK m \in Nat : m = new.mlen
    BY <1>3 DEF Matches
  <2>3. m0 <= m /\ ip + m <= n
    BY <1>1, <1>2, <2>1, <2>2 DEF NewInv
  <2>4. PICK end \in Nat : end = End(new) /\ end = ip + m
    BY <1>2, <2>1, <2>2 DEF LazyInv
  <2>5. QED
    BY <2>1, <2>2, <2>3, <2>4
<1>6. PICK len \in Nat : len = Len(used)
  BY <1>1 DEF TypeInv
<1>7. Len(used') = len + 1 /\ used'[len + 1] = Inst(new) /\ \A i \in 1 .. len : used'[i] = used[i]
  BY <1>1, <1>2, <1>6 DEF TypeInv
\* What ended near ends near from further on, and so does the new one.
<1>8. ASSUME NEW p \in Nat, ip <= p, NearEnd(end, p)
      PROVE  \A i \in 1 .. Len(used') : NearEnd(End(used'[i]), p)
  <2>1. SUFFICES ASSUME NEW i \in 1 .. Len(used') PROVE NearEnd(End(used'[i]), p)
    OBVIOUS
  <2>2. CASE i \in 1 .. len
    <3>1. PICK e \in Int : e = End(used[i])
      <4>1. used[i] \in Insts
        BY <1>1, <1>6, <2>2 DEF TypeInv
      <4>2. QED
        BY <4>1 DEF End, Insts
    <3>2. NearEnd(e, ip)
      BY <1>2, <1>5, <1>6, <2>2, <3>1 DEF LazyInv, NearEnd
    <3>3. NearEnd(e, p)
      BY <1>5, <1>8, <3>2 DEF NearEnd
    <3>4. QED
      BY <1>7, <2>2, <3>1, <3>3
  <2>3. CASE i = len + 1
    BY <1>4, <1>5, <1>7, <1>8, <2>3
  <2>4. QED
    BY <1>6, <1>7, <2>1, <2>2, <2>3
<1>9. CASE new.lazy /\ TryLazy(m)
  <2>1. min_match' = m /\ UpdateOne
    BY <1>5, <1>9 DEF Place
  <2>2. m < lazy /\ ip + m <= n - 2
    BY <1>5, <1>9 DEF TryLazy
  <2>3. m <= LeastMatch /\ LeastMatch' = LeastMatch
    BY <1>5, <2>2, LeastFacts DEF LeastMatch
  <2>4. ip + look <= n
    BY <1>1, <1>2, <1>5, <1>9 DEF NewInv
  <2>5. Updated
    BY <1>1, <1>5, <2>1, <2>4, UpdateFacts
  <2>6. CASE pc' = "INSTR"
    BY <2>1, <2>3, <2>6 DEF LazyInv, Looking
  <2>7. CASE pc' = "RUN" /\ input_position' = ip + 1
    <3>1. NearEnd(end, ip + 1)
      BY <1>5, <2>2 DEF NearEnd
    <3>2. \A i \in 1 .. Len(used') : NearEnd(End(used'[i]), ip + 1)
      BY <1>5, <1>8, <3>1
    <3>3. AvailIn' = AvailIn
      BY <1>2, SameWindow
    <3>4. \A i \in 1 .. Len(used') : NearEnd(End(used[i]), input_position)'
      BY <2>7, <3>2, <3>3 DEF NearEnd, End
    <3>5. (ip + 1) + m <= n
      BY <2>2
    <3>6. QED
      BY <1>5, <2>1, <2>3, <2>7, <3>3, <3>4, <3>5 DEF LazyInv, NearEnd, Looking
  <2>8. QED
    BY <1>5, <2>5, <2>6, <2>7 DEF Updated
<1>10. CASE ~(new.lazy /\ TryLazy(m))
  <2>1. Restart(ip + m, end)
    BY <1>5, <1>10 DEF Place
  <2>2. NearEnd(end, end)
    BY <1>5 DEF NearEnd
  <2>3. \A i \in 1 .. Len(used') : NearEnd(End(used'[i]), end)
    BY <1>5, <1>8, <2>2
  <2>4. Restart(end, end)
    BY <1>5, <2>1
  <2>5. QED
    BY <1>1, <1>2, <1>5, <2>2, <2>3, <2>4, LazyRestart
<1>11. QED
  BY <1>9, <1>10

\* An instruction that loses its start ends where it did.
LEMMA CutStartEnd ==
  ASSUME NEW r \in Insts, NEW start \in Int
  PROVE  End(CutStart(r, start)) = End(r)
<1>1. PICK t \in {"RUN", "CPY", "SRC"}, p \in Nat, s \in Int, a \in Nat :
        r = [type |-> t, pos |-> p, size |-> s, addr |-> a]
  BY DEF Insts
<1>2. r.pos = p /\ r.size = s /\ r.addr = a
  BY <1>1
<1>3. CASE p >= start
  BY <1>2, <1>3 DEF CutStart
<1>4. CASE ~(p >= start)
  <2>1. PICK d \in Int : d = start - p
    OBVIOUS
  <2>2. PICK c : c = CutStart(r, start)
    OBVIOUS
  <2>3. c = [r EXCEPT !.pos = start, !.size = @ - d, !.addr = @ + d]
    BY <1>2, <1>4, <2>1, <2>2 DEF CutStart
  <2>4. c = [type |-> t, pos |-> start, size |-> s - d, addr |-> a + d]
    BY <1>1, <2>3
  <2>5. c.pos = start /\ c.size = s - d
    BY <2>4
  <2>6. QED
    BY <1>2, <2>1, <2>2, <2>5 DEF End
<1>5. QED
  BY <1>3, <1>4

LEMMA LazyMakeRoom ==
  ASSUME IInv, LazyInv, MakeRoom
  PROVE  LazyInv'
<1>1. TypeInv
  BY DEF IInv
<1>2. pc = "SLOT" /\ pc' = "SLOT" /\ UNCHANGED inVars /\ input_position' = input_position
      /\ min_match' = min_match /\ new' = new
  BY DEF MakeRoom
<1>3. PICK k \in 1 .. Len(used) : \E cut \in Int :
        used' = [i \in 1 .. Len(used) - k |-> CutStart(used[k + i], cut)]
  <2>1. PICK k \in 1 .. Len(used) :
          \E cut \in IF k < Len(used) THEN {End(used[k]), Smaller(used[k + 1].pos, End(used[k]))}
                     ELSE {End(used[k])} :
            used' = [i \in 1 .. Len(used) - k |-> CutStart(used[k + i], cut)]
    BY DEF MakeRoom
  <2>2. ASSUME NEW i \in 1 .. Len(used)
        PROVE  End(used[i]) \in Int /\ used[i].pos \in Int
    <3>1. used[i] \in Insts
      BY <1>1, SMTT(60) DEF TypeInv
    <3>2. QED
      BY <3>1 DEF End, Insts
  <2>3. End(used[k]) \in Int
    BY <2>2
  <2>4. k < Len(used) => used[k + 1].pos \in Int
    <3>1. k < Len(used) => k + 1 \in 1 .. Len(used)
      BY <1>1 DEF TypeInv
    <3>2. QED
      BY <2>2, <3>1
  <2>5. QED
    BY <2>1, <2>3, <2>4 DEF Smaller
<1>4. PICK cut \in Int : used' = [i \in 1 .. Len(used) - k |-> CutStart(used[k + i], cut)]
  BY <1>3
<1>5. PICK len \in Nat : len = Len(used)
  BY <1>1 DEF TypeInv
<1>6. Len(used') = len - k
  BY <1>4, <1>5
<1>7. AvailIn' = AvailIn /\ LeastMatch' = LeastMatch
  BY <1>2, SameWindow DEF LeastMatch
<1>8. ASSUME NEW i \in 1 .. Len(used')
      PROVE  NearEnd(End(used[i]), input_position)'
  <2>1. k + i \in 1 .. len /\ used'[i] = CutStart(used[k + i], cut)
    BY <1>4, <1>5, <1>6
  <2>2. NearEnd(End(used[k + i]), input_position)
    BY <1>2, <1>5, <2>1 DEF LazyInv, NearEnd
  <2>3. used[k + i] \in Insts
    BY <1>1, <1>5, <2>1 DEF TypeInv
  <2>4. End(CutStart(used[k + i], cut)) = End(used[k + i])
    BY <2>3, CutStartEnd
  <2>5. QED
    BY <1>2, <1>7, <2>1, <2>2, <2>4 DEF NearEnd, End
<1>9. End(new)' = End(new)
  BY <1>2 DEF End
<1>10. QED
  BY <1>2, <1>7, <1>8, <1>9 DEF LazyInv, NearEnd, Looking

LEMMA LazyEmit ==
  ASSUME IInv, LazyInv, Emit
  PROVE  LazyInv'
<1>1. TypeInv /\ UsedInv
  BY DEF IInv
<1>2. CASE EncodeAll
  <2>1. used' = <<>> /\ pc' = "HEADER" /\ min_match' = min_match
    BY <1>2 DEF EncodeAll
  <2>2. Len(used') = 0
    BY <2>1
  <2>3. QED
    BY <2>1, <2>2 DEF LazyInv, LeastMatch, Looking
<1>3. CASE NextWindow
  <2>1. used' = used /\ used = <<>> /\ pc' \in {"START", "ENDED"} /\ min_match' = MinMatch
    BY <1>1, <1>3 DEF NextWindow, UsedInv
  <2>2. Len(used') = 0
    BY <2>1
  <2>3. QED
    BY <2>1, <2>2, LeastFacts DEF LazyInv, LeastMatch, Looking
<1>4. QED
  BY <1>2, <1>3, LazyPlace, LazyMakeRoom DEF Emit

LEMMA LazyKeeps ==
  ASSUME IInv, LazyInv, [Next]_vars
  PROVE  LazyInv'
<1>1. CASE Stopped \/ UNCHANGED vars
  <2>1. UNCHANGED vars
    BY <1>1 DEF Stopped
  <2>2. UNCHANGED inVars /\ pc' = pc /\ input_position' = input_position /\ min_match' = min_match
        /\ used' = used /\ new' = new /\ match' = match
    BY <2>1 DEF vars, inVars, posVars, outVars
  <2>3. QED
    BY <2>2, LazyStays
<1>2. QED
  BY <1>1, LazyEnter, LazyIndex, LazySearch, LazyExtend, LazyEmit DEF Next

-----------------------------------------------------------------------------
(* The chains of the target's own table. *)

\* A slot depends on the bytes of the window alone.
LEMMA SlotStays ==
  ASSUME UNCHANGED inVars
  PROVE  SlotOf' = SlotOf
<1>1. T' = T
  BY SameWindow
<1>2. QED
  BY <1>1 DEF SmallSlot, SlotOf

\* A step that leaves the table and the ring, and does not go back.
LEMMA RingStays ==
  ASSUME TypeInv, RingInv, UNCHANGED inVars, small_table' = small_table, small_prev' = small_prev,
         input_position' \in Nat,
         pc' = "COMPARE" => \A G : Ring(G) => search'.base \in G /\ SlotOf[search'.base] = SlotOf[input_position'],
         IF pc \in Slack /\ pc' \notin Slack THEN input_position < input_position'
         ELSE input_position <= input_position'
  PROVE  RingInv'
<1>1. PICK G : Ring(G)
  BY DEF RingInv
<1>2. PICK ip \in Nat, ip1 \in Nat, size \in Nat, slot \in {SlotOf} :
        ip = input_position /\ ip1 = input_position' /\ size = SPrevSz /\ slot = SlotOf /\ SlotOf' = slot
  BY Sizes, StateNumbers, SlotStays
<1>3. /\ \A p \in G : p \in Nat /\ p < ip + (IF pc \in Slack THEN 1 ELSE 0)
      /\ \A h \in 0 .. SSlots - 1 :
           small_table[h] # 0 => small_table[h] - 1 \in G /\ slot[small_table[h] - 1] = h
      /\ \A p \in G : ip < p + size =>
           (small_prev[p % SPrevSz] # 0 => /\ small_prev[p % SPrevSz] - 1 \in G
                                           /\ small_prev[p % SPrevSz] - 1 < p
                                           /\ slot[small_prev[p % SPrevSz] - 1] = slot[p])
  BY <1>1, <1>2 DEF Ring
<1>4. \A p \in G : p \in Nat /\ p < ip1 + (IF pc' \in Slack THEN 1 ELSE 0)
  BY <1>2, <1>3
<1>5. \A p \in G : ip1 < p + size => ip < p + size
  BY <1>2, <1>4
<1>6. pc' = "COMPARE" => search'.base \in G /\ slot[search'.base] = slot[ip1]
  BY <1>1, <1>2
<1>7. Ring(G)'
  BY <1>2, <1>3, <1>4, <1>5, <1>6 DEF Ring
<1>8. QED
  BY <1>7 DEF RingInv

\* The place at hand has a slot.
LEMMA SlotHere ==
  ASSUME TypeInv, input_position + SLook <= AvailIn
  PROVE  SmallSlot(input_position) \in 0 .. SSlots - 1
<1>1. input_position \in Nat /\ AvailIn \in Nat /\ SLook \in Nat
  BY StateNumbers, Sizes
<1>2. ASSUME NEW i \in 1 .. SLook PROVE T[input_position + i] \in Nat
  <2>1. input_position + i \in 1 .. AvailIn
    BY <1>1
  <2>2. QED
    BY <2>1, TargetFacts
<1>3. QED
  BY <1>1, <1>2, SmallSlotType

\* A search of the chain starts where the table says.
LEMMA RingStart ==
  ASSUME IInv, RingInv, StartSmall
  PROVE  RingInv'
<1>1. TypeInv /\ PosInv
  BY DEF IInv
<1>2. UNCHANGED inVars /\ small_table' = small_table /\ small_prev' = small_prev /\ pc = "SMALL"
      /\ input_position' = input_position /\ pc' \in {"CHOSEN", "COMPARE"}
  BY DEF StartSmall, posVars
<1>3. input_position \in Nat
  BY <1>1, StateNumbers
<1>4. ASSUME pc' = "COMPARE", NEW G, Ring(G)
      PROVE  search'.base \in G /\ SlotOf[search'.base] = SlotOf[input_position]
  <2>1. PICK h \in 0 .. SSlots - 1 : h = SmallSlot(input_position)
    BY <1>1, <1>2, SlotHere DEF PosInv, Looking
  <2>2. small_table[h] # 0 /\ search' = [NoSearch EXCEPT !.base = small_table[h] - 1, !.chain = Chain]
    BY <1>4, <2>1 DEF StartSmall
  <2>3. search'.base = small_table[h] - 1
    BY <2>2 DEF NoSearch
  <2>4. small_table[h] - 1 \in G /\ SlotOf[small_table[h] - 1] = h
    BY <1>4, <2>2 DEF Ring
  <2>5. SlotOf[input_position] = h
    BY <1>3, <2>1 DEF SlotOf
  <2>6. QED
    BY <2>3, <2>4, <2>5
<1>5. QED
  BY <1>1, <1>2, <1>3, <1>4, RingStays DEF Slack

\* The chain goes on to what the ring has for a place that it has not forgotten.
LEMMA RingCompare ==
  ASSUME IInv, RingInv, Compare
  PROVE  RingInv'
<1>1. TypeInv
  BY DEF IInv
<1>2. UNCHANGED inVars /\ small_table' = small_table /\ small_prev' = small_prev /\ pc = "COMPARE"
      /\ input_position' = input_position /\ pc' \in {"CHOSEN", "COMPARE"}
  BY DEF Compare, posVars
<1>3. input_position \in Nat
  BY <1>1, StateNumbers
<1>4. ASSUME pc' = "COMPARE", NEW G, Ring(G)
      PROVE  search'.base \in G /\ SlotOf[search'.base] = SlotOf[input_position]
  <2>1. PICK b \in Nat, ip \in Nat, size \in Nat \ {0} : b = search.base /\ ip = input_position /\ size = SPrevSz
    BY <1>1, Sizes DEF TypeInv
  <2>2. GoesOn /\ search'.base = PrevPos
    <3>1. PICK chosen : /\ \/ chosen = search
                           \/ chosen = [search EXCEPT !.len = Alike(search.base), !.offset = search.base]
                        /\ GoesOn /\ search' = [chosen EXCEPT !.base = PrevPos, !.chain = @ - 1]
      BY <1>4 DEF Compare
    <3>2. chosen \in [base : Nat, chain : Int, len : {search.len, Alike(search.base)}, offset : Nat]
      BY <1>1, <3>1 DEF TypeInv
    <3>3. QED
      BY <3>1, <3>2
  <2>3. b \in G /\ SlotOf[b] = SlotOf[ip]
    BY <1>2, <1>4, <2>1 DEF Ring
  <2>4. b % size \in 0 .. size - 1
    BY <2>1, Division
  <2>5. PICK v \in Nat : v = small_prev[b % size]
    BY <2>1, <2>4 DEF RingInv
  <2>6. PrevPos = v - 1 /\ v - 1 \in 0 .. b /\ ip - (v - 1) < size
    BY <2>1, <2>2, <2>5 DEF GoesOn, PrevPos
  <2>7. v # 0 /\ ip < b + size
    BY <2>1, <2>6
  <2>8. v - 1 \in G /\ SlotOf[v - 1] = SlotOf[b]
    BY <1>4, <2>1, <2>3, <2>5, <2>7 DEF Ring
  <2>9. QED
    BY <2>1, <2>2, <2>3, <2>6, <2>8
<1>5. QED
  BY <1>1, <1>2, <1>3, <1>4, RingStays DEF Slack

\* xd3_scksum_insert: the place at hand is the first of its chain, and what the ring
\* had at its place is too far behind.
LEMMA RingInsert ==
  ASSUME IInv, RingInv, EndSmall
  PROVE  RingInv'
<1>1. TypeInv /\ PosInv
  BY DEF IInv
<1>2. UNCHANGED inVars /\ pc = "CHOSEN" /\ InsertSmall
  BY DEF EndSmall
<1>3. PICK ip \in Nat, size \in Nat \ {0} : ip = input_position /\ size = SPrevSz
  BY <1>1, Sizes DEF TypeInv
<1>4. /\ pc' # "COMPARE"
      /\ \/ input_position' = ip /\ pc' \in Slack
         \/ input_position' = ip + 1
  <2>1. CASE MatchLength >= min_match
    BY <1>3, <2>1 DEF EndSmall, Found, posVars, Slack
  <2>2. CASE ~(MatchLength >= min_match)
    <3>1. UpdateOne
      BY <2>2 DEF EndSmall
    <3>2. input_position + SLook <= AvailIn
      BY <1>1, <1>2 DEF PosInv, Looking
    <3>3. Updated
      BY <1>1, <3>1, <3>2, UpdateFacts
    <3>4. QED
      BY <1>3, <3>3 DEF Updated, Slack
  <2>3. QED
    BY <2>1, <2>2
<1>5. CASE ~enc.small
  <2>1. small_table' = small_table /\ small_prev' = small_prev
    BY <1>2, <1>5 DEF InsertSmall
  <2>2. QED
    BY <1>1, <1>2, <1>3, <1>4, <2>1, RingStays DEF Slack
<1>6. CASE enc.small
  <2>1. PICK G : Ring(G)
    BY DEF RingInv
  <2>2. PICK slot : slot = SlotOf /\ SlotOf' = slot
    BY <1>2, SlotStays
  <2>3. PICK h \in 0 .. SSlots - 1 : h = SmallSlot(ip) /\ slot[ip] = h
    <3>1. SmallSlot(ip) \in 0 .. SSlots - 1
      BY <1>1, <1>2, <1>3, SlotHere DEF PosInv, Looking
    <3>2. slot[ip] = SmallSlot(ip)
      BY <2>2 DEF SlotOf
    <3>3. QED
      BY <3>1, <3>2
  <2>4. PICK v \in Nat : v = small_table[h]
    BY <1>1 DEF TypeInv
  <2>5. PICK k \in 0 .. size - 1 : k = ip % size
    BY <1>3, Division
  <2>6. PICK p1, t1 : p1 = small_prev' /\ t1 = small_table'
    OBVIOUS
  <2>7. p1 = [small_prev EXCEPT ![k] = v] /\ t1 = [small_table EXCEPT ![h] = ip + 1]
    BY <1>2, <1>3, <1>6, <2>3, <2>4, <2>5, <2>6 DEF InsertSmall
  <2>8. small_table \in [0 .. SSlots - 1 -> Nat] /\ small_prev \in [0 .. size - 1 -> Nat]
    BY <1>1, <1>3 DEF TypeInv, RingInv
  <2>9. p1 \in [0 .. size - 1 -> Nat]
    BY <2>7, <2>8
  <2>10. PICK H : H = G \cup {ip}
    OBVIOUS
  <2>11. \A p \in G : p \in Nat /\ p < ip
    BY <1>2, <1>3, <2>1 DEF Ring, Slack
  <2>12. \A p \in H : p \in Nat /\ p < input_position' + (IF pc' \in Slack THEN 1 ELSE 0)
    BY <1>3, <1>4, <2>10, <2>11
  <2>13. ASSUME NEW j \in 0 .. SSlots - 1, t1[j] # 0
         PROVE  t1[j] - 1 \in H /\ slot[t1[j] - 1] = j
    <3>1. CASE j = h
      <4>1. t1[j] = ip + 1
        BY <2>7, <2>8, <3>1
      <4>2. t1[j] - 1 = ip
        BY <4>1
      <4>3. QED
        BY <2>3, <2>10, <3>1, <4>2
    <3>2. CASE j # h
      <4>1. t1[j] = small_table[j]
        BY <2>7, <2>8, <3>2
      <4>2. small_table[j] - 1 \in G /\ slot[small_table[j] - 1] = j
        BY <2>1, <2>2, <2>13, <4>1 DEF Ring
      <4>3. QED
        BY <2>10, <4>1, <4>2
    <3>3. QED
      BY <3>1, <3>2
  <2>14. ASSUME NEW p \in H, input_position' < p + size, p1[p % size] # 0
         PROVE  p1[p % size] - 1 \in H /\ p1[p % size] - 1 < p /\ slot[p1[p % size] - 1] = slot[p]
    <3>1. CASE p = ip
      <4>1. p1[p % size] = v
        BY <2>5, <2>7, <2>8, <3>1
      <4>2. v # 0
        BY <2>14, <4>1
      <4>3. v - 1 \in G /\ slot[v - 1] = h
        BY <2>1, <2>2, <2>4, <4>2 DEF Ring
      <4>4. QED
        BY <2>3, <2>10, <2>11, <3>1, <4>1, <4>3
    <3>2. CASE p # ip
      <4>1. p \in G /\ p \in Nat /\ p < ip
        BY <2>10, <2>11, <3>2
      <4>2. ip < p + size
        BY <1>3, <1>4, <2>14, <4>1
      <4>3. p % size # ip % size
        <5>1. ~(p + size <= ip)
          BY <1>3, <4>1, <4>2
        <5>2. p % size = ip % size => p + size <= ip
          BY <4>1, SameRemainder
        <5>3. QED
          BY <5>1, <5>2
      <4>4. p % size \in 0 .. size - 1
        BY <1>3, <4>1, Division
      <4>5. p1[p % size] = small_prev[p % size]
        BY <2>5, <2>7, <2>8, <4>3, <4>4
      <4>6. small_prev[p % size] - 1 \in G /\ small_prev[p % size] - 1 < p /\ slot[small_prev[p % size] - 1] = slot[p]
        BY <1>3, <2>1, <2>2, <2>14, <4>1, <4>2, <4>5 DEF Ring
      <4>7. QED
        BY <2>10, <4>5, <4>6
    <3>3. QED
      BY <3>1, <3>2
  <2>15. Ring(H)'
    BY <1>3, <1>4, <2>2, <2>6, <2>12, <2>13, <2>14 DEF Ring
  <2>16. QED
    BY <1>3, <2>6, <2>9, <2>15 DEF RingInv
<1>7. QED
  BY <1>5, <1>6

\* The place moves on, and the table and the ring rest.
LEMMA RingRests ==
  ASSUME IInv, RingInv, [Next]_vars, ~StartSmall, ~Compare, ~EndSmall, ~NextWindow
  PROVE  RingInv'
<1>1. TypeInv /\ PosInv /\ NewInv /\ UsedInv
  BY DEF IInv
<1>2. PICK ip \in Nat : ip = input_position
  BY <1>1, StateNumbers
<1>3. SUFFICES /\ UNCHANGED inVars /\ small_table' = small_table /\ small_prev' = small_prev
               /\ input_position' \in Nat
               /\ \/ pc' = "COMPARE" /\ pc = "COMPARE" /\ search' = search /\ input_position' = ip
                  \/ pc' # "COMPARE" /\ input_position' = ip /\ (pc \in Slack => pc' \in Slack)
                  \/ pc' # "COMPARE" /\ ip < input_position'
  <2>1. ASSUME pc' = "COMPARE", NEW G, Ring(G)
        PROVE  search'.base \in G /\ SlotOf[search'.base] = SlotOf[input_position']
    BY <1>2, <1>3, <2>1 DEF Ring
  <2>2. IF pc \in Slack /\ pc' \notin Slack THEN ip < input_position' ELSE ip <= input_position'
    BY <1>2, <1>3 DEF Slack
  <2>3. QED
    BY <1>1, <1>2, <1>3, <2>1, <2>2, RingStays
<1>4. CASE UNCHANGED vars \/ Stopped
  BY <1>2, <1>4 DEF Stopped, vars, inVars, smallVars, posVars
<1>5. CASE Enter
  <2>1. CASE ContinueMatch \/ EmptyWindow
    BY <1>2, <2>1 DEF ContinueMatch, EmptyWindow, smallVars, posVars, Slack
  <2>2. CASE StartSearch
    <3>1. Restart(0, LastMatched) /\ UNCHANGED inVars /\ UNCHANGED smallVars /\ ip = 0 /\ pc = "START"
      BY <1>1, <1>2, <2>2 DEF StartSearch, PosInv
    <3>2. input_position' = 0 /\ pc' \in {"INSTR", "MOVE", "RUN"}
      BY <3>1 DEF Restart
    <3>3. QED
      BY <3>1, <3>2 DEF smallVars, Slack
  <2>3. CASE GiveBlock
    <3>1. UNCHANGED inVars /\ UNCHANGED smallVars /\ pc = "WAIT"
      BY <2>3 DEF GiveBlock
    <3>2. input_position' = ip /\ pc' \in {"INSTR", "MOVE", "RUN", "EXTEND"}
      BY <1>2, <2>3 DEF GiveBlock, Restart, posVars
    <3>3. QED
      BY <3>1, <3>2 DEF smallVars, Slack
  <2>4. QED
    BY <1>5, <2>1, <2>2, <2>3 DEF Enter
<1>6. CASE Index
  BY <1>2, <1>6 DEF Index, IndexBlock, IndexAsks, IndexEnds, AskFor, smallVars, posVars, Slack
<1>7. CASE FindRun \/ NoRun \/ MoveAgain \/ LargeSearch \/ NoLarge
  BY <1>2, <1>7 DEF FindRun, NoRun, MoveAgain, LargeSearch, NoLarge, Found, smallVars, posVars, Slack
<1>8. CASE Extend
  <2>1. CASE BackBlock \/ BackEnds \/ FwdBlock \/ FwdEnds \/ ExtendAsks
    BY <1>2, <2>1 DEF BackBlock, BackEnds, FwdBlock, FwdEnds, ExtendAsks, AskFor, Backward, Forward,
       Extending, smallVars, posVars, Slack
  <2>2. CASE NotTaken
    <3>1. UNCHANGED inVars /\ UNCHANGED smallVars /\ pc = "EXTEND"
      BY <2>2 DEF NotTaken
    <3>2. input_position' = ip /\ pc' \in {"INSTR", "MOVE", "RUN", "SMALL"}
      BY <1>2, <2>2 DEF NotTaken, Restart, posVars
    <3>3. QED
      BY <3>1, <3>2 DEF smallVars, Slack
  <2>3. CASE Taken
    BY <1>2, <2>3 DEF Taken, Found, smallVars, posVars, Slack
  <2>4. QED
    BY <1>8, <2>1, <2>2, <2>3 DEF Extend
<1>9. CASE Place
  <2>1. UNCHANGED inVars /\ UNCHANGED smallVars /\ pc = "SLOT"
    BY <1>9 DEF Place
  <2>2. PICK m \in Nat : m = new.mlen
    BY <1>1, <2>1 DEF NewInv, Matches
  <2>3. m > 0
    <3>1. MinMatch <= m
      BY <1>1, <2>1, <2>2 DEF NewInv
    <3>2. QED
      BY <3>1, Sizes
  <2>4. CASE new.lazy /\ TryLazy(m)
    <3>1. UpdateOne /\ input_position + SLook <= AvailIn
      BY <1>1, <1>9, <2>1, <2>2, <2>4 DEF Place, NewInv
    <3>2. Updated
      BY <1>1, <3>1, UpdateFacts
    <3>3. QED
      BY <1>2, <2>1, <3>2 DEF Updated, smallVars, Slack
  <2>5. CASE ~(new.lazy /\ TryLazy(m))
    <3>1. Restart(ip + m, End(new))
      BY <1>2, <1>9, <2>2, <2>5 DEF Place
    <3>2. input_position' = ip + m /\ pc' \in {"INSTR", "MOVE", "RUN"}
      BY <3>1 DEF Restart
    <3>3. QED
      BY <2>1, <2>3, <3>2 DEF smallVars
  <2>6. QED
    BY <2>4, <2>5
<1>10. CASE MakeRoom \/ EncodeAll
  BY <1>2, <1>10 DEF MakeRoom, EncodeAll, smallVars, Slack
<1>11. QED
  BY <1>4, <1>5, <1>6, <1>7, <1>8, <1>9, <1>10 DEF Next, Search, Emit

\* small_reset empties the table, and the ring keeps what nothing leads to.
LEMMA RingReset ==
  ASSUME RingInv, NextWindow
  PROVE  RingInv'
<1>1. small_prev' = small_prev /\ pc' \in {"START", "ENDED"} /\ small_table' = EmptyTable(SSlots)
  BY DEF NextWindow
<1>2. \A h \in 0 .. SSlots - 1 : small_table'[h] = 0
  BY <1>1 DEF EmptyTable
<1>3. Ring({})'
  BY <1>1, <1>2 DEF Ring
<1>4. QED
  BY <1>1, <1>3 DEF RingInv

LEMMA RingKeeps ==
  ASSUME IInv, RingInv, [Next]_vars
  PROVE  RingInv'
BY RingStart, RingCompare, RingInsert, RingReset, RingRests

\* What is compared lies behind, in the same slot.
LEMMA ChainsFollow ==
  ASSUME IInv, LazyInv, RingInv
  PROVE  ChainsTrue
<1> SUFFICES ASSUME pc = "COMPARE"
             PROVE  /\ min_match + input_position <= AvailIn
                    /\ search.base < input_position /\ SmallSlot(search.base) = SmallSlot(input_position)
  BY DEF ChainsTrue
<1>1. TypeInv /\ SearchInv
  BY DEF IInv
<1>2. PICK ip \in Nat, n \in Nat, mm \in Nat, b \in Nat :
        ip = input_position /\ n = AvailIn /\ mm = min_match /\ b = search.base
  BY <1>1, StateNumbers DEF TypeInv
<1>3. mm + ip <= n
  BY <1>2 DEF LazyInv, Looking
<1>4. b < ip
  BY <1>1, <1>2 DEF SearchInv
<1>5. SlotOf[b] = SlotOf[ip]
  BY <1>2 DEF RingInv, Ring
<1>6. SmallSlot(b) = SmallSlot(ip)
  BY <1>5 DEF SlotOf
<1>7. QED
  BY <1>2, <1>3, <1>4, <1>6

-----------------------------------------------------------------------------
(* Who gives the whole source as one block is not asked. *)

\* The number of a block depends on the place alone, and the whole source is block 0.
LEMMA SingleFacts ==
  ASSUME IInv, BlockInv, enc.kind = "single"
  PROVE  /\ Len(S) \in Nat /\ Len(S) <= Blk /\ Eof = Len(S) /\ src.cur = 0 /\ src.eof_known /\ MayGet(0)
         /\ \A n \in Nat : n < Len(S) => n \div Blk = 0
<1>1. TypeInv /\ BlocksInv /\ enc \in Encodings /\ Len(S) \in Nat /\ Blk \in Nat \ {0}
  BY StateNumbers DEF IInv
<1>2. PICK k \in Nat \ {0}, l \in Nat : k = Blk /\ l = Len(S)
  BY <1>1
<1>3. l <= k
  BY <1>1, <1>2, SrcAssumption DEF S, Blk
<1>4. src.cur = 0 /\ src.eof_known /\ EndIsKnown
  BY DEF BlockInv
<1>5. Eof = l
  BY <1>1, <1>2, <1>4, EofFacts
<1>6. MayGet(0)
  <2>1. src.max_blkno \in Nat
    BY <1>1 DEF TypeInv
  <2>2. QED
    BY <2>1 DEF MayGet
<1>7. ASSUME NEW n \in Nat, n < l
      PROVE  n \div k = 0
  <2>1. n = 0 * k + n /\ n \in 0 .. k - 1
    BY <1>3, <1>7
  <2>2. QED
    BY <2>1, DivisionIs
<1>8. QED
  BY <1>2, <1>3, <1>4, <1>5, <1>6, <1>7

\* The blocks that are wanted of a single one are itself.
LEMMA SingleIndex ==
  ASSUME IInv, BlockInv, enc.kind = "single", IndexMore
  PROVE  IndexBlk = 0
<1>1. IndexPos \in Nat
  BY IndexPosFacts DEF IInv
<1>2. IndexPos < Len(S)
  BY SingleFacts DEF IndexMore
<1>3. QED
  BY <1>1, <1>2, SingleFacts DEF IndexBlk

LEMMA SingleExtend ==
  ASSUME IInv, BlockInv, enc.kind = "single", pc = "EXTEND", InExtension
  PROVE  (BackMore => BackBlk = 0) /\ (FwdMore => FwdBlk = 0)
<1>1. PICK p \in Nat, ba \in Nat, fw \in Nat, mb \in Nat, mf \in Nat, l \in Nat :
        /\ p = match.srcpos /\ ba = match.back /\ fw = match.fwd /\ mb = match.maxback /\ mf = match.maxfwd
        /\ l = Len(S) /\ ba <= mb /\ mb <= p /\ p + fw <= l
  BY ExtensionFacts, SingleFacts
<1>2. p + mf <= l
  BY <1>1 DEF BlockInv
<1>3. ASSUME BackMore
      PROVE  BackBlk = 0
  <2>1. ba < mb
    BY <1>1, <1>3 DEF BackMore
  <2>2. PICK n \in Nat : n = (p - ba) - 1 /\ n < l
    <3>1. ba < p /\ p <= l
      BY <1>1, <2>1
    <3>2. (p - ba) - 1 \in Nat /\ (p - ba) - 1 < l
      BY <3>1
    <3>3. QED
      BY <3>2
  <2>3. QED
    BY <1>1, <2>2, SingleFacts DEF BackBlk, BackOff
<1>4. ASSUME FwdMore
      PROVE  FwdBlk = 0
  <2>1. fw < mf
    BY <1>1, <1>4 DEF FwdMore
  <2>2. PICK n \in Nat : n = p + fw /\ n < l
    <3>1. p + fw \in Nat /\ p + fw < l
      BY <1>1, <1>2, <2>1
    <3>2. QED
      BY <3>1
  <2>3. QED
    BY <1>1, <2>2, SingleFacts DEF FwdBlk, FwdOff
<1>5. QED
  BY <1>3, <1>4

\* What is encoded stays.
LEMMA EncStays ==
  ASSUME [Next]_vars
  PROVE  enc' = enc
BY DEF Next, Enter, ContinueMatch, StartSearch, EmptyWindow, GiveBlock, Index, IndexBlock, IndexAsks, IndexEnds,
     Search, FindRun, NoRun, MoveAgain, LargeSearch, NoLarge, StartSmall, Compare, EndSmall, Extend, BackBlock,
     BackEnds, FwdBlock, FwdEnds, ExtendAsks, NotTaken, Taken, Extending, Emit, Place, MakeRoom, EncodeAll, NextWindow,
     Stopped, vars, inVars

LEMMA BlockWait ==
  ASSUME IInv, BlockInv, [Next]_vars, pc' = "WAIT"
  PROVE  enc'.kind = "app"
<1>1. enc' = enc
  BY EncStays
<1>2. CASE IndexAsks
  <2>1. enc.kind \in {"app", "single"} /\ IndexMore /\ IndexBlk # src.cur
    BY <1>2 DEF IndexAsks, Asked
  <2>2. enc.kind # "single"
    BY <2>1, SingleIndex, SingleFacts
  <2>3. QED
    BY <1>1, <2>1, <2>2
<1>3. CASE ExtendAsks
  <2>1. pc = "EXTEND" /\ InExtension
    BY <1>3 DEF ExtendAsks, Backward, Forward, InExtension
  <2>2. enc.kind \in {"app", "single"} /\ ((BackMore /\ BackBlk # src.cur) \/ (FwdMore /\ FwdBlk # src.cur))
    BY <1>3 DEF ExtendAsks, Asked
  <2>3. enc.kind # "single"
    BY <2>1, <2>2, SingleExtend, SingleFacts
  <2>4. QED
    BY <1>1, <2>2, <2>3
<1>4. CASE ~IndexAsks /\ ~ExtendAsks
  <2>1. pc = "WAIT"
    BY <1>4 DEF Next, Enter, ContinueMatch, StartSearch, EmptyWindow, GiveBlock, Index, IndexBlock, IndexEnds,
       Search, FindRun, NoRun, MoveAgain, LargeSearch, NoLarge, StartSmall, Compare, EndSmall, Found, UpdateOne,
       Extend, BackBlock, BackEnds, FwdBlock, FwdEnds, Backward, Forward, NotTaken, Taken, Emit, Place, MakeRoom, EncodeAll,
       NextWindow, Restart, Stopped, vars
  <2>2. QED
    BY <1>1, <2>1 DEF BlockInv
<1>5. QED
  BY <1>2, <1>3, <1>4

LEMMA BlockSrc ==
  ASSUME IInv, BlockInv, [Next]_vars, enc.kind = "single"
  PROVE  src'.cur = 0 /\ src'.eof_known /\ EndIsKnown'
<1>1. TypeInv /\ BlocksInv
  BY DEF IInv
<1>2. S' = S /\ Blk' = Blk /\ enc' = enc
  BY EncStays DEF S, Blk
<1>3. ASSUME src' = Getblk(0)
      PROVE  src'.cur = 0 /\ src'.eof_known /\ EndIsKnown'
  <2>1. GotBlock(0)
    BY <1>1, <1>2, <1>3, SingleFacts, GetblkFacts
  <2>2. src'.cur = 0
    BY <1>3 DEF Getblk
  <2>3. src'.eof_known /\ src'.max_blkno = src.max_blkno /\ src'.onlastblk = src.onlastblk
    BY <2>1, SingleFacts DEF GotBlock
  <2>4. EndIsKnown
    BY DEF BlockInv
  <2>5. QED
    BY <1>2, <2>2, <2>3, <2>4 DEF EndIsKnown
<1>4. ASSUME src' = src
      PROVE  src'.cur = 0 /\ src'.eof_known /\ EndIsKnown'
  <2>1. src.cur = 0 /\ src.eof_known /\ EndIsKnown
    BY DEF BlockInv
  <2>2. QED
    BY <1>2, <1>4, <2>1 DEF EndIsKnown
<1>5. CASE IndexBlock
  BY <1>3, <1>5, SingleIndex DEF IndexBlock
<1>6. CASE BackBlock \/ FwdBlock
  <2>1. pc = "EXTEND" /\ InExtension
    BY <1>6 DEF BackBlock, FwdBlock, Backward, Forward, InExtension
  <2>2. src' = Getblk(0)
    BY <1>6, <2>1, SingleExtend DEF BackBlock, FwdBlock
  <2>3. QED
    BY <1>3, <2>2
<1>7. CASE GiveBlock
  BY <1>7 DEF GiveBlock, BlockInv
<1>8. CASE ~IndexBlock /\ ~BackBlock /\ ~FwdBlock /\ ~GiveBlock
  <2>1. src' = src
    BY <1>8 DEF Next, Enter, ContinueMatch, StartSearch, EmptyWindow, Index, IndexAsks, IndexEnds,
       Search, FindRun, NoRun, MoveAgain, LargeSearch, NoLarge, StartSmall, Compare, EndSmall,
       Extend, BackEnds, FwdEnds, ExtendAsks, NotTaken, Taken, Emit, Place, MakeRoom, EncodeAll,
       NextWindow, Stopped, vars
  <2>2. QED
    BY <1>4, <2>1
<1>9. QED
  BY <1>5, <1>6, <1>7, <1>8

\* A source window that is decided ends with the source.
LEMMA SingleWin ==
  ASSUME IInv, BlockInv, enc.kind = "single", NEW final \in BOOLEAN
  PROVE  SetupWin(final).base + SetupWin(final).len <= Len(S)
<1>1. TypeInv /\ BlocksInv /\ WinInv
  BY DEF IInv
<1>2. PICK d \in BOOLEAN, b \in Nat, n \in Nat, lo \in Nat, hi \in Nat :
        win = [decided |-> d, base |-> b, len |-> n, minaddr |-> lo, maxaddr |-> hi]
  BY <1>1 DEF TypeInv
<1>3. win.decided = d /\ win.base = b /\ win.len = n /\ win.minaddr = lo /\ win.maxaddr = hi
  BY <1>2, WinFields
<1>4. PICK l \in Nat : l = Len(S) /\ Eof = l /\ src.eof_known
  BY SingleFacts
<1>5. lo <= hi /\ hi <= l /\ (d => b + n <= l) /\ (~d => b = 0 /\ n = 0)
  BY <1>1, <1>3, <1>4 DEF WinInv, BlockInv
<1>6. PICK av \in Nat : av = AvailIn
  BY <1>1, StateNumbers
<1>7. PICK len \in Nat : len = hi - lo /\ lo + len <= l
  <2>1. hi - lo \in Nat /\ lo + (hi - lo) <= l
    BY <1>5
  <2>2. QED
    BY <2>1
<1>8. PICK rest \in Nat : rest = l - lo /\ lo + rest = l
  <2>1. l - lo \in Nat /\ lo + (l - lo) = l
    BY <1>5
  <2>2. QED
    BY <2>1
<1>9. PICK guess \in Nat : guess = Larger(len, av + av \div 4)
  <2>1. av + av \div 4 \in Nat
    OBVIOUS
  <2>2. QED
    BY <2>1 DEF Larger
<1>10. PICK s \in Nat : s = Smaller(guess, rest) /\ s <= rest
  <2>1. Smaller(guess, rest) \in Nat /\ Smaller(guess, rest) <= rest
    BY DEF Smaller
  <2>2. QED
    BY <2>1
<1>11. PICK w : w = SetupWin(final)
  OBVIOUS
<1>12. w = IF d THEN win
           ELSE IF final /\ hi = 0 THEN [win EXCEPT !.decided = TRUE]
           ELSE [win EXCEPT !.decided = TRUE, !.base = lo, !.len = IF final THEN len ELSE s]
  BY <1>3, <1>4, <1>6, <1>7, <1>8, <1>9, <1>10, <1>11 DEF SetupWin
<1>13. CASE d
  BY <1>3, <1>4, <1>5, <1>11, <1>12, <1>13
<1>14. CASE ~d /\ final /\ hi = 0
  <2>1. w = [decided |-> TRUE, base |-> b, len |-> n, minaddr |-> lo, maxaddr |-> hi]
    BY <1>2, <1>12, <1>14
  <2>2. w.base = b /\ w.len = n
    BY <2>1, WinFields, Zenon
  <2>3. b + n <= l
    <3>1. b = 0 /\ n = 0
      BY <1>5, <1>14, Zenon
    <3>2. QED
      BY <3>1
  <2>4. QED
    BY <1>4, <1>11, <2>2, <2>3
<1>15. CASE ~d /\ ~(final /\ hi = 0)
  <2>1. PICK t \in Nat : t = (IF final THEN len ELSE s) /\ lo + t <= l
    <3>1. lo + s <= l
      BY <1>8, <1>10
    <3>2. CASE final
      BY <1>7, <3>2, Zenon
    <3>3. CASE ~final
      BY <1>10, <3>1, <3>3, Zenon
    <3>4. QED
      BY <3>2, <3>3
  <2>2. w = [decided |-> TRUE, base |-> lo, len |-> t, minaddr |-> lo, maxaddr |-> hi]
    BY <1>2, <1>12, <1>15, <2>1
  <2>3. w.base = lo /\ w.len = t
    BY <2>2, WinFields, Zenon
  <2>4. QED
    BY <1>4, <1>11, <2>1, <2>3
<1>16. QED
  BY <1>13, <1>14, <1>15

LEMMA BlockWin ==
  ASSUME IInv, BlockInv, [Next]_vars, enc.kind = "single", win'.decided
  PROVE  win'.base + win'.len <= Len(S)
<1>1. TypeInv /\ BlocksInv /\ WinInv
  BY DEF IInv
<1>2. win.decided => win.base + win.len <= Len(S)
  BY DEF BlockInv
<1>3. CASE Taken
  <2>1. PICK lo, hi : win' = [win EXCEPT !.minaddr = lo, !.maxaddr = hi]
    BY <1>3 DEF Taken, TakenRange
  <2>2. win'.decided = win.decided /\ win'.base = win.base /\ win'.len = win.len
    BY <1>1, <2>1 DEF TypeInv
  <2>3. QED
    BY <1>2, <2>2
<1>4. CASE MakeRoom \/ EncodeAll
  <2>1. \E insts : Encode(insts, FALSE) \/ Encode(insts, TRUE)
    BY <1>4 DEF MakeRoom, EncodeAll
  <2>2. PICK final \in BOOLEAN : win' = win \/ win' = SetupWin(final)
    BY <1>1, <2>1, EncodeWin
  <2>3. QED
    BY <1>2, <2>2, SingleWin
<1>5. CASE NextWindow
  BY <1>5 DEF NextWindow, NoWin
<1>6. CASE ~Taken /\ ~MakeRoom /\ ~EncodeAll /\ ~NextWindow
  BY <1>2, <1>6, WinRests
<1>7. QED
  BY <1>3, <1>4, <1>5, <1>6

\* A match that is set up ends with the source.
LEMMA SingleSetup ==
  ASSUME IInv, BlockInv, enc.kind = "single", NEW p \in Nat, p <= Len(S), win.decided => p <= win.base + win.len
  PROVE  p + MaxFwd(p) <= Len(S)
<1>1. TypeInv /\ PosInv
  BY DEF IInv
<1>2. PICK l \in Nat, b \in Nat, n \in Nat, av \in Nat, ip \in Nat :
        l = Len(S) /\ Eof = l /\ src.eof_known /\ b = win.base /\ n = win.len /\ av = AvailIn /\ ip = input_position
  BY <1>1, SingleFacts, StateNumbers DEF TypeInv
<1>3. PICK a \in Nat : a = av - ip
  BY <1>1, <1>2 DEF PosInv
<1>4. CASE win.decided
  <2>1. b + n <= l
    BY <1>2, <1>4 DEF BlockInv
  <2>2. PICK d \in Nat : d = (b + n) - p /\ p + d <= l
    <3>1. (b + n) - p \in Nat /\ p + ((b + n) - p) <= l
      BY <1>2, <1>4, <2>1
    <3>2. QED
      BY <3>1
  <2>3. MaxFwd(p) = Smaller(a, d)
    BY <1>2, <1>3, <1>4, <2>2 DEF MaxFwd
  <2>4. p + Smaller(a, d) <= l
    BY <2>2 DEF Smaller
  <2>5. QED
    BY <1>2, <2>3, <2>4
<1>5. CASE ~win.decided
  <2>1. PICK d \in Nat : d = l - p /\ p + d <= l
    <3>1. l - p \in Nat /\ p + (l - p) <= l
      BY <1>2
    <3>2. QED
      BY <3>1
  <2>2. MaxFwd(p) = Smaller(a, d)
    BY <1>2, <1>3, <1>5, <2>1 DEF MaxFwd
  <2>3. p + Smaller(a, d) <= l
    BY <2>1 DEF Smaller
  <2>4. QED
    BY <1>2, <2>2, <2>3
<1>6. QED
  BY <1>4, <1>5

LEMMA BlockMatch ==
  ASSUME IInv, BlockInv, [Next]_vars, enc.kind = "single", InExtension'
  PROVE  match'.srcpos + match'.maxfwd <= Len(S)
<1>1. TypeInv /\ BlocksInv /\ IndexInv /\ MatchInv /\ WinInv /\ PosInv
  BY DEF IInv
<1>2. InExtension => match.srcpos + match.maxfwd <= Len(S)
  BY DEF BlockInv
<1>3. CASE ContinueMatch
  <2>1. pc = "START" /\ match.state = "TARGET" /\ SetupMatch(match.srcpos, "FORWARD", "entry")
    BY <1>3 DEF ContinueMatch
  <2>2. match.srcpos \in Nat /\ match.srcpos <= Len(S) /\ ~win.decided
    BY <1>1, <2>1 DEF TypeInv, MatchInv, InSource, WinInv
  <2>3. match'.srcpos = match.srcpos /\ match'.maxfwd = MaxFwd(match.srcpos)
    BY <2>1 DEF SetupMatch
  <2>4. QED
    BY <2>2, <2>3, SingleSetup
<1>4. CASE LargeSearch
  <2>1. pc = "AT" /\ LargeEntry # 0 /\ SetupOk(LargePos) /\ SetupMatch(LargePos, "BACKWARD", "loop")
    BY <1>4 DEF LargeSearch
  <2>2. LargePos \in Nat /\ LargePos <= Len(S)
    BY <1>1, <2>1, LargePosFacts DEF InSource
  <2>3. win.decided => LargePos <= win.base + win.len
    BY <2>1 DEF SetupOk
  <2>4. match'.srcpos = LargePos /\ match'.maxfwd = MaxFwd(LargePos)
    BY <2>1 DEF SetupMatch
  <2>5. QED
    BY <2>2, <2>3, <2>4, SingleSetup
<1>5. CASE BackBlock \/ BackEnds \/ FwdBlock \/ FwdEnds \/ ExtendAsks
  BY <1>1, <1>2, <1>5, MatchStep
<1>6. CASE NotTaken
  <2>1. match' = [match EXCEPT !.state = "SEARCHING", !.fwd = 0]
    BY <1>6 DEF NotTaken
  <2>2. match'.state = "SEARCHING"
    BY <1>1, <2>1 DEF TypeInv
  <2>3. QED
    BY <2>2 DEF InExtension
<1>7. CASE Taken
  <2>1. \/ match' = [match EXCEPT !.state = "TARGET", !.srcpos = @ + match.fwd, !.back = 0]
        \/ match' = [match EXCEPT !.state = "SEARCHING", !.back = 0]
    BY <1>7 DEF Taken
  <2>2. match'.state \in {"TARGET", "SEARCHING"}
    BY <1>1, <2>1 DEF TypeInv
  <2>3. QED
    BY <2>2 DEF InExtension
<1>8. CASE EmptyWindow \/ NoLarge
  <2>1. \/ match' = [match EXCEPT !.state = "SEARCHING", !.fwd = 0]
        \/ match' = match
        \/ match' = [match EXCEPT !.state = "SEARCHING", !.last_srcpos = LargePos,
                                   !.back = 0, !.fwd = 0, !.maxback = 0, !.maxfwd = 0]
    BY <1>8 DEF EmptyWindow, NoLarge
  <2>2. match' = match \/ match'.state = "SEARCHING"
    BY <1>1, <2>1 DEF TypeInv
  <2>3. QED
    BY <1>2, <2>2 DEF InExtension
<1>9. CASE GiveBlock
  BY <1>9 DEF GiveBlock, BlockInv
<1>10. CASE StartSearch \/ Index \/ FindRun \/ NoRun \/ MoveAgain \/ StartSmall \/ Compare \/ EndSmall
            \/ Emit \/ Stopped \/ UNCHANGED vars
  <2>1. match' = match
    BY <1>10 DEF StartSearch, Index, IndexBlock, IndexAsks, IndexEnds, FindRun, NoRun, MoveAgain, StartSmall,
       Compare, EndSmall, Emit, Place, MakeRoom, EncodeAll, NextWindow, Stopped, vars
  <2>2. QED
    BY <1>2, <2>1 DEF InExtension
<1>11. QED
  BY <1>3, <1>4, <1>5, <1>6, <1>7, <1>8, <1>9, <1>10 DEF Next, Enter, Search, Extend

LEMMA BlockKeeps ==
  ASSUME IInv, BlockInv, [Next]_vars
  PROVE  BlockInv'
<1>1. enc' = enc /\ S' = S /\ Blk' = Blk
  BY EncStays DEF S, Blk
<1>2. ASSUME enc.kind = "single"
      PROVE  /\ src'.cur = 0 /\ src'.eof_known /\ EndIsKnown'
             /\ win'.decided => win'.base + win'.len <= Len(S)
             /\ InExtension' => match'.srcpos + match'.maxfwd <= Len(S)
  BY <1>2, BlockSrc, BlockWin, BlockMatch
<1>3. QED
  BY <1>1, <1>2, BlockWait DEF BlockInv

\* Who gives the whole source as one block is never asked.
LEMMA NeverAskedFollows ==
  ASSUME BlockInv
  PROVE  NeverAsked
BY DEF BlockInv, NeverAsked

-----------------------------------------------------------------------------
(* A pipe is not read too far ahead of the index. *)

LEMMA AheadFacts ==
  ASSUME NEW c \in Nat, NEW m \in Nat, NEW r \in Nat, NEW e \in Nat
  PROVE  /\ AheadOf(c, m, r, e) \in Nat /\ e <= AheadOf(c, m, r, e)
         /\ c + r <= AheadOf(c, m, r, e) /\ m + r <= AheadOf(c, m, r, e)
         /\ AheadOf(c, m, r, 0) = Larger(c, m) + r
<1>1. PICK l \in Nat : l = Larger(c, m) /\ c <= l /\ m <= l
  BY DEF Larger
<1>2. QED
  BY <1>1 DEF AheadOf, Larger

LEMMA AheadGrows ==
  ASSUME NEW c \in Nat, NEW m \in Nat, NEW r \in Nat, NEW e \in Nat, NEW c1 \in Nat, NEW m1 \in Nat, NEW e1 \in Nat,
         c <= c1, m <= m1, e <= AheadOf(c1, m1, r, e1)
  PROVE  AheadOf(c, m, r, e) <= AheadOf(c1, m1, r, e1)
<1>1. PICK a \in Nat : a = AheadOf(c1, m1, r, e1) /\ c1 + r <= a /\ m1 + r <= a
  BY AheadFacts
<1>2. AheadOf(c, m, r, e) <= a
  BY <1>1 DEF AheadOf, Larger
<1>3. QED
  BY <1>1, <1>2

\* A pipe keeps a window of blocks, and its source has as many.
LEMMA PipeFacts ==
  ASSUME TypeInv, BlocksInv, enc.kind = "pipe"
  PROVE  /\ Keeping \in Nat /\ enc.lru \in Nat \ {0} /\ enc.lru * Blk = Keeping + Blk
         /\ src.eof_known => Eof = Len(S)
<1>1. PICK k \in Nat \ {0}, l \in Nat \ {0}, n \in Nat : k = Blk /\ l = enc.lru /\ n = Len(S)
  BY EncodingFacts DEF TypeInv
<1>2. enc.window = enc.blk * enc.lru /\ Len(enc.source) >= enc.window
  BY SrcAssumption DEF TypeInv
<1>3. k * l <= n
  BY <1>1, <1>2 DEF S, Blk
<1>4. PICK j \in Nat : j = l - 1 /\ l = j + 1
  <2>1. l - 1 \in Nat /\ l = (l - 1) + 1
    OBVIOUS
  <2>2. QED
    BY <2>1
<1>5. j * k \in Nat /\ (j + 1) * k = j * k + k
  BY BlockStarts
<1>6. l * k = j * k + k
  BY <1>4, <1>5
<1>7. k <= n
  BY <1>3, <1>5, <1>6
<1>8. ASSUME src.eof_known PROVE Eof = n
  <2>1. ~EndIsBlock
    BY <1>1, <1>7 DEF EndIsBlock
  <2>2. QED
    BY <1>1, <1>8, <2>1, EofFacts
<1>9. QED
  BY <1>1, <1>4, <1>5, <1>6, <1>8 DEF Keeping

\* While the index has to read, the pipe is less than a window before it.
LEMMA PipeIndex ==
  ASSUME IInv, PipeInv, enc.kind = "pipe", pc = "MOVE", IndexMore
  PROVE  /\ IndexPos = Larger(cksum_pos, maxsrcaddr) /\ IndexPos \in Nat
         /\ src.highest * Blk <= IndexPos + Keeping
<1>1. TypeInv /\ BlocksInv /\ IndexInv /\ MatchInv
  BY DEF IInv
<1>2. PICK c \in Nat, m \in Nat, i \in Nat, r \in Nat :
        c = cksum_pos /\ m = maxsrcaddr /\ i = IndexPos /\ r = Keeping /\ c <= i
  BY <1>1, PipeFacts, IndexPosFacts DEF TypeInv
<1>3. src.eof_known => Eof = Len(S) /\ i < Eof
  BY <1>1, <1>2, PipeFacts DEF IndexMore
<1>4. Len(S) \in Nat
  BY <1>1, StateNumbers
<1>5. ~Indexed
  <2>1. Indexed => src.eof_known /\ i = Eof
    BY <1>2 DEF Indexed, IndexPos
  <2>2. QED
    BY <1>2, <1>3, <1>4, <2>1
<1>6. i = Larger(c, m)
  BY <1>2, <1>5 DEF IndexPos
<1>7. ~(src.eof_known /\ Len(S) <= c)
  BY <1>2, <1>3, <1>4
<1>8. Reached = 0
  BY <1>1 DEF MatchInv, Reached
<1>9. src.highest * Blk <= AheadOf(c, m, r, 0)
  BY <1>2, <1>7, <1>8 DEF PipeInv, Ahead
<1>10. AheadOf(c, m, r, 0) = i + r
  BY <1>6, AheadFacts
<1>11. QED
  BY <1>2, <1>6, <1>9, <1>10

\* The index reads on: it is never past the end, and a pipe still has its block.
LEMMA IndexReadsFollow ==
  ASSUME IInv, PipeInv
  PROVE  IndexReadsOn
<1>1. TypeInv /\ BlocksInv /\ IndexInv
  BY DEF IInv
<1>2. pc # "MOVE" /\ src.eof_known => cksum_pos <= Eof
  BY <1>1 DEF IndexInv
<1>3. ASSUME pc = "MOVE", IndexMore, Refused(IndexBlk)
      PROVE  FALSE
  <2>1. enc.kind = "pipe" /\ IndexBlk + enc.lru <= src.highest
    BY <1>3 DEF Refused
  <2>2. PICK k \in Nat \ {0}, l \in Nat \ {0}, h \in Nat, r \in Nat :
          k = Blk /\ l = enc.lru /\ h = src.highest /\ r = Keeping /\ l * k = r + k
    <3>1. PICK k \in Nat \ {0}, l \in Nat \ {0} : k = Blk /\ l = enc.lru
      BY <1>1, <2>1, PipeFacts, StateNumbers
    <3>2. PICK h \in Nat, r \in Nat : h = src.highest /\ r = Keeping
      BY <1>1, <2>1, PipeFacts DEF TypeInv
    <3>3. l * k = r + k
      BY <1>1, <2>1, <3>1, <3>2, PipeFacts
    <3>4. QED
      BY <3>1, <3>2, <3>3
  <2>3. PICK i \in Nat : i = IndexPos /\ h * k <= i + r
    BY <1>3, <2>1, <2>2, PipeIndex
  <2>4. PICK b \in Nat, x \in Nat : b = i \div k /\ i = b * k + x /\ x < k
    <3>1. i \div k \in Nat /\ i % k \in 0 .. k - 1 /\ i = (i \div k) * k + (i % k)
      BY <2>2, Division
    <3>2. i % k \in Nat /\ i % k < k
      BY <2>2, <3>1
    <3>3. QED
      BY <3>1, <3>2
  <2>5. b + l <= h
    BY <2>1, <2>2, <2>3, <2>4 DEF IndexBlk
  <2>6. (b + l) * k = b * k + l * k
    BY <2>2
  <2>7. (b + l) * k <= h * k /\ b * k \in Nat /\ h * k \in Nat
    BY <2>2, <2>5, BlockStarts
  <2>8. QED
    BY <2>2, <2>3, <2>4, <2>6, <2>7
<1>4. QED
  BY <1>2, <1>3 DEF IndexReadsOn

\* What has been read is not more, and the index and the match have moved on.
LEMMA PipeGrows ==
  ASSUME PipeInv, enc.kind = "pipe", TypeInv, enc' = enc, src' = src,
         NEW c1 \in Nat, NEW m1 \in Nat, NEW e1 \in Nat,
         c1 = cksum_pos', m1 = maxsrcaddr', e1 = Reached', cksum_pos <= c1, maxsrcaddr <= m1,
         BlocksInv, Reached \in Nat, Reached <= AheadOf(c1, m1, Keeping, e1)
  PROVE  PipeInv'
<1>1. PICK c \in Nat, m \in Nat, r \in Nat, e \in Nat, h \in Nat, n \in Nat, a \in Nat :
        /\ c = cksum_pos /\ m = maxsrcaddr /\ r = Keeping /\ e = Reached /\ h = src.highest * Blk /\ n = Len(S)
        /\ a = AheadOf(c1, m1, r, e1) /\ c <= c1 /\ m <= m1 /\ e <= a
  <2>1. PICK k \in Nat \ {0}, t \in Nat : k = Blk /\ t = src.highest
    BY EncodingFacts DEF TypeInv
  <2>2. t * k \in Nat
    BY <2>1, BlockStarts
  <2>3. PICK r \in Nat : r = Keeping
    BY PipeFacts
  <2>4. AheadOf(c1, m1, r, e1) \in Nat
    BY <2>3, AheadFacts
  <2>5. QED
    BY <2>1, <2>2, <2>3, <2>4, StateNumbers
<1>2. AheadOf(c, m, r, e) <= a /\ AheadOf(c, m, r, e) \in Nat
  BY <1>1, AheadGrows, AheadFacts
<1>3. (src.eof_known /\ n <= c) \/ h <= AheadOf(c, m, r, e)
  BY <1>1 DEF PipeInv, Ahead
<1>4. (src.eof_known /\ n <= c1) \/ h <= a
  BY <1>1, <1>2, <1>3
<1>5. S' = S /\ Blk' = Blk /\ Keeping' = r
  BY <1>1 DEF S, Blk, Keeping
<1>6. Ahead' = a
  BY <1>1, <1>5 DEF Ahead
<1>7. QED
  BY <1>1, <1>4, <1>5, <1>6 DEF PipeInv

\* A block has been got that is not further ahead than that.
LEMMA PipeGets ==
  ASSUME PipeInv, enc.kind = "pipe", TypeInv, enc' = enc, NEW b \in Nat, src' = Getblk(b),
         NEW c1 \in Nat, NEW m1 \in Nat, NEW e1 \in Nat,
         c1 = cksum_pos', m1 = maxsrcaddr', e1 = Reached', cksum_pos <= c1, maxsrcaddr <= m1,
         BlocksInv, Reached \in Nat, Reached <= AheadOf(c1, m1, Keeping, e1),
         b * Blk <= AheadOf(c1, m1, Keeping, e1)
  PROVE  PipeInv'
<1>1. PICK c \in Nat, m \in Nat, r \in Nat, e \in Nat, h \in Nat, k \in Nat \ {0}, n \in Nat, a \in Nat :
        /\ c = cksum_pos /\ m = maxsrcaddr /\ r = Keeping /\ e = Reached /\ h = src.highest /\ k = Blk
        /\ a = AheadOf(c1, m1, r, e1) /\ c <= c1 /\ m <= m1 /\ e <= a /\ b * k <= a /\ n = Len(S)
  <2>1. PICK k \in Nat \ {0}, h \in Nat, r \in Nat : k = Blk /\ h = src.highest /\ r = Keeping
    BY EncodingFacts, PipeFacts DEF TypeInv
  <2>2. AheadOf(c1, m1, r, e1) \in Nat
    BY <2>1, AheadFacts
  <2>3. QED
    BY <2>1, <2>2, StateNumbers
<1>2. AheadOf(c, m, r, e) <= a /\ AheadOf(c, m, r, e) \in Nat
  BY <1>1, AheadGrows, AheadFacts
<1>3. (src.eof_known /\ n <= c) \/ h * k <= AheadOf(c, m, r, e)
  BY <1>1 DEF PipeInv, Ahead
<1>4. src'.highest = Larger(b, h) /\ (src.eof_known => src'.eof_known)
  BY <1>1 DEF Getblk
<1>5. h * k \in Nat /\ b * k \in Nat
  BY <1>1, BlockStarts
<1>6. (src'.eof_known /\ n <= c1) \/ src'.highest * k <= a
  <2>1. CASE src'.highest = b
    BY <1>1, <2>1
  <2>2. CASE src'.highest = h
    <3>1. CASE h * k <= AheadOf(c, m, r, e)
      BY <1>1, <1>2, <1>5, <2>2, <3>1, SMTT(60)
    <3>2. CASE src.eof_known /\ n <= c
      BY <1>1, <1>4, <3>2
    <3>3. QED
      BY <1>3, <3>1, <3>2
  <2>3. QED
    BY <1>4, <2>1, <2>2 DEF Larger
<1>7. S' = S /\ Blk' = Blk /\ Keeping' = r
  BY <1>1 DEF S, Blk, Keeping
<1>8. Ahead' = a
  BY <1>1, <1>7 DEF Ahead
<1>9. QED
  BY <1>1, <1>6, <1>7, <1>8 DEF PipeInv

LEMMA PipeIndexKeeps ==
  ASSUME IInv, PipeInv, enc.kind = "pipe", Index
  PROVE  PipeInv'
<1>1. TypeInv /\ BlocksInv /\ IndexInv /\ MatchInv
  BY DEF IInv
<1>2. pc = "MOVE" /\ enc' = enc /\ match' = match /\ maxsrcaddr' = maxsrcaddr
  BY DEF Index, IndexBlock, IndexAsks, IndexEnds, inVars
<1>3. Reached = 0 /\ Reached' = 0
  BY <1>1, <1>2 DEF MatchInv, Reached, InExtension
<1>4. PICK c \in Nat, m \in Nat, i \in Nat, r \in Nat, k \in Nat \ {0} :
        c = cksum_pos /\ m = maxsrcaddr /\ i = IndexPos /\ r = Keeping /\ k = Blk /\ c <= i
  BY <1>1, PipeFacts, IndexPosFacts, StateNumbers
<1>5. CASE IndexBlock
  <2>1. PICK b \in Nat, x \in Nat : b = i \div k /\ i = b * k + x /\ x < k
    <3>1. i \div k \in Nat /\ i % k \in 0 .. k - 1 /\ i = (i \div k) * k + (i % k)
      BY <1>4, Division
    <3>2. i % k \in Nat /\ i % k < k
      BY <1>4, <3>1
    <3>3. QED
      BY <3>1, <3>2
  <2>2. PICK bk \in Nat, c1 \in Nat : bk = b * k /\ c1 = (b + 1) * k /\ c1 = bk + k
    BY <1>4, BlockStarts
  <2>3. cksum_pos' = c1 /\ src' = Getblk(b)
    BY <1>4, <1>5, <2>1, <2>2 DEF IndexBlock, IndexBlk
  <2>4. c <= c1 /\ bk <= c1
    BY <1>4, <2>1, <2>2
  <2>5. c1 + r <= AheadOf(c1, m, r, 0) /\ AheadOf(c1, m, r, 0) \in Nat
    BY <1>4, <2>2, AheadFacts
  <2>6. bk <= AheadOf(c1, m, r, 0)
    BY <1>4, <2>2, <2>4, <2>5
  <2>7. QED
    BY <1>1, <1>2, <1>3, <1>4, <2>2, <2>3, <2>4, <2>5, <2>6, PipeGets
<1>6. CASE IndexAsks
  BY <1>6 DEF IndexAsks, Asked
<1>7. CASE IndexEnds
  <2>1. src' = src
    BY <1>7 DEF IndexEnds
  <2>2. CASE src.eof_known /\ IndexPos >= Eof
    <3>1. cksum_pos' = Eof /\ Eof = Len(S) /\ Len(S) \in Nat
      BY <1>1, <1>7, <2>2, PipeFacts, StateNumbers DEF IndexEnds
    <3>2. S' = S /\ src'.eof_known
      BY <1>2, <2>1, <2>2 DEF S
    <3>3. QED
      BY <3>1, <3>2 DEF PipeInv
  <2>3. CASE ~(src.eof_known /\ IndexPos >= Eof)
    <3>1. cksum_pos' = i
      BY <1>4, <1>7, <2>3 DEF IndexEnds
    <3>2. AheadOf(i, m, r, 0) \in Nat
      BY <1>4, AheadFacts
    <3>3. QED
      BY <1>1, <1>2, <1>3, <1>4, <2>1, <3>1, <3>2, PipeGrows
  <2>4. QED
    BY <2>2, <2>3
<1>8. QED
  BY <1>5, <1>6, <1>7 DEF Index

\* A block starts at its first place.
LEMMA DivisionBelow ==
  ASSUME NEW n \in Nat, NEW k \in Nat \ {0}
  PROVE  \E b \in Nat : b = n \div k /\ b * k \in Nat /\ b * k <= n
<1>1. n \div k \in Nat /\ n % k \in 0 .. k - 1 /\ n = (n \div k) * k + (n % k)
  BY Division
<1>2. (n \div k) * k \in Nat /\ n % k \in Nat
  BY <1>1, BlockStarts
<1>3. QED
  BY <1>1, <1>2

\* A step forwards does not go back.
LEMMA ForwardGrows ==
  ASSUME IInv, FwdBlock
  PROVE  \E n \in Nat : match'.fwd = match.fwd + n
<1>1. TypeInv /\ enc \in Encodings /\ Forward /\ FwdMore /\ Ready(FwdBlk) /\ pc = "EXTEND" /\ InExtension
  BY StateNumbers DEF IInv, FwdBlock, Forward, InExtension
<1>2. PICK fw \in Nat, mf \in Nat, k \in Nat \ {0}, o \in Nat, ip \in Nat :
        fw = match.fwd /\ mf = match.maxfwd /\ k = Blk /\ o = FwdOff /\ ip = input_position
  <2>1. match.srcpos \in Nat /\ match.fwd \in Nat /\ match.maxfwd \in Nat
    BY <1>1, ExtensionFacts
  <2>2. FwdOff \in Nat
    BY <2>1 DEF FwdOff
  <2>3. QED
    BY <1>1, <2>1, <2>2, StateNumbers
<1>3. o % k <= OnBlock(FwdBlk)
  BY <1>1, <1>2, InBlockFollows DEF InBlock
<1>4. PICK b \in Nat : b = FwdBlk
  BY <1>2, Division DEF FwdBlk
<1>5. PICK on \in Nat, x \in Nat : on = OnBlock(b) /\ x = o % k /\ x <= on
  <2>1. OnBlock(b) \in Nat
    BY <1>1, <1>2, OnBlockFacts, SMTT(60)
  <2>2. o % k \in Nat
    BY <1>2, Division
  <2>3. QED
    BY <1>3, <1>4, <2>1, <2>2
<1>6. fw < mf
  BY <1>1, <1>2 DEF FwdMore
<1>7. PICK limit \in Nat : limit = Smaller(mf - fw, on - x)
  <2>1. mf - fw \in Nat /\ on - x \in Nat
    BY <1>5, <1>6
  <2>2. QED
    BY <2>1 DEF Smaller
<1>8. MatchedFwd(limit) \in 0 .. limit
  BY <1>2, MatchedFwdFacts
<1>9. \E s : match' = [match EXCEPT !.fwd = @ + MatchedFwd(limit), !.state = s]
  BY <1>2, <1>4, <1>5, <1>7 DEF FwdBlock
<1>10. match'.fwd = fw + MatchedFwd(limit)
  BY <1>1, <1>2, <1>9 DEF TypeInv
<1>11. QED
  BY <1>2, <1>8, <1>10

LEMMA PipeExtendKeeps ==
  ASSUME IInv, ContinueInv, LazyInv, PipeInv, LazyFits, enc.kind = "pipe", Extend
  PROVE  PipeInv'
<1>1. TypeInv /\ BlocksInv /\ MatchInv /\ PosInv
  BY DEF IInv
<1>2. pc = "EXTEND" /\ enc' = enc /\ cksum_pos' = cksum_pos /\ HasSource
  BY <1>1 DEF Extend, BackBlock, BackEnds, FwdBlock, FwdEnds, ExtendAsks, NotTaken, Taken, Extending,
     Backward, Forward, inVars, idxVars, PosInv
<1>3. InExtension
  BY <1>1, <1>2 DEF Extend, BackBlock, BackEnds, FwdBlock, FwdEnds, ExtendAsks, NotTaken, Taken, Backward, Forward, InExtension
<1>4. PICK p \in Nat, ba \in Nat, fw \in Nat, mb \in Nat :
        p = match.srcpos /\ ba = match.back /\ fw = match.fwd /\ mb = match.maxback /\ ba <= mb /\ mb <= p
  BY <1>2, <1>3, ExtensionFacts
<1>5. PICK c \in Nat, m \in Nat, r \in Nat, k \in Nat \ {0}, e \in Nat :
        c = cksum_pos /\ m = maxsrcaddr /\ r = Keeping /\ k = Blk /\ e = Reached /\ e = p + fw
  <2>1. Reached = p + fw /\ p + fw \in Nat
    BY <1>3, <1>4 DEF Reached
  <2>2. QED
    BY <1>1, <2>1, PipeFacts, StateNumbers
<1>6. PICK l \in Nat : l = Larger(c, m) /\ p <= l
  <2>1. Larger(c, m) \in Nat
    BY DEF Larger
  <2>2. p <= Larger(c, m)
    BY <1>2, <1>3, <1>4, <1>5 DEF ContinueInv
  <2>3. QED
    BY <2>1, <2>2
<1>7. CASE BackBlock
  <2>1. maxsrcaddr' = m /\ ba < mb
    BY <1>4, <1>5, <1>7 DEF BackBlock, BackMore, Extending, idxVars
  <2>2. PICK n \in Nat : n = (p - ba) - 1 /\ n <= p
    <3>1. (p - ba) - 1 \in Nat /\ (p - ba) - 1 <= p
      <4>1. ba < p
        BY <1>4, <2>1
      <4>2. QED
        BY <4>1
    <3>2. QED
      BY <3>1
  <2>3. PICK b \in Nat : b = n \div k /\ b * k \in Nat /\ b * k <= n
    BY <1>5, DivisionBelow
  <2>4. src' = Getblk(b)
    BY <1>4, <1>5, <1>7, <2>2, <2>3 DEF BackBlock, BackBlk, BackOff
  <2>5. match'.srcpos = p /\ match'.fwd = fw /\ InExtension'
    <3>1. ~FwdBlock
      BY <1>7 DEF BackBlock, FwdBlock, Backward, Forward
    <3>2. QED
      BY <1>1, <1>4, <1>7, <3>1, MatchStep DEF InExtension
  <2>6. Reached' = e
    BY <1>4, <1>5, <2>5 DEF Reached
  <2>7. AheadOf(c, m, r, e) \in Nat /\ e <= AheadOf(c, m, r, e)
    BY <1>5, AheadFacts
  <2>8. b * k <= AheadOf(c, m, r, e)
    BY <1>4, <1>5, <2>2, <2>3, <2>7
  <2>9. QED
    BY <1>1, <1>2, <1>5, <2>1, <2>3, <2>4, <2>6, <2>7, <2>8, PipeGets
<1>8. CASE FwdBlock
  <2>1. maxsrcaddr' = m
    BY <1>5, <1>8 DEF FwdBlock, Extending, idxVars
  <2>2. PICK b \in Nat : b = e \div k /\ b * k \in Nat /\ b * k <= e
    BY <1>5, DivisionBelow
  <2>3. src' = Getblk(b)
    BY <1>4, <1>5, <1>8, <2>2 DEF FwdBlock, FwdBlk, FwdOff
  <2>4. PICK n \in Nat : match'.srcpos = p /\ match'.fwd = fw + n /\ InExtension'
    <3>1. match'.srcpos = p /\ InExtension'
      BY <1>1, <1>4, <1>8, MatchStep DEF InExtension
    <3>2. QED
      BY <1>4, <1>8, <3>1, ForwardGrows
  <2>5. PICK e1 \in Nat : e1 = Reached' /\ e <= e1
    BY <1>4, <1>5, <2>4 DEF Reached
  <2>6. AheadOf(c, m, r, e1) \in Nat /\ e1 <= AheadOf(c, m, r, e1)
    BY <1>5, AheadFacts
  <2>7. b * k <= AheadOf(c, m, r, e1) /\ e <= AheadOf(c, m, r, e1)
    BY <1>5, <2>2, <2>5, <2>6
  <2>8. QED
    BY <1>1, <1>2, <1>5, <2>1, <2>2, <2>3, <2>5, <2>7, PipeGets
<1>9. CASE BackEnds \/ FwdEnds \/ ExtendAsks
  <2>1. maxsrcaddr' = m /\ src' = src
    BY <1>5, <1>9 DEF BackEnds, FwdEnds, ExtendAsks, Extending, idxVars
  <2>2. match'.srcpos = p /\ match'.fwd = fw /\ InExtension'
    <3>1. src' = src /\ match'.srcpos = p /\ InExtension'
      BY <1>1, <1>4, <1>9, <2>1, MatchStep DEF InExtension
    <3>2. \/ match' = match
          \/ \E s : match' = [match EXCEPT !.state = s]
      BY <1>9 DEF BackEnds, FwdEnds, ExtendAsks
    <3>3. match'.fwd = fw
      BY <1>1, <1>4, <3>2 DEF TypeInv
    <3>4. QED
      BY <3>1, <3>3
  <2>3. Reached' = e
    BY <1>4, <1>5, <2>2 DEF Reached
  <2>4. AheadOf(c, m, r, e) \in Nat /\ e <= AheadOf(c, m, r, e)
    BY <1>5, AheadFacts
  <2>5. QED
    BY <1>1, <1>2, <1>5, <2>1, <2>3, <2>4, PipeGrows
<1>10. CASE NotTaken
  <2>1. maxsrcaddr' = m /\ src' = src /\ fw < min_match
    BY <1>4, <1>5, <1>10 DEF NotTaken, idxVars
  <2>2. match'.state = "SEARCHING"
    <3>1. match' = [match EXCEPT !.state = "SEARCHING", !.fwd = 0]
      BY <1>10 DEF NotTaken
    <3>2. QED
      BY <1>1, <3>1 DEF TypeInv
  <2>3. Reached' = 0
    BY <2>2 DEF Reached, InExtension
  <2>4. fw <= r
    <3>1. min_match \in Nat /\ min_match <= LeastMatch /\ LeastMatch \in Nat
      BY <1>1, StateNumbers, LeastFacts DEF LazyInv
    <3>2. LeastMatch <= r + 1
      BY <1>1, <1>5 DEF LazyFits, Keeping, Blk, TypeInv
    <3>3. QED
      BY <2>1, <3>1, <3>2
  <2>5. AheadOf(c, m, r, 0) = l + r /\ AheadOf(c, m, r, 0) \in Nat
    <3>1. 0 \in Nat
      OBVIOUS
    <3>2. AheadOf(c, m, r, 0) = Larger(c, m) + r /\ AheadOf(c, m, r, 0) \in Nat
      BY <1>5, <3>1, AheadFacts
    <3>3. QED
      BY <1>6, <3>2
  <2>6. e <= AheadOf(c, m, r, 0)
    BY <1>5, <1>6, <2>4, <2>5
  <2>7. QED
    BY <1>1, <1>2, <1>5, <2>1, <2>3, <2>5, <2>6, PipeGrows
<1>11. CASE Taken
  <2>1. PICK m1 \in Nat : m1 = maxsrcaddr' /\ m <= m1 /\ e <= m1
    <3>1. maxsrcaddr' = Larger(m, e)
      BY <1>4, <1>5, <1>11 DEF Taken, TakenRange
    <3>2. Larger(m, e) \in Nat /\ m <= Larger(m, e) /\ e <= Larger(m, e)
      BY DEF Larger
    <3>3. QED
      BY <3>1, <3>2
  <2>2. Reached' = 0
    <3>1. \/ match' = [match EXCEPT !.state = "TARGET", !.srcpos = @ + match.fwd, !.back = 0]
          \/ match' = [match EXCEPT !.state = "SEARCHING", !.back = 0]
      BY <1>11 DEF Taken
    <3>2. match'.state \in {"TARGET", "SEARCHING"}
      BY <1>1, <3>1 DEF TypeInv
    <3>3. QED
      BY <3>2 DEF Reached, InExtension
  <2>3. AheadOf(c, m1, r, 0) \in Nat /\ m1 + r <= AheadOf(c, m1, r, 0)
    BY <1>5, AheadFacts
  <2>4. e <= AheadOf(c, m1, r, 0)
    BY <1>5, <2>1, <2>3
  <2>5. src' = src
    BY <1>11 DEF Taken
  <2>6. QED
    BY <1>1, <1>2, <1>5, <2>1, <2>2, <2>3, <2>4, <2>5, PipeGrows
<1>12. QED
  BY <1>7, <1>8, <1>9, <1>10, <1>11 DEF Extend

\* What else is done, with the same blocks and the same index.
LEMMA PipeRests ==
  ASSUME IInv, PipeInv, enc.kind = "pipe", enc' = enc, src' = src, TypeInv',
         cksum_pos' = cksum_pos, maxsrcaddr' = maxsrcaddr, ~InExtension
  PROVE  PipeInv'
<1>1. TypeInv /\ BlocksInv
  BY DEF IInv
<1>2. Reached = 0
  BY DEF Reached
<1>3. PICK c \in Nat, m \in Nat, e1 \in Nat, r \in Nat :
        c = cksum_pos /\ m = maxsrcaddr /\ e1 = Reached' /\ r = Keeping
  <2>1. Reached' \in Nat
    <3>1. match'.srcpos \in Nat /\ match'.fwd \in Nat
      BY DEF TypeInv
    <3>2. match'.srcpos + match'.fwd \in Nat
      BY <3>1
    <3>3. QED
      BY <3>2 DEF Reached
  <2>2. QED
    BY <1>1, <2>1, PipeFacts, StateNumbers
<1>4. AheadOf(c, m, r, e1) \in Nat
  BY <1>3, AheadFacts
<1>5. QED
  BY <1>1, <1>2, <1>3, <1>4, PipeGrows

LEMMA PipeKeeps ==
  ASSUME IInv, ContinueInv, LazyInv, BlockInv, PipeInv, LazyFits, [Next]_vars
  PROVE  PipeInv'
<1>1. enc' = enc
  BY EncStays
<1>2. SUFFICES ASSUME enc.kind = "pipe" PROVE PipeInv'
  BY <1>1 DEF PipeInv
<1>3. TypeInv /\ MatchInv /\ TypeInv'
  BY NextKeeps DEF IInv
<1>4. CASE Index
  BY <1>2, <1>4, PipeIndexKeeps
<1>5. CASE Extend
  BY <1>2, <1>5, PipeExtendKeeps
<1>6. CASE GiveBlock
  BY <1>2, <1>6 DEF GiveBlock, BlockInv
<1>7. CASE ContinueMatch \/ StartSearch \/ EmptyWindow \/ Search \/ Emit
  <2>1. src' = src /\ cksum_pos' = cksum_pos /\ maxsrcaddr' = maxsrcaddr
    BY <1>7 DEF ContinueMatch, StartSearch, EmptyWindow, Search, FindRun, NoRun, MoveAgain, LargeSearch, NoLarge,
       StartSmall, Compare, EndSmall, Emit, Place, MakeRoom, EncodeAll, NextWindow, idxVars
  <2>2. pc \notin {"EXTEND", "WAIT"}
    BY <1>7 DEF ContinueMatch, StartSearch, EmptyWindow, Search, FindRun, NoRun, MoveAgain, LargeSearch, NoLarge,
       StartSmall, Compare, EndSmall, Emit, Place, MakeRoom, EncodeAll, NextWindow
  <2>3. ~InExtension
    BY <1>3, <2>2 DEF MatchInv, InExtension
  <2>4. QED
    BY <1>1, <1>2, <1>3, <2>1, <2>3, PipeRests
<1>8. CASE Stopped \/ UNCHANGED vars
  <2>1. src' = src /\ cksum_pos' = cksum_pos /\ maxsrcaddr' = maxsrcaddr /\ match' = match /\ pc' = pc
    BY <1>8 DEF Stopped, vars, idxVars
  <2>2. QED
    BY <1>1, <1>2, <2>1 DEF PipeInv, Ahead, Reached, InExtension, Keeping, S, Blk
<1>9. QED
  BY <1>4, <1>5, <1>6, <1>7, <1>8 DEF Next, Enter

\* The decided window is not empty.
LEMMA LengthFollows ==
  ASSUME LengthInv
  PROVE  DecidedOk
BY DEF LengthInv, DecidedOk

-----------------------------------------------------------------------------
(* What the search keeps from byte to byte. *)

\* What holds of 0, and of each number if it does of the one before, holds up to n.
LEMMA CountAlong ==
  ASSUME NEW n \in Nat, NEW Holding, 0 \in Holding, \A i \in 1 .. n : i - 1 \in Holding => i \in Holding
  PROVE  \A i \in 0 .. n : i \in Holding
<1> DEFINE f == [i \in 0 .. n |-> i]
<1>1. f[0] \in Holding /\ \A i \in 1 .. n : f[i - 1] \in Holding => f[i] \in Holding
  OBVIOUS
<1>2. \A i \in 0 .. n : f[i] = i
  OBVIOUS
<1> HIDE DEF f
<1>3. \A i \in 0 .. n : f[i] \in Holding
  BY <1>1, AllAlong
<1>4. QED
  BY <1>2, <1>3

\* Numbers that differ by a multiple of the values of a checksum.
Congruent(x, y) == \E k \in Int : x = y + k * CksumMod

LEMMA CongruentBack ==
  ASSUME NEW x \in Int, NEW y \in Int, Congruent(x, y)
  PROVE  Congruent(y, x)
<1>1. CksumMod \in Int
  BY Sizes
<1>2. PICK j \in Int : x = y + j * CksumMod
  BY DEF Congruent
<1>3. -j \in Int /\ y = x + (-j) * CksumMod
  BY <1>1, <1>2
<1>4. QED
  BY <1>3 DEF Congruent

LEMMA CongruentOn ==
  ASSUME NEW x \in Int, NEW y \in Int, NEW z \in Int, Congruent(x, y), Congruent(y, z)
  PROVE  Congruent(x, z)
<1>1. CksumMod \in Int
  BY Sizes
<1>2. PICK j \in Int, k \in Int : x = y + j * CksumMod /\ y = z + k * CksumMod
  BY DEF Congruent
<1>3. j + k \in Int /\ x = z + (j + k) * CksumMod
  BY <1>1, <1>2
<1>4. QED
  BY <1>3 DEF Congruent

LEMMA CongruentAdd ==
  ASSUME NEW x \in Int, NEW y \in Int, NEW c \in Int, Congruent(x, y)
  PROVE  Congruent(x + c, y + c)
<1>1. CksumMod \in Int
  BY Sizes
<1>2. PICK j \in Int : x = y + j * CksumMod
  BY DEF Congruent
<1>3. x + c = (y + c) + j * CksumMod
  BY <1>1, <1>2
<1>4. QED
  BY <1>3 DEF Congruent

LEMMA CongruentTimes ==
  ASSUME NEW x \in Int, NEW y \in Int, NEW c \in Int, Congruent(x, y)
  PROVE  Congruent(c * x, c * y)
<1>1. CksumMod \in Int
  BY Sizes
<1>2. PICK k \in Int : x = y + k * CksumMod
  BY DEF Congruent
<1>3. c * x = c * y + (c * k) * CksumMod /\ c * k \in Int
  BY <1>1, <1>2
<1>4. QED
  BY <1>3 DEF Congruent

LEMMA RemainderCongruent ==
  ASSUME NEW x \in Int
  PROVE  x % CksumMod \in Cksums /\ Congruent(x, x % CksumMod) /\ Congruent(x % CksumMod, x)
<1>1. PICK m \in Nat \ {0} : m = CksumMod
  BY Sizes
<1>2. x \div m \in Int /\ x % m \in 0 .. m - 1 /\ x = (x % m) + (x \div m) * m
  OBVIOUS
<1>3. Congruent(x, x % CksumMod)
  BY <1>1, <1>2 DEF Congruent
<1>4. x % CksumMod \in Cksums /\ x % CksumMod \in Int
  BY <1>1, <1>2 DEF Cksums
<1>5. PICK r \in Int : r = x % CksumMod
  BY <1>4
<1>6. Congruent(r, x)
  BY <1>3, <1>5, CongruentBack
<1>7. QED
  BY <1>3, <1>4, <1>5, <1>6

\* Of two congruent numbers the remainders are equal.
LEMMA SameCksum ==
  ASSUME NEW x \in Int, NEW y \in Int, Congruent(x, y)
  PROVE  x % CksumMod = y % CksumMod
<1>1. PICK m \in Nat \ {0} : m = CksumMod
  BY Sizes
<1>2. PICK a \in Nat, b \in Nat : a = x % m /\ b = y % m /\ a < m /\ b < m
  <2>1. x % m \in 0 .. m - 1 /\ y % m \in 0 .. m - 1
    OBVIOUS
  <2>2. QED
    BY <2>1
<1>3. Congruent(a, b)
  <2>1. Congruent(a, x) /\ Congruent(y, b)
    BY <1>1, <1>2, RemainderCongruent
  <2>2. Congruent(a, y)
    BY <2>1, CongruentOn
  <2>3. QED
    BY <2>1, <2>2, CongruentOn
<1>4. PICK k \in Int : a = b + k * m
  BY <1>1, <1>3 DEF Congruent
<1>5. k > 0 => k * m >= m
  OBVIOUS
<1>6. k < 0 => k * m <= -m
  OBVIOUS
<1>7. k = 0
  BY <1>2, <1>4, <1>5, <1>6
<1>8. a = b
  <2>1. k * m = 0
    BY <1>7
  <2>2. PICK z \in Int : z = k * m /\ z = 0
    BY <2>1
  <2>3. a \in Int /\ b \in Int /\ a = b + z
    BY <1>4, <2>2
  <2>4. QED
    BY <2>2, <2>3
<1>9. QED
  BY <1>1, <1>2, <1>8

\* The bytes of a stretch.
LEMMA InputFacts ==
  ASSUME TypeInv, NEW p \in Nat, p + LLook <= AvailIn
  PROVE  \A i \in 1 .. LLook : Input(p, LLook)[i] = T[p + i] /\ T[p + i] \in Nat
<1>1. AvailIn \in Nat /\ LLook \in Nat
  BY StateNumbers, Sizes
<1>2. ASSUME NEW i \in 1 .. LLook PROVE Input(p, LLook)[i] = T[p + i] /\ T[p + i] \in Nat
  <2>1. p + 1 \in Nat /\ p + LLook \in Nat /\ (p + LLook) - (p + 1) + 1 = LLook /\ (p + 1) + i - 1 = p + i
    BY <1>1
  <2>2. Input(p, LLook)[i] = T[p + i]
    BY <1>1, <2>1 DEF Input
  <2>3. p + i \in 1 .. AvailIn
    BY <1>1
  <2>4. QED
    BY <2>2, <2>3, TargetFacts
<1>3. QED
  BY <1>2

\* The sum of the next stretch, without its last byte, is what this one has without
\* its first.
LEMMA SumsMove ==
  ASSUME NEW a, NEW sum, NEW next, NEW power, NEW x \in Nat,
         sum \in [0 .. LLook -> Cksums], next \in [0 .. LLook -> Cksums], power \in [0 .. LLook -> Nat],
         sum[0] = 0, next[0] = 0, power[0] = 1, a[1] = x, \A i \in 1 .. LLook : a[i] \in Nat,
         \A i \in 1 .. LLook : sum[i] = (Mult * sum[i - 1] + a[i]) % CksumMod,
         \A i \in 1 .. LLook - 1 : next[i] = (Mult * next[i - 1] + a[i + 1]) % CksumMod,
         \A i \in 1 .. LLook : power[i] = (power[i - 1] * Mult) % CksumMod
  PROVE  Congruent(next[LLook - 1] + power[LLook - 1] * x, sum[LLook])
<1>1. LLook \in Nat \ {0} /\ Mult \in Nat /\ CksumMod \in Nat \ {0}
  BY Sizes
<1> DEFINE Holding == {i \in 0 .. LLook - 1 : Congruent(next[i] + power[i] * x, sum[i + 1])}
<1>2. 0 \in Holding
  <2>1. next[0] + power[0] * x = x /\ 0 \in 0 .. LLook - 1 /\ 1 \in 1 .. LLook
    BY <1>1
  <2>2. sum[1] = x % CksumMod
    <3>1. sum[1] = (Mult * sum[0] + a[1]) % CksumMod /\ sum[0] = 0
      BY <2>1
    <3>2. Mult * 0 = 0
      BY <1>1
    <3>3. QED
      BY <3>1, <3>2
  <2>3. QED
    BY <2>1, <2>2, RemainderCongruent
<1>3. ASSUME NEW i \in 1 .. LLook - 1, i - 1 \in Holding
      PROVE  i \in Holding
  <2>1. i \in 1 .. LLook /\ i - 1 \in 0 .. LLook /\ i \in 0 .. LLook /\ i + 1 \in 1 .. LLook /\ i + 1 \in 0 .. LLook
        /\ (i - 1) + 1 = i /\ (i + 1) - 1 = i /\ i \in 0 .. LLook - 1
    BY <1>1
  <2>2. PICK n0 \in Nat, n1 \in Nat, p0 \in Nat, p1 \in Nat, s0 \in Nat, s1 \in Nat, b \in Nat :
          /\ n0 = next[i - 1] /\ n1 = next[i] /\ p0 = power[i - 1] /\ p1 = power[i]
          /\ s0 = sum[i] /\ s1 = sum[i + 1] /\ b = a[i + 1]
    <3>1. Cksums \subseteq Nat
      BY <1>1 DEF Cksums
    <3>2. next[i - 1] \in Nat /\ next[i] \in Nat /\ sum[i] \in Nat /\ sum[i + 1] \in Nat
      BY <2>1, <3>1
    <3>3. power[i - 1] \in Nat /\ power[i] \in Nat /\ a[i + 1] \in Nat
      BY <2>1
    <3>4. QED
      BY <3>2, <3>3
  <2>3. Congruent(n0 + p0 * x, s0)
    BY <1>3, <2>1, <2>2
  <2>4. n1 = (Mult * n0 + b) % CksumMod /\ p1 = (p0 * Mult) % CksumMod
    BY <2>1, <2>2
  <2>5. s1 = (Mult * s0 + b) % CksumMod
    BY <2>1, <2>2
  <2> HIDE DEF Holding
  <2>6. PICK g \in Int, q \in Int, t \in Int, u \in Int :
          /\ g = Mult * n0 + b /\ q = p0 * Mult /\ t = Mult * s0 + b /\ u = Mult * (n0 + p0 * x)
    BY <1>1
  <2>7. Congruent(n1, g) /\ Congruent(p1, q) /\ Congruent(t, s1)
    BY <2>4, <2>5, <2>6, RemainderCongruent
  <2>8. Congruent(u, Mult * s0)
    <3>1. PICK v \in Int : v = n0 + p0 * x
      OBVIOUS
    <3>2. Mult \in Int /\ s0 \in Int /\ Congruent(v, s0)
      BY <1>1, <2>3, <3>1
    <3>3. Congruent(Mult * v, Mult * s0)
      BY <3>2, CongruentTimes
    <3>4. QED
      BY <2>6, <3>1, <3>3
  <2>9. Congruent(u + b, t)
    <3>1. Mult * s0 \in Int
      BY <1>1
    <3>2. QED
      BY <2>6, <2>8, <3>1, CongruentAdd, SMTT(60)
  <2>10. Congruent(n1 + p1 * x, u + b)
    <3>1. PICK y \in Int, z \in Int : y = p1 * x /\ z = q * x
      OBVIOUS
    <3>2. Congruent(y, z)
      <4>1. x * p1 = y /\ x * q = z
        BY <3>1
      <4>2. x \in Int /\ p1 \in Int /\ Congruent(p1, q)
        BY <2>7
      <4>3. Congruent(x * p1, x * q)
        BY <4>2, CongruentTimes
      <4>4. QED
        BY <4>1, <4>3
    <3>3. Congruent(n1 + y, g + y)
      <4>1. n1 \in Int /\ Congruent(n1, g)
        BY <2>7
      <4>2. QED
        BY <4>1, CongruentAdd
    <3>4. Congruent(y + g, z + g)
      BY <3>1, <3>2, CongruentAdd
    <3>5. n1 + y \in Int /\ g + y \in Int /\ z + g \in Int /\ g + y = y + g
      OBVIOUS
    <3>6. Congruent(n1 + y, z + g)
      BY <3>3, <3>4, <3>5, CongruentOn
    <3>7. z + g = u + b
      BY <1>1, <2>6, <3>1
    <3>8. QED
      BY <3>1, <3>6, <3>7
  <2>11. n1 + p1 * x \in Int /\ u + b \in Int
    OBVIOUS
  <2>12. Congruent(n1 + p1 * x, s1)
    <3>1. Congruent(n1 + p1 * x, t)
      BY <2>9, <2>10, <2>11, CongruentOn
    <3>2. QED
      BY <2>7, <2>11, <3>1, CongruentOn
  <2>13. QED
    BY <2>1, <2>2, <2>12 DEF Holding
<1>4. LLook - 1 \in Holding
  <2> HIDE DEF Holding
  <2>1. LLook - 1 \in Nat /\ LLook - 1 \in 0 .. LLook - 1
    BY <1>1
  <2>2. \A i \in 0 .. LLook - 1 : i \in Holding
    BY <1>2, <1>3, <2>1, CountAlong
  <2>3. QED
    BY <2>1, <2>2
<1>5. QED
  <2>1. (LLook - 1) + 1 = LLook
    BY <1>1
  <2>2. QED
    BY <1>4, <2>1

\* The checksum that is rolled one place on is the one of the bytes there.
LEMMA RolledIs ==
  ASSUME TypeInv, NEW p \in Nat, p + 1 + LLook <= AvailIn
  PROVE  RolledCksum(LargeCksum(Input(p, LLook)), T[p + 1], T[p + LLook + 1]) = LargeCksum(Input(p + 1, LLook))
<1>1. LLook \in Nat \ {0} /\ Mult \in Nat /\ CksumMod \in Nat \ {0} /\ AvailIn \in Nat
  BY Sizes, StateNumbers
<1> DEFINE a == Input(p, LLook)
           b == Input(p + 1, LLook)
<1>2. \A i \in 1 .. LLook : a[i] = T[p + i] /\ a[i] \in Nat
  <2>1. p + LLook <= AvailIn
    BY <1>1
  <2>2. QED
    BY <2>1, InputFacts
<1>3. \A i \in 1 .. LLook : b[i] = T[(p + 1) + i] /\ b[i] \in Nat
  <2>1. p + 1 \in Nat /\ (p + 1) + LLook <= AvailIn
    BY <1>1
  <2>2. QED
    BY <2>1, InputFacts
<1>4. \A i \in 1 .. LLook - 1 : b[i] = a[i + 1]
  <2>1. ASSUME NEW i \in 1 .. LLook - 1 PROVE b[i] = a[i + 1]
    <3>1. i \in 1 .. LLook /\ i + 1 \in 1 .. LLook /\ (p + 1) + i = p + (i + 1)
      BY <1>1
    <3>2. QED
      BY <1>2, <1>3, <3>1
  <2>2. QED
    BY <2>1
<1>5. 1 \in 1 .. LLook /\ LLook \in 1 .. LLook /\ LLook \in 0 .. LLook /\ LLook - 1 \in 0 .. LLook
      /\ (p + 1) + LLook = p + LLook + 1
  BY <1>1
<1>6. PICK x \in Nat, y \in Nat : x = T[p + 1] /\ x = a[1] /\ y = T[p + LLook + 1] /\ y = b[LLook]
  BY <1>2, <1>3, <1>5
<1> HIDE DEF a, b
<1>7. PICK sum \in [0 .. LLook -> Cksums] :
        /\ sum[0] = 0 /\ \A i \in 1 .. LLook : sum[i] = (Mult * sum[i - 1] + a[i]) % CksumMod
        /\ LargeCksum(a) = sum[LLook]
  BY <1>2, LargeCksumFacts
<1>8. PICK next \in [0 .. LLook -> Cksums] :
        /\ next[0] = 0 /\ \A i \in 1 .. LLook : next[i] = (Mult * next[i - 1] + b[i]) % CksumMod
        /\ LargeCksum(b) = next[LLook]
  BY <1>3, LargeCksumFacts
<1>9. PICK power \in [0 .. LLook -> Nat] :
        /\ power[0] = 1 /\ \A i \in 1 .. LLook : power[i] = (power[i - 1] * Mult) % CksumMod
        /\ Multiplier = power[LLook]
  BY MultiplierFacts
<1>10. \A i \in 1 .. LLook - 1 : next[i] = (Mult * next[i - 1] + a[i + 1]) % CksumMod
  <2>1. ASSUME NEW i \in 1 .. LLook - 1 PROVE next[i] = (Mult * next[i - 1] + a[i + 1]) % CksumMod
    <3>1. i \in 1 .. LLook
      BY <1>1
    <3>2. next[i] = (Mult * next[i - 1] + b[i]) % CksumMod
      BY <1>8, <3>1
    <3>3. QED
      BY <1>4, <3>2
  <2>2. QED
    BY <2>1
<1>11. PICK n \in Nat, s \in Nat, q \in Nat, w \in Nat :
         /\ n = next[LLook - 1] /\ s = sum[LLook] /\ q = power[LLook - 1] /\ w = power[LLook]
  <2>1. Cksums \subseteq Nat
    BY <1>1 DEF Cksums
  <2>2. next[LLook - 1] \in Nat /\ sum[LLook] \in Nat
    BY <1>5, <2>1
  <2>3. power[LLook - 1] \in Nat /\ power[LLook] \in Nat
    BY <1>5
  <2>4. QED
    BY <2>2, <2>3
<1>12. Congruent(n + q * x, s)
  <2>1. \A i \in 1 .. LLook : a[i] \in Nat
    BY <1>2
  <2>2. QED
    BY <1>6, <1>7, <1>8, <1>9, <1>10, <1>11, <2>1, SumsMove
<1>13. w = (q * Mult) % CksumMod
  BY <1>5, <1>9, <1>11
<1>14. LargeCksum(b) = (Mult * n + y) % CksumMod
  BY <1>5, <1>6, <1>8, <1>11
<1>15. RolledCksum(LargeCksum(a), x, y) = (Mult * s - w * x + y) % CksumMod
  BY <1>7, <1>9, <1>11 DEF RolledCksum
<1>16. PICK f \in Int, g \in Int, h \in Int, k \in Int, v \in Int :
         /\ f = Mult * s /\ g = w * x /\ h = (q * Mult) * x /\ k = Mult * n /\ v = Mult * (n + q * x)
  BY <1>1
<1>17. v = k + h
  BY <1>1, <1>16
<1>18. Congruent(f, v)
  <2>1. PICK z \in Int : z = n + q * x
    OBVIOUS
  <2>2. Mult \in Int /\ s \in Int /\ Congruent(s, z)
    BY <1>1, <1>12, <2>1, CongruentBack
  <2>3. Congruent(Mult * s, Mult * z)
    BY <2>2, CongruentTimes
  <2>4. QED
    BY <1>16, <2>1, <2>3
<1>19. Congruent(h, g)
  <2>1. PICK z \in Int : z = q * Mult
    BY <1>1
  <2>2. Congruent(z, w) /\ w \in Int /\ x \in Int
    BY <1>13, <2>1, RemainderCongruent
  <2>3. Congruent(x * z, x * w)
    BY <2>2, CongruentTimes
  <2>4. x * z = h /\ x * w = g
    BY <1>16, <2>1
  <2>5. QED
    BY <2>3, <2>4
<1>20. Congruent(f - g + y, k + y)
  <2>1. PICK c \in Int, d \in Int, e \in Int : c = y - g /\ d = k + y - g /\ e = k + y
    OBVIOUS
  <2>2. Congruent(f + c, v + c)
    BY <1>18, CongruentAdd
  <2>3. Congruent(h + d, g + d)
    BY <1>19, CongruentAdd
  <2>4. v + c = h + d /\ g + d = e /\ f + c = f - g + y /\ e = k + y
    BY <1>17, <2>1
  <2>5. Congruent(f + c, h + d) /\ Congruent(h + d, e)
    BY <2>2, <2>3, <2>4
  <2>6. f + c \in Int /\ h + d \in Int
    OBVIOUS
  <2>7. Congruent(f + c, e)
    BY <2>5, <2>6, CongruentOn
  <2>8. QED
    BY <2>4, <2>7
<1>21. (f - g + y) % CksumMod = (k + y) % CksumMod
  <2>1. f - g + y \in Int /\ k + y \in Int
    OBVIOUS
  <2>2. QED
    BY <1>20, <2>1, SameCksum
<1>22. RolledCksum(LargeCksum(a), x, y) = LargeCksum(b)
  BY <1>14, <1>15, <1>16, <1>21
<1>23. QED
  BY <1>6, <1>22 DEF a, b

\* A byte more of the run.
LEMMA RunOn ==
  ASSUME NEW run \in Runs, NEW p \in Nat, NEW n \in Nat, NEW byte \in Nat,
         RunAt(run, p, n), byte = T[p + (n + 1)]
  PROVE  RunAt(NextRun(run, byte), p, n + 1)
<1>1. PICK l \in Nat, c \in Nat, k \in 0 .. CksumMod - 1 : run = [l |-> l, c |-> c, lcksum |-> k]
  BY DEF Runs
<1>2. PICK l1 \in Nat : NextRun(run, byte).l = l1 /\ NextRun(run, byte).c = byte /\ l1 = IF byte = c THEN l + 1 ELSE 1
  <2>1. CASE byte = c
    <3>1. [run EXCEPT !.l = run.l + 1] = [l |-> l + 1, c |-> c, lcksum |-> k]
      BY <1>1
    <3>2. QED
      BY <1>1, <2>1, <3>1 DEF NextRun
  <2>2. CASE byte # c
    <3>1. [run EXCEPT !.c = byte, !.l = 1].l = 1 /\ [run EXCEPT !.c = byte, !.l = 1].c = byte
      BY <1>1
    <3>2. QED
      BY <1>1, <2>2, <3>1 DEF NextRun
  <2>3. QED
    BY <2>1, <2>2
<1>3. ASSUME NEW i \in 1 .. n + 1, i + l1 > n + 1 PROVE T[p + i] = byte
  <2>1. CASE i = n + 1
    BY <2>1
  <2>2. CASE i # n + 1
    <3>1. i \in 1 .. n
      BY <2>2
    <3>2. byte = c /\ l1 = l + 1 /\ i + l > n
      BY <1>2, <1>3, <3>1
    <3>3. QED
      BY <1>1, <3>1, <3>2 DEF RunAt
  <2>3. QED
    BY <2>1, <2>2
<1>4. QED
  BY <1>2, <1>3 DEF RunAt

LEMMA RunNext ==
  ASSUME NEW run \in Runs, NEW p \in Nat, NEW byte \in Nat, RunTrue(run, p), byte = T[p + SLook + 1]
  PROVE  RunTrue(NextRun(run, byte), p + 1)
<1>1. PICK n \in Nat : n = SLook
  BY Sizes
<1>2. PICK r \in Runs : r = NextRun(run, byte)
  BY NextRunType
<1>3. RunAt(r, p, n + 1)
  <2>1. p + SLook + 1 = p + (n + 1)
    BY <1>1
  <2>2. QED
    BY <1>1, <1>2, <2>1, RunOn DEF RunTrue
<1>4. ASSUME NEW i \in 1 .. n, i + r.l > n PROVE T[(p + 1) + i] = r.c
  <2>1. i + 1 \in 1 .. n + 1 /\ (i + 1) + r.l > n + 1 /\ (p + 1) + i = p + (i + 1)
    BY <1>4 DEF Runs
  <2>2. QED
    BY <1>3, <2>1 DEF RunAt
<1>5. QED
  BY <1>1, <1>2, <1>4 DEF RunTrue, RunAt

\* xd3_comprun has the run at its last byte.
LEMMA ComprunTrue ==
  ASSUME NEW p \in Nat, \A i \in 1 .. SLook : T[p + i] \in Nat, loop \in Runs
  PROVE  Comprun(p) \in Runs /\ RunTrue(Comprun(p), p)
<1>1. SLook \in Nat
  BY Sizes
<1>2. Comprun(p) \in Runs
  BY ComprunFacts
<1>3. PICK run \in [0 .. SLook -> Runs] :
        /\ run[0] = [l |-> 0, c |-> 0, lcksum |-> loop.lcksum]
        /\ \A i \in 1 .. SLook : run[i] = NextRun(run[i - 1], T[p + i])
        /\ Comprun(p) = run[SLook]
  BY ComprunFacts
<1> DEFINE Holding == {n \in 0 .. SLook : RunAt(run[n], p, n)}
<1>4. 0 \in Holding
  <2>1. 0 \in 0 .. SLook /\ 1 .. 0 = {}
    BY <1>1
  <2>2. QED
    BY <2>1 DEF RunAt
<1>5. ASSUME NEW i \in 1 .. SLook, i - 1 \in Holding PROVE i \in Holding
  <2>1. PICK n \in Nat : n = i - 1 /\ n + 1 = i /\ n \in 0 .. SLook
    BY <1>1
  <2>2. RunAt(run[n], p, n) /\ run[n] \in Runs /\ i \in 0 .. SLook
    BY <1>5, <2>1
  <2>3. PICK byte \in Nat : byte = T[p + (n + 1)] /\ run[n + 1] = NextRun(run[n], byte)
    BY <1>3, <2>1
  <2>4. RunAt(run[n + 1], p, n + 1)
    BY <2>2, <2>3, RunOn
  <2>5. QED
    BY <2>1, <2>2, <2>4
<1>6. SLook \in Holding
  <2> HIDE DEF Holding
  <2>1. \A i \in 0 .. SLook : i \in Holding
    BY <1>1, <1>4, <1>5, CountAlong
  <2>2. QED
    BY <1>1, <2>1
<1>7. QED
  BY <1>2, <1>3, <1>6 DEF RunTrue

\* Two runs that differ in the checksum, or that are both long.
LEMMA RunSame ==
  ASSUME NEW run \in Runs, NEW r \in Runs, NEW p \in Nat, RunTrue(run, p), r.c = run.c,
         r.l = run.l \/ (run.l >= SLook /\ r.l >= SLook)
  PROVE  RunTrue(r, p)
<1>1. SLook \in Nat /\ run.l \in Nat /\ r.l \in Nat
  BY Sizes DEF Runs
<1>2. ASSUME NEW i \in 1 .. SLook, i + r.l > SLook PROVE T[p + i] = r.c
  <2>1. i + run.l > SLook
    BY <1>1, <1>2
  <2>2. QED
    BY <2>1 DEF RunTrue, RunAt
<1>3. QED
  BY <1>2 DEF RunTrue, RunAt

LEMMA RunFields ==
  ASSUME NEW run \in Runs, NEW c \in Cksums
  PROVE  \E r \in Runs : r = [run EXCEPT !.lcksum = c] /\ r.l = run.l /\ r.c = run.c /\ r.lcksum = c
<1>1. PICK l \in Nat, b \in Nat, k \in 0 .. CksumMod - 1 : run = [l |-> l, c |-> b, lcksum |-> k]
  BY DEF Runs
<1> DEFINE r == [l |-> l, c |-> b, lcksum |-> c]
<1>2. r = [run EXCEPT !.lcksum = c]
  BY <1>1
<1>3. r \in Runs
  BY DEF Runs, Cksums
<1>4. r.l = run.l /\ r.c = run.c /\ r.lcksum = c
  BY <1>1
<1> HIDE DEF r
<1>5. QED
  BY <1>2, <1>3, <1>4

\* The run and the checksum are those at p.
LoopAt(run, p) ==
  /\ RunTrue(run, p)
  /\ LargeFits(p) => run.lcksum = LargeCksum(Input(p, LLook))

LEMMA LoopIs ==
  ASSUME UNCHANGED inVars, NEW p \in Nat, NEW run \in Runs, input_position' = p, loop' = run, LoopAt(run, p)
  PROVE  LoopInv'
<1>1. T' = T /\ AvailIn' = AvailIn /\ HasSource' = HasSource
  BY SameWindow
<1>2. RunTrue(loop, input_position)'
  BY <1>1 DEF RunTrue, RunAt, LoopAt
<1>3. LargeFits(input_position)' = LargeFits(p) /\ Input(input_position, LLook)' = Input(p, LLook)
  BY <1>1 DEF LargeFits, Input
<1>4. LargeCksum(Input(input_position, LLook))' = LargeCksum(Input(p, LLook))
  BY <1>3 DEF LargeCksum
<1>5. QED
  BY <1>2, <1>3, <1>4 DEF LoopInv, LoopAt

\* Steps that leave the place, and what is kept of it.
LEMMA LoopStays ==
  ASSUME TypeInv, LoopInv, UNCHANGED inVars, input_position' = input_position, loop' = loop, GoesByByte' => GoesByByte
  PROVE  LoopInv'
<1>1. CASE GoesByByte
  <2>1. loop \in Runs /\ input_position \in Nat
    BY DEF TypeInv
  <2>2. LoopAt(loop, input_position)
    BY <1>1 DEF LoopInv, LoopAt
  <2>3. QED
    BY <2>1, <2>2, LoopIs
<1>2. CASE ~GoesByByte
  BY <1>2 DEF LoopInv
<1>3. QED
  BY <1>1, <1>2

LEMMA LoopEnds ==
  ASSUME ~GoesByByte'
  PROVE  LoopInv'
BY DEF LoopInv

LEMMA LoopRestart ==
  ASSUME TypeInv, PosInv, UNCHANGED inVars, NEW p \in Nat, NEW last \in Nat, Restart(p, last)
  PROVE  LoopInv'
<1>1. CASE p + SLook > AvailIn
  <2>1. pc' = "INSTR"
    BY <1>1 DEF Restart
  <2>2. ~GoesByByte'
    BY <2>1 DEF GoesByByte, Looking
  <2>3. QED
    BY <2>2, LoopEnds
<1>2. CASE ~(p + SLook > AvailIn)
  <2>1. loop \in Runs /\ AvailIn \in Nat /\ SLook \in Nat
    BY StateNumbers, Sizes DEF TypeInv
  <2>2. /\ input_position' = p
        /\ loop' = IF LargeFits(p) THEN [Comprun(p) EXCEPT !.lcksum = LargeCksum(Input(p, LLook))]
                   ELSE Comprun(p)
    BY <1>2 DEF Restart
  <2>3. \A i \in 1 .. SLook : T[p + i] \in Nat
    <3>1. ASSUME NEW i \in 1 .. SLook PROVE T[p + i] \in Nat
      <4>1. p + i \in 1 .. AvailIn
        BY <1>2, <2>1
      <4>2. QED
        BY <4>1, TargetFacts
    <3>2. QED
      BY <3>1
  <2>4. PICK run \in Runs : run = Comprun(p) /\ RunTrue(run, p)
    BY <2>1, <2>3, ComprunTrue
  <2>5. CASE LargeFits(p)
    <3>1. PICK c \in Cksums : c = LargeCksum(Input(p, LLook))
      <4>1. p + LLook <= AvailIn
        BY <2>5 DEF LargeFits
      <4>2. \A i \in 1 .. LLook : Input(p, LLook)[i] \in Nat
        BY <4>1, InputFacts
      <4>3. QED
        BY <4>2, LargeCksumFacts
    <3>2. PICK r \in Runs : r = [run EXCEPT !.lcksum = c] /\ r.l = run.l /\ r.c = run.c /\ r.lcksum = c
      BY RunFields
    <3>3. RunTrue(r, p)
      BY <2>4, <3>2, RunSame
    <3>4. LoopAt(r, p) /\ loop' = r
      BY <2>2, <2>4, <2>5, <3>1, <3>2, <3>3 DEF LoopAt
    <3>5. QED
      BY <2>2, <3>4, LoopIs
  <2>6. CASE ~LargeFits(p)
    <3>1. LoopAt(run, p) /\ loop' = run
      BY <2>2, <2>4, <2>6 DEF LoopAt
    <3>2. QED
      BY <2>2, <3>1, LoopIs
  <2>7. QED
    BY <2>5, <2>6
<1>3. QED
  BY <1>1, <1>2

\* updateone: the next byte.
LEMMA LoopUpdate ==
  ASSUME TypeInv, LoopInv, GoesByByte, UNCHANGED inVars, input_position + SLook <= AvailIn, UpdateOne
  PROVE  LoopInv'
<1>1. CASE input_position + SLook = AvailIn
  <2>1. pc' = "INSTR"
    BY <1>1 DEF UpdateOne
  <2>2. ~GoesByByte'
    BY <2>1 DEF GoesByByte, Looking
  <2>3. QED
    BY <2>2, LoopEnds
<1>2. CASE input_position + SLook # AvailIn
  <2>1. PICK p \in Nat, n \in Nat, run \in Runs :
          p = input_position /\ n = AvailIn /\ run = loop /\ SLook \in Nat /\ LLook \in Nat \ {0}
    BY StateNumbers, Sizes DEF TypeInv
  <2>2. RunTrue(run, p) /\ (LargeFits(p) => run.lcksum = LargeCksum(Input(p, LLook)))
    BY <2>1 DEF LoopInv
  <2>3. PICK byte \in Nat : byte = T[p + SLook + 1]
    <3>1. p + SLook + 1 \in 1 .. AvailIn
      BY <1>2, <2>1
    <3>2. QED
      BY <3>1, TargetFacts
  <2>4. PICK r \in Runs : r = NextRun(run, byte) /\ RunTrue(r, p + 1)
    BY <2>2, <2>3, RunNext, NextRunType
  <2>5. r.lcksum = run.lcksum
    <3>1. PICK l \in Nat, c \in Nat, k \in 0 .. CksumMod - 1 : run = [l |-> l, c |-> c, lcksum |-> k]
      BY DEF Runs
    <3>2. [run EXCEPT !.l = run.l + 1].lcksum = k /\ [run EXCEPT !.c = byte, !.l = 1].lcksum = k
      BY <3>1
    <3>3. QED
      BY <2>4, <3>1, <3>2 DEF NextRun
  <2>6. /\ input_position' = p + 1 /\ p + 1 \in Nat
        /\ loop' = IF ~LargeFits(p + 1) THEN r
                   ELSE [r EXCEPT !.lcksum = RolledCksum(r.lcksum, T[p + 1], T[p + LLook + 1])]
    BY <1>2, <2>1, <2>3, <2>4 DEF UpdateOne
  <2>7. CASE LargeFits(p + 1)
    <3>1. p + 1 + LLook <= AvailIn /\ HasSource /\ LargeFits(p)
      BY <2>1, <2>7 DEF LargeFits
    <3>2. r.lcksum = LargeCksum(Input(p, LLook))
      BY <2>2, <2>5, <3>1
    <3>3. PICK c : c = LargeCksum(Input(p + 1, LLook))
      OBVIOUS
    <3>4. loop' = [r EXCEPT !.lcksum = c]
      BY <2>6, <2>7, <3>1, <3>2, <3>3, RolledIs
    <3>5. c \in Cksums
      <4>1. p + 1 \in Nat /\ (p + 1) + LLook <= AvailIn
        BY <3>1
      <4>2. \A i \in 1 .. LLook : Input(p + 1, LLook)[i] \in Nat
        BY <4>1, InputFacts
      <4>3. QED
        BY <3>3, <4>2, LargeCksumFacts
    <3>6. PICK v \in Runs : v = [r EXCEPT !.lcksum = c] /\ v.l = r.l /\ v.c = r.c /\ v.lcksum = c
      BY <3>5, RunFields
    <3>7. RunTrue(v, p + 1)
      BY <2>4, <2>6, <3>6, RunSame
    <3>8. LoopAt(v, p + 1)
      BY <3>3, <3>6, <3>7 DEF LoopAt
    <3>9. QED
      BY <2>6, <3>4, <3>6, <3>8, LoopIs
  <2>8. CASE ~LargeFits(p + 1)
    <3>1. LoopAt(r, p + 1) /\ loop' = r
      BY <2>4, <2>6, <2>8 DEF LoopAt
    <3>2. QED
      BY <2>6, <3>1, LoopIs
  <2>9. QED
    BY <2>7, <2>8
<1>3. QED
  BY <1>1, <1>2

\* A run that has been expanded is as long at least (FindRun and NoRun).
LEMMA LoopRun ==
  ASSUME IInv, LoopInv, UNCHANGED inVars, pc = "RUN", input_position' = input_position,
         loop' = IF RunStarts THEN [loop EXCEPT !.l = RunLength] ELSE loop
  PROVE  LoopInv'
<1>1. TypeInv /\ PosInv
  BY DEF IInv
<1>2. PICK p \in Nat, run \in Runs : p = input_position /\ run = loop
  BY <1>1 DEF TypeInv
<1>3. LoopAt(run, p)
  BY <1>2 DEF LoopInv, LoopAt, GoesByByte, Looking
<1>4. CASE RunStarts
  <2>1. PICK n \in Nat : n = RunLength /\ SLook <= n
    BY <1>1, RunLengthFacts DEF PosInv, Looking
  <2>2. PICK l \in Nat, b \in Nat, k \in 0 .. CksumMod - 1 : run = [l |-> l, c |-> b, lcksum |-> k]
    BY DEF Runs
  <2> DEFINE r == [l |-> n, c |-> b, lcksum |-> k]
  <2>3. r = [run EXCEPT !.l = n] /\ r \in Runs
    BY <2>2 DEF Runs
  <2>4. r.l = n /\ r.c = run.c /\ r.lcksum = run.lcksum
    BY <2>2
  <2> HIDE DEF r
  <2>5. run.l >= SLook /\ r.l >= SLook
    BY <1>2, <1>4, <2>1, <2>4, Sizes DEF RunStarts
  <2>6. RunTrue(r, p)
    BY <1>3, <2>3, <2>4, <2>5, RunSame DEF LoopAt
  <2>7. LoopAt(r, p)
    BY <1>3, <2>4, <2>6 DEF LoopAt
  <2>8. loop' = r
    BY <1>2, <1>4, <2>1, <2>3
  <2>9. QED
    BY <1>2, <2>3, <2>7, <2>8, LoopIs
<1>5. CASE ~RunStarts
  BY <1>2, <1>3, <1>5, LoopIs
<1>6. QED
  BY <1>4, <1>5

LEMMA LoopEnter ==
  ASSUME IInv, LoopInv, Enter
  PROVE  LoopInv'
<1>1. TypeInv /\ PosInv /\ input_position \in Nat /\ LastMatched \in Nat
  BY LastMatchedType, StateNumbers DEF IInv
<1>2. CASE ContinueMatch
  <2>1. pc' = "EXTEND" /\ match'.by = "entry"
    BY <1>2 DEF ContinueMatch, SetupMatch
  <2>2. ~GoesByByte'
    BY <2>1 DEF GoesByByte, Looking
  <2>3. QED
    BY <2>2, LoopEnds
<1>3. CASE StartSearch
  BY <1>1, <1>3, LoopRestart DEF StartSearch
<1>4. CASE EmptyWindow
  <2>1. ~GoesByByte'
    BY <1>4 DEF EmptyWindow, GoesByByte, Looking
  <2>2. QED
    BY <2>1, LoopEnds
<1>5. CASE GiveBlock
  <2>1. CASE match.state = "SEARCHING"
    BY <1>1, <1>5, <2>1, LoopRestart DEF GiveBlock
  <2>2. CASE match.state # "SEARCHING"
    <3>1. pc' = "EXTEND" /\ match' = [match EXCEPT !.by = "entry"]
      BY <1>5, <2>2 DEF GiveBlock
    <3>2. match'.by = "entry"
      BY <1>1, <3>1 DEF TypeInv
    <3>3. ~GoesByByte'
      BY <3>1, <3>2 DEF GoesByByte, Looking
    <3>4. QED
      BY <3>3, LoopEnds
  <2>3. QED
    BY <2>1, <2>2
<1>6. QED
  BY <1>2, <1>3, <1>4, <1>5 DEF Enter

LEMMA LoopIndex ==
  ASSUME IInv, LoopInv, Index
  PROVE  LoopInv'
<1>1. TypeInv /\ GoesByByte
  BY DEF IInv, Index, IndexBlock, IndexAsks, IndexEnds, GoesByByte, Looking
<1>2. UNCHANGED inVars /\ input_position' = input_position /\ loop' = loop
  BY DEF Index, IndexBlock, IndexAsks, IndexEnds, posVars
<1>3. QED
  BY <1>1, <1>2, LoopStays

LEMMA LoopSearch ==
  ASSUME IInv, LoopInv, Search
  PROVE  LoopInv'
<1>1. TypeInv /\ PosInv
  BY DEF IInv
<1>2. GoesByByte /\ UNCHANGED inVars
  BY DEF Search, FindRun, NoRun, MoveAgain, LargeSearch, NoLarge, StartSmall, Compare, EndSmall, GoesByByte, Looking
<1>3. CASE FindRun
  <2>1. loop' = [loop EXCEPT !.l = RunLength] /\ RunStarts
    BY <1>3 DEF FindRun, RunFound
  <2>2. pc = "RUN" /\ input_position' = input_position
    BY <1>3 DEF FindRun
  <2>3. QED
    BY <1>2, <2>1, <2>2, LoopRun
<1>4. CASE NoRun
  BY <1>2, <1>4, LoopRun DEF NoRun
<1>5. CASE MoveAgain \/ LargeSearch \/ NoLarge \/ StartSmall \/ Compare
  <2>1. input_position' = input_position /\ loop' = loop
    BY <1>5 DEF MoveAgain, LargeSearch, NoLarge, StartSmall, Compare, posVars
  <2>2. QED
    BY <1>1, <1>2, <2>1, LoopStays
<1>6. CASE EndSmall
  <2>1. CASE MatchLength >= min_match
    <3>1. input_position' = input_position /\ loop' = loop
      BY <1>6, <2>1 DEF EndSmall, posVars
    <3>2. QED
      BY <1>1, <1>2, <3>1, LoopStays
  <2>2. CASE ~(MatchLength >= min_match)
    <3>1. UpdateOne /\ pc = "CHOSEN"
      BY <1>6, <2>2 DEF EndSmall
    <3>2. input_position + SLook <= AvailIn
      BY <1>1, <3>1 DEF PosInv, Looking
    <3>3. QED
      BY <1>1, <1>2, <3>1, <3>2, LoopUpdate
  <2>3. QED
    BY <2>1, <2>2
<1>7. QED
  BY <1>3, <1>4, <1>5, <1>6 DEF Search

LEMMA LoopExtend ==
  ASSUME IInv, LoopInv, Extend
  PROVE  LoopInv'
<1>1. TypeInv /\ PosInv /\ input_position \in Nat /\ LastMatched \in Nat
  BY LastMatchedType, StateNumbers DEF IInv
<1>2. pc = "EXTEND" /\ UNCHANGED inVars
  BY DEF Extend, BackBlock, BackEnds, FwdBlock, FwdEnds, ExtendAsks, NotTaken, Taken, Extending, Backward, Forward
<1>3. CASE BackBlock \/ BackEnds \/ FwdBlock \/ FwdEnds \/ ExtendAsks
  <2>1. input_position' = input_position /\ loop' = loop /\ new' = new
    BY <1>3 DEF BackBlock, BackEnds, FwdBlock, FwdEnds, ExtendAsks, Extending, posVars
  <2>2. pc' \in {"EXTEND", "WAIT"}
    BY <1>2, <1>3 DEF BackBlock, BackEnds, FwdBlock, FwdEnds, ExtendAsks, AskFor
  <2>3. match'.by = match.by
    BY <1>1, <1>3, MatchStep
  <2>4. GoesByByte' => GoesByByte
    BY <1>2, <2>2, <2>3 DEF GoesByByte, Looking
  <2>5. QED
    BY <1>1, <1>2, <2>1, <2>4, LoopStays
<1>4. CASE NotTaken
  <2>1. CASE match.by = "loop"
    <3>1. input_position' = input_position /\ loop' = loop
      BY <1>4, <2>1 DEF NotTaken, posVars
    <3>2. GoesByByte
      BY <1>2, <2>1 DEF GoesByByte
    <3>3. QED
      BY <1>1, <1>2, <3>1, <3>2, LoopStays
  <2>2. CASE match.by # "loop"
    BY <1>1, <1>2, <1>4, <2>2, LoopRestart DEF NotTaken
  <2>3. QED
    BY <2>1, <2>2
<1>5. CASE Taken
  <2>1. input_position' = input_position /\ loop' = loop
    BY <1>5 DEF Taken, posVars
  <2>2. pc' = "SLOT" /\ new'.lazy = (match.by = "loop")
    BY <1>5 DEF Taken, Found
  <2>3. GoesByByte' => GoesByByte
    BY <1>2, <2>2 DEF GoesByByte, Looking
  <2>4. QED
    BY <1>1, <1>2, <2>1, <2>3, LoopStays
<1>6. QED
  BY <1>3, <1>4, <1>5 DEF Extend

LEMMA LoopEmit ==
  ASSUME IInv, LoopInv, Emit
  PROVE  LoopInv'
<1>1. TypeInv /\ PosInv /\ NewInv
  BY DEF IInv
<1>2. CASE Place
  <2>1. pc = "SLOT" /\ UNCHANGED inVars
    BY <1>2 DEF Place
  <2>2. CASE new.lazy /\ TryLazy(new.mlen)
    <3>1. UpdateOne /\ GoesByByte
      BY <1>2, <2>1, <2>2 DEF Place, GoesByByte
    <3>2. input_position + SLook <= AvailIn
      BY <1>1, <2>1, <2>2 DEF NewInv
    <3>3. QED
      BY <1>1, <2>1, <3>1, <3>2, LoopUpdate
  <2>3. CASE ~(new.lazy /\ TryLazy(new.mlen))
    <3>1. Restart(input_position + new.mlen, End(new))
      BY <1>2, <2>3 DEF Place
    <3>2. new \in Matches /\ End(new) \in Nat
      BY <1>1, <2>1 DEF NewInv, Good
    <3>3. PICK p \in Nat, e \in Nat : p = input_position + new.mlen /\ e = End(new)
      <4>1. input_position \in Nat /\ new.mlen \in Nat
        BY <1>1, <3>2, StateNumbers DEF Matches
      <4>2. QED
        BY <3>2, <4>1
    <3>4. QED
      BY <1>1, <2>1, <3>1, <3>3, LoopRestart
  <2>4. QED
    BY <2>2, <2>3
<1>3. CASE MakeRoom
  <2>1. UNCHANGED inVars /\ input_position' = input_position /\ loop' = loop /\ pc' = pc /\ new' = new /\ pc = "SLOT"
    BY <1>3 DEF MakeRoom
  <2>2. GoesByByte' => GoesByByte
    BY <2>1 DEF GoesByByte, Looking
  <2>3. QED
    BY <1>1, <2>1, <2>2, LoopStays
<1>4. CASE EncodeAll \/ NextWindow
  <2>1. pc' \in {"HEADER", "START", "ENDED"}
    BY <1>4 DEF EncodeAll, NextWindow
  <2>2. ~GoesByByte'
    BY <2>1 DEF GoesByByte, Looking
  <2>3. QED
    BY <2>2, LoopEnds
<1>5. QED
  BY <1>2, <1>3, <1>4 DEF Emit

LEMMA LoopKeeps ==
  ASSUME IInv, LoopInv, [Next]_vars
  PROVE  LoopInv'
<1>1. CASE Stopped \/ UNCHANGED vars
  <2>1. TypeInv /\ UNCHANGED inVars /\ input_position' = input_position /\ loop' = loop /\ pc' = pc
        /\ match' = match /\ new' = new
    BY <1>1 DEF IInv, Stopped, vars, posVars, inVars
  <2>2. GoesByByte' => GoesByByte
    BY <2>1 DEF GoesByByte
  <2>3. QED
    BY <2>1, <2>2, LoopStays
<1>2. QED
  BY <1>1, LoopEnter, LoopIndex, LoopSearch, LoopExtend, LoopEmit DEF Next

\* What is kept is what would be computed.
LEMMA LoopFollows ==
  ASSUME LoopInv
  PROVE  LoopTrue
<1>1. pc \in {"RUN", "AT"} => GoesByByte
  BY DEF GoesByByte, Looking
<1>2. ASSUME pc = "RUN", loop.l = SLook, NEW i \in 1 .. SLook
      PROVE  T[input_position + i] = loop.c
  <2>1. RunTrue(loop, input_position)
    BY <1>1, <1>2 DEF LoopInv
  <2>2. i + loop.l > SLook
    BY <1>2, Sizes
  <2>3. QED
    BY <2>1, <2>2 DEF RunTrue, RunAt
<1>3. QED
  BY <1>1, <1>2 DEF LoopInv, LoopTrue

-----------------------------------------------------------------------------
(* The invariants in every run. *)

LEMMA InitSearch ==
  ASSUME Init
  PROVE  SInv
<1>1. /\ enc \in Encodings /\ pc = "START" /\ input_position = 0 /\ min_match = MinMatch
      /\ cksum_pos = 0 /\ maxsrcaddr = 0 /\ used = <<>>
      /\ match = [state |-> "TARGET", srcpos |-> 0, last_srcpos |-> 0, back |-> 0, fwd |-> 0,
                  maxback |-> 0, maxfwd |-> 0, by |-> "entry"]
  BY DEF Init
<1>2. /\ small_table = EmptyTable(SSlots) /\ small_prev = EmptyTable(SPrevSz) /\ win = NoWin
      /\ src = InitSrc(enc)
  BY DEF Init
<1>3. IInv /\ TypeInv /\ BlocksInv
  BY InitInv DEF IInv
<1>4. match.state = "TARGET" /\ match.srcpos = 0 /\ ~InExtension
  BY <1>1 DEF InExtension
<1>5. LoopInv
  BY <1>1 DEF LoopInv, GoesByByte, Looking
<1>6. RingInv
  <2>1. small_prev \in [0 .. SPrevSz - 1 -> Nat]
    BY <1>2 DEF EmptyTable
  <2>2. \A h \in 0 .. SSlots - 1 : small_table[h] = 0
    BY <1>2 DEF EmptyTable
  <2>3. Ring({})
    BY <1>1, <2>2 DEF Ring
  <2>4. QED
    BY <2>1, <2>3 DEF RingInv
<1>7. LazyInv
  <2>1. Len(used) = 0
    BY <1>1
  <2>2. QED
    BY <1>1, <2>1, LeastFacts DEF LazyInv, Looking
<1>8. ContinueInv
  <2>1. enc.window \in Nat
    BY <1>1, EncodingFacts
  <2>2. QED
    BY <1>1, <1>4, <2>1 DEF ContinueInv
<1>9. BlockInv
  <2>1. ASSUME enc.kind = "single"
        PROVE  src.cur = 0 /\ src.eof_known /\ EndIsKnown
    <3>1. enc.size_known
      BY <1>1, <2>1, SrcAssumption
    <3>2. src.cur = 0 /\ src.eof_known
      BY <1>2, <2>1, <3>1 DEF InitSrc
    <3>3. QED
      BY <1>1, <1>2, <3>2, InitBlocks
  <2>2. ~win.decided
    BY <1>2 DEF NoWin
  <2>3. QED
    BY <1>1, <1>4, <2>1, <2>2 DEF BlockInv
<1>10. PipeInv
  <2>1. SUFFICES ASSUME enc.kind = "pipe" PROVE src.highest * Blk <= Ahead
    BY DEF PipeInv
  <2>2. PICK r \in Nat : r = Keeping
    BY <1>3, <2>1, PipeFacts
  <2>3. src.highest * Blk = r
    BY <1>2, <2>1, <2>2 DEF InitSrc, Keeping
  <2>4. Ahead = AheadOf(0, 0, r, 0)
    BY <1>1, <1>4, <2>2 DEF Ahead, Reached
  <2>5. AheadOf(0, 0, r, 0) \in Nat /\ 0 + r <= AheadOf(0, 0, r, 0)
    <3>1. 0 \in Nat
      OBVIOUS
    <3>2. QED
      BY <3>1, AheadFacts
  <2>6. QED
    BY <2>2, <2>3, <2>4, <2>5
<1>11. LengthInv
  BY <1>2 DEF LengthInv, NoWin
<1>12. QED
  BY <1>5, <1>6, <1>7, <1>8, <1>9, <1>10, <1>11 DEF SInv

LEMMA SearchKeeps ==
  ASSUME SourcesThere, LazyFits, IInv, SInv, [Next]_vars
  PROVE  SInv'
<1>1. LoopInv /\ RingInv /\ LazyInv /\ ContinueInv /\ BlockInv /\ PipeInv /\ LengthInv
  BY DEF SInv
<1>2. QED
  BY <1>1, LoopKeeps, RingKeeps, LazyKeeps, ContinueKeeps, BlockKeeps, PipeKeeps, LengthKeeps DEF SInv

LEMMA AssumptionsFollow ==
  ASSUME IInv, SInv
  PROVE  Assumptions
<1>1. IndexReadsOn /\ ContinueOk /\ DecidedOk
  BY IndexReadsFollow, ContinueFollows, LengthFollows DEF SInv
<1>2. InBlock /\ NeverAsked /\ OffsetsRestored
  BY InBlockFollows, NeverAskedFollows, OffsetsFollow DEF SInv
<1>3. LoopTrue /\ ChainsTrue
  BY LoopFollows, ChainsFollow DEF SInv
<1>4. QED
  BY <1>1, <1>2, <1>3 DEF Assumptions

\* The invariants of the search, in every run of the encoder.
THEOREM SearchInvariant ==
  ASSUME SourcesThere, LazyFits
  PROVE  Spec => []SInv
<1>1. Init => SInv
  BY InitSearch
<1>2. IInv /\ SInv /\ [Next]_vars => SInv'
  BY SearchKeeps
<1>3. QED
  BY <1>1, <1>2, Invariant, PTL DEF Spec

\* For every target, and every source that is not empty, what the encoder assumes of
\* itself holds: the index is not past the end and its block is still in the pipe
\* (xd3_srcwin_move_point), a match can be continued in the next window
\* (xd3_encode_input), the source window has a length (xd3_srcwin_setup), a match stays
\* on the block (xd3_source_extend_match), nobody is asked for the one block there is,
\* an offset is restored from its low bits (xd3_source_cksum_offset), the run and the
\* checksum are those of the bytes (xd3_string_match), and each position of a chain lies
\* behind and has the same hash (xd3_smatch).
THEOREM AssumptionsAlways ==
  ASSUME SourcesThere, LazyFits
  PROVE  Spec => []Assumptions
<1>1. IInv /\ SInv => Assumptions
  BY AssumptionsFollow
<1>2. Spec => []SInv
  BY SearchInvariant
<1>3. QED
  BY <1>1, <1>2, Invariant, PTL
=============================================================================
