-------------------------- MODULE SourceCacheProofs --------------------------
(***************************************************************************)
(* What is read as a block of the source is that block, and the end of the *)
(* source is found where it is: for every length of the source, size of    *)
(* the blocks, number of buffers and order of the requests.                *)
(***************************************************************************)
EXTENDS SourceCache, Lemmas

\* Twice a power of two is one.
LEMMA Doubling ==
  ASSUME NEW p \in Nat \ {0}, PowerOfTwo(p)
  PROVE  PowerOfTwo(2 * p)
<1> SUFFICES ASSUME NEW d \in 2 .. 2 * p, (2 * p) % d = 0, d % 2 # 0
             PROVE  FALSE
  BY DEF PowerOfTwo
<1> DEFINE m == (2 * p) \div d
           c == d \div 2
<1>1. m \in Nat /\ 2 * p = m * d
  <2> DEFINE x == 2 * p
  <2>1. x \in Nat /\ d \in Nat \ {0} /\ x % d = 0
    OBVIOUS
  <2> HIDE DEF x
  <2>2. x \div d \in Nat /\ x = (x \div d) * d + (x % d)
    BY <2>1, Division
  <2>3. x \div d \in Nat /\ x = (x \div d) * d
    BY <2>1, <2>2
  <2>4. QED
    BY <2>3 DEF x
<1>2. c \in Nat /\ d = 2 * c + 1
  OBVIOUS
<1> HIDE DEF m, c
<1>3. PICK t \in Nat : m = 2 * t \/ m = 2 * t + 1
  <2>1. m \div 2 \in Nat /\ (m = 2 * (m \div 2) \/ m = 2 * (m \div 2) + 1)
    BY <1>1
  <2>2. QED
    BY <2>1
<1>4. m = 2 * t
  <2>1. SUFFICES ASSUME m = 2 * t + 1 PROVE FALSE
    BY <1>3
  <2>2. m * d = (2 * t) * d + d /\ (2 * t) * d = 2 * (t * d) /\ t * d \in Nat
    BY <2>1
  <2>3. QED
    BY <1>1, <1>2, <2>2
<1>5. p = t * d /\ t * d \in Nat
  <2>1. m * d = 2 * (t * d) /\ t * d \in Nat
    BY <1>4
  <2>2. QED
    BY <1>1, <2>1
<1>6. p % d = 0 /\ d <= p
  <2>1. t # 0
    BY <1>5
  <2>2. d <= t * d
    BY <2>1
  <2>3. (t * d) % d = 0
    BY BlockStarts
  <2>4. QED
    BY <1>5, <2>2, <2>3
<1>7. QED
  BY <1>6 DEF PowerOfTwo

\* xd3_xoff_roundup finds one.
LEMMA RoundUpProperties ==
  ASSUME NEW n \in Nat \ {0}
  PROVE  RoundUp(n) \in n .. 2 * n - 1 /\ PowerOfTwo(RoundUp(n))
<1> DEFINE Bad == {m \in Nat \ {0} : ~\E p \in m .. 2 * m - 1 : PowerOfTwo(p)}
<1>1. Bad = {}
  <2>1. SUFFICES ASSUME Bad # {} PROVE FALSE
    OBVIOUS
  <2>2. PICK m \in Bad : \A k \in Bad : m <= k
    <3>1. Bad \subseteq Nat
      OBVIOUS
    <3> HIDE DEF Bad
    <3>2. QED
      BY <2>1, <3>1, LeastNat
  <2>3. m \in Nat \ {0} /\ \A p \in m .. 2 * m - 1 : ~PowerOfTwo(p)
    OBVIOUS
  <2>4. CASE m = 1
    BY <2>3, <2>4 DEF PowerOfTwo
  <2>5. CASE m # 1
    <3>1. m - 1 \in Nat \ {0} /\ m - 1 \notin Bad
      BY <2>2, <2>3, <2>5
    <3>2. PICK p \in m - 1 .. 2 * (m - 1) - 1 : PowerOfTwo(p)
      BY <3>1
    <3>3. p = m - 1
      BY <2>3, <3>2
    <3>4. PowerOfTwo(2 * p) /\ 2 * p \in m .. 2 * m - 1
      BY <2>3, <2>5, <3>2, <3>3, Doubling
    <3>5. QED
      BY <2>3, <3>4
  <2>6. QED
    BY <2>4, <2>5
<1>2. \E p \in n .. 2 * n - 1 : PowerOfTwo(p)
  BY <1>1
<1>3. QED
  BY <1>2 DEF RoundUp

\* A buffer that is moved to the back of the list stays in it.
LEMMA MoveToBackProperties ==
  ASSUME NEW S, lru_list \in Seq(S), NEW i, \E k \in 1 .. Len(lru_list) : lru_list[k] = i
  PROVE  /\ MoveToBack(i) \in Seq(S) /\ Len(MoveToBack(i)) = Len(lru_list)
         /\ {MoveToBack(i)[j] : j \in 1 .. Len(lru_list)} = {lru_list[j] : j \in 1 .. Len(lru_list)}
<1> DEFINE k == CHOOSE j \in DOMAIN lru_list : lru_list[j] = i
           n == Len(lru_list)
           t == SubSeq(lru_list, 1, k - 1) \o SubSeq(lru_list, k + 1, Len(lru_list))
<1>1. n \in Nat /\ DOMAIN lru_list = 1 .. n /\ \A j \in 1 .. n : lru_list[j] \in S
  OBVIOUS
<1>2. k \in 1 .. n /\ lru_list[k] = i
  BY <1>1
<1>3. MoveToBack(i) = Append(t, i)
  BY DEF MoveToBack
<1>4. /\ t \in Seq(S) /\ Len(t) = n - 1
      /\ \A j \in 1 .. n - 1 : t[j] = IF j < k THEN lru_list[j] ELSE lru_list[j + 1]
  <2> HIDE DEF k
  <2>1. k \in 1 .. Len(lru_list)
    BY <1>2
  <2>2. QED
    BY <2>1, RemoveAtProperties
<1> HIDE DEF k, t
<1> DEFINE u == MoveToBack(i)
<1>5. i \in S
  BY <1>1, <1>2
<1>6. /\ u \in Seq(S) /\ Len(u) = n
      /\ \A j \in 1 .. n - 1 : u[j] = t[j]
      /\ u[n] = i
  <2>1. /\ Append(t, i) \in Seq(S) /\ Len(Append(t, i)) = Len(t) + 1
        /\ \A j \in 1 .. Len(t) : Append(t, i)[j] = t[j]
        /\ Append(t, i)[Len(t) + 1] = i
    BY <1>4, <1>5, AppendProperties
  <2>2. Len(t) = n - 1 /\ Len(t) + 1 = n
    BY <1>1, <1>4
  <2> HIDE DEF n
  <2>3. QED
    BY <1>3, <2>1, <2>2
<1> HIDE DEF n, u
<1>7. ASSUME NEW j \in 1 .. n
      PROVE  \E m \in 1 .. n : u[j] = lru_list[m]
  <2>1. CASE j = n
    BY <1>2, <1>6, <2>1
  <2>2. CASE j # n
    <3>1. j \in 1 .. n - 1 /\ j + 1 \in 1 .. n
      BY <1>1, <2>2
    <3>2. u[j] = lru_list[j] \/ u[j] = lru_list[j + 1]
      BY <1>4, <1>6, <3>1
    <3>3. QED
      BY <3>1, <3>2
  <2>3. QED
    BY <2>1, <2>2
<1>8. ASSUME NEW j \in 1 .. n
      PROVE  \E m \in 1 .. n : u[m] = lru_list[j]
  <2>1. CASE j < k
    <3>1. j \in 1 .. n - 1
      BY <1>1, <1>2, <2>1
    <3>2. u[j] = lru_list[j]
      BY <1>4, <1>6, <2>1, <3>1
    <3>3. QED
      BY <3>2
  <2>2. CASE j = k
    <3>1. n \in 1 .. n
      BY <1>1, <1>2
    <3>2. QED
      BY <1>2, <1>6, <2>2, <3>1
  <2>3. CASE j > k
    <3>1. j - 1 \in 1 .. n - 1 /\ ~(j - 1 < k) /\ (j - 1) + 1 = j
      BY <1>1, <1>2, <2>3
    <3>2. u[j - 1] = lru_list[j]
      BY <1>4, <1>6, <3>1
    <3>3. j - 1 \in 1 .. n
      BY <1>1, <3>1
    <3>4. QED
      BY <3>2, <3>3
  <2>4. QED
    BY <1>1, <1>2, <2>1, <2>2, <2>3
<1>9. {u[j] : j \in 1 .. n} = {lru_list[j] : j \in 1 .. n}
  <2>1. ASSUME NEW x \in {u[j] : j \in 1 .. n} PROVE x \in {lru_list[j] : j \in 1 .. n}
    <3>1. PICK j \in 1 .. n : x = u[j]
      OBVIOUS
    <3>2. QED
      BY <1>7, <3>1
  <2>2. ASSUME NEW x \in {lru_list[j] : j \in 1 .. n} PROVE x \in {u[j] : j \in 1 .. n}
    <3>1. PICK j \in 1 .. n : x = lru_list[j]
      OBVIOUS
    <3>2. PICK m \in 1 .. n : u[m] = lru_list[j]
      BY <1>8
    <3>3. QED
      BY <3>1, <3>2
  <2>3. QED
    BY <2>1, <2>2
<1>10. QED
  BY <1>6, <1>9 DEF u, n

SrcType == [blksize : Nat \ {0}, curblkno : Blknos, curblk : Slots, onblk : Nat,
            max_blkno : Nat, onlastblk : Nat, eof_known : BOOLEAN]
LruType == [Slots -> [blkno : Blknos, from : Nat, size : Nat]]

\* The constants, and the source, of a state.
LEMMA StateConstants ==
  ASSUME TypeOK
  PROVE  /\ BlkBytes \in Nat \ {0} /\ MinWin \in Nat \ {0} /\ MaxBlk \in Nat
         /\ LruSize \in Nat \ {0} /\ LruSize <= MaxBlk + 1 /\ MinWin <= BlkBytes * LruSize
         /\ size \in Nat /\ kind \in {"file", "pipe", "device", "app"}
         /\ source.past_end \in BOOLEAN /\ source.seek_errors \in BOOLEAN
         /\ source.seek_errors => kind = "file"
         /\ Slots = 0 .. LruSize - 1 /\ Blknos = 0 .. MaxBlk + 1 /\ Invalid = MaxBlk + 1
         /\ src \in SrcType /\ lru \in LruType
<1>1. source \in Sources /\ source \in AllSources
  BY CacheAssumption DEF TypeOK
<1>2. BlkBytes \in Nat \ {0} /\ MinWin \in Nat \ {0} /\ MaxBlk \in Nat
  BY CacheAssumption
<1>3. MinWin <= BlkBytes * source.slots /\ source.slots <= MaxBlk + 1
  BY <1>1, CacheAssumption
<1>4. source.seek_errors => source.kind = "file"
  BY <1>1, CacheAssumption
<1>5. src \in SrcType /\ lru \in LruType
  BY DEF TypeOK, SrcType, LruType
<1>6. QED
  BY <1>1, <1>2, <1>3, <1>4, <1>5 DEF AllSources, AllKinds, LruSize, size, kind, Slots, Blknos, Invalid

LEMMA BytesAtProperties ==
  ASSUME size \in Nat, NEW from \in Nat, NEW n \in Nat
  PROVE  /\ BytesAt(from, n) \in 0 .. n
         /\ from >= size => BytesAt(from, n) = 0
         /\ from + n <= size => BytesAt(from, n) = n
         /\ from < size /\ BytesAt(from, n) # n => BytesAt(from, n) = size - from
         /\ from <= size => from + BytesAt(from, n) <= size
         /\ BytesAt(from, n) # 0 => from + BytesAt(from, n) <= size
  BY DEF BytesAt, Smaller

\* What xd3_getblk makes of a block.
LEMMA GotBlockProperties ==
  ASSUME NEW s \in SrcType, NEW blkno \in Nat
  PROVE  /\ GotBlock(s, blkno) \in SrcType
         /\ GotBlock(s, blkno).blksize = s.blksize /\ GotBlock(s, blkno).curblkno = s.curblkno
         /\ GotBlock(s, blkno).curblk = s.curblk /\ GotBlock(s, blkno).onblk = s.onblk
         /\ GotBlock(s, blkno).max_blkno = IF blkno > s.max_blkno THEN blkno ELSE s.max_blkno
         /\ GotBlock(s, blkno).onlastblk = IF blkno >= s.max_blkno THEN s.onblk ELSE s.onlastblk
         /\ GotBlock(s, blkno).eof_known =
              (s.eof_known \/ (blkno > s.max_blkno /\ s.onblk # s.blksize))
  BY DEF GotBlock, SrcType

\* The block that is requested is in buffer b.
LEMMA ReturnProperties ==
  ASSUME TypeOK, NEW b \in Slots, NEW onblk \in Nat, Return(b, onblk)
  PROVE  /\ pc' = "IDLE" /\ ret' = "OK" /\ blru' = 0 /\ src' \in SrcType
         /\ src'.blksize = src.blksize /\ src'.curblkno = request /\ src'.curblk = b
         /\ src'.onblk = onblk
         /\ src'.max_blkno = IF request > src.max_blkno THEN request ELSE src.max_blkno
         /\ src'.onlastblk = IF request >= src.max_blkno THEN onblk ELSE src.onlastblk
         /\ src'.eof_known =
              (src.eof_known \/ (request > src.max_blkno /\ onblk # src.blksize))
<1> DEFINE s == [src EXCEPT !.curblkno = request, !.curblk = b, !.onblk = onblk]
<1>1. src \in SrcType /\ request \in Nat /\ request \in Blknos
  <2>1. src \in SrcType /\ MaxBlk \in Nat /\ Blknos = 0 .. MaxBlk + 1
    BY StateConstants
  <2>2. request \in 0 .. MaxBlk
    BY DEF TypeOK
  <2>3. QED
    BY <2>1, <2>2
<1>2. /\ s \in SrcType /\ s.blksize = src.blksize /\ s.curblkno = request /\ s.curblk = b
      /\ s.onblk = onblk /\ s.max_blkno = src.max_blkno /\ s.onlastblk = src.onlastblk
      /\ s.eof_known = src.eof_known
  BY <1>1 DEF SrcType
<1>3. src' = GotBlock(s, request) /\ pc' = "IDLE" /\ ret' = "OK" /\ blru' = 0
  BY DEF Return
<1> HIDE DEF s
<1>4. QED
  BY <1>1, <1>2, <1>3, GotBlockProperties

\* main_set_source: the window is split into blocks, or is one block.
LEMMA SetSourceProperties ==
  ASSUME TypeOK, SetSource
  PROVE  /\ pc = "SET" /\ pc' = "IDLE" /\ kind # "app"
         /\ UNCHANGED <<source, request, blru, ret, seek_failed>>
         /\ offset' = source_position' /\ do_src_fifo' \in BOOLEAN
         /\ src' \in SrcType /\ lru' \in LruType
         /\ src'.curblkno = 0 /\ src'.curblk = 0 /\ do_src_fifo' = ~src'.eof_known
         /\ kind = "file" => ~do_src_fifo'
         /\ \/ /\ lru_size' = LruSize /\ LruSize * BlkBytes <= size
               /\ source_position' = LruSize * BlkBytes /\ src'.blksize = BlkBytes
               /\ \A i \in Slots : lru'[i].blkno = i /\ lru'[i].from = i * BlkBytes
                                   /\ lru'[i].size = BlkBytes
               /\ src'.onblk = BlkBytes /\ lru_list' = [i \in 1 .. LruSize |-> i - 1]
               /\ ~src'.eof_known => src'.max_blkno = LruSize - 1 /\ src'.onlastblk = BlkBytes
               /\ src'.eof_known => kind = "file"
            \/ /\ lru_size' = 1 /\ src'.eof_known /\ source_position' = size
               /\ size <= src'.blksize /\ (kind # "file" => size < src'.blksize)
               /\ lru'[0].blkno = 0 /\ lru'[0].from = 0 /\ lru'[0].size = size
               /\ src'.onblk = size /\ lru_list' = <<0>>
         /\ src'.eof_known => /\ src'.max_blkno = size \div src'.blksize
                              /\ src'.onlastblk = size % src'.blksize
<1>c. /\ BlkBytes \in Nat \ {0} /\ MinWin \in Nat \ {0} /\ MaxBlk \in Nat
      /\ LruSize \in Nat \ {0} /\ LruSize <= MaxBlk + 1 /\ size \in Nat
      /\ kind \in {"file", "pipe", "device", "app"} /\ Window = LruSize * BlkBytes
      /\ Slots = 0 .. LruSize - 1 /\ Blknos = 0 .. MaxBlk + 1
  BY StateConstants DEF Window
<1> DEFINE win   == IF kind = "file" /\ size < Window
                      THEN RoundUp(Larger(MinWin, size)) ELSE Window
           first == BytesAt(0, win)
           known == kind = "file" \/ first < win
           split == ~known \/ size > win
           blksize == IF split THEN BlkBytes ELSE win
<1>1. /\ pc = "SET" /\ pc' = "IDLE" /\ kind # "app"
      /\ UNCHANGED <<source, request, blru, ret, seek_failed>>
      /\ offset' = first /\ source_position' = first
      /\ lru_size' = IF split THEN LruSize ELSE 1
      /\ lru' = [i \in Slots |->
                   IF split
                     THEN [blkno |-> i, from |-> i * BlkBytes, size |-> BlkBytes]
                     ELSE [blkno |-> 0, from |-> 0, size |-> IF i = 0 THEN first ELSE 0]]
      /\ lru_list' = IF split THEN [i \in 1 .. LruSize |-> i - 1] ELSE <<0>>
      /\ do_src_fifo' = ~known
      /\ src' = [blksize |-> blksize, curblkno |-> 0, curblk |-> 0,
                 onblk |-> IF split THEN BlkBytes ELSE first,
                 max_blkno |-> IF known THEN size \div blksize ELSE LruSize - 1,
                 onlastblk |-> IF known THEN size % blksize ELSE BlkBytes,
                 eof_known |-> known]
  BY DEF SetSource
<1>2. Window \in Nat \ {0}
  <2>1. 1 <= LruSize /\ BlkBytes <= LruSize * BlkBytes /\ LruSize * BlkBytes \in Nat
    <3>1. 1 * BlkBytes <= LruSize * BlkBytes
      BY <1>c, BlockStarts
    <3>2. LruSize * BlkBytes \in Nat
      BY <1>c, BlockStarts
    <3>3. QED
      BY <1>c, <3>1, <3>2
  <2>2. QED
    BY <1>c, <2>1
<1>3. win \in Nat \ {0} /\ (win # Window => kind = "file" /\ size <= win)
  <2>1. CASE kind = "file" /\ size < Window
    <3>1. Larger(MinWin, size) \in Nat \ {0} /\ size <= Larger(MinWin, size)
      BY <1>c DEF Larger
    <3>2. RoundUp(Larger(MinWin, size)) >= Larger(MinWin, size)
          /\ RoundUp(Larger(MinWin, size)) \in Nat
      BY <3>1, RoundUpProperties
    <3>3. QED
      BY <1>c, <2>1, <3>1, <3>2
  <2>2. CASE ~(kind = "file" /\ size < Window)
    BY <1>2, <2>2
  <2>3. QED
    BY <2>1, <2>2
<1> HIDE DEF win
<1>4. /\ first \in 0 .. win
      /\ win <= size => first = win
      /\ size <= win => first = size
  BY <1>c, <1>3 DEF BytesAt, Smaller
<1> HIDE DEF first
<1>5. /\ split => win = Window /\ win <= size /\ first = win /\ (known => kind = "file")
      /\ ~split => known /\ size <= win /\ first = size /\ (kind # "file" => size < win)
  <2>1. ~known => first = win /\ kind # "file"
    BY <1>3, <1>4
  <2>2. first = win => win <= size
    BY <1>c, <1>3, <1>4
  <2>3. size > win => win = Window /\ win <= size /\ first = win
    BY <1>c, <1>3, <1>4
  <2>4. known /\ size > win => kind = "file"
    BY <1>c, <1>3, <1>4
  <2>5. ~known => win = Window
    BY <1>3, <2>1
  <2>6. ~(size > win) => size <= win /\ first = size
    BY <1>c, <1>3, <1>4
  <2>7. known /\ kind # "file" => first < win
    OBVIOUS
  <2> HIDE DEF known
  <2>8. QED
    BY <2>1, <2>2, <2>3, <2>4, <2>5, <2>6, <2>7, <1>c, <1>3
<1>6. blksize \in Nat \ {0} /\ known \in BOOLEAN /\ split \in BOOLEAN
  BY <1>c, <1>3
<1>7. (kind = "file" => known) /\ (split \/ ~split)
  OBVIOUS
<1>8. split => blksize = BlkBytes
  OBVIOUS
<1>9. ~split => blksize = win
  OBVIOUS
<1> HIDE DEF split, known, blksize
<1>10. /\ (IF known THEN size \div blksize ELSE LruSize - 1) \in Nat
       /\ (IF known THEN size % blksize ELSE BlkBytes) \in Nat
  <2>1. size \div blksize \in Nat /\ size % blksize \in Nat
    <3>1. size \in Nat /\ blksize \in Nat \ {0}
      BY <1>c, <1>6
    <3>2. size \div blksize \in Nat /\ size % blksize \in 0 .. blksize - 1
      BY <3>1, Division
    <3>3. QED
      BY <3>1, <3>2
  <2>2. QED
    BY <1>c, <1>6, <2>1
<1>11. src' \in SrcType
  <2>1. (IF split THEN BlkBytes ELSE first) \in Nat /\ 0 \in Blknos /\ 0 \in Slots
    BY <1>c, <1>3, <1>4
  <2>2. QED
    BY <1>1, <1>6, <1>10, <2>1 DEF SrcType
<1>12. lru' \in LruType
  <2>1. ASSUME NEW i \in Slots
        PROVE  (IF split
                     THEN [blkno |-> i, from |-> i * BlkBytes, size |-> BlkBytes]
                     ELSE [blkno |-> 0, from |-> 0, size |-> IF i = 0 THEN first ELSE 0])
                 \in [blkno : Blknos, from : Nat, size : Nat]
    <3>1. i \in Nat /\ i * BlkBytes \in Nat /\ i \in Blknos /\ 0 \in Blknos /\ first \in Nat
      BY <1>c, <1>3, <1>4
    <3>2. QED
      BY <1>c, <3>1
  <2>2. QED
    BY <1>1, <2>1 DEF LruType
<1>13. /\ src'.blksize = blksize /\ src'.curblkno = 0 /\ src'.curblk = 0
       /\ src'.onblk = (IF split THEN BlkBytes ELSE first)
       /\ src'.max_blkno = (IF known THEN size \div blksize ELSE LruSize - 1)
       /\ src'.onlastblk = (IF known THEN size % blksize ELSE BlkBytes)
       /\ src'.eof_known = known
  BY <1>1
<1>14. CASE split
  <2>1. \A i \in Slots : lru'[i].blkno = i /\ lru'[i].from = i * BlkBytes /\ lru'[i].size = BlkBytes
    BY <1>1, <1>14
  <2>2. /\ lru_size' = LruSize /\ source_position' = LruSize * BlkBytes /\ LruSize * BlkBytes <= size
        /\ src'.blksize = BlkBytes /\ src'.onblk = BlkBytes
        /\ lru_list' = [i \in 1 .. LruSize |-> i - 1]
        /\ src'.eof_known => kind = "file"
    BY <1>c, <1>1, <1>5, <1>8, <1>13, <1>14
  <2>3. ~src'.eof_known => src'.max_blkno = LruSize - 1 /\ src'.onlastblk = BlkBytes
    BY <1>13
  <2>4. src'.eof_known => src'.max_blkno = size \div src'.blksize /\ src'.onlastblk = size % src'.blksize
    BY <1>13
  <2>5. QED
    BY <1>1, <1>6, <1>7, <1>11, <1>12, <1>13, <2>1, <2>2, <2>3, <2>4
<1>15. CASE ~split
  <2>1. 0 \in Slots
    BY <1>c
  <2>2. lru'[0].blkno = 0 /\ lru'[0].from = 0 /\ lru'[0].size = first
    BY <1>1, <1>15, <2>1
  <2>3. /\ lru_size' = 1 /\ source_position' = size /\ src'.eof_known
        /\ size <= src'.blksize /\ (kind # "file" => size < src'.blksize)
        /\ src'.onblk = size /\ lru_list' = <<0>>
    BY <1>1, <1>5, <1>9, <1>13, <1>15
  <2>4. src'.eof_known => src'.max_blkno = size \div src'.blksize /\ src'.onlastblk = size % src'.blksize
    BY <1>13
  <2>5. QED
    BY <1>1, <1>5, <1>6, <1>7, <1>11, <1>12, <1>13, <1>15, <2>2, <2>3, <2>4
<1>16. QED
  BY <1>7, <1>14, <1>15

\* The list holds each buffer of the cache.
ListTrue == /\ lru_list \in Seq(Slots)
            /\ pc # "SET" /\ kind # "app" =>
                 /\ Len(lru_list) = lru_size
                 /\ {lru_list[i] : i \in 1 .. Len(lru_list)} = 0 .. lru_size - 1

\* The buffer a block is in, or will be in.
LEMMA ChosenBuffer ==
  ASSUME TypeOK, pc # "SET", kind # "app", do_src_fifo => lru_size = LruSize, NEW b \in Nat
  PROVE  /\ lru_size \in Nat \ {0} /\ 0 .. lru_size - 1 \subseteq Slots
         /\ Cached(b) \subseteq 0 .. lru_size - 1 /\ Victim(b) \in 0 .. lru_size - 1
         /\ \A i \in 0 .. lru_size - 1 : \E k \in 1 .. Len(lru_list) : lru_list[k] = i
<1>c. LruSize \in Nat \ {0} /\ Slots = 0 .. LruSize - 1
  BY StateConstants
<1>1. lru_size \in Nat \ {0} /\ 0 .. lru_size - 1 \subseteq Slots
  <2>1. lru_size = 1 \/ lru_size = LruSize
    BY DEF TypeOK
  <2>2. QED
    BY <1>c, <2>1
<1>2. Cached(b) \subseteq 0 .. lru_size - 1
  BY DEF Cached
<1>3. /\ lru_list \in Seq(Slots) /\ Len(lru_list) = lru_size
      /\ {lru_list[i] : i \in 1 .. Len(lru_list)} = 0 .. lru_size - 1
  BY DEF TypeOK
<1>4. \A i \in 0 .. lru_size - 1 : \E k \in 1 .. Len(lru_list) : lru_list[k] = i
  BY <1>3
<1>5. Victim(b) \in 0 .. lru_size - 1
  <2>1. CASE do_src_fifo
    <3>1. Victim(b) = b % lru_size
      BY <2>1 DEF Victim, FifoSlot
    <3>2. b % lru_size \in 0 .. lru_size - 1
      BY <1>1, Division
    <3>3. QED
      BY <3>1, <3>2
  <2>2. CASE ~do_src_fifo
    <3>1. Victim(b) = lru_list[1]
      BY <1>3, <2>2 DEF Victim
    <3>2. 1 \in 1 .. Len(lru_list)
      BY <1>1, <1>3
    <3>3. QED
      BY <1>3, <3>1, <3>2
  <2>3. QED
    BY <2>1, <2>2
<1>6. QED
  BY <1>1, <1>2, <1>4, <1>5

\* The list stays so when a buffer is moved to its back.
LEMMA ListKept ==
  ASSUME TypeOK, pc # "SET", kind # "app", UNCHANGED <<source, lru_size>>,
         do_src_fifo => lru_size = LruSize,
         \/ lru_list' = lru_list
         \/ \E i \in 0 .. lru_size - 1 : lru_list' = MoveToBack(i)
  PROVE  ListTrue'
<1>1. /\ lru_list \in Seq(Slots) /\ Len(lru_list) = lru_size
      /\ {lru_list[i] : i \in 1 .. Len(lru_list)} = 0 .. lru_size - 1
  BY DEF TypeOK
<1>2. CASE lru_list' = lru_list
  BY <1>1, <1>2 DEF ListTrue, Slots, LruSize, kind
<1>3. ASSUME NEW i \in 0 .. lru_size - 1, lru_list' = MoveToBack(i)
      PROVE  ListTrue'
  <2>1. \E k \in 1 .. Len(lru_list) : lru_list[k] = i
    BY <1>1
  <2>2. /\ MoveToBack(i) \in Seq(Slots) /\ Len(MoveToBack(i)) = Len(lru_list)
        /\ {MoveToBack(i)[j] : j \in 1 .. Len(lru_list)} = {lru_list[j] : j \in 1 .. Len(lru_list)}
    BY <1>1, <2>1, MoveToBackProperties
  <2>3. Slots' = Slots
    BY DEF Slots, LruSize
  <2>4. QED
    BY <1>1, <1>3, <2>2, <2>3 DEF ListTrue
<1>4. QED
  BY <1>2, <1>3

\* The types of what is left, from those of what changes.
LEMMA TypesKept ==
  ASSUME TypeOK, UNCHANGED source, ListTrue', src' \in SrcType, lru' \in LruType,
         pc' \in {"SET", "IDLE", "LOOKUP", "SEEK", "SKIP", "READ"},
         ret' \in {"OK", "XD3_TOOFARBACK", "XD3_INVALID_INPUT"},
         request' \in 0 .. MaxBlk, blru' \in Slots, offset' \in Nat, source_position' \in Nat,
         lru_size' \in {1, LruSize}, do_src_fifo' \in BOOLEAN, seek_failed' \in BOOLEAN
  PROVE  TypeOK'
<1>1. Slots' = Slots /\ LruSize' = LruSize /\ Blknos' = Blknos
  BY DEF Slots, LruSize, Blknos, Invalid
<1>2. QED
  BY <1>1 DEF TypeOK, ListTrue, SrcType, LruType

LEMMA TypesInit == Init => TypeOK
<1> SUFFICES ASSUME Init PROVE TypeOK
  OBVIOUS
<1>1. /\ source \in Sources /\ source \in AllSources /\ MaxBlk \in Nat /\ BlkBytes \in Nat \ {0}
  BY CacheAssumption DEF Init
<1>2. LruSize \in Nat \ {0} /\ 0 \in Slots /\ Invalid \in Blknos /\ 0 \in 0 .. MaxBlk
  BY <1>1 DEF AllSources, LruSize, Slots, Blknos, Invalid
<1>3. lru \in [Slots -> [blkno : Blknos, from : Nat, size : Nat]]
  BY <1>2 DEF Init
<1>4. src \in [blksize : Nat \ {0}, curblkno : Blknos, curblk : Slots, onblk : Nat,
               max_blkno : Nat, onlastblk : Nat, eof_known : BOOLEAN]
  BY <1>1, <1>2 DEF Init
<1>5. lru_list \in Seq(Slots)
  BY DEF Init
<1>6. QED
  BY <1>1, <1>2, <1>3, <1>4, <1>5 DEF Init, TypeOK

LEMMA TypesNext == TypeOK /\ Stepping /\ [Next]_vars => TypeOK'
<1> SUFFICES ASSUME TypeOK, Stepping, [Next]_vars PROVE TypeOK'
  OBVIOUS
<1>c. /\ BlkBytes \in Nat \ {0} /\ MaxBlk \in Nat
      /\ LruSize \in Nat \ {0} /\ size \in Nat /\ Slots = 0 .. LruSize - 1
      /\ Blknos = 0 .. MaxBlk + 1 /\ Invalid = MaxBlk + 1
      /\ src \in SrcType /\ lru \in LruType /\ src.blksize \in Nat \ {0}
  BY StateConstants DEF SrcType
<1>t. /\ pc \in {"SET", "IDLE", "LOOKUP", "SEEK", "SKIP", "READ"}
      /\ ret \in {"OK", "XD3_TOOFARBACK", "XD3_INVALID_INPUT"}
      /\ request \in 0 .. MaxBlk /\ blru \in Slots /\ offset \in Nat /\ source_position \in Nat
      /\ lru_size \in {1, LruSize} /\ do_src_fifo \in BOOLEAN /\ seek_failed \in BOOLEAN
      /\ 0 \in Slots /\ request \in Nat /\ Start(request) \in Nat
  <2>1. 0 \in Slots /\ request \in Nat
    BY <1>c DEF TypeOK
  <2>2. Start(request) \in Nat
    BY <1>c, <2>1, BlockStarts DEF Start
  <2>3. QED
    BY <2>1, <2>2 DEF TypeOK
<1>l. ListTrue
  BY DEF TypeOK, ListTrue
<1>f. do_src_fifo => lru_size = LruSize
  BY DEF Stepping
<1>a. pc \notin {"SET", "IDLE", "LOOKUP"} => kind # "app"
  BY DEF Stepping
<1>b. pc # "SET" /\ kind # "app" =>
        /\ lru_size \in Nat \ {0} /\ 0 .. lru_size - 1 \subseteq Slots
        /\ \A b \in Nat : Cached(b) \subseteq 0 .. lru_size - 1 /\ Victim(b) \in 0 .. lru_size - 1
  BY <1>f, ChosenBuffer
<1>k. ASSUME UNCHANGED <<source, lru_list, lru_size>>, pc # "SET"
      PROVE  ListTrue'
  BY <1>k, <1>l DEF ListTrue, Slots, LruSize, kind
<1>1. CASE SetSource
  <2>1. /\ UNCHANGED <<source, request, blru, ret, seek_failed>> /\ pc' = "IDLE"
        /\ offset' = source_position' /\ do_src_fifo' \in BOOLEAN
        /\ src' \in SrcType /\ lru' \in LruType /\ lru_size' \in {1, LruSize}
        /\ \/ source_position' = LruSize * BlkBytes \/ source_position' = size
        /\ \/ lru_size' = LruSize /\ lru_list' = [i \in 1 .. LruSize |-> i - 1]
           \/ lru_size' = 1 /\ lru_list' = <<0>>
    BY <1>1, SetSourceProperties
  <2>2. source_position' \in Nat
    BY <1>c, <2>1, BlockStarts
  <2>3. Slots' = Slots
    BY <2>1 DEF Slots, LruSize
  <2>4. ListTrue'
    <3>1. CASE lru_size' = LruSize /\ lru_list' = [i \in 1 .. LruSize |-> i - 1]
      <4>1. lru_list' \in Seq(Slots) /\ Len(lru_list') = LruSize
        <5>1. \A i \in 1 .. LruSize : i - 1 \in Slots
          BY <1>c
        <5>2. QED
          BY <1>c, <3>1, <5>1
      <4>2. ASSUME NEW j \in 0 .. LruSize - 1
            PROVE  \E i \in 1 .. LruSize : lru_list'[i] = j
        <5>1. j + 1 \in 1 .. LruSize /\ (j + 1) - 1 = j
          BY <1>c
        <5>2. QED
          BY <3>1, <5>1
      <4>3. \A i \in 1 .. LruSize : lru_list'[i] \in 0 .. LruSize - 1
        BY <1>c, <3>1
      <4>4. {lru_list'[i] : i \in 1 .. LruSize} = 0 .. LruSize - 1
        BY <4>2, <4>3
      <4>5. QED
        BY <2>3, <3>1, <4>1, <4>4 DEF ListTrue
    <3>2. CASE lru_size' = 1 /\ lru_list' = <<0>>
      <4>1. lru_list' \in Seq(Slots) /\ Len(lru_list') = 1 /\ lru_list'[1] = 0
        BY <1>t, <3>2
      <4>2. {lru_list'[i] : i \in 1 .. 1} = 0 .. 1 - 1
        BY <4>1
      <4>3. QED
        BY <2>3, <3>2, <4>1, <4>2 DEF ListTrue
    <3>3. QED
      BY <2>1, <3>1, <3>2
  <2>5. QED
    BY <1>t, <2>1, <2>2, <2>4, TypesKept
<1>2. CASE AppSetSource
  <2>1. /\ pc' = "IDLE" /\ src' = [src EXCEPT !.blksize = BlkBytes] /\ kind = "app"
        /\ UNCHANGED <<source, offset, request, blru, ret, lru, lru_list, lru_size, do_src_fifo>>
        /\ UNCHANGED <<source_position, seek_failed>>
    BY <1>2 DEF AppSetSource, osVars, setVars, fileVars
  <2>2. src' \in SrcType
    BY <1>c, <2>1 DEF SrcType
  <2>3. ListTrue'
    BY <1>l, <2>1 DEF ListTrue, Slots, LruSize, kind
  <2>4. QED
    BY <1>c, <1>t, <2>1, <2>2, <2>3, TypesKept
<1>3. ASSUME NEW blkno \in 0 .. MaxBlk, Request(blkno)
      PROVE  TypeOK'
  <2>1. /\ pc = "IDLE" /\ request' = blkno /\ pc' \in {"IDLE", "LOOKUP"} /\ ret' \in {ret, "OK"}
        /\ src' = src \/ src' = GotBlock(src, blkno)
        /\ UNCHANGED <<source, offset, blru, lru, lru_list, lru_size, do_src_fifo>>
        /\ UNCHANGED <<source_position, seek_failed>>
    BY <1>3 DEF Request, osVars, setVars, fileVars
  <2>2. src' \in SrcType
    BY <1>c, <2>1, GotBlockProperties
  <2>3. ListTrue'
    BY <1>k, <2>1
  <2>4. QED
    BY <1>c, <1>t, <2>1, <2>2, <2>3, TypesKept
<1>4. CASE AppGetblk
  <2>1. /\ pc = "LOOKUP"
        /\ lru' = [lru EXCEPT ![0] = [blkno |-> request, from |-> Start(request),
                                      size |-> BytesAt(Start(request), BlkBytes)]]
        /\ Return(0, lru'[0].size)
        /\ UNCHANGED <<source, offset, request, lru_list, lru_size, do_src_fifo>>
        /\ UNCHANGED <<source_position, seek_failed>>
    BY <1>4 DEF AppGetblk, osVars, setVars, fileVars
  <2>2. BytesAt(Start(request), BlkBytes) \in Nat /\ request \in Blknos
    <3>1. BytesAt(Start(request), BlkBytes) \in 0 .. BlkBytes
      BY <1>c, <1>t, BytesAtProperties
    <3>2. QED
      BY <1>c, <1>t, <3>1
  <2>3. lru' \in LruType /\ lru'[0].size \in Nat
    BY <1>c, <1>t, <2>1, <2>2 DEF LruType
  <2>4. pc' = "IDLE" /\ ret' = "OK" /\ blru' = 0 /\ src' \in SrcType
    BY <1>t, <2>1, <2>3, ReturnProperties
  <2>5. ListTrue'
    BY <1>k, <2>1
  <2>6. QED
    BY <1>t, <2>1, <2>3, <2>4, <2>5, TypesKept
<1>5. CASE Hit
  <2>1. PICK i \in Cached(request) :
          /\ pc = "LOOKUP" /\ kind # "app"
          /\ lru_list' = IF do_src_fifo THEN lru_list ELSE MoveToBack(i)
          /\ Return(i, lru[i].size)
          /\ UNCHANGED <<source, offset, request, lru, lru_size, do_src_fifo>>
          /\ UNCHANGED <<source_position, seek_failed>>
    BY <1>5 DEF Hit, LookingUp, osVars, setVars, fileVars
  <2>2. i \in 0 .. lru_size - 1 /\ i \in Slots /\ lru[i].size \in Nat
    BY <1>b, <1>c, <1>t, <2>1 DEF LruType
  <2>3. pc' = "IDLE" /\ ret' = "OK" /\ blru' = 0 /\ src' \in SrcType
    BY <2>1, <2>2, ReturnProperties
  <2>4. ListTrue'
    BY <1>f, <2>1, <2>2, ListKept
  <2>5. QED
    BY <1>c, <1>t, <2>1, <2>3, <2>4, TypesKept
<1>6. CASE TooFarBack
  <2>1. /\ pc = "LOOKUP" /\ kind # "app" /\ pc' = "IDLE" /\ ret' = "XD3_TOOFARBACK" /\ blru' = 0
        /\ UNCHANGED <<source, offset, request, lru, lru_list, lru_size, do_src_fifo>>
        /\ UNCHANGED <<source_position, seek_failed, src>>
    BY <1>6 DEF TooFarBack, LookingUp, Fail, osVars, setVars, fileVars
  <2>2. ListTrue'
    BY <1>k, <2>1
  <2>3. QED
    BY <1>c, <1>t, <2>1, <2>2, TypesKept
<1>7. CASE Miss
  <2>1. /\ pc = "LOOKUP" /\ kind # "app" /\ pc' \in {"READ", "SEEK"}
        /\ blru' = Victim(request) /\ lru' = [lru EXCEPT ![blru'].blkno = Invalid]
        /\ lru_list' = (IF do_src_fifo THEN lru_list ELSE MoveToBack(Victim(request)))
        /\ UNCHANGED <<source, offset, request, ret, lru_size, do_src_fifo>>
        /\ UNCHANGED <<source_position, seek_failed, src>>
    BY <1>7 DEF Miss, LookingUp, Evicted, osVars, setVars, fileVars
  <2>2. blru' \in 0 .. lru_size - 1 /\ blru' \in Slots
    BY <1>b, <1>t, <2>1
  <2>3. lru' \in LruType
    <3> DEFINE b == blru'
    <3>1. b \in Slots /\ Invalid \in Blknos /\ lru' = [lru EXCEPT ![b].blkno = Invalid]
      BY <1>c, <2>1, <2>2
    <3> HIDE DEF b
    <3>2. QED
      BY <1>c, <3>1 DEF LruType
  <2>4. ListTrue'
    BY <1>f, <2>1, <2>2, ListKept
  <2>5. QED
    BY <1>c, <1>t, <2>1, <2>2, <2>3, <2>4, TypesKept
<1>8. CASE Seek
  <2>1. /\ pc = "SEEK" /\ pc' = "READ" /\ offset' = Start(request) /\ source_position' = Start(request)
        /\ UNCHANGED <<source, request, blru, ret, lru, lru_list, lru_size, do_src_fifo>>
        /\ UNCHANGED <<seek_failed, src>>
    BY <1>8 DEF Seek, setVars
  <2>2. ListTrue'
    BY <1>k, <2>1
  <2>3. QED
    BY <1>c, <1>t, <2>1, <2>2, TypesKept
<1>9. CASE SeekFails
  <2>1. /\ pc = "SEEK" /\ pc' \in {"IDLE", "SKIP"} /\ ret' \in {ret, "XD3_TOOFARBACK"}
        /\ blru' \in {0, blru} /\ seek_failed' = TRUE
        /\ UNCHANGED <<source, offset, request, lru, lru_list, lru_size, do_src_fifo>>
        /\ UNCHANGED <<source_position, src>>
    BY <1>9 DEF SeekFails, Fail, osVars, setVars
  <2>2. ListTrue'
    BY <1>k, <2>1
  <2>3. QED
    BY <1>c, <1>t, <2>1, <2>2, TypesKept
<1>10. CASE Skip
  <2> DEFINE i     == IF Cached(SkipBlkno) # {} THEN CHOOSE j \in Cached(SkipBlkno) : TRUE
                      ELSE Victim(SkipBlkno)
             nread == BytesAt(offset, src.blksize)
             full  == nread = src.blksize
  <2>1. /\ pc = "SKIP" /\ source_position < Start(request)
        /\ lru' = [lru EXCEPT ![i].blkno = SkipBlkno, ![i].from  = offset,
                              ![i].size  = IF full THEN nread ELSE @]
        /\ lru_list' = (IF do_src_fifo THEN lru_list ELSE MoveToBack(i))
        /\ offset' = offset + nread
        /\ source_position' \in {source_position, source_position + nread}
        /\ pc' \in {pc, "IDLE"} /\ ret' \in {ret, "XD3_INVALID_INPUT"} /\ blru' \in {blru, 0}
        /\ UNCHANGED <<source, request, lru_size, do_src_fifo, seek_failed, src>>
    BY <1>10 DEF Skip, Fail, setVars
  <2>s. source_position < Start(request)
    BY <2>1
  <2>2. kind # "app"
    BY <1>a, <2>1
  <2>3. nread \in Nat
    <3>1. nread \in 0 .. src.blksize
      BY <1>c, <1>t, BytesAtProperties
    <3>2. QED
      BY <1>c, <3>1
  <2>4. SkipBlkno \in Nat /\ SkipBlkno \in Blknos
    <3> DEFINE q == SkipBlkno
               k == src.blksize
    <3>1. q \in Nat /\ q * k <= source_position
      <4>1. q = source_position \div k
        BY DEF SkipBlkno
      <4>2. q \in Nat /\ source_position % k \in 0 .. k - 1 /\ source_position = q * k + (source_position % k)
        BY <1>c, <1>t, <4>1, Division
      <4>3. q * k \in Nat
        BY <1>c, <4>2, BlockStarts
      <4> HIDE DEF q, k
      <4>4. QED
        BY <1>t, <4>2, <4>3
    <3>2. Start(request) = request * k
      BY DEF Start
    <3>3. k \in Nat \ {0}
      BY <1>c
    <3> HIDE DEF q, k
    <3>4. q < request
      <4>1. request <= q => request * k <= q * k
        BY <1>t, <3>1, <3>3, BlockStarts
      <4>2. q * k \in Nat
        BY <3>1, <3>3, BlockStarts
      <4>3. QED
        BY <1>t, <2>s, <3>1, <3>2, <4>1, <4>2
    <3>5. q \in Blknos
      BY <1>c, <1>t, <3>1, <3>4
    <3>6. QED
      BY <3>1, <3>5 DEF q
  <2>5. i \in 0 .. lru_size - 1 /\ i \in Slots
    BY <1>b, <2>1, <2>2, <2>4
  <2> HIDE DEF i, nread, full
  <2>6. lru' \in LruType
    BY <1>c, <1>t, <2>1, <2>3, <2>4, <2>5, ZenonT(60) DEF LruType
  <2>7. ListTrue'
    BY <1>f, <2>1, <2>2, <2>5, ListKept
  <2>8. offset' \in Nat /\ source_position' \in Nat
    BY <1>t, <2>1, <2>3
  <2>9. QED
    BY <1>c, <1>t, <2>1, <2>6, <2>7, <2>8, TypesKept
<1>11. CASE EndSkip
  <2>1. /\ pc = "SKIP" /\ pc' = "READ"
        /\ UNCHANGED <<source, offset, request, blru, ret, lru, lru_list, lru_size, do_src_fifo>>
        /\ UNCHANGED <<source_position, seek_failed, src>>
    BY <1>11 DEF EndSkip, osVars, setVars, fileVars
  <2>2. ListTrue'
    BY <1>k, <2>1
  <2>3. QED
    BY <1>c, <1>t, <2>1, <2>2, TypesKept
<1>12. CASE Read
  <2> DEFINE nread == BytesAt(offset, src.blksize)
  <2>1. /\ pc = "READ"
        /\ lru' = [lru EXCEPT ![blru] = [blkno |-> request, from |-> offset, size |-> nread]]
        /\ offset' = offset + nread /\ source_position' = Start(request) + nread
        /\ Return(blru, nread)
        /\ UNCHANGED <<source, request, lru_list, lru_size, do_src_fifo, seek_failed>>
    BY <1>12 DEF Read, setVars
  <2>2. nread \in Nat
    <3>1. nread \in 0 .. src.blksize
      BY <1>c, <1>t, BytesAtProperties
    <3>2. QED
      BY <1>c, <3>1
  <2> HIDE DEF nread
  <2>3. request \in Blknos
    BY <1>c, <1>t
  <2>4. lru' \in LruType
    BY <1>c, <1>t, <2>1, <2>2, <2>3 DEF LruType
  <2>5. pc' = "IDLE" /\ ret' = "OK" /\ blru' = 0 /\ src' \in SrcType
    BY <1>t, <2>1, <2>2, ReturnProperties
  <2>6. offset' \in Nat /\ source_position' \in Nat
    BY <1>t, <2>1, <2>2
  <2>7. ListTrue'
    BY <1>k, <2>1
  <2>8. QED
    BY <1>t, <2>1, <2>4, <2>5, <2>6, <2>7, TypesKept
<1>13. CASE UNCHANGED vars
  BY <1>13 DEF TypeOK, vars, osVars, reqVars, setVars, fileVars, Slots, LruSize, kind, Blknos, Invalid
<1>14. QED
  BY <1>1, <1>2, <1>3, <1>4, <1>5, <1>6, <1>7, <1>8, <1>9, <1>10, <1>11, <1>12, <1>13
     DEF Next, Serve, Stopped

\* The invariants of the next state, in the numbers of this one.
LEMMA PrimedForms ==
  ASSUME UNCHANGED source
  PROVE  /\ BuffersTrue' <=>
              (pc' # "SET" /\ ret' # "XD3_INVALID_INPUT" =>
                 \A i \in 0 .. lru_size' - 1 :
                   lru'[i].blkno # Invalid =>
                     /\ lru'[i].from = lru'[i].blkno * src'.blksize
                     /\ lru'[i].size = BytesAt(lru'[i].blkno * src'.blksize, src'.blksize))
         /\ AtHand' <=>
              ((pc' # "SET" /\ ret' # "XD3_INVALID_INPUT" /\ pc' \in {"IDLE", "LOOKUP", "SEEK"}
                  /\ src'.curblkno # Invalid) =>
                 /\ lru'[src'.curblk].from = src'.curblkno * src'.blksize
                 /\ src'.onblk = BytesAt(src'.curblkno * src'.blksize, src'.blksize))
         /\ Placed' <=>
              ((pc' # "SET" /\ ret' # "XD3_INVALID_INPUT" /\ kind # "app") =>
                 /\ offset' = source_position'
                 /\ \/ source_position' >= size
                    \/ \E k \in 0 .. source_position' : source_position' = k * src'.blksize)
         /\ EndInv' <=>
              ((pc' # "SET" /\ ~source.past_end) =>
                 /\ src'.max_blkno * src'.blksize <= size
                 /\ IF src'.eof_known
                      THEN /\ src'.max_blkno * src'.blksize + src'.onlastblk = size
                           /\ src'.onlastblk < src'.blksize
                      ELSE src'.max_blkno * src'.blksize + src'.onlastblk <= size)
<1>0. source' = source
  OBVIOUS
<1>1. BuffersTrue' <=>
              (pc' # "SET" /\ ret' # "XD3_INVALID_INPUT" =>
                 \A i \in 0 .. lru_size' - 1 :
                   lru'[i].blkno # Invalid =>
                     /\ lru'[i].from = lru'[i].blkno * src'.blksize
                     /\ lru'[i].size = BytesAt(lru'[i].blkno * src'.blksize, src'.blksize))
  BY <1>0 DEF BuffersTrue, Start, BytesAt, size, Alive
<1>2. AtHand' <=>
              ((pc' # "SET" /\ ret' # "XD3_INVALID_INPUT" /\ pc' \in {"IDLE", "LOOKUP", "SEEK"}
                  /\ src'.curblkno # Invalid) =>
                 /\ lru'[src'.curblk].from = src'.curblkno * src'.blksize
                 /\ src'.onblk = BytesAt(src'.curblkno * src'.blksize, src'.blksize))
  BY <1>0 DEF AtHand, Start, BytesAt, size, Alive
<1>3. Placed' <=>
              ((pc' # "SET" /\ ret' # "XD3_INVALID_INPUT" /\ kind # "app") =>
                 /\ offset' = source_position'
                 /\ \/ source_position' >= size
                    \/ \E k \in 0 .. source_position' : source_position' = k * src'.blksize)
  BY <1>0 DEF Placed, Start, size, kind, Alive
<1>4. EndInv' <=>
              ((pc' # "SET" /\ ~source.past_end) =>
                 /\ src'.max_blkno * src'.blksize <= size
                 /\ IF src'.eof_known
                      THEN /\ src'.max_blkno * src'.blksize + src'.onlastblk = size
                           /\ src'.onlastblk < src'.blksize
                      ELSE src'.max_blkno * src'.blksize + src'.onlastblk <= size)
  BY <1>0 DEF EndInv, Eof, Start, size
<1>5. QED
  BY <1>1, <1>2, <1>3, <1>4

LEMMA PrimedStepping ==
  ASSUME UNCHANGED source
  PROVE  Stepping' <=>
           /\ pc' = "SET" =>
                /\ src'.curblkno = Invalid /\ src'.max_blkno = 0 /\ src'.onlastblk = 0
                /\ ~src'.eof_known /\ lru_size' = 1 /\ lru'[0].blkno = Invalid /\ ~do_src_fifo'
                /\ ret' = "OK"
           /\ pc' = "READ" => source_position' = request' * src'.blksize
           /\ pc' = "SKIP" => source_position' <= request' * src'.blksize
           /\ pc' # "IDLE" => ret' # "XD3_INVALID_INPUT"
           /\ pc' \notin {"SET", "IDLE"} /\ ~source.past_end => request' * src'.blksize <= size
           /\ pc' = "SEEK" => {i \in 0 .. lru_size' - 1 :
                                 /\ lru'[i].blkno = request'
                                 /\ do_src_fifo' => i = request' % lru_size'} = {}
           /\ kind = "app" => /\ pc' \in {"SET", "IDLE", "LOOKUP"} /\ ret' # "XD3_TOOFARBACK"
                              /\ src'.blksize = BlkBytes
           /\ CanSeek /\ ~source.seek_errors => ~seek_failed' /\ pc' # "SKIP"
           /\ do_src_fifo' => lru_size' = LruSize /\ kind \in {"pipe", "device"}
  BY DEF Stepping, Start, Cached, FifoSlot, CanSeek, kind, size, LruSize

\* The rest of the invariant but for what is about pipes and refusals.
Core == Placed /\ Stepping /\ BuffersTrue /\ AtHand /\ EndInv

LEMMA CoreInit == Init => Core
<1> SUFFICES ASSUME Init PROVE Core
  OBVIOUS
<1>0. 0 \in Slots
  BY CacheAssumption DEF Init, AllSources, Slots, LruSize
<1>1. /\ pc = "SET" /\ ret = "OK" /\ do_src_fifo = FALSE /\ seek_failed = FALSE
      /\ src.curblkno = Invalid /\ src.max_blkno = 0 /\ src.onlastblk = 0 /\ ~src.eof_known
      /\ lru_size = 1 /\ lru[0].blkno = Invalid /\ src.blksize = BlkBytes
  BY <1>0 DEF Init
<1>2. QED
  BY <1>1 DEF Core, Placed, Stepping, BuffersTrue, AtHand, EndInv, Alive

LEMMA SetSourceCore == TypeOK /\ Core /\ SetSource => Core'
<1> SUFFICES ASSUME TypeOK, Core, SetSource PROVE Core'
  OBVIOUS
<1>c. /\ BlkBytes \in Nat \ {0} /\ LruSize \in Nat \ {0} /\ size \in Nat
      /\ Slots = 0 .. LruSize - 1 /\ Invalid = MaxBlk + 1 /\ MaxBlk \in Nat
      /\ kind \in {"file", "pipe", "device", "app"}
  BY StateConstants
<1> DEFINE K == src'.blksize
<1>1. /\ pc = "SET" /\ pc' = "IDLE" /\ kind # "app"
      /\ UNCHANGED <<source, request, blru, ret, seek_failed>>
      /\ offset' = source_position'
      /\ src'.curblkno = 0 /\ src'.curblk = 0 /\ do_src_fifo' = ~src'.eof_known
      /\ kind = "file" => ~do_src_fifo'
  BY SetSourceProperties
<1>2. \/ /\ lru_size' = LruSize /\ LruSize * BlkBytes <= size
         /\ source_position' = LruSize * BlkBytes /\ K = BlkBytes
         /\ \A i \in Slots : lru'[i].blkno = i /\ lru'[i].from = i * BlkBytes
                             /\ lru'[i].size = BlkBytes
         /\ src'.onblk = BlkBytes
         /\ ~src'.eof_known => src'.max_blkno = LruSize - 1 /\ src'.onlastblk = BlkBytes
      \/ /\ lru_size' = 1 /\ src'.eof_known /\ source_position' = size
         /\ size <= K
         /\ lru'[0].blkno = 0 /\ lru'[0].from = 0 /\ lru'[0].size = size
         /\ src'.onblk = size
  BY SetSourceProperties
<1>3. src'.eof_known => src'.max_blkno = size \div K /\ src'.onlastblk = size % K
  BY SetSourceProperties
<1>4. K \in Nat \ {0} /\ src'.eof_known \in BOOLEAN
  <2>1. src' \in SrcType
    BY SetSourceProperties
  <2>2. QED
    BY <2>1 DEF SrcType
<1> HIDE DEF K
<1>5. Placed'
  <2>1. \/ source_position' >= size
        \/ \E k \in 0 .. source_position' : source_position' = k * K
    <3>1. CASE source_position' = LruSize * BlkBytes /\ K = BlkBytes
      <4>1. LruSize * K \in Nat /\ LruSize <= LruSize * K
        BY <1>c, <1>4
      <4>2. LruSize \in 0 .. source_position'
        BY <1>c, <3>1, <4>1
      <4>3. QED
        BY <3>1, <4>2
    <3>2. CASE source_position' = size
      BY <1>c, <3>2
    <3>3. QED
      BY <1>2, <3>1, <3>2
  <2>2. QED
    BY <1>1, <2>1, PrimedForms DEF K
<1>6. Stepping'
  <2>1. do_src_fifo' => lru_size' = LruSize
    BY <1>1, <1>2
  <2>2. do_src_fifo' => kind \in {"pipe", "device"}
    BY <1>c, <1>1
  <2>3. ret # "XD3_INVALID_INPUT" /\ (CanSeek /\ ~source.seek_errors => ~seek_failed)
    BY <1>1 DEF Core, Stepping
  <2>4. QED
    BY <1>1, <2>1, <2>2, <2>3, PrimedStepping
<1>7. BuffersTrue'
  <2>1. ASSUME NEW i \in 0 .. lru_size' - 1
        PROVE  lru'[i].from = lru'[i].blkno * K /\ lru'[i].size = BytesAt(lru'[i].blkno * K, K)
    <3>1. CASE lru_size' = LruSize /\ LruSize * BlkBytes <= size /\ K = BlkBytes
               /\ \A j \in Slots : lru'[j].blkno = j /\ lru'[j].from = j * BlkBytes
                                   /\ lru'[j].size = BlkBytes
      <4>1. i \in Slots /\ i \in Nat /\ i < LruSize
        BY <1>c, <3>1
      <4>2. i * K \in Nat /\ i * K + K <= LruSize * K
        BY <1>c, <1>4, <4>1, BlockStarts
      <4>3. i * K + K <= size
        BY <1>c, <1>4, <3>1, <4>2
      <4>4. BytesAt(i * K, K) = K
        BY <1>c, <1>4, <4>2, <4>3, BytesAtProperties
      <4>5. QED
        BY <3>1, <4>1, <4>4
    <3>2. CASE lru_size' = 1 /\ size <= K /\ lru'[0].blkno = 0 /\ lru'[0].from = 0 /\ lru'[0].size = size
      <4>1. i = 0
        BY <3>2
      <4>2. 0 * K = 0 /\ BytesAt(0, K) = size
        BY <1>c, <1>4, <3>2 DEF BytesAt, Smaller
      <4>3. QED
        BY <3>2, <4>1, <4>2
    <3>3. QED
      BY <1>2, <3>1, <3>2
  <2>2. QED
    BY <1>1, <2>1, PrimedForms DEF K
<1>8. AtHand'
  <2>1. lru'[0].from = 0 /\ 0 * K = 0 /\ src'.onblk = BytesAt(0, K)
    <3>1. 0 * K = 0 /\ 0 * BlkBytes = 0
      BY <1>c, <1>4
    <3>2. CASE LruSize * BlkBytes <= size /\ K = BlkBytes /\ src'.onblk = BlkBytes
               /\ \A j \in Slots : lru'[j].blkno = j /\ lru'[j].from = j * BlkBytes
                                   /\ lru'[j].size = BlkBytes
      <4>1. 0 \in Slots
        BY <1>c
      <4>2. 1 * BlkBytes <= LruSize * BlkBytes /\ LruSize * BlkBytes \in Nat
        BY <1>c, BlockStarts
      <4>3. BytesAt(0, K) = K
        BY <1>c, <1>4, <3>2, <4>2 DEF BytesAt, Smaller
      <4>4. QED
        BY <3>1, <3>2, <4>1, <4>3
    <3>3. CASE size <= K /\ lru'[0].from = 0 /\ src'.onblk = size
      BY <1>c, <1>4, <3>1, <3>3 DEF BytesAt, Smaller
    <3>4. QED
      BY <1>2, <3>2, <3>3
  <2>2. QED
    BY <1>1, <2>1, PrimedForms DEF K
<1>9. EndInv'
  <2>1. CASE src'.eof_known
    <3>1. /\ size \div K \in Nat /\ size % K \in 0 .. K - 1 /\ size = (size \div K) * K + (size % K)
      BY <1>c, <1>4, Division
    <3>2. (size \div K) * K \in Nat
      BY <1>4, <3>1, BlockStarts
    <3>3. /\ src'.max_blkno * K <= size /\ src'.max_blkno * K + src'.onlastblk = size
          /\ src'.onlastblk < K
      <4> DEFINE q == size \div K
                 r == size % K
      <4>1. src'.max_blkno = q /\ src'.onlastblk = r
        BY <1>3, <2>1
      <4>2. q * K \in Nat /\ r \in 0 .. K - 1 /\ size = q * K + r
        BY <3>1, <3>2
      <4> HIDE DEF q, r
      <4>3. QED
        BY <1>4, <4>1, <4>2
    <3>4. QED
      BY <1>1, <2>1, <3>3, PrimedForms DEF K
  <2>2. CASE ~src'.eof_known
    <3>1. /\ LruSize * BlkBytes <= size /\ K = BlkBytes
          /\ src'.max_blkno = LruSize - 1 /\ src'.onlastblk = BlkBytes
      BY <1>2, <2>2
    <3>2. (LruSize - 1) * K + K = LruSize * K /\ (LruSize - 1) * K \in Nat
      <4>1. LruSize - 1 \in Nat /\ (LruSize - 1) + 1 = LruSize
        BY <1>c
      <4>2. QED
        BY <1>4, <4>1, BlockStarts
    <3>3. src'.max_blkno * K <= size /\ src'.max_blkno * K + src'.onlastblk <= size
      BY <1>c, <1>4, <3>1, <3>2
    <3>4. QED
      BY <1>1, <2>2, <3>3, PrimedForms DEF K
  <2>3. QED
    BY <2>1, <2>2
<1>10. QED
  BY <1>5, <1>6, <1>7, <1>8, <1>9 DEF Core

\* The end of the source after block r was got.
LEMMA FoundEnd ==
  ASSUME TypeOK, EndInv, UNCHANGED source, pc # "SET", NEW r \in Nat, NEW o \in Nat,
         ~source.past_end => Start(r) <= size, o = BytesAt(Start(r), src.blksize),
         src' \in SrcType, src'.blksize = src.blksize,
         src'.max_blkno = IF r > src.max_blkno THEN r ELSE src.max_blkno,
         src'.onlastblk = IF r >= src.max_blkno THEN o ELSE src.onlastblk,
         src'.eof_known = (src.eof_known \/ (r > src.max_blkno /\ o # src.blksize))
  PROVE  EndInv'
<1> SUFFICES ASSUME ~source.past_end
             PROVE  /\ src'.max_blkno * src.blksize <= size
                    /\ IF src'.eof_known
                         THEN /\ src'.max_blkno * src.blksize + src'.onlastblk = size
                              /\ src'.onlastblk < src.blksize
                         ELSE src'.max_blkno * src.blksize + src'.onlastblk <= size
  BY PrimedForms
<1> DEFINE K == src.blksize
           m == src.max_blkno
           l == src.onlastblk
           e == src.eof_known
<1>1. K \in Nat \ {0} /\ m \in Nat /\ l \in Nat /\ e \in BOOLEAN /\ size \in Nat /\ src'.eof_known \in BOOLEAN
  BY StateConstants DEF SrcType
<1>2. m * K <= size /\ (e => m * K + l = size /\ l < K) /\ (~e => m * K + l <= size)
  BY <1>1 DEF EndInv, Eof, Start
<1>3. r * K \in Nat /\ r * K <= size /\ o = BytesAt(r * K, K)
  BY <1>1, BlockStarts DEF Start
<1>4. /\ src'.max_blkno = IF r > m THEN r ELSE m
      /\ src'.onlastblk = IF r >= m THEN o ELSE l
      /\ src'.eof_known = (e \/ (r > m /\ o # K))
  OBVIOUS
<1> DEFINE m2 == src'.max_blkno
           l2 == src'.onlastblk
           e2 == src'.eof_known
<1> HIDE DEF K, m, l, e
<1>5. r * K + o <= size /\ o <= K /\ (o # K => r * K + o = size)
  BY <1>1, <1>3 DEF BytesAt, Smaller
<1>t. e2 <=> (e \/ (r > m /\ o # K))
  BY <1>4
<1>u. m2 = (IF r > m THEN r ELSE m) /\ l2 = (IF r >= m THEN o ELSE l)
  BY <1>4
<1> HIDE DEF m2, l2, e2
<1>m. m * K \in Nat
  BY <1>1, BlockStarts
<1>6. m2 * K <= size /\ IF e2 THEN m2 * K + l2 = size /\ l2 < K ELSE m2 * K + l2 <= size
  <2>1. CASE r > m
    <3>1. m2 = r /\ l2 = o
      BY <1>1, <1>u, <2>1
    <3>2. m * K + K <= r * K
      BY <1>1, <2>1, BlockStarts
    <3>3. ~e
      BY <1>1, <1>2, <1>3, <1>m, <3>2
    <3>4. e2 <=> o # K
      BY <1>t, <2>1, <3>3
    <3>5. o # K => o < K
      BY <1>1, <1>5
    <3>6. QED
      BY <1>1, <1>3, <1>5, <3>1, <3>4, <3>5
  <2>2. CASE r = m
    <3>1. m2 = m /\ l2 = o /\ ~(r > m)
      BY <1>1, <1>u, <2>2
    <3>2. e2 <=> e
      BY <1>t, <3>1
    <3>3. e => o # K
      BY <1>1, <1>2, <1>m, <1>5, <2>2
    <3>4. QED
      BY <1>1, <1>2, <1>5, <2>2, <3>1, <3>2, <3>3
  <2>3. CASE r < m
    <3>1. m2 = m /\ l2 = l /\ ~(r > m)
      BY <1>1, <1>u, <2>3
    <3>2. e2 <=> e
      BY <1>t, <3>1
    <3>3. QED
      BY <1>2, <3>1, <3>2
  <2>4. QED
    BY <1>1, <2>1, <2>2, <2>3
<1>7. QED
  BY <1>6 DEF K, m2, l2, e2

\* The block at hand after it was returned.
LEMMA ReturnKeeps ==
  ASSUME TypeOK, EndInv, UNCHANGED source, pc # "SET", NEW b \in Slots, NEW onblk \in Nat,
         Return(b, onblk), onblk = BytesAt(Start(request), src.blksize),
         ~source.past_end => Start(request) <= size, lru'[b].from = Start(request)
  PROVE  AtHand' /\ EndInv' /\ src'.blksize = src.blksize /\ pc' = "IDLE" /\ ret' = "OK"
<1>1. /\ pc' = "IDLE" /\ ret' = "OK" /\ blru' = 0 /\ src' \in SrcType
      /\ src'.blksize = src.blksize /\ src'.curblkno = request /\ src'.curblk = b
      /\ src'.onblk = onblk
      /\ src'.max_blkno = IF request > src.max_blkno THEN request ELSE src.max_blkno
      /\ src'.onlastblk = IF request >= src.max_blkno THEN onblk ELSE src.onlastblk
      /\ src'.eof_known =
           (src.eof_known \/ (request > src.max_blkno /\ onblk # src.blksize))
  BY ReturnProperties
<1>2. Start(request) = request * src.blksize
  BY DEF Start
<1>3. AtHand'
  BY <1>1, <1>2, PrimedForms
<1>4. request \in Nat
  BY StateConstants DEF TypeOK
<1>5. EndInv'
  BY <1>1, <1>4, FoundEnd
<1>6. QED
  BY <1>1, <1>3, <1>5

\* The numbers of a state, once the source is set.
LEMMA StateFacts ==
  ASSUME TypeOK
  PROVE  /\ size \in Nat /\ src.blksize \in Nat \ {0} /\ MaxBlk \in Nat /\ request \in 0 .. MaxBlk
         /\ request \in Nat /\ Start(request) \in Nat /\ Start(request) = request * src.blksize
         /\ offset \in Nat /\ source_position \in Nat /\ LruSize \in Nat \ {0}
         /\ lru_size \in {1, LruSize} /\ Slots = 0 .. LruSize - 1 /\ blru \in Slots
         /\ Invalid = MaxBlk + 1 /\ do_src_fifo \in BOOLEAN /\ source.past_end \in BOOLEAN
<1>1. /\ size \in Nat /\ src.blksize \in Nat \ {0} /\ MaxBlk \in Nat /\ LruSize \in Nat \ {0}
      /\ Slots = 0 .. LruSize - 1 /\ Invalid = MaxBlk + 1 /\ source.past_end \in BOOLEAN
  BY StateConstants DEF SrcType
<1>2. /\ request \in 0 .. MaxBlk /\ offset \in Nat /\ source_position \in Nat
      /\ lru_size \in {1, LruSize} /\ blru \in Slots /\ do_src_fifo \in BOOLEAN
  BY DEF TypeOK
<1>3. request \in Nat /\ Start(request) = request * src.blksize
  BY <1>1, <1>2 DEF Start
<1>4. Start(request) \in Nat
  BY <1>1, <1>3, BlockStarts
<1>5. QED
  BY <1>1, <1>2, <1>3, <1>4

LEMMA AppSetSourceCore == TypeOK /\ Core /\ AppSetSource => Core'
<1> SUFFICES ASSUME TypeOK, Core, AppSetSource PROVE Core'
  OBVIOUS
<1>c. BlkBytes \in Nat \ {0} /\ src \in SrcType /\ size \in Nat
  BY StateConstants
<1>1. /\ pc = "SET" /\ kind = "app" /\ pc' = "IDLE" /\ src' = [src EXCEPT !.blksize = BlkBytes]
      /\ UNCHANGED <<source, ret, lru, lru_size, do_src_fifo>>
  BY DEF AppSetSource, osVars, setVars
<1>2. /\ src.curblkno = Invalid /\ src.max_blkno = 0 /\ src.onlastblk = 0 /\ ~src.eof_known
      /\ lru_size = 1 /\ lru[0].blkno = Invalid /\ ~do_src_fifo /\ ret # "XD3_TOOFARBACK"
  BY <1>1 DEF Core, Stepping
<1>3. /\ src'.curblkno = Invalid /\ src'.max_blkno = 0 /\ src'.onlastblk = 0 /\ ~src'.eof_known
      /\ src'.blksize = BlkBytes
  BY <1>c, <1>1, <1>2 DEF SrcType
<1>4. Placed' /\ AtHand'
  BY <1>1, <1>3, PrimedForms
<1>5. BuffersTrue'
  <2>1. \A i \in 0 .. lru_size' - 1 : lru'[i].blkno = Invalid
    BY <1>1, <1>2
  <2>2. QED
    BY <1>1, <2>1, PrimedForms
<1>6. EndInv'
  <2>1. 0 * BlkBytes = 0 /\ 0 <= size
    BY <1>c
  <2>2. QED
    BY <1>1, <1>3, <2>1, PrimedForms
<1>7. Stepping'
  BY <1>1, <1>2, PrimedStepping DEF CanSeek
<1>8. QED
  BY <1>4, <1>5, <1>6, <1>7 DEF Core

\* Buffers that stay as they are.
LEMMA SameBuffers ==
  ASSUME BuffersTrue, UNCHANGED <<source, lru, lru_size>>, src'.blksize = src.blksize, Alive
  PROVE  BuffersTrue'
  BY PrimedForms DEF BuffersTrue, Start

LEMMA SameEnd ==
  ASSUME EndInv, UNCHANGED <<source, src>>, pc # "SET"
  PROVE  EndInv'
  BY PrimedForms DEF EndInv, Eof, Start

LEMMA RequestCore ==
  ASSUME TypeOK, Core, NEW blkno \in 0 .. MaxBlk, Request(blkno)
  PROVE  Core'
<1>c. /\ size \in Nat /\ src \in SrcType /\ MaxBlk \in Nat /\ Invalid = MaxBlk + 1 /\ blkno \in Nat
      /\ source.past_end \in BOOLEAN
  BY StateConstants
<1>1. /\ pc = "IDLE" /\ ret # "XD3_INVALID_INPUT" /\ Reachable(blkno) /\ request' = blkno
      /\ UNCHANGED <<source, offset, lru, lru_size, do_src_fifo, source_position, seek_failed>>
      /\ \/ pc' = "IDLE" /\ ret' = "OK" /\ src' = GotBlock(src, blkno) /\ blkno = src.curblkno
         \/ pc' = "LOOKUP" /\ ret' = ret /\ src' = src
  BY DEF Request, osVars, setVars, fileVars
<1>2. Alive
  BY <1>1 DEF Alive
<1>3. /\ src'.blksize = src.blksize /\ src'.curblkno = src.curblkno /\ src'.curblk = src.curblk
      /\ src'.onblk = src.onblk
  BY <1>c, <1>1, GotBlockProperties
<1>4. ~source.past_end => Start(blkno) <= size
  BY <1>1 DEF Reachable
<1>5. BuffersTrue'
  BY <1>1, <1>2, <1>3, SameBuffers DEF Core
<1>6. AtHand'
  BY <1>1, <1>2, <1>3, PrimedForms DEF Core, AtHand, Start
<1>7. Placed'
  BY <1>1, <1>2, <1>3, PrimedForms DEF Core, Placed, Start
<1>8. EndInv'
  <2>1. CASE src' = src
    BY <1>1, <2>1, SameEnd DEF Core
  <2>2. CASE src' = GotBlock(src, blkno) /\ blkno = src.curblkno
    <3>1. src.onblk = BytesAt(Start(blkno), src.blksize) /\ src.onblk \in Nat
      BY <1>c, <1>1, <1>2, <2>2 DEF Core, AtHand, SrcType
    <3>2. /\ src' \in SrcType
          /\ src'.max_blkno = IF blkno > src.max_blkno THEN blkno ELSE src.max_blkno
          /\ src'.onlastblk = IF blkno >= src.max_blkno THEN src.onblk ELSE src.onlastblk
          /\ src'.eof_known =
               (src.eof_known \/ (blkno > src.max_blkno /\ src.onblk # src.blksize))
      BY <1>c, <2>2, GotBlockProperties
    <3>3. QED
      BY <1>c, <1>1, <1>3, <1>4, <3>1, <3>2, FoundEnd DEF Core
  <2>3. QED
    BY <1>1, <2>1, <2>2
<1>9. Stepping'
  <2>1. ~source.past_end => blkno * src'.blksize <= size
    BY <1>3, <1>4 DEF Start
  <2>2. CASE pc' = "IDLE"
    BY <1>1, <1>3, <2>1, <2>2, PrimedStepping DEF Core, Stepping
  <2>3. CASE pc' = "LOOKUP"
    BY <1>1, <1>3, <2>1, <2>3, PrimedStepping DEF Core, Stepping
  <2>4. QED
    BY <1>1, <2>2, <2>3
<1>10. QED
  BY <1>5, <1>6, <1>7, <1>8, <1>9 DEF Core

LEMMA AppGetblkCore == TypeOK /\ Core /\ AppGetblk => Core'
<1> SUFFICES ASSUME TypeOK, Core, AppGetblk PROVE Core'
  OBVIOUS
<1>c. /\ size \in Nat /\ src.blksize \in Nat \ {0} /\ MaxBlk \in Nat /\ request \in Nat
      /\ Start(request) \in Nat /\ 0 \in Slots /\ Start(request) = request * src.blksize
  BY StateFacts
<1>l. lru \in LruType
  BY StateConstants
<1> DEFINE o == BytesAt(Start(request), BlkBytes)
<1>1. /\ pc = "LOOKUP" /\ kind = "app"
      /\ lru' = [lru EXCEPT ![0] = [blkno |-> request, from |-> Start(request), size |-> o]]
      /\ Return(0, lru'[0].size)
      /\ UNCHANGED <<source, lru_size, do_src_fifo, seek_failed>>
  BY DEF AppGetblk, osVars, setVars, fileVars
<1>2. src.blksize = BlkBytes /\ ret # "XD3_INVALID_INPUT" /\ (~source.past_end => Start(request) <= size)
  BY <1>1 DEF Core, Stepping
<1>3. o = BytesAt(Start(request), src.blksize) /\ o \in Nat
  <2>1. BytesAt(Start(request), BlkBytes) \in 0 .. BlkBytes
    BY <1>c, <1>2, BytesAtProperties
  <2>2. QED
    BY <1>c, <1>2, <2>1
<1> HIDE DEF o
<1>4. /\ lru'[0].blkno = request /\ lru'[0].from = Start(request) /\ lru'[0].size = o
      /\ \A i \in Slots : i # 0 => lru'[i] = lru[i]
  BY <1>c, <1>l, <1>1 DEF LruType
<1>5. AtHand' /\ EndInv' /\ src'.blksize = src.blksize /\ pc' = "IDLE" /\ ret' = "OK"
  BY <1>c, <1>1, <1>2, <1>3, <1>4, ReturnKeeps DEF Core
<1>6. BuffersTrue'
  <2>1. \A i \in 0 .. lru_size - 1 : i \in Slots
    BY StateFacts
  <2>2. ASSUME NEW i \in 0 .. lru_size - 1, lru'[i].blkno # Invalid
        PROVE  /\ lru'[i].from = lru'[i].blkno * src.blksize
               /\ lru'[i].size = BytesAt(lru'[i].blkno * src.blksize, src.blksize)
    <3>1. CASE i = 0
      BY <1>c, <1>3, <1>4, <3>1
    <3>2. CASE i # 0
      <4>1. lru'[i] = lru[i]
        BY <1>4, <2>1, <3>2
      <4>2. Alive
        BY <1>1, <1>2 DEF Alive
      <4>3. QED
        BY <2>2, <4>1, <4>2 DEF Core, BuffersTrue, Start
    <3>3. QED
      BY <3>1, <3>2
  <2>3. QED
    BY <1>1, <1>5, <2>2, PrimedForms
<1>7. Placed'
  BY <1>1, PrimedForms
<1>8. Stepping'
  BY <1>1, <1>2, <1>5, PrimedStepping DEF Core, Stepping, CanSeek
<1>9. QED
  BY <1>5, <1>6, <1>7, <1>8 DEF Core

LEMMA HitCore == TypeOK /\ Core /\ Hit => Core'
<1> SUFFICES ASSUME TypeOK, Core, Hit PROVE Core'
  OBVIOUS
<1>c. /\ size \in Nat /\ src.blksize \in Nat \ {0} /\ MaxBlk \in Nat /\ request \in 0 .. MaxBlk
      /\ Invalid = MaxBlk + 1
  BY StateFacts
<1>1. PICK i \in Cached(request) :
        /\ pc = "LOOKUP" /\ kind # "app"
        /\ Return(i, lru[i].size)
        /\ UNCHANGED <<source, offset, lru, lru_size, do_src_fifo, source_position, seek_failed>>
  BY DEF Hit, LookingUp, osVars, setVars, fileVars
<1>2. /\ ret # "XD3_INVALID_INPUT" /\ (~source.past_end => Start(request) <= size)
      /\ (do_src_fifo => lru_size = LruSize) /\ Alive
  BY <1>1 DEF Core, Stepping, Alive
<1>3. /\ i \in 0 .. lru_size - 1 /\ i \in Slots /\ lru[i].blkno = request
  <2>1. request \in Nat
    BY <1>c
  <2>2. Cached(request) \subseteq 0 .. lru_size - 1 /\ 0 .. lru_size - 1 \subseteq Slots
    BY <1>1, <1>2, <2>1, ChosenBuffer
  <2>3. QED
    BY <1>1, <2>2 DEF Cached
<1>4. lru[i].from = Start(request) /\ lru[i].size = BytesAt(Start(request), src.blksize)
  <2>1. request # Invalid
    BY <1>c
  <2>2. QED
    BY <1>2, <1>3, <2>1 DEF Core, BuffersTrue
<1>5. lru[i].size \in Nat
  <2>1. lru \in LruType
    BY StateConstants
  <2>2. QED
    BY <1>3, <2>1 DEF LruType
<1>6. lru'[i].from = Start(request)
  BY <1>1, <1>4
<1>7. AtHand' /\ EndInv' /\ src'.blksize = src.blksize /\ pc' = "IDLE" /\ ret' = "OK"
  BY <1>1, <1>2, <1>3, <1>4, <1>5, <1>6, ReturnKeeps DEF Core
<1>8. BuffersTrue'
  BY <1>1, <1>2, <1>7, SameBuffers DEF Core
<1>9. Placed'
  BY <1>1, <1>2, <1>7, PrimedForms DEF Core, Placed, Start
<1>10. Stepping'
  BY <1>1, <1>2, <1>7, PrimedStepping DEF Core, Stepping
<1>11. QED
  BY <1>7, <1>8, <1>9, <1>10 DEF Core

LEMMA TooFarBackCore == TypeOK /\ Core /\ TooFarBack => Core'
<1> SUFFICES ASSUME TypeOK, Core, TooFarBack PROVE Core'
  OBVIOUS
<1>1. /\ pc = "LOOKUP" /\ kind # "app" /\ pc' = "IDLE" /\ ret' = "XD3_TOOFARBACK"
      /\ UNCHANGED <<source, offset, lru, lru_size, do_src_fifo, source_position, seek_failed, src>>
  BY DEF TooFarBack, LookingUp, Fail, osVars, setVars, fileVars
<1>2. Alive
  BY <1>1 DEF Core, Stepping, Alive
<1>3. BuffersTrue' /\ EndInv'
  BY <1>1, <1>2, SameBuffers, SameEnd DEF Core
<1>4. AtHand' /\ Placed'
  BY <1>1, <1>2, PrimedForms DEF Core, AtHand, Placed, Start
<1>5. Stepping'
  BY <1>1, PrimedStepping DEF Core, Stepping
<1>6. QED
  BY <1>3, <1>4, <1>5 DEF Core

LEMMA MissCore == TypeOK /\ Core /\ Miss => Core'
<1> SUFFICES ASSUME TypeOK, Core, Miss PROVE Core'
  OBVIOUS
<1>c. /\ size \in Nat /\ src.blksize \in Nat \ {0} /\ MaxBlk \in Nat /\ request \in 0 .. MaxBlk
      /\ Invalid = MaxBlk + 1 /\ Start(request) = request * src.blksize
  BY StateFacts
<1>l. lru \in LruType /\ src \in SrcType
  BY StateConstants
<1> DEFINE b == Victim(request)
<1>1. /\ pc = "LOOKUP" /\ kind # "app" /\ Cached(request) = {}
      /\ lru' = [lru EXCEPT ![b].blkno = Invalid]
      /\ pc' = IF Start(request) = source_position THEN "READ" ELSE "SEEK"
      /\ UNCHANGED <<source, offset, request, ret, lru_size, do_src_fifo>>
      /\ UNCHANGED <<source_position, seek_failed, src>>
  BY DEF Miss, LookingUp, osVars, setVars, fileVars
<1>2. /\ ret # "XD3_INVALID_INPUT" /\ (~source.past_end => Start(request) <= size)
      /\ (do_src_fifo => lru_size = LruSize) /\ Alive
  BY <1>1 DEF Core, Stepping, Alive
<1>3. b \in 0 .. lru_size - 1 /\ 0 .. lru_size - 1 \subseteq Slots
  <2>1. request \in Nat
    BY <1>c
  <2>2. QED
    BY <1>1, <1>2, <2>1, ChosenBuffer
<1> HIDE DEF b
<1>4. /\ lru'[b].blkno = Invalid
      /\ \A i \in Slots : lru'[i].from = lru[i].from /\ lru'[i].size = lru[i].size
      /\ \A i \in Slots : i # b => lru'[i].blkno = lru[i].blkno
  BY <1>l, <1>1, <1>3 DEF LruType
<1>5. BuffersTrue'
  <2>1. ASSUME NEW i \in 0 .. lru_size - 1, lru'[i].blkno # Invalid
        PROVE  /\ lru'[i].from = lru'[i].blkno * src.blksize
               /\ lru'[i].size = BytesAt(lru'[i].blkno * src.blksize, src.blksize)
    <3>1. i \in Slots /\ i # b
      BY <1>3, <1>4, <2>1
    <3>2. lru'[i].blkno = lru[i].blkno /\ lru'[i].from = lru[i].from /\ lru'[i].size = lru[i].size
      BY <1>4, <3>1
    <3>3. QED
      BY <1>2, <2>1, <3>2 DEF Core, BuffersTrue, Start
  <2>2. QED
    BY <1>1, <2>1, PrimedForms
<1>6. AtHand'
  <2>1. src.curblk \in Slots
    BY <1>l DEF SrcType
  <2>2. lru'[src.curblk].from = lru[src.curblk].from
    BY <1>4, <2>1
  <2>3. QED
    BY <1>1, <1>2, <2>2, PrimedForms DEF Core, AtHand, Start
<1>7. Placed'
  BY <1>1, <1>2, PrimedForms DEF Core, Placed, Start
<1>8. EndInv'
  BY <1>1, SameEnd DEF Core
<1>9. Stepping'
  <2>1. ASSUME NEW i \in 0 .. lru_size - 1, lru'[i].blkno = request, do_src_fifo => i = request % lru_size
        PROVE  FALSE
    <3>1. i # b
      BY <1>c, <1>4, <2>1
    <3>2. lru[i].blkno = request
      BY <1>3, <1>4, <2>1, <3>1
    <3>3. i \in Cached(request)
      BY <2>1, <3>2 DEF Cached, FifoSlot
    <3>4. QED
      BY <1>1, <3>3
  <2>2. {i \in 0 .. lru_size' - 1 :
             /\ lru'[i].blkno = request'
             /\ do_src_fifo' => i = request' % lru_size'} = {}
    BY <1>1, <2>1
  <2>3. pc' = "READ" => source_position' = request' * src'.blksize
    BY <1>c, <1>1
  <2>4. pc' # "SKIP" /\ pc' # "SET"
    BY <1>1
  <2>5. ~source.past_end => request' * src'.blksize <= size
    BY <1>c, <1>1, <1>2
  <2>6. QED
    BY <1>1, <1>2, <2>2, <2>3, <2>4, <2>5, PrimedStepping DEF Core, Stepping
<1>10. QED
  BY <1>5, <1>6, <1>7, <1>8, <1>9 DEF Core

LEMMA SeekCore == TypeOK /\ Core /\ Seek => Core'
<1> SUFFICES ASSUME TypeOK, Core, Seek PROVE Core'
  OBVIOUS
<1>c. /\ Start(request) = request * src.blksize /\ Start(request) \in Nat
      /\ request \in Nat /\ src.blksize \in Nat \ {0}
  BY StateFacts
<1>1. /\ pc = "SEEK" /\ pc' = "READ" /\ offset' = Start(request) /\ source_position' = Start(request)
      /\ UNCHANGED <<source, request, ret, lru, lru_size, do_src_fifo, seek_failed, src>>
  BY DEF Seek, setVars
<1>2. Alive /\ (~source.past_end => Start(request) <= size)
  BY <1>1 DEF Core, Stepping, Alive
<1>3. BuffersTrue' /\ EndInv'
  BY <1>1, <1>2, SameBuffers, SameEnd DEF Core
<1>4. AtHand'
  BY <1>1, PrimedForms
<1>5. Placed'
  <2>1. request <= request * src.blksize
    BY <1>c
  <2>2. request \in 0 .. Start(request)
    BY <1>c, <2>1
  <2>3. QED
    BY <1>c, <1>1, <2>2, PrimedForms
<1>6. Stepping'
  BY <1>c, <1>1, <1>2, PrimedStepping DEF Core, Stepping
<1>7. QED
  BY <1>3, <1>4, <1>5, <1>6 DEF Core

LEMMA SeekFailsCore == TypeOK /\ Core /\ SeekFails => Core'
<1> SUFFICES ASSUME TypeOK, Core, SeekFails PROVE Core'
  OBVIOUS
<1>c. /\ Start(request) = request * src.blksize /\ Start(request) \in Nat /\ source_position \in Nat
  BY StateFacts
<1>1. /\ pc = "SEEK" /\ (seek_failed \/ ~CanSeek \/ source.seek_errors)
      /\ \/ pc' = "IDLE" /\ ret' = "XD3_TOOFARBACK"
         \/ pc' = "SKIP" /\ ret' = ret /\ ~(source_position > Start(request))
      /\ UNCHANGED <<source, offset, request, lru, lru_size, do_src_fifo, source_position, src>>
  BY DEF SeekFails, Fail, osVars, setVars
<1>2. Alive /\ kind # "app" /\ (~source.past_end => Start(request) <= size) /\ ~(CanSeek /\ ~source.seek_errors)
  BY <1>1 DEF Core, Stepping, Alive
<1>3. BuffersTrue' /\ EndInv'
  BY <1>1, <1>2, SameBuffers, SameEnd DEF Core
<1>4. AtHand' /\ Placed'
  BY <1>1, <1>2, PrimedForms DEF Core, AtHand, Placed, Start
<1>5. Stepping'
  <2>1. pc' = "SKIP" => source_position' <= request' * src'.blksize
    BY <1>c, <1>1
  <2>2. QED
    BY <1>c, <1>1, <1>2, <2>1, PrimedStepping DEF Core, Stepping
<1>6. QED
  BY <1>3, <1>4, <1>5 DEF Core

\* A step that reads past a block: the block is read whole and one is left to read,
\* or the program ends.
LEMMA SkipProperties ==
  ASSUME TypeOK, Placed, Stepping, Skip
  PROVE  /\ pc = "SKIP" /\ kind # "app" /\ Alive
         /\ UNCHANGED <<source, request, lru_size, do_src_fifo, seek_failed, src>>
         /\ \/ pc' = "IDLE" /\ ret' = "XD3_INVALID_INPUT"
            \/ /\ UNCHANGED <<pc, ret, blru>>
               /\ SkipBlkno \in Nat /\ SkipBlkno < request
               /\ source_position = SkipBlkno * src.blksize
               /\ offset' = source_position' /\ source_position' = (SkipBlkno + 1) * src.blksize
               /\ source_position' <= Start(request) /\ source_position' <= size
               /\ SkipBlkno + 1 \in 0 .. source_position'
               /\ \E b \in 0 .. lru_size - 1 :
                    /\ b \in Slots
                    /\ lru'[b].blkno = SkipBlkno /\ lru'[b].from = source_position
                    /\ lru'[b].size = BytesAt(source_position, src.blksize)
                    /\ \A i \in Slots : i # b => lru'[i] = lru[i]
                    /\ IF Cached(SkipBlkno) # {} THEN b \in Cached(SkipBlkno) ELSE b = Victim(SkipBlkno)
<1> DEFINE K == src.blksize
           q == SkipBlkno
           b == IF Cached(q) # {} THEN CHOOSE j \in Cached(q) : TRUE ELSE Victim(q)
           nread == BytesAt(offset, K)
           full  == nread = K
<1>c. /\ size \in Nat /\ K \in Nat \ {0} /\ request \in Nat /\ MaxBlk \in Nat
      /\ Start(request) = request * K /\ offset \in Nat /\ source_position \in Nat
      /\ Start(request) \in Nat
  BY StateFacts
<1>l. lru \in LruType
  BY StateConstants
<1>1. /\ pc = "SKIP" /\ source_position < Start(request)
      /\ lru' = [lru EXCEPT ![b].blkno = q, ![b].from  = offset,
                            ![b].size  = IF full THEN nread ELSE @]
      /\ offset' = offset + nread
      /\ IF full THEN source_position' = source_position + nread /\ UNCHANGED <<pc, ret, blru>>
                 ELSE pc' = "IDLE" /\ ret' = "XD3_INVALID_INPUT"
      /\ UNCHANGED <<source, request, lru_size, do_src_fifo, seek_failed, src>>
  BY DEF Skip, Fail, setVars
<1>2. kind # "app" /\ Alive /\ (do_src_fifo => lru_size = LruSize)
  BY <1>1 DEF Stepping, Alive
<1>3. /\ offset = source_position
      /\ source_position >= size \/ \E k \in 0 .. source_position : source_position = Start(k)
  BY <1>2 DEF Placed
<1>4. nread \in 0 .. K /\ (source_position >= size => nread = 0) /\ (nread # 0 => offset + nread <= size)
  BY <1>c, <1>3, BytesAtProperties
<1>5. CASE ~full
  BY <1>1, <1>2, <1>5
<1>6. CASE full
  <2>1. nread = K /\ ~(source_position >= size) /\ offset + K <= size
    BY <1>c, <1>4, <1>6
  <2>2. PICK k \in 0 .. source_position : source_position = Start(k)
    BY <1>3, <2>1
  <2>3. k \in Nat /\ source_position = k * K
    BY <1>c, <2>2 DEF Start
  <2>4. q = k
    <3>1. q = source_position \div K
      BY DEF SkipBlkno
    <3>2. (k * K) \div K = k
      BY <1>c, <2>3, BlockStarts
    <3>3. QED
      BY <2>3, <3>1, <3>2
  <2>5. b \in 0 .. lru_size - 1 /\ b \in Slots
        /\ IF Cached(q) # {} THEN b \in Cached(q) ELSE b = Victim(q)
    <3>1. q \in Nat
      BY <2>3, <2>4
    <3>2. /\ Cached(q) \subseteq 0 .. lru_size - 1 /\ Victim(q) \in 0 .. lru_size - 1
          /\ 0 .. lru_size - 1 \subseteq Slots
      BY <1>1, <1>2, <3>1, ChosenBuffer
    <3> HIDE DEF q
    <3>3. QED
      BY <3>2
  <2> HIDE DEF K, q, b, nread, full
  <2>6. (k + 1) * K = k * K + K
    BY <1>c, <2>3, BlockStarts
  <2>7. k < request /\ k * K + K <= request * K
    <3>1. request <= k => request * K <= k * K
      BY <1>c, <2>3, BlockStarts
    <3>2. k < request => k * K + K <= request * K
      BY <1>c, <2>3, BlockStarts
    <3>3. ~(request * K <= k * K)
      BY <1>c, <1>1, <2>3
    <3>4. QED
      BY <1>c, <2>3, <3>1, <3>2, <3>3
  <2>8. k + 1 <= (k + 1) * K
    BY <1>c, <2>3
  <2>9. /\ offset' = source_position' /\ source_position' = (k + 1) * K
        /\ source_position' <= Start(request) /\ source_position' <= size
        /\ k + 1 \in 0 .. source_position'
    <3>1. offset' = source_position + K /\ source_position' = source_position + K
      BY <1>1, <1>3, <1>6, <2>1
    <3>2. QED
      BY <1>c, <1>3, <2>1, <2>3, <2>6, <2>7, <2>8, <3>1
  <2>10. /\ lru'[b].blkno = q /\ lru'[b].from = source_position
         /\ lru'[b].size = nread
         /\ \A i \in Slots : i # b => lru'[i] = lru[i]
    BY <1>l, <1>1, <1>3, <1>6, <2>5 DEF LruType
  <2>11. nread = BytesAt(source_position, K)
    BY <1>3 DEF nread
  <2>12. UNCHANGED <<pc, ret, blru>>
    BY <1>1, <1>6
  <2>13. QED
    BY <1>1, <1>2, <2>3, <2>4, <2>5, <2>7, <2>9, <2>10, <2>11, <2>12 DEF K, q
<1>7. QED
  BY <1>5, <1>6

LEMMA SkipCore == TypeOK /\ Core /\ Skip => Core'
<1> SUFFICES ASSUME TypeOK, Core, Skip PROVE Core'
  OBVIOUS
<1>c. size \in Nat /\ src.blksize \in Nat \ {0} /\ Start(request) = request * src.blksize
  BY StateFacts
<1>1. /\ pc = "SKIP" /\ kind # "app" /\ Alive
      /\ UNCHANGED <<source, request, lru_size, do_src_fifo, seek_failed, src>>
  BY SkipProperties DEF Core
<1>2. EndInv'
  BY <1>1, SameEnd DEF Core
<1>3. CASE pc' = "IDLE" /\ ret' = "XD3_INVALID_INPUT"
  <2>1. Placed' /\ BuffersTrue' /\ AtHand'
    BY <1>1, <1>3, PrimedForms
  <2>2. Stepping'
    BY <1>1, <1>3, PrimedStepping DEF Core, Stepping
  <2>3. QED
    BY <1>2, <2>1, <2>2 DEF Core
<1>4. CASE pc' = pc
  <2>1. /\ SkipBlkno \in Nat
        /\ UNCHANGED <<pc, ret>> /\ source_position = SkipBlkno * src.blksize
        /\ offset' = source_position' /\ source_position' = (SkipBlkno + 1) * src.blksize
        /\ source_position' <= Start(request) /\ SkipBlkno + 1 \in 0 .. source_position'
    BY <1>1, <1>4, SkipProperties DEF Core
  <2>2. PICK b \in 0 .. lru_size - 1 :
          /\ lru'[b].blkno = SkipBlkno /\ lru'[b].from = source_position
          /\ lru'[b].size = BytesAt(source_position, src.blksize)
          /\ \A i \in Slots : i # b => lru'[i] = lru[i]
    BY <1>1, <1>4, SkipProperties DEF Core
  <2>3. Placed' /\ AtHand'
    BY <1>1, <2>1, PrimedForms
  <2>4. BuffersTrue'
    <3>1. 0 .. lru_size - 1 \subseteq Slots
      BY <1>1, <2>1, ChosenBuffer DEF Core, Stepping
    <3>2. ASSUME NEW i \in 0 .. lru_size - 1, lru'[i].blkno # Invalid
          PROVE  /\ lru'[i].from = lru'[i].blkno * src.blksize
                 /\ lru'[i].size = BytesAt(lru'[i].blkno * src.blksize, src.blksize)
      <4>1. CASE i = b
        BY <2>1, <2>2, <4>1
      <4>2. CASE i # b
        <5>1. lru'[i] = lru[i]
          BY <2>2, <3>1, <4>2
        <5>2. QED
          BY <1>1, <3>2, <5>1 DEF Core, BuffersTrue, Start
      <4>3. QED
        BY <4>1, <4>2
    <3>3. QED
      BY <1>1, <3>2, PrimedForms
  <2>5. Stepping'
    BY <1>c, <1>1, <2>1, PrimedStepping DEF Core, Stepping
  <2>6. QED
    BY <1>2, <2>3, <2>4, <2>5 DEF Core
<1>5. QED
  BY <1>3, <1>4, SkipProperties DEF Core

LEMMA EndSkipCore == TypeOK /\ Core /\ EndSkip => Core'
<1> SUFFICES ASSUME TypeOK, Core, EndSkip PROVE Core'
  OBVIOUS
<1>c. /\ Start(request) = request * src.blksize /\ Start(request) \in Nat /\ source_position \in Nat
  BY StateFacts
<1>1. /\ pc = "SKIP" /\ pc' = "READ" /\ source_position >= Start(request)
      /\ UNCHANGED <<source, offset, request, ret, lru, lru_size, do_src_fifo>>
      /\ UNCHANGED <<source_position, seek_failed, src>>
  BY DEF EndSkip, osVars, setVars, fileVars
<1>2. Alive /\ source_position = Start(request)
  BY <1>c, <1>1 DEF Core, Stepping, Alive
<1>3. BuffersTrue' /\ EndInv'
  BY <1>1, <1>2, SameBuffers, SameEnd DEF Core
<1>4. AtHand' /\ Placed'
  BY <1>1, <1>2, PrimedForms DEF Core, Placed, Start
<1>5. Stepping'
  BY <1>c, <1>1, <1>2, PrimedStepping DEF Core, Stepping
<1>6. QED
  BY <1>3, <1>4, <1>5 DEF Core

\* The block that is requested is read into the buffer that was chosen for it.
LEMMA ReadProperties ==
  ASSUME TypeOK, Placed, Stepping, Read
  PROVE  \E nread \in 0 .. src.blksize :
           /\ pc = "READ" /\ kind # "app" /\ Alive /\ blru \in Slots
           /\ offset = Start(request) /\ source_position = Start(request)
           /\ nread = BytesAt(Start(request), src.blksize)
           /\ offset' = source_position' /\ source_position' = Start(request) + nread
           /\ Return(blru, nread)
           /\ lru'[blru].blkno = request /\ lru'[blru].from = Start(request)
           /\ lru'[blru].size = nread
           /\ \A i \in Slots : i # blru => lru'[i] = lru[i]
           /\ UNCHANGED <<source, request, lru_size, do_src_fifo, seek_failed>>
<1> DEFINE nread == BytesAt(offset, src.blksize)
<1>c. /\ size \in Nat /\ src.blksize \in Nat \ {0} /\ Start(request) \in Nat /\ blru \in Slots
      /\ request \in 0 .. MaxBlk
  BY StateFacts
<1>l. lru \in LruType
  BY StateConstants
<1>1. /\ pc = "READ"
      /\ lru' = [lru EXCEPT ![blru] = [blkno |-> request, from |-> offset, size |-> nread]]
      /\ offset' = offset + nread /\ source_position' = Start(request) + nread
      /\ Return(blru, nread)
      /\ UNCHANGED <<source, request, lru_size, do_src_fifo, seek_failed>>
  BY DEF Read, setVars
<1>2. kind # "app" /\ Alive /\ source_position = Start(request) /\ offset = Start(request)
  BY <1>1 DEF Stepping, Alive, Placed
<1>3. nread \in 0 .. src.blksize
  BY <1>c, <1>2, BytesAtProperties
<1>4. nread = BytesAt(Start(request), src.blksize)
  BY <1>2
<1> HIDE DEF nread
<1>5. /\ lru'[blru].blkno = request /\ lru'[blru].from = Start(request)
      /\ lru'[blru].size = nread
      /\ \A i \in Slots : i # blru => lru'[i] = lru[i]
  BY <1>c, <1>l, <1>1, <1>2 DEF LruType
<1>6. offset' = source_position' /\ source_position' = Start(request) + nread
  BY <1>1, <1>2
<1>7. QED
  BY <1>c, <1>1, <1>2, <1>3, <1>4, <1>5, <1>6

LEMMA ReadCore == TypeOK /\ Core /\ Read => Core'
<1> SUFFICES ASSUME TypeOK, Core, Read PROVE Core'
  OBVIOUS
<1>c. /\ size \in Nat /\ src.blksize \in Nat \ {0} /\ Start(request) \in Nat
      /\ Start(request) = request * src.blksize /\ request \in Nat
  BY StateFacts
<1>1. PICK nread \in 0 .. src.blksize :
        /\ pc = "READ" /\ kind # "app" /\ Alive /\ blru \in Slots
        /\ nread = BytesAt(Start(request), src.blksize)
        /\ offset' = source_position' /\ source_position' = Start(request) + nread
        /\ Return(blru, nread)
        /\ lru'[blru].blkno = request /\ lru'[blru].from = Start(request)
        /\ lru'[blru].size = nread
        /\ \A i \in Slots : i # blru => lru'[i] = lru[i]
        /\ UNCHANGED <<source, request, lru_size, do_src_fifo, seek_failed>>
  BY ReadProperties DEF Core
<1>2. nread \in Nat /\ (~source.past_end => Start(request) <= size)
  BY <1>c, <1>1 DEF Core, Stepping
<1>3. AtHand' /\ EndInv' /\ src'.blksize = src.blksize /\ pc' = "IDLE" /\ ret' = "OK"
  BY <1>1, <1>2, ReturnKeeps DEF Core
<1>4. BuffersTrue'
  <2>1. \A i \in 0 .. lru_size - 1 : i \in Slots
    BY StateFacts
  <2>2. ASSUME NEW i \in 0 .. lru_size - 1, lru'[i].blkno # Invalid
        PROVE  /\ lru'[i].from = lru'[i].blkno * src.blksize
               /\ lru'[i].size = BytesAt(lru'[i].blkno * src.blksize, src.blksize)
    <3>1. CASE i = blru
      BY <1>c, <1>1, <3>1
    <3>2. CASE i # blru
      <4>1. lru'[i] = lru[i]
        BY <1>1, <2>1, <3>2
      <4>2. QED
        BY <1>1, <2>2, <4>1 DEF Core, BuffersTrue, Start
    <3>3. QED
      BY <3>1, <3>2
  <2>3. QED
    BY <1>1, <1>3, <2>2, PrimedForms
<1>5. Placed'
  <2>1. CASE nread = src.blksize
    <3>1. source_position' = (request + 1) * src.blksize
      BY <1>c, <1>1, <2>1, BlockStarts
    <3>2. request + 1 <= (request + 1) * src.blksize
      BY <1>c
    <3>3. request + 1 \in 0 .. source_position'
      BY <1>c, <3>1, <3>2
    <3>4. QED
      BY <1>1, <1>3, <3>1, <3>3, PrimedForms
  <2>2. CASE nread # src.blksize
    <3>1. source_position' >= size
      <4> DEFINE s == Start(request)
                 n == src.blksize
      <4>1. s \in Nat /\ n \in Nat /\ nread = BytesAt(s, n) /\ nread # n
        BY <1>c, <1>1, <2>2
      <4> HIDE DEF s, n
      <4>2. s < size => nread = size - s
        BY <1>c, <4>1, BytesAtProperties
      <4>3. s + nread >= size
        BY <1>c, <1>2, <4>1, <4>2
      <4>4. QED
        BY <1>1, <4>3 DEF s
    <3>2. QED
      BY <1>1, <3>1, PrimedForms
  <2>3. QED
    BY <2>1, <2>2
<1>6. Stepping'
  BY <1>1, <1>3, PrimedStepping DEF Core, Stepping
<1>7. QED
  BY <1>3, <1>4, <1>5, <1>6 DEF Core

LEMMA StutterCore == TypeOK /\ Core /\ UNCHANGED vars => Core'
<1> SUFFICES ASSUME TypeOK, Core, UNCHANGED vars PROVE Core'
  OBVIOUS
<1>1. UNCHANGED <<source, offset, pc, request, ret, lru, lru_size, do_src_fifo>>
      /\ UNCHANGED <<source_position, seek_failed, src>>
  BY DEF vars, osVars, reqVars, setVars, fileVars
<1>2. Placed' /\ AtHand' /\ BuffersTrue' /\ EndInv'
  BY <1>1, PrimedForms DEF Core, Placed, AtHand, BuffersTrue, EndInv, Eof, Start, Alive
<1>3. Stepping'
  BY <1>1, PrimedStepping DEF Core, Stepping, Start, Cached, FifoSlot
<1>4. QED
  BY <1>2, <1>3 DEF Core

LEMMA CoreNext == TypeOK /\ Core /\ [Next]_vars => Core'
  BY SetSourceCore, AppSetSourceCore, RequestCore, AppGetblkCore, HitCore, TooFarBackCore, MissCore,
     SeekCore, SeekFailsCore, SkipCore, EndSkipCore, ReadCore, StutterCore
     DEF Next, Serve, Stopped

\* What is about pipes and refusals.
Pipe == Sliding /\ OneBlock /\ RefusedGone

\* The buffers of a pipe in the next state.
SlideNext(newest) ==
  /\ newest >= LruSize - 1
  /\ \A i \in Slots :
       \/ lru'[i].blkno \in newest - LruSize + 1 .. newest /\ lru'[i].blkno % LruSize = i
       \/ pc' \in {"SEEK", "SKIP", "READ"} /\ i = blru' /\ lru'[i].blkno = Invalid
  /\ source_position' <= size
  /\ \/ source_position' = (newest + 1) * src'.blksize
     \/ /\ source_position' = size
        /\ newest * src'.blksize <= size /\ size < (newest + 1) * src'.blksize
  /\ pc' \in {"SEEK", "SKIP", "READ"} => request' > newest /\ blru' = request' % lru_size'

LEMMA PrimedPipe ==
  ASSUME UNCHANGED source
  PROVE  /\ Sliding' <=>
              ((kind = "pipe" /\ do_src_fifo' /\ pc' # "SET" /\ ret' # "XD3_INVALID_INPUT") =>
                 \E newest \in 0 .. MaxBlk : SlideNext(newest))
         /\ OneBlock' <=>
              ((kind = "pipe" /\ ~do_src_fifo' /\ pc' # "SET" /\ ~source.past_end) =>
                 lru'[0].blkno = 0 /\ size < src'.blksize /\ pc' \in {"IDLE", "LOOKUP"} /\ ret' = "OK")
         /\ RefusedGone' <=>
              ((pc' = "IDLE" /\ ret' = "XD3_TOOFARBACK") =>
                 /\ {i \in 0 .. lru_size' - 1 :
                       /\ lru'[i].blkno = request'
                       /\ do_src_fifo' => i = request' % lru_size'} = {}
                 /\ \/ request' * src'.blksize < source_position'
                    \/ /\ kind = "device"
                       /\ lru'[request' % lru_size'].blkno \in request' + 1 .. MaxBlk)
<1>0. source' = source
  OBVIOUS
<1>1. Sliding' <=>
        ((kind = "pipe" /\ do_src_fifo' /\ pc' # "SET" /\ ret' # "XD3_INVALID_INPUT") =>
           \E newest \in 0 .. MaxBlk : SlideNext(newest))
  <2>1. \A newest \in 0 .. MaxBlk : Slide(newest)' <=> SlideNext(newest)
    BY <1>0 DEF Slide, SlideNext, Start, Slots, LruSize, size, FifoSlot, Invalid
  <2>2. QED
    BY <1>0, <2>1 DEF Sliding, kind, Alive
<1>2. OneBlock' <=>
        ((kind = "pipe" /\ ~do_src_fifo' /\ pc' # "SET" /\ ~source.past_end) =>
           lru'[0].blkno = 0 /\ size < src'.blksize /\ pc' \in {"IDLE", "LOOKUP"} /\ ret' = "OK")
  BY <1>0 DEF OneBlock, kind, size
<1>3. RefusedGone' <=>
        ((pc' = "IDLE" /\ ret' = "XD3_TOOFARBACK") =>
           /\ {i \in 0 .. lru_size' - 1 :
                 /\ lru'[i].blkno = request'
                 /\ do_src_fifo' => i = request' % lru_size'} = {}
           /\ \/ request' * src'.blksize < source_position'
              \/ /\ kind = "device"
                 /\ lru'[request' % lru_size'].blkno \in request' + 1 .. MaxBlk)
  BY <1>0 DEF RefusedGone, Cached, FifoSlot, Start, kind
<1>4. QED
  BY <1>1, <1>2, <1>3

LEMMA PipeInit == Init => Pipe
  BY DEF Init, Pipe, Sliding, OneBlock, RefusedGone, Alive

LEMMA SetSourcePipe == TypeOK /\ Core /\ SetSource => Pipe'
<1> SUFFICES ASSUME TypeOK, Core, SetSource PROVE Pipe'
  OBVIOUS
<1>c. /\ BlkBytes \in Nat \ {0} /\ LruSize \in Nat \ {0} /\ LruSize <= MaxBlk + 1 /\ size \in Nat
      /\ MaxBlk \in Nat /\ Slots = 0 .. LruSize - 1
  BY StateConstants
<1>1. /\ pc = "SET" /\ pc' = "IDLE" /\ UNCHANGED <<source, ret>>
      /\ do_src_fifo' = ~src'.eof_known
      /\ \/ /\ lru_size' = LruSize /\ LruSize * BlkBytes <= size
            /\ source_position' = LruSize * BlkBytes /\ src'.blksize = BlkBytes
            /\ \A i \in Slots : lru'[i].blkno = i
            /\ src'.eof_known => kind = "file"
         \/ /\ src'.eof_known /\ lru'[0].blkno = 0
            /\ (kind # "file" => size < src'.blksize)
  BY SetSourceProperties
<1>2. ret' = "OK"
  BY <1>1 DEF Core, Stepping
<1>3. Sliding'
  <2>1. SUFFICES ASSUME kind = "pipe", do_src_fifo' PROVE SlideNext(LruSize - 1)
    <3>1. LruSize - 1 \in 0 .. MaxBlk
      BY <1>c
    <3>2. QED
      BY <1>1, <2>1, <3>1, PrimedPipe
  <2>2. /\ LruSize * BlkBytes <= size /\ source_position' = LruSize * BlkBytes
        /\ src'.blksize = BlkBytes /\ \A i \in Slots : lru'[i].blkno = i
    BY <1>1, <2>1
  <2>3. \A i \in Slots : lru'[i].blkno \in 0 .. LruSize - 1 /\ lru'[i].blkno % LruSize = i
    <3>1. \A i \in 0 .. LruSize - 1 : i % LruSize = i
      BY <1>c
    <3>2. QED
      BY <1>c, <2>2, <3>1
  <2>4. (LruSize - 1) - LruSize + 1 = 0 /\ (LruSize - 1) + 1 = LruSize
    BY <1>c
  <2>5. QED
    BY <1>1, <1>c, <2>2, <2>3, <2>4 DEF SlideNext
<1>4. OneBlock' /\ RefusedGone'
  BY <1>1, <1>2, PrimedPipe
<1>5. QED
  BY <1>3, <1>4 DEF Pipe

\* The buffers of a pipe that stay as they are, when no request is under way then.
LEMMA SameSlide ==
  ASSUME Sliding, Alive, UNCHANGED <<source, lru, lru_size, do_src_fifo, source_position>>,
         src'.blksize = src.blksize, pc \in {"IDLE", "LOOKUP"}, pc' \in {"IDLE", "LOOKUP"}
  PROVE  Sliding'
<1>1. SUFFICES ASSUME kind = "pipe", do_src_fifo' PROVE \E newest \in 0 .. MaxBlk : SlideNext(newest)
  BY PrimedPipe
<1>2. PICK newest \in 0 .. MaxBlk : Slide(newest)
  BY <1>1 DEF Sliding
<1>3. SlideNext(newest)
  BY <1>2 DEF Slide, SlideNext, Start
<1>4. QED
  BY <1>3

LEMMA AppSetSourcePipe == TypeOK /\ Core /\ AppSetSource => Pipe'
<1> SUFFICES ASSUME TypeOK, Core, AppSetSource PROVE Pipe'
  OBVIOUS
<1>1. pc = "SET" /\ kind = "app" /\ UNCHANGED <<source, ret>>
  BY DEF AppSetSource, osVars
<1>2. ret' = "OK"
  BY <1>1 DEF Core, Stepping
<1>3. QED
  BY <1>1, <1>2, PrimedPipe DEF Pipe

\* A source that is one block has only that one to give.
LEMMA OnlyBlock ==
  ASSUME TypeOK, OneBlock, kind = "pipe", ~do_src_fifo, pc # "SET", ~source.past_end,
         NEW blkno \in Nat, Start(blkno) <= size
  PROVE  /\ blkno = 0 /\ lru[0].blkno = 0 /\ size < src.blksize /\ pc \in {"IDLE", "LOOKUP"}
         /\ ret = "OK" /\ Cached(blkno) # {}
<1>c. size \in Nat /\ src.blksize \in Nat \ {0} /\ LruSize \in Nat \ {0} /\ lru_size \in {1, LruSize}
  BY StateFacts
<1>1. /\ lru[0].blkno = 0 /\ size < src.blksize /\ pc \in {"IDLE", "LOOKUP"} /\ ret = "OK"
  BY DEF OneBlock
<1>2. blkno = 0
  <2>1. 0 < blkno => 0 * src.blksize + src.blksize <= blkno * src.blksize
    BY <1>c, BlockStarts
  <2>2. blkno * src.blksize \in Nat /\ 0 * src.blksize = 0
    BY <1>c, BlockStarts
  <2>3. blkno * src.blksize <= size
    BY DEF Start
  <2>4. QED
    BY <1>c, <1>1, <2>1, <2>2, <2>3
<1>3. 0 \in 0 .. lru_size - 1
  BY <1>c
<1>4. Cached(blkno) # {}
  BY <1>1, <1>2, <1>3 DEF Cached
<1>5. QED
  BY <1>1, <1>2, <1>4

LEMMA RequestPipe ==
  ASSUME TypeOK, Core, Pipe, NEW blkno \in 0 .. MaxBlk, Request(blkno)
  PROVE  Pipe'
<1>c. src \in SrcType /\ MaxBlk \in Nat /\ blkno \in Nat
  BY StateConstants
<1>1. /\ pc = "IDLE" /\ ret # "XD3_INVALID_INPUT" /\ Reachable(blkno)
      /\ UNCHANGED <<source, lru, lru_size, do_src_fifo, source_position>>
      /\ \/ pc' = "IDLE" /\ ret' = "OK" /\ src' = GotBlock(src, blkno)
         \/ pc' = "LOOKUP" /\ ret' = ret /\ src' = src
  BY DEF Request, osVars, setVars, fileVars
<1>2. Alive
  BY <1>1 DEF Alive
<1>3. src'.blksize = src.blksize
  BY <1>c, <1>1, GotBlockProperties
<1>4. Sliding'
  BY <1>1, <1>2, <1>3, SameSlide DEF Pipe
<1>5. OneBlock' /\ RefusedGone'
  BY <1>1, <1>3, PrimedPipe DEF Pipe, OneBlock
<1>6. QED
  BY <1>4, <1>5 DEF Pipe

LEMMA AppGetblkPipe == TypeOK /\ Core /\ AppGetblk => Pipe'
<1> SUFFICES ASSUME TypeOK, Core, AppGetblk PROVE Pipe'
  OBVIOUS
<1>1. kind = "app" /\ pc' = "IDLE" /\ ret' = "OK" /\ UNCHANGED source
  BY DEF AppGetblk, Return, osVars
<1>2. QED
  BY <1>1, PrimedPipe DEF Pipe

LEMMA HitPipe == TypeOK /\ Core /\ Pipe /\ Hit => Pipe'
<1> SUFFICES ASSUME TypeOK, Core, Pipe, Hit PROVE Pipe'
  OBVIOUS
<1>1. PICK i \in Cached(request) :
        /\ pc = "LOOKUP" /\ kind # "app"
        /\ Return(i, lru[i].size)
        /\ UNCHANGED <<source, lru, lru_size, do_src_fifo, source_position>>
  BY DEF Hit, LookingUp, osVars, setVars, fileVars
<1>2. Alive /\ (do_src_fifo => lru_size = LruSize)
  BY <1>1 DEF Core, Stepping, Alive
<1>3. pc' = "IDLE" /\ ret' = "OK" /\ src'.blksize = src.blksize
  <2>1. i \in Slots /\ request \in Nat
    <3>1. request \in Nat
      BY StateFacts
    <3>2. QED
      BY <1>1, <1>2, <3>1, ChosenBuffer
  <2>2. lru[i].size \in Nat
    <3>1. lru \in LruType
      BY StateConstants
    <3>2. QED
      BY <2>1, <3>1 DEF LruType
  <2>3. QED
    BY <1>1, <2>1, <2>2, ReturnProperties
<1>4. Sliding'
  BY <1>1, <1>2, <1>3, SameSlide DEF Pipe
<1>5. OneBlock' /\ RefusedGone'
  BY <1>1, <1>3, PrimedPipe DEF Pipe, OneBlock
<1>6. QED
  BY <1>4, <1>5 DEF Pipe

\* What a pipe keeps: the buffer of a block holds that block or another of the last
\* ones, and none holds a block that is still to be read.
LEMMA SlideProperties ==
  ASSUME TypeOK, Core, NEW newest \in 0 .. MaxBlk, Slide(newest), do_src_fifo
  PROVE  /\ lru_size = LruSize /\ LruSize \in Nat \ {0} /\ newest \in Nat /\ MaxBlk \in Nat
         /\ newest - LruSize + 1 \in 0 .. newest
         /\ \A b \in Nat : FifoSlot(b) \in Slots /\ FifoSlot(b) = b % LruSize
         /\ Start(newest) \in Nat /\ Start(newest + 1) = Start(newest) + src.blksize
         /\ \A b \in Nat : b <= MaxBlk /\ newest < b => Cached(b) = {}
         /\ source_position <= size
         /\ \/ source_position = Start(newest + 1)
            \/ source_position = size /\ Start(newest) <= size /\ size < Start(newest + 1)
<1>c. /\ LruSize \in Nat \ {0} /\ MaxBlk \in Nat /\ Slots = 0 .. LruSize - 1 /\ newest \in Nat
      /\ src.blksize \in Nat \ {0} /\ Invalid = MaxBlk + 1
  BY StateFacts
<1>1. lru_size = LruSize
  BY DEF Core, Stepping
<1>2. newest - LruSize + 1 \in 0 .. newest
  <2>1. newest >= LruSize - 1
    BY DEF Slide
  <2>2. QED
    BY <1>c, <2>1
<1>3. \A b \in Nat : FifoSlot(b) \in Slots /\ FifoSlot(b) = b % LruSize
  <2>1. \A b \in Nat : b % LruSize \in 0 .. LruSize - 1
    BY <1>c, Division
  <2>2. QED
    BY <1>c, <1>1, <2>1 DEF FifoSlot
<1>4. Start(newest) \in Nat /\ Start(newest + 1) = Start(newest) + src.blksize
  BY <1>c, BlockStarts DEF Start
<1>5. ASSUME NEW b \in Nat, b <= MaxBlk, newest < b
      PROVE  Cached(b) = {}
  <2>1. SUFFICES ASSUME NEW i \in Slots, lru[i].blkno = b PROVE FALSE
    BY <1>c, <1>1 DEF Cached
  <2>2. lru[i].blkno \in newest - LruSize + 1 .. newest \/ lru[i].blkno = Invalid
    BY DEF Slide
  <2>3. QED
    BY <1>c, <1>2, <1>5, <2>1, <2>2
<1>6. /\ source_position <= size
      /\ \/ source_position = Start(newest + 1)
         \/ source_position = size /\ Start(newest) <= size /\ size < Start(newest + 1)
  BY Zenon DEF Slide
<1>7. QED
  BY <1>c, <1>1, <1>2, <1>3, <1>4, <1>5, <1>6

LEMMA TooFarBackPipe == TypeOK /\ Core /\ Pipe /\ TooFarBack => Pipe'
<1> SUFFICES ASSUME TypeOK, Core, Pipe, TooFarBack PROVE Pipe'
  OBVIOUS
<1>c. /\ size \in Nat /\ src.blksize \in Nat \ {0} /\ MaxBlk \in Nat /\ request \in Nat
      /\ Start(request) \in Nat /\ Start(request) = request * src.blksize
      /\ source_position \in Nat /\ Invalid = MaxBlk + 1 /\ LruSize \in Nat \ {0}
      /\ Slots = 0 .. LruSize - 1
  BY StateFacts
<1>1. /\ pc = "LOOKUP" /\ kind # "app" /\ pc' = "IDLE" /\ ret' = "XD3_TOOFARBACK"
      /\ TooFarInFifo(request)
      /\ UNCHANGED <<source, request, lru, lru_size, do_src_fifo, source_position, src>>
  BY DEF TooFarBack, LookingUp, Fail, osVars, setVars, fileVars
<1>2. Alive /\ kind \in {"pipe", "device"} /\ do_src_fifo /\ lru_size = LruSize
  BY <1>1 DEF Core, Stepping, Alive, TooFarInFifo
<1>3. Sliding'
  BY <1>1, <1>2, SameSlide DEF Pipe
<1>4. OneBlock'
  BY <1>1, <1>2, PrimedPipe
<1>5. RefusedGone'
  <2> DEFINE i == request % lru_size
             b == lru[i].blkno
  <2>1. Cached(request) = {} /\ b # Invalid /\ b > request
    BY <1>1 DEF TooFarInFifo, FifoSlot
  <2>2. i \in Slots /\ b \in 0 .. MaxBlk + 1
    <3>1. i \in 0 .. LruSize - 1
      BY <1>c, <1>2, Division
    <3>2. lru \in LruType /\ Blknos = 0 .. MaxBlk + 1
      BY StateConstants
    <3>3. QED
      BY <1>c, <3>1, <3>2 DEF LruType
  <2> HIDE DEF i, b
  <2>3. b \in request + 1 .. MaxBlk
    BY <1>c, <2>1, <2>2
  <2>4. ASSUME kind = "pipe"
        PROVE  Start(request) < source_position
    <3>1. PICK newest \in 0 .. MaxBlk : Slide(newest)
      BY <1>2, <2>4 DEF Pipe, Sliding
    <3>2. b <= newest /\ newest \in Nat
      BY <1>c, <1>1, <2>2, <3>1 DEF Slide, b
    <3>3. request < newest
      BY <1>c, <2>3, <3>2
    <3>4. /\ Start(newest) \in Nat /\ Start(newest + 1) = Start(newest) + src.blksize
      BY <1>2, <3>1, SlideProperties
    <3>5. request * src.blksize + src.blksize <= newest * src.blksize
      BY <1>c, <3>2, <3>3, BlockStarts
    <3>6. Start(newest) = newest * src.blksize
      BY DEF Start
    <3>7. source_position = Start(newest + 1) \/ (source_position = size /\ Start(newest) <= size)
      BY <1>2, <3>1, SlideProperties
    <3>8. QED
      BY <1>c, <3>4, <3>5, <3>6, <3>7, SMTT(60)
  <2>5. request * src.blksize < source_position \/ kind = "device"
    BY <1>c, <1>2, <2>4
  <2>6. {j \in 0 .. lru_size - 1 :
             /\ lru[j].blkno = request
             /\ do_src_fifo => j = request % lru_size} = {}
    BY <2>1 DEF Cached, FifoSlot
  <2>7. QED
    BY <1>1, <2>3, <2>5, <2>6, PrimedPipe DEF i, b
<1>6. QED
  BY <1>3, <1>4, <1>5 DEF Pipe

LEMMA MissPipe == TypeOK /\ Core /\ Pipe /\ Miss => Pipe'
<1> SUFFICES ASSUME TypeOK, Core, Pipe, Miss PROVE Pipe'
  OBVIOUS
<1>c. /\ MaxBlk \in Nat /\ request \in 0 .. MaxBlk /\ request \in Nat /\ Invalid = MaxBlk + 1
      /\ LruSize \in Nat \ {0} /\ Slots = 0 .. LruSize - 1
  BY StateFacts
<1>l. lru \in LruType
  BY StateConstants
<1> DEFINE b == Victim(request)
<1>1. /\ pc = "LOOKUP" /\ kind # "app" /\ Cached(request) = {} /\ ~TooFarInFifo(request)
      /\ blru' = b /\ lru' = [lru EXCEPT ![b].blkno = Invalid]
      /\ pc' \in {"READ", "SEEK"}
      /\ UNCHANGED <<source, request, ret, lru_size, do_src_fifo, source_position, src>>
  BY DEF Miss, LookingUp, osVars, setVars, fileVars
<1>2. Alive /\ (~source.past_end => Start(request) <= size)
  BY <1>1 DEF Core, Stepping, Alive
<1>3. RefusedGone'
  BY <1>1, PrimedPipe
<1>4. OneBlock'
  <2>1. ASSUME kind = "pipe", ~do_src_fifo, ~source.past_end
        PROVE  FALSE
    BY <1>c, <1>1, <1>2, <2>1, OnlyBlock DEF Pipe
  <2>2. QED
    BY <1>1, <2>1, PrimedPipe
<1>5. Sliding'
  <2>1. SUFFICES ASSUME kind = "pipe", do_src_fifo
                 PROVE  \E newest \in 0 .. MaxBlk : SlideNext(newest)
    BY <1>1, PrimedPipe
  <2>2. PICK newest \in 0 .. MaxBlk : Slide(newest)
    BY <1>2, <2>1 DEF Pipe, Sliding
  <2>3. /\ lru_size = LruSize /\ newest \in Nat /\ newest - LruSize + 1 \in 0 .. newest
        /\ b = request % LruSize /\ b \in Slots /\ b = FifoSlot(request)
    BY <1>c, <2>1, <2>2, SlideProperties DEF Victim
  <2> HIDE DEF b
  <2>4. lru'[b].blkno = Invalid /\ \A i \in Slots : i # b => lru'[i] = lru[i]
    BY <1>l, <1>1, <2>3 DEF LruType
  <2>5. request > newest
    <3> DEFINE a == lru[b].blkno
    <3>1. a \in newest - LruSize + 1 .. newest /\ a % LruSize = b
      BY <1>1, <2>2, <2>3 DEF Slide
    <3>2. a \in Nat /\ a # Invalid
      BY <1>c, <2>3, <3>1
    <3>3. ~(a > request)
      BY <1>1, <2>1, <2>3, <3>2 DEF TooFarInFifo
    <3>4. a # request
      <4>1. SUFFICES ASSUME a = request PROVE b \in Cached(request)
        BY <1>1
      <4>2. QED
        BY <1>c, <2>3, <4>1 DEF Cached
    <3> HIDE DEF a
    <3>5. a + LruSize <= request
      <4>1. a < request
        BY <1>c, <3>2, <3>3, <3>4
      <4>2. a % LruSize = request % LruSize
        BY <2>3, <3>1
      <4>3. QED
        BY <1>c, <3>2, <4>1, <4>2, SameRemainder
    <3>6. QED
      BY <1>c, <2>3, <3>1, <3>2, <3>5
  <2>6. SlideNext(newest)
    <3>1. newest >= LruSize - 1
      BY <2>2 DEF Slide
    <3>2. /\ source_position' <= size
          /\ \/ source_position' = (newest + 1) * src'.blksize
             \/ /\ source_position' = size
                /\ newest * src'.blksize <= size /\ size < (newest + 1) * src'.blksize
      BY <1>1, <2>2 DEF Slide, Start
    <3>3. \A i \in Slots :
            \/ lru'[i].blkno \in newest - LruSize + 1 .. newest /\ lru'[i].blkno % LruSize = i
            \/ i = blru' /\ lru'[i].blkno = Invalid
      BY <1>1, <2>2, <2>3, <2>4 DEF Slide
    <3>4. QED
      BY <1>1, <2>3, <2>5, <3>1, <3>2, <3>3 DEF SlideNext
  <2>7. QED
    BY <2>6
<1>6. QED
  BY <1>3, <1>4, <1>5 DEF Pipe

\* Only a pipe that holds more than one block is read past the buffers it has.
LEMMA PipeIsFifo ==
  ASSUME TypeOK, Core, Pipe, kind = "pipe", pc \in {"SEEK", "SKIP", "READ"}, ~source.past_end
  PROVE  do_src_fifo
<1>1. Start(request) <= size /\ request \in Nat
  <2>1. request \in Nat
    BY StateFacts
  <2>2. QED
    BY <2>1 DEF Core, Stepping
<1>2. SUFFICES ASSUME ~do_src_fifo PROVE FALSE
  OBVIOUS
<1>3. QED
  BY <1>1, <1>2, OnlyBlock DEF Pipe

LEMMA SeekPipe == TypeOK /\ Core /\ Pipe /\ Seek => Pipe'
<1> SUFFICES ASSUME TypeOK, Core, Pipe, Seek PROVE Pipe'
  OBVIOUS
<1>1. kind # "pipe" /\ pc' = "READ" /\ UNCHANGED source
  BY DEF Seek, CanSeek
<1>2. QED
  BY <1>1, PrimedPipe DEF Pipe

LEMMA SeekFailsPipe == TypeOK /\ Core /\ Pipe /\ SeekFails => Pipe'
<1> SUFFICES ASSUME TypeOK, Core, Pipe, SeekFails PROVE Pipe'
  OBVIOUS
<1>c. /\ MaxBlk \in Nat /\ request \in Nat /\ Start(request) \in Nat /\ source_position \in Nat
      /\ src.blksize \in Nat \ {0} /\ size \in Nat /\ Start(request) = request * src.blksize
  BY StateFacts
<1>1. /\ pc = "SEEK"
      /\ \/ pc' = "IDLE" /\ ret' = "XD3_TOOFARBACK" /\ source_position > Start(request)
         \/ pc' = "SKIP" /\ UNCHANGED <<ret, blru>>
      /\ UNCHANGED <<source, request, lru, lru_size, do_src_fifo, source_position, src>>
  BY DEF SeekFails, Fail, osVars, setVars
<1>2. Alive /\ Cached(request) = {}
  BY <1>1 DEF Core, Stepping, Alive
<1>3. RefusedGone'
  <2>1. {j \in 0 .. lru_size - 1 :
             /\ lru[j].blkno = request
             /\ do_src_fifo => j = request % lru_size} = {}
    BY <1>2 DEF Cached, FifoSlot
  <2>2. pc' = "IDLE" => request * src.blksize < source_position
    BY <1>c, <1>1
  <2>3. QED
    BY <1>1, <2>1, <2>2, PrimedPipe
<1>4. OneBlock'
  BY <1>1, PipeIsFifo, PrimedPipe
<1>5. Sliding'
  <2>1. SUFFICES ASSUME kind = "pipe", do_src_fifo
                 PROVE  \E newest \in 0 .. MaxBlk : SlideNext(newest)
    BY <1>1, PrimedPipe
  <2>2. PICK newest \in 0 .. MaxBlk : Slide(newest)
    BY <1>2, <2>1 DEF Pipe, Sliding
  <2>3. /\ Start(newest) \in Nat /\ Start(newest + 1) = Start(newest) + src.blksize
        /\ \/ source_position = Start(newest + 1)
           \/ source_position = size /\ Start(newest) <= size /\ size < Start(newest + 1)
    BY <2>1, <2>2, SlideProperties
  <2>4. request > newest /\ newest \in Nat
    BY <1>c, <1>1, <2>2 DEF Slide
  <2>5. Start(newest + 1) <= Start(request)
    <3>1. newest * src.blksize + src.blksize <= request * src.blksize
      BY <1>c, <2>4, BlockStarts
    <3>2. Start(newest) = newest * src.blksize
      BY DEF Start
    <3>3. QED
      BY <1>c, <2>3, <3>1, <3>2
  <2>6. pc' = "SKIP" /\ blru' = blru
    BY <1>c, <1>1, <2>3, <2>5
  <2>7. SlideNext(newest)
    BY <1>1, <2>2, <2>6 DEF Slide, SlideNext, Start, FifoSlot
  <2>8. QED
    BY <2>7
<1>6. QED
  BY <1>3, <1>4, <1>5 DEF Pipe

LEMMA EndSkipPipe == TypeOK /\ Core /\ Pipe /\ EndSkip => Pipe'
<1> SUFFICES ASSUME TypeOK, Core, Pipe, EndSkip PROVE Pipe'
  OBVIOUS
<1>1. /\ pc = "SKIP" /\ pc' = "READ"
      /\ UNCHANGED <<source, offset, request, blru, ret, lru, lru_size, do_src_fifo>>
      /\ UNCHANGED <<source_position, seek_failed, src>>
  BY DEF EndSkip, osVars, setVars, fileVars
<1>2. Alive
  BY <1>1 DEF Core, Stepping, Alive
<1>3. RefusedGone' /\ OneBlock'
  BY <1>1, PipeIsFifo, PrimedPipe
<1>4. Sliding'
  <2>1. SUFFICES ASSUME kind = "pipe", do_src_fifo
                 PROVE  \E newest \in 0 .. MaxBlk : SlideNext(newest)
    BY <1>1, PrimedPipe
  <2>2. PICK newest \in 0 .. MaxBlk : Slide(newest)
    BY <1>2, <2>1 DEF Pipe, Sliding
  <2>3. SlideNext(newest)
    BY <1>1, <2>2 DEF Slide, SlideNext, Start, FifoSlot
  <2>4. QED
    BY <2>3
<1>5. QED
  BY <1>3, <1>4 DEF Pipe

\* A pipe's buffers after its next block is read.
LEMMA NextBlockSlides ==
  ASSUME TypeOK, Core, NEW newest \in 0 .. MaxBlk, Slide(newest), do_src_fifo,
         newest + 1 <= MaxBlk, NEW b \in Slots, b = (newest + 1) % LruSize,
         lru'[b].blkno = newest + 1, \A i \in Slots : i # b => lru'[i] = lru[i],
         NEW i \in Slots,
         ~(pc \in {"SEEK", "SKIP", "READ"} /\ i = blru /\ lru[i].blkno = Invalid) \/ i = b
  PROVE  /\ lru'[i].blkno \in (newest + 1) - LruSize + 1 .. newest + 1
         /\ lru'[i].blkno % LruSize = i
<1>c. /\ LruSize \in Nat \ {0} /\ newest \in Nat /\ MaxBlk \in Nat
      /\ newest - LruSize + 1 \in 0 .. newest
  BY SlideProperties
<1>1. CASE i = b
  BY <1>c, <1>1
<1>2. CASE i # b
  <2> DEFINE a == lru[i].blkno
             f == newest - LruSize + 1
  <2>1. lru'[i].blkno = a /\ a \in newest - LruSize + 1 .. newest /\ a % LruSize = i
    BY <1>2 DEF Slide
  <2>2. f \in Nat /\ f + LruSize = newest + 1
    BY <1>c
  <2>3. f % LruSize = b
    <3>1. (f + LruSize) % LruSize = f % LruSize
      BY <1>c, <2>2, AddRemainder
    <3>2. QED
      BY <2>2, <3>1
  <2>4. a # f
    BY <1>2, <2>1, <2>3
  <2> HIDE DEF a
  <2>5. a \in (newest + 1) - LruSize + 1 .. newest + 1
    BY <1>c, <2>1, <2>4
  <2>6. QED
    BY <2>1, <2>5
<1>3. QED
  BY <1>1, <1>2

LEMMA SkipPipe == TypeOK /\ Core /\ Pipe /\ Skip => Pipe'
<1> SUFFICES ASSUME TypeOK, Core, Pipe, Skip PROVE Pipe'
  OBVIOUS
<1>c. /\ MaxBlk \in Nat /\ request \in 0 .. MaxBlk /\ source_position \in Nat
      /\ src.blksize \in Nat \ {0} /\ size \in Nat
  BY StateFacts
<1>1. /\ pc = "SKIP" /\ Alive
      /\ UNCHANGED <<source, request, lru_size, do_src_fifo, src>>
      /\ pc' = "IDLE" => ret' = "XD3_INVALID_INPUT"
  BY SkipProperties DEF Core
<1>2. RefusedGone' /\ OneBlock'
  BY <1>1, PipeIsFifo, PrimedPipe
<1>3. Sliding'
  <2>1. SUFFICES ASSUME kind = "pipe", do_src_fifo, ret' # "XD3_INVALID_INPUT"
                 PROVE  \E newest \in 0 .. MaxBlk : SlideNext(newest)
    BY <1>1, PrimedPipe
  <2>2. PICK newest \in 0 .. MaxBlk : Slide(newest)
    BY <1>1, <2>1 DEF Pipe, Sliding
  <2> DEFINE k == SkipBlkno
  <2>3. /\ UNCHANGED <<pc, ret, blru>> /\ k \in Nat /\ k < request
        /\ source_position = k * src.blksize
        /\ source_position' = (k + 1) * src.blksize /\ source_position' <= size
    BY <2>1, SkipProperties DEF Core
  <2>4. PICK b \in Slots :
          /\ lru'[b].blkno = k
          /\ \A i \in Slots : i # b => lru'[i] = lru[i]
          /\ IF Cached(k) # {} THEN b \in Cached(k) ELSE b = Victim(k)
    BY <2>1, SkipProperties DEF Core
  <2> HIDE DEF k
  <2>5. /\ lru_size = LruSize /\ LruSize \in Nat \ {0} /\ newest \in Nat
        /\ Start(newest + 1) = Start(newest) + src.blksize
        /\ source_position <= size
        /\ \/ source_position = Start(newest + 1)
           \/ source_position = size /\ Start(newest) <= size /\ size < Start(newest + 1)
    BY <2>1, <2>2, SlideProperties
  <2>6. k = newest + 1
    <3>1. (k + 1) * src.blksize = k * src.blksize + src.blksize
      BY <1>c, <2>3, BlockStarts
    <3>2. source_position = (newest + 1) * src.blksize
      <4>1. source_position = Start(newest + 1)
        BY <1>c, <2>3, <2>5, <3>1
      <4>2. QED
        BY <4>1 DEF Start
    <3>3. (k * src.blksize) \div src.blksize = k
      BY <1>c, <2>3, BlockStarts
    <3>4. newest + 1 \in Nat
      BY <2>5
    <3>5. ((newest + 1) * src.blksize) \div src.blksize = newest + 1
      BY <1>c, <3>4, BlockStarts
    <3>6. QED
      BY <2>3, <3>2, <3>3, <3>5
  <2>7. k \in 0 .. MaxBlk /\ newest + 1 <= MaxBlk
    BY <1>c, <2>3, <2>6
  <2>8. b = (newest + 1) % LruSize
    <3>1. newest < k /\ k <= MaxBlk
      BY <2>5, <2>6, <2>7
    <3>2. Cached(k) = {} /\ FifoSlot(k) = k % LruSize
      BY <2>1, <2>2, <2>3, <3>1, SlideProperties
    <3>3. b = FifoSlot(k)
      BY <2>1, <2>4, <3>2 DEF Victim
    <3>4. QED
      BY <2>6, <3>2, <3>3
  <2>9. ASSUME NEW i \in Slots
        PROVE  \/ lru'[i].blkno \in k - LruSize + 1 .. k /\ lru'[i].blkno % LruSize = i
               \/ pc' \in {"SEEK", "SKIP", "READ"} /\ i = blru' /\ lru'[i].blkno = Invalid
    <3>1. CASE i = b
      BY <2>1, <2>2, <2>4, <2>6, <2>7, <2>8, <3>1, NextBlockSlides
    <3>2. CASE i # b /\ i = blru /\ lru[i].blkno = Invalid
      BY <1>1, <2>3, <2>4, <3>2
    <3>3. CASE ~(i = blru /\ lru[i].blkno = Invalid)
      BY <2>1, <2>2, <2>4, <2>6, <2>7, <2>8, <3>3, NextBlockSlides
    <3>4. QED
      BY <3>1, <3>2, <3>3
  <2>10. k >= LruSize - 1
    <3>1. newest >= LruSize - 1
      BY <2>2 DEF Slide
    <3>2. QED
      BY <2>5, <2>6, <3>1
  <2>11. request' > k /\ blru' = request' % lru_size'
    <3>1. blru = request % lru_size
      BY <1>1, <2>2 DEF Slide, FifoSlot
    <3>2. QED
      BY <1>1, <1>c, <2>3, <3>1
  <2>12. SlideNext(k)
    BY <1>1, <2>3, <2>9, <2>10, <2>11 DEF SlideNext
  <2>13. QED
    BY <2>7, <2>12
<1>4. QED
  BY <1>2, <1>3 DEF Pipe

LEMMA ReadPipe == TypeOK /\ Core /\ Pipe /\ Read => Pipe'
<1> SUFFICES ASSUME TypeOK, Core, Pipe, Read PROVE Pipe'
  OBVIOUS
<1>c. /\ MaxBlk \in Nat /\ request \in 0 .. MaxBlk /\ request \in Nat /\ source_position \in Nat
      /\ src.blksize \in Nat \ {0} /\ size \in Nat
      /\ Start(request) \in Nat /\ Start(request) = request * src.blksize
  BY StateFacts
<1> DEFINE K == src.blksize
           nread == BytesAt(Start(request), K)
<1>1. /\ pc = "READ" /\ Alive /\ blru \in Slots /\ source_position = Start(request)
      /\ source_position' = Start(request) + nread
      /\ nread \in Nat /\ Return(blru, nread)
      /\ lru'[blru].blkno = request /\ \A i \in Slots : i # blru => lru'[i] = lru[i]
      /\ UNCHANGED <<source, request, lru_size, do_src_fifo>>
  <2>1. PICK n \in 0 .. src.blksize :
          /\ pc = "READ" /\ Alive /\ blru \in Slots /\ source_position = Start(request)
          /\ n = nread
          /\ source_position' = Start(request) + n
          /\ Return(blru, n)
          /\ lru'[blru].blkno = request /\ \A i \in Slots : i # blru => lru'[i] = lru[i]
          /\ UNCHANGED <<source, request, lru_size, do_src_fifo>>
    BY ReadProperties DEF Core
  <2>2. n \in Nat
    BY <1>c, <2>1
  <2> HIDE DEF nread
  <2>3. QED
    BY <2>1, <2>2
<1>2. pc' = "IDLE" /\ ret' = "OK" /\ src'.blksize = K
  BY <1>1, ReturnProperties
<1>3. RefusedGone' /\ OneBlock'
  BY <1>1, <1>2, PipeIsFifo, PrimedPipe
<1>4. Sliding'
  <2>1. SUFFICES ASSUME kind = "pipe", do_src_fifo
                 PROVE  \E newest \in 0 .. MaxBlk : SlideNext(newest)
    BY <1>1, PrimedPipe
  <2>2. PICK newest \in 0 .. MaxBlk : Slide(newest)
    BY <1>1, <2>1 DEF Pipe, Sliding
  <2>3. /\ lru_size = LruSize /\ LruSize \in Nat \ {0} /\ newest \in Nat
        /\ Start(newest + 1) = Start(newest) + K
        /\ source_position <= size
        /\ \/ source_position = Start(newest + 1)
           \/ source_position = size /\ Start(newest) <= size /\ size < Start(newest + 1)
    BY <2>1, <2>2, SlideProperties
  <2>4. request > newest /\ blru = request % LruSize
    BY <1>1, <2>2, <2>3 DEF Slide, FifoSlot
  <2>5. newest + 1 \in Nat /\ Start(newest + 1) = (newest + 1) * K
        /\ Start(newest + 1) \in Nat /\ newest + 1 <= MaxBlk
    <3>1. newest + 1 \in Nat /\ newest + 1 <= MaxBlk
      BY <1>c, <2>3, <2>4
    <3>2. (newest + 1) * K \in Nat
      BY <1>c, <3>1, BlockStarts
    <3>3. QED
      BY <3>1, <3>2 DEF Start
  <2>6. request = newest + 1
    <3>1. newest + 1 < request => (newest + 1) * K + K <= request * K
      BY <1>c, <2>5, BlockStarts
    <3>2. newest + 1 <= request => (newest + 1) * K <= request * K
      BY <1>c, <2>5, BlockStarts
    <3>3. source_position = Start(newest + 1)
      <4>1. Start(newest + 1) <= Start(request)
        BY <1>c, <2>3, <2>4, <2>5, <3>2
      <4>2. QED
        BY <1>1, <1>c, <2>3, <2>5, <4>1
    <3>4. QED
      BY <1>1, <1>c, <2>3, <2>4, <2>5, <3>1, <3>3
  <2>7. ASSUME NEW i \in Slots
        PROVE  lru'[i].blkno \in request - LruSize + 1 .. request /\ lru'[i].blkno % LruSize = i
    BY <1>1, <2>1, <2>2, <2>4, <2>5, <2>6, NextBlockSlides
  <2>8. request >= LruSize - 1
    <3>1. newest >= LruSize - 1
      BY <2>2 DEF Slide
    <3>2. QED
      BY <2>3, <2>6, <3>1
  <2>9. /\ source_position' <= size
        /\ \/ source_position' = (request + 1) * K
           \/ source_position' = size /\ request * K <= size /\ size < (request + 1) * K
    <3>1. (request + 1) * K = request * K + K
      BY <1>c, BlockStarts
    <3>2. Start(request) <= size
      BY <1>1, <2>3
    <3> DEFINE s == Start(request)
    <3>3. /\ nread \in 0 .. K
          /\ s < size /\ nread # K => nread = size - s
          /\ s >= size => nread = 0
          /\ s + nread <= size
      BY <1>c, <3>2, BytesAtProperties
    <3> HIDE DEF s, nread, K
    <3>4. s \in Nat /\ s = request * K /\ s <= size /\ source_position' = s + nread
          /\ (request + 1) * K = s + K /\ K \in Nat \ {0}
      BY <1>c, <1>1, <3>1, <3>2 DEF s, K
    <3>5. CASE nread = K
      BY <3>3, <3>4, <3>5
    <3>6. CASE nread # K
      <4>1. s + nread = size /\ size < s + K
        BY <1>c, <3>3, <3>4, <3>6
      <4>2. QED
        BY <1>c, <3>4, <4>1
    <3>7. QED
      BY <3>5, <3>6
  <2>10. SlideNext(request)
    BY <1>2, <2>7, <2>8, <2>9 DEF SlideNext
  <2>11. QED
    BY <1>c, <2>10
<1>5. QED
  BY <1>3, <1>4 DEF Pipe

LEMMA StutterPipe == TypeOK /\ Core /\ Pipe /\ UNCHANGED vars => Pipe'
<1> SUFFICES ASSUME TypeOK, Core, Pipe, UNCHANGED vars PROVE Pipe'
  OBVIOUS
<1>1. UNCHANGED <<source, offset, pc, request, ret, blru, lru, lru_size, do_src_fifo>>
      /\ UNCHANGED <<source_position, seek_failed, src>>
  BY DEF vars, osVars, reqVars, setVars, fileVars
<1>2. RefusedGone' /\ OneBlock'
  BY <1>1, PrimedPipe DEF Pipe, RefusedGone, OneBlock, Cached, FifoSlot, Start
<1>3. Sliding'
  <2>1. \A newest \in 0 .. MaxBlk : Slide(newest) => SlideNext(newest)
    BY <1>1 DEF Slide, SlideNext, Start, FifoSlot
  <2>2. QED
    BY <1>1, <2>1, PrimedPipe DEF Pipe, Sliding, Alive
<1>4. QED
  BY <1>2, <1>3 DEF Pipe

LEMMA PipeNext == TypeOK /\ Core /\ Pipe /\ [Next]_vars => Pipe'
  BY SetSourcePipe, AppSetSourcePipe, RequestPipe, AppGetblkPipe, HitPipe, TooFarBackPipe, MissPipe,
     SeekPipe, SeekFailsPipe, SkipPipe, EndSkipPipe, ReadPipe, StutterPipe
     DEF Next, Serve, Stopped

LEMMA PipeKeepsWindow == TypeOK /\ Core /\ Pipe => WindowKept
<1> SUFFICES ASSUME TypeOK, Core, Pipe, kind = "pipe", do_src_fifo, pc = "IDLE", Alive
             PROVE  \E newest \in {lru[i].blkno : i \in Slots} :
                      \A blkno \in 0 .. MaxBlk :
                        Cached(blkno) # {} <=> blkno \in newest - LruSize + 1 .. newest
  BY DEF WindowKept
<1>1. PICK newest \in 0 .. MaxBlk : Slide(newest)
  BY DEF Pipe, Sliding
<1>2. /\ lru_size = LruSize /\ LruSize \in Nat \ {0} /\ newest \in Nat /\ MaxBlk \in Nat
      /\ newest - LruSize + 1 \in 0 .. newest
      /\ \A b \in Nat : FifoSlot(b) \in Slots /\ FifoSlot(b) = b % LruSize
  BY <1>1, SlideProperties
<1>3. \A i \in Slots : /\ lru[i].blkno \in newest - LruSize + 1 .. newest
                       /\ lru[i].blkno % LruSize = i
  BY <1>1 DEF Slide
<1>s. Slots = 0 .. LruSize - 1
  BY StateFacts
<1>4. ASSUME NEW b \in 0 .. MaxBlk, b \in newest - LruSize + 1 .. newest
      PROVE  lru[FifoSlot(b)].blkno = b
  <2> DEFINE i == FifoSlot(b)
             a == lru[i].blkno
  <2>1. b \in Nat /\ i \in Slots /\ i = b % LruSize
    BY <1>2
  <2>2. a \in newest - LruSize + 1 .. newest /\ a % LruSize = b % LruSize
    BY <1>3, <2>1
  <2> HIDE DEF a
  <2>3. a \in Nat /\ a <= newest /\ newest < a + LruSize /\ b <= newest /\ newest < b + LruSize
    BY <1>2, <1>4, <2>1, <2>2
  <2>4. a = b
    BY <1>2, <2>1, <2>2, <2>3, RowRemainder
  <2>5. QED
    BY <2>4 DEF a
<1>5. newest \in newest - LruSize + 1 .. newest
  BY <1>2
<1>6. newest \in {lru[i].blkno : i \in Slots}
  BY <1>2, <1>4, <1>5
<1>7. ASSUME NEW b \in 0 .. MaxBlk
      PROVE  Cached(b) # {} <=> b \in newest - LruSize + 1 .. newest
  <2>1. ASSUME NEW i \in Cached(b) PROVE b \in newest - LruSize + 1 .. newest
    <3>1. i \in Slots /\ lru[i].blkno = b
      BY <1>2, <1>s DEF Cached
    <3>2. QED
      BY <1>3, <3>1
  <2>2. ASSUME b \in newest - LruSize + 1 .. newest PROVE FifoSlot(b) \in Cached(b)
    <3>1. b \in Nat
      BY <1>2
    <3>2. FifoSlot(b) \in 0 .. lru_size - 1
      BY <1>2, <1>s, <3>1
    <3>3. QED
      BY <1>4, <2>2, <3>2 DEF Cached
  <2>3. QED
    BY <2>1, <2>2
<1>8. QED
  BY <1>6, <1>7

LEMMA SkipsWholeBlocks == TypeOK /\ Core /\ Pipe => SkipAligned
<1> SUFFICES ASSUME TypeOK, Core, Pipe, ~source.past_end, ~source.seek_errors,
                    pc = "SKIP", source_position < Start(request)
             PROVE  source_position % src.blksize = 0 /\ Cached(SkipBlkno) = {}
  BY DEF SkipAligned, SkipAlignedAlways
<1>c. /\ src.blksize \in Nat \ {0} /\ size \in Nat /\ source_position \in Nat
      /\ Start(request) \in Nat /\ request \in 0 .. MaxBlk /\ MaxBlk \in Nat
  BY StateFacts
<1>1. Alive /\ Start(request) <= size /\ ~CanSeek /\ kind # "app"
  BY DEF Core, Stepping, Alive
<1>2. kind = "pipe"
  <2>1. kind \in {"file", "pipe", "device", "app"}
    BY StateConstants
  <2>2. QED
    BY <1>1, <2>1 DEF CanSeek
<1>3. do_src_fifo
  BY <1>2, PipeIsFifo
<1>4. PICK newest \in 0 .. MaxBlk : Slide(newest)
  BY <1>1, <1>2, <1>3 DEF Pipe, Sliding
<1>5. /\ newest \in Nat
      /\ \/ source_position = Start(newest + 1)
         \/ source_position = size /\ Start(newest) <= size /\ size < Start(newest + 1)
      /\ \A b \in Nat : b <= MaxBlk /\ newest < b => Cached(b) = {}
  BY <1>3, <1>4, SlideProperties
<1>6. source_position = Start(newest + 1)
  BY <1>c, <1>1, <1>5
<1>7. newest + 1 \in Nat /\ source_position = (newest + 1) * src.blksize
  BY <1>5, <1>6 DEF Start
<1>8. source_position % src.blksize = 0 /\ SkipBlkno = newest + 1
  <2>1. /\ ((newest + 1) * src.blksize) % src.blksize = 0
        /\ ((newest + 1) * src.blksize) \div src.blksize = newest + 1
    BY <1>c, <1>7, BlockStarts
  <2>2. QED
    BY <1>7, <2>1 DEF SkipBlkno
<1>9. newest + 1 <= MaxBlk
  <2>1. request > newest
    BY <1>4 DEF Slide
  <2>2. QED
    BY <1>c, <1>5, <2>1
<1>10. newest < newest + 1
  BY <1>5
<1>11. QED
  BY <1>5, <1>7, <1>8, <1>9, <1>10

\* The invariant of the cache holds in every state that is reached.
LEMMA SourceInvariant == Spec => [](TypeOK /\ Core /\ Pipe)
<1>1. Init => TypeOK /\ Core /\ Pipe
  BY TypesInit, CoreInit, PipeInit
<1>2. TypeOK /\ Core /\ Pipe /\ [Next]_vars => (TypeOK /\ Core /\ Pipe)'
  BY TypesNext, CoreNext, PipeNext DEF Core
<1>3. QED
  BY <1>1, <1>2, PTL DEF Spec

\* Whatever is read, sought, skipped, refused and evicted by main_getblk_lru, a buffer
\* that says it holds a block holds that block, whole; so does the block at hand, which
\* xd3_getblk returns without asking; and the assertions of main_read_seek_source hold.
THEOREM BlocksTrueAlways == Spec => []BlocksTrue
<1>1. TypeOK /\ Core /\ Pipe => BlocksTrue
  <2>1. TypeOK /\ Core => BuffersTrue /\ CurrentTrue
    BY DEF Core, AtHand, CurrentTrue, Alive
  <2>2. QED
    BY <2>1, SkipsWholeBlocks DEF BlocksTrue
<1>2. QED
  BY <1>1, SourceInvariant, PTL

\* A source ends where xd3_getblk concludes that it does, in whatever order its blocks
\* are requested, and until it is known the end is not put too far.
THEOREM EofTrueAlways == Spec => []EofTrue
<1>1. TypeOK /\ Core /\ Pipe => EofTrue
  BY DEF Core, EndInv, EofTrue, Alive
<1>2. QED
  BY <1>1, SourceInvariant, PTL

\* A pipe's last blocks, as many as there are buffers, can always be had again, and
\* XD3_TOOFARBACK is returned only for a block that is gone and behind.
THEOREM RefusedOnlyBehindAlways == Spec => []RefusedOnlyBehind
<1>1. TypeOK /\ Core /\ Pipe => RefusedOnlyBehind
  BY PipeKeepsWindow DEF RefusedOnlyBehind, Pipe
<1>2. QED
  BY <1>1, SourceInvariant, PTL
=============================================================================
