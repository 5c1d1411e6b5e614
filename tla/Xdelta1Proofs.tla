--------------------------- MODULE Xdelta1Proofs ---------------------------
(***************************************************************************)
(* Proofs about xdelta 1.  The list of mapped pages of a file stays a      *)
(* list, whatever is mapped in whatever order, and a digest that is        *)
(* complete is the one of the file.  Then the loops of delta and patch,    *)
(* one after the other (XInv): no assertion fails, and a patch gives the   *)
(* target back.                                                            *)
(***************************************************************************)
EXTENDS Xdelta1, Lemmas, FiniteSetTheorems

(***************************************************************************)
(* The handle of a file that is read.                                      *)
(***************************************************************************)

PageOrNull == PageNumbers \cup {Null}
Handles ==
  [data : Seq(Byte), seek : BOOLEAN, head : PageOrNull, tail : PageOrNull, count : Int,
   next : [PageNumbers -> PageOrNull], prev : [PageNumbers -> PageOrNull],
   buffer : [PageNumbers -> BOOLEAN], refs : [PageNumbers -> Nat],
   md5_page : Nat, hashed : Seq(Byte), status : {"ok", "abort", "failed"}]

\* The pages of s, the one used last first, are on the list of h.
ListIs(h, s) ==
  /\ s \in Seq(PageNumbers)
  /\ \A i, j \in 1 .. Len(s) : s[i] = s[j] => i = j
  /\ h.head = IF Len(s) = 0 THEN Null ELSE s[1]
  /\ h.tail = IF Len(s) = 0 THEN Null ELSE s[Len(s)]
  /\ \A i \in 1 .. Len(s) :
       /\ h.next[s[i]] = IF i = 1 THEN Null ELSE s[i - 1]
       /\ h.prev[s[i]] = IF i = Len(s) THEN Null ELSE s[i + 1]

\* The list of h has n pages, those of P.
Tracks(h, P, n) ==
  \E s : /\ ListIs(h, s) /\ Len(s) = n
         /\ \A p \in PageNumbers : (\E i \in 1 .. Len(s) : s[i] = p) <=> p \in P

Of(s) == {s[i] : i \in 1 .. Len(s)}

\* Null is no page.
LEMMA PageFacts ==
  /\ PageNumbers \subseteq Nat /\ Null \notin PageNumbers /\ Null \in Int
  /\ \A p \in PageNumbers : p # Null
BY FileAssumptions DEF PageNumbers, Null

\* What is pulled from the list leaves the others in their order.
LEMMA Pulled ==
  ASSUME NEW h \in Handles, NEW s, ListIs(h, s), NEW i \in 1 .. Len(s)
  PROVE  /\ PullLru(h, s[i]) \in Handles
         /\ Tracks(PullLru(h, s[i]), Of(s) \ {s[i]}, Len(s) - 1)
<1> DEFINE t == SubSeq(s, 1, i - 1) \o SubSeq(s, i + 1, Len(s))
           p == s[i]
           n == h.next[p]
           v == h.prev[p]
           g == PullLru(h, p)
<1>1. /\ s \in Seq(PageNumbers) /\ Len(s) \in Nat /\ p \in PageNumbers
      /\ \A j, k \in 1 .. Len(s) : s[j] = s[k] => j = k
      /\ \A j \in 1 .. Len(s) : s[j] \in PageNumbers /\ s[j] # Null
  BY PageFacts DEF ListIs
<1>2. /\ t \in Seq(PageNumbers) /\ Len(t) = Len(s) - 1
      /\ \A j \in 1 .. Len(s) - 1 : t[j] = IF j < i THEN s[j] ELSE s[j + 1]
  BY <1>1, RemoveAtProperties, Zenon
<1>3. /\ n = (IF i = 1 THEN Null ELSE s[i - 1]) /\ v = (IF i = Len(s) THEN Null ELSE s[i + 1])
      /\ n \in PageOrNull /\ v \in PageOrNull
  BY <1>1 DEF ListIs, PageOrNull
<1>4. /\ g \in Handles
      /\ g.next = [q \in PageNumbers |-> IF q = p THEN Null ELSE IF q = v THEN n ELSE h.next[q]]
      /\ g.prev = [q \in PageNumbers |-> IF q = p THEN Null ELSE IF q = n THEN v ELSE h.prev[q]]
      /\ g.head = (IF n = Null THEN v ELSE h.head)
      /\ g.tail = (IF v = Null THEN n ELSE h.tail)
  <2> DEFINE next == [q \in PageNumbers |-> IF q = p THEN Null ELSE IF q = v THEN n ELSE h.next[q]]
             prev == [q \in PageNumbers |-> IF q = p THEN Null ELSE IF q = n THEN v ELSE h.prev[q]]
             head == IF n = Null THEN v ELSE h.head
             tail == IF v = Null THEN n ELSE h.tail
  <2>1. /\ next \in [PageNumbers -> PageOrNull] /\ prev \in [PageNumbers -> PageOrNull]
        /\ head \in PageOrNull /\ tail \in PageOrNull
    BY <1>3 DEF Handles, PageOrNull
  <2>2. g = [h EXCEPT !.next = next, !.prev = prev, !.head = head, !.tail = tail]
    BY Zenon DEF PullLru
  <2> HIDE DEF next, prev, head, tail, g
  <2>3. g \in Handles /\ g.next = next /\ g.prev = prev /\ g.head = head /\ g.tail = tail
    BY <2>1, <2>2 DEF Handles
  <2>4. QED
    BY <2>3, Zenon DEF next, prev, head, tail
<1> HIDE DEF t, g, n, v
<1>5. g.head = IF Len(t) = 0 THEN Null ELSE t[1]
  BY <1>1, <1>2, <1>3, <1>4, SMTT(40) DEF ListIs
<1>6. g.tail = IF Len(t) = 0 THEN Null ELSE t[Len(t)]
  <2>1. CASE i = Len(s)
    BY <1>1, <1>2, <1>3, <1>4, <2>1
  <2>2. CASE i < Len(s)
    <3>1. Len(t) # 0 /\ t[Len(t)] = s[Len(s)] /\ v # Null
      BY <1>1, <1>2, <1>3, <2>2
    <3>2. h.tail = s[Len(s)]
      BY <1>1 DEF ListIs
    <3>3. QED
      BY <1>4, <3>1, <3>2
  <2>3. QED
    BY <1>1, <2>1, <2>2
<1>7. ASSUME NEW j \in 1 .. Len(t)
      PROVE  /\ g.next[t[j]] = IF j = 1 THEN Null ELSE t[j - 1]
             /\ g.prev[t[j]] = IF j = Len(t) THEN Null ELSE t[j + 1]
  <2>1. /\ \A k \in 1 .. Len(s) : h.next[s[k]] = IF k = 1 THEN Null ELSE s[k - 1]
        /\ \A k \in 1 .. Len(s) : h.prev[s[k]] = IF k = Len(s) THEN Null ELSE s[k + 1]
    BY DEF ListIs
  <2>2. CASE j < i
    <3>1. /\ t[j] = s[j] /\ s[j] # p /\ j + 1 <= Len(s)
          /\ (j = 1 \/ t[j - 1] = s[j - 1])
      BY <1>1, <1>2, <2>2
    <3>2. s[j] # v
      BY <1>1, <1>3, <2>2
    <3>3. g.next[t[j]] = IF j = 1 THEN Null ELSE t[j - 1]
      BY <1>1, <1>4, <2>1, <3>1, <3>2
    <3>4. s[j] = n <=> j = i - 1
      BY <1>1, <1>3, <2>2
    <3>5. g.prev[t[j]] = IF j = i - 1 THEN v ELSE s[j + 1]
      BY <1>1, <1>4, <2>1, <3>1, <3>4, <2>2, SMTT(40)
    <3>6. QED
      BY <1>1, <1>2, <1>3, <2>2, <3>3, <3>5
  <2>3. CASE j >= i
    <3>1. /\ t[j] = s[j + 1] /\ s[j + 1] # p /\ j + 1 <= Len(s)
          /\ (j = i \/ t[j - 1] = s[j])
      BY <1>1, <1>2, <2>3
    <3>2. s[j + 1] # n
      BY <1>1, <1>3, <2>3, <3>1
    <3>3. g.prev[t[j]] = IF j + 1 = Len(s) THEN Null ELSE s[j + 2]
      BY <1>1, <1>4, <2>1, <3>1, <3>2
    <3>4. s[j + 1] = v <=> j = i
      BY <1>1, <1>3, <2>3, <3>1
    <3>5. g.next[t[j]] = IF j = i THEN n ELSE s[j]
      BY <1>1, <1>4, <2>1, <3>1, <3>4, <2>3
    <3>6. g.next[t[j]] = IF j = 1 THEN Null ELSE t[j - 1]
      <4>1. CASE j = i
        <5>1. j # 1 => t[j - 1] = s[j - 1]
          BY <1>1, <1>2, <4>1
        <5>2. g.next[t[j]] = n
          BY <3>5, <4>1
        <5>3. QED
          BY <1>3, <4>1, <5>1, <5>2
      <4>2. CASE j # i
        <5>1. j # 1 /\ t[j - 1] = s[j]
          BY <1>1, <1>2, <2>3, <3>1, <4>2
        <5>2. QED
          BY <3>5, <4>2, <5>1
      <4>3. QED
        BY <4>1, <4>2
    <3>7. g.prev[t[j]] = IF j = Len(t) THEN Null ELSE t[j + 1]
      BY <1>1, <1>2, <2>3, <3>3
    <3>8. QED
      BY <3>6, <3>7
  <2>4. QED
    BY <1>1, <1>2, <2>2, <2>3
<1>8. \A j, k \in 1 .. Len(t) : t[j] = t[k] => j = k
  <2>1. SUFFICES ASSUME NEW j \in 1 .. Len(t), NEW k \in 1 .. Len(t), t[j] = t[k]
                 PROVE  j = k
    OBVIOUS
  <2>2. PICK a \in 1 .. Len(s) : t[j] = s[a] /\ a = IF j < i THEN j ELSE j + 1
    BY <1>1, <1>2
  <2>3. PICK b \in 1 .. Len(s) : t[k] = s[b] /\ b = IF k < i THEN k ELSE k + 1
    BY <1>1, <1>2
  <2>4. a = b
    BY <1>1, <2>1, <2>2, <2>3
  <2>5. QED
    BY <1>1, <1>2, <2>2, <2>3, <2>4
<1>9. ListIs(g, t)
  BY <1>2, <1>5, <1>6, <1>7, <1>8 DEF ListIs
<1>10. ASSUME NEW q \in PageNumbers
       PROVE  (\E j \in 1 .. Len(t) : t[j] = q) <=> q # p /\ (\E j \in 1 .. Len(s) : s[j] = q)
  <2>1. ASSUME NEW j \in 1 .. Len(t), t[j] = q
        PROVE  q # p /\ \E k \in 1 .. Len(s) : s[k] = q
    BY <1>1, <1>2, <2>1
  <2>2. ASSUME NEW j \in 1 .. Len(s), s[j] = q, q # p
        PROVE  \E k \in 1 .. Len(t) : t[k] = q
    <3>1. CASE j < i
      BY <1>1, <1>2, <2>2, <3>1
    <3>2. CASE j > i
      <4>1. j - 1 \in 1 .. Len(t) /\ t[j - 1] = q
        BY <1>1, <1>2, <2>2, <3>2
      <4>2. QED
        BY <4>1
    <3>3. QED
      BY <1>1, <2>2, <3>1, <3>2
  <2>3. QED
    BY <2>1, <2>2
<1>11. Tracks(g, Of(s) \ {p}, Len(s) - 1)
  <2>1. \A q \in PageNumbers : (\E j \in 1 .. Len(t) : t[j] = q) <=> q \in Of(s) \ {p}
    BY <1>10 DEF Of
  <2>2. QED
    BY <1>2, <1>9, <2>1 DEF Tracks
<1>12. QED
  BY <1>4, <1>11 DEF g

\* A page that is pushed on the head of the list comes first.
LEMMA Pushed ==
  ASSUME NEW h \in Handles, NEW s, ListIs(h, s), NEW p \in PageNumbers,
         \A i \in 1 .. Len(s) : s[i] # p
  PROVE  /\ PushHead(h, p) \in Handles
         /\ Tracks(PushHead(h, p), Of(s) \cup {p}, Len(s) + 1)
<1> DEFINE t == <<p>> \o s
           g == PushHead(h, p)
           next == [q \in PageNumbers |-> IF q = p THEN Null ELSE IF q = h.head THEN p ELSE h.next[q]]
           prev == [h.prev EXCEPT ![p] = h.head]
           tail == IF h.tail = Null THEN p ELSE h.tail
<1>1. /\ s \in Seq(PageNumbers) /\ Len(s) \in Nat /\ p # Null
      /\ \A j, k \in 1 .. Len(s) : s[j] = s[k] => j = k
      /\ \A j \in 1 .. Len(s) : s[j] \in PageNumbers /\ s[j] # Null
  BY PageFacts DEF ListIs
<1>2. t \in Seq(PageNumbers) /\ Len(t) = Len(s) + 1 /\ t[1] = p /\ \A i \in 1 .. Len(s) : t[i + 1] = s[i]
  BY <1>1
<1>3. /\ next \in [PageNumbers -> PageOrNull] /\ prev \in [PageNumbers -> PageOrNull] /\ tail \in PageOrNull
      /\ h.head \in PageOrNull /\ p \in PageOrNull
      /\ \A q \in PageNumbers : prev[q] = IF q = p THEN h.head ELSE h.prev[q]
  BY DEF Handles, PageOrNull
<1>4. g = [h EXCEPT !.next = next, !.prev = prev, !.head = p, !.tail = tail]
  BY Zenon DEF PushHead
<1>5. /\ g \in Handles /\ g.next = next /\ g.head = p /\ g.tail = tail
      /\ g.prev = prev
  <2> HIDE DEF next, prev, tail, g
  <2>1. QED
    BY <1>3, <1>4 DEF Handles
<1> HIDE DEF t, g, prev
<1>6. \A j \in 2 .. Len(t) : t[j] = s[j - 1] /\ t[j] # p /\ j - 1 \in 1 .. Len(s)
  BY <1>1, <1>2
<1>7. g.head = t[1] /\ g.tail = t[Len(t)]
  BY <1>1, <1>2, <1>5 DEF ListIs
<1>8. ASSUME NEW j \in 1 .. Len(t), NEW k \in 1 .. Len(t), t[j] = t[k]
      PROVE  j = k
  <2>1. CASE j = 1 \/ k = 1
    BY <1>1, <1>2, <1>6, <1>8, <2>1
  <2>2. CASE j # 1 /\ k # 1
    <3>1. /\ j - 1 \in 1 .. Len(s) /\ k - 1 \in 1 .. Len(s) /\ s[j - 1] = s[k - 1]
          /\ j \in Nat /\ k \in Nat
      BY <1>1, <1>2, <1>6, <1>8, <2>2
    <3>2. j - 1 = k - 1
      BY <1>1, <3>1
    <3>3. QED
      BY <3>1, <3>2
  <2>3. QED
    BY <2>1, <2>2
<1>9. ASSUME NEW j \in 1 .. Len(t)
      PROVE  /\ g.next[t[j]] = IF j = 1 THEN Null ELSE t[j - 1]
             /\ g.prev[t[j]] = IF j = Len(t) THEN Null ELSE t[j + 1]
  <2>1. CASE j = 1
    <3>1. g.prev[t[j]] = h.head /\ g.next[t[j]] = Null
      BY <1>2, <1>3, <1>5, <2>1
    <3>2. h.head = IF Len(s) = 0 THEN Null ELSE t[2]
      BY <1>1, <1>2, <1>6 DEF ListIs
    <3>3. QED
      BY <1>1, <1>2, <2>1, <3>1, <3>2
  <2>2. CASE j > 1
    <3>1. /\ t[j] = s[j - 1] /\ t[j] # p /\ j - 1 \in 1 .. Len(s) /\ s[j - 1] \in PageNumbers
          /\ h.head = s[1]
      BY <1>1, <1>6, <2>2 DEF ListIs
    <3>2. s[j - 1] = h.head <=> j = 2
      BY <1>1, <3>1
    <3>3. h.next[s[j - 1]] = IF j = 2 THEN Null ELSE s[j - 2]
      BY <3>1 DEF ListIs
    <3>4. g.next[t[j]] = IF j = 2 THEN p ELSE s[j - 2]
      BY <1>5, <3>1, <3>2, <3>3
    <3>5. g.next[t[j]] = t[j - 1]
      BY <1>2, <1>6, <2>2, <3>4
    <3>6. g.prev[t[j]] = IF j - 1 = Len(s) THEN Null ELSE s[j]
      BY <1>3, <1>5, <3>1, SMTT(40) DEF ListIs
    <3>7. QED
      BY <1>1, <1>2, <2>2, <3>5, <3>6
  <2>3. QED
    BY <1>1, <1>2, <2>1, <2>2
<1>10. ListIs(g, t)
  BY <1>1, <1>2, <1>7, <1>8, <1>9 DEF ListIs
<1>11. ASSUME NEW q \in PageNumbers
       PROVE  (\E i \in 1 .. Len(t) : t[i] = q) <=> q = p \/ (\E i \in 1 .. Len(s) : s[i] = q)
  <2>1. ASSUME NEW i \in 1 .. Len(t), t[i] = q
        PROVE  q = p \/ (\E k \in 1 .. Len(s) : s[k] = q)
    BY <1>1, <1>2, <1>6, <2>1
  <2>2. q = p => \E i \in 1 .. Len(t) : t[i] = q
    BY <1>1, <1>2
  <2>3. ASSUME NEW i \in 1 .. Len(s), s[i] = q
        PROVE  \E k \in 1 .. Len(t) : t[k] = q
    BY <1>1, <1>2, <2>3
  <2>4. QED
    BY <2>1, <2>2, <2>3
<1>12. Tracks(g, Of(s) \cup {p}, Len(s) + 1)
  <2>1. \A q \in PageNumbers : (\E j \in 1 .. Len(t) : t[j] = q) <=> q \in Of(s) \cup {p}
    BY <1>11 DEF Of
  <2>2. QED
    BY <1>2, <1>10, <2>1 DEF Tracks
<1>13. QED
  BY <1>5, <1>12 DEF g

\* What is pushed on the tail and pulled again leaves the list as it was, also one
\* that was empty, where the push alone leaves a tail without a head.
LEMMA TailPulled ==
  ASSUME NEW h \in Handles, NEW s, ListIs(h, s), NEW p \in PageNumbers,
         \A i \in 1 .. Len(s) : s[i] # p
  PROVE  LET g == PushTail(h, p)
         IN  /\ g \in Handles /\ g.tail = p
             /\ g = [h EXCEPT !.next = g.next, !.prev = g.prev, !.tail = p]
             /\ PullLru(g, p) \in Handles
             /\ ListIs(PullLru(g, p), s)
<1> DEFINE g == PushTail(h, p)
           next == [h.next EXCEPT ![p] = h.tail]
           prev == [q \in PageNumbers |-> IF q = p THEN Null ELSE IF q = h.tail THEN p ELSE h.prev[q]]
           f == PullLru(g, p)
           fnext == [q \in PageNumbers |-> IF q = p THEN Null ELSE IF q = g.prev[p] THEN g.next[p] ELSE g.next[q]]
           fprev == [q \in PageNumbers |-> IF q = p THEN Null ELSE IF q = g.next[p] THEN g.prev[p] ELSE g.prev[q]]
           fhead == IF g.next[p] = Null THEN g.prev[p] ELSE g.head
           ftail == IF g.prev[p] = Null THEN g.next[p] ELSE g.tail
<1>1. /\ s \in Seq(PageNumbers) /\ Len(s) \in Nat /\ p # Null
      /\ \A j, k \in 1 .. Len(s) : s[j] = s[k] => j = k
      /\ \A j \in 1 .. Len(s) : s[j] \in PageNumbers /\ s[j] # Null /\ s[j] # p
  BY PageFacts DEF ListIs
<1>2. /\ next \in [PageNumbers -> PageOrNull] /\ prev \in [PageNumbers -> PageOrNull]
      /\ p \in PageOrNull /\ h.tail \in PageOrNull /\ h.head \in PageOrNull
      /\ \A q \in PageNumbers : next[q] = IF q = p THEN h.tail ELSE h.next[q]
  BY DEF Handles, PageOrNull
<1>3. g = [h EXCEPT !.next = next, !.prev = prev, !.tail = p]
  BY Zenon DEF PushTail
<1>4. g \in Handles /\ g.next = next /\ g.prev = prev /\ g.tail = p /\ g.head = h.head
  <2> HIDE DEF next, prev, g
  <2>1. QED
    BY <1>2, <1>3 DEF Handles
<1>5. g.next[p] = h.tail /\ g.prev[p] = Null
  BY <1>2, <1>4
<1>6. f = [g EXCEPT !.next = fnext, !.prev = fprev, !.head = fhead, !.tail = ftail]
  <2> HIDE DEF g
  <2>1. QED
    BY Zenon DEF PullLru
<1> HIDE DEF g, f
<1>7. /\ fnext \in [PageNumbers -> PageOrNull] /\ fprev \in [PageNumbers -> PageOrNull]
      /\ fhead = h.head /\ ftail = h.tail
  <2>1. h.tail = Null <=> h.head = Null
    BY <1>1 DEF ListIs
  <2>2. fhead = h.head /\ ftail = h.tail
    BY <1>4, <1>5, <2>1
  <2>3. Null \in PageOrNull /\ g.next \in [PageNumbers -> PageOrNull] /\ g.prev \in [PageNumbers -> PageOrNull]
    BY <1>4 DEF Handles, PageOrNull
  <2>4. QED
    BY <1>2, <1>5, <2>2, <2>3
<1>8. f \in Handles /\ f.next = fnext /\ f.prev = fprev /\ f.head = h.head /\ f.tail = h.tail
  <2> HIDE DEF fnext, fprev, fhead, ftail
  <2>1. QED
    BY <1>2, <1>4, <1>6, <1>7 DEF Handles
<1>9. ASSUME NEW j \in 1 .. Len(s)
      PROVE  f.next[s[j]] = h.next[s[j]] /\ f.prev[s[j]] = h.prev[s[j]]
  <2>1. s[j] \in PageNumbers /\ s[j] # p /\ s[j] # Null
    BY <1>1
  <2>2. f.next[s[j]] = h.next[s[j]]
    BY <1>2, <1>4, <1>5, <1>8, <2>1
  <2>3. s[j] = h.tail => h.prev[s[j]] = Null
    BY <1>1 DEF ListIs
  <2>4. f.prev[s[j]] = h.prev[s[j]]
    BY <1>2, <1>4, <1>5, <1>8, <2>1, <2>3
  <2>5. QED
    BY <2>2, <2>4
<1>10. ListIs(f, s)
  BY <1>8, <1>9 DEF ListIs
<1>11. g = [h EXCEPT !.next = g.next, !.prev = g.prev, !.tail = p]
  BY <1>3, <1>4
<1>12. QED
  BY <1>4, <1>8, <1>10, <1>11, Zenon DEF g, f

\* What the list has nothing to do with.
SameButList(g, h) ==
  /\ g.data = h.data /\ g.seek = h.seek /\ g.count = h.count /\ g.buffer = h.buffer
  /\ g.refs = h.refs /\ g.md5_page = h.md5_page /\ g.hashed = h.hashed /\ g.status = h.status

\* What changes the list changes nothing else of the handle.
LEMMA ListOnly ==
  ASSUME NEW h \in Handles, NEW p
  PROVE  SameButList(PullLru(h, p), h) /\ SameButList(PushHead(h, p), h) /\ SameButList(PushTail(h, p), h)
<1> DEFINE A(next, prev) == [h EXCEPT !.next = next, !.prev = prev]
           Z(next, prev, head, tail) == [h EXCEPT !.next = next, !.prev = prev, !.head = head, !.tail = tail]
           B(next, prev, tail) == [h EXCEPT !.next = next, !.prev = prev, !.tail = tail]
<1>1. \A next, prev, head, tail : SameButList(Z(next, prev, head, tail), h) /\ SameButList(B(next, prev, tail), h)
  BY DEF SameButList, Handles
<1>2. \E next, prev, head, tail : PullLru(h, p) = Z(next, prev, head, tail)
  BY Zenon DEF PullLru
<1>3. \E next, prev, head, tail : PushHead(h, p) = Z(next, prev, head, tail)
  BY Zenon DEF PushHead
<1>4. \E next, prev, tail : PushTail(h, p) = B(next, prev, tail)
  BY Zenon DEF PushTail
<1> HIDE DEF Z, B
<1>5. QED
  BY <1>1, <1>2, <1>3, <1>4, Zenon

\* Only the pages of P that there are matter.
LEMMA SamePages ==
  ASSUME NEW h, NEW P, NEW Q, NEW n, Tracks(h, P, n), \A p \in PageNumbers : p \in P <=> p \in Q
  PROVE  Tracks(h, Q, n)
BY Zenon DEF Tracks

\* Handles with the same links have the same list.
LEMMA SameList ==
  ASSUME NEW g, NEW f, f.head = g.head, f.tail = g.tail, f.next = g.next, f.prev = g.prev
  PROVE  \A P, n : Tracks(g, P, n) => Tracks(f, P, n)
<1>1. \A s : ListIs(g, s) => ListIs(f, s)
  BY DEF ListIs
<1>2. QED
  BY <1>1, Zenon DEF Tracks

\* pull_lru takes one page off the list.
LEMMA PullTracks ==
  ASSUME NEW h \in Handles, NEW P, NEW n \in Nat, Tracks(h, P, n), NEW p \in PageNumbers, p \in P
  PROVE  PullLru(h, p) \in Handles /\ Tracks(PullLru(h, p), P \ {p}, n - 1) /\ n > 0
<1>1. PICK s : /\ ListIs(h, s) /\ Len(s) = n
               /\ \A q \in PageNumbers : (\E i \in 1 .. Len(s) : s[i] = q) <=> q \in P
  BY DEF Tracks
<1>2. PICK i \in 1 .. Len(s) : s[i] = p
  BY <1>1
<1>3. PullLru(h, p) \in Handles /\ Tracks(PullLru(h, p), Of(s) \ {p}, n - 1)
  BY <1>1, <1>2, Pulled
<1>4. \A q \in PageNumbers : q \in Of(s) \ {p} <=> q \in P \ {p}
  BY <1>1 DEF Of
<1>5. n > 0
  BY <1>1, <1>2
<1>6. QED
  BY <1>3, <1>4, <1>5, SamePages

\* A page that is not listed becomes the first of the list.
LEMMA PushTracks ==
  ASSUME NEW h \in Handles, NEW P, NEW n \in Nat, Tracks(h, P, n), NEW p \in PageNumbers, p \notin P
  PROVE  PushHead(h, p) \in Handles /\ Tracks(PushHead(h, p), P \cup {p}, n + 1)
<1>1. PICK s : /\ ListIs(h, s) /\ Len(s) = n
               /\ \A q \in PageNumbers : (\E i \in 1 .. Len(s) : s[i] = q) <=> q \in P
  BY DEF Tracks
<1>2. \A i \in 1 .. Len(s) : s[i] # p
  BY <1>1
<1>3. PushHead(h, p) \in Handles /\ Tracks(PushHead(h, p), Of(s) \cup {p}, n + 1)
  BY <1>1, <1>2, Pushed
<1>4. \A q \in PageNumbers : q \in Of(s) \cup {p} <=> q \in P \cup {p}
  BY <1>1 DEF Of
<1>5. QED
  BY <1>3, <1>4, SamePages

\* The tail is a page of the list, if there is any, and the page pushed on a list
\* that was not empty is not its tail.
LEMMA TailTracks ==
  ASSUME NEW h \in Handles, NEW P, NEW n \in Nat, Tracks(h, P, n)
  PROVE  /\ n = 0 => h.tail = Null
         /\ n > 0 => h.tail \in PageNumbers /\ h.tail \in P
         /\ \A p \in PageNumbers : p \notin P /\ n > 0 => PushHead(h, p).tail = h.tail
<1>1. PICK s : /\ ListIs(h, s) /\ Len(s) = n
               /\ \A q \in PageNumbers : (\E i \in 1 .. Len(s) : s[i] = q) <=> q \in P
  BY DEF Tracks
<1>2. n = 0 => h.tail = Null
  BY <1>1 DEF ListIs
<1>3. n > 0 => h.tail = s[Len(s)] /\ s[Len(s)] \in PageNumbers
  BY <1>1 DEF ListIs
<1>4. n > 0 => h.tail \in PageNumbers /\ h.tail \in P
  BY <1>1, <1>3
<1>5. ASSUME NEW p \in PageNumbers, n > 0
      PROVE  PushHead(h, p).tail = h.tail
  <2>1. h.tail # Null
    BY <1>4, <1>5, PageFacts
  <2>2. PICK next, prev, head, tail :
          /\ PushHead(h, p) = [h EXCEPT !.next = next, !.prev = prev, !.head = head, !.tail = tail]
          /\ tail = IF h.tail = Null THEN p ELSE h.tail
    BY Zenon DEF PushHead
  <2>3. PushHead(h, p).tail = tail
    BY <2>2 DEF Handles
  <2>4. QED
    BY <2>1, <2>2, <2>3
<1>6. QED
  BY <1>2, <1>4, <1>5

\* A page that has been pushed to the tail can be pulled again: the list is as before.
LEMMA TailTracksOn ==
  ASSUME NEW h \in Handles, NEW P, NEW n \in Nat, Tracks(h, P, n), NEW p \in PageNumbers, p \notin P
  PROVE  /\ PushTail(h, p) \in Handles /\ PushTail(h, p).tail = p
         /\ PullLru(PushTail(h, p), p) \in Handles
         /\ Tracks(PullLru(PushTail(h, p), p), P, n)
<1>1. PICK s : /\ ListIs(h, s) /\ Len(s) = n
               /\ \A q \in PageNumbers : (\E i \in 1 .. Len(s) : s[i] = q) <=> q \in P
  BY DEF Tracks
<1>2. \A i \in 1 .. Len(s) : s[i] # p
  BY <1>1
<1>3. /\ PushTail(h, p) \in Handles /\ PushTail(h, p).tail = p
      /\ PullLru(PushTail(h, p), p) \in Handles
      /\ ListIs(PullLru(PushTail(h, p), p), s)
  BY ZenonT(40), <1>1, <1>2, TailPulled
<1>4. QED
  BY <1>1, <1>3 DEF Tracks

\* What does not concern the pages at all.
SameFile(g, h) ==
  g.data = h.data /\ g.seek = h.seek /\ g.md5_page = h.md5_page /\ g.hashed = h.hashed

\* really_free_one_page, when there is a tail that nobody uses.
Freed(h, t) == [PullLru(h, t) EXCEPT !.count = @ - 1, !.buffer[t] = FALSE]

\* really_free_one_page: the page at the tail leaves the list.
LEMMA FreedFacts ==
  ASSUME NEW h \in Handles, NEW t \in PageNumbers, PullLru(h, t) \in Handles
  PROVE  /\ Freed(h, t) \in Handles /\ SameFile(Freed(h, t), h)
         /\ Freed(h, t).count = h.count - 1 /\ Freed(h, t).refs = h.refs
         /\ Freed(h, t).status = h.status
         /\ Freed(h, t).buffer = [h.buffer EXCEPT ![t] = FALSE]
         /\ Listed(Freed(h, t)) = Listed(h) \ {t}
         /\ \A P, n : Tracks(PullLru(h, t), P, n) => Tracks(Freed(h, t), P, n)
<1> DEFINE g == PullLru(h, t)
           f == Freed(h, t)
<1>1. SameButList(g, h)
  BY ListOnly
<1>2. f = [g EXCEPT !.count = @ - 1, !.buffer = [g.buffer EXCEPT ![t] = FALSE]]
  BY Zenon DEF Freed
<1>3. g \in Handles
  OBVIOUS
<1> HIDE DEF f, g
<1>4. /\ f \in Handles /\ f.count = g.count - 1 /\ f.buffer = [g.buffer EXCEPT ![t] = FALSE]
      /\ f.data = g.data /\ f.seek = g.seek /\ f.md5_page = g.md5_page /\ f.hashed = g.hashed
      /\ f.refs = g.refs /\ f.status = g.status
      /\ f.head = g.head /\ f.tail = g.tail /\ f.next = g.next /\ f.prev = g.prev
  <2> DEFINE buffer == [g.buffer EXCEPT ![t] = FALSE]
             count == g.count - 1
  <2>1. buffer \in [PageNumbers -> BOOLEAN] /\ count \in Int
    BY <1>3 DEF Handles
  <2>2. f = [g EXCEPT !.count = count, !.buffer = buffer]
    BY <1>2, <1>3 DEF Handles
  <2> HIDE DEF buffer, count
  <2>3. /\ f \in Handles /\ f.count = count /\ f.buffer = buffer
        /\ f.data = g.data /\ f.seek = g.seek /\ f.md5_page = g.md5_page /\ f.hashed = g.hashed
        /\ f.refs = g.refs /\ f.status = g.status
        /\ f.head = g.head /\ f.tail = g.tail /\ f.next = g.next /\ f.prev = g.prev
    BY <1>3, <2>1, <2>2 DEF Handles
  <2>4. QED
    BY <2>3, Zenon DEF buffer, count
<1>5. Listed(f) = Listed(h) \ {t}
  <2>1. \A p \in PageNumbers : f.buffer[p] <=> h.buffer[p] /\ p # t
    BY <1>1, <1>4 DEF SameButList, Handles
  <2>2. QED
    BY <2>1 DEF Listed
<1>6. \A P, n : Tracks(g, P, n) => Tracks(f, P, n)
  BY <1>4, SameList, Zenon
<1>7. QED
  BY <1>1, <1>4, <1>5, <1>6 DEF SameButList, SameFile, f, g

\* The pages of h are tracked, and nobody uses a page that is not mapped.
Sound(h) ==
  /\ Tracks(h, Listed(h), h.count)
  /\ h.count \in 0 .. MaxMappedPages
  /\ \A p \in PageNumbers : h.refs[p] > 0 => h.buffer[p]

Idle(h) == \A p \in PageNumbers : h.refs[p] = 0

\* make_lru_room, for a page p that is on the list already and not mapped yet.
RoomIn(g, h, p) ==
  /\ g \in Handles /\ SameFile(g, h) /\ g.refs = h.refs
  /\ g.status = "ok" =>
       /\ h.status = "ok"
       /\ Tracks(g, Listed(g) \cup {p}, g.count + 1) /\ g.count \in 0 .. MaxMappedPages - 1
       /\ \A q \in PageNumbers : g.refs[q] > 0 => g.buffer[q]
       /\ Listed(g) \subseteq Listed(h)
  /\ h.status = "ok" /\ Idle(h) => g.status = "ok"

\* make_lru_room: there is a place for another page, or the handle fails; it does not
\* fail while no page is used.
LEMMA RoomFacts ==
  ASSUME NEW h \in Handles, NEW p \in PageNumbers, ~h.buffer[p],
         Tracks(h, Listed(h) \cup {p}, h.count + 1), h.count \in 0 .. MaxMappedPages,
         h.count > 0 => h.tail # p,
         \A q \in PageNumbers : h.refs[q] > 0 => h.buffer[q],
         NEW g, g = MakeLruRoom(h)
  PROVE  RoomIn(g, h, p)
<1> USE DEF RoomIn
<1>1. MaxMappedPages \in Nat \ {0}
  BY FileAssumptions
<1>2. ASSUME NEW f \in Handles
      PROVE  /\ Fails(f, "abort") \in Handles /\ SameFile(Fails(f, "abort"), f) /\ Fails(f, "abort").refs = f.refs
             /\ Fails(f, "abort").status = "abort"
             /\ Fails(f, "abort").count = f.count
  BY DEF Fails, Handles, SameFile
<1>3. CASE h.count < MaxMappedPages
  <2>1. g = h
    BY <1>3 DEF MakeLruRoom
  <2>2. h.count \in 0 .. MaxMappedPages - 1
    BY <1>1, <1>3
  <2>3. SameFile(g, h)
    BY <2>1 DEF SameFile
  <2>4. QED
    BY <2>1, <2>2, <2>3, Zenon
<1>4. CASE h.count = MaxMappedPages
  <2> DEFINE t == h.tail
             f == ReallyFreeOnePage(h)
  <2>1. g = IF f.count < MaxMappedPages THEN f ELSE Fails(f, "abort")
    BY <1>4 DEF MakeLruRoom
  <2> HIDE DEF f, t
  <2>2. t \in PageNumbers /\ t \in Listed(h) /\ t # p /\ t # Null
    <3>1. h.count + 1 \in Nat /\ h.count + 1 > 0 /\ h.count > 0
      BY <1>1, <1>4
    <3>2. t \in PageNumbers /\ t \in Listed(h) \cup {p}
      BY <3>1, TailTracks DEF t
    <3>3. t # p
      BY <3>1 DEF t
    <3>4. QED
      BY <3>2, <3>3, PageFacts
  <2>3. h.buffer[t]
    BY <2>2 DEF Listed
  <2>4. CASE h.refs[t] > 0
    <3>1. f = h
      BY <2>2, <2>4 DEF ReallyFreeOnePage, f, t
    <3>2. g = Fails(h, "abort")
      BY <1>4, <2>1, <3>1
    <3>3. ~Idle(h)
      BY <2>2, <2>4 DEF Idle
    <3>4. QED
      BY <1>2, <3>2, <3>3
  <2>5. CASE ~(h.refs[t] > 0)
    <3>1. f = Freed(h, t)
      BY <2>2, <2>3, <2>5, Zenon DEF ReallyFreeOnePage, Freed, f, t
    <3>2. PullLru(h, t) \in Handles /\ Tracks(PullLru(h, t), (Listed(h) \cup {p}) \ {t}, h.count + 1 - 1)
      <4>1. h.count + 1 \in Nat
        BY <1>1, <1>4
      <4>2. t \in Listed(h) \cup {p}
        BY <2>2
      <4>3. QED
        BY <2>2, <4>1, <4>2, PullTracks
    <3>3. /\ f \in Handles /\ SameFile(f, h) /\ f.count = h.count - 1 /\ f.refs = h.refs
          /\ f.status = h.status
          /\ f.buffer = [h.buffer EXCEPT ![t] = FALSE] /\ Listed(f) = Listed(h) \ {t}
          /\ Tracks(f, (Listed(h) \cup {p}) \ {t}, h.count + 1 - 1)
      BY <2>2, <3>1, <3>2, FreedFacts
    <3>4. g = f
      BY <1>1, <1>4, <2>1, <3>3
    <3>5. (Listed(h) \cup {p}) \ {t} = Listed(g) \cup {p}
      BY <2>2, <3>3, <3>4
    <3>6. h.count + 1 - 1 = g.count + 1
      BY <1>1, <1>4, <3>3, <3>4
    <3>7. \A q \in PageNumbers : g.refs[q] > 0 => g.buffer[q]
      BY <2>2, <2>5, <3>3, <3>4 DEF Handles
    <3>8. Tracks(g, Listed(g) \cup {p}, g.count + 1) /\ g.count \in 0 .. MaxMappedPages - 1
      <4>1. Tracks(g, (Listed(h) \cup {p}) \ {t}, h.count + 1 - 1)
        BY <3>3, <3>4
      <4>2. g.count \in 0 .. MaxMappedPages - 1
        BY <1>1, <1>4, <3>3, <3>4
      <4>3. QED
        BY <3>5, <3>6, <4>1, <4>2
    <3>9. QED
      BY <3>3, <3>4, <3>7, <3>8
  <2>6. QED
    BY <2>4, <2>5
<1>5. QED
  BY <1>1, <1>3, <1>4

\* The page goes to the head of the list.
ToHead(h, p) == PushHead(IF h.buffer[p] THEN PullLru(h, p) ELSE h, p)

\* map_page begins with the page at the head of the list.
LEMMA ToHeadFacts ==
  ASSUME NEW h \in Handles, Sound(h), NEW p \in PageNumbers, NEW g, g = ToHead(h, p)
  PROVE  /\ g \in Handles /\ SameButList(g, h) /\ Listed(g) = Listed(h)
         /\ h.buffer[p] => Tracks(g, Listed(h), h.count)
         /\ ~h.buffer[p] => Tracks(g, Listed(h) \cup {p}, h.count + 1)
         /\ ~h.buffer[p] /\ h.count > 0 => g.tail # p
<1>1. Tracks(h, Listed(h), h.count) /\ h.count \in Nat
  BY FileAssumptions DEF Sound
<1>2. CASE h.buffer[p]
  <2> DEFINE f == PullLru(h, p)
  <2>1. p \in Listed(h)
    BY <1>2 DEF Listed
  <2>2. f \in Handles /\ Tracks(f, Listed(h) \ {p}, h.count - 1) /\ h.count > 0
    BY <1>1, <2>1, PullTracks
  <2>3. SameButList(f, h)
    BY ListOnly
  <2>4. g = PushHead(f, p)
    BY <1>2 DEF ToHead
  <2> HIDE DEF f
  <2>5. h.count - 1 \in Nat /\ p \notin Listed(h) \ {p}
    BY <1>1, <2>2
  <2>6. g \in Handles /\ Tracks(g, (Listed(h) \ {p}) \cup {p}, h.count - 1 + 1)
    BY <2>2, <2>4, <2>5, PushTracks
  <2>7. (Listed(h) \ {p}) \cup {p} = Listed(h) /\ h.count - 1 + 1 = h.count
    BY <1>1, <2>1
  <2>8. SameButList(g, f)
    BY <2>2, <2>4, ListOnly
  <2>9. SameButList(g, h)
    BY <2>3, <2>8 DEF SameButList
  <2>10. QED
    BY <1>2, <2>6, <2>7, <2>9 DEF Listed, SameButList
<1>3. CASE ~h.buffer[p]
  <2>1. g = PushHead(h, p) /\ p \notin Listed(h)
    BY <1>3 DEF ToHead, Listed
  <2>2. g \in Handles /\ Tracks(g, Listed(h) \cup {p}, h.count + 1)
    BY <1>1, <2>1, PushTracks
  <2>3. SameButList(g, h)
    BY <2>1, ListOnly
  <2>4. h.count > 0 => g.tail # p
    BY <1>1, <2>1, TailTracks
  <2>5. QED
    BY <1>3, <2>2, <2>3, <2>4 DEF Listed, SameButList
<1>4. QED
  BY <1>2, <1>3

\* Two pieces of a sequence that follow one another.
LEMMA PiecesJoin ==
  ASSUME NEW S, NEW s \in Seq(S), NEW a \in Nat, NEW b \in Nat, a <= b, b <= Len(s)
  PROVE  /\ SubSeq(s, 1, a) \o SubSeq(s, a + 1, b) = SubSeq(s, 1, b)
         /\ SubSeq(s, 1, a) \in Seq(S) /\ SubSeq(s, a + 1, b) \in Seq(S)
         /\ Len(SubSeq(s, 1, a)) = a /\ Len(SubSeq(s, a + 1, b)) = b - a
         /\ \A i \in 1 .. b - a : SubSeq(s, a + 1, b)[i] = s[a + i]
<1> DEFINE x == SubSeq(s, 1, a)
           y == SubSeq(s, a + 1, b)
           z == SubSeq(s, 1, b)
<1>1. Len(s) \in Nat /\ \A i \in 1 .. Len(s) : s[i] \in S
  OBVIOUS
<1>2. x \in Seq(S) /\ Len(x) = a /\ \A i \in 1 .. a : x[i] = s[i]
  BY <1>1, SubSeqProperties
<1>3. y \in Seq(S) /\ Len(y) = b - a /\ \A i \in 1 .. b - a : y[i] = s[a + i]
  BY <1>1, SubSeqProperties
<1>4. z \in Seq(S) /\ Len(z) = b /\ \A i \in 1 .. b : z[i] = s[i]
  BY <1>1, SubSeqProperties
<1> HIDE DEF x, y, z
<1>5. /\ x \o y \in Seq(S) /\ Len(x \o y) = Len(x) + Len(y)
      /\ \A i \in 1 .. Len(x) + Len(y) : (x \o y)[i] = IF i <= Len(x) THEN x[i] ELSE y[i - Len(x)]
  BY <1>2, <1>3, ConcatProperties
<1>6. ASSUME NEW i \in 1 .. b
      PROVE  (x \o y)[i] = z[i]
  <2>1. CASE i <= a
    <3>1. i \in 1 .. a /\ i \in 1 .. Len(x) + Len(y) /\ i <= Len(x)
      BY <1>2, <1>3, <2>1
    <3>2. QED
      BY <1>2, <1>4, <1>5, <3>1
  <2>2. CASE i > a
    <3>1. PICK j \in 1 .. b - a : j = i - a /\ a + j = i
      BY <2>2
    <3>2. (x \o y)[i] = y[j]
      BY <1>2, <1>3, <1>5, <2>2, <3>1
    <3>3. y[j] = s[i]
      BY <1>3, <3>1
    <3>4. z[i] = s[i]
      BY <1>4
    <3>5. QED
      BY <3>2, <3>3, <3>4, Zenon
  <2>3. i <= a \/ i > a
    OBVIOUS
  <2>4. QED
    BY <2>1, <2>2, <2>3, Zenon
<1>7. x \o y = z
  <2> DEFINE w == x \o y
  <2>1. w \in Seq(S) /\ Len(w) = b /\ \A i \in 1 .. b : w[i] = z[i]
    BY <1>2, <1>3, <1>5, <1>6
  <2> HIDE DEF w
  <2>2. w = z
    BY <1>4, <2>1
  <2>3. QED
    BY <2>2 DEF w
<1>8. QED
  BY <1>2, <1>3, <1>7 DEF x, y, z

\* The bytes on a page, and how many there are up to its end.
UpTo(h, p) == IF p > PagesOf(h) THEN Len(h.data) ELSE p * PageSize

\* Where the pages of a file begin and end.
LEMMA PageBounds ==
  ASSUME NEW h, h.data \in Seq(Byte), NEW p \in Nat
  PROVE  /\ PagesOf(h) \in Nat /\ Len(h.data) \in Nat /\ PageSize \in Nat \ {0}
         /\ PagesOf(h) * PageSize <= Len(h.data) /\ Len(h.data) < (PagesOf(h) + 1) * PageSize
         /\ p > PagesOf(h) => OnPage(h, p) = -1
         /\ p = PagesOf(h) => OnPage(h, p) \in 0 .. PageSize - 1 /\ p * PageSize + OnPage(h, p) = Len(h.data)
         /\ p < PagesOf(h) => OnPage(h, p) = PageSize /\ p * PageSize + PageSize <= Len(h.data)
         /\ OnPage(h, p) \in Int
         /\ UpTo(h, p) \in 0 .. Len(h.data)
         /\ p <= PagesOf(h) => UpTo(h, p + 1) = p * PageSize + OnPage(h, p)
<1>1. PICK k \in Nat \ {0} : k = PageSize
  BY FileAssumptions
<1>2. PICK n \in Nat : n = Len(h.data)
  OBVIOUS
<1>3. PICK q \in Nat, r \in Nat : q = n \div k /\ r = n % k /\ r < k /\ n = q * k + r
  <2>1. n \div k \in Nat /\ n % k \in 0 .. k - 1 /\ n = (n \div k) * k + (n % k)
    BY Division
  <2>2. n % k \in Nat /\ n % k < k
    BY <2>1
  <2>3. QED
    BY <2>1, <2>2
<1>4. /\ q * k \in Nat /\ p * k \in Nat /\ (p < q => p * k + k <= q * k)
      /\ (p + 1) * k = p * k + k /\ (q + 1) * k = q * k + k
  BY BlockStarts
<1>5. PagesOf(h) = q
  BY <1>1, <1>2, <1>3 DEF PagesOf
<1>6. OnPage(h, p) = IF p > q THEN -1 ELSE IF p = q THEN r ELSE k
  BY <1>1, <1>2, <1>3, <1>5 DEF OnPage
<1>7. UpTo(h, p) = (IF p > q THEN n ELSE p * k) /\ UpTo(h, p + 1) = (IF p + 1 > q THEN n ELSE (p + 1) * k)
  BY <1>1, <1>2, <1>5 DEF UpTo
<1>8. p <= q => p * k <= q * k
  BY BlockStarts
<1>9. PICK a \in Nat, c \in Nat : a = p * k /\ c = q * k
  BY <1>4
<1>10. /\ PagesOf(h) * PageSize = c /\ (PagesOf(h) + 1) * PageSize = c + k /\ p * PageSize = a
       /\ n = c + r /\ (p < q => a + k <= c) /\ (p = q => a = c) /\ (p <= q => a <= c)
       /\ (p + 1) * PageSize = a + k
  BY <1>1, <1>3, <1>4, <1>5, <1>8, <1>9, Zenon
<1>11. n = c + r /\ (p < q => a + k <= c) /\ (p = q => a = c) /\ (p <= q => a <= c)
  BY <1>10
<1>12. /\ PagesOf(h) \in Nat /\ Len(h.data) \in Nat /\ PageSize \in Nat \ {0}
       /\ PagesOf(h) * PageSize <= Len(h.data) /\ Len(h.data) < (PagesOf(h) + 1) * PageSize
  <2>1. c <= n /\ n < c + k
    BY <1>3, <1>10
  <2>2. QED
    BY <1>1, <1>2, <1>5, <1>10, <2>1
<1>13. /\ p > PagesOf(h) => OnPage(h, p) = -1
       /\ p = PagesOf(h) => OnPage(h, p) \in 0 .. PageSize - 1 /\ p * PageSize + OnPage(h, p) = Len(h.data)
       /\ p < PagesOf(h) => OnPage(h, p) = PageSize /\ p * PageSize + PageSize <= Len(h.data)
       /\ OnPage(h, p) \in Int
  <2>1. /\ p > q => OnPage(h, p) = -1
        /\ p = q => OnPage(h, p) = r /\ r \in 0 .. k - 1 /\ a + r = n
        /\ p < q => OnPage(h, p) = k /\ a + k <= n
    BY <1>3, <1>6, <1>11
  <2>2. QED
    BY <1>1, <1>2, <1>5, <1>10, <2>1
<1>14. UpTo(h, p) \in 0 .. Len(h.data)
  <2>1. UpTo(h, p) = IF p > q THEN n ELSE a
    BY <1>7, <1>9
  <2>2. UpTo(h, p) \in 0 .. n
    BY <1>3, <1>11, <2>1
  <2>3. QED
    BY <1>2, <2>2
<1>15. p <= PagesOf(h) => UpTo(h, p + 1) = p * PageSize + OnPage(h, p)
  <2>1. UpTo(h, p + 1) = IF p + 1 > q THEN n ELSE a + k
    BY <1>1, <1>7, <1>10
  <2>2. p <= q => UpTo(h, p + 1) = a + OnPage(h, p)
    <3>1. p < q => UpTo(h, p + 1) = a + k /\ OnPage(h, p) = k
      BY <1>6, <2>1
    <3>2. p = q => UpTo(h, p + 1) = n /\ OnPage(h, p) = r
      BY <1>6, <2>1
    <3>3. QED
      BY <1>11, <3>1, <3>2
  <2>3. QED
    BY <1>5, <1>10, <2>2
<1>16. QED
  BY <1>12, <1>13, <1>14, <1>15

\* One page more.
LEMMA OfPageFacts ==
  ASSUME NEW h, h.data \in Seq(Byte), NEW p \in Nat, p <= PagesOf(h)
  PROVE  /\ OfPage(h, p) \in Seq(Byte)
         /\ SubSeq(h.data, 1, UpTo(h, p)) \o OfPage(h, p) = SubSeq(h.data, 1, UpTo(h, p + 1))
<1>1. PICK a \in Nat, b \in Nat, n \in Nat :
        a = p * PageSize /\ b = p * PageSize + OnPage(h, p) /\ n = Len(h.data) /\ a <= b /\ b <= n
  <2>1. p * PageSize \in Nat
    BY PageBounds, BlockStarts
  <2>2. OnPage(h, p) \in Nat /\ p * PageSize + OnPage(h, p) <= Len(h.data)
    <3>1. CASE p = PagesOf(h)
      BY <2>1, <3>1, PageBounds
    <3>2. CASE p < PagesOf(h)
      BY <2>1, <3>2, PageBounds
    <3>3. QED
      BY <3>1, <3>2, PageBounds
  <2>3. QED
    BY <2>1, <2>2, PageBounds
<1>2. UpTo(h, p) = a /\ UpTo(h, p + 1) = b
  BY <1>1, PageBounds, SMTT(40) DEF UpTo
<1>3. OfPage(h, p) = SubSeq(h.data, a + 1, b)
  BY <1>1 DEF OfPage
<1>4. /\ SubSeq(h.data, 1, a) \o SubSeq(h.data, a + 1, b) = SubSeq(h.data, 1, b)
      /\ SubSeq(h.data, a + 1, b) \in Seq(Byte)
  <2>1. b <= Len(h.data) /\ a <= b
    BY <1>1
  <2>2. QED
    BY <2>1, PiecesJoin, ZenonT(40)
<1>5. QED
  BY <1>2, <1>3, <1>4

\* A page that was on the list is mapped, and goes into the digest in its turn.
FilledWith(g, h, p, v) ==
  /\ g \in Handles /\ g.data = h.data /\ g.seek = h.seek
  /\ g.status = h.status /\ g.refs = h.refs
  /\ g.count = h.count + 1 /\ g.buffer = [h.buffer EXCEPT ![p] = TRUE]
  /\ g.md5_page = (IF p = h.md5_page THEN h.md5_page + 1 ELSE h.md5_page)
  /\ g.hashed = (IF p = h.md5_page /\ v THEN h.hashed \o OfPage(h, p) ELSE h.hashed)
  /\ g.head = h.head /\ g.tail = h.tail /\ g.next = h.next /\ g.prev = h.prev

\* The page that is read is listed, and goes into the digest in its turn.
LEMMA FilledFacts ==
  ASSUME NEW h \in Handles, NEW p \in PageNumbers, NEW v \in BOOLEAN,
         p <= PagesOf(h),
         NEW g, g = Hashed([h EXCEPT !.count = @ + 1, !.buffer[p] = TRUE], p, v)
  PROVE  FilledWith(g, h, p, v)
<1> USE DEF FilledWith
<1> DEFINE buffer == [h.buffer EXCEPT ![p] = TRUE]
           count == h.count + 1
           f == [h EXCEPT !.count = count, !.buffer = buffer]
           hashed == IF v THEN f.hashed \o OfPage(f, p) ELSE f.hashed
           md5 == f.md5_page + 1
<1>1. buffer \in [PageNumbers -> BOOLEAN] /\ count \in Int
  BY DEF Handles
<1>2. [h EXCEPT !.count = @ + 1, !.buffer[p] = TRUE] = f
  BY DEF Handles
<1>3. /\ f \in Handles /\ f.count = count /\ f.buffer = buffer
      /\ f.data = h.data /\ f.seek = h.seek /\ f.md5_page = h.md5_page /\ f.hashed = h.hashed
      /\ f.refs = h.refs /\ f.status = h.status
      /\ f.head = h.head /\ f.tail = h.tail /\ f.next = h.next /\ f.prev = h.prev
  <2> HIDE DEF buffer, count
  <2>1. QED
    BY <1>1 DEF Handles
<1> HIDE DEF f, buffer, count
<1>4. OfPage(f, p) = OfPage(h, p)
  BY <1>3, Zenon DEF OfPage, OnPage, PagesOf
<1>5. g = Hashed(f, p, v)
  BY <1>2
<1>6. CASE p # f.md5_page
  BY <1>3, <1>5, <1>6 DEF Hashed, buffer, count
<1>7. CASE p = f.md5_page
  <2>1. f.data \in Seq(Byte) /\ f.hashed \in Seq(Byte) /\ f.md5_page \in Nat
    BY <1>3 DEF Handles
  <2>2. OfPage(f, p) \in Seq(Byte)
    BY <1>3, <1>4, <2>1, OfPageFacts, PageFacts
  <2>3. hashed \in Seq(Byte) /\ md5 \in Nat
    BY <2>1, <2>2
  <2>4. g = [f EXCEPT !.md5_page = md5, !.hashed = hashed]
    BY <1>3, <1>5, <1>7 DEF Hashed, Handles
  <2> HIDE DEF md5, hashed
  <2>5. /\ g \in Handles /\ g.data = f.data /\ g.seek = f.seek /\ g.status = f.status /\ g.refs = f.refs
        /\ g.count = f.count /\ g.buffer = f.buffer /\ g.md5_page = md5 /\ g.hashed = hashed
        /\ g.head = f.head /\ g.tail = f.tail /\ g.next = f.next /\ g.prev = f.prev
    BY <1>3, <2>3, <2>4 DEF Handles
  <2>6. QED
    BY <1>3, <1>4, <1>7, <2>5, Zenon DEF md5, hashed, buffer, count
<1>8. QED
  BY <1>6, <1>7

\* What is in the digest: the file up to the next page, or nothing.
Digests(h, v) ==
  /\ h.md5_page <= PagesOf(h) + 1
  /\ h.hashed = IF v THEN SubSeq(h.data, 1, UpTo(h, h.md5_page)) ELSE <<>>

\* map_page either fails, with the digest as it was, or it has the page mapped.
LEMMA MapFacts ==
  ASSUME NEW h \in Handles, Sound(h), NEW p \in PageNumbers, NEW v \in BOOLEAN,
         NEW g, g = MapPage(h, p, v)
  PROVE  /\ g \in Handles /\ g.data = h.data /\ g.seek = h.seek
         /\ g.status = "ok" =>
              /\ h.status = "ok" /\ p <= PagesOf(h)
              /\ Sound(g) /\ g.buffer[p]
              /\ g.refs = [h.refs EXCEPT ![p] = @ + 1]
              /\ Listed(g) \subseteq Listed(h) \cup {p}
              /\ IF ~h.buffer[p] /\ p = h.md5_page
                 THEN /\ g.md5_page = h.md5_page + 1
                      /\ g.hashed = IF v THEN h.hashed \o OfPage(h, p) ELSE h.hashed
                 ELSE g.md5_page = h.md5_page /\ g.hashed = h.hashed
         /\ g.status # "ok" => g.md5_page = h.md5_page /\ g.hashed = h.hashed
         /\ h.status = "ok" /\ Idle(h) /\ p <= PagesOf(h) => g.status = "ok"
<1> DEFINE l == ToHead(h, p)
           room == MakeLruRoom(l)
           filled == Hashed([room EXCEPT !.count = @ + 1, !.buffer[p] = TRUE], p, v)
           there == IF h.buffer[p] THEN l ELSE Mapped(l, p, v)
           used(f) == [f EXCEPT !.refs[p] = @ + 1]
<1>1. g = IF OnPage(h, p) < 0 THEN Fails(l, "failed")
          ELSE IF there.status # "ok" THEN there ELSE used(there)
  BY Zenon DEF MapPage, ToHead
<1>2. there = IF h.buffer[p] THEN l ELSE IF room.status # "ok" THEN room ELSE filled
  BY Zenon DEF Mapped
<1>3. /\ l \in Handles /\ SameButList(l, h) /\ Listed(l) = Listed(h)
      /\ h.buffer[p] => Tracks(l, Listed(h), h.count)
      /\ ~h.buffer[p] => Tracks(l, Listed(h) \cup {p}, h.count + 1)
      /\ ~h.buffer[p] /\ h.count > 0 => l.tail # p
  BY ToHeadFacts
<1> HIDE DEF l
<1>4. /\ l.data = h.data /\ l.seek = h.seek /\ l.count = h.count /\ l.buffer = h.buffer
      /\ l.refs = h.refs /\ l.md5_page = h.md5_page /\ l.hashed = h.hashed /\ l.status = h.status
  BY <1>3 DEF SameButList
<1>5. /\ h.data \in Seq(Byte) /\ p \in Nat
      /\ (OnPage(h, p) < 0 <=> p > PagesOf(h)) /\ PagesOf(h) \in Nat
  <2>1. h.data \in Seq(Byte) /\ p \in Nat
    BY PageFacts DEF Handles
  <2>2. (OnPage(h, p) < 0 <=> p > PagesOf(h)) /\ PagesOf(h) \in Nat
    <3>1. PagesOf(h) \in Nat /\ PageSize \in Nat
      BY <2>1, PageBounds
    <3>2. p > PagesOf(h) => OnPage(h, p) < 0
      BY <2>1, PageBounds
    <3>3. p = PagesOf(h) => ~(OnPage(h, p) < 0)
      BY <2>1, PageBounds
    <3>4. p < PagesOf(h) => ~(OnPage(h, p) < 0)
      BY <2>1, <3>1, PageBounds
    <3>5. QED
      BY <2>1, <3>1, <3>2, <3>3, <3>4
  <2>3. QED
    BY <2>1, <2>2
<1>6. CASE p > PagesOf(h)
  <2>1. g = Fails(l, "failed")
    BY <1>1, <1>5, <1>6
  <2>2. /\ g \in Handles /\ g.data = l.data /\ g.seek = l.seek /\ g.status = "failed"
        /\ g.md5_page = l.md5_page /\ g.hashed = l.hashed
    BY <1>3, <2>1 DEF Fails, Handles
  <2>3. QED
    BY <1>4, <1>5, <1>6, <2>2
<1>7. CASE p <= PagesOf(h)
  <2> HIDE DEF there
  <2>1. g = IF there.status # "ok" THEN there ELSE used(there)
    BY <1>1, <1>5, <1>7
  <2>2. /\ there \in Handles /\ there.data = h.data /\ there.seek = h.seek /\ there.refs = h.refs
        /\ there.status = "ok" =>
             /\ h.status = "ok" /\ Sound(there) /\ there.buffer[p] /\ Listed(there) \subseteq Listed(h) \cup {p}
             /\ IF ~h.buffer[p] /\ p = h.md5_page
                THEN /\ there.md5_page = h.md5_page + 1
                     /\ there.hashed = IF v THEN h.hashed \o OfPage(h, p) ELSE h.hashed
                ELSE there.md5_page = h.md5_page /\ there.hashed = h.hashed
        /\ there.status # "ok" => there.md5_page = h.md5_page /\ there.hashed = h.hashed
        /\ h.status = "ok" /\ Idle(h) => there.status = "ok"
    <3>1. CASE h.buffer[p]
      <4>1. there = l
        BY <1>2, <3>1
      <4>2. Sound(l)
        BY <1>3, <1>4, <3>1 DEF Sound
      <4>3. QED
        BY <1>3, <1>4, <3>1, <4>1, <4>2
    <3>2. CASE ~h.buffer[p]
      <4>1. /\ room \in Handles /\ SameFile(room, l) /\ room.refs = l.refs
            /\ room.status = "ok" =>
                 /\ l.status = "ok"
                 /\ Tracks(room, Listed(room) \cup {p}, room.count + 1) /\ room.count \in 0 .. MaxMappedPages - 1
                 /\ \A q \in PageNumbers : room.refs[q] > 0 => room.buffer[q]
                 /\ Listed(room) \subseteq Listed(l)
            /\ l.status = "ok" /\ Idle(l) => room.status = "ok"
        <5>1. /\ ~l.buffer[p] /\ Tracks(l, Listed(l) \cup {p}, l.count + 1) /\ l.count \in 0 .. MaxMappedPages
              /\ (l.count > 0 => l.tail # p)
              /\ \A q \in PageNumbers : l.refs[q] > 0 => l.buffer[q]
          BY <1>3, <1>4, <3>2 DEF Sound
        <5> HIDE DEF room
        <5>2. room = MakeLruRoom(l)
          BY DEF room
        <5>3. RoomIn(room, l, p)
          BY <1>3, <5>1, <5>2, RoomFacts, Zenon
        <5>4. QED
          BY <5>3, Zenon DEF RoomIn
      <4> HIDE DEF room
      <4>2. Idle(l) <=> Idle(h)
        BY <1>4 DEF Idle
      <4>3. CASE room.status # "ok"
        <5>1. there = room
          BY <1>2, <3>2, <4>3
        <5>2. QED
          BY <1>4, <4>1, <4>2, <4>3, <5>1 DEF SameFile
      <4>4. CASE room.status = "ok"
        <5>1. there = filled
          BY <1>2, <3>2, <4>4
        <5>2. p <= PagesOf(room) /\ OfPage(room, p) = OfPage(h, p)
          BY <1>4, <1>7, <4>1 DEF PagesOf, OfPage, OnPage, SameFile
        <5>3. /\ filled \in Handles /\ filled.data = room.data /\ filled.seek = room.seek
              /\ filled.status = room.status /\ filled.refs = room.refs
              /\ filled.count = room.count + 1 /\ filled.buffer = [room.buffer EXCEPT ![p] = TRUE]
              /\ filled.md5_page = (IF p = room.md5_page THEN room.md5_page + 1 ELSE room.md5_page)
              /\ filled.hashed = (IF p = room.md5_page /\ v THEN room.hashed \o OfPage(room, p) ELSE room.hashed)
              /\ filled.head = room.head /\ filled.tail = room.tail
              /\ filled.next = room.next /\ filled.prev = room.prev
          <6> HIDE DEF filled
          <6>1. filled = Hashed([room EXCEPT !.count = @ + 1, !.buffer[p] = TRUE], p, v)
            BY DEF filled
          <6>2. FilledWith(filled, room, p, v)
            BY <4>1, <5>2, <6>1, FilledFacts, Zenon
          <6>3. QED
            BY <6>2, Zenon DEF FilledWith
        <5> HIDE DEF filled
        <5>4. \A q \in PageNumbers : filled.buffer[q] <=> room.buffer[q] \/ q = p
          BY <4>1, <5>3 DEF Handles
        <5>5. Listed(filled) = Listed(room) \cup {p}
          BY <5>4 DEF Listed
        <5>6. Tracks(filled, Listed(filled), filled.count)
          BY <4>1, <4>4, <5>3, <5>5, SameList
        <5>7. filled.count \in 0 .. MaxMappedPages
          BY <4>1, <4>4, <5>3, FileAssumptions
        <5>8. \A q \in PageNumbers : filled.refs[q] > 0 => filled.buffer[q]
          BY <4>1, <4>4, <5>3, <5>4
        <5>9. Sound(filled) /\ filled.buffer[p]
          BY <5>4, <5>6, <5>7, <5>8 DEF Sound
        <5>10. Listed(filled) \subseteq Listed(h) \cup {p}
          BY <1>3, <4>1, <4>4, <5>5
        <5>11. /\ room.data = h.data /\ room.seek = h.seek /\ room.md5_page = h.md5_page
               /\ room.hashed = h.hashed /\ room.refs = h.refs /\ h.status = "ok"
          BY <1>4, <4>1, <4>4 DEF SameFile
        <5>12. QED
          BY <3>2, <4>4, <5>1, <5>2, <5>3, <5>9, <5>10, <5>11
      <4>5. QED
        BY <4>3, <4>4
    <3>3. QED
      BY <3>1, <3>2
  <2>3. CASE there.status # "ok"
    BY <1>7, <2>1, <2>2, <2>3
  <2>4. CASE there.status = "ok"
    <3> DEFINE refs == [there.refs EXCEPT ![p] = @ + 1]
    <3>1. refs \in [PageNumbers -> Nat] /\ \A q \in PageNumbers : q # p => refs[q] = there.refs[q]
      BY <2>2 DEF Handles
    <3>2. g = [there EXCEPT !.refs = refs]
      BY <2>1, <2>2, <2>4 DEF Handles
    <3> HIDE DEF refs
    <3>3. /\ g \in Handles /\ g.data = there.data /\ g.seek = there.seek /\ g.status = there.status
          /\ g.refs = refs /\ g.count = there.count /\ g.buffer = there.buffer
          /\ g.md5_page = there.md5_page /\ g.hashed = there.hashed
          /\ g.head = there.head /\ g.tail = there.tail /\ g.next = there.next /\ g.prev = there.prev
      BY <2>2, <3>1, <3>2 DEF Handles
    <3>4. Listed(g) = Listed(there)
      BY <3>3 DEF Listed
    <3>5. Sound(g)
      <4>1. Tracks(g, Listed(g), g.count)
        BY <2>2, <2>4, <3>3, <3>4, SameList DEF Sound
      <4>2. g.count \in 0 .. MaxMappedPages
        BY <2>2, <2>4, <3>3 DEF Sound
      <4>3. \A q \in PageNumbers : g.refs[q] > 0 => g.buffer[q]
        BY <2>2, <2>4, <3>1, <3>3 DEF Sound
      <4>4. QED
        BY <4>1, <4>2, <4>3 DEF Sound
    <3>6. g.refs = [h.refs EXCEPT ![p] = @ + 1]
      BY <2>2, <3>3 DEF refs
    <3>7. QED
      BY <1>7, <2>2, <2>4, <3>3, <3>4, <3>5, <3>6
  <2>5. QED
    BY <2>3, <2>4
<1>8. QED
  BY <1>5, <1>6, <1>7, PageFacts

\* unmap_page fails, or the page has a user less.
Released(g, h, p) ==
  /\ g \in Handles /\ SameFile(g, h)
  /\ g.status = "ok" =>
       /\ h.status = "ok" /\ h.refs[p] > 0
       /\ Sound(g) /\ Listed(g) \subseteq Listed(h)
       /\ g.refs = [h.refs EXCEPT ![p] = @ - 1]
  /\ h.status = "ok" /\ h.refs[p] > 0 => g.status = "ok"

\* unmap_page keeps the list sound.
LEMMA UnmapFacts ==
  ASSUME NEW h \in Handles, Sound(h), NEW p \in PageNumbers, NEW g, g = UnmapPage(h, p)
  PROVE  Released(g, h, p)
<1> USE DEF Released
<1>1. CASE h.refs[p] = 0 \/ ~h.buffer[p]
  <2>1. g = Fails(h, "abort")
    BY <1>1 DEF UnmapPage
  <2>2. /\ g \in Handles /\ g.data = h.data /\ g.seek = h.seek /\ g.status = "abort"
        /\ g.md5_page = h.md5_page /\ g.hashed = h.hashed
    BY <2>1 DEF Fails, Handles
  <2>3. ~(h.refs[p] > 0)
    BY <1>1 DEF Sound, Handles
  <2>4. QED
    BY <2>2, <2>3 DEF SameFile
<1>2. CASE h.refs[p] # 0 /\ h.buffer[p]
  <2> DEFINE left == [h EXCEPT !.refs[p] = @ - 1]
             refs == [h.refs EXCEPT ![p] = @ - 1]
             pulled == PullLru(left, p)
             last == PushTail(pulled, p)
  <2>1. /\ refs \in [PageNumbers -> Nat] /\ \A q \in PageNumbers : q # p => refs[q] = h.refs[q]
        /\ refs[p] = h.refs[p] - 1 /\ h.refs[p] > 0
    BY <1>2 DEF Handles
  <2>2. /\ left \in Handles /\ left.data = h.data /\ left.seek = h.seek /\ left.status = h.status
        /\ left.refs = refs /\ left.count = h.count /\ left.buffer = h.buffer
        /\ left.md5_page = h.md5_page /\ left.hashed = h.hashed
        /\ left.head = h.head /\ left.tail = h.tail /\ left.next = h.next /\ left.prev = h.prev
    <3>1. left = [h EXCEPT !.refs = refs]
      BY DEF Handles
    <3> HIDE DEF refs, left
    <3>2. QED
      BY <2>1, <3>1 DEF Handles
  <2>3. g = IF left.refs[p] > 0 \/ left.seek THEN left ELSE ReallyFreeOnePage(last)
    <3>1. left.seek = h.seek
      BY <2>2
    <3>2. g = IF left.refs[p] > 0 \/ h.seek THEN left ELSE ReallyFreeOnePage(last)
      BY <1>2, Zenon DEF UnmapPage
    <3>3. QED
      BY <3>1, <3>2, Zenon
  <2> HIDE DEF left, refs
  <2>4. Listed(left) = Listed(h)
    BY <2>2 DEF Listed
  <2>5. Tracks(left, Listed(left), left.count) /\ left.count \in 0 .. MaxMappedPages
    BY <2>2, <2>4, SameList DEF Sound
  <2>6. \A q \in PageNumbers : left.refs[q] > 0 => left.buffer[q]
    BY <1>2, <2>1, <2>2 DEF Sound
  <2>7. CASE left.refs[p] > 0 \/ left.seek
    <3>1. g = left
      BY <2>3, <2>7
    <3>2. Sound(left)
      BY <2>5, <2>6 DEF Sound
    <3>3. SameFile(g, h)
      BY <2>2, <3>1 DEF SameFile
    <3>4. QED
      BY <2>1, <2>2, <2>4, <3>1, <3>2, <3>3 DEF refs
  <2>8. CASE ~(left.refs[p] > 0 \/ left.seek)
    <3>1. g = ReallyFreeOnePage(last)
      BY <2>3, <2>8
    <3>2. p \in Listed(left) /\ left.count \in Nat
      BY <1>2, <2>2, <2>5, FileAssumptions DEF Listed
    <3>3. pulled \in Handles /\ Tracks(pulled, Listed(left) \ {p}, left.count - 1) /\ left.count > 0
      BY <2>2, <2>5, <3>2, PullTracks
    <3>4. SameButList(pulled, left)
      BY <2>2, ListOnly
    <3> HIDE DEF pulled
    <3>5. left.count - 1 \in Nat /\ p \notin Listed(left) \ {p}
      BY <3>2, <3>3
    <3>6. /\ last \in Handles /\ last.tail = p /\ PullLru(last, p) \in Handles
          /\ Tracks(PullLru(last, p), Listed(left) \ {p}, left.count - 1)
      BY <3>3, <3>5, TailTracksOn
    <3>7. SameButList(last, pulled)
      BY <3>3, ListOnly
    <3> HIDE DEF last
    <3>8. /\ last.data = h.data /\ last.seek = h.seek /\ last.count = h.count /\ last.buffer = h.buffer
          /\ last.refs = refs /\ last.md5_page = h.md5_page /\ last.hashed = h.hashed /\ last.status = h.status
      BY <2>2, <3>4, <3>7 DEF SameButList
    <3>9. g = Freed(last, p)
      <4>1. last.tail # Null /\ ~(last.refs[last.tail] > 0) /\ last.buffer[last.tail]
        BY <1>2, <2>2, <2>8, <3>6, <3>8, PageFacts
      <4>2. g = Freed(last, last.tail)
        BY <3>1, <4>1, Zenon DEF ReallyFreeOnePage, Freed
      <4>3. QED
        BY <3>6, <4>2
    <3>10. /\ g \in Handles /\ SameFile(g, last) /\ g.count = last.count - 1 /\ g.refs = last.refs
           /\ g.status = last.status /\ g.buffer = [last.buffer EXCEPT ![p] = FALSE]
           /\ Listed(g) = Listed(last) \ {p}
           /\ Tracks(g, Listed(left) \ {p}, left.count - 1)
      BY <3>6, <3>9, FreedFacts
    <3>11. Listed(last) = Listed(left) /\ Listed(left) = Listed(h)
      BY <2>4, <3>8 DEF Listed
    <3>12. Tracks(g, Listed(g), g.count) /\ g.count \in 0 .. MaxMappedPages
      <4>1. g.count = left.count - 1
        BY <2>2, <3>8, <3>10
      <4>2. g.count \in 0 .. MaxMappedPages
        BY <2>5, <3>3, <4>1, FileAssumptions
      <4>3. QED
        BY <3>10, <3>11, <4>1, <4>2
    <3>13. \A q \in PageNumbers : g.refs[q] > 0 => g.buffer[q]
      <4>1. ~(g.refs[p] > 0)
        BY <2>2, <2>8, <3>8, <3>10
      <4>2. \A q \in PageNumbers : q # p => g.buffer[q] = h.buffer[q] /\ g.refs[q] = h.refs[q]
        BY <2>1, <3>8, <3>10 DEF Handles
      <4>3. QED
        BY <4>1, <4>2 DEF Sound
    <3>14. Sound(g) /\ SameFile(g, h)
      BY <3>8, <3>10, <3>12, <3>13 DEF Sound, SameFile
    <3>15. g.refs = refs /\ g.status = h.status /\ Listed(g) \subseteq Listed(h)
      BY <3>8, <3>10, <3>11
    <3>16. QED
      BY <2>1, <3>10, <3>14, <3>15 DEF refs
  <2>9. QED
    BY <2>7, <2>8
<1>3. QED
  BY <1>1, <1>2

(***************************************************************************)
(* What the list is, in the words of ListSound.                            *)
(***************************************************************************)

\* Walking from the head along the list.
LEMMA OrderIs ==
  ASSUME NEW h \in Handles, NEW s, ListIs(h, s), Of(s) = Listed(h)
  PROVE  Order(h) = s /\ Cardinality(Listed(h)) = Len(s)
<1>1. /\ s \in Seq(PageNumbers) /\ Len(s) \in Nat
      /\ \A j, k \in 1 .. Len(s) : s[j] = s[k] => j = k
      /\ \A j \in 1 .. Len(s) : s[j] \in Listed(h)
  BY DEF ListIs, Of
<1>2. Cardinality(Listed(h)) = Len(s)
  <2>1. s \in [1 .. Len(s) -> Listed(h)]
    BY <1>1
  <2>2. \A p \in Listed(h) : \E i \in 1 .. Len(s) : s[i] = p
    BY DEF Of
  <2>3. s \in Bijection(1 .. Len(s), Listed(h))
    BY <1>1, <2>1, <2>2 DEF Bijection, Injection, Surjection, IsInjective
  <2>4. ExistsBijection(1 .. Len(s), Listed(h))
    BY <2>3 DEF ExistsBijection
  <2>5. QED
    BY <1>1, <2>4, FS_CountingElements
<1> DEFINE step(f, n) == LET so_far == f[n - 1] IN
                         LET p == IF so_far = <<>> THEN h.head ELSE h.prev[so_far[Len(so_far)]] IN
                         IF p \in Listed(h) THEN Append(so_far, p) ELSE so_far
           Values(f) == f = [n \in 0 .. Cardinality(Listed(h)) |-> IF n = 0 THEN <<>> ELSE step(f, n)]
           walk == [n \in 0 .. Len(s) |-> SubSeq(s, 1, n)]
<1>3. ASSUME NEW n \in 1 .. Len(s), NEW f, f[n - 1] = SubSeq(s, 1, n - 1)
      PROVE  step(f, n) = SubSeq(s, 1, n)
  <2> DEFINE so_far == SubSeq(s, 1, n - 1)
             p == IF so_far = <<>> THEN h.head ELSE h.prev[so_far[Len(so_far)]]
  <2>1. so_far \in Seq(PageNumbers) /\ Len(so_far) = n - 1 /\ \A i \in 1 .. n - 1 : so_far[i] = s[i]
    BY <1>1, SubSeqProperties
  <2>2. so_far = <<>> <=> n = 1
    BY <2>1
  <2>3. p = s[n]
    <3>1. CASE n = 1
      BY <2>2, <3>1 DEF ListIs
    <3>2. CASE n > 1
      <4>1. p = h.prev[s[n - 1]]
        BY <2>1, <2>2, <3>2
      <4>2. n - 1 \in 1 .. Len(s) /\ n - 1 # Len(s) /\ (n - 1) + 1 = n
        BY <1>1, <3>2
      <4>3. h.prev[s[n - 1]] = s[(n - 1) + 1]
        BY <4>2 DEF ListIs
      <4>4. QED
        BY <4>1, <4>2, <4>3
    <3>3. QED
      BY <3>1, <3>2
  <2> HIDE DEF so_far
  <2>4. p \in Listed(h)
    BY <1>1, <2>3
  <2>5. step(f, n) = Append(so_far, s[n])
    BY <1>3, <2>3, <2>4 DEF so_far
  <2>6. n \in 1 .. Len(s) /\ 1 \in 1 .. Len(s)
    OBVIOUS
  <2>7. SubSeq(s, 1, n) = so_far \o <<s[n]>>
    BY <1>1, <2>6, SubSeqRecursiveSecond DEF so_far
  <2>8. Append(so_far, s[n]) = so_far \o <<s[n]>>
    BY <2>1
  <2>9. QED
    BY <2>5, <2>7, <2>8
<1>4. SubSeq(s, 1, 0) = <<>> /\ SubSeq(s, 1, Len(s)) = s
  BY <1>1, SubSeqFull, SubSeqEmpty
<1> HIDE DEF step
<1>5. Values(walk)
  <2>1. \A n \in 1 .. Len(s) : walk[n - 1] = SubSeq(s, 1, n - 1)
    BY <1>1
  <2> HIDE DEF walk
  <2>2. \A n \in 0 .. Len(s) : SubSeq(s, 1, n) = IF n = 0 THEN <<>> ELSE step(walk, n)
    BY <1>3, <1>4, <2>1
  <2>3. QED
    BY <1>2, <2>2 DEF walk
<1> DEFINE g == CHOOSE f : Values(f)
<1>6. Values(g)
  BY <1>5
<1> HIDE DEF walk, g
<1>7. \A n \in 0 .. Len(s) : g[n] = SubSeq(s, 1, n)
  <2> DEFINE Bad == {n \in 0 .. Len(s) : g[n] # SubSeq(s, 1, n)}
  <2>1. SUFFICES ASSUME Bad # {} PROVE FALSE
    OBVIOUS
  <2>2. PICK n \in Bad : \A k \in Bad : n <= k
    <3>1. Bad \subseteq Nat
      BY <1>1
    <3>2. QED
      BY <2>1, <3>1, LeastNat
  <2>3. n \in 0 .. Len(s) /\ g[n] = IF n = 0 THEN <<>> ELSE step(g, n)
    BY <1>1, <1>2, <1>6
  <2>4. n # 0
    BY <1>4, <2>2, <2>3
  <2>5. n - 1 \in 0 .. Len(s) /\ n - 1 \notin Bad /\ n \in 1 .. Len(s)
    BY <1>1, <2>2, <2>3, <2>4
  <2>6. g[n] = SubSeq(s, 1, n)
    BY <1>3, <2>3, <2>4, <2>5
  <2>7. QED
    BY <2>2, <2>6
<1>8. Order(h) = g[Cardinality(Listed(h))]
  BY Zenon DEF Order, g, Values, step
<1>9. QED
  BY <1>1, <1>2, <1>4, <1>7, <1>8

\* The list that is tracked is the one that ListSound walks along.
LEMMA SoundListed ==
  ASSUME NEW h \in Handles, Sound(h)
  PROVE  ListSound(h)
<1>1. PICK s : /\ ListIs(h, s) /\ Len(s) = h.count
               /\ \A p \in PageNumbers : (\E i \in 1 .. Len(s) : s[i] = p) <=> p \in Listed(h)
  BY DEF Sound, Tracks
<1>2. Of(s) = Listed(h)
  <2>1. \A i \in 1 .. Len(s) : s[i] \in PageNumbers
    BY <1>1 DEF ListIs
  <2>2. \A p \in Listed(h) : p \in PageNumbers
    BY DEF Listed
  <2>3. QED
    BY <1>1, <2>1, <2>2 DEF Of
<1>3. Order(h) = s /\ Cardinality(Listed(h)) = Len(s)
  BY <1>1, <1>2, OrderIs
<1>4. s \in Seq(PageNumbers) /\ (s = <<>> <=> Len(s) = 0)
  BY <1>1 DEF ListIs
<1>5. ToSet(s) = Listed(h)
  BY <1>2, <1>4 DEF ToSet, Of
<1>6. h.count <= MaxMappedPages /\ \A p \in PageNumbers : h.refs[p] > 0 => h.buffer[p]
  BY FileAssumptions DEF Sound
<1>7. QED
  BY <1>1, <1>3, <1>4, <1>5, <1>6 DEF ListSound, ListIs

(***************************************************************************)
(* The invariant, loop by loop.                                            *)
(***************************************************************************)

\* Who has mapped a page: the position, if m is its page, and nobody else.
UsedBy(h, m) == \A q \in PageNumbers : h.refs[q] = IF q = m THEN 1 ELSE 0

\* The pages that are listed are in the digest already.
InTurn(h) == \A q \in PageNumbers : h.buffer[q] => q < h.md5_page

Position == [page : Nat, off : Nat, mem_page : PageOrNull]
CheckSum == [low : 0 .. ChecksumMod - 1, high : 0 .. ChecksumMod - 1]
Instruction == [index : 0 .. 1, offset : Nat, length : Nat \ {0}]
Generator ==
  [xpos : Position, ypos : Position, sum : CheckSum, page : Nat, cksums : Seq(CheckSum),
   table : [0 .. TableSize - 1 -> Nat \cup {Null}], to_output_pos : Nat, data_output_pos : Nat,
   ok : BOOLEAN, insts : Seq(Instruction), used : SUBSET (0 .. 1),
   sequential : [0 .. 1 -> BOOLEAN], position : [0 .. 1 -> Nat]]
Matches == [to : Nat, src : Nat, back : Nat, fwd : Nat, one_insert : BOOLEAN]
Written ==
  [bytes : Seq(Byte \cup {Junk}), reset : BOOLEAN, hashed : Seq(Byte \cup {Junk}),
   md5 : Seq(Byte \cup {Junk}), file : Seq(Byte \cup {Junk}), writes : Nat,
   status : {"ok", "failed"}]

Scanning == {"scan", "nextpage", "roll", "back", "forward", "matched"}
Generating == Scanning \cup {"sums", "rest", "just", "digest"}

\* The file that is read through h: its pages are tracked, and its digest is that
\* of the pages up to the next one.
FileOf(h, seek) ==
  /\ h \in Handles /\ h.seek = seek /\ h.status = "ok" /\ Sound(h) /\ Digests(h, job.verify)

Typed ==
  /\ job \in Inputs /\ gen \in Generator /\ match \in Matches /\ out \in Written
  /\ FileOf(in, FALSE) /\ FileOf(from, TRUE) /\ in.data = job.target
  /\ pc \in Generating \cup {"made", "copy", "ended"}

\* What all loops of delta share: the commands have not returned, and pages go
\* into the digests in their order.
Runs ==
  /\ from.data = job.source /\ InTurn(in) /\ InTurn(from)
  /\ exit = [delta |-> "runs", patch |-> "waits"]

\* The instructions so far make what is before to_output_pos.
Size(insts) == Before(insts, 0, Len(insts) + 1) + Before(insts, 1, Len(insts) + 1)
Start(insts, i) == Before(insts, 0, i) + Before(insts, 1, i)
Piece(src, data) == IF src = 0 THEN data ELSE job.source
Holds(insts, data, i) ==
  /\ insts[i].offset + insts[i].length <= Len(Piece(insts[i].index, data))
  /\ \A k \in 1 .. insts[i].length :
       Target[Start(insts, i) + k] = Piece(insts[i].index, data)[insts[i].offset + k]
Makes(insts, data) == \A i \in 1 .. Len(insts) : Holds(insts, data, i)

\* The data of the patch is used in its order, and the file too as long as
\* "sequential" says so.
InSequence(insts, src) == \A i \in 1 .. Len(insts) : insts[i].index = src => insts[i].offset = Before(insts, src, i)
Ordered(g) ==
  /\ g.to_output_pos = Size(g.insts) /\ g.to_output_pos <= InLength
  /\ g.data_output_pos = Before(g.insts, 0, Len(g.insts) + 1)
  /\ g.used = {g.insts[i].index : i \in 1 .. Len(g.insts)}
  /\ InSequence(g.insts, 0)
  /\ g.sequential[1] => InSequence(g.insts, 1) /\ g.position[1] = Before(g.insts, 1, Len(g.insts) + 1)

\* A copy of the file ends where its bytes and those of the target part.
Parted(g) ==
  LET last == g.insts[Len(g.insts)] IN
  LET end == last.offset + last.length IN
  Len(g.insts) > 0 /\ last.index = 1 /\ g.to_output_pos < InLength /\ end < FromLength
    => Target[g.to_output_pos + 1] # job.source[end + 1]

Wrote(g, o) ==
  /\ o.bytes = o.file
  /\ o.status = "ok" => Len(o.file) = g.data_output_pos /\ Makes(g.insts, o.file)

\* A handle that begins again with the next write has written nothing yet.
Fresh(o) == o.reset => o.bytes = <<>>

Built(g, o) == Ordered(g) /\ Parted(g) /\ Wrote(g, o)

\* generate_checksums: the pages before this one are summed up and in the digest.
SumsSoFar ==
  /\ Idle(from) /\ from.md5_page = gen.page /\ gen.page <= PagesOf(from)
  /\ gen.xpos = InitPos /\ gen.ypos = InitPos /\ Idle(in)
  /\ gen.to_output_pos = 0 /\ gen.ok
  /\ Len(gen.cksums) * QUERY_SIZE_POW = gen.page * PageSize

TableHolds ==
  /\ Len(gen.cksums) * QUERY_SIZE_POW <= FromLength
  /\ \A i \in 0 .. TableSize - 1 : gen.table[i] # Null => gen.table[i] + 1 <= Len(gen.cksums)

\* What all loops over the windows share.
Scans ==
  /\ UsedBy(in, gen.xpos.mem_page) /\ UsedBy(from, gen.ypos.mem_page)
  /\ Digested(from) /\ gen.ok /\ TableHolds
  /\ gen.xpos.page <= in.md5_page

\* The position is on the page that what is put out ends on.
EndsOn(x, n) ==
  /\ x.off < PageSize /\ XPOS(x) <= InLength
  /\ x.page * PageSize <= n /\ n <= XPOS(x)
OnLastPage(x) == EndsOn(x, gen.to_output_pos)

\* A window of the page that is mapped.
WindowAt(x) == x.mem_page = x.page /\ x.off + QUERY_SIZE_POW <= Rem(in, x)

\* The match m that is extended, by the generator g: its window, what it has before
\* it and behind it.
Agree(m) ==
  \A i \in 1 .. m.back + m.fwd :
    Target[m.to - m.back + i] = job.source[m.src - m.back + i]
Window(to) == [page |-> At(to).page, off |-> At(to).off, mem_page |-> At(to).page]
MatchAt(h, g, m) ==
  LET w == Window(m.to) IN
  /\ EndsOn(w, g.to_output_pos) /\ w.off + QUERY_SIZE_POW <= Rem(h, w) /\ w.page <= h.md5_page
  /\ m.src + QUERY_SIZE_POW <= FromLength
  /\ m.back <= m.src /\ m.back <= w.off
  /\ Agree(m)
  /\ g.sum = InitQueryChecksum(h, w, w.off)
BackAt(h, g, m) ==
  /\ MatchAt(h, g, m)
  /\ m.back + g.to_output_pos <= m.to
  /\ m.fwd = 0 /\ ~m.one_insert
  /\ g.xpos = [Window(m.to) EXCEPT !.off = @ - m.back]
  /\ g.ypos.off < PageSize /\ XPOS(g.ypos) = m.src - m.back
ForwardAt(h, g, m) ==
  /\ MatchAt(h, g, m)
  /\ m.fwd <= ForwardMax(m)
  /\ g.xpos.off < PageSize /\ XPOS(g.xpos) = m.to + m.fwd
  /\ g.ypos.off < PageSize /\ XPOS(g.ypos) = m.src + m.fwd
  /\ IF m.one_insert
     THEN m.back + g.to_output_pos = m.to /\ m.fwd >= QUERY_SIZE_POW
     ELSE m.back + g.to_output_pos <= m.to /\ g.xpos.mem_page = Window(m.to).page
  /\ g.xpos.mem_page # Null
EndsAt(m) ==
  m.fwd < ForwardMax(m) => Target[m.to + m.fwd + 1] # job.source[m.src + m.fwd + 1]

\* The last loop: the position is where what is put out ends.
Resting ==
  /\ UsedBy(in, gen.xpos.mem_page) /\ UsedBy(from, gen.ypos.mem_page)
  /\ gen.ypos.mem_page # Null => Digested(from)
  /\ gen.xpos.page <= in.md5_page
  /\ gen.xpos.off < PageSize
  /\ gen.ok /\ gen.to_output_pos < InLength => XPOS(gen.xpos) = gen.to_output_pos
  /\ gen.ok => out.status = "ok"
  /\ ~gen.ok => out.status # "ok" /\ gen.xpos.off = 0

Digesting ==
  /\ UsedBy(from, gen.ypos.mem_page) /\ Idle(in)
  /\ gen.ypos.mem_page # Null => Digested(from)
  /\ gen.to_output_pos = InLength /\ out.status = "ok"
  /\ out.reset

\* What the control says of the instructions.
ControlOf(insts) ==
  /\ cont.made /\ cont.no_verify = ~job.verify /\ cont.to_len = InLength /\ cont.to_md5 = in.hashed
  /\ Digested(in) /\ gen.to_output_pos = InLength /\ Ordered(gen) /\ Makes(gen.insts, cont.data)
  /\ Len(cont.data) = gen.data_output_pos /\ cont.data \in Seq(Byte \cup {Junk})
  /\ cont.insts = insts
InfosOf(infos) ==
  /\ 0 \in gen.used /\ 1 \in gen.used => Len(infos) = 2 /\ infos[1].isdata /\ ~infos[2].isdata
       /\ infos[2].len = FromLength /\ infos[1].sequential = gen.sequential[0]
       /\ infos[2].sequential = gen.sequential[1]
  /\ 0 \in gen.used /\ 1 \notin gen.used => Len(infos) = 1 /\ infos[1].isdata
       /\ infos[1].sequential = gen.sequential[0]
  /\ 0 \notin gen.used /\ 1 \in gen.used => Len(infos) = 1 /\ ~infos[1].isdata
       /\ infos[1].len = FromLength /\ infos[1].sequential = gen.sequential[1]
  /\ 0 \notin gen.used /\ 1 \notin gen.used => Len(infos) = 0

MadeFields(c) ==
  c = [made |-> c.made, infos |-> c.infos, insts |-> c.insts, to_len |-> c.to_len, to_md5 |-> c.to_md5,
       no_verify |-> c.no_verify, data |-> c.data]
MadeHolds ==
  /\ MadeFields(cont) /\ ControlOf(Packed(cont.infos, Reindexed)) /\ InfosOf(cont.infos)
  /\ exit = [delta |-> "0", patch |-> "waits"]

\* The copies of patch so far make the target, if the file is the right one.
CopyFields(c) ==
  c = [made |-> c.made, infos |-> c.infos, insts |-> c.insts, to_len |-> c.to_len, to_md5 |-> c.to_md5,
       no_verify |-> c.no_verify, data |-> c.data, from_source |-> c.from_source, pos |-> c.pos,
       inst |-> c.inst, copied |-> c.copied]
Copying ==
  /\ CopyFields(cont) /\ ControlOf(Reindexed)
  /\ exit = [delta |-> "0", patch |-> "runs"]
  /\ Idle(from) /\ from.data = job.given
  /\ 1 \in gen.used => Len(job.given) = FromLength
  /\ cont.from_source = IF 1 \notin gen.used THEN 0 ELSE IF 0 \in gen.used THEN 2 ELSE 1
  /\ cont.inst \in 1 .. Len(gen.insts) + 1 /\ cont.copied \in Nat
  /\ cont.copied > 0 => cont.inst <= Len(gen.insts) /\ gen.insts[cont.inst].index = 1
                        /\ cont.copied < gen.insts[cont.inst].length
  /\ cont.pos = Before(gen.insts, 0, cont.inst)
  /\ ~out.reset /\ out.bytes = out.file
  /\ out.status = "ok" =>
       /\ out.hashed = (IF job.verify THEN out.bytes ELSE <<>>)
       /\ job.given = job.source => out.bytes = SubSeq(Target, 1, Start(gen.insts, cont.inst) + cont.copied)

Finished ==
  /\ exit.delta \in {"0", "2"} /\ exit.patch \in {"waits", "0", "2"}
  /\ exit.delta = "2" => out.status # "ok"
  /\ exit.patch = "2" /\ job.given = job.source => out.status # "ok"
  /\ exit.patch = "0" /\ (~cont.no_verify \/ job.given = job.source)
       => out.bytes = Target /\ out.file = Target

XInv ==
  /\ Typed
  /\ pc \in Generating => Runs /\ Built(gen, out)
  /\ pc \in Generating \ {"digest"} => Fresh(out)
  /\ pc = "sums" => SumsSoFar
  /\ pc \in Scanning => Scans
  /\ pc \in {"nextpage", "roll", "back"} => out.status = "ok"
  /\ pc = "scan" => OnLastPage(gen.xpos)
  /\ pc = "nextpage" => OnLastPage(gen.xpos) /\ gen.xpos.mem_page = gen.xpos.page
  /\ pc = "roll" => OnLastPage(gen.xpos) /\ WindowAt(gen.xpos)
                    /\ gen.sum = InitQueryChecksum(in, gen.xpos, gen.xpos.off)
  /\ pc = "back" => BackAt(in, gen, match)
  /\ pc \in {"forward", "matched"} => ForwardAt(in, gen, match)
  /\ pc = "matched" => EndsAt(match)
  /\ pc \in {"rest", "just"} => Resting
  /\ pc = "digest" => Digesting
  /\ pc = "made" => MadeHolds
  /\ pc = "copy" => Copying
  /\ pc = "ended" => Finished

(***************************************************************************)
(* The positions of instructions.                                          *)
(***************************************************************************)

Lengths(insts, n) == \A i \in 1 .. n : insts[i].length \in Nat
PartOf(inst, src) == IF inst.index = src THEN inst.length ELSE 0
Adds(f, insts, src, n) ==
  /\ f \in [0 .. n -> Nat] /\ f[0] = 0
  /\ \A k \in 1 .. n : f[k] = f[k - 1] + PartOf(insts[k], src)

\* Before adds up the lengths of the instructions of a source.
LEMMA BeforeSums ==
  ASSUME NEW insts, NEW src, NEW n \in Nat, Lengths(insts, n)
  PROVE  \E f : Adds(f, insts, src, n) /\ Before(insts, src, n + 1) = f[n]
<1> DEFINE step == [p \in (1 .. n) \X Nat |-> p[2] + PartOf(insts[p[1]], src)]
           Values(g) == g = [k \in 0 .. n |->
                               IF k = 0 THEN 0
                               ELSE g[k - 1] + (IF insts[k].index = src THEN insts[k].length ELSE 0)]
<1>1. \A k \in 1 .. n : PartOf(insts[k], src) \in Nat
  BY DEF Lengths, PartOf
<1>2. step \in [(1 .. n) \X Nat -> Nat]
  BY <1>1
<1>3. PICK f : Recursive(n, Nat, 0, step, f)
  <2> HIDE DEF step
  <2> QED BY <1>2, Recursion
<1>4. Values(f)
  <2>1. ASSUME NEW k \in 0 .. n
        PROVE  f[k] = IF k = 0 THEN 0
                      ELSE f[k - 1] + (IF insts[k].index = src THEN insts[k].length ELSE 0)
    <3>1. CASE k = 0
      BY <1>3, <3>1 DEF Recursive
    <3>2. CASE k # 0
      <4>1. k \in 1 .. n /\ k - 1 \in 0 .. n
        BY <3>2
      <4>2. f[k - 1] \in Nat
        BY <1>3, <4>1 DEF Recursive
      <4>3. step[<<k, f[k - 1]>>] = f[k - 1] + PartOf(insts[k], src)
        BY <4>1, <4>2
      <4>4. f[k] = step[<<k, f[k - 1]>>]
        BY <1>3, <4>1 DEF Recursive
      <4>5. QED
        BY <3>2, <4>3, <4>4 DEF PartOf
    <3>3. QED
      BY <3>1, <3>2
  <2>2. f = [k \in 0 .. n |-> f[k]]
    BY <1>3 DEF Recursive
  <2>3. QED
    BY <2>1, <2>2, Zenon
<1> DEFINE g == CHOOSE g : Values(g)
<1>5. Values(g)
  BY <1>4
<1>6. Before(insts, src, n + 1) = g[n]
  <2>1. (n + 1) - 1 = n
    OBVIOUS
  <2>2. QED
    BY <2>1 DEF Before
<1> HIDE DEF g
<1>7. g[0] = 0 /\ \A k \in 1 .. n : g[k] = g[k - 1] + PartOf(insts[k], src)
  <2>1. g[0] = 0
    BY <1>5
  <2>2. ASSUME NEW k \in 1 .. n PROVE g[k] = g[k - 1] + PartOf(insts[k], src)
    <3>1. k \in 0 .. n /\ k # 0
      OBVIOUS
    <3>2. QED
      BY <1>5, <3>1 DEF PartOf
  <2>3. QED
    BY <2>1, <2>2
<1>8. g[0] \in Nat /\ \A k \in 1 .. n : g[k - 1] \in Nat => g[k] \in Nat
  BY <1>1, <1>7
<1>9. \A k \in 0 .. n : g[k] \in Nat
  BY <1>8, AllAlong, Zenon
<1>10. g \in [0 .. n -> Nat]
  <2>1. g = [k \in 0 .. n |-> g[k]]
    BY <1>5
  <2>2. QED
    BY <1>9, <2>1
<1>11. QED
  BY <1>6, <1>7, <1>10 DEF Adds

\* Two lists of instructions that are the same for a source up to the n-th are
\* at the same position of it there.
LEMMA SameBefore ==
  ASSUME NEW a, NEW b, NEW src, NEW other, NEW n \in Nat, Lengths(a, n),
         \A i \in 1 .. n : PartOf(a[i], src) = PartOf(b[i], other), Lengths(b, n)
  PROVE  Before(a, src, n + 1) = Before(b, other, n + 1)
<1>1. PICK f : Adds(f, a, src, n) /\ Before(a, src, n + 1) = f[n]
  BY BeforeSums
<1>2. PICK g : Adds(g, b, other, n) /\ Before(b, other, n + 1) = g[n]
  BY BeforeSums
<1> DEFINE d == [k \in 0 .. n |-> f[k] - g[k]]
<1>3. /\ \A k \in 0 .. n : f[k] \in Nat /\ g[k] \in Nat
      /\ f[0] = 0 /\ g[0] = 0
  BY <1>1, <1>2 DEF Adds
<1>4. ASSUME NEW k \in 1 .. n, d[k - 1] \in {0} PROVE d[k] \in {0}
  <2>1. k - 1 \in 0 .. n /\ k \in 0 .. n
    OBVIOUS
  <2>2. f[k - 1] = g[k - 1]
    BY <1>3, <1>4, <2>1
  <2>3. f[k] = f[k - 1] + PartOf(a[k], src) /\ g[k] = g[k - 1] + PartOf(b[k], other)
    BY <1>1, <1>2 DEF Adds
  <2>4. f[k] = g[k]
    BY <2>2, <2>3
  <2>5. QED
    BY <1>3, <2>1, <2>4
<1>5. d[0] \in {0}
  BY <1>3
<1>6. \A k \in 0 .. n : d[k] \in {0}
  <2> DEFINE V == {0}
  <2>1. d[0] \in V /\ \A k \in 1 .. n : d[k - 1] \in V => d[k] \in V
    BY <1>4, <1>5
  <2> HIDE DEF d, V
  <2>2. \A k \in 0 .. n : d[k] \in V
    BY <2>1, AllAlong, Zenon
  <2>3. QED
    BY <2>2 DEF V
<1>7. QED
  BY <1>1, <1>2, <1>3, <1>6

\* From one instruction to the next, and from any to the last.
LEMMA BeforeFacts ==
  ASSUME NEW insts, NEW src, NEW n \in Nat, Lengths(insts, n)
  PROVE  /\ Before(insts, src, 1) = 0
         /\ \A i \in 1 .. n + 1 : Before(insts, src, i) \in Nat
         /\ \A i \in 1 .. n :
              Before(insts, src, i + 1) = Before(insts, src, i) + PartOf(insts[i], src)
<1>1. PICK f : Adds(f, insts, src, n) /\ Before(insts, src, n + 1) = f[n]
  BY BeforeSums
<1>2. ASSUME NEW m \in 0 .. n PROVE Before(insts, src, m + 1) = f[m]
  <2>1. m \in Nat /\ Lengths(insts, m)
    BY DEF Lengths
  <2>2. PICK g : Adds(g, insts, src, m) /\ Before(insts, src, m + 1) = g[m]
    BY <2>1, BeforeSums
  <2> DEFINE d == [k \in 0 .. m |-> f[k] - g[k]]
  <2>3. /\ \A k \in 0 .. m : f[k] \in Nat /\ g[k] \in Nat
        /\ f[0] = 0 /\ g[0] = 0
    BY <1>1, <2>2 DEF Adds
  <2>4. ASSUME NEW k \in 1 .. m, d[k - 1] \in {0} PROVE d[k] \in {0}
    <3>1. k - 1 \in 0 .. m /\ k \in 0 .. m /\ k \in 1 .. n
      OBVIOUS
    <3>2. f[k - 1] = g[k - 1]
      BY <2>3, <2>4, <3>1
    <3>3. f[k] = f[k - 1] + PartOf(insts[k], src) /\ g[k] = g[k - 1] + PartOf(insts[k], src)
      BY <1>1, <2>2, <3>1 DEF Adds
    <3>4. f[k] = g[k]
      BY <3>2, <3>3
    <3>5. QED
      BY <2>3, <3>1, <3>4
  <2>5. d[0] \in {0}
    BY <2>3
  <2>6. \A k \in 0 .. m : d[k] \in {0}
    <3> DEFINE V == {0}
    <3>1. d[0] \in V /\ \A k \in 1 .. m : d[k - 1] \in V => d[k] \in V
      BY <2>4, <2>5
    <3> HIDE DEF d, V
    <3>2. \A k \in 0 .. m : d[k] \in V
      BY <2>1, <3>1, AllAlong, Zenon
    <3>3. QED
      BY <3>2 DEF V
  <2>7. QED
    BY <2>1, <2>2, <2>3, <2>6
<1>3. Before(insts, src, 1) = 0
  BY <1>1, <1>2 DEF Adds
<1>4. ASSUME NEW i \in 1 .. n + 1 PROVE Before(insts, src, i) = f[i - 1] /\ f[i - 1] \in Nat
  <2>1. i - 1 \in 0 .. n /\ (i - 1) + 1 = i
    OBVIOUS
  <2>2. Before(insts, src, (i - 1) + 1) = f[i - 1]
    BY <1>2, <2>1
  <2>3. QED
    BY <1>1, <2>1, <2>2 DEF Adds
<1>5. ASSUME NEW i \in 1 .. n
      PROVE  Before(insts, src, i + 1) = Before(insts, src, i) + PartOf(insts[i], src)
  <2>1. i \in 1 .. n + 1 /\ i + 1 \in 1 .. n + 1 /\ (i + 1) - 1 = i
    OBVIOUS
  <2>2. f[i] = f[i - 1] + PartOf(insts[i], src)
    BY <1>1 DEF Adds
  <2>3. Before(insts, src, i) = f[i - 1]
    BY <1>4, <2>1
  <2>4. Before(insts, src, i + 1) = f[i]
    BY <1>4, <2>1
  <2>5. QED
    BY <2>2, <2>3, <2>4
<1>6. QED
  BY <1>3, <1>4, <1>5

\* The positions grow.
LEMMA BeforeGrows ==
  ASSUME NEW insts, NEW src, NEW n \in Nat, Lengths(insts, n), NEW i \in 1 .. n + 1
  PROVE  Before(insts, src, i) <= Before(insts, src, n + 1)
<1> DEFINE b == [k \in 0 .. n + 1 - i |-> Before(insts, src, i + k)]
           V == {m \in Nat : Before(insts, src, i) <= m}
<1>1. \A k \in 1 .. n + 1 : Before(insts, src, k) \in Nat
  BY BeforeFacts
<1>2. ASSUME NEW k \in 1 .. n + 1 - i, b[k - 1] \in V PROVE b[k] \in V
  <2>1. k - 1 \in 0 .. n + 1 - i /\ k \in 0 .. n + 1 - i /\ i + (k - 1) \in 1 .. n
        /\ (i + (k - 1)) + 1 = i + k
    OBVIOUS
  <2>2. Before(insts, src, (i + (k - 1)) + 1)
          = Before(insts, src, i + (k - 1)) + PartOf(insts[i + (k - 1)], src)
    BY <2>1, BeforeFacts
  <2>3. PartOf(insts[i + (k - 1)], src) \in Nat
    BY <2>1 DEF Lengths, PartOf
  <2>4. b[k - 1] = Before(insts, src, i + (k - 1)) /\ b[k] = Before(insts, src, i + k)
    BY <2>1
  <2> HIDE DEF b
  <2>5. Before(insts, src, i + k) = b[k - 1] + PartOf(insts[i + (k - 1)], src)
    BY <2>1, <2>2, <2>4
  <2>6. b[k] = b[k - 1] + PartOf(insts[i + (k - 1)], src)
    BY <2>4, <2>5
  <2>7. Before(insts, src, i) \in Nat
    BY <1>1
  <2>8. QED
    BY <1>2, <2>3, <2>6, <2>7
<1>3. b[0] \in V
  <2>1. 0 \in 0 .. n + 1 - i /\ i + 0 = i
    OBVIOUS
  <2>2. b[0] = Before(insts, src, i)
    BY <2>1
  <2>3. QED
    BY <1>1, <2>2
<1>4. n + 1 - i \in Nat
  OBVIOUS
<1>5. \A k \in 0 .. n + 1 - i : b[k] \in V
  <2> HIDE DEF b, V
  <2> QED BY <1>2, <1>3, <1>4, AllAlong
<1>6. n + 1 - i \in 0 .. n + 1 - i /\ i + (n + 1 - i) = n + 1
  OBVIOUS
<1>7. QED
  BY <1>5, <1>6

(***************************************************************************)
(* One instruction more, or a longer one.                                  *)
(***************************************************************************)

Joins(g, src, a) ==
  LET last == Len(g.insts) IN
  last > 0 /\ g.insts[last].index = src /\ g.insts[last].offset + g.insts[last].length = a

\* What the control has nothing to do with.
SamePlace(h, g) ==
  /\ h.xpos = g.xpos /\ h.ypos = g.ypos /\ h.sum = g.sum /\ h.page = g.page
  /\ h.cksums = g.cksums /\ h.table = g.table /\ h.ok = g.ok

Grown(h, g, src, a, len) ==
  LET last == Len(g.insts) IN
  IF Joins(g, src, a)
  THEN /\ Len(h.insts) = last /\ \A i \in 1 .. last - 1 : h.insts[i] = g.insts[i]
       /\ h.insts[last] = [index |-> src, offset |-> g.insts[last].offset,
                           length |-> g.insts[last].length + len]
       /\ h.used = g.used /\ h.sequential = g.sequential /\ h.position = g.position
  ELSE /\ Len(h.insts) = last + 1 /\ \A i \in 1 .. last : h.insts[i] = g.insts[i]
       /\ h.insts[last + 1] = [index |-> src, offset |-> a, length |-> len]
       /\ h.used = g.used \cup {src}
       /\ h.sequential = [g.sequential EXCEPT ![src] = @ /\ g.position[src] = a]
       /\ h.position = [g.position EXCEPT ![src] = a + len]

Longer(h, g, src, a, len) ==
  /\ h \in Generator /\ SamePlace(h, g) /\ Grown(h, g, src, a, len)
  /\ h.to_output_pos = g.to_output_pos /\ h.data_output_pos = g.data_output_pos

\* control_copy lengthens the last instruction or adds one.
LEMMA ControlCopyFacts ==
  ASSUME NEW g \in Generator, NEW src \in 0 .. 1, NEW a \in Nat, NEW len \in Nat \ {0},
         NEW h, h = ControlCopy(g, src, a, a + len)
  PROVE  Longer(h, g, src, a, len)
<1> DEFINE last == Len(g.insts)
<1>1. /\ g.insts \in Seq(Instruction) /\ last \in Nat
      /\ \A i \in 1 .. last : g.insts[i] \in Instruction
  BY DEF Generator
<1>2. (a + len) - a = len /\ a + len \in Nat
  OBVIOUS
<1>3. CASE Joins(g, src, a)
  <2> DEFINE more == [g.insts EXCEPT ![last].length = @ + len]
             inst == [g.insts[last] EXCEPT !.length = @ + len]
  <2>1. last \in 1 .. last /\ g.insts[last].index = src
    BY <1>1, <1>3 DEF Joins
  <2>2. inst = [index |-> src, offset |-> g.insts[last].offset, length |-> g.insts[last].length + len]
        /\ inst \in Instruction
    <3>1. g.insts[last] \in [index : 0 .. 1, offset : Nat, length : Nat \ {0}]
      BY <1>1, <2>1 DEF Instruction
    <3>2. PICK old \in [index : 0 .. 1, offset : Nat, length : Nat \ {0}] : old = g.insts[last]
      BY <3>1
    <3>3. [old EXCEPT !.length = old.length + len]
            = [index |-> old.index, offset |-> old.offset, length |-> old.length + len]
          /\ old.length + len \in Nat \ {0} /\ old.index \in 0 .. 1 /\ old.offset \in Nat
      BY <3>2
    <3>4. inst = [old EXCEPT !.length = old.length + len]
      BY <3>2
    <3>5. old.index = src
      BY <2>1, <3>2
    <3>6. QED
      BY <3>2, <3>3, <3>4, <3>5 DEF Instruction
  <2>3. more = [g.insts EXCEPT ![last] = inst]
    OBVIOUS
  <2>4. more \in Seq(Instruction) /\ Len(more) = last /\ more[last] = inst
        /\ \A i \in 1 .. last - 1 : more[i] = g.insts[i]
    <3> HIDE DEF inst
    <3> QED BY <1>1, <2>1, <2>2, <2>3
  <2> HIDE DEF more, inst
  <2>5. h = [g EXCEPT !.insts = more]
    BY <1>2, <1>3 DEF ControlCopy, Joins, more
  <2>6. h \in Generator
    BY <2>4, <2>5 DEF Generator
  <2>7. /\ SamePlace(h, g) /\ h.insts = more /\ h.to_output_pos = g.to_output_pos
        /\ h.data_output_pos = g.data_output_pos
        /\ h.used = g.used /\ h.sequential = g.sequential /\ h.position = g.position
    BY <2>5 DEF Generator, SamePlace
  <2>8. QED
    BY <1>3, <2>2, <2>4, <2>6, <2>7 DEF Grown, Longer
<1>4. CASE ~Joins(g, src, a)
  <2> DEFINE inst == [index |-> src, offset |-> a, length |-> len]
             more == Append(g.insts, inst)
             used == g.used \cup {src}
             sequential == [g.sequential EXCEPT ![src] = @ /\ g.position[src] = a]
             position == [g.position EXCEPT ![src] = a + len]
  <2>1. inst \in Instruction
    BY DEF Instruction
  <2>2. more \in Seq(Instruction) /\ Len(more) = last + 1 /\ more[last + 1] = inst
        /\ \A i \in 1 .. last : more[i] = g.insts[i]
    <3> HIDE DEF inst
    <3> QED BY <1>1, <2>1
  <2>3. used \in SUBSET (0 .. 1)
    BY DEF Generator
  <2>4. sequential \in [0 .. 1 -> BOOLEAN]
    BY DEF Generator
  <2>5. position \in [0 .. 1 -> Nat]
    BY DEF Generator
  <2>6. h = [g EXCEPT !.insts = more, !.used = used, !.sequential = sequential, !.position = position]
    <3>1. inst = [index |-> src, offset |-> a, length |-> (a + len) - a]
      BY <1>2
    <3>2. h = [g EXCEPT !.insts = Append(@, [index |-> src, offset |-> a, length |-> (a + len) - a]),
                 !.used = @ \cup {src},
                 !.sequential[src] = @ /\ g.position[src] = a,
                 !.position[src] = a + len]
      BY <1>4 DEF ControlCopy, Joins
    <3> HIDE DEF inst
    <3>3. QED
      BY <3>1, <3>2 DEF Generator
  <2> HIDE DEF more, inst, used, sequential, position
  <2>7. h \in Generator
    BY <2>2, <2>3, <2>4, <2>5, <2>6 DEF Generator
  <2>8. /\ SamePlace(h, g) /\ h.insts = more /\ h.to_output_pos = g.to_output_pos
        /\ h.data_output_pos = g.data_output_pos
        /\ h.used = used /\ h.sequential = sequential /\ h.position = position
    BY <2>6 DEF Generator, SamePlace
  <2>9. Grown(h, g, src, a, len)
    BY <1>4, <2>2, <2>8 DEF Grown, inst, used, sequential, position
  <2>10. QED
    BY <2>7, <2>8, <2>9 DEF Longer
<1>5. QED
  BY <1>3, <1>4

\* The positions before what was there already, and after the whole.
LEMMA GrownBefore ==
  ASSUME NEW g \in Generator, NEW src \in 0 .. 1, NEW a \in Nat, NEW len \in Nat \ {0},
         NEW h \in Generator, Grown(h, g, src, a, len), NEW s \in 0 .. 1
  PROVE  /\ \A i \in 1 .. Len(h.insts) : i <= Len(g.insts) + 1 =>
              Before(h.insts, s, i) = Before(g.insts, s, i)
         /\ Before(h.insts, s, Len(h.insts) + 1)
              = Before(g.insts, s, Len(g.insts) + 1) + (IF s = src THEN len ELSE 0)
         /\ Len(h.insts) \in 1 .. Len(g.insts) + 1
<1> DEFINE n == Len(g.insts)
           m == Len(h.insts)
<1>1. /\ n \in Nat /\ m \in Nat
      /\ \A i \in 1 .. n : g.insts[i] \in Instruction
      /\ \A i \in 1 .. m : h.insts[i] \in Instruction
  BY SMTT(40) DEF Generator
<1>2. Lengths(g.insts, n) /\ Lengths(h.insts, m)
  BY <1>1 DEF Lengths, Instruction
<1>3. IF Joins(g, src, a) THEN m = n /\ n > 0 ELSE m = n + 1
  BY <1>1 DEF Grown, Joins
<1>4. \A i \in 1 .. m - 1 : h.insts[i] = g.insts[i]
  BY <1>1, <1>3 DEF Grown
<1>5. ASSUME NEW i \in 1 .. m PROVE Before(h.insts, s, i) = Before(g.insts, s, i)
  <2> DEFINE k == i - 1
  <2>1. k \in Nat /\ k <= m - 1 /\ k <= n /\ k + 1 = i
    BY <1>1, <1>3
  <2> HIDE DEF k
  <2>2. Lengths(g.insts, k) /\ Lengths(h.insts, k)
    BY <1>2, <1>3, <2>1 DEF Lengths
  <2>3. \A j \in 1 .. k : PartOf(h.insts[j], s) = PartOf(g.insts[j], s)
    BY <1>1, <1>4, <2>1, SMTT(40)
  <2>4. Before(h.insts, s, k + 1) = Before(g.insts, s, k + 1)
    BY <2>1, <2>2, <2>3, SameBefore
  <2>5. QED
    BY <2>1, <2>4
<1>6. Before(h.insts, s, m + 1) = Before(h.insts, s, m) + PartOf(h.insts[m], s)
  <2>1. m \in 1 .. m
    BY <1>1, <1>3
  <2>2. \A i \in 1 .. m : Before(h.insts, s, i + 1) = Before(h.insts, s, i) + PartOf(h.insts[i], s)
    BY <1>1, <1>2, BeforeFacts
  <2>3. QED
    BY <2>1, <2>2
<1>7. Before(h.insts, s, m) = Before(g.insts, s, m)
  BY <1>1, <1>3, <1>5
<1>8. \A i \in 1 .. n + 1 : Before(g.insts, s, i) \in Nat
  BY <1>1, <1>2, BeforeFacts
<1>9. CASE Joins(g, src, a)
  <2>1. m = n /\ n \in 1 .. n
    BY <1>1, <1>3, <1>9
  <2>2. Before(g.insts, s, n + 1) = Before(g.insts, s, n) + PartOf(g.insts[n], s)
    BY <1>1, <1>2, <2>1, BeforeFacts
  <2>3. h.insts[n].index = src /\ h.insts[n].length = g.insts[n].length + len
    BY <1>9, <2>1 DEF Grown
  <2>4. g.insts[n].index = src /\ g.insts[n].length \in Nat
    BY <1>1, <1>9, <2>1 DEF Joins, Instruction
  <2>5. PartOf(h.insts[n], s) = PartOf(g.insts[n], s) + (IF s = src THEN len ELSE 0)
        /\ PartOf(g.insts[n], s) \in Nat
    BY <2>3, <2>4 DEF PartOf
  <2>6. Before(g.insts, s, n) \in Nat
    BY <1>8, <2>1
  <2>7. Before(h.insts, s, m + 1) = Before(g.insts, s, n) + PartOf(h.insts[n], s)
    BY <1>6, <1>7, <2>1
  <2>8. QED
    BY <1>1, <1>5, <2>1, <2>2, <2>5, <2>6, <2>7
<1>10. CASE ~Joins(g, src, a)
  <2>1. m = n + 1 /\ h.insts[m].index = src /\ h.insts[m].length = len
    BY <1>3, <1>10 DEF Grown
  <2>2. PartOf(h.insts[m], s) = IF s = src THEN len ELSE 0
    BY <2>1 DEF PartOf
  <2>3. Before(h.insts, s, m + 1) = Before(g.insts, s, n + 1) + PartOf(h.insts[m], s)
    BY <1>6, <1>7, <2>1
  <2>4. QED
    BY <1>1, <1>5, <2>1, <2>2, <2>3
<1>11. QED
  BY <1>9, <1>10

(***************************************************************************)
(* What is written.                                                        *)
(***************************************************************************)

Bytes == Byte \cup {Junk}

\* What the inputs are.
LEMMA JobFacts ==
  ASSUME job \in Inputs
  PROVE  /\ job \in [target : Seq(Byte), source : Seq(Byte), given : Seq(Byte), verify : BOOLEAN,
                     writes : Nat]
         /\ Target \in Seq(Byte) /\ job.source \in Seq(Byte) /\ job.given \in Seq(Byte)
         /\ InLength \in Nat /\ FromLength \in Nat /\ job.verify \in BOOLEAN /\ job.writes \in Nat
         /\ Len(Target) \div PageSize < LastPage /\ Len(job.source) \div PageSize < LastPage
         /\ Len(job.given) \div PageSize < LastPage
         /\ PageSize \in Nat \ {0} /\ LastPage \in Nat
<1>1. /\ job \in [target : Seq(Byte), source : Seq(Byte), given : Seq(Byte), verify : BOOLEAN,
                  writes : Nat]
      /\ \A data \in {job.target, job.source, job.given} : Len(data) \div PageSize < LastPage
  BY InputAssumptions
<1>2. /\ job.target \in Seq(Byte) /\ job.source \in Seq(Byte) /\ job.given \in Seq(Byte)
      /\ job.verify \in BOOLEAN /\ job.writes \in Nat
  BY <1>1
<1>3. Len(job.target) \in Nat /\ Len(job.source) \in Nat
  BY <1>2
<1>4. QED
  BY <1>1, <1>2, <1>3, FileAssumptions DEF Target, InLength, FromLength

\* A write adds its bytes, or fails once no more of them succeed.
WroteTo(g, o, bytes, v) ==
  /\ g \in Written
  /\ g.status = "ok" => o.status = "ok" /\ o.writes # 0
  /\ o.writes = 0 => g.status = "failed" /\ g.bytes = o.bytes /\ g.file = o.file /\ g.reset = o.reset
  /\ o.writes # 0 => /\ g.bytes = Since(o) \o bytes /\ g.file = o.file \o bytes /\ ~g.reset
                     /\ g.hashed = (IF v THEN o.hashed \o bytes ELSE o.hashed)
                     /\ g.status = o.status
  /\ o.status # "ok" => g.status # "ok"

\* handle_write: the bytes go behind those that were written, or the disk is full.
LEMMA WriteFacts ==
  ASSUME NEW o \in Written, NEW bytes \in Seq(Bytes), NEW v \in BOOLEAN,
         NEW g, g = HandleWrite(o, bytes, v)
  PROVE  WroteTo(g, o, bytes, v)
<1>1. o.bytes \in Seq(Bytes) /\ o.file \in Seq(Bytes) /\ o.hashed \in Seq(Bytes)
      /\ o.reset \in BOOLEAN /\ o.writes \in Nat /\ o.status \in {"ok", "failed"} /\ <<>> \in Seq(Bytes)
  BY DEF Written, Bytes
<1>2. CASE o.writes = 0
  <2>1. g = [o EXCEPT !.status = "failed"]
    BY <1>2 DEF HandleWrite, Fails
  <2>2. QED
    BY <1>2, <2>1 DEF Written, WroteTo
<1>3. CASE o.writes # 0
  <2> DEFINE b == Since(o) \o bytes
             f == o.file \o bytes
             d == IF v THEN o.hashed \o bytes ELSE o.hashed
             w == o.writes - 1
  <2>1. Since(o) \in Seq(Bytes)
    BY <1>1 DEF Since
  <2>2. b \in Seq(Bytes)
    BY <2>1
  <2>3. f \in Seq(Bytes) /\ d \in Seq(Bytes)
    BY <1>1
  <2>4. w \in Nat
    BY <1>1, <1>3
  <2>5. g = [o EXCEPT !.bytes = b, !.reset = FALSE, !.hashed = d, !.file = f, !.writes = w]
    BY <1>3 DEF HandleWrite, Written
  <2> HIDE DEF b, f, d, w
  <2>6. g \in Written
    BY <2>2, <2>3, <2>4, <2>5 DEF Written, Bytes
  <2>7. /\ g.bytes = b /\ g.file = f /\ ~g.reset /\ g.hashed = d /\ g.status = o.status
    BY <2>5 DEF Written
  <2>8. QED
    BY <1>3, <2>6, <2>7 DEF b, f, d, WroteTo
<1>4. QED
  BY <1>2, <1>3

\* An insert puts out the bytes of the target that come next.
InsertHolds(h, o2, g, o, len) ==
  /\ h \in Generator /\ SamePlace(h, g) /\ o2 \in Written
  /\ h.to_output_pos = g.to_output_pos + len
  /\ Built(h, o2) /\ Fresh(o2)
  /\ o2.status = "ok" => o.status = "ok"

\* region_insert keeps the order of the instructions.
LEMMA InsertOrdered ==
  ASSUME NEW g \in Generator, Ordered(g), NEW len \in Nat \ {0},
         g.to_output_pos + len <= InLength,
         NEW h, h = Inserted(g, len)
  PROVE  /\ h \in Generator /\ SamePlace(h, g) /\ Grown(h, g, 0, g.data_output_pos, len)
         /\ h.to_output_pos = g.to_output_pos + len /\ h.data_output_pos = g.data_output_pos + len
         /\ Ordered(h) /\ Parted(h)
<1> DEFINE c == ControlCopy(g, 0, g.data_output_pos, g.data_output_pos + len)
           n == Len(g.insts)
           m == Len(h.insts)
           dop == g.data_output_pos
<1>1. g.data_output_pos \in Nat /\ g.to_output_pos \in Nat /\ 0 \in 0 .. 1 /\ n \in Nat
      /\ \A i \in 1 .. n : g.insts[i] \in Instruction
  BY DEF Generator
<1>2. /\ c \in Generator /\ SamePlace(c, g) /\ Grown(c, g, 0, g.data_output_pos, len)
      /\ c.to_output_pos = g.to_output_pos /\ c.data_output_pos = g.data_output_pos
  <2>1. c = ControlCopy(g, 0, g.data_output_pos, g.data_output_pos + len)
    OBVIOUS
  <2> HIDE DEF c
  <2>2. QED
    <3>1. g \in Generator /\ 0 \in 0 .. 1 /\ g.data_output_pos \in Nat /\ len \in Nat \ {0}
      BY <1>1
    <3>2. Longer(c, g, 0, g.data_output_pos, len)
      BY <2>1, <3>1, ControlCopyFacts
    <3>3. QED
      BY <3>2 DEF Longer
<1> HIDE DEF c
<1>3. h = [c EXCEPT !.to_output_pos = g.to_output_pos + len, !.data_output_pos = g.data_output_pos + len]
  <2>1. h = [c EXCEPT !.to_output_pos = @ + len, !.data_output_pos = @ + len]
    BY DEF Inserted, c
  <2>2. QED
    BY <1>2, <2>1 DEF Generator
<1>4. /\ h \in Generator /\ SamePlace(h, g) /\ h.insts = c.insts /\ h.used = c.used
      /\ h.sequential = c.sequential /\ h.position = c.position
      /\ h.to_output_pos = g.to_output_pos + len /\ h.data_output_pos = g.data_output_pos + len
  <2> DEFINE a == g.to_output_pos + len
             b == g.data_output_pos + len
  <2>1. a \in Nat /\ b \in Nat
    BY <1>1
  <2>2. h = [c EXCEPT !.to_output_pos = a, !.data_output_pos = b]
    BY <1>3
  <2> HIDE DEF a, b
  <2>3. /\ h \in Generator /\ SamePlace(h, c) /\ h.insts = c.insts /\ h.used = c.used
        /\ h.sequential = c.sequential /\ h.position = c.position
        /\ h.to_output_pos = a /\ h.data_output_pos = b
    BY <1>2, <2>1, <2>2 DEF Generator, SamePlace
  <2>4. SamePlace(h, g)
    BY <1>2, <2>3 DEF SamePlace
  <2>5. QED
    BY <2>3, <2>4 DEF a, b
<1>5. Grown(h, g, 0, dop, len)
  BY <1>2, <1>4 DEF Grown
<1>6. ASSUME NEW s \in 0 .. 1
      PROVE  /\ \A i \in 1 .. m : i <= n + 1 => Before(h.insts, s, i) = Before(g.insts, s, i)
             /\ Before(h.insts, s, m + 1) = Before(g.insts, s, n + 1) + (IF s = 0 THEN len ELSE 0)
             /\ m \in 1 .. n + 1
             /\ Before(g.insts, s, n + 1) \in Nat
  <2>1. Lengths(g.insts, n)
    BY <1>1 DEF Lengths, Instruction
  <2>2. n + 1 \in 1 .. n + 1
    BY <1>1
  <2>3. Before(g.insts, s, n + 1) \in Nat
    BY <1>1, <2>1, <2>2, BeforeFacts
  <2>4. QED
    BY <1>1, <1>4, <1>5, <2>3, GrownBefore, SMTT(40)
<1>7. m \in 1 .. n + 1 /\ 1 \in 0 .. 1
  BY <1>1, <1>6
<1>8. /\ Before(h.insts, 0, m + 1) = Before(g.insts, 0, n + 1) + len
      /\ Before(h.insts, 1, m + 1) = Before(g.insts, 1, n + 1)
      /\ Before(g.insts, 0, n + 1) \in Nat /\ Before(g.insts, 1, n + 1) \in Nat
  BY <1>1, <1>6, <1>7
<1>9. Size(h.insts) = Size(g.insts) + len
  BY <1>8 DEF Size
<1>10. ASSUME NEW i \in 1 .. m
       PROVE  \/ i \in 1 .. n /\ h.insts[i] = g.insts[i]
              \/ i = m /\ h.insts[i].index = 0 /\ h.insts[i].offset = Before(h.insts, 0, i)
  <2>1. CASE Joins(g, 0, dop)
    <3>1. m = n /\ n \in 1 .. n /\ g.insts[n].index = 0
      BY <1>1, <1>5, <2>1 DEF Grown, Joins
    <3>2. \A j \in 1 .. n - 1 : h.insts[j] = g.insts[j]
      BY <1>5, <2>1 DEF Grown
    <3>3. h.insts[n].index = 0 /\ h.insts[n].offset = g.insts[n].offset
      BY <1>5, <2>1 DEF Grown
    <3>4. g.insts[n].offset = Before(g.insts, 0, n)
      BY <3>1 DEF Ordered, InSequence
    <3>5. Before(h.insts, 0, n) = Before(g.insts, 0, n)
      BY <1>1, <1>6, <3>1
    <3>6. i = n \/ i \in 1 .. n - 1
      BY <1>1, <3>1
    <3>7. QED
      BY <1>1, <3>1, <3>2, <3>3, <3>4, <3>5, <3>6
  <2>2. CASE ~Joins(g, 0, dop)
    <3>1. m = n + 1 /\ \A j \in 1 .. n : h.insts[j] = g.insts[j]
      BY <1>5, <2>2 DEF Grown
    <3>2. h.insts[n + 1].index = 0 /\ h.insts[n + 1].offset = dop
      BY <1>5, <2>2 DEF Grown
    <3>3. Before(h.insts, 0, n + 1) = Before(g.insts, 0, n + 1)
      BY <1>1, <1>6, <3>1
    <3>4. dop = Before(g.insts, 0, n + 1)
      BY DEF Ordered
    <3>5. i = n + 1 \/ i \in 1 .. n
      BY <1>1, <3>1
    <3>6. QED
      BY <1>1, <3>1, <3>2, <3>3, <3>4, <3>5
  <2>3. QED
    BY <2>1, <2>2
<1>11. h.insts[m].index = 0
  <2>1. CASE Joins(g, 0, dop)
    BY <1>5, <2>1 DEF Grown
  <2>2. CASE ~Joins(g, 0, dop)
    BY <1>5, <2>2 DEF Grown
  <2>3. QED
    BY <2>1, <2>2
<1>12. h.used = {h.insts[i].index : i \in 1 .. m}
  <2>1. g.used = {g.insts[i].index : i \in 1 .. n}
    BY DEF Ordered
  <2>2. CASE Joins(g, 0, dop)
    <3>1. m = n /\ n \in 1 .. n /\ g.insts[n].index = 0 /\ h.used = g.used
      BY <1>1, <1>5, <2>2 DEF Grown, Joins
    <3>2. \A j \in 1 .. n - 1 : h.insts[j] = g.insts[j]
      BY <1>5, <2>2 DEF Grown
    <3>3. \A j \in 1 .. n : h.insts[j].index = g.insts[j].index
      BY <1>1, <1>11, <3>1, <3>2
    <3>4. QED
      BY <2>1, <3>1, <3>3
  <2>3. CASE ~Joins(g, 0, dop)
    <3>1. m = n + 1 /\ h.used = g.used \cup {0}
      BY <1>5, <2>3 DEF Grown
    <3>2. \A j \in 1 .. n : h.insts[j] = g.insts[j]
      BY <1>5, <2>3 DEF Grown
    <3>3. {h.insts[i].index : i \in 1 .. m} = {g.insts[i].index : i \in 1 .. n} \cup {0}
      <4>1. 1 .. m = (1 .. n) \cup {m} /\ h.insts[m].index = 0
        BY <1>1, <1>11, <3>1
      <4>2. QED
        BY <3>2, <4>1, SMTT(40)
    <3>4. QED
      BY <2>1, <3>1, <3>3
  <2>4. QED
    BY <2>2, <2>3
<1>13. InSequence(h.insts, 0)
  <2>1. ASSUME NEW i \in 1 .. m, h.insts[i].index = 0
        PROVE  h.insts[i].offset = Before(h.insts, 0, i)
    <3>1. CASE i \in 1 .. n /\ h.insts[i] = g.insts[i]
      <4>1. g.insts[i].offset = Before(g.insts, 0, i)
        BY <2>1, <3>1 DEF Ordered, InSequence
      <4>2. Before(h.insts, 0, i) = Before(g.insts, 0, i)
        BY <1>1, <1>6, <3>1
      <4>3. QED
        BY <3>1, <4>1, <4>2
    <3>2. QED
      BY <1>10, <3>1
  <2>2. QED
    BY <2>1 DEF InSequence
<1>14. h.sequential[1] => InSequence(h.insts, 1) /\ h.position[1] = Before(h.insts, 1, m + 1)
  <2>1. h.sequential[1] = g.sequential[1] /\ h.position[1] = g.position[1]
    BY <1>5, <1>7 DEF Grown, Generator
  <2>2. SUFFICES ASSUME g.sequential[1] PROVE InSequence(h.insts, 1) /\ h.position[1] = Before(h.insts, 1, m + 1)
    BY <2>1
  <2>3. InSequence(g.insts, 1) /\ g.position[1] = Before(g.insts, 1, n + 1)
    BY <2>2 DEF Ordered
  <2>4. ASSUME NEW i \in 1 .. m, h.insts[i].index = 1
        PROVE  h.insts[i].offset = Before(h.insts, 1, i)
    <3>1. i \in 1 .. n /\ h.insts[i] = g.insts[i]
      BY <1>10, <2>4
    <3>2. g.insts[i].offset = Before(g.insts, 1, i)
      BY <2>3, <2>4, <3>1 DEF InSequence
    <3>3. Before(h.insts, 1, i) = Before(g.insts, 1, i)
      BY <1>1, <1>6, <1>7, <3>1
    <3>4. QED
      BY <3>1, <3>2, <3>3
  <2>5. InSequence(h.insts, 1)
    BY <2>4 DEF InSequence
  <2>6. QED
    BY <1>8, <2>1, <2>3, <2>5
<1>15. Ordered(h)
  <2>1. g.to_output_pos = Size(g.insts) /\ g.data_output_pos = Before(g.insts, 0, n + 1)
    BY DEF Ordered
  <2>2. QED
    BY <1>4, <1>8, <1>9, <1>12, <1>13, <1>14, <2>1 DEF Ordered
<1>16. Parted(h)
  BY <1>11 DEF Parted
<1>17. QED
  BY <1>4, <1>5, <1>15, <1>16

\* What is in a sequence that two were put together to.
OneAfter(c, a, b, S) ==
  /\ c \in Seq(S) /\ Len(c) = Len(a) + Len(b)
  /\ Len(a) \in Nat /\ Len(b) \in Nat
  /\ \A i \in 1 .. Len(a) : c[i] = a[i]
  /\ \A i \in 1 .. Len(b) : c[Len(a) + i] = b[i]

\* Two sequences, one after the other.
LEMMA Joined ==
  ASSUME NEW S, NEW a \in Seq(S), NEW b \in Seq(S)
  PROVE  OneAfter(a \o b, a, b, S)
  BY DEF OneAfter

\* The instructions with one more insert make the target a piece further.
LEMMA InsertMakes ==
  ASSUME job \in Inputs, NEW g \in Generator, Ordered(g), NEW len \in Nat \ {0},
         NEW data \in Seq(Bytes), Len(data) = g.data_output_pos, Makes(g.insts, data),
         NEW bytes \in Seq(Bytes), Len(bytes) = len,
         \A i \in 1 .. len : bytes[i] = Target[g.to_output_pos + i],
         NEW h \in Generator, Grown(h, g, 0, g.data_output_pos, len)
  PROVE  Makes(h.insts, data \o bytes)
<1> DEFINE n == Len(g.insts)
           m == Len(h.insts)
           dop == g.data_output_pos
           more == data \o bytes
<1>1. g.data_output_pos \in Nat /\ g.to_output_pos \in Nat /\ 0 \in 0 .. 1 /\ n \in Nat /\ m \in Nat
      /\ (\A i \in 1 .. n : g.insts[i] \in Instruction)
      /\ \A i \in 1 .. m : h.insts[i] \in Instruction
  BY SMTT(40) DEF Generator
<1>2. /\ more \in Seq(Bytes) /\ Len(more) = dop + len
      /\ \A i \in 1 .. dop : more[i] = data[i]
      /\ \A i \in 1 .. len : more[dop + i] = bytes[i]
  <2>1. /\ more \in Seq(Bytes) /\ Len(more) = Len(data) + Len(bytes)
        /\ \A i \in 1 .. Len(data) : more[i] = data[i]
        /\ \A i \in 1 .. Len(bytes) : more[Len(data) + i] = bytes[i]
    <3>1. OneAfter(data \o bytes, data, bytes, Bytes)
      BY Joined, Zenon
    <3>2. QED
      BY <3>1 DEF OneAfter
  <2>2. QED
    BY <2>1
<1> SUFFICES Makes(h.insts, more)
  OBVIOUS
<1> HIDE DEF more
<1>3. ASSUME NEW s \in 0 .. 1
      PROVE  /\ \A i \in 1 .. m : i <= n + 1 => Before(h.insts, s, i) = Before(g.insts, s, i)
             /\ m \in 1 .. n + 1
  BY <1>1, GrownBefore
<1>4. /\ m \in 1 .. n + 1
      /\ \A i \in 1 .. m : i <= n + 1 => Start(h.insts, i) = Start(g.insts, i)
  <2>1. 1 \in 0 .. 1
    OBVIOUS
  <2>2. QED
    BY <1>1, <1>3, <2>1 DEF Start
<1>5. g.to_output_pos = Start(g.insts, n + 1) /\ dop = Before(g.insts, 0, n + 1)
  BY DEF Ordered, Size, Start
<1>6. ASSUME NEW i \in 1 .. n, NEW off, off = g.insts[i].offset, NEW size \in Nat, size <= g.insts[i].length
      PROVE  /\ off + size <= Len(Piece(g.insts[i].index, more))
             /\ \A k \in 1 .. size :
                  Target[Start(g.insts, i) + k] = Piece(g.insts[i].index, more)[off + k]
  <2>1. off \in Nat /\ g.insts[i].length \in Nat /\ g.insts[i].index \in 0 .. 1
    BY <1>1, <1>6 DEF Instruction
  <2>2. /\ off + g.insts[i].length <= Len(Piece(g.insts[i].index, data))
        /\ \A k \in 1 .. g.insts[i].length :
             Target[Start(g.insts, i) + k] = Piece(g.insts[i].index, data)[off + k]
    BY <1>6 DEF Makes, Holds
  <2>3. CASE g.insts[i].index = 0
    <3>1. Piece(g.insts[i].index, data) = data /\ Piece(g.insts[i].index, more) = more
      BY <2>3 DEF Piece
    <3>2. \A k \in 1 .. size : off + k \in 1 .. dop
      BY <1>1, <1>6, <2>1, <2>2, <3>1, SMTT(40)
    <3>3. off + size <= Len(more)
      <4>1. off + g.insts[i].length <= dop
        BY <2>2, <3>1
      <4>2. Len(more) = dop + len /\ dop \in Nat /\ len \in Nat
        BY <1>1, <1>2
      <4> DEFINE l == g.insts[i].length
      <4>3. l \in Nat /\ size <= l /\ off \in Nat /\ off + l <= dop
        BY <1>6, <2>1, <4>1
      <4> HIDE DEF l
      <4>4. QED
        BY <4>2, <4>3
    <3>4. ASSUME NEW k \in 1 .. size PROVE Target[Start(g.insts, i) + k] = more[off + k]
      <4>1. k \in 1 .. g.insts[i].length
        BY <1>6, <2>1
      <4>2. Target[Start(g.insts, i) + k] = data[off + k]
        BY <2>2, <3>1, <4>1
      <4>3. more[off + k] = data[off + k]
        BY <1>2, <3>2
      <4>4. QED
        BY <4>2, <4>3
    <3>5. QED
      BY <3>1, <3>3, <3>4
  <2>4. CASE g.insts[i].index # 0
    <3>1. Piece(g.insts[i].index, data) = Piece(g.insts[i].index, more)
      BY <2>4 DEF Piece
    <3>2. Piece(g.insts[i].index, more) = job.source /\ Len(job.source) \in Nat
      BY <2>4, JobFacts DEF Piece
    <3>3. off + size <= Len(Piece(g.insts[i].index, more))
      BY <1>6, <2>1, <2>2, <3>1, <3>2, SMTT(40)
    <3>4. \A k \in 1 .. size : k \in 1 .. g.insts[i].length
      BY <1>6, <2>1
    <3>5. QED
      BY <2>2, <3>1, <3>3, <3>4
  <2>5. QED
    BY <2>3, <2>4
<1>7. ASSUME NEW i \in 1 .. n, i <= m, h.insts[i] = g.insts[i]
      PROVE  Holds(h.insts, more, i)
  <2>1. Start(h.insts, i) = Start(g.insts, i) /\ g.insts[i].length \in Nat
        /\ g.insts[i].length <= g.insts[i].length
    BY <1>1, <1>4, <1>7 DEF Instruction
  <2>2. QED
    BY <1>6, <1>7, <2>1, SMTT(40) DEF Holds
<1>8. CASE Joins(g, 0, dop)
  <2> DEFINE old == g.insts[n].length
             off == g.insts[n].offset
  <2>1. m = n /\ n \in 1 .. n /\ g.insts[n].index = 0 /\ off + old = dop
    BY <1>1, <1>8 DEF Grown, Joins
  <2>2. \A j \in 1 .. n - 1 : h.insts[j] = g.insts[j]
    BY <1>8 DEF Grown
  <2>3. h.insts[n].index = 0 /\ h.insts[n].offset = off /\ h.insts[n].length = old + len
    BY <1>8 DEF Grown
  <2>4. old \in Nat /\ off \in Nat /\ old <= g.insts[n].length
    BY <1>1, <2>1 DEF Instruction
  <2>5. Lengths(g.insts, n)
    BY <1>1 DEF Lengths, Instruction
  <2>6. Start(g.insts, n) \in Nat /\ Start(g.insts, n) + old = g.to_output_pos
    <3>1. ASSUME NEW s \in 0 .. 1
          PROVE  /\ Before(g.insts, s, n) \in Nat
                 /\ Before(g.insts, s, n + 1) = Before(g.insts, s, n) + PartOf(g.insts[n], s)
      <4>1. /\ \A i \in 1 .. n + 1 : Before(g.insts, s, i) \in Nat
            /\ \A i \in 1 .. n : Before(g.insts, s, i + 1) = Before(g.insts, s, i) + PartOf(g.insts[i], s)
        BY <1>1, <2>5, BeforeFacts
      <4>2. QED
        BY <2>1, <4>1
    <3>2. PartOf(g.insts[n], 0) = old /\ PartOf(g.insts[n], 1) = 0
      BY <2>1 DEF PartOf
    <3>3. Before(g.insts, 0, n) \in Nat /\ Before(g.insts, 1, n) \in Nat
          /\ Before(g.insts, 0, n + 1) = Before(g.insts, 0, n) + old
          /\ Before(g.insts, 1, n + 1) = Before(g.insts, 1, n) + 0
      BY <3>1, <3>2
    <3>4. PICK a \in Nat, b \in Nat : a = Before(g.insts, 0, n) /\ b = Before(g.insts, 1, n)
      BY <3>3
    <3>5. Start(g.insts, n) = a + b /\ Start(g.insts, n + 1) = (a + old) + (b + 0)
      BY <3>3, <3>4 DEF Start
    <3> HIDE DEF old
    <3>6. QED
      BY <1>5, <2>4, <3>5
  <2>7. Start(h.insts, n) = Start(g.insts, n)
    BY <1>1, <1>4, <2>1
  <2>8. Piece(h.insts[n].index, more) = more /\ Piece(g.insts[n].index, more) = more
    BY <2>1, <2>3 DEF Piece
  <2>9. \A k \in 1 .. old : Target[Start(g.insts, n) + k] = more[off + k]
    <3>1. n \in 1 .. n /\ off = g.insts[n].offset /\ old \in Nat /\ old <= g.insts[n].length
      BY <2>1, <2>4
    <3>2. \A k \in 1 .. old :
            Target[Start(g.insts, n) + k] = Piece(g.insts[n].index, more)[off + k]
      <4> HIDE DEF old, off
      <4> QED BY <1>6, <3>1
    <3>3. QED
      BY <2>8, <3>2
  <2> HIDE DEF old, off
  <2>10. ASSUME NEW k \in 1 .. old + len PROVE Target[Start(g.insts, n) + k] = more[off + k]
    <3>1. CASE k <= old
      BY <2>4, <2>9, <3>1
    <3>2. CASE k > old
      <4>1. PICK j \in 1 .. len : k = old + j
        <5>1. k - old \in 1 .. len /\ k = old + (k - old)
          BY <2>4, <3>2
        <5>2. QED
          BY <5>1
      <4>2. Start(g.insts, n) + k = g.to_output_pos + j /\ off + k = dop + j
        <5>1. PICK a \in Nat, t \in Nat : a = Start(g.insts, n) /\ t = g.to_output_pos /\ a + old = t
          BY <1>1, <2>6
        <5>2. off + old = dop /\ off \in Nat /\ old \in Nat /\ k = old + j /\ j \in Nat
          BY <2>1, <2>4, <4>1
        <5>3. a + (old + j) = t + j /\ off + (old + j) = (off + old) + j
          <6>1. old \in Nat /\ off \in Nat /\ j \in Nat
            BY <5>2
          <6>2. QED
            BY <5>1, <6>1
        <5>4. off + k = dop + j /\ a + k = t + j
          BY <5>2, <5>3
        <5>5. QED
          BY <5>1, <5>4
      <4>3. QED
        BY <1>2, <4>2
    <3>3. QED
      BY <2>4, <3>1, <3>2
  <2>11. off + (old + len) <= Len(more)
    BY <1>1, <1>2, <2>1, <2>4
  <2>12. ASSUME NEW i \in 1 .. m
         PROVE  Holds(h.insts, more, i)
    <3>1. i = n \/ i \in 1 .. n - 1
      BY <1>1, <2>1
    <3>2. CASE i = n
      BY <2>3, <2>7, <2>8, <2>10, <2>11, <3>2 DEF Holds
    <3>3. CASE i \in 1 .. n - 1
      <4>1. i \in 1 .. n /\ i <= m /\ h.insts[i] = g.insts[i]
        BY <1>1, <2>1, <2>2, <3>3
      <4>2. QED
        BY <1>7, <4>1, Zenon
    <3>4. QED
      BY <3>1, <3>2, <3>3
  <2>13. QED
    BY <2>12 DEF Makes
<1>9. CASE ~Joins(g, 0, dop)
  <2>1. m = n + 1 /\ \A j \in 1 .. n : h.insts[j] = g.insts[j]
    BY <1>9 DEF Grown
  <2>2. h.insts[m].index = 0 /\ h.insts[m].offset = dop /\ h.insts[m].length = len
    BY <1>9, <2>1 DEF Grown
  <2>3. Start(h.insts, m) = g.to_output_pos
    BY <1>1, <1>4, <1>5, <2>1
  <2>4. Piece(h.insts[m].index, more) = more
    BY <2>2 DEF Piece
  <2>5. \A k \in 1 .. len : Target[g.to_output_pos + k] = more[dop + k]
    BY <1>2
  <2>6. dop + len <= Len(more)
    BY <1>1, <1>2
  <2>7. ASSUME NEW i \in 1 .. m
        PROVE  Holds(h.insts, more, i)
    <3>1. i = m \/ i \in 1 .. n
      BY <1>1, <2>1
    <3>2. CASE i = m
      BY <2>2, <2>3, <2>4, <2>5, <2>6, <3>2 DEF Holds
    <3>3. CASE i \in 1 .. n
      <4>1. i \in 1 .. n /\ i <= m /\ h.insts[i] = g.insts[i]
        BY <1>1, <2>1, <3>3
      <4>2. QED
        BY <1>7, <4>1, Zenon
    <3>4. QED
      BY <3>1, <3>2, <3>3
  <2>8. QED
    BY <2>7 DEF Makes
<1>10. QED
  BY <1>8, <1>9

\* region_insert with the bytes of the target that come next.
LEMMA InsertBuilt ==
  ASSUME job \in Inputs, NEW g \in Generator, NEW o \in Written, Built(g, o), Fresh(o),
         NEW len \in Nat \ {0}, g.to_output_pos + len <= InLength,
         NEW bytes \in Seq(Bytes), Len(bytes) = len,
         \A i \in 1 .. len : bytes[i] = Target[g.to_output_pos + i],
         NEW o2, o2 = HandleWrite(o, bytes, job.verify), NEW h, h = Inserted(g, len)
  PROVE  InsertHolds(h, o2, g, o, len)
<1>1. Ordered(g) /\ Parted(g) /\ Wrote(g, o)
  BY DEF Built
<1>2. /\ h \in Generator /\ SamePlace(h, g) /\ Grown(h, g, 0, g.data_output_pos, len)
      /\ h.to_output_pos = g.to_output_pos + len /\ h.data_output_pos = g.data_output_pos + len
      /\ Ordered(h) /\ Parted(h)
  BY <1>1, InsertOrdered
<1>3. job.verify \in BOOLEAN
  BY JobFacts
<1>4. /\ o2 \in Written
      /\ o2.status = "ok" => o.status = "ok" /\ o.writes # 0
      /\ o.writes = 0 => /\ o2.status = "failed" /\ o2.bytes = o.bytes /\ o2.file = o.file
                         /\ o2.reset = o.reset
      /\ o.writes # 0 => /\ o2.bytes = Since(o) \o bytes /\ o2.file = o.file \o bytes /\ ~o2.reset
                         /\ o2.hashed = (IF job.verify THEN o.hashed \o bytes ELSE o.hashed)
                         /\ o2.status = o.status
      /\ o.status # "ok" => o2.status # "ok"
  <2>1. WroteTo(o2, o, bytes, job.verify)
    BY <1>3, WriteFacts
  <2>2. QED
    BY <2>1 DEF WroteTo
<1>5. Since(o) = o.bytes /\ o.bytes = o.file
  BY <1>1 DEF Since, Fresh, Wrote
<1>6. o2.bytes = o2.file
  BY <1>4, <1>5
<1>7. Fresh(o2)
  BY <1>4 DEF Fresh
<1>8. ASSUME o2.status = "ok"
      PROVE  Len(o2.file) = h.data_output_pos /\ Makes(h.insts, o2.file)
  <2>1. o.status = "ok" /\ o2.file = o.file \o bytes
    BY <1>4, <1>8
  <2>2. Len(o.file) = g.data_output_pos /\ Makes(g.insts, o.file)
    BY <1>1, <2>1 DEF Wrote
  <2>3. o.file \in Seq(Bytes)
    BY DEF Written, Bytes
  <2>4. Len(o2.file) = g.data_output_pos + len
    <3>1. Len(o.file \o bytes) = Len(o.file) + Len(bytes)
      <4>1. OneAfter(o.file \o bytes, o.file, bytes, Bytes)
        BY <2>3, Joined, Zenon
      <4>2. QED
        BY <4>1 DEF OneAfter
    <3>2. QED
      BY <2>1, <2>2, <3>1
  <2>5. Makes(h.insts, o2.file)
    BY <1>1, <1>2, <2>1, <2>2, <2>3, InsertMakes
  <2>6. QED
    BY <1>2, <2>4, <2>5
<1>9. QED
  BY <1>2, <1>4, <1>6, <1>7, <1>8 DEF Built, Wrote, InsertHolds

\* A copy puts out bytes of the file.  It never continues another copy: that one
\* would have gone on.
CopyHolds(h, g, o, len) ==
  /\ h \in Generator /\ SamePlace(h, g)
  /\ h.to_output_pos = g.to_output_pos + len
  /\ Built(h, o)

\* region_copy with a piece of the source that is what comes next in the target.
LEMMA CopyBuilt ==
  ASSUME job \in Inputs, NEW g \in Generator, NEW o \in Written, Built(g, o),
         NEW a \in Nat, NEW len \in Nat \ {0}, a + len <= FromLength, g.to_output_pos + len <= InLength,
         \A i \in 1 .. len : Target[g.to_output_pos + i] = job.source[a + i],
         g.to_output_pos + len < InLength /\ a + len < FromLength
           => Target[g.to_output_pos + len + 1] # job.source[a + len + 1],
         NEW h, h = Copied(g, a, a + len)
  PROVE  CopyHolds(h, g, o, len)
<1> DEFINE c == ControlCopy(g, 1, a, a + len)
           n == Len(g.insts)
           m == Len(h.insts)
           top == g.to_output_pos
<1>1. g.data_output_pos \in Nat /\ g.to_output_pos \in Nat /\ 0 \in 0 .. 1 /\ 1 \in 0 .. 1 /\ n \in Nat
      /\ \A i \in 1 .. n : g.insts[i] \in Instruction
  BY DEF Generator
<1>2. Ordered(g) /\ Parted(g) /\ Wrote(g, o)
  BY DEF Built
<1>3. InLength \in Nat /\ FromLength \in Nat
  BY JobFacts
<1>4. /\ c \in Generator /\ SamePlace(c, g) /\ Grown(c, g, 1, a, len)
      /\ c.to_output_pos = g.to_output_pos /\ c.data_output_pos = g.data_output_pos
  <2>1. c = ControlCopy(g, 1, a, a + len)
    OBVIOUS
  <2> HIDE DEF c
  <2>2. Longer(c, g, 1, a, len)
    BY <1>1, <2>1, ControlCopyFacts
  <2>3. QED
    BY <2>2 DEF Longer
<1> HIDE DEF c
<1>5. h = [c EXCEPT !.to_output_pos = g.to_output_pos + len]
  <2>1. h = [c EXCEPT !.to_output_pos = @ + ((a + len) - a)]
    BY DEF Copied, c
  <2>2. (a + len) - a = len
    OBVIOUS
  <2>3. QED
    BY <1>4, <2>1, <2>2 DEF Generator
<1>6. /\ h \in Generator /\ SamePlace(h, g) /\ h.insts = c.insts /\ h.used = c.used
      /\ h.sequential = c.sequential /\ h.position = c.position
      /\ h.to_output_pos = g.to_output_pos + len /\ h.data_output_pos = g.data_output_pos
  <2> DEFINE t == g.to_output_pos + len
  <2>1. t \in Nat
    BY <1>1
  <2>2. h = [c EXCEPT !.to_output_pos = t]
    BY <1>5
  <2> HIDE DEF t
  <2>3. /\ h \in Generator /\ SamePlace(h, c) /\ h.insts = c.insts /\ h.used = c.used
        /\ h.sequential = c.sequential /\ h.position = c.position
        /\ h.to_output_pos = t /\ h.data_output_pos = c.data_output_pos
    BY <1>4, <2>1, <2>2 DEF Generator, SamePlace
  <2>4. SamePlace(h, g)
    BY <1>4, <2>3 DEF SamePlace
  <2>5. QED
    BY <1>4, <2>3, <2>4 DEF t
<1>7. ~Joins(g, 1, a)
  <2>1. SUFFICES ASSUME Joins(g, 1, a) PROVE FALSE
    OBVIOUS
  <2>2. n > 0 /\ g.insts[n].index = 1 /\ g.insts[n].offset + g.insts[n].length = a
    BY <2>1 DEF Joins
  <2>3. top < InLength /\ a < FromLength
    BY <1>1, <1>3
  <2>4. Target[top + 1] # job.source[a + 1]
    BY <1>2, <2>2, <2>3 DEF Parted
  <2>5. 1 \in 1 .. len
    OBVIOUS
  <2>6. QED
    BY <2>4, <2>5
<1>8. Grown(h, g, 1, a, len)
  BY <1>4, <1>6 DEF Grown
<1>9. /\ m = n + 1 /\ \A j \in 1 .. n : h.insts[j] = g.insts[j]
      /\ h.insts[m] = [index |-> 1, offset |-> a, length |-> len]
      /\ h.used = g.used \cup {1}
      /\ h.sequential = [g.sequential EXCEPT ![1] = @ /\ g.position[1] = a]
      /\ h.position = [g.position EXCEPT ![1] = a + len]
  BY <1>7, <1>8 DEF Grown
<1>10. h.insts[m].index = 1 /\ h.insts[m].offset = a /\ h.insts[m].length = len
  BY <1>9
<1>11. ASSUME NEW s \in 0 .. 1
       PROVE  /\ \A i \in 1 .. m : Before(h.insts, s, i) = Before(g.insts, s, i)
              /\ Before(h.insts, s, m + 1) = Before(g.insts, s, n + 1) + (IF s = 1 THEN len ELSE 0)
              /\ Before(g.insts, s, n + 1) \in Nat
  <2>1. Lengths(g.insts, n)
    BY <1>1 DEF Lengths, Instruction
  <2>2. n + 1 \in 1 .. n + 1
    BY <1>1
  <2>3. Before(g.insts, s, n + 1) \in Nat
    BY <1>1, <2>1, <2>2, BeforeFacts
  <2>4. /\ \A i \in 1 .. m : i <= n + 1 => Before(h.insts, s, i) = Before(g.insts, s, i)
        /\ Before(h.insts, s, m + 1) = Before(g.insts, s, n + 1) + (IF s = 1 THEN len ELSE 0)
    BY <1>1, <1>6, <1>8, GrownBefore
  <2>5. \A i \in 1 .. m : i <= n + 1
    BY <1>1, <1>9
  <2>6. QED
    BY <2>3, <2>4, <2>5
<1>12. /\ Before(h.insts, 0, m + 1) = Before(g.insts, 0, n + 1)
       /\ Before(h.insts, 1, m + 1) = Before(g.insts, 1, n + 1) + len
       /\ Before(g.insts, 0, n + 1) \in Nat /\ Before(g.insts, 1, n + 1) \in Nat
  BY <1>1, <1>11
<1>13. Size(h.insts) = Size(g.insts) + len
  BY <1>12 DEF Size
<1>14. \A i \in 1 .. m : Start(h.insts, i) = Start(g.insts, i)
  BY <1>1, <1>11 DEF Start
<1>15. \A i \in 1 .. m : i = m \/ (i \in 1 .. n /\ h.insts[i] = g.insts[i])
  <2>1. SUFFICES ASSUME NEW i \in 1 .. m, i # m
                 PROVE  i \in 1 .. n /\ h.insts[i] = g.insts[i]
    OBVIOUS
  <2>2. m = n + 1 /\ n \in Nat
    BY <1>1, <1>9
  <2>3. i \in 1 .. n
    BY <2>1, <2>2
  <2>4. QED
    BY <1>9, <2>3
<1>16. m \in 1 .. m /\ m = n + 1
  BY <1>1, <1>9
<1>17. h.used = {h.insts[i].index : i \in 1 .. m}
  <2>1. g.used = {g.insts[i].index : i \in 1 .. n}
    BY <1>2 DEF Ordered
  <2>2. 1 .. m = (1 .. n) \cup {m} /\ h.insts[m].index = 1
    BY <1>1, <1>9, <1>10
  <2>3. {h.insts[i].index : i \in 1 .. m} = {g.insts[i].index : i \in 1 .. n} \cup {1}
    <3>1. \A i \in 1 .. n : h.insts[i].index = g.insts[i].index
      BY <1>9
    <3> HIDE DEF m, n
    <3>2. QED
      BY <2>2, <3>1
  <2>4. QED
    BY <1>9, <2>1, <2>3
<1>18. InSequence(h.insts, 0)
  <2>1. ASSUME NEW i \in 1 .. m, h.insts[i].index = 0
        PROVE  h.insts[i].offset = Before(h.insts, 0, i)
    <3>1. i \in 1 .. n /\ h.insts[i] = g.insts[i]
      BY <1>10, <1>15, <2>1
    <3>2. g.insts[i].offset = Before(g.insts, 0, i)
      BY <1>2, <2>1, <3>1 DEF Ordered, InSequence
    <3>3. QED
      BY <1>1, <1>11, <3>1, <3>2
  <2>2. QED
    BY <2>1 DEF InSequence
<1>19. h.sequential[1] => InSequence(h.insts, 1) /\ h.position[1] = Before(h.insts, 1, m + 1)
  <2>1. g.sequential \in [0 .. 1 -> BOOLEAN] /\ g.position \in [0 .. 1 -> Nat]
    BY DEF Generator
  <2>2. h.sequential[1] = (g.sequential[1] /\ g.position[1] = a) /\ h.position[1] = a + len
    BY <1>1, <1>9, <2>1
  <2>3. SUFFICES ASSUME g.sequential[1], g.position[1] = a
                 PROVE  InSequence(h.insts, 1) /\ h.position[1] = Before(h.insts, 1, m + 1)
    BY <2>2
  <2>4. InSequence(g.insts, 1) /\ a = Before(g.insts, 1, n + 1)
    BY <1>2, <2>3 DEF Ordered
  <2>5. ASSUME NEW i \in 1 .. m, h.insts[i].index = 1
        PROVE  h.insts[i].offset = Before(h.insts, 1, i)
    <3>1. CASE i = m
      BY <1>1, <1>10, <1>11, <1>16, <2>4, <3>1
    <3>2. CASE i \in 1 .. n /\ h.insts[i] = g.insts[i]
      <4>1. g.insts[i].offset = Before(g.insts, 1, i)
        BY <2>4, <2>5, <3>2 DEF InSequence
      <4>2. QED
        BY <1>1, <1>11, <3>2, <4>1
    <3>3. QED
      BY <1>15, <3>1, <3>2
  <2>6. InSequence(h.insts, 1)
    BY <2>5 DEF InSequence
  <2>7. QED
    BY <1>12, <2>2, <2>4, <2>6
<1>20. Ordered(h)
  <2>1. g.to_output_pos = Size(g.insts) /\ g.data_output_pos = Before(g.insts, 0, n + 1)
    BY <1>2 DEF Ordered
  <2>2. h.to_output_pos = Size(h.insts) /\ h.to_output_pos <= InLength
        /\ h.data_output_pos = Before(h.insts, 0, m + 1)
    BY <1>6, <1>12, <1>13, <2>1
  <2>3. QED
    BY <1>17, <1>18, <1>19, <2>2 DEF Ordered
<1>21. Parted(h)
  <2>1. h.to_output_pos = top + len
    BY <1>6
  <2>2. QED
    BY <1>10, <2>1 DEF Parted
<1>22. Wrote(h, o)
  <2>1. ASSUME o.status = "ok" PROVE Makes(h.insts, o.file)
    <3>1. Makes(g.insts, o.file)
      BY <1>2, <2>1 DEF Wrote
    <3>2. ASSUME NEW i \in 1 .. m PROVE Holds(h.insts, o.file, i)
      <4>1. CASE i = m
        <5>1. Start(h.insts, m) = top
          BY <1>2, <1>14, <1>16 DEF Ordered, Size, Start
        <5>2. Piece(h.insts[m].index, o.file) = job.source
          BY <1>10 DEF Piece
        <5>3. a + len <= Len(job.source)
          BY DEF FromLength
        <5>4. QED
          BY <1>10, <4>1, <5>1, <5>2, <5>3 DEF Holds
      <4>2. CASE i \in 1 .. n /\ h.insts[i] = g.insts[i]
        <5>1. Holds(g.insts, o.file, i)
          BY <3>1, <4>2 DEF Makes
        <5>2. QED
          BY <1>14, <4>2, <5>1 DEF Holds
      <4>3. QED
        BY <1>15, <4>1, <4>2
    <3>3. QED
      BY <3>2 DEF Makes
  <2>2. QED
    BY <1>2, <1>6, <2>1 DEF Wrote
<1>23. QED
  BY <1>6, <1>20, <1>21, <1>22 DEF CopyHolds, Built

(***************************************************************************)
(* The sums of a window.                                                   *)
(***************************************************************************)

\* Multiples of a number.
LEMMA Multiples ==
  ASSUME NEW p \in Int, NEW q \in Int, NEW k \in Nat \ {0}
  PROVE  /\ p * k \in Int /\ q * k \in Int /\ (p + q) * k = p * k + q * k
         /\ p < q => p * k + k <= q * k
         /\ p <= q => p * k <= q * k
<1>1. p * k \in Int /\ q * k \in Int /\ (p + q) * k = p * k + q * k
  OBVIOUS
<1>2. ASSUME p <= q PROVE p * k <= q * k
  <2>1. PICK d \in Nat : q = p + d
    <3>1. q - p \in Nat /\ q = p + (q - p)
      BY <1>2
    <3>2. QED
      BY <3>1
  <2>2. q * k = p * k + d * k /\ d * k \in Nat
    BY <2>1
  <2>3. QED
    BY <1>1, <2>2
<1>3. ASSUME p < q PROVE p * k + k <= q * k
  <2>1. PICK d \in Nat : q = p + 1 + d
    <3>1. q - p - 1 \in Nat /\ q = p + 1 + (q - p - 1)
      BY <1>3
    <3>2. QED
      BY <3>1
  <2>2. q * k = p * k + k + d * k /\ d * k \in Nat
    BY <2>1
  <2>3. QED
    BY <1>1, <2>2
<1>4. QED
  BY <1>1, <1>2, <1>3

\* A quotient and a remainder are what div and mod give.
LEMMA Remainder ==
  ASSUME NEW a \in Int, NEW k \in Nat \ {0}, NEW q \in Int, NEW r \in 0 .. k - 1, a = q * k + r
  PROVE  a % k = r
<1>1. PICK p \in Int, s \in 0 .. k - 1 : s = a % k /\ a = p * k + s
  <2>1. (a \div k) \in Int /\ (a % k) \in 0 .. k - 1 /\ a = (a \div k) * k + (a % k)
    OBVIOUS
  <2>2. QED
    BY <2>1
<1>2. /\ p < q => p * k + k <= q * k
      /\ q < p => q * k + k <= p * k
      /\ p * k \in Int /\ q * k \in Int
  BY Multiples
<1>3. p = q
  BY <1>1, <1>2
<1>4. QED
  BY <1>1, <1>2, <1>3

\* Multiples of k, and remainders by k, may be added at any time.
Cut(a, b, k) ==
  /\ ((a % k) + b) % k = (a + b) % k
  /\ (b + (a % k)) % k = (a + b) % k
  /\ (b - (a % k)) % k = (b - a) % k
  /\ a % k \in 0 .. k - 1

\* A sum may be cut to the modulus before or after the addition.
LEMMA AddMod ==
  ASSUME NEW a \in Int, NEW b \in Int, NEW k \in Nat \ {0}
  PROVE  Cut(a, b, k)
<1>1. PICK q \in Int, r \in 0 .. k - 1 : r = a % k /\ a = q * k + r
  <2>1. (a \div k) \in Int /\ (a % k) \in 0 .. k - 1 /\ a = (a \div k) * k + (a % k)
    OBVIOUS
  <2>2. QED
    BY <2>1
<1>2. ASSUME NEW x \in Int, NEW y \in Int, NEW z \in Int, y = x + z * k
      PROVE  y % k = x % k
  <2>1. PICK p \in Int, s \in 0 .. k - 1 : s = x % k /\ x = p * k + s
    <3>1. (x \div k) \in Int /\ (x % k) \in 0 .. k - 1 /\ x = (x \div k) * k + (x % k)
      OBVIOUS
    <3>2. QED
      BY <3>1
  <2>2. p * k \in Int /\ z * k \in Int /\ (p + z) * k = p * k + z * k
    BY Multiples
  <2>3. y = (p + z) * k + s
    BY <1>2, <2>1, <2>2
  <2>4. p + z \in Int
    OBVIOUS
  <2>5. y % k = s
    BY <2>3, <2>4, Remainder
  <2>6. QED
    BY <2>1, <2>5
<1>3. /\ q * k \in Int /\ (-q) * k = -(q * k) /\ -q \in Int /\ r \in Int
  OBVIOUS
<1>4. a + b = (r + b) + q * k /\ b - a = (b - r) + (-q) * k /\ r + b \in Int /\ b - r \in Int
      /\ a + b \in Int /\ b - a \in Int
  BY <1>1, <1>3
<1>5. (a + b) % k = (r + b) % k
  BY <1>2, <1>4
<1>6. (b - a) % k = (b - r) % k
  BY <1>2, <1>3, <1>4
<1>7. b + r = r + b
  OBVIOUS
<1>8. QED
  BY <1>1, <1>5, <1>6, <1>7 DEF Cut

\* The sizes: a block fits a page.
LEMMA Sizes ==
  /\ QUERY_SIZE_POW \in Nat \ {0} /\ PageSize \in Nat \ {0} /\ MaxMappedPages \in Nat \ {0}
  /\ LastPage \in Nat /\ ChecksumMod \in Nat \ {0} /\ TableSize \in Nat \ {0}
  /\ QUERY_SIZE_POW <= PageSize /\ PageSize % QUERY_SIZE_POW = 0
<1>1. /\ QUERY_SIZE_POW \in Nat \ {0} /\ PageSize \in Nat \ {0} /\ MaxMappedPages \in Nat \ {0}
      /\ LastPage \in Nat /\ ChecksumMod \in Nat \ {0} /\ TableSize \in Nat \ {0}
      /\ PageSize % QUERY_SIZE_POW = 0
  BY XdeltaAssumptions, FileAssumptions, SumAssumptions
<1>2. PICK q \in Nat : PageSize = q * QUERY_SIZE_POW
  <2>1. /\ PageSize \div QUERY_SIZE_POW \in Nat
        /\ PageSize = (PageSize \div QUERY_SIZE_POW) * QUERY_SIZE_POW + (PageSize % QUERY_SIZE_POW)
    BY <1>1, Division
  <2>2. (PageSize \div QUERY_SIZE_POW) * QUERY_SIZE_POW \in Nat
    BY <1>1, <2>1
  <2>3. PageSize = (PageSize \div QUERY_SIZE_POW) * QUERY_SIZE_POW
    BY <1>1, <2>1, <2>2
  <2>4. QED
    BY <2>1, <2>3
<1>3. q # 0
  <2>1. 0 * QUERY_SIZE_POW = 0
    BY <1>1
  <2>2. QED
    BY <1>1, <1>2, <2>1
<1>4. 1 <= q => 1 * QUERY_SIZE_POW <= q * QUERY_SIZE_POW
  BY <1>1, <1>2, Multiples
<1>5. 1 * QUERY_SIZE_POW = QUERY_SIZE_POW
  BY <1>1
<1>6. QED
  BY <1>1, <1>2, <1>3, <1>4, <1>5

\* A byte of the page that is mapped.
LEMMA ByteFacts ==
  ASSUME NEW h, h.data \in Seq(Byte), NEW p, p.mem_page \in Nat, NEW off \in Nat
  PROVE  /\ ByteAt(h, p, off) \in Bytes
         /\ CHEW(ByteAt(h, p, off)) \in Nat
         /\ off < OnPage(h, p.mem_page) => /\ ByteAt(h, p, off) = h.data[p.mem_page * PageSize + off + 1]
                                           /\ p.mem_page * PageSize + off + 1 \in 1 .. Len(h.data)
<1> DEFINE base == p.mem_page * PageSize
<1>1. base \in Nat
  BY Sizes
<1>2. /\ p.mem_page <= PagesOf(h) \/ OnPage(h, p.mem_page) = -1
      /\ p.mem_page <= PagesOf(h) => base + OnPage(h, p.mem_page) <= Len(h.data)
      /\ OnPage(h, p.mem_page) \in Int /\ Len(h.data) \in Nat
  <2>1. /\ PagesOf(h) \in Nat /\ Len(h.data) \in Nat /\ OnPage(h, p.mem_page) \in Int
        /\ p.mem_page > PagesOf(h) => OnPage(h, p.mem_page) = -1
        /\ p.mem_page = PagesOf(h) => OnPage(h, p.mem_page) \in 0 .. PageSize - 1
                                      /\ p.mem_page * PageSize + OnPage(h, p.mem_page) = Len(h.data)
        /\ p.mem_page < PagesOf(h) => OnPage(h, p.mem_page) = PageSize
                                      /\ p.mem_page * PageSize + PageSize <= Len(h.data)
    BY PageBounds
  <2>2. QED
    BY <1>1, <2>1
<1> HIDE DEF base
<1>3. CASE off < OnPage(h, p.mem_page)
  <2>1. base + off + 1 \in 1 .. Len(h.data)
    BY <1>1, <1>2, <1>3
  <2>2. ByteAt(h, p, off) = h.data[base + off + 1]
    BY <1>3 DEF ByteAt, base
  <2>3. h.data[base + off + 1] \in Byte
    BY <2>1
  <2>4. QED
    BY <2>1, <2>2, <2>3, SumAssumptions DEF base, Bytes
<1>4. CASE ~(off < OnPage(h, p.mem_page))
  <2>1. ByteAt(h, p, off) = Junk
    BY <1>4 DEF ByteAt
  <2>2. QED
    BY <1>4, <2>1, SumAssumptions DEF Bytes
<1>5. QED
  BY <1>3, <1>4

\* The sums as they would be if they were not cut off.
SumsTo(S, H, h, p, off) ==
  /\ S \in [0 .. QUERY_SIZE_POW -> Nat] /\ H \in [0 .. QUERY_SIZE_POW -> Nat]
  /\ S[0] = 0 /\ H[0] = 0
  /\ \A i \in 1 .. QUERY_SIZE_POW :
       /\ S[i] = S[i - 1] + CHEW(ByteAt(h, p, off + i - 1))
       /\ H[i] = H[i - 1] + S[i]

\* The sums over the bytes of a window, as numbers that are not cut.
LEMMA SumsThere ==
  ASSUME NEW h, h.data \in Seq(Byte), NEW p, p.mem_page \in Nat, NEW off \in Nat
  PROVE  \E S, H : SumsTo(S, H, h, p, off)
<1> DEFINE Q == QUERY_SIZE_POW
           add == [q \in (1 .. Q) \X Nat |-> q[2] + CHEW(ByteAt(h, p, off + q[1] - 1))]
<1>1. Q \in Nat \ {0}
  BY Sizes
<1>2. ASSUME NEW i \in 1 .. Q PROVE CHEW(ByteAt(h, p, off + i - 1)) \in Nat
  <2>1. off + i - 1 \in Nat
    BY <1>1
  <2>2. QED
    BY <2>1, ByteFacts
<1> HIDE DEF Q
<1>3. add \in [(1 .. Q) \X Nat -> Nat]
  BY <1>2
<1>4. PICK S : Recursive(Q, Nat, 0, add, S)
  <2> HIDE DEF add
  <2> QED BY <1>1, <1>3, Recursion
<1>5. S \in [0 .. Q -> Nat] /\ S[0] = 0
  BY <1>4 DEF Recursive
<1>6. ASSUME NEW i \in 1 .. Q PROVE S[i] = S[i - 1] + CHEW(ByteAt(h, p, off + i - 1))
  <2>1. i - 1 \in 0 .. Q
    BY <1>1
  <2>2. S[i - 1] \in Nat
    BY <1>5, <2>1
  <2>3. S[i] = add[<<i, S[i - 1]>>]
    BY <1>4 DEF Recursive
  <2>4. QED
    BY <2>2, <2>3
<1> DEFINE up == [q \in (1 .. Q) \X Nat |-> q[2] + S[q[1]]]
<1>7. up \in [(1 .. Q) \X Nat -> Nat]
  BY <1>5
<1>8. PICK H : Recursive(Q, Nat, 0, up, H)
  <2> HIDE DEF up
  <2> QED BY <1>1, <1>7, Recursion
<1>9. H \in [0 .. Q -> Nat] /\ H[0] = 0
  BY <1>8 DEF Recursive
<1>10. ASSUME NEW i \in 1 .. Q PROVE H[i] = H[i - 1] + S[i]
  <2>1. i - 1 \in 0 .. Q
    BY <1>1
  <2>2. H[i - 1] \in Nat
    BY <1>9, <2>1
  <2>3. H[i] = up[<<i, H[i - 1]>>]
    BY <1>8 DEF Recursive
  <2>4. QED
    BY <2>2, <2>3
<1>11. SumsTo(S, H, h, p, off)
  BY <1>5, <1>6, <1>9, <1>10 DEF SumsTo, Q
<1>12. QED
  BY <1>11

\* init_query_checksum is these sums, cut.
LEMMA SumIs ==
  ASSUME NEW h, h.data \in Seq(Byte), NEW p, p.mem_page \in Nat, NEW off \in Nat,
         NEW S, NEW H, SumsTo(S, H, h, p, off)
  PROVE  InitQueryChecksum(h, p, off)
           = [low |-> S[QUERY_SIZE_POW] % ChecksumMod, high |-> H[QUERY_SIZE_POW] % ChecksumMod]
<1> DEFINE Q == QUERY_SIZE_POW
           M == ChecksumMod
           Low(g, i) == g[i - 1].low + CHEW(ByteAt(h, p, off + i - 1))
           Values(g) == g = [i \in 0 .. Q |->
                               IF i = 0 THEN [low |-> 0, high |-> 0]
                               ELSE [low |-> Low(g, i) % M, high |-> (g[i - 1].high + Low(g, i)) % M]]
           f == [i \in 0 .. Q |-> [low |-> S[i] % M, high |-> H[i] % M]]
<1>1. Q \in Nat \ {0} /\ M \in Nat \ {0}
  BY Sizes
<1>2. \A i \in 0 .. Q : S[i] \in Nat /\ H[i] \in Nat
  BY DEF SumsTo
<1>3. ASSUME NEW g, NEW i \in 1 .. Q, g[i - 1] = [low |-> S[i - 1] % M, high |-> H[i - 1] % M]
      PROVE  /\ Low(g, i) % M = S[i] % M
             /\ (g[i - 1].high + Low(g, i)) % M = H[i] % M
  <2>1. i - 1 \in 0 .. Q /\ i \in 0 .. Q /\ off + i - 1 \in Nat
    BY <1>1
  <2>2. PICK c \in Nat : c = CHEW(ByteAt(h, p, off + i - 1))
    BY <2>1, ByteFacts
  <2>3. S[i] = S[i - 1] + c /\ H[i] = H[i - 1] + S[i]
    BY <2>2 DEF SumsTo
  <2>4. PICK s \in Nat, t \in Nat : s = S[i - 1] /\ t = H[i - 1]
    BY <1>2, <2>1
  <2>5. Low(g, i) = (s % M) + c /\ g[i - 1].high = t % M
    BY <1>3, <2>2, <2>4
  <2>6. ((s % M) + c) % M = (s + c) % M
    <3>1. s \in Int /\ c \in Int
      OBVIOUS
    <3>2. Cut(s, c, M)
      BY <1>1, <3>1, AddMod
    <3>3. QED
      BY <3>2 DEF Cut
  <2>7. ((t % M) + ((s % M) + c)) % M = (t + (s + c)) % M
    <3>1. s % M \in 0 .. M - 1
      BY <1>1
    <3>2. ((t % M) + ((s % M) + c)) % M = (t + ((s % M) + c)) % M
      <4>1. (s % M) + c \in Int
        BY <1>1, <3>1
      <4>2. t \in Int
        OBVIOUS
      <4>3. Cut(t, (s % M) + c, M)
        BY <1>1, <4>1, <4>2, AddMod
      <4>4. QED
        BY <4>3 DEF Cut
    <3>3. t + ((s % M) + c) = (s % M) + (t + c) /\ t + (s + c) = s + (t + c)
      BY <1>1, <3>1
    <3>4. ((s % M) + (t + c)) % M = (s + (t + c)) % M
      <4>1. s \in Int /\ t + c \in Int
        OBVIOUS
      <4>2. Cut(s, t + c, M)
        BY <1>1, <4>1, AddMod
      <4>3. QED
        BY <4>2 DEF Cut
    <3>5. QED
      BY <3>2, <3>3, <3>4
  <2>8. QED
    BY <2>3, <2>4, <2>5, <2>6, <2>7
<1> HIDE DEF Low
<1>4. Values(f)
  <2>1. ASSUME NEW i \in 0 .. Q
        PROVE  [low |-> S[i] % M, high |-> H[i] % M] =
                 IF i = 0 THEN [low |-> 0, high |-> 0]
                 ELSE [low |-> Low(f, i) % M, high |-> (f[i - 1].high + Low(f, i)) % M]
    <3>1. CASE i = 0
      <4>1. S[0] = 0 /\ H[0] = 0 /\ 0 % M = 0
        BY <1>1 DEF SumsTo
      <4>2. QED
        BY <3>1, <4>1
    <3>2. CASE i # 0
      <4>1. i \in 1 .. Q /\ i - 1 \in 0 .. Q
        BY <1>1, <3>2
      <4>2. f[i - 1] = [low |-> S[i - 1] % M, high |-> H[i - 1] % M]
        BY <4>1
      <4> HIDE DEF f
      <4>3. QED
        BY <1>3, <3>2, <4>1, <4>2
    <3>3. QED
      BY <3>1, <3>2
  <2> DEFINE w == [i \in 0 .. Q |-> IF i = 0 THEN [low |-> 0, high |-> 0]
                     ELSE [low |-> Low(f, i) % M, high |-> (f[i - 1].high + Low(f, i)) % M]]
  <2>2. f = w
    BY <2>1, Zenon
  <2>3. QED
    BY <2>2
<1> DEFINE g == CHOOSE g : Values(g)
<1>5. Values(g)
  BY <1>4
<1>6. InitQueryChecksum(h, p, off) = g[Q]
  BY DEF InitQueryChecksum, Low
<1> HIDE DEF g
<1>7. \A i \in 0 .. Q : g[i] = [low |-> S[i] % M, high |-> H[i] % M]
  <2> DEFINE ok == [i \in 0 .. Q |-> g[i] = [low |-> S[i] % M, high |-> H[i] % M]]
             V == {TRUE}
  <2>1. g[0] = [low |-> S[0] % M, high |-> H[0] % M]
    <3>1. S[0] = 0 /\ H[0] = 0 /\ 0 % M = 0 /\ 0 \in 0 .. Q
      BY <1>1 DEF SumsTo
    <3>2. g[0] = [low |-> 0, high |-> 0]
      BY <1>5, <3>1
    <3>3. QED
      BY <3>1, <3>2
  <2>2. ASSUME NEW i \in 1 .. Q, g[i - 1] = [low |-> S[i - 1] % M, high |-> H[i - 1] % M]
        PROVE  g[i] = [low |-> S[i] % M, high |-> H[i] % M]
    <3>1. i \in 0 .. Q /\ i # 0
      BY <1>1
    <3>2. g[i] = [low |-> Low(g, i) % M, high |-> (g[i - 1].high + Low(g, i)) % M]
      BY <1>5, <3>1
    <3>3. QED
      BY <1>3, <2>2, <3>2
  <2>3. ok[0] \in V /\ \A i \in 1 .. Q : ok[i - 1] \in V => ok[i] \in V
    <3>1. 0 \in 0 .. Q /\ \A i \in 1 .. Q : i \in 0 .. Q /\ i - 1 \in 0 .. Q
      BY <1>1
    <3>2. QED
      BY <2>1, <2>2, <3>1
  <2> HIDE DEF ok, V
  <2>4. \A i \in 0 .. Q : ok[i] \in V
    BY <1>1, <2>3, AllAlong, Zenon
  <2>5. QED
    BY <2>4 DEF ok, V
<1>8. Q \in 0 .. Q
  BY <1>1
<1>9. QED
  BY <1>6, <1>7, <1>8

\* A checksum is two numbers below the modulus.
LEMMA SumFacts ==
  ASSUME NEW h, h.data \in Seq(Byte), NEW p, p.mem_page \in Nat, NEW off \in Nat
  PROVE  InitQueryChecksum(h, p, off) \in CheckSum
<1>1. PICK S, H : SumsTo(S, H, h, p, off)
  BY SumsThere
<1>2. InitQueryChecksum(h, p, off)
        = [low |-> S[QUERY_SIZE_POW] % ChecksumMod, high |-> H[QUERY_SIZE_POW] % ChecksumMod]
  BY <1>1, SumIs
<1>3. QUERY_SIZE_POW \in 0 .. QUERY_SIZE_POW /\ ChecksumMod \in Nat \ {0}
  BY Sizes
<1>4. S[QUERY_SIZE_POW] \in Nat /\ H[QUERY_SIZE_POW] \in Nat
  BY <1>1, <1>3 DEF SumsTo
<1>5. S[QUERY_SIZE_POW] % ChecksumMod \in 0 .. ChecksumMod - 1
      /\ H[QUERY_SIZE_POW] % ChecksumMod \in 0 .. ChecksumMod - 1
  BY <1>3, <1>4, Division
<1>6. QED
  BY <1>2, <1>5 DEF CheckSum

\* The sum that is rolled on is the one of the next window.
LEMMA RolledIs ==
  ASSUME NEW h, h.data \in Seq(Byte), NEW p, p.mem_page \in Nat, NEW off \in Nat,
         NEW q, q.mem_page = p.mem_page
  PROVE  Rolled(InitQueryChecksum(h, p, off), CHEW(ByteAt(h, p, off)),
                CHEW(ByteAt(h, p, off + QUERY_SIZE_POW)))
           = InitQueryChecksum(h, q, off + 1)
<1> DEFINE Q == QUERY_SIZE_POW
           M == ChecksumMod
<1>1. Q \in Nat \ {0} /\ M \in Nat \ {0}
  BY Sizes
<1>2. off + 1 \in Nat /\ off + Q \in Nat /\ q.mem_page \in Nat
  BY <1>1
<1>3. \A i : ByteAt(h, q, i) = ByteAt(h, p, i)
  BY DEF ByteAt
<1>4. PICK c \in Nat, d \in Nat : c = CHEW(ByteAt(h, p, off)) /\ d = CHEW(ByteAt(h, p, off + Q))
  BY <1>2, ByteFacts
<1>5. PICK S, H : SumsTo(S, H, h, p, off)
  BY SumsThere
<1>6. PICK T, I : SumsTo(T, I, h, q, off + 1)
  BY <1>2, SumsThere
<1>7. /\ \A i \in 0 .. Q : S[i] \in Nat /\ H[i] \in Nat /\ T[i] \in Nat /\ I[i] \in Nat
      /\ S[0] = 0 /\ H[0] = 0 /\ T[0] = 0 /\ I[0] = 0
  BY <1>5, <1>6 DEF SumsTo
<1>8. ASSUME NEW i \in 1 .. Q
      PROVE  /\ S[i] = S[i - 1] + CHEW(ByteAt(h, p, off + i - 1)) /\ H[i] = H[i - 1] + S[i]
             /\ T[i] = T[i - 1] + CHEW(ByteAt(h, p, off + i)) /\ I[i] = I[i - 1] + T[i]
  <2>1. off + 1 + i - 1 = off + i
    BY <1>1
  <2>2. S[i] = S[i - 1] + CHEW(ByteAt(h, p, off + i - 1)) /\ H[i] = H[i - 1] + S[i]
    BY <1>5 DEF SumsTo
  <2>3. T[i] = T[i - 1] + CHEW(ByteAt(h, q, off + 1 + i - 1)) /\ I[i] = I[i - 1] + T[i]
    BY <1>6 DEF SumsTo
  <2>4. QED
    BY <1>3, <2>1, <2>2, <2>3
<1> DEFINE After(k) == T[k] + c = S[k + 1] /\ I[k] + (k + 1) * c = H[k + 1]
<1>9. After(0)
  <2>1. 1 \in 1 .. Q /\ 1 - 1 = 0 /\ off + 1 - 1 = off /\ 0 + 1 = 1
    BY <1>1
  <2>2. S[1] = S[0] + c /\ H[1] = H[0] + S[1]
    BY <1>4, <1>8, <2>1
  <2>3. (0 + 1) * c = c
    OBVIOUS
  <2>4. S[1] = c /\ H[1] = c
    BY <1>7, <2>2
  <2>5. T[0] + c = c /\ I[0] + c = c
    BY <1>7
  <2>6. QED
    BY <2>1, <2>3, <2>4, <2>5
<1>10. ASSUME NEW k \in 1 .. Q - 1, After(k - 1) PROVE After(k)
  <2>1. k \in 1 .. Q /\ k + 1 \in 1 .. Q /\ (k + 1) - 1 = k /\ (k - 1) + 1 = k /\ off + (k + 1) - 1 = off + k
        /\ k - 1 \in 0 .. Q /\ k \in 0 .. Q /\ k + 1 \in 0 .. Q
    BY <1>1
  <2>2. T[k - 1] + c = S[k] /\ I[k - 1] + k * c = H[k]
    BY <1>10, <2>1
  <2>3. PICK b \in Nat : b = CHEW(ByteAt(h, p, off + k))
    <3>1. off + k \in Nat
      BY <2>1
    <3>2. QED
      BY <3>1, ByteFacts
  <2>4. T[k] = T[k - 1] + b /\ I[k] = I[k - 1] + T[k]
    BY <1>8, <2>1, <2>3
  <2>5. S[k + 1] = S[k] + b /\ H[k + 1] = H[k] + S[k + 1]
    BY <1>8, <2>1, <2>3
  <2>6. PICK t0 \in Nat, i0 \in Nat, x \in Nat : t0 = T[k - 1] /\ i0 = I[k - 1] /\ x = k * c
    <3>1. k * c \in Nat
      BY <2>1
    <3>2. QED
      BY <1>7, <2>1, <3>1
  <2>7. (k + 1) * c = x + c
    BY <2>6
  <2>8. T[k] = t0 + b /\ I[k] = i0 + (t0 + b) /\ S[k] = t0 + c /\ H[k] = i0 + x
        /\ S[k + 1] = (t0 + c) + b /\ H[k + 1] = (i0 + x) + ((t0 + c) + b)
    BY <2>2, <2>4, <2>5, <2>6
  <2>9. (t0 + b) + c = (t0 + c) + b /\ (i0 + (t0 + b)) + (x + c) = (i0 + x) + ((t0 + c) + b)
    OBVIOUS
  <2>10. QED
    BY <2>7, <2>8, <2>9
<1>11. After(Q - 1)
  <2> DEFINE ok == [k \in 0 .. Q - 1 |-> After(k)]
             V == {TRUE}
             n == Q - 1
  <2>1. n \in Nat /\ n \in 0 .. n /\ n = Q - 1
    BY <1>1
  <2>2. ok[0] \in V /\ \A k \in 1 .. n : ok[k - 1] \in V => ok[k] \in V
    <3>1. 0 \in 0 .. Q - 1 /\ \A k \in 1 .. n : k \in 0 .. Q - 1 /\ k - 1 \in 0 .. Q - 1 /\ k \in 1 .. Q - 1
      BY <1>1
    <3> HIDE DEF After
    <3>2. QED
      BY <1>9, <1>10, <3>1
  <2> HIDE DEF ok, V, n
  <2>3. \A k \in 0 .. n : ok[k] \in V
    BY <2>1, <2>2, AllAlong, Zenon
  <2>4. ok[n] \in V
    BY <2>1, <2>3
  <2> HIDE DEF After
  <2>5. QED
    BY <2>1, <2>4 DEF ok, V
<1>12. PICK s \in Nat, t \in Nat, x \in Nat : s = S[Q] /\ t = H[Q] /\ x = c * Q
  <2>1. Q \in 0 .. Q /\ c * Q \in Nat
    BY <1>1
  <2>2. QED
    BY <1>7, <2>1
<1>13. T[Q] = s - c + d /\ I[Q] = (t - x) + (s - c + d)
  <2>1. Q \in 1 .. Q /\ Q - 1 \in 0 .. Q /\ (Q - 1) + 1 = Q
    BY <1>1
  <2>2. T[Q - 1] + c = s /\ I[Q - 1] + Q * c = t
    BY <1>11, <1>12, <2>1
  <2>3. Q * c = x
    BY <1>1, <1>12
  <2>4. T[Q] = T[Q - 1] + d /\ I[Q] = I[Q - 1] + T[Q]
    BY <1>4, <1>8, <2>1
  <2>5. PICK a \in Nat, b \in Nat : a = T[Q - 1] /\ b = I[Q - 1]
    BY <1>7, <2>1
  <2>6. a = s - c /\ b = t - x /\ T[Q] = a + d /\ I[Q] = b + (a + d)
    <3>1. a + c = s /\ b + x = t
      BY <2>2, <2>3, <2>5
    <3>2. a = s - c /\ b = t - x
      <4>1. x \in Nat /\ b + x = t /\ a + c = s
        BY <3>1
      <4>2. QED
        BY <4>1
    <3>3. QED
      BY <2>4, <2>5, <3>2
  <2>7. QED
    BY <2>6
<1>14. InitQueryChecksum(h, p, off) = [low |-> s % M, high |-> t % M]
  BY <1>5, <1>12, SumIs
<1>15. InitQueryChecksum(h, q, off + 1) = [low |-> T[Q] % M, high |-> I[Q] % M]
  BY <1>2, <1>6, SumIs
<1> DEFINE low == ((s % M) - c + d) % M
<1>16. low = (s - c + d) % M
  <2>1. s \in Int /\ d - c \in Int
    OBVIOUS
  <2>2. Cut(s, d - c, M)
    BY <1>1, <2>1, AddMod
  <2>3. s % M \in 0 .. M - 1 /\ ((s % M) + (d - c)) % M = (s + (d - c)) % M
    BY <2>2 DEF Cut
  <2>4. (s % M) + (d - c) = (s % M) - c + d /\ s + (d - c) = s - c + d
    BY <1>1, <2>3
  <2>5. QED
    BY <2>3, <2>4
<1>17. ((t % M) - x + low) % M = ((t - x) + (s - c + d)) % M
  <2>1. t \in Int /\ s - c + d \in Int /\ -x \in Int /\ t - x \in Int
    OBVIOUS
  <2>2. Cut(t, -x, M) /\ Cut(s - c + d, (t % M) - x, M) /\ Cut(t, (s - c + d) - x, M)
    <3>1. Cut(t, -x, M)
      BY <1>1, <2>1, AddMod
    <3>2. (t % M) - x \in Int /\ (s - c + d) - x \in Int
      BY <1>1, <3>1 DEF Cut
    <3>3. QED
      BY <1>1, <2>1, <3>1, <3>2, AddMod
  <2>3. ((t % M) - x + low) % M = (((t % M) - x) + (s - c + d)) % M
    BY <1>16, <2>2 DEF Cut
  <2>4. ((t % M) - x) + (s - c + d) = (t % M) + ((s - c + d) - x)
        /\ t + ((s - c + d) - x) = (t - x) + (s - c + d)
    <3>1. t % M \in 0 .. M - 1
      BY <2>2 DEF Cut
    <3>2. QED
      BY <1>1, <3>1
  <2>5. ((t % M) + ((s - c + d) - x)) % M = (t + ((s - c + d) - x)) % M
    BY <2>2 DEF Cut
  <2>6. ((s - c + d) + ((t % M) - x)) % M = (((t % M) - x) + (s - c + d)) % M
    <3>1. t % M \in 0 .. M - 1
      BY <2>2 DEF Cut
    <3>2. (s - c + d) + ((t % M) - x) = ((t % M) - x) + (s - c + d)
      BY <1>1, <3>1
    <3>3. QED
      BY <3>2
  <2>7. QED
    BY <2>3, <2>4, <2>5
<1>18. Rolled([low |-> s % M, high |-> t % M], c, d)
         = [low |-> low, high |-> ((t % M) - (c * Q) + low) % M]
  BY DEF Rolled
<1>19. QED
  <2> HIDE DEF low
  <2>1. Rolled(InitQueryChecksum(h, p, off), c, d) = [low |-> low, high |-> ((t % M) - x + low) % M]
    BY <1>12, <1>14, <1>18
  <2>2. QED
    BY <1>4, <1>13, <1>15, <1>16, <1>17, <2>1

(***************************************************************************)
(* Positions.                                                              *)
(***************************************************************************)

\* The page and the offset of a place.
LEMMA AtFacts ==
  ASSUME NEW n \in Nat
  PROVE  /\ At(n).page \in Nat /\ At(n).off \in 0 .. PageSize - 1
         /\ At(n).page * PageSize + At(n).off = n
         /\ At(n).page = n \div PageSize /\ At(n).off = n % PageSize
         /\ At(n).page * PageSize \in Nat
<1>1. n \div PageSize \in Nat /\ n % PageSize \in 0 .. PageSize - 1
      /\ n = (n \div PageSize) * PageSize + (n % PageSize)
  BY Sizes, Division
<1>2. At(n).page = n \div PageSize /\ At(n).off = n % PageSize
  BY DEF At
<1>3. (n \div PageSize) * PageSize \in Nat
  BY <1>1, Sizes
<1>4. QED
  BY <1>1, <1>2, <1>3

\* A page and an offset are those of one place.
LEMMA PlaceIs ==
  ASSUME NEW p \in Nat, NEW r \in 0 .. PageSize - 1, NEW n \in Nat, n = p * PageSize + r
  PROVE  At(n).page = p /\ At(n).off = r /\ n \div PageSize = p /\ n % PageSize = r
<1>1. n \div PageSize = p /\ n % PageSize = r
  BY Sizes, DivisionIs
<1>2. QED
  BY <1>1 DEF At

\* The smaller of two.
LEMMA MinOfTwo ==
  ASSUME NEW a \in Int, NEW b \in Int
  PROVE  Min({a, b}) \in {a, b} /\ Min({a, b}) <= a /\ Min({a, b}) <= b
<1>1. \E x \in {a, b} : \A y \in {a, b} : x <= y
  <2>1. a <= b \/ b <= a
    OBVIOUS
  <2>2. QED
    BY <2>1
<1>2. Min({a, b}) \in {a, b} /\ \A y \in {a, b} : Min({a, b}) <= y
  BY <1>1 DEF Min
<1>3. QED
  BY <1>2

\* The smallest of three.
LEMMA MinOfThree ==
  ASSUME NEW a \in Int, NEW b \in Int, NEW c \in Int
  PROVE  /\ Min({a, b, c}) \in {a, b, c}
         /\ Min({a, b, c}) <= a /\ Min({a, b, c}) <= b /\ Min({a, b, c}) <= c
<1>1. \E x \in {a, b, c} : \A y \in {a, b, c} : x <= y
  <2>1. CASE a <= b /\ a <= c
    BY <2>1
  <2>2. CASE b <= a /\ b <= c
    BY <2>2
  <2>3. CASE c <= a /\ c <= b
    BY <2>3
  <2>4. QED
    BY <2>1, <2>2, <2>3
<1>2. Min({a, b, c}) \in {a, b, c} /\ \A y \in {a, b, c} : Min({a, b, c}) <= y
  BY <1>1 DEF Min
<1>3. QED
  BY <1>2

\* The least number of a set of naturals.
LEMMA MinOfSet ==
  ASSUME NEW S, S \subseteq Nat, S # {}
  PROVE  Min(S) \in S /\ \A y \in S : Min(S) <= y
<1>1. \E x \in S : \A y \in S : x <= y
  BY LeastNat
<1>2. QED
  BY <1>1 DEF Min

\* The bytes that agree from two places on.
LEMMA AgreeFromIs ==
  ASSUME NEW hx, NEW x, NEW hy, NEW y, NEW rem \in Nat, NEW r, r = AgreeFrom(hx, x, hy, y, rem)
  PROVE  /\ r \in 0 .. rem
         /\ \A i \in 1 .. r : ByteAt(hx, x, x.off + i - 1) = ByteAt(hy, y, y.off + i - 1)
         /\ r < rem => ByteAt(hx, x, x.off + (r + 1) - 1) # ByteAt(hy, y, y.off + (r + 1) - 1)
<1> DEFINE Same(i) == ByteAt(hx, x, x.off + i - 1) = ByteAt(hy, y, y.off + i - 1)
           differ == {i \in 1 .. rem : ~Same(i)}
<1>1. r = IF differ = {} THEN rem ELSE Min(differ) - 1
  BY DEF AgreeFrom
<1> SUFFICES r \in 0 .. rem /\ (\A i \in 1 .. r : Same(i)) /\ (r < rem => ~Same(r + 1))
  OBVIOUS
<1> HIDE DEF Same
<1>2. CASE differ = {}
  BY <1>1, <1>2
<1>3. CASE differ # {}
  <2>1. differ \subseteq Nat
    OBVIOUS
  <2>2. Min(differ) \in differ /\ \A i \in differ : Min(differ) <= i
    <3> HIDE DEF differ
    <3> QED BY <1>3, <2>1, MinOfSet
  <2>3. PICK m \in 1 .. rem : m = Min(differ)
    BY <2>2
  <2>4. r = m - 1 /\ r + 1 = m /\ r \in 0 .. rem
    BY <1>1, <1>3, <2>3
  <2>5. m \in differ /\ \A i \in differ : m <= i
    BY <2>2, <2>3
  <2>6. \A i \in 1 .. r : i \in 1 .. rem /\ i \notin differ
    BY <2>4, <2>5
  <2>7. QED
    BY <2>4, <2>5, <2>6
<1>4. QED
  BY <1>2, <1>3

\* The bytes that agree before two places.
LEMMA AgreeBeforeIs ==
  ASSUME NEW h, NEW x, NEW y, NEW rem \in Nat, NEW r, r = AgreeBefore(h, x, y, rem)
  PROVE  /\ r \in 0 .. rem
         /\ \A i \in 1 .. r : ByteAt(in, x, x.off - i) = ByteAt(h, y, y.off - i)
<1> DEFINE differ == {i \in 1 .. rem : ByteAt(in, x, x.off - i) # ByteAt(h, y, y.off - i)}
<1>1. r = IF differ = {} THEN rem ELSE Min(differ) - 1
  BY DEF AgreeBefore
<1>2. CASE differ = {}
  BY <1>1, <1>2
<1>3. CASE differ # {}
  <2>1. differ \subseteq Nat
    OBVIOUS
  <2>2. Min(differ) \in differ /\ \A i \in differ : Min(differ) <= i
    <3> HIDE DEF differ
    <3> QED BY <1>3, <2>1, MinOfSet
  <2>3. PICK m \in 1 .. rem : m = Min(differ)
    BY <2>2
  <2>4. r = m - 1 /\ r \in 0 .. rem
    BY <1>1, <1>3, <2>3
  <2>5. \A i \in differ : m <= i
    BY <2>2, <2>3
  <2>6. \A i \in 1 .. r : i \in 1 .. rem /\ i \notin differ
    BY <2>4, <2>5
  <2>7. QED
    BY <2>4, <2>6
<1>4. QED
  BY <1>2, <1>3

(***************************************************************************)
(* Mapping and unmapping the pages of a file.                              *)
(***************************************************************************)

AFile(data) == data \in {job.target, job.source, job.given}

MapsPage(g, h, seek, p) ==
  /\ g.status = "ok"
  /\ FileOf(g, seek) /\ g.data = h.data /\ UsedBy(g, p)
  /\ g.md5_page = (IF ~h.buffer[p] /\ p = h.md5_page THEN h.md5_page + 1 ELSE h.md5_page)
  /\ g.buffer[p] /\ Listed(g) \subseteq Listed(h) \cup {p}

\* A page of a file of which no page is used is mapped: map_page does not fail.
LEMMA MapFile ==
  ASSUME job \in Inputs, NEW h, NEW seek, FileOf(h, seek), Idle(h),
         NEW p \in PageNumbers, p <= PagesOf(h), NEW g, g = MapPage(h, p, job.verify)
  PROVE  MapsPage(g, h, seek, p)
<1>1. h \in Handles /\ h.seek = seek /\ h.status = "ok" /\ Sound(h) /\ Digests(h, job.verify)
      /\ job.verify \in BOOLEAN
  BY JobFacts DEF FileOf
<1>2. /\ g \in Handles /\ g.data = h.data /\ g.seek = h.seek
      /\ g.status = "ok" =>
           /\ h.status = "ok" /\ p <= PagesOf(h)
           /\ Sound(g) /\ g.buffer[p]
           /\ g.refs = [h.refs EXCEPT ![p] = @ + 1]
           /\ Listed(g) \subseteq Listed(h) \cup {p}
           /\ IF ~h.buffer[p] /\ p = h.md5_page
              THEN /\ g.md5_page = h.md5_page + 1
                   /\ g.hashed = IF job.verify THEN h.hashed \o OfPage(h, p) ELSE h.hashed
              ELSE g.md5_page = h.md5_page /\ g.hashed = h.hashed
      /\ h.status = "ok" /\ Idle(h) /\ p <= PagesOf(h) => g.status = "ok"
  BY <1>1, MapFacts
<1>3. g.status = "ok"
  BY <1>1, <1>2
<1>4. UsedBy(g, p)
  <2>1. h.refs \in [PageNumbers -> Nat] /\ \A q \in PageNumbers : h.refs[q] = 0
    BY <1>1 DEF Handles, Idle
  <2>2. g.refs = [h.refs EXCEPT ![p] = @ + 1]
    BY <1>2, <1>3
  <2>3. QED
    BY <2>1, <2>2 DEF UsedBy
<1>5. Digests(g, job.verify)
  <2>1. PagesOf(g) = PagesOf(h) /\ \A q : UpTo(g, q) = UpTo(h, q)
    BY <1>2 DEF PagesOf, UpTo
  <2>2. CASE ~h.buffer[p] /\ p = h.md5_page
    <3>1. h.data \in Seq(Byte) /\ p \in Nat
      BY <1>1, PageFacts DEF Handles
    <3>2. SubSeq(h.data, 1, UpTo(h, p)) \o OfPage(h, p) = SubSeq(h.data, 1, UpTo(h, p + 1))
      BY <3>1, OfPageFacts
    <3>3. g.md5_page = p + 1 /\ PagesOf(h) \in Nat /\ g.md5_page <= PagesOf(h) + 1
      <4>1. PagesOf(h) \in Nat
        BY <3>1, PageBounds
      <4>2. QED
        BY <1>2, <1>3, <2>2, <3>1, <4>1
    <3>4. h.hashed = IF job.verify THEN SubSeq(h.data, 1, UpTo(h, p)) ELSE <<>>
      BY <1>1, <2>2 DEF Digests
    <3>5. g.hashed = IF job.verify THEN SubSeq(h.data, 1, UpTo(h, p + 1)) ELSE <<>>
      <4>1. g.hashed = IF job.verify THEN h.hashed \o OfPage(h, p) ELSE h.hashed
        BY <1>2, <1>3, <2>2
      <4>2. CASE job.verify
        BY <3>2, <3>4, <4>1, <4>2
      <4>3. CASE ~job.verify
        BY <3>4, <4>1, <4>3
      <4>4. QED
        BY <4>2, <4>3
    <3>6. QED
      BY <1>2, <2>1, <3>3, <3>5 DEF Digests
  <2>3. CASE ~(~h.buffer[p] /\ p = h.md5_page)
    <3>1. g.md5_page = h.md5_page /\ g.hashed = h.hashed
      BY <1>2, <1>3, <2>3
    <3>2. QED
      BY <1>1, <1>2, <2>1, <3>1 DEF Digests
  <2>4. QED
    BY <2>2, <2>3
<1>6. FileOf(g, seek)
  BY <1>1, <1>2, <1>3, <1>5 DEF FileOf
<1>7. QED
  BY <1>2, <1>3, <1>4, <1>6 DEF MapsPage

UnmapsPage(g, h, seek, p) ==
  /\ g.status = "ok"
  /\ FileOf(g, seek) /\ g.data = h.data /\ Idle(g)
  /\ g.md5_page = h.md5_page /\ g.hashed = h.hashed
  /\ Listed(g) \subseteq Listed(h)

\* The page that is used is given back: unmap_page does not fail.
LEMMA UnmapFile ==
  ASSUME NEW h, NEW seek, FileOf(h, seek), NEW p \in PageNumbers, UsedBy(h, p),
         NEW g, g = UnmapPage(h, p)
  PROVE  UnmapsPage(g, h, seek, p)
<1>1. h \in Handles /\ h.seek = seek /\ h.status = "ok" /\ Sound(h) /\ Digests(h, job.verify)
  BY DEF FileOf
<1>2. Released(g, h, p)
  BY <1>1, UnmapFacts
<1>3. h.refs[p] = 1
  BY DEF UsedBy
<1>4. /\ g \in Handles /\ SameFile(g, h) /\ g.status = "ok"
      /\ Sound(g) /\ Listed(g) \subseteq Listed(h) /\ g.refs = [h.refs EXCEPT ![p] = @ - 1]
  BY <1>1, <1>2, <1>3 DEF Released
<1>5. Idle(g)
  <2>1. h.refs \in [PageNumbers -> Nat]
    BY <1>1 DEF Handles
  <2>2. QED
    BY <1>3, <1>4, <2>1 DEF UsedBy, Idle
<1>6. Digests(g, job.verify)
  <2>1. PagesOf(g) = PagesOf(h) /\ \A q : UpTo(g, q) = UpTo(h, q)
    BY <1>4 DEF PagesOf, UpTo, SameFile
  <2>2. QED
    BY <1>1, <1>4, <2>1 DEF Digests, SameFile
<1>7. QED
  BY <1>1, <1>4, <1>5, <1>6 DEF UnmapsPage, FileOf, SameFile

\* There are more page numbers than pages.
LEMMA PagesThere ==
  ASSUME job \in Inputs, NEW h, NEW seek, FileOf(h, seek), AFile(h.data)
  PROVE  /\ h.data \in Seq(Byte) /\ PagesOf(h) \in Nat /\ PagesOf(h) + 1 <= LastPage
         /\ h.md5_page \in Nat /\ h.md5_page <= PagesOf(h) + 1 /\ h.md5_page \in PageNumbers
         /\ \A p \in Nat : p <= h.md5_page \/ p <= PagesOf(h) + 1 => p \in PageNumbers
<1>1. h.data \in Seq(Byte) /\ h.md5_page \in Nat /\ h.md5_page <= PagesOf(h) + 1
  BY DEF FileOf, Handles, Digests
<1>2. PagesOf(h) \in Nat /\ PagesOf(h) < LastPage /\ LastPage \in Nat
  <2>1. PagesOf(h) \in Nat
    BY <1>1, PageBounds
  <2>2. PagesOf(h) < LastPage
    BY JobFacts DEF PagesOf, AFile, Target
  <2>3. QED
    BY <2>1, <2>2, Sizes
<1>3. QED
  BY <1>1, <1>2 DEF PageNumbers

TurnsTo(g, h, seek, p) ==
  /\ p \in PageNumbers
  /\ p <= PagesOf(h) => g.status = "ok"
  /\ g.status = "ok" => /\ FileOf(g, seek) /\ g.data = h.data /\ UsedBy(g, p) /\ InTurn(g)
                        /\ h.md5_page <= g.md5_page /\ p < g.md5_page /\ p <= PagesOf(h)

\* The next page of the digest, or an earlier one, is mapped: pages still go into the
\* digest in their turn.
LEMMA MapTurn ==
  ASSUME job \in Inputs, NEW h, NEW seek, FileOf(h, seek), AFile(h.data), Idle(h), InTurn(h),
         NEW p \in Nat, p <= h.md5_page, NEW g, g = MapPage(h, p, job.verify)
  PROVE  TurnsTo(g, h, seek, p)
<1>1. p \in PageNumbers /\ h.md5_page \in Nat
  BY PagesThere
<1>2. g.status = "ok" => p <= PagesOf(h)
  <2>1. h \in Handles /\ Sound(h) /\ job.verify \in BOOLEAN
    BY JobFacts DEF FileOf
  <2>2. /\ g \in Handles /\ g.data = h.data /\ g.seek = h.seek
        /\ g.status = "ok" =>
             /\ h.status = "ok" /\ p <= PagesOf(h)
             /\ Sound(g) /\ g.buffer[p]
             /\ g.refs = [h.refs EXCEPT ![p] = @ + 1]
             /\ Listed(g) \subseteq Listed(h) \cup {p}
             /\ IF ~h.buffer[p] /\ p = h.md5_page
                THEN /\ g.md5_page = h.md5_page + 1
                     /\ g.hashed = IF job.verify THEN h.hashed \o OfPage(h, p) ELSE h.hashed
                ELSE g.md5_page = h.md5_page /\ g.hashed = h.hashed
    BY <1>1, <2>1, MapFacts
  <2>3. QED
    BY <2>2
<1>3. ASSUME p <= PagesOf(h)
      PROVE  g.status = "ok" /\ FileOf(g, seek) /\ g.data = h.data /\ UsedBy(g, p) /\ InTurn(g)
             /\ h.md5_page <= g.md5_page /\ p < g.md5_page
  <2>1. MapsPage(g, h, seek, p)
    BY <1>1, <1>3, MapFile
  <2>2. /\ g.status = "ok" /\ FileOf(g, seek) /\ g.data = h.data /\ UsedBy(g, p)
        /\ g.md5_page = (IF ~h.buffer[p] /\ p = h.md5_page THEN h.md5_page + 1 ELSE h.md5_page)
        /\ g.buffer[p] /\ Listed(g) \subseteq Listed(h) \cup {p}
    BY <2>1 DEF MapsPage
  <2>3. h.md5_page <= g.md5_page /\ p < g.md5_page
    <3>1. CASE h.buffer[p]
      <4>1. p < h.md5_page
        BY <1>1, <3>1 DEF InTurn
      <4>2. QED
        BY <1>1, <2>2, <3>1, <4>1
    <3>2. CASE ~h.buffer[p]
      BY <1>1, <2>2, <3>2
    <3>3. QED
      BY <3>1, <3>2
  <2>4. InTurn(g)
    <3>1. ASSUME NEW q \in PageNumbers, g.buffer[q] PROVE q < g.md5_page
      <4>1. q \in Listed(h) \/ q = p
        BY <2>2, <3>1 DEF Listed
      <4>2. CASE q \in Listed(h)
        <5>1. q < h.md5_page
          BY <4>2 DEF Listed, InTurn
        <5>2. g.md5_page \in Nat /\ q \in Nat
          BY <2>2, PageFacts DEF FileOf, Handles
        <5>3. QED
          BY <1>1, <2>3, <5>1, <5>2
      <4>3. QED
        BY <2>3, <4>1, <4>2
    <3>2. QED
      BY <3>1 DEF InTurn
  <2>5. QED
    BY <2>2, <2>3, <2>4
<1>4. QED
  BY <1>1, <1>2, <1>3 DEF TurnsTo

\* A position leaves the page it has and takes the one it is on.
LEMMA MapPosIs ==
  ASSUME job \in Inputs, NEW h, NEW seek, FileOf(h, seek), AFile(h.data), InTurn(h),
         NEW x \in Position, UsedBy(h, x.mem_page), x.page <= h.md5_page,
         NEW g, g = MapPos(h, x)
  PROVE  TurnsTo(g, h, seek, x.page)
<1>1. x.page \in Nat /\ x.mem_page \in PageOrNull /\ x.page \in PageNumbers /\ h.status = "ok"
      /\ h.md5_page \in Nat
  BY PagesThere DEF Position, FileOf
<1>2. CASE x.mem_page = x.page
  <2>1. g = h
    BY <1>2 DEF MapPos
  <2>2. h.refs[x.page] = 1 /\ h.buffer[x.page]
    <3>1. h.refs[x.page] = 1
      BY <1>1, <1>2 DEF UsedBy
    <3>2. QED
      BY <1>1, <3>1 DEF FileOf, Sound
  <2>3. x.page < h.md5_page
    BY <1>1, <2>2 DEF InTurn
  <2>4. h.md5_page <= PagesOf(h) + 1 /\ PagesOf(h) \in Nat
    BY PagesThere
  <2>5. x.page <= PagesOf(h) /\ h.md5_page <= h.md5_page
    BY <1>1, <2>3, <2>4
  <2>6. QED
    BY <1>1, <1>2, <2>1, <2>3, <2>5 DEF TurnsTo
<1>3. CASE x.mem_page # x.page
  <2> DEFINE left == Unmapped(h, x)
  <2>1. /\ left.status = "ok" /\ FileOf(left, seek) /\ left.data = h.data /\ Idle(left)
        /\ left.md5_page = h.md5_page /\ InTurn(left)
    <3>1. CASE x.mem_page = Null
      <4>1. left = h
        BY <3>1 DEF Unmapped
      <4>2. Idle(h)
        BY <3>1, PageFacts DEF UsedBy, Idle
      <4>3. QED
        BY <1>1, <4>1, <4>2
    <3>2. CASE x.mem_page # Null
      <4>1. x.mem_page \in PageNumbers /\ left = UnmapPage(h, x.mem_page)
        BY <1>1, <3>2 DEF Unmapped, PageOrNull
      <4> HIDE DEF left
      <4>2. UnmapsPage(left, h, seek, x.mem_page)
        BY <4>1, UnmapFile
      <4>3. InTurn(left)
        <5>1. \A q \in PageNumbers : left.buffer[q] => h.buffer[q]
          BY <4>2 DEF UnmapsPage, Listed
        <5>2. left.md5_page = h.md5_page
          BY <4>2 DEF UnmapsPage
        <5>3. QED
          BY <5>1, <5>2 DEF InTurn
      <4>4. QED
        BY <4>2, <4>3 DEF UnmapsPage
    <3>3. QED
      BY <3>1, <3>2
  <2>2. g = MapPage(left, x.page, job.verify)
    BY <1>3, <2>1 DEF MapPos
  <2> HIDE DEF left
  <2>3. TurnsTo(g, left, seek, x.page)
    BY <1>1, <2>1, <2>2, MapTurn
  <2>4. PagesOf(left) = PagesOf(h)
    BY <2>1 DEF PagesOf
  <2>5. QED
    BY <2>1, <2>3, <2>4 DEF TurnsTo
<1>4. QED
  BY <1>2, <1>3

\* A handle that was just opened.
LEMMA OpenedFacts ==
  ASSUME job \in Inputs, NEW data, AFile(data), NEW seek \in BOOLEAN, NEW h, h = ReadHandle(data, seek)
  PROVE  FileOf(h, seek) /\ h.data = data /\ Idle(h) /\ InTurn(h) /\ h.md5_page = 0
<1>1. data \in Seq(Byte)
  BY JobFacts DEF AFile, Target
<1>2. h = [data |-> data, seek |-> seek, head |-> Null, tail |-> Null, count |-> 0,
           next |-> [p \in PageNumbers |-> Null], prev |-> [p \in PageNumbers |-> Null],
           buffer |-> [p \in PageNumbers |-> FALSE], refs |-> [p \in PageNumbers |-> 0],
           md5_page |-> 0, hashed |-> <<>>, status |-> "ok"]
  BY DEF ReadHandle
<1>3. h \in Handles
  <2>1. <<>> \in Seq(Byte) /\ 0 \in Nat /\ 0 \in Int
    OBVIOUS
  <2>2. QED
    BY <1>1, <1>2, <2>1 DEF Handles, PageOrNull
<1>4. /\ h.data = data /\ h.seek = seek /\ h.head = Null /\ h.tail = Null /\ h.count = 0
      /\ h.buffer = [p \in PageNumbers |-> FALSE] /\ h.refs = [p \in PageNumbers |-> 0]
      /\ h.md5_page = 0 /\ h.hashed = <<>> /\ h.status = "ok"
  BY <1>2
<1>5. Listed(h) = {}
  BY <1>4 DEF Listed
<1>6. ListIs(h, <<>>)
  <2>1. <<>> \in Seq(PageNumbers) /\ Len(<<>>) = 0
    OBVIOUS
  <2>2. QED
    BY <1>4, <2>1 DEF ListIs
<1>7. Tracks(h, Listed(h), h.count)
  <2>1. \A p \in PageNumbers : (\E i \in 1 .. Len(<<>>) : <<>>[i] = p) <=> p \in Listed(h)
    BY <1>5
  <2>2. Len(<<>>) = h.count
    BY <1>4
  <2>3. QED
    BY <1>6, <2>1, <2>2 DEF Tracks
<1>8. Sound(h)
  <2>1. h.count \in 0 .. MaxMappedPages
    BY <1>4, Sizes
  <2>2. \A p \in PageNumbers : ~(h.refs[p] > 0)
    BY <1>4
  <2>3. QED
    BY <1>7, <2>1, <2>2 DEF Sound
<1>9. Digests(h, job.verify)
  <2>1. PagesOf(h) \in Nat
    BY <1>1, <1>4, PageBounds
  <2>2. UpTo(h, 0) = 0
    BY <2>1, Sizes DEF UpTo
  <2>3. SubSeq(h.data, 1, 0) = <<>>
    BY <1>1, <1>4
  <2>4. QED
    BY <1>4, <2>1, <2>2, <2>3 DEF Digests
<1>10. Idle(h) /\ InTurn(h)
  BY <1>4 DEF Idle, InTurn
<1>11. QED
  BY <1>3, <1>4, <1>8, <1>9, <1>10 DEF FileOf

\* A handle that is written.
LEMMA CloseFacts ==
  ASSUME NEW o \in Written, NEW g, g = HandleClose(o)
  PROVE  /\ g \in Written /\ g.bytes = Since(o) /\ g.reset /\ g.md5 = o.hashed
         /\ g.file = o.file /\ g.status = o.status
<1>1. Since(o) \in Seq(Bytes) /\ o.hashed \in Seq(Bytes) /\ <<>> \in Seq(Bytes)
  BY DEF Written, Bytes, Since
<1> DEFINE b == Since(o)
           d == o.hashed
<1>2. g = [o EXCEPT !.bytes = b, !.reset = TRUE, !.md5 = d, !.hashed = <<>>]
  BY DEF HandleClose
<1>3. b \in Seq(Bytes) /\ d \in Seq(Bytes)
  BY <1>1
<1> HIDE DEF b, d
<1>4. /\ g \in Written /\ g.bytes = b /\ g.reset /\ g.md5 = d
      /\ g.file = o.file /\ g.status = o.status
  BY <1>1, <1>2, <1>3 DEF Written, Bytes
<1>5. QED
  BY <1>4 DEF b, d

\* A file that is written begins empty.
LEMMA WriteHandleFacts ==
  ASSUME NEW writes \in Nat, NEW o, o = WriteHandle(writes)
  PROVE  /\ o \in Written /\ o.bytes = <<>> /\ ~o.reset /\ o.hashed = <<>> /\ o.file = <<>>
         /\ o.status = "ok"
<1>1. <<>> \in Seq(Bytes)
  OBVIOUS
<1>2. o = [bytes |-> <<>>, reset |-> FALSE, hashed |-> <<>>, md5 |-> <<>>,
           file |-> <<>>, writes |-> writes, status |-> "ok"]
  BY DEF WriteHandle
<1>3. QED
  BY <1>1, <1>2 DEF Written, Bytes

\* The digest goes on by one page, which nobody has mapped.
DigestsOne(g, h, seek) ==
  /\ g.status = "ok" /\ FileOf(g, seek) /\ g.data = h.data /\ Idle(g) /\ InTurn(g)
  /\ g.md5_page = h.md5_page + 1

\* A turn of xd_handle_checksum_md5 adds a page to the digest.
LEMMA DigestFacts ==
  ASSUME job \in Inputs, NEW h, NEW seek, FileOf(h, seek), AFile(h.data), Idle(h), InTurn(h),
         ~Digested(h), NEW g, g = DigestPage(h, job.verify)
  PROVE  DigestsOne(g, h, seek)
<1> DEFINE p == h.md5_page
           there == MapPage(h, p, job.verify)
<1>1. p \in Nat /\ p \in PageNumbers /\ p <= PagesOf(h) /\ PagesOf(h) \in Nat
  BY PagesThere DEF Digested
<1>2. ~h.buffer[p]
  BY <1>1 DEF InTurn
<1>3. MapsPage(there, h, seek, p)
  BY <1>1, MapFile
<1>4. TurnsTo(there, h, seek, p)
  BY <1>1, MapTurn
<1>5. /\ there.status = "ok" /\ there.md5_page = p + 1 /\ FileOf(there, seek) /\ there.data = h.data
      /\ UsedBy(there, p) /\ InTurn(there)
  BY <1>2, <1>3, <1>4 DEF MapsPage, TurnsTo
<1>6. g = UnmapPage(there, p)
  <2>1. there.md5_page # p
    BY <1>1, <1>5
  <2>2. QED
    BY <1>5, <2>1 DEF DigestPage
<1> HIDE DEF there
<1>7. UnmapsPage(g, there, seek, p)
  BY <1>1, <1>5, <1>6, UnmapFile
<1>8. InTurn(g)
  <2>1. \A q \in PageNumbers : g.buffer[q] => there.buffer[q]
    BY <1>7 DEF UnmapsPage, Listed
  <2>2. g.md5_page = there.md5_page
    BY <1>7 DEF UnmapsPage
  <2>3. QED
    BY <1>5, <2>1, <2>2 DEF InTurn
<1>9. QED
  BY <1>5, <1>7, <1>8 DEF DigestsOne, UnmapsPage

\* The table has blocks of the source.
LEMMA TableFacts ==
  ASSUME NEW cksums \in Seq(CheckSum)
  PROVE  /\ Table(cksums) \in [0 .. TableSize - 1 -> Nat \cup {Null}]
         /\ \A i \in 0 .. TableSize - 1 :
              Table(cksums)[i] # Null => Table(cksums)[i] \in Nat /\ Table(cksums)[i] + 1 <= Len(cksums)
<1>1. Len(cksums) \in Nat /\ Null \notin Nat
  BY DEF Null
<1>2. ASSUME NEW i \in 0 .. TableSize - 1
      PROVE  Table(cksums)[i] = Null \/ (Table(cksums)[i] \in Nat /\ Table(cksums)[i] + 1 <= Len(cksums))
  <2> DEFINE here == {j \in 1 .. Len(cksums) : Index(cksums[j]) = i}
  <2>1. Table(cksums)[i] = IF here = {} THEN Null ELSE Min(here) - 1
    BY DEF Table
  <2>2. CASE here = {}
    BY <2>1, <2>2
  <2>3. CASE here # {}
    <3>1. here \subseteq Nat /\ here \subseteq 1 .. Len(cksums)
      BY <1>1
    <3> HIDE DEF here
    <3>2. Min(here) \in here
      BY <2>3, <3>1, MinOfSet
    <3>3. PICK m \in 1 .. Len(cksums) : m = Min(here)
      BY <3>1, <3>2
    <3>4. Table(cksums)[i] = m - 1 /\ m - 1 \in Nat /\ (m - 1) + 1 <= Len(cksums)
      BY <1>1, <2>1, <2>3, <3>3
    <3>5. QED
      BY <3>4
  <2>4. QED
    BY <2>2, <2>3
<1>3. Table(cksums) = [i \in 0 .. TableSize - 1 |-> Table(cksums)[i]]
  BY DEF Table
<1>4. \A i \in 0 .. TableSize - 1 : Table(cksums)[i] \in Nat \cup {Null}
  BY <1>2
<1>5. Table(cksums) \in [0 .. TableSize - 1 -> Nat \cup {Null}]
  <2> DEFINE t == Table(cksums)
  <2>1. t = [i \in 0 .. TableSize - 1 |-> t[i]] /\ \A i \in 0 .. TableSize - 1 : t[i] \in Nat \cup {Null}
    BY <1>3, <1>4
  <2> HIDE DEF t
  <2>2. t \in [0 .. TableSize - 1 -> Nat \cup {Null}]
    BY <2>1
  <2>3. QED
    BY <2>2 DEF t
<1>6. QED
  BY <1>2, <1>5

\* The place of the table that a sum belongs to.
LEMMA IndexFacts ==
  ASSUME NEW sum \in CheckSum
  PROVE  Index(sum) \in 0 .. TableSize - 1
<1>1. sum.low \in 0 .. ChecksumMod - 1 /\ sum.high \in 0 .. ChecksumMod - 1
  BY DEF CheckSum
<1>2. CHash(sum.low, sum.high) \in Nat
  BY <1>1, SumAssumptions
<1>3. QED
  BY <1>2, Sizes, Division DEF Index

(***************************************************************************)
(* Every step keeps the invariant.                                         *)
(***************************************************************************)

\* What is said of the job stays said while it does.
LEMMA SameJob ==
  ASSUME job' = job
  PROVE  /\ Target' = Target /\ InLength' = InLength /\ FromLength' = FromLength
         /\ Built(gen, out)' <=> Built(gen', out')
         /\ FileOf(in, FALSE)' <=> FileOf(in', FALSE)
         /\ FileOf(from, TRUE)' <=> FileOf(from', TRUE)
         /\ OnLastPage(gen.xpos)' <=> EndsOn(gen'.xpos, gen'.to_output_pos)
         /\ BackAt(in, gen, match)' <=> BackAt(in', gen', match')
         /\ ForwardAt(in, gen, match)' <=> ForwardAt(in', gen', match')
         /\ EndsAt(match)' <=> EndsAt(match')
<1>1. Target' = Target /\ InLength' = InLength /\ FromLength' = FromLength
  BY DEF Target, InLength, FromLength
<1>2. Ordered(gen)' <=> Ordered(gen')
  BY <1>1 DEF Ordered
<1>3. Parted(gen)' <=> Parted(gen')
  BY <1>1 DEF Parted
<1>4. Makes(gen.insts, out.file)' <=> Makes(gen'.insts, out'.file)
  BY <1>1 DEF Makes, Holds, Piece
<1>5. Wrote(gen, out)' <=> Wrote(gen', out')
  BY <1>4 DEF Wrote
<1>6. OnLastPage(gen.xpos)' <=> EndsOn(gen'.xpos, gen'.to_output_pos)
  BY <1>1 DEF OnLastPage, EndsOn
<1>7. MatchAt(in, gen, match)' <=> MatchAt(in', gen', match')
  BY <1>1 DEF MatchAt, EndsOn, Agree
<1>8. ForwardMax(match)' = ForwardMax(match')
  BY <1>1 DEF ForwardMax
<1>9. BackAt(in, gen, match)' <=> BackAt(in', gen', match')
  BY <1>7 DEF BackAt
<1>10. ForwardAt(in, gen, match)' <=> ForwardAt(in', gen', match')
  BY <1>7, <1>8 DEF ForwardAt
<1>11. EndsAt(match)' <=> EndsAt(match')
  BY <1>1, <1>8 DEF EndsAt
<1>12. QED
  BY <1>1, <1>2, <1>3, <1>5, <1>6, <1>9, <1>10, <1>11 DEF Built, FileOf

\* Nothing is put out.
LEMMA NothingBuilt ==
  ASSUME job \in Inputs, NEW g \in Generator, g.insts = <<>>, g.used = {}, g.to_output_pos = 0,
         g.data_output_pos = 0, g.position[1] = 0, NEW o \in Written, o.bytes = <<>>, o.file = <<>>
  PROVE  Built(g, o)
<1>1. Lengths(g.insts, 0) /\ Len(g.insts) = 0 /\ 0 \in Nat /\ 0 + 1 = 1
  BY DEF Lengths
<1>2. Before(g.insts, 0, 1) = 0 /\ Before(g.insts, 1, 1) = 0
  BY <1>1, BeforeFacts
<1>3. InLength \in Nat
  BY JobFacts
<1>4. 1 .. Len(g.insts) = {}
  BY <1>1
<1>5. Ordered(g)
  BY <1>1, <1>2, <1>3, <1>4 DEF Ordered, Size, InSequence
<1>6. Parted(g)
  BY <1>1 DEF Parted
<1>7. Wrote(g, o)
  BY <1>1, <1>4 DEF Wrote, Makes
<1>8. QED
  BY <1>5, <1>6, <1>7 DEF Built

\* The command delta begins.
LEMMA XInitHolds ==
  ASSUME Init
  PROVE  XInv
<1> USE DEF Init
<1>1. /\ PageSize \in Nat \ {0} /\ LastPage \in Nat /\ MaxMappedPages \in Nat \ {0}
      /\ TableSize \in Nat \ {0} /\ ChecksumMod \in Nat \ {0} /\ QUERY_SIZE_POW \in Nat \ {0}
  BY Sizes
<1>2. InitPos \in Position /\ XPOS(InitPos) = 0
  BY <1>1 DEF InitPos, Position, PageOrNull, XPOS
<1>3. gen \in Generator
  <2>1. [low |-> 0, high |-> 0] \in CheckSum
    BY <1>1 DEF CheckSum
  <2>2. gen.cksums \in Seq(CheckSum) /\ gen.insts \in Seq(Instruction)
    BY DEF NewGen
  <2>3. QED
    BY <1>1, <1>2, <2>1 DEF NewGen, Generator
<1>4. match \in Matches
  BY DEF NoMatch, Matches
<1>5. FileOf(in, FALSE) /\ in.data = job.target /\ Idle(in) /\ InTurn(in) /\ in.md5_page = 0
  <2>1. AFile(job.target)
    BY DEF AFile
  <2>2. QED
    BY <2>1, OpenedFacts
<1>6. FileOf(from, TRUE) /\ from.data = job.source /\ Idle(from) /\ InTurn(from) /\ from.md5_page = 0
  <2>1. AFile(job.source)
    BY DEF AFile
  <2>2. QED
    BY <2>1, OpenedFacts
<1>7. out \in Written /\ out.bytes = <<>> /\ out.file = <<>> /\ out.status = "ok"
  <2> DEFINE o == WriteHandle(job.writes)
  <2>1. job.writes \in Nat
    BY JobFacts
  <2>2. o \in Written /\ o.bytes = <<>> /\ ~o.reset /\ o.hashed = <<>> /\ o.file = <<>> /\ o.status = "ok"
    BY <2>1, WriteHandleFacts
  <2>3. out = HandleClose(o)
    OBVIOUS
  <2> HIDE DEF o
  <2>4. QED
    BY <2>2, <2>3, CloseFacts DEF Since
<1>8. Built(gen, out)
  <2>1. gen.insts = <<>> /\ gen.used = {} /\ gen.to_output_pos = 0 /\ gen.data_output_pos = 0
        /\ gen.position[1] = 0
    BY DEF NewGen
  <2>2. QED
    BY <1>3, <1>7, <2>1, NothingBuilt
<1>9. Runs /\ Fresh(out)
  BY <1>5, <1>6, <1>7 DEF Runs, Fresh
<1>10. Typed
  BY <1>3, <1>4, <1>5, <1>6, <1>7 DEF Typed, Generating
<1>11. gen.xpos = InitPos /\ gen.ypos = InitPos /\ gen.page = 0 /\ gen.cksums = <<>> /\ gen.ok /\ gen.to_output_pos = 0
  BY DEF NewGen
<1>12. pc \in {"sums", "just"} /\ job \in Inputs
  OBVIOUS
<1> HIDE DEF Init
<1>13. CASE pc = "sums"
  <2>1. PagesOf(from) \in Nat
    BY <1>6, <1>12, PagesThere DEF AFile
  <2>2. Len(gen.cksums) * QUERY_SIZE_POW = 0 /\ gen.page * PageSize = 0
    BY <1>1, <1>11
  <2>3. SumsSoFar
    BY <1>5, <1>6, <1>11, <2>1, <2>2 DEF SumsSoFar
  <2>4. QED
    BY <1>8, <1>9, <1>10, <1>13, <2>3 DEF XInv, Scanning, Generating
<1>14. CASE pc = "just"
  <2>1. InitPos.mem_page = Null /\ InitPos.page = 0 /\ InitPos.off = 0
    BY DEF InitPos
  <2>2. UsedBy(in, Null) /\ UsedBy(from, Null)
    BY <1>5, <1>6, PageFacts DEF UsedBy, Idle
  <2>3. gen.xpos.off < PageSize /\ XPOS(gen.xpos) = gen.to_output_pos /\ gen.xpos.page <= in.md5_page
    BY <1>1, <1>2, <1>5, <1>11, <2>1, SMT
  <2>4. Resting
    BY <1>7, <1>11, <2>1, <2>2, <2>3 DEF Resting
  <2>5. QED
    BY <1>8, <1>9, <1>10, <1>14, <2>4 DEF XInv, Scanning, Generating
<1>15. QED
  BY <1>12, <1>13, <1>14

\* What is put out does not depend on the positions and the sums.
SameOutput(h, g) ==
  /\ h.insts = g.insts /\ h.used = g.used /\ h.to_output_pos = g.to_output_pos
  /\ h.data_output_pos = g.data_output_pos /\ h.sequential = g.sequential /\ h.position = g.position

\* What is built stays while the positions move.
LEMMA BuiltStays ==
  ASSUME NEW g, NEW h, NEW o, SameOutput(h, g), Built(g, o)
  PROVE  Built(h, o)
<1>1. Ordered(h)
  BY DEF Built, Ordered, SameOutput
<1>2. Parted(h)
  BY DEF Built, Parted, SameOutput
<1>3. Wrote(h, o)
  BY DEF Built, Wrote, SameOutput
<1>4. QED
  BY <1>1, <1>2, <1>3 DEF Built

\* The blocks of a page are summed up.
Blocks(h, page, n) ==
  [j \in 1 .. n |-> InitQueryChecksum(h, [InitPos EXCEPT !.mem_page = page], (j - 1) * QUERY_SIZE_POW)]

\* The checksums of the blocks of a page.
LEMMA BlocksFacts ==
  ASSUME NEW h, h.data \in Seq(Byte), NEW page \in Nat, NEW n \in Nat
  PROVE  Blocks(h, page, n) \in Seq(CheckSum) /\ Len(Blocks(h, page, n)) = n
<1> DEFINE p == [InitPos EXCEPT !.mem_page = page]
           blocks == [j \in 1 .. n |-> InitQueryChecksum(h, p, (j - 1) * QUERY_SIZE_POW)]
<1>1. p.mem_page \in Nat
  BY DEF InitPos
<1>2. Blocks(h, page, n) = blocks
  BY DEF Blocks
<1>3. \A j \in 1 .. n : InitQueryChecksum(h, p, (j - 1) * QUERY_SIZE_POW) \in CheckSum
  <2> HIDE DEF p
  <2>1. SUFFICES ASSUME NEW j \in 1 .. n
                 PROVE  InitQueryChecksum(h, p, (j - 1) * QUERY_SIZE_POW) \in CheckSum
    OBVIOUS
  <2>2. j - 1 \in Nat /\ QUERY_SIZE_POW \in Nat \ {0}
    BY Sizes
  <2>3. (j - 1) * QUERY_SIZE_POW \in Nat
    BY <2>2, BlockStarts
  <2>4. QED
    BY <1>1, <2>3, SumFacts
<1> HIDE DEF p
<1>4. blocks \in Seq(CheckSum) /\ Len(blocks) = n
  BY <1>3
<1> HIDE DEF blocks
<1>5. QED
  BY <1>2, <1>4

\* generate_checksums, a page further.
LEMMA SumPageStep ==
  ASSUME XInv, SumPage
  PROVE  XInv'
<1>1. /\ job \in Inputs /\ gen \in Generator /\ match \in Matches /\ out \in Written
      /\ FileOf(in, FALSE) /\ FileOf(from, TRUE) /\ in.data = job.target
  BY DEF XInv, Typed
<1>2. pc = "sums" /\ Runs /\ Built(gen, out) /\ Fresh(out) /\ SumsSoFar
  BY DEF XInv, SumPage, Generating, Scanning
<1> DEFINE p == gen.page
           mapped == MapPage(from, p, job.verify)
           h == UnmapPage(mapped, p)
           n == OnPage(from, p) \div QUERY_SIZE_POW
           cksums == gen.cksums \o Blocks(mapped, p, n)
           table == Table(cksums)
<1>3. /\ PageSize \in Nat \ {0} /\ QUERY_SIZE_POW \in Nat \ {0} /\ PageSize % QUERY_SIZE_POW = 0
  BY Sizes
<1>4. from.data = job.source /\ from.md5_page = p /\ p <= PagesOf(from) /\ Idle(from) /\ InTurn(from)
  BY <1>2 DEF Runs, SumsSoFar
<1>5. p \in Nat
  BY <1>1 DEF Generator
<1>6. p \in PageNumbers /\ PagesOf(from) \in Nat /\ from.data \in Seq(Byte)
  BY <1>1, <1>4, PagesThere DEF AFile
<1>7. MapsPage(mapped, from, TRUE, p)
  BY <1>1, <1>4, <1>6, MapFile
<1>8. ~from.buffer[p]
  BY <1>4, <1>5, <1>6 DEF InTurn
<1>9. /\ mapped.status = "ok" /\ FileOf(mapped, TRUE) /\ mapped.data = from.data /\ UsedBy(mapped, p)
      /\ mapped.md5_page = p + 1 /\ Listed(mapped) \subseteq Listed(from) \cup {p}
  BY <1>4, <1>7, <1>8 DEF MapsPage
<1>10. /\ h.status = "ok" /\ FileOf(h, TRUE) /\ h.data = from.data /\ Idle(h) /\ h.md5_page = p + 1
       /\ Listed(h) \subseteq Listed(from) \cup {p}
  <2> HIDE DEF mapped
  <2>1. UnmapsPage(h, mapped, TRUE, p)
    BY <1>6, <1>9, UnmapFile
  <2>2. QED
    BY <1>9, <2>1 DEF UnmapsPage
<1>11. InTurn(h)
  <2>1. SUFFICES ASSUME NEW q \in PageNumbers, h.buffer[q] PROVE q < h.md5_page
    BY DEF InTurn
  <2>2. q \in Listed(from) \cup {p}
    BY <1>10, <2>1 DEF Listed
  <2>3. q = p \/ q < from.md5_page
    BY <1>4, <2>2 DEF InTurn, Listed
  <2>4. QED
    BY <1>4, <1>5, <1>10, <2>1, <2>3, PageFacts
<1>12. /\ from' = h
       /\ gen' = [gen EXCEPT !.page = p + 1, !.cksums = cksums, !.table = table]
       /\ pc' = (IF p + 1 > PagesOf(from) THEN "scan" ELSE "sums")
       /\ job' = job /\ in' = in /\ out' = out /\ match' = match /\ exit' = exit
  <2>1. ~(mapped.status # "ok" \/ h.status # "ok")
    BY <1>9, <1>10
  <2>2. QED
    BY <2>1 DEF SumPage, Blocks
<1>13. OnPage(from, p) \in Nat /\ n \in Nat
  <2> HIDE DEF p
  <2>1. /\ p = PagesOf(from) => OnPage(from, p) \in 0 .. PageSize - 1
        /\ p < PagesOf(from) => OnPage(from, p) = PageSize
    BY <1>5, <1>6, PageBounds
  <2>2. OnPage(from, p) \in Nat
    BY <1>3, <1>4, <1>5, <1>6, <2>1
  <2>3. QED
    BY <1>3, <2>2, Division
<1> HIDE DEF mapped, h, n
<1>14. cksums \in Seq(CheckSum) /\ Len(cksums) = Len(gen.cksums) + n
  <2>1. mapped.data \in Seq(Byte) /\ gen.cksums \in Seq(CheckSum)
    BY <1>1, <1>6, <1>9 DEF Generator
  <2>2. cksums = gen.cksums \o Blocks(mapped, p, n)
    OBVIOUS
  <2>3. Blocks(mapped, p, n) \in Seq(CheckSum) /\ Len(Blocks(mapped, p, n)) = n
    BY <1>5, <1>13, <2>1, BlocksFacts
  <2>4. OneAfter(cksums, gen.cksums, Blocks(mapped, p, n), CheckSum)
    BY <2>1, <2>2, <2>3, Joined
  <2>5. QED
    BY <2>3, <2>4 DEF OneAfter
<1> HIDE DEF cksums
<1>15. /\ table \in [0 .. TableSize - 1 -> Nat \cup {Null}]
       /\ \A i \in 0 .. TableSize - 1 : table[i] # Null => table[i] \in Nat /\ table[i] + 1 <= Len(cksums)
  BY <1>14, TableFacts
<1> HIDE DEF table
<1>16. gen' \in Generator /\ SameOutput(gen', gen) /\ gen'.page = p + 1 /\ gen'.cksums = cksums
       /\ gen'.table = table /\ gen'.xpos = gen.xpos /\ gen'.ypos = gen.ypos /\ gen'.ok = gen.ok
  <2> HIDE DEF p
  <2>1. p + 1 \in Nat
    BY <1>5
  <2>2. gen' \in Generator
    BY <1>1, <1>12, <1>14, <1>15, <2>1 DEF Generator
  <2>3. QED
    BY <1>1, <1>12, <2>2 DEF Generator, SameOutput
<1>17. Typed' /\ Runs' /\ Built(gen, out)' /\ Fresh(out)'
  <2>1. Typed'
    BY <1>1, <1>10, <1>12, <1>16 DEF Typed, FileOf, Generating, Scanning
  <2>2. Runs'
    BY <1>2, <1>4, <1>10, <1>11, <1>12 DEF Runs, InTurn
  <2>3. Built(gen', out')
    BY <1>2, <1>12, <1>16, BuiltStays
  <2>4. QED
    BY <1>2, <1>12, <2>1, <2>2, <2>3, SameJob DEF Fresh
<1>18. Len(gen.cksums) * QUERY_SIZE_POW = p * PageSize
  BY <1>2 DEF SumsSoFar
<1>19. Len(cksums) * QUERY_SIZE_POW = p * PageSize + n * QUERY_SIZE_POW
  <2>1. Len(gen.cksums) \in Nat
    BY <1>1 DEF Generator
  <2>2. QED
    BY <1>3, <1>13, <1>14, <1>18, <2>1, Multiples
<1>20. n * QUERY_SIZE_POW <= OnPage(from, p) /\ n * QUERY_SIZE_POW \in Nat
       /\ (OnPage(from, p) = PageSize => n * QUERY_SIZE_POW = PageSize)
  <2>1. n = OnPage(from, p) \div QUERY_SIZE_POW
    BY DEF n
  <2>2. /\ OnPage(from, p) % QUERY_SIZE_POW \in 0 .. QUERY_SIZE_POW - 1
        /\ OnPage(from, p) = n * QUERY_SIZE_POW + (OnPage(from, p) % QUERY_SIZE_POW)
    BY <1>3, <1>13, <2>1, Division
  <2>3. n * QUERY_SIZE_POW \in Nat
    BY <1>3, <1>13, BlockStarts
  <2>4. QED
    BY <1>3, <1>13, <2>2, <2>3
<1>21. gen.xpos = InitPos /\ gen.ypos = InitPos /\ Idle(in) /\ gen.to_output_pos = 0 /\ gen.ok
  BY <1>2 DEF SumsSoFar
<1>22. p * PageSize \in Nat /\ (p + 1) * PageSize = p * PageSize + PageSize
  BY <1>3, <1>5, BlockStarts
<1>23. CASE p + 1 > PagesOf(from)
  <2>1. pc' = "scan"
    BY <1>12, <1>23
  <2>2. p = PagesOf(from)
    BY <1>4, <1>5, <1>6, <1>23
  <2>3. Len(cksums) * QUERY_SIZE_POW <= Len(from.data)
    <3>1. OnPage(from, p) \in 0 .. PageSize - 1 /\ p * PageSize + OnPage(from, p) = Len(from.data)
      BY <1>5, <1>6, <2>2, PageBounds
    <3>2. QED
      BY <1>13, <1>19, <1>20, <1>22, <3>1
  <2>4. TableHolds'
    BY <1>4, <1>12, <1>15, <1>16, <2>3 DEF TableHolds, FromLength
  <2>5. Digested(h) /\ PagesOf(h) = PagesOf(from)
    BY <1>5, <1>10, <2>2 DEF Digested, PagesOf
  <2>6. InitPos.page = 0 /\ InitPos.off = 0 /\ InitPos.mem_page = Null /\ XPOS(InitPos) = 0
    BY <1>3 DEF InitPos, XPOS
  <2>7. in.md5_page \in Nat
    BY <1>1 DEF FileOf, Handles
  <2>8. Scans'
    BY <1>10, <1>12, <1>16, <1>21, <2>4, <2>5, <2>6, <2>7, PageFacts DEF Scans, Idle, UsedBy
  <2>9. OnLastPage(gen.xpos)'
    <3>1. EndsOn(InitPos, 0)
      BY <1>1, <1>3, <2>6, JobFacts DEF EndsOn
    <3>2. gen'.xpos = InitPos /\ gen'.to_output_pos = 0
      BY <1>16, <1>21 DEF SameOutput
    <3>3. QED
      BY <1>12, <3>1, <3>2, SameJob
  <2>10. QED
    BY <1>17, <2>1, <2>8, <2>9 DEF XInv, Scanning, Generating
<1>24. CASE ~(p + 1 > PagesOf(from))
  <2>1. pc' = "sums"
    BY <1>12, <1>24
  <2>2. p < PagesOf(from) /\ p + 1 <= PagesOf(from) /\ PagesOf(h) = PagesOf(from)
    BY <1>5, <1>6, <1>10, <1>24 DEF PagesOf
  <2>3. OnPage(from, p) = PageSize
    BY <1>5, <1>6, <2>2, PageBounds
  <2>4. Len(cksums) * QUERY_SIZE_POW = (p + 1) * PageSize
    BY <1>19, <1>20, <1>22, <2>3
  <2>5. SumsSoFar'
    BY <1>10, <1>12, <1>16, <1>21, <2>2, <2>4 DEF SumsSoFar, SameOutput, Idle
  <2>6. QED
    BY <1>17, <2>1, <2>5 DEF XInv, Scanning, Generating
<1>25. QED
  BY <1>23, <1>24

\* A command that fails after a write has failed.
LEMMA StopsHolds ==
  ASSUME Typed, exit.delta = "runs", exit.patch = "waits", out.status # "ok", Stops("2"),
         exit = [delta |-> "runs", patch |-> "waits"]
  PROVE  XInv'
<1>1. /\ exit' = [delta |-> "2", patch |-> "waits"] /\ pc' = "ended"
      /\ job' = job /\ in' = in /\ from' = from /\ out' = out /\ gen' = gen /\ match' = match
      /\ cont' = cont
  BY DEF Stops, Ends
<1>2. Typed'
  BY <1>1 DEF Typed, FileOf
<1>3. Finished'
  BY <1>1 DEF Finished
<1>4. QED
  BY <1>1, <1>2, <1>3 DEF XInv, Scanning, Generating

\* A failed write ends the command.
LEMMA WriteFailsStep ==
  ASSUME XInv, WriteFails
  PROVE  XInv'
<1>1. Runs /\ Typed
  BY DEF XInv, WriteFails, Generating, Scanning
<1>2. QED
  BY <1>1, StopsHolds DEF WriteFails, Runs

\* The bytes that are inserted are those of the target.
LEMMA InsertedFrom ==
  ASSUME job \in Inputs, NEW g \in Generator, NEW o \in Written, Built(g, o), Fresh(o),
         NEW h, h.data = Target, NEW x, NEW len \in Nat,
         len > 0 => /\ x.mem_page \in Nat /\ x.mem_page * PageSize <= g.to_output_pos
                    /\ g.to_output_pos + len <= x.mem_page * PageSize + OnPage(h, x.mem_page),
         NEW o2, o2 = InsertWrite(g, o, h, x, len), NEW f, f = Inserted(g, len)
  PROVE  InsertHolds(f, o2, g, o, len)
<1>1. g.to_output_pos \in Nat
  BY DEF Generator
<1>2. CASE len = 0
  <2>1. f = g /\ o2 = o
    BY <1>2 DEF InsertWrite, Inserted
  <2>2. SamePlace(g, g) /\ g.to_output_pos + 0 = g.to_output_pos
    BY <1>1 DEF SamePlace
  <2>3. QED
    BY <1>2, <2>1, <2>2 DEF InsertHolds
<1>3. CASE len > 0
  <2> DEFINE T == g.to_output_pos
             m == x.mem_page
             bytes == InsertBytes(g, h, x, len)
             r == T - m * PageSize
  <2>1. h.data \in Seq(Byte) /\ Target = h.data /\ PageSize \in Nat \ {0} /\ m \in Nat /\ len \in Nat \ {0}
    BY <1>3, JobFacts, Sizes
  <2>2. m * PageSize \in Nat /\ r \in Nat
    BY <1>1, <2>1, BlockStarts
  <2>3. OnPage(h, m) \in Int /\ (OnPage(h, m) = -1 \/ (OnPage(h, m) <= PageSize /\ m * PageSize + OnPage(h, m) <= Len(h.data)))
    <3>1. /\ PagesOf(h) \in Nat /\ OnPage(h, m) \in Int
          /\ m > PagesOf(h) => OnPage(h, m) = -1
          /\ m = PagesOf(h) => OnPage(h, m) \in 0 .. PageSize - 1 /\ m * PageSize + OnPage(h, m) = Len(h.data)
          /\ m < PagesOf(h) => OnPage(h, m) = PageSize /\ m * PageSize + PageSize <= Len(h.data)
      BY <2>1, PageBounds
    <3>2. QED
      BY <2>1, <2>2, <3>1
  <2>4. T + len <= m * PageSize + OnPage(h, m) /\ m * PageSize <= T
    BY <1>3
  <2>5. r + len <= OnPage(h, m) /\ r + len <= PageSize /\ T + len <= Len(h.data)
    <3> HIDE DEF T, m
    <3>1. T \in Nat
      BY <1>1 DEF T
    <3>2. QED
      BY <2>1, <2>2, <2>3, <2>4, <3>1
  <2>6. T % PageSize = r
    <3>1. r \in 0 .. PageSize - 1 /\ T = m * PageSize + r
      BY <1>1, <2>1, <2>2, <2>5, SMTT(40)
    <3>2. T \in Nat
      BY <1>1
    <3> HIDE DEF r, T, m
    <3>3. QED
      BY <2>1, <3>1, <3>2, PlaceIs
  <2>7. ASSUME NEW i \in 1 .. len
        PROVE  ByteAt(h, x, r + i - 1) \in Bytes /\ ByteAt(h, x, r + i - 1) = Target[T + i]
    <3>1. r + i - 1 \in Nat /\ r + i - 1 < OnPage(h, m)
      BY <2>1, <2>2, <2>3, <2>5
    <3>2. ByteAt(h, x, r + i - 1) = h.data[m * PageSize + (r + i - 1) + 1] /\ ByteAt(h, x, r + i - 1) \in Bytes
      BY <2>1, <3>1, ByteFacts
    <3>3. m * PageSize + (r + i - 1) + 1 = T + i
      BY <1>1, <2>1, <2>2, SMTT(40)
    <3>4. QED
      BY <2>1, <3>2, <3>3
  <2>8. bytes = [i \in 1 .. len |-> ByteAt(h, x, r + i - 1)]
    BY <2>6 DEF InsertBytes
  <2> HIDE DEF r, T, bytes
  <2>9. bytes \in Seq(Bytes) /\ Len(bytes) = len /\ \A i \in 1 .. len : bytes[i] = Target[T + i]
    <3>1. bytes \in [1 .. len -> Bytes]
      BY <2>7, <2>8
    <3>2. bytes \in Seq(Bytes) /\ Len(bytes) = len
      BY <2>1, <3>1
    <3>3. \A i \in 1 .. len : bytes[i] = Target[T + i]
      BY <2>7, <2>8
    <3>4. QED
      BY <3>2, <3>3
  <2>10. o2 = HandleWrite(o, bytes, job.verify)
    BY <2>1 DEF InsertWrite, bytes
  <2>11. T + len <= InLength
    BY <2>1, <2>5 DEF InLength
  <2>12. QED
    BY <2>1, <2>9, <2>10, <2>11, InsertBuilt DEF T
<1>4. QED
  BY <1>2, <1>3

\* The position of the rest is where what is put out ends.
RestAt(f, g) ==
  /\ f \in Generator /\ SameOutput(f, g) /\ f.ypos = g.ypos /\ f.ok = g.ok
  /\ f.xpos.page = g.xpos.page /\ f.xpos.mem_page = g.xpos.mem_page /\ f.xpos.off < PageSize
  /\ XPOS(f.xpos) = f.to_output_pos

\* The position where what follows the last match begins.
LEMMA RestFacts ==
  ASSUME job \in Inputs, NEW g \in Generator, EndsOn(g.xpos, g.to_output_pos), NEW f, f = Rest(g)
  PROVE  RestAt(f, g)
<1> DEFINE r == g.to_output_pos % PageSize
           x == [g.xpos EXCEPT !.off = r]
<1>1. PageSize \in Nat \ {0} /\ g.to_output_pos \in Nat /\ g.xpos \in Position
  BY Sizes DEF Generator
<1>2. r \in Nat /\ r \in 0 .. PageSize - 1
  BY <1>1, Division
<1>3. x \in Position /\ x.page = g.xpos.page /\ x.mem_page = g.xpos.mem_page /\ x.off = r
  <2> HIDE DEF r
  <2>1. QED
    BY <1>1, <1>2 DEF Position
<1>4. g.xpos.page * PageSize + r = g.to_output_pos
  <2>1. g.xpos.page \in Nat /\ g.xpos.off \in Nat
    BY <1>1 DEF Position
  <2>2. g.xpos.page * PageSize \in Nat
    BY <1>1, <2>1, BlockStarts
  <2>3. /\ g.xpos.off < PageSize /\ g.xpos.page * PageSize <= g.to_output_pos
        /\ g.to_output_pos <= g.xpos.page * PageSize + g.xpos.off
    BY DEF EndsOn, XPOS
  <2>4. PICK d : d = g.to_output_pos - g.xpos.page * PageSize
    OBVIOUS
  <2>5. d \in 0 .. PageSize - 1 /\ g.to_output_pos = g.xpos.page * PageSize + d
    BY <1>1, <2>1, <2>2, <2>3, <2>4
  <2>6. r = d
    BY <1>1, <2>1, <2>5, PlaceIs
  <2>7. QED
    BY <2>5, <2>6
<1>5. f = [g EXCEPT !.xpos = x]
  BY <1>1 DEF Rest, Generator
<1> HIDE DEF x, r
<1>6. f \in Generator /\ f.xpos = x /\ SameOutput(f, g) /\ f.ypos = g.ypos /\ f.ok = g.ok
  BY <1>3, <1>5 DEF Generator, SameOutput
<1>7. f.xpos.off < PageSize /\ XPOS(f.xpos) = f.to_output_pos
  BY <1>1, <1>2, <1>3, <1>4, <1>6 DEF SameOutput, XPOS
<1>8. QED
  BY <1>3, <1>6, <1>7 DEF RestAt

\* The loop for the rest begins where what is put out ends.
LEMMA RestBegins ==
  ASSUME Typed, Runs, Built(gen, out), Fresh(out), NEW g \in Generator, SameOutput(g, gen), g.ok,
         UsedBy(in, g.xpos.mem_page), UsedBy(from, g.ypos.mem_page), Digested(from),
         g.xpos.page <= in.md5_page, EndsOn(g.xpos, g.to_output_pos),
         gen' = Rest(g), pc' = "rest", out' = out, out.status = "ok",
         UNCHANGED <<job, in, from, match, cont, exit>>
  PROVE  XInv'
<1>1. /\ job' = job /\ in' = in /\ from' = from /\ match' = match /\ exit' = exit /\ job \in Inputs
      /\ match \in Matches /\ out \in Written /\ FileOf(in, FALSE) /\ FileOf(from, TRUE) /\ in.data = job.target
  BY DEF Typed
<1>2. RestAt(gen', g)
  BY <1>1, RestFacts
<1>3. /\ gen' \in Generator /\ SameOutput(gen', gen) /\ gen'.ypos = g.ypos /\ gen'.ok
      /\ gen'.xpos.page = g.xpos.page /\ gen'.xpos.mem_page = g.xpos.mem_page
      /\ gen'.xpos.off < PageSize /\ XPOS(gen'.xpos) = gen'.to_output_pos
  BY <1>2 DEF RestAt, SameOutput
<1>4. Typed'
  BY <1>1, <1>3 DEF Typed, FileOf, Generating, Scanning
<1>5. Runs' /\ Fresh(out)'
  BY <1>1 DEF Runs, InTurn, Fresh
<1>6. Built(gen, out)'
  <2>1. Built(gen', out')
    BY <1>3, BuiltStays
  <2>2. QED
    BY <1>1, <2>1, SameJob
<1>7. Resting'
  BY <1>1, <1>3 DEF Resting, UsedBy, Digested, PagesOf, XPOS
<1>8. QED
  BY <1>4, <1>5, <1>6, <1>7 DEF XInv, Scanning, Generating

\* No window is left.
LEMMA ScanEndsStep ==
  ASSUME XInv, ScanEnds
  PROVE  XInv'
<1>1. Typed /\ Runs /\ Built(gen, out) /\ Fresh(out) /\ Scans /\ OnLastPage(gen.xpos)
  BY DEF XInv, ScanEnds, Generating, Scanning
<1>2. out.status = "ok" /\ gen' = Rest(gen) /\ pc' = "rest" /\ out' = out /\ UNCHANGED <<job, in, from, match, cont, exit>>
  BY DEF ScanEnds
<1>3. gen \in Generator /\ SameOutput(gen, gen)
  BY <1>1 DEF Typed, SameOutput
<1>4. QED
  BY <1>1, <1>2, <1>3, RestBegins DEF Scans, OnLastPage

\* A position on a page that is mapped: its page is in the digest.
LEMMA UsedFacts ==
  ASSUME NEW h, NEW seek, FileOf(h, seek), NEW p \in PageNumbers, UsedBy(h, p)
  PROVE  /\ h.refs[p] = 1 /\ h.buffer[p]
         /\ InTurn(h) => p < h.md5_page
         /\ p \in Nat
<1>1. h.refs[p] = 1
  BY DEF UsedBy
<1>2. h.buffer[p]
  BY <1>1 DEF FileOf, Sound
<1>3. QED
  BY <1>1, <1>2, PageFacts DEF InTurn

\* A position that moves.
PlacedAt(y, page, off, mem_page) ==
  y \in Position /\ y.page = page /\ y.off = off /\ y.mem_page = mem_page

\* A position that is moved.
LEMMA PositionFacts ==
  ASSUME NEW x \in Position, NEW p \in Nat, NEW r \in Nat
  PROVE  /\ PlacedAt([x EXCEPT !.page = p, !.off = r], p, r, x.mem_page)
         /\ PlacedAt([x EXCEPT !.off = r], x.page, r, x.mem_page)
         /\ PlacedAt([x EXCEPT !.off = r, !.page = p], p, r, x.mem_page)
         /\ x.page \in Nat /\ x.off \in Nat /\ x.mem_page \in PageOrNull
         /\ \A m \in PageOrNull : PlacedAt([x EXCEPT !.mem_page = m], x.page, x.off, m)
<1>1. PlacedAt([x EXCEPT !.page = p, !.off = r], p, r, x.mem_page)
  BY DEF PlacedAt, Position
<1>2. PlacedAt([x EXCEPT !.off = r], x.page, r, x.mem_page)
  BY DEF PlacedAt, Position
<1>3. PlacedAt([x EXCEPT !.off = r, !.page = p], p, r, x.mem_page)
  BY DEF PlacedAt, Position
<1>4. x.page \in Nat /\ x.off \in Nat /\ x.mem_page \in PageOrNull
  BY DEF Position
<1>5. ASSUME NEW m \in PageOrNull PROVE PlacedAt([x EXCEPT !.mem_page = m], x.page, x.off, m)
  BY DEF PlacedAt, Position
<1>6. QED
  BY <1>1, <1>2, <1>3, <1>4, <1>5

\* A window of the loop, at the positions of g.
InWindow(g) ==
  /\ SameOutput(g, gen) /\ g.ok /\ g.cksums = gen.cksums /\ g.table = gen.table
  /\ UsedBy(in, g.xpos.mem_page) /\ UsedBy(from, g.ypos.mem_page)
  /\ g.xpos.page <= in.md5_page
  /\ EndsOn(g.xpos, g.to_output_pos) /\ g.xpos.mem_page = g.xpos.page

\* nextpage: what the page holds is inserted, and the position leaves it.
LEMMA NextPageStep ==
  ASSUME Typed, Runs, out.status = "ok", Built(gen, out), Fresh(out), Digested(from), TableHolds,
         NEW g \in Generator, InWindow(g), NextPage(g), UNCHANGED <<job, in, from, match, cont, exit>>
  PROVE  XInv'
<1>1. /\ job' = job /\ in' = in /\ from' = from /\ match' = match /\ exit' = exit /\ job \in Inputs
      /\ match \in Matches /\ out \in Written /\ FileOf(in, FALSE) /\ FileOf(from, TRUE) /\ in.data = job.target
  BY DEF Typed
<1>2. CASE Rem(in, g.xpos) < PageSize
  <2>1. gen' = Rest(g) /\ pc' = "rest" /\ out' = out
    BY <1>2 DEF NextPage
  <2>2. QED
    BY <2>1, RestBegins DEF InWindow
<1>3. CASE ~(Rem(in, g.xpos) < PageSize)
  <2> DEFINE p == g.xpos.page
             T == g.to_output_pos
             x == [g.xpos EXCEPT !.page = @ + 1, !.off = 0]
             len == XPOS(x) - T
             f == Inserted(g, len)
             o == InsertWrite(g, out, in, x, len)
  <2>1. gen' = [f EXCEPT !.xpos = x] /\ out' = o /\ pc' = "scan"
    BY <1>3 DEF NextPage
  <2>2. g.xpos \in Position /\ PageSize \in Nat \ {0} /\ T \in Nat /\ p \in Nat /\ g.xpos.off \in Nat
        /\ g.xpos.mem_page = p /\ p \in PageNumbers
    <3>1. g.xpos \in Position /\ PageSize \in Nat \ {0} /\ T \in Nat
      BY Sizes DEF Generator
    <3>2. p \in Nat /\ g.xpos.off \in Nat /\ g.xpos.mem_page = p /\ p \in PageOrNull
      BY <3>1 DEF Position, InWindow
    <3>3. QED
      BY <3>1, <3>2 DEF PageOrNull, Null
  <2>3. /\ x \in Position /\ x.page = p + 1 /\ x.off = 0 /\ x.mem_page = p
    <3>1. x = [g.xpos EXCEPT !.page = p + 1, !.off = 0] /\ p + 1 \in Nat /\ 0 \in Nat
      BY <2>2
    <3>2. PlacedAt(x, p + 1, 0, g.xpos.mem_page)
      BY <2>2, <3>1, PositionFacts
    <3>3. QED
      BY <2>2, <3>2 DEF PlacedAt
  <2>4. in.data \in Seq(Byte) /\ PagesOf(in) \in Nat
    BY <1>1, PagesThere DEF AFile
  <2>5. p < PagesOf(in) /\ OnPage(in, p) = PageSize /\ p * PageSize + PageSize <= Len(in.data)
    <3>1. ~(OnPage(in, p) < PageSize)
      BY <1>3 DEF Rem
    <3>2. /\ p > PagesOf(in) => OnPage(in, p) = -1
          /\ p = PagesOf(in) => OnPage(in, p) \in 0 .. PageSize - 1
          /\ p < PagesOf(in) => OnPage(in, p) = PageSize /\ p * PageSize + PageSize <= Len(in.data)
      BY <2>2, <2>4, PageBounds
    <3> HIDE DEF p
    <3>3. QED
      BY <2>2, <2>4, <3>1, <3>2
  <2>6. p * PageSize \in Nat /\ (p + 1) * PageSize = p * PageSize + PageSize
    BY <2>2, BlockStarts
  <2>7. XPOS(x) = p * PageSize + PageSize
    BY <2>2, <2>3, <2>6 DEF XPOS
  <2>8. p * PageSize <= T /\ T <= p * PageSize + g.xpos.off /\ g.xpos.off < PageSize
    BY DEF InWindow, EndsOn, XPOS
  <2> HIDE DEF x
  <2>9. len \in Nat /\ len > 0 /\ T + len = p * PageSize + PageSize
    <3> HIDE DEF p, T
    <3>1. QED
      BY <2>2, <2>6, <2>7, <2>8
  <2>10. Built(g, out)
    BY BuiltStays DEF InWindow
  <2>11. InsertHolds(f, o, g, out, len)
    <3>1. in.data = Target /\ x.mem_page \in Nat /\ x.mem_page * PageSize <= g.to_output_pos
          /\ g.to_output_pos + len <= x.mem_page * PageSize + OnPage(in, x.mem_page)
      BY <1>1, <2>2, <2>3, <2>5, <2>6, <2>8, <2>9 DEF Target
    <3>2. f = Inserted(g, len) /\ o = InsertWrite(g, out, in, x, len)
      OBVIOUS
    <3> HIDE DEF f, o, len
    <3>3. QED
      BY <1>1, <2>9, <2>10, <3>1, <3>2, InsertedFrom
  <2>12. /\ f \in Generator /\ SamePlace(f, g) /\ o \in Written /\ f.to_output_pos = T + len
         /\ Built(f, o) /\ Fresh(o)
    BY <2>11 DEF InsertHolds
  <2> HIDE DEF f, o
  <2>13. /\ gen' \in Generator /\ SameOutput(gen', f) /\ gen'.xpos = x /\ gen'.ypos = g.ypos
         /\ gen'.ok = g.ok /\ gen'.cksums = g.cksums /\ gen'.table = g.table
    BY <2>1, <2>3, <2>12 DEF Generator, SameOutput, SamePlace
  <2>14. Typed'
    BY <1>1, <2>1, <2>12, <2>13 DEF Typed, FileOf, Generating, Scanning
  <2>15. Runs' /\ Fresh(out)'
    BY <1>1, <2>1, <2>12 DEF Runs, InTurn, Fresh
  <2>16. Built(gen, out)'
    <3>1. Built(gen', out')
      BY <2>1, <2>12, <2>13, BuiltStays
    <3>2. QED
      BY <1>1, <3>1, SameJob
  <2>17. p < in.md5_page /\ in.md5_page \in Nat
    <3>1. InTurn(in) /\ UsedBy(in, p)
      BY <2>2 DEF Runs, InWindow
    <3>2. QED
      <4>1. FileOf(in, FALSE) /\ p \in PageNumbers
        BY <1>1, <2>2
      <4>2. p < in.md5_page
        BY <3>1, <4>1, UsedFacts
      <4>3. in.md5_page \in Nat
        BY <4>1 DEF FileOf, Handles
      <4>4. QED
        BY <4>2, <4>3
  <2>18. Scans'
    <3>1. TableHolds'
      BY <1>1, <2>13 DEF TableHolds, InWindow, FromLength
    <3>2. gen'.xpos.mem_page = g.xpos.mem_page /\ gen'.xpos.page <= in.md5_page
      BY <2>2, <2>3, <2>13, <2>17
    <3>3. QED
      BY <1>1, <2>13, <3>1, <3>2 DEF Scans, InWindow, UsedBy, Digested, PagesOf
  <2>19. OnLastPage(gen.xpos)'
    <3>1. gen'.to_output_pos = p * PageSize + PageSize
      BY <2>9, <2>12, <2>13 DEF SameOutput
    <3>2. EndsOn(x, p * PageSize + PageSize)
      BY <1>1, <2>2, <2>3, <2>5, <2>6, <2>7 DEF EndsOn, InLength, Target
    <3>3. QED
      BY <1>1, <2>13, <3>1, <3>2, SameJob
  <2>20. QED
    BY <2>1, <2>14, <2>15, <2>16, <2>18, <2>19 DEF XInv, Scanning, Generating
<1>4. QED
  BY <1>2, <1>3

\* The window moves on by a byte: the sum is rolled with it.
LEMMA NextOffsetStep ==
  ASSUME Typed, Runs, out.status = "ok", Built(gen, out), Fresh(out), Digested(from), TableHolds,
         NEW g \in Generator, InWindow(g), WindowAt(g.xpos),
         g.sum = InitQueryChecksum(in, g.xpos, g.xpos.off),
         NextOffset(g), UNCHANGED <<job, in, from, match, cont, exit>>
  PROVE  XInv'
<1>1. /\ job' = job /\ in' = in /\ from' = from /\ match' = match /\ exit' = exit /\ job \in Inputs
      /\ match \in Matches /\ out \in Written /\ FileOf(in, FALSE) /\ FileOf(from, TRUE) /\ in.data = job.target
  BY DEF Typed
<1>2. CASE g.xpos.off + QUERY_SIZE_POW >= Rem(in, g.xpos)
  <2>1. NextPage(g)
    BY <1>2 DEF NextOffset
  <2>2. QED
    BY <2>1, NextPageStep
<1>3. CASE ~(g.xpos.off + QUERY_SIZE_POW >= Rem(in, g.xpos))
  <2> DEFINE p == g.xpos.page
             r == g.xpos.off
             x == [g.xpos EXCEPT !.off = r + 1]
             sum == Rolled(g.sum, CHEW(ByteAt(in, g.xpos, r)), CHEW(ByteAt(in, g.xpos, r + QUERY_SIZE_POW)))
  <2>1. g.xpos \in Position /\ p \in Nat /\ r \in Nat /\ g.xpos.mem_page = p /\ PageSize \in Nat \ {0}
        /\ QUERY_SIZE_POW \in Nat \ {0} /\ g.to_output_pos \in Nat
    BY Sizes DEF Generator, Position, InWindow
  <2>2. gen' = [g EXCEPT !.xpos = x, !.sum = sum] /\ out' = out /\ pc' = "roll"
    BY <1>3, <2>1 DEF NextOffset, Generator
  <2>3. /\ x \in Position /\ x.page = p /\ x.off = r + 1 /\ x.mem_page = p
    <3>1. x = [g.xpos EXCEPT !.off = r + 1] /\ r + 1 \in Nat
      BY <2>1
    <3>2. PlacedAt(x, p, r + 1, g.xpos.mem_page)
      BY <2>1, <3>1, PositionFacts
    <3>3. QED
      BY <2>1, <3>2 DEF PlacedAt
  <2> HIDE DEF x
  <2>4. in.data \in Seq(Byte) /\ PagesOf(in) \in Nat
    BY <1>1, PagesThere DEF AFile
  <2>5. sum = InitQueryChecksum(in, x, x.off) /\ sum \in CheckSum
    <3>1. sum = InitQueryChecksum(in, x, r + 1)
      <4>1. in.data \in Seq(Byte) /\ g.xpos.mem_page \in Nat /\ r \in Nat /\ x.mem_page = g.xpos.mem_page
        BY <2>1, <2>3, <2>4
      <4>2. Rolled(InitQueryChecksum(in, g.xpos, r), CHEW(ByteAt(in, g.xpos, r)),
                   CHEW(ByteAt(in, g.xpos, r + QUERY_SIZE_POW)))
              = InitQueryChecksum(in, x, r + 1)
        BY <4>1, RolledIs, ZenonT(40)
      <4>3. QED
        BY <4>2
    <3>2. InitQueryChecksum(in, x, r + 1) \in CheckSum
      BY <2>1, <2>3, <2>4, SumFacts
    <3>3. QED
      BY <2>3, <3>1, <3>2
  <2> HIDE DEF sum
  <2>6. /\ gen' \in Generator /\ SameOutput(gen', g) /\ gen'.xpos = x /\ gen'.ypos = g.ypos
        /\ gen'.ok = g.ok /\ gen'.cksums = g.cksums /\ gen'.table = g.table /\ gen'.sum = sum
    BY <2>2, <2>3, <2>5 DEF Generator, SameOutput
  <2>7. Typed'
    BY <1>1, <2>2, <2>6 DEF Typed, FileOf, Generating, Scanning
  <2>8. Runs' /\ Fresh(out)'
    BY <1>1, <2>2 DEF Runs, InTurn, Fresh
  <2>9. Built(gen, out)'
    <3>1. Built(gen', out')
      <4>1. SameOutput(gen', gen)
        BY <2>6 DEF InWindow, SameOutput
      <4>2. QED
        BY <2>2, <4>1, BuiltStays
    <3>2. QED
      BY <1>1, <3>1, SameJob
  <2>10. Scans'
    <3>1. TableHolds'
      BY <1>1, <2>6 DEF TableHolds, InWindow, FromLength
    <3>2. gen'.xpos.mem_page = g.xpos.mem_page /\ gen'.xpos.page = g.xpos.page
      BY <2>1, <2>3, <2>6
    <3>3. QED
      BY <1>1, <2>6, <3>1, <3>2 DEF Scans, InWindow, UsedBy, Digested, PagesOf
  <2>11. Rem(in, g.xpos) \in Int /\ r + 1 + QUERY_SIZE_POW <= Rem(in, g.xpos)
         /\ Rem(in, g.xpos) <= PageSize /\ p * PageSize + Rem(in, g.xpos) <= Len(in.data)
    <3>1. ~(r + QUERY_SIZE_POW >= OnPage(in, p)) /\ Rem(in, g.xpos) = OnPage(in, p)
      BY <1>3 DEF Rem
    <3>2. /\ OnPage(in, p) \in Int
          /\ p > PagesOf(in) => OnPage(in, p) = -1
          /\ p = PagesOf(in) => OnPage(in, p) \in 0 .. PageSize - 1 /\ p * PageSize + OnPage(in, p) = Len(in.data)
          /\ p < PagesOf(in) => OnPage(in, p) = PageSize /\ p * PageSize + PageSize <= Len(in.data)
      BY <2>1, <2>4, PageBounds
    <3> HIDE DEF p, r
    <3>3. QED
      BY <2>1, <2>4, <3>1, <3>2
  <2>12. OnLastPage(gen.xpos)'
    <3>1. p * PageSize <= g.to_output_pos /\ g.to_output_pos <= p * PageSize + r
      BY DEF InWindow, EndsOn, XPOS
    <3>2. p * PageSize \in Nat
      BY <2>1, BlockStarts
    <3>3. XPOS(x) = p * PageSize + (r + 1)
      BY <2>3 DEF XPOS
    <3>4. x.off < PageSize /\ XPOS(x) <= Len(in.data) /\ x.page * PageSize <= g.to_output_pos
          /\ g.to_output_pos <= XPOS(x)
      <4> HIDE DEF p, r
      <4>1. QED
        BY <2>1, <2>3, <2>11, <3>1, <3>2, <3>3, SMTT(40)
    <3>5. EndsOn(x, g.to_output_pos)
      BY <1>1, <3>4 DEF EndsOn, InLength, Target
    <3>6. QED
      BY <1>1, <2>6, <3>5, SameJob DEF SameOutput
  <2>13. WindowAt(gen.xpos)'
    <3>1. x.off + QUERY_SIZE_POW <= OnPage(in, x.page)
      BY <2>1, <2>3, <2>11 DEF Rem
    <3>2. QED
      BY <1>1, <2>3, <2>6, <3>1 DEF WindowAt, Rem, OnPage, PagesOf
  <2>14. (gen.sum = InitQueryChecksum(in, gen.xpos, gen.xpos.off))'
    BY <1>1, <2>5, <2>6
  <2>15. QED
    BY <1>1, <2>2, <2>7, <2>8, <2>9, <2>10, <2>12, <2>13, <2>14 DEF XInv, Scanning, Generating
<1>4. QED
  BY <1>2, <1>3

\* The page has no whole window left.
LEMMA LeavePageStep ==
  ASSUME XInv, LeavePage
  PROVE  XInv'
<1>1. /\ out.status = "ok" /\ Typed /\ Runs /\ Built(gen, out) /\ Fresh(out) /\ Scans /\ OnLastPage(gen.xpos)
      /\ gen.xpos.mem_page = gen.xpos.page
  BY DEF XInv, LeavePage, Generating, Scanning
<1>2. gen \in Generator /\ InWindow(gen)
  BY <1>1 DEF Typed, InWindow, SameOutput, Scans, OnLastPage
<1>3. QED
  BY <1>1, <1>2, NextPageStep DEF LeavePage, Scans

\* The table has nothing for the window.
LEMMA RollStep ==
  ASSUME XInv, Roll
  PROVE  XInv'
<1>1. /\ out.status = "ok" /\ Typed /\ Runs /\ Built(gen, out) /\ Fresh(out) /\ Scans /\ OnLastPage(gen.xpos)
      /\ WindowAt(gen.xpos) /\ gen.sum = InitQueryChecksum(in, gen.xpos, gen.xpos.off)
  BY DEF XInv, Roll, Generating, Scanning
<1>2. gen \in Generator /\ InWindow(gen)
  BY <1>1 DEF Typed, InWindow, SameOutput, Scans, OnLastPage, WindowAt
<1>3. QED
  BY <1>1, <1>2, NextOffsetStep DEF Roll, Scans

\* Positions are equal in parts.
LEMMA SamePosition ==
  ASSUME NEW x \in Position, NEW y \in Position, x.page = y.page, x.off = y.off, x.mem_page = y.mem_page
  PROVE  x = y
BY DEF Position

\* A place of a file, and the page it is on.
LEMMA PlaceOnPage ==
  ASSUME NEW h, h.data \in Seq(Byte), NEW p \in Nat, NEW r \in 0 .. PageSize - 1
  PROVE  /\ p * PageSize \in Nat /\ PageSize \in Nat \ {0}
         /\ OnPage(h, p) \in Int /\ OnPage(h, p) <= PageSize
         /\ p * PageSize + r <= Len(h.data) => p <= PagesOf(h)
         /\ p <= PagesOf(h) => OnPage(h, p) \in Nat /\ p * PageSize + OnPage(h, p) <= Len(h.data)
         /\ p <= PagesOf(h) /\ OnPage(h, p) < PageSize => p * PageSize + OnPage(h, p) = Len(h.data)
         /\ p * PageSize + r < Len(h.data) => r < OnPage(h, p)
         /\ r < OnPage(h, p) => p <= PagesOf(h) /\ p * PageSize + r < Len(h.data)
<1>1. /\ PagesOf(h) \in Nat /\ Len(h.data) \in Nat /\ PageSize \in Nat \ {0} /\ OnPage(h, p) \in Int
      /\ PagesOf(h) * PageSize <= Len(h.data) /\ Len(h.data) < (PagesOf(h) + 1) * PageSize
      /\ p > PagesOf(h) => OnPage(h, p) = -1
      /\ p = PagesOf(h) => OnPage(h, p) \in 0 .. PageSize - 1 /\ p * PageSize + OnPage(h, p) = Len(h.data)
      /\ p < PagesOf(h) => OnPage(h, p) = PageSize /\ p * PageSize + PageSize <= Len(h.data)
  BY PageBounds
<1>2. p * PageSize \in Nat /\ PagesOf(h) + 1 \in Nat /\ (PagesOf(h) + 1) * PageSize \in Nat
  BY <1>1, BlockStarts
<1>3. p > PagesOf(h) => (PagesOf(h) + 1) * PageSize <= p * PageSize
  <2>1. p > PagesOf(h) => PagesOf(h) + 1 <= p
    BY <1>1
  <2>2. QED
    BY <1>1, <1>2, <2>1, BlockStarts
<1>4. PICK s, e, n, m : s = p * PageSize /\ e = (PagesOf(h) + 1) * PageSize /\ n = OnPage(h, p) /\ m = PagesOf(h)
  OBVIOUS
<1>5. CASE p > m
  <2>1. n = -1 /\ e <= s /\ Len(h.data) < e /\ s \in Nat /\ e \in Nat
    BY <1>1, <1>2, <1>3, <1>4, <1>5
  <2>2. ~(p <= m) /\ ~(s + r <= Len(h.data)) /\ ~(s + r < Len(h.data)) /\ ~(r < n) /\ n \in Int /\ n <= PageSize
    BY <1>1, <1>4, <1>5, <2>1
  <2>3. QED
    BY <1>1, <1>2, <1>4, <2>2
<1>6. CASE p = m
  <2>1. n \in 0 .. PageSize - 1 /\ s + n = Len(h.data) /\ s \in Nat
    BY <1>1, <1>2, <1>4, <1>6
  <2>2. n \in Nat /\ n <= PageSize /\ p <= m
    <3>1. PageSize \in Nat
      BY <1>1
    <3>2. QED
      BY <1>6, <2>1, <3>1
  <2>3. s + r < Len(h.data) <=> r < n
    <3>1. PICK len \in Nat : len = Len(h.data)
      BY <1>1
    <3>2. s + n = len /\ s \in Nat /\ n \in Nat /\ r \in Nat
      BY <1>1, <2>1, <2>2, <3>1
    <3>3. s + r < len <=> r < n
      BY <3>2
    <3>4. QED
      BY <3>1, <3>3
  <2>4. QED
    BY <1>1, <1>2, <1>4, <2>1, <2>2, <2>3
<1>7. CASE p < m
  <2>1. n = PageSize /\ s + PageSize <= Len(h.data) /\ s \in Nat
    BY <1>1, <1>2, <1>4, <1>7
  <2>2. n \in Nat /\ n <= PageSize /\ ~(n < PageSize) /\ s + r < Len(h.data) /\ r < n /\ p <= m
    BY <1>1, <1>4, <1>7, <2>1
  <2>3. QED
    BY <1>1, <1>2, <1>4, <2>1, <2>2
<1>8. QED
  BY <1>1, <1>4, <1>5, <1>6, <1>7

\* The page of the position is mapped, and the window begins on it.
LEMMA ScanPageStep ==
  ASSUME XInv, ScanPage
  PROVE  XInv'
<1>1. /\ out.status = "ok" /\ Typed /\ Runs /\ Built(gen, out) /\ Fresh(out) /\ Scans /\ OnLastPage(gen.xpos)
  BY DEF XInv, ScanPage, Generating, Scanning
<1>2. /\ job \in Inputs /\ gen \in Generator /\ match \in Matches /\ out \in Written
      /\ FileOf(in, FALSE) /\ FileOf(from, TRUE) /\ in.data = job.target
  BY <1>1 DEF Typed
<1> DEFINE p == gen.xpos.page
           r == gen.xpos.off
           h == MapPos(in, gen.xpos)
           x == InMem(gen.xpos)
           sum == InitQueryChecksum(h, x, x.off)
<1>3. /\ gen.xpos \in Position /\ p \in Nat /\ r \in Nat /\ PageSize \in Nat \ {0} /\ QUERY_SIZE_POW \in Nat \ {0}
      /\ gen.to_output_pos \in Nat
  BY <1>2, Sizes DEF Generator, Position
<1>4. XPOS(gen.xpos) <= InLength - QUERY_SIZE_POW /\ XPOS(gen.xpos) = p * PageSize + r /\ r < PageSize
      /\ r \in 0 .. PageSize - 1
  <2>1. r < PageSize
    BY <1>1 DEF OnLastPage, EndsOn
  <2>2. QED
    BY <1>3, <2>1 DEF ScanPage, XPOS
<1>5. in.data \in Seq(Byte) /\ PagesOf(in) \in Nat /\ Len(in.data) = InLength /\ InLength \in Nat
  BY <1>2, PagesThere, JobFacts DEF AFile, InLength, Target
<1>6. /\ p * PageSize \in Nat /\ OnPage(in, p) \in Nat /\ p <= PagesOf(in) /\ OnPage(in, p) <= PageSize
      /\ p * PageSize + OnPage(in, p) <= Len(in.data)
      /\ OnPage(in, p) < PageSize => p * PageSize + OnPage(in, p) = Len(in.data)
  <2> HIDE DEF p, r
  <2>1. p * PageSize \in Nat
    BY <1>3, BlockStarts
  <2>2. p * PageSize + r <= Len(in.data)
    BY <1>3, <1>4, <1>5, <2>1
  <2>3. QED
    BY <1>3, <1>4, <1>5, <2>1, <2>2, PlaceOnPage
<1>7. r < OnPage(in, p)
  <2> HIDE DEF p, r
  <2>1. QED
    BY <1>3, <1>4, <1>5, <1>6
<1>8. TurnsTo(h, in, FALSE, p)
  <2>1. UsedBy(in, gen.xpos.mem_page) /\ p <= in.md5_page /\ InTurn(in)
    BY <1>1 DEF Scans, Runs
  <2>2. AFile(in.data)
    BY <1>2 DEF AFile
  <2>3. QED
    BY <1>2, <1>3, <2>1, <2>2, MapPosIs
<1>9. /\ h.status = "ok" /\ FileOf(h, FALSE) /\ h.data = in.data /\ UsedBy(h, p) /\ InTurn(h) /\ p < h.md5_page
      /\ p \in PageNumbers
  BY <1>6, <1>8 DEF TurnsTo
<1>10. x \in Position /\ x.page = p /\ x.off = r /\ x.mem_page = p /\ Rem(in, x) = OnPage(in, p)
  <2>1. x = [gen.xpos EXCEPT !.mem_page = p] /\ p \in PageOrNull
    BY <1>9 DEF InMem, PageOrNull
  <2> HIDE DEF x
  <2>2. PlacedAt(x, p, r, p)
    BY <1>3, <2>1, PositionFacts
  <2>3. QED
    BY <2>2 DEF PlacedAt, Rem
<1> HIDE DEF h, x
<1>11. sum \in CheckSum
  BY <1>3, <1>5, <1>9, <1>10, SumFacts
<1>12. /\ in' = h /\ job' = job /\ from' = from /\ out' = out /\ match' = match /\ exit' = exit
       /\ IF OnPage(in, p) - r < QUERY_SIZE_POW THEN pc' = "nextpage" /\ gen' = [gen EXCEPT !.xpos = x]
          ELSE pc' = "roll" /\ gen' = [gen EXCEPT !.xpos = x, !.sum = sum]
  <2>1. ~(h.status # "ok" \/ Rem(in, x) <= x.off)
    <3> HIDE DEF p, r
    <3>1. QED
      BY <1>3, <1>6, <1>7, <1>9, <1>10
  <2>2. QED
    BY <1>10, <2>1 DEF ScanPage, h, x
<1>13. /\ gen' \in Generator /\ SameOutput(gen', gen) /\ gen'.xpos = x /\ gen'.ypos = gen.ypos
       /\ gen'.ok = gen.ok /\ gen'.cksums = gen.cksums /\ gen'.table = gen.table
       /\ pc' = "roll" => gen'.sum = sum
  <2> HIDE DEF sum, p, r
  <2>1. CASE OnPage(in, p) - r < QUERY_SIZE_POW
    <3>1. pc' = "nextpage" /\ gen' = [gen EXCEPT !.xpos = x]
      BY <1>12, <2>1
    <3>2. QED
      BY <1>2, <1>10, <3>1 DEF Generator, SameOutput
  <2>2. CASE ~(OnPage(in, p) - r < QUERY_SIZE_POW)
    <3>1. pc' = "roll" /\ gen' = [gen EXCEPT !.xpos = x, !.sum = sum]
      BY <1>12, <2>2
    <3>2. QED
      BY <1>2, <1>10, <1>11, <3>1 DEF Generator, SameOutput
  <2>3. QED
    BY <2>1, <2>2
<1>14. Typed'
  BY <1>2, <1>9, <1>12, <1>13 DEF Typed, FileOf, Generating, Scanning
<1>15. Runs' /\ Fresh(out)'
  BY <1>1, <1>9, <1>12 DEF Runs, InTurn, Fresh
<1>16. Built(gen, out)'
  <2>1. Built(gen', out')
    BY <1>1, <1>12, <1>13, BuiltStays
  <2>2. QED
    BY <1>12, <2>1, SameJob
<1>17. Scans'
  <2>1. TableHolds'
    BY <1>1, <1>12, <1>13 DEF TableHolds, Scans, FromLength
  <2>2. p <= h.md5_page
    BY <1>2, <1>3, <1>9 DEF FileOf, Handles
  <2>3. gen'.xpos.mem_page = p /\ gen'.xpos.page = p /\ gen'.ypos.mem_page = gen.ypos.mem_page
    BY <1>10, <1>13
  <2>4. QED
    BY <1>1, <1>9, <1>12, <1>13, <2>1, <2>2, <2>3 DEF Scans, UsedBy, Digested, PagesOf
<1>18. OnLastPage(gen.xpos)'
  <2>1. EndsOn(x, gen.to_output_pos)
    BY <1>1, <1>10 DEF OnLastPage, EndsOn, XPOS
  <2>2. QED
    BY <1>12, <1>13, <2>1, SameJob DEF SameOutput
<1>19. gen'.xpos.mem_page = gen'.xpos.page
  BY <1>10, <1>13
<1>20. CASE OnPage(in, p) - r < QUERY_SIZE_POW
  <2>1. pc' = "nextpage"
    BY <1>12, <1>20
  <2>2. QED
    BY <1>1, <1>12, <1>14, <1>15, <1>16, <1>17, <1>18, <1>19, <2>1 DEF XInv, Scanning, Generating
<1>21. CASE ~(OnPage(in, p) - r < QUERY_SIZE_POW)
  <2>1. pc' = "roll"
    BY <1>12, <1>21
  <2>2. WindowAt(gen.xpos)'
    <3>1. r + QUERY_SIZE_POW <= OnPage(in, p)
      <4> HIDE DEF p, r
      <4>1. QED
        BY <1>3, <1>6, <1>21
    <3>2. OnPage(h, p) = OnPage(in, p)
      BY <1>9 DEF OnPage, PagesOf
    <3>3. QED
      BY <1>10, <1>12, <1>13, <3>1, <3>2 DEF WindowAt, Rem, OnPage, PagesOf
  <2>3. (gen.sum = InitQueryChecksum(in, gen.xpos, gen.xpos.off))'
    BY <1>12, <1>13, <2>1
  <2>4. QED
    BY <1>1, <1>12, <1>14, <1>15, <1>16, <1>17, <1>18, <2>1, <2>2, <2>3 DEF XInv, Scanning, Generating
<1>22. QED
  BY <1>20, <1>21

\* The window of a match, in numbers.
WindowNumbers(h, g, m, p, r) ==
  /\ p = At(m.to).page /\ r = At(m.to).off /\ p \in PageNumbers /\ r \in 0 .. PageSize - 1
  /\ Window(m.to) = [page |-> p, off |-> r, mem_page |-> p] /\ Window(m.to) \in Position
  /\ p \in Nat /\ p * PageSize \in Nat /\ m.to = p * PageSize + r
  /\ p * PageSize <= g.to_output_pos /\ g.to_output_pos <= m.to
  /\ OnPage(h, p) \in Nat /\ r + QUERY_SIZE_POW <= OnPage(h, p)
  /\ p * PageSize + OnPage(h, p) <= InLength /\ p <= PagesOf(h)
  /\ m.to + QUERY_SIZE_POW <= InLength
  /\ m.back <= r /\ m.back <= m.src /\ m.src + QUERY_SIZE_POW <= FromLength
  /\ m.to \in Nat /\ m.src \in Nat /\ m.back \in Nat /\ m.fwd \in Nat

\* The numbers of a match.
LEMMA MatchNumbers ==
  ASSUME job \in Inputs, NEW h, h.data = Target, NEW g \in Generator, NEW m \in Matches, MatchAt(h, g, m)
  PROVE  \E p, r : WindowNumbers(h, g, m, p, r)
<1> DEFINE w == Window(m.to)
<1>1. m.to \in Nat /\ m.src \in Nat /\ m.back \in Nat /\ m.fwd \in Nat /\ g.to_output_pos \in Nat
  BY DEF Matches, Generator
<1>2. PICK p, r : p = At(m.to).page /\ r = At(m.to).off
  OBVIOUS
<1>3. /\ p \in Nat /\ r \in 0 .. PageSize - 1 /\ p * PageSize + r = m.to /\ p * PageSize \in Nat
  BY <1>1, <1>2, AtFacts
<1>4. w = [page |-> p, off |-> r, mem_page |-> p]
  BY <1>2 DEF Window
<1>5. h.data \in Seq(Byte) /\ Len(h.data) = InLength /\ InLength \in Nat /\ FromLength \in Nat
      /\ PageSize \in Nat \ {0} /\ QUERY_SIZE_POW \in Nat \ {0} /\ LastPage \in Nat
  BY JobFacts, Sizes DEF InLength
<1>6. /\ p * PageSize <= g.to_output_pos /\ g.to_output_pos <= m.to
      /\ r + QUERY_SIZE_POW <= OnPage(h, p) /\ m.back <= r
      /\ m.back <= m.src /\ m.src + QUERY_SIZE_POW <= FromLength
  BY <1>3, <1>4 DEF MatchAt, EndsOn, Rem, XPOS
<1>7. OnPage(h, p) \in Int
  BY <1>3, <1>5, PlaceOnPage
<1>8. r < OnPage(h, p)
  BY <1>3, <1>5, <1>6, <1>7
<1>9. p <= PagesOf(h) /\ OnPage(h, p) \in Nat /\ p * PageSize + OnPage(h, p) <= Len(h.data)
  BY <1>3, <1>5, <1>8, PlaceOnPage
<1>10. p \in PageNumbers
  <2>1. PagesOf(h) \in Nat /\ PagesOf(h) < LastPage
    BY <1>5, JobFacts, PageBounds DEF PagesOf
  <2>2. QED
    BY <1>3, <1>5, <1>9, <2>1 DEF PageNumbers
<1>11. w \in Position
  BY <1>3, <1>4, <1>10 DEF Position, PageOrNull
<1>12. m.to + QUERY_SIZE_POW <= InLength
  <2>1. PICK s \in Nat : s = p * PageSize
    BY <1>3
  <2>2. s + r = m.to /\ s + OnPage(h, p) <= InLength
    BY <1>3, <1>5, <1>9, <2>1
  <2>3. QED
    BY <1>1, <1>3, <1>5, <1>6, <1>9, <2>1, <2>2
<1>13. QED
  BY <1>1, <1>2, <1>3, <1>4, <1>5, <1>6, <1>9, <1>10, <1>11, <1>12 DEF WindowNumbers

\* The table has a block for the window.
LEMMA TryMatchStep ==
  ASSUME XInv, TryMatch
  PROVE  XInv'
<1>1. /\ out.status = "ok" /\ Typed /\ Runs /\ Built(gen, out) /\ Fresh(out) /\ Scans /\ OnLastPage(gen.xpos)
      /\ WindowAt(gen.xpos) /\ gen.sum = InitQueryChecksum(in, gen.xpos, gen.xpos.off)
  BY DEF XInv, TryMatch, Generating, Scanning
<1>2. /\ job \in Inputs /\ gen \in Generator /\ match \in Matches /\ out \in Written
      /\ FileOf(in, FALSE) /\ FileOf(from, TRUE) /\ in.data = job.target
  BY <1>1 DEF Typed
<1> DEFINE p == gen.xpos.page
           r == gen.xpos.off
           j == gen.table[Index(gen.sum)]
           src == j * QUERY_SIZE_POW
           to == XPOS(gen.xpos)
           m == [to |-> to, src |-> src, back |-> 0, fwd |-> 0, one_insert |-> FALSE]
           y == MovedTo(gen.ypos, src)
<1>3. /\ gen.xpos \in Position /\ gen.ypos \in Position /\ p \in Nat /\ r \in Nat
      /\ PageSize \in Nat \ {0} /\ QUERY_SIZE_POW \in Nat \ {0} /\ gen.to_output_pos \in Nat /\ gen.sum \in CheckSum
      /\ Len(gen.cksums) \in Nat
  BY <1>2, Sizes DEF Generator, Position
<1>4. /\ match' = m /\ gen' = [gen EXCEPT !.ypos = y] /\ pc' = "back"
      /\ in' = in /\ job' = job /\ from' = from /\ out' = out /\ exit' = exit
  BY <1>2 DEF TryMatch, Generator
<1>5. j \in Nat /\ j + 1 <= Len(gen.cksums)
  <2>1. j # Null
    BY DEF TryMatch, Hit
  <2>2. Index(gen.sum) \in 0 .. TableSize - 1
    BY <1>3, IndexFacts
  <2>3. j \in Nat \cup {Null}
    BY <1>2, <2>2 DEF Generator
  <2>4. QED
    BY <1>1, <2>1, <2>2, <2>3 DEF Scans, TableHolds
<1>6. src \in Nat /\ src + QUERY_SIZE_POW <= FromLength
  <2> HIDE DEF j
  <2>1. src \in Nat /\ src + QUERY_SIZE_POW = (j + 1) * QUERY_SIZE_POW /\ j + 1 \in Nat
    BY <1>3, <1>5, BlockStarts
  <2>2. (j + 1) * QUERY_SIZE_POW <= Len(gen.cksums) * QUERY_SIZE_POW
        /\ (j + 1) * QUERY_SIZE_POW \in Nat /\ Len(gen.cksums) * QUERY_SIZE_POW \in Nat
    BY <1>3, <1>5, <2>1, BlockStarts
  <2>3. Len(gen.cksums) * QUERY_SIZE_POW <= FromLength /\ FromLength \in Nat
    BY <1>1, <1>2, JobFacts DEF Scans, TableHolds
  <2> HIDE DEF src
  <2>4. QED
    BY <2>1, <2>2, <2>3
<1>7. r < PageSize /\ to = p * PageSize + r /\ to \in Nat
  <2>1. r < PageSize /\ to = p * PageSize + r
    BY <1>1 DEF OnLastPage, EndsOn, XPOS
  <2>2. p * PageSize \in Nat
    BY <1>3, BlockStarts
  <2>3. QED
    BY <1>3, <2>1, <2>2, SMTT(40)
<1>8. Window(to) = gen.xpos
  <2>1. At(to).page = p /\ At(to).off = r
    <3> HIDE DEF p, r, to
    <3>1. r \in 0 .. PageSize - 1 /\ p \in Nat /\ to \in Nat /\ to = p * PageSize + r
      BY <1>3, <1>7
    <3>2. QED
      BY <3>1, PlaceIs, Zenon
  <2>2. gen.xpos.mem_page = p
    BY <1>1 DEF WindowAt
  <2>3. gen.xpos = [page |-> p, off |-> r, mem_page |-> p]
    BY <1>3, <2>2 DEF Position
  <2>4. QED
    BY <2>1, <2>3 DEF Window
<1>9. y \in Position /\ y.mem_page = gen.ypos.mem_page /\ y.off < PageSize /\ XPOS(y) = src
  <2>1. At(src).page \in Nat /\ At(src).off \in 0 .. PageSize - 1 /\ At(src).page * PageSize + At(src).off = src
    BY <1>6, AtFacts
  <2> HIDE DEF src
  <2>2. At(src).off \in Nat
    BY <1>3, <2>1
  <2>3. PlacedAt(y, At(src).page, At(src).off, gen.ypos.mem_page)
    BY <1>3, <2>1, <2>2, PositionFacts DEF MovedTo
  <2>4. QED
    BY <1>3, <2>1, <2>3 DEF PlacedAt, XPOS
<1> HIDE DEF y, src, to
<1>10. m \in Matches
  BY <1>6, <1>7 DEF Matches
<1>11. /\ gen' \in Generator /\ SameOutput(gen', gen) /\ gen'.xpos = gen.xpos /\ gen'.ypos = y
       /\ gen'.ok = gen.ok /\ gen'.cksums = gen.cksums /\ gen'.table = gen.table /\ gen'.sum = gen.sum
  BY <1>2, <1>4, <1>9 DEF Generator, SameOutput
<1>12. Typed'
  BY <1>2, <1>4, <1>10, <1>11 DEF Typed, FileOf, Generating, Scanning
<1>13. Runs' /\ Fresh(out)'
  BY <1>1, <1>4 DEF Runs, InTurn, Fresh
<1>14. Built(gen, out)'
  <2>1. Built(gen', out')
    BY <1>1, <1>4, <1>11, BuiltStays
  <2>2. QED
    BY <1>4, <2>1, SameJob
<1>15. Scans'
  <2>1. TableHolds'
    BY <1>1, <1>4, <1>11 DEF TableHolds, Scans, FromLength
  <2>2. QED
    BY <1>1, <1>4, <1>9, <1>11, <2>1 DEF Scans, UsedBy, Digested, PagesOf
<1>16. m.to = to /\ m.src = src /\ m.back = 0 /\ m.fwd = 0 /\ ~m.one_insert
  OBVIOUS
<1>17. gen'.to_output_pos = gen.to_output_pos
  BY <1>11 DEF SameOutput
<1>18. BackAt(in, gen', m)
  <2> HIDE DEF m
  <2>1. Agree(m)
    <3>1. 1 .. m.back + m.fwd = {}
      BY <1>16
    <3>2. QED
      BY <3>1 DEF Agree
  <2>2. gen.to_output_pos <= to
    BY <1>1 DEF OnLastPage, EndsOn, to
  <2>3. MatchAt(in, gen', m)
    <3>1. EndsOn(gen.xpos, gen'.to_output_pos)
      BY <1>1, <1>17 DEF OnLastPage
    <3>2. gen.xpos.off + QUERY_SIZE_POW <= Rem(in, gen.xpos) /\ gen.xpos.page <= in.md5_page
      BY <1>1 DEF WindowAt, Scans
    <3>3. 0 <= src /\ 0 <= gen.xpos.off
      BY <1>3, <1>6
    <3>4. gen'.sum = InitQueryChecksum(in, gen.xpos, gen.xpos.off)
      BY <1>1, <1>11
    <3>5. QED
      BY <1>6, <1>8, <1>16, <2>1, <3>1, <3>2, <3>3, <3>4 DEF MatchAt
  <2>4. gen'.xpos = [Window(m.to) EXCEPT !.off = @ - m.back]
    <3>1. gen.xpos = [page |-> gen.xpos.page, off |-> gen.xpos.off, mem_page |-> gen.xpos.mem_page]
          /\ gen.xpos.off - 0 = gen.xpos.off
      BY <1>3 DEF Position
    <3>2. [gen.xpos EXCEPT !.off = gen.xpos.off - 0] = gen.xpos
      BY <3>1
    <3>3. QED
      BY <1>8, <1>11, <1>16, <3>2
  <2>5. m.back + gen'.to_output_pos <= m.to
    BY <1>3, <1>16, <1>17, <2>2
  <2>6. gen'.ypos.off < PageSize /\ XPOS(gen'.ypos) = m.src - m.back
    BY <1>6, <1>9, <1>11, <1>16
  <2>7. QED
    BY <1>16, <2>3, <2>4, <2>5, <2>6 DEF BackAt
<1>19. BackAt(in, gen, match)'
  BY <1>4, <1>18, SameJob
<1>20. QED
  BY <1>1, <1>4, <1>12, <1>13, <1>14, <1>15, <1>19 DEF XInv, Scanning, Generating

\* What a turn of the loops over the windows has to keep.
Keeps ==
  /\ job' = job /\ exit' = exit /\ match' \in Matches /\ pc' \in Scanning
  /\ FileOf(in', FALSE) /\ in'.data = in.data /\ InTurn(in')
  /\ FileOf(from', TRUE) /\ from'.data = from.data /\ InTurn(from') /\ from.md5_page <= from'.md5_page
  /\ gen' \in Generator /\ gen'.ok /\ gen'.cksums = gen.cksums /\ gen'.table = gen.table
  /\ out' \in Written /\ Built(gen', out') /\ Fresh(out')
  /\ UsedBy(in', gen'.xpos.mem_page) /\ UsedBy(from', gen'.ypos.mem_page)
  /\ gen'.xpos.page <= in'.md5_page

\* What the loops over the windows share stays, whatever they do.
LEMMA ScansOn ==
  ASSUME Typed, Runs, Scans, Keeps
  PROVE  Typed' /\ Runs' /\ Built(gen, out)' /\ Fresh(out)' /\ Scans'
<1>1. Typed'
  BY DEF Typed, Keeps, FileOf, Generating, Scanning
<1>2. Runs'
  BY DEF Runs, Keeps, InTurn
<1>3. Built(gen, out)' /\ Fresh(out)'
  BY SameJob DEF Keeps, Fresh
<1>4. Digested(from)'
  <2>1. from.md5_page > PagesOf(from) /\ PagesOf(from') = PagesOf(from) /\ from.md5_page <= from'.md5_page
    BY DEF Scans, Digested, Keeps, PagesOf
  <2>2. PagesOf(from) \in Nat
    BY PagesThere DEF AFile, Typed, Runs
  <2>3. from.md5_page \in Nat /\ from'.md5_page \in Nat
    BY DEF Typed, Keeps, FileOf, Handles
  <2>4. from'.md5_page > PagesOf(from')
    BY <2>1, <2>2, <2>3
  <2>5. QED
    BY <2>4 DEF Digested, PagesOf
<1>5. TableHolds'
  BY DEF Scans, TableHolds, Keeps, FromLength
<1>6. Scans'
  BY <1>4, <1>5 DEF Scans, Keeps, UsedBy
<1>7. QED
  BY <1>1, <1>2, <1>3, <1>6

\* The positions move and nothing else.
SameScan(f, g) ==
  /\ f \in Generator /\ SameOutput(f, g)
  /\ f.ok = g.ok /\ f.cksums = g.cksums /\ f.table = g.table /\ f.sum = g.sum

Moved(g, x, y) == [g EXCEPT !.xpos = x, !.ypos = y]

\* Positions that move.
LEMMA Moves ==
  ASSUME NEW g \in Generator, NEW x \in Position, NEW y \in Position
  PROVE  SameScan(Moved(g, x, y), g) /\ Moved(g, x, y).xpos = x /\ Moved(g, x, y).ypos = y
BY DEF Moved, Generator, SameScan, SameOutput

\* doneback
BackDone(f, g, m) ==
  /\ SameScan(f, g)
  /\ f.xpos = [page |-> At(m.to).page, off |-> At(m.to).off, mem_page |-> g.xpos.mem_page]
  /\ f.xpos.off < PageSize /\ XPOS(f.xpos) = m.to
  /\ f.ypos.mem_page = g.ypos.mem_page /\ f.ypos.off < PageSize /\ XPOS(f.ypos) = m.src

\* doneback: both positions return to the window.
LEMMA DoneBackFacts ==
  ASSUME NEW g \in Generator, NEW m \in Matches, NEW f, f = DoneBack(g, m)
  PROVE  BackDone(f, g, m)
<1> DEFINE x == MovedTo(g.xpos, m.to)
           y == MovedTo(g.ypos, m.src)
<1>1. m.to \in Nat /\ m.src \in Nat /\ g.xpos \in Position /\ g.ypos \in Position
  BY DEF Matches, Generator
<1>2. /\ At(m.to).page \in Nat /\ At(m.to).off \in 0 .. PageSize - 1
      /\ At(m.to).page * PageSize + At(m.to).off = m.to
      /\ At(m.src).page \in Nat /\ At(m.src).off \in 0 .. PageSize - 1
      /\ At(m.src).page * PageSize + At(m.src).off = m.src
      /\ PageSize \in Nat
  BY <1>1, AtFacts, Sizes
<1>3. At(m.to).off \in Nat /\ At(m.to).off < PageSize /\ At(m.src).off \in Nat /\ At(m.src).off < PageSize
  BY <1>2
<1>4. PlacedAt(x, At(m.to).page, At(m.to).off, g.xpos.mem_page)
  BY <1>1, <1>2, <1>3, PositionFacts DEF MovedTo
<1>5. PlacedAt(y, At(m.src).page, At(m.src).off, g.ypos.mem_page)
  BY <1>1, <1>2, <1>3, PositionFacts DEF MovedTo
<1>6. f = Moved(g, x, y)
  BY DEF DoneBack, Generator, Moved
<1> HIDE DEF x, y
<1>7. SameScan(f, g) /\ f.xpos = x /\ f.ypos = y
  <2>1. x \in Position /\ y \in Position
    BY <1>4, <1>5 DEF PlacedAt
  <2>2. QED
    BY <1>6, <2>1, Moves
<1>8. x = [page |-> At(m.to).page, off |-> At(m.to).off, mem_page |-> g.xpos.mem_page]
  BY <1>4 DEF PlacedAt, Position
<1>9. QED
  BY <1>2, <1>3, <1>4, <1>5, <1>7, <1>8 DEF BackDone, PlacedAt, XPOS

\* The forward match begins.
LEMMA ForwardBegins ==
  ASSUME job \in Inputs, in.data = Target, NEW g \in Generator, NEW m \in Matches, MatchAt(in, g, m),
         m.back + g.to_output_pos <= m.to, m.fwd = 0, ~m.one_insert, g.xpos.mem_page = Window(m.to).page,
         NEW f, f = DoneBack(g, m)
  PROVE  ForwardAt(in, f, m) /\ f.xpos.page = Window(m.to).page
<1>1. BackDone(f, g, m)
  BY DoneBackFacts
<1>2. /\ SameScan(f, g) /\ f.xpos.mem_page = g.xpos.mem_page /\ f.xpos.page = Window(m.to).page
      /\ f.xpos.off < PageSize /\ XPOS(f.xpos) = m.to
      /\ f.ypos.mem_page = g.ypos.mem_page /\ f.ypos.off < PageSize /\ XPOS(f.ypos) = m.src
  BY <1>1 DEF BackDone, Window
<1>3. PICK p, r : WindowNumbers(in, g, m, p, r)
  BY MatchNumbers
<1>4. /\ m.to \in Nat /\ m.src \in Nat /\ m.to + QUERY_SIZE_POW <= InLength
      /\ m.src + QUERY_SIZE_POW <= FromLength /\ Window(m.to).page \in Nat
      /\ QUERY_SIZE_POW \in Nat /\ InLength \in Nat /\ FromLength \in Nat
  BY <1>3, Sizes, JobFacts DEF WindowNumbers
<1>5. 0 <= ForwardMax(m) /\ ForwardMax(m) \in Int
  <2>1. InLength - m.to \in Int /\ FromLength - m.src \in Int /\ InLength - m.to >= 0 /\ FromLength - m.src >= 0
    BY <1>4
  <2>2. QED
    BY <2>1, MinOfTwo DEF ForwardMax
<1>6. MatchAt(in, f, m)
  BY <1>2 DEF MatchAt, SameScan, SameOutput
<1>7. m.to + m.fwd = m.to /\ m.src + m.fwd = m.src /\ Window(m.to).page # Null
  BY <1>4 DEF Null
<1>8. QED
  BY <1>2, <1>5, <1>6, <1>7 DEF ForwardAt, SameScan, SameOutput

\* The bytes before a place of the target, and before one of the source.
LEMMA TargetByte ==
  ASSUME NEW h, NEW data \in Seq(Byte), h.data = data, NEW x, NEW p \in Nat, x.mem_page = p,
         NEW off \in Nat, off < OnPage(h, p)
  PROVE  ByteAt(h, x, off) = data[p * PageSize + off + 1] /\ p * PageSize + off + 1 \in 1 .. Len(data)
BY ByteFacts

\* The page that a backward turn looks at.
BackPage(y) == IF y.off > 0 THEN y ELSE [y EXCEPT !.off = PageSize, !.page = @ - 1]

\* The place before a page is the end of the page before it.
LEMMA BackPageFacts ==
  ASSUME NEW y \in Position, y.off < PageSize, XPOS(y) > 0, NEW z, z = BackPage(y)
  PROVE  /\ z \in Position /\ z.mem_page = y.mem_page /\ XPOS(z) = XPOS(y)
         /\ z.off \in 1 .. PageSize /\ z.page \in Nat
<1>1. y.page \in Nat /\ y.off \in Nat /\ PageSize \in Nat \ {0} /\ y.page * PageSize \in Nat
  BY Sizes, BlockStarts DEF Position
<1>2. CASE y.off > 0
  BY <1>1, <1>2 DEF BackPage
<1>3. CASE ~(y.off > 0)
  <2>1. y.off = 0
    BY <1>1, <1>3
  <2>2. y.page # 0
    BY <1>1, <2>1 DEF XPOS
  <2>3. y.page - 1 \in Nat /\ PageSize \in Nat
    BY <1>1, <2>2
  <2>4. z = [y EXCEPT !.off = PageSize, !.page = y.page - 1]
    BY <1>3 DEF BackPage, Position
  <2>5. PlacedAt(z, y.page - 1, PageSize, y.mem_page)
    BY <2>3, <2>4, PositionFacts
  <2>6. (y.page - 1) * PageSize + PageSize = y.page * PageSize
    <3>1. PICK k \in Nat : k = y.page - 1
      BY <2>3
    <3>2. (k + 1) * PageSize = k * PageSize + PageSize /\ k + 1 = y.page
      BY <1>1, <3>1, BlockStarts
    <3>3. QED
      BY <3>1, <3>2
  <2>7. XPOS(z) = XPOS(y)
    BY <1>1, <2>1, <2>5, <2>6 DEF PlacedAt, XPOS
  <2>8. QED
    BY <1>1, <2>3, <2>5, <2>7 DEF PlacedAt
<1>4. QED
  BY <1>2, <1>3

\* What agrees before a match joins it.
LEMMA AgreeBack ==
  ASSUME job \in Inputs, NEW m \in Matches, Agree(m), m.fwd = 0, NEW run \in Nat,
         m.back + run <= m.src, m.back + run <= m.to,
         \A i \in 1 .. run : Target[m.to - m.back - i + 1] = job.source[m.src - m.back - i + 1],
         NEW n, n = [m EXCEPT !.back = @ + run]
  PROVE  n \in Matches /\ Agree(n) /\ n.to = m.to /\ n.src = m.src /\ n.back = m.back + run /\ n.fwd = 0
         /\ n.one_insert = m.one_insert
<1>1. m.to \in Nat /\ m.src \in Nat /\ m.back \in Nat /\ m.back + run \in Nat
  BY DEF Matches
<1>2. n \in Matches /\ n.to = m.to /\ n.src = m.src /\ n.back = m.back + run /\ n.fwd = 0
      /\ n.one_insert = m.one_insert
  BY <1>1 DEF Matches
<1>3. ASSUME NEW i \in 1 .. n.back + n.fwd
      PROVE  Target[n.to - n.back + i] = job.source[n.src - n.back + i]
  <2>1. i \in 1 .. m.back + run
    BY <1>1, <1>2
  <2>2. CASE i <= run
    <3>1. PICK k \in 1 .. run : k = run - i + 1
      BY <1>1, <2>1, <2>2
    <3>2. m.to - m.back - k + 1 = n.to - n.back + i /\ m.src - m.back - k + 1 = n.src - n.back + i
      BY <1>1, <1>2, <2>1, <3>1
    <3>3. QED
      BY <3>2
  <2>3. CASE i > run
    <3>1. PICK k \in 1 .. m.back + m.fwd : k = i - run
      BY <1>1, <2>1, <2>3
    <3>2. m.to - m.back + k = n.to - n.back + i /\ m.src - m.back + k = n.src - n.back + i
      BY <1>1, <1>2, <2>1, <3>1
    <3>3. QED
      BY <3>2 DEF Agree
  <2>4. QED
    BY <1>1, <2>1, <2>2, <2>3
<1>4. QED
  BY <1>2, <1>3 DEF Agree

\* The invariant of the loop that follows is all that is left to show.
LEMMA MatchesOn ==
  ASSUME Typed, Runs, Scans, Keeps,
         (pc' = "back" /\ out'.status = "ok" /\ BackAt(in', gen', match'))
           \/ (pc' = "forward" /\ ForwardAt(in', gen', match'))
           \/ (pc' = "matched" /\ ForwardAt(in', gen', match') /\ EndsAt(match'))
           \/ (pc' = "scan" /\ EndsOn(gen'.xpos, gen'.to_output_pos))
  PROVE  XInv'
<1>1. Typed' /\ Runs' /\ Built(gen, out)' /\ Fresh(out)' /\ Scans' /\ job' = job
  BY ScansOn DEF Keeps
<1>2. /\ pc' = "back" => out'.status = "ok"
      /\ pc' = "back" => BackAt(in, gen, match)'
      /\ pc' \in {"forward", "matched"} => ForwardAt(in, gen, match)'
      /\ pc' = "matched" => EndsAt(match)'
      /\ pc' = "scan" => OnLastPage(gen.xpos)'
      /\ pc' \in {"back", "forward", "matched", "scan"}
  BY <1>1, SameJob
<1>3. QED
  BY <1>1, <1>2 DEF XInv, Scanning, Generating

\* match_backward: a turn of the loop, or its end.
LEMMA BackwardStep ==
  ASSUME XInv, Backward
  PROVE  XInv'
<1>1. /\ out.status = "ok" /\ Typed /\ Runs /\ Built(gen, out) /\ Fresh(out) /\ Scans /\ BackAt(in, gen, match)
  BY DEF XInv, Backward, Generating, Scanning
<1>2. /\ job \in Inputs /\ gen \in Generator /\ match \in Matches /\ out \in Written
      /\ FileOf(in, FALSE) /\ FileOf(from, TRUE) /\ in.data = job.target /\ from.data = job.source
      /\ in.data = Target /\ InTurn(in) /\ InTurn(from) /\ Len(from.data) = FromLength /\ Len(in.data) = InLength
  BY <1>1 DEF Typed, Runs, Target, FromLength, InLength
<1>3. MatchAt(in, gen, match)
  BY <1>1 DEF BackAt
<1>4. PICK p, r : WindowNumbers(in, gen, match, p, r)
  BY <1>2, <1>3, MatchNumbers
<1> DEFINE to == match.to
           src == match.src
           back == match.back
           T == gen.to_output_pos
           max == BackMax(match, At(to))
           y == BackPage(gen.ypos)
           h == MapPos(from, y)
           rem == Min({gen.xpos.off, y.off, max - back})
           run == AgreeBefore(h, gen.xpos, InMem(y), rem)
           z == [InMem(y) EXCEPT !.off = @ - run]
           moved == [gen EXCEPT !.xpos.off = @ - run, !.ypos = z]
           m == [match EXCEPT !.back = @ + run]
<1>5. /\ to \in Nat /\ src \in Nat /\ back \in Nat /\ T \in Nat /\ p \in Nat /\ r \in Nat /\ r < PageSize
      /\ to = p * PageSize + r /\ p * PageSize \in Nat /\ back <= r /\ back <= src /\ p \in PageNumbers
      /\ PageSize \in Nat \ {0} /\ QUERY_SIZE_POW \in Nat \ {0} /\ FromLength \in Nat /\ InLength \in Nat
      /\ src + QUERY_SIZE_POW <= FromLength /\ r + QUERY_SIZE_POW <= OnPage(in, p) /\ OnPage(in, p) \in Nat
      /\ At(to).page = p /\ At(to).off = r /\ Window(to).page = p
  <2>1. /\ PageSize \in Nat \ {0} /\ QUERY_SIZE_POW \in Nat \ {0} /\ FromLength \in Nat /\ InLength \in Nat
        /\ T \in Nat
    BY <1>2, Sizes, JobFacts DEF Generator
  <2>2. /\ to \in Nat /\ src \in Nat /\ back \in Nat /\ p \in Nat /\ r \in 0 .. PageSize - 1
        /\ to = p * PageSize + r /\ p * PageSize \in Nat /\ back <= r /\ back <= src /\ p \in PageNumbers
        /\ src + QUERY_SIZE_POW <= FromLength /\ r + QUERY_SIZE_POW <= OnPage(in, p) /\ OnPage(in, p) \in Nat
        /\ At(to).page = p /\ At(to).off = r
        /\ Window(to) = [page |-> p, off |-> r, mem_page |-> p]
    BY <1>4 DEF WindowNumbers
  <2>3. r \in Nat /\ r < PageSize /\ Window(to).page = p
    BY <2>1, <2>2
  <2>4. QED
    BY <2>1, <2>2, <2>3
<1>6. /\ gen.xpos.page = p /\ gen.xpos.off = r - back /\ gen.xpos.mem_page = p
      /\ gen.ypos \in Position /\ gen.xpos \in Position
  <2>1. Window(to) = [page |-> p, off |-> r, mem_page |-> p]
    BY <1>4 DEF WindowNumbers
  <2>2. gen.xpos = [Window(to) EXCEPT !.off = @ - back]
    BY <1>1 DEF BackAt
  <2>3. QED
    BY <1>2, <2>1, <2>2 DEF Generator
<1>7. gen.ypos.off < PageSize /\ XPOS(gen.ypos) = src - back /\ back + T <= to /\ match.fwd = 0 /\ ~match.one_insert
  BY <1>1 DEF BackAt
<1>8. max \in Int /\ max <= src /\ max <= to - T /\ max <= r
  <2>1. max = Min({src, to - T, r})
    BY <1>5 DEF BackMax
  <2>2. src \in Int /\ to - T \in Int /\ r \in Int
    BY <1>5
  <2> HIDE DEF max
  <2>3. QED
    BY <2>1, <2>2, MinOfThree
<1>9. p <= in.md5_page
  BY <1>3, <1>5 DEF MatchAt
<1>10. job' = job /\ in' = in /\ out' = out /\ exit' = exit
  BY DEF Backward
<1>11. CASE back >= max
  <2>1. gen' = DoneBack(gen, match) /\ pc' = "forward" /\ from' = from /\ match' = match
    BY <1>11 DEF Backward
  <2>2. ForwardAt(in, gen', match) /\ gen'.xpos.page = p
    BY <1>2, <1>3, <1>5, <1>6, <1>7, <2>1, ForwardBegins
  <2>3. BackDone(gen', gen, match)
    BY <1>2, <2>1, DoneBackFacts
  <2>4. /\ gen' \in Generator /\ SameOutput(gen', gen) /\ gen'.ok = gen.ok /\ gen'.cksums = gen.cksums
        /\ gen'.table = gen.table /\ gen'.xpos.mem_page = gen.xpos.mem_page
        /\ gen'.ypos.mem_page = gen.ypos.mem_page
    BY <2>3 DEF BackDone, SameScan
  <2>5. Built(gen', out)
    BY <1>1, <2>4, BuiltStays
  <2>6. from.md5_page <= from.md5_page
    BY <1>2 DEF FileOf, Handles
  <2>7. Keeps
    BY <1>1, <1>2, <1>9, <1>10, <2>1, <2>2, <2>4, <2>5, <2>6 DEF Keeps, Scans, Scanning
  <2>8. QED
    BY <1>1, <1>10, <2>1, <2>2, <2>7, MatchesOn
<1>12. CASE ~(back >= max)
  <2>1. back < max /\ src - back > 0
    BY <1>5, <1>8, <1>12
  <2>2. y \in Position /\ y.mem_page = gen.ypos.mem_page /\ XPOS(y) = src - back
        /\ y.off \in 1 .. PageSize /\ y.page \in Nat
    <3> HIDE DEF y
    <3>1. y = BackPage(gen.ypos)
      BY DEF y
    <3>2. QED
      BY <1>6, <1>7, <2>1, <3>1, BackPageFacts
  <2>3. y.page * PageSize \in Nat /\ y.page * PageSize + y.off = src - back
    BY <1>5, <2>2, BlockStarts DEF XPOS
  <2> HIDE DEF y
  <2>4. from.data \in Seq(Byte) /\ PagesOf(from) \in Nat /\ from.md5_page \in Nat
    BY <1>2, PagesThere DEF AFile
  <2>5. y.page <= PagesOf(from) /\ y.page <= from.md5_page
    <3>1. 0 \in 0 .. PageSize - 1 /\ y.page * PageSize + 0 <= Len(from.data)
      <4>1. PICK s \in Nat : s = y.page * PageSize
        BY <2>3
      <4>2. s + 0 <= FromLength
        BY <1>5, <2>2, <2>3, <4>1
      <4>3. 0 \in 0 .. PageSize - 1
        BY <1>5
      <4>4. QED
        BY <1>2, <4>1, <4>2, <4>3
    <3>2. y.page <= PagesOf(from)
      BY <2>2, <2>4, <3>1, PlaceOnPage
    <3>3. from.md5_page > PagesOf(from)
      BY <1>1 DEF Scans, Digested
    <3>4. QED
      BY <2>2, <2>4, <3>2, <3>3
  <2>6. TurnsTo(h, from, TRUE, y.page)
    <3>1. UsedBy(from, y.mem_page) /\ AFile(from.data)
      BY <1>1, <1>2, <2>2 DEF Scans, AFile
    <3>2. QED
      BY <1>2, <2>2, <2>5, <3>1, MapPosIs
  <2>7. /\ FileOf(h, TRUE) /\ h.data = from.data /\ UsedBy(h, y.page) /\ InTurn(h)
        /\ from.md5_page <= h.md5_page /\ y.page \in PageNumbers
    BY <2>5, <2>6 DEF TurnsTo
  <2> HIDE DEF h
  <2>8. InMem(y) \in Position /\ InMem(y).page = y.page /\ InMem(y).off = y.off /\ InMem(y).mem_page = y.page
    <3>1. y.page \in PageOrNull
      BY <2>7 DEF PageOrNull
    <3>2. PlacedAt(InMem(y), y.page, y.off, y.page)
      BY <1>5, <2>2, <3>1, PositionFacts DEF InMem
    <3>3. QED
      BY <3>2 DEF PlacedAt
  <2>9. rem \in Nat /\ rem > 0 /\ rem <= r - back /\ rem <= y.off /\ rem <= max - back
    <3>1. rem = Min({r - back, y.off, max - back}) /\ r - back \in Int /\ y.off \in Int /\ max - back \in Int
      BY <1>5, <1>6, <1>8, <2>2
    <3>2. r - back > 0 /\ y.off > 0 /\ max - back > 0
      BY <1>5, <1>8, <2>1, <2>2
    <3> HIDE DEF rem
    <3>3. rem \in {r - back, y.off, max - back} /\ rem <= r - back /\ rem <= y.off /\ rem <= max - back
      BY <3>1, MinOfThree
    <3>4. QED
      BY <3>1, <3>2, <3>3
  <2> HIDE DEF rem, max
  <2>10. /\ run \in 0 .. rem
         /\ \A i \in 1 .. run : ByteAt(in, gen.xpos, gen.xpos.off - i) = ByteAt(h, InMem(y), InMem(y).off - i)
    <3> HIDE DEF run
    <3>1. run = AgreeBefore(h, gen.xpos, InMem(y), rem)
      BY DEF run
    <3>2. QED
      BY <2>9, <3>1, AgreeBeforeIs
  <2> HIDE DEF run
  <2>11. \A i \in 1 .. run : Target[to - back - i + 1] = job.source[src - back - i + 1]
    <3>1. SUFFICES ASSUME NEW i \in 1 .. run
                   PROVE  Target[to - back - i + 1] = job.source[src - back - i + 1]
      OBVIOUS
    <3>2. ByteAt(in, gen.xpos, (r - back) - i) = ByteAt(h, InMem(y), y.off - i)
      BY <1>6, <2>8, <2>10
    <3>3. (r - back) - i \in Nat /\ (r - back) - i < OnPage(in, p)
      BY <1>5, <2>9, <2>10
    <3>4. ByteAt(in, gen.xpos, (r - back) - i) = Target[p * PageSize + ((r - back) - i) + 1]
      <4>1. PICK a \in Nat : a = (r - back) - i
        BY <3>3
      <4>2. Target \in Seq(Byte) /\ in.data = Target /\ p \in Nat /\ gen.xpos.mem_page = p /\ a < OnPage(in, p)
        BY <1>2, <1>5, <1>6, <3>3, <4>1, JobFacts
      <4>3. ByteAt(in, gen.xpos, a) = Target[p * PageSize + a + 1]
        BY <4>1, <4>2, TargetByte
      <4>4. QED
        BY <4>1, <4>3
    <3>5. y.off - i \in 0 .. PageSize - 1 /\ y.off - i \in Nat /\ y.page * PageSize + (y.off - i) < Len(from.data)
      <4>1. PICK s \in Nat, a \in Nat : s = y.page * PageSize /\ a = y.off
        BY <2>2, <2>3
      <4>2. a - i \in 0 .. PageSize - 1 /\ a - i \in Nat
        BY <1>5, <2>2, <2>9, <2>10, <4>1
      <4>3. s + (a - i) < FromLength
        BY <1>5, <2>3, <4>1, <4>2
      <4>4. QED
        BY <1>2, <4>1, <4>2, <4>3
    <3>6. y.off - i < OnPage(from, y.page) /\ OnPage(h, y.page) = OnPage(from, y.page)
      BY <2>2, <2>4, <2>7, <3>5, PlaceOnPage DEF OnPage, PagesOf
    <3>7. ByteAt(h, InMem(y), y.off - i) = job.source[y.page * PageSize + (y.off - i) + 1]
      <4>1. PICK a \in Nat : a = y.off - i
        BY <3>5
      <4>2. job.source \in Seq(Byte) /\ h.data = job.source /\ InMem(y).mem_page = y.page /\ y.page \in Nat
        BY <1>2, <2>2, <2>7, <2>8, JobFacts
      <4>3. ByteAt(h, InMem(y), a) = job.source[y.page * PageSize + a + 1]
        BY <3>6, <4>1, <4>2, TargetByte
      <4>4. QED
        BY <4>1, <4>3
    <3>8. p * PageSize + ((r - back) - i) + 1 = to - back - i + 1
      BY <1>5, <2>9, <2>10
    <3>9. y.page * PageSize + (y.off - i) + 1 = src - back - i + 1
      BY <1>5, <2>2, <2>3, <2>9, <2>10
    <3>10. QED
      BY <3>2, <3>4, <3>7, <3>8, <3>9
  <2>12. /\ m \in Matches /\ Agree(m) /\ m.to = to /\ m.src = src /\ m.back = back + run /\ m.fwd = 0
         /\ ~m.one_insert
    <3>1. run \in Nat /\ back + run <= src /\ back + run <= to
      BY <1>5, <1>8, <2>9, <2>10
    <3>2. Agree(match)
      BY <1>3 DEF MatchAt
    <3>3. m = [match EXCEPT !.back = @ + run]
      OBVIOUS
    <3> HIDE DEF m
    <3>4. QED
      BY <1>2, <1>7, <2>11, <3>1, <3>2, <3>3, AgreeBack
  <2>13. back + run <= r /\ back + run <= src /\ (back + run) + T <= to /\ run \in Nat
    BY <1>5, <1>8, <2>9, <2>10
  <2>14. MatchAt(in, gen, m)
    <3> HIDE DEF m
    <3>1. QED
      BY <1>3, <1>5, <2>12, <2>13 DEF MatchAt, Window
  <2>15. /\ z \in Position /\ z.page = y.page /\ z.off = y.off - run /\ z.mem_page = y.page
    <3>1. z = [InMem(y) EXCEPT !.off = y.off - run] /\ y.off - run \in Nat
      BY <2>2, <2>8, <2>9, <2>10
    <3> HIDE DEF z
    <3>2. PlacedAt(z, y.page, y.off - run, y.page)
      BY <2>2, <2>8, <3>1, PositionFacts
    <3>3. QED
      BY <3>2 DEF PlacedAt
  <2> DEFINE x == [gen.xpos EXCEPT !.off = @ - run]
  <2>16. x \in Position /\ x.page = p /\ x.off = (r - back) - run /\ x.mem_page = p
    <3>1. x = [gen.xpos EXCEPT !.off = (r - back) - run] /\ (r - back) - run \in Nat
      BY <1>5, <1>6, <2>9, <2>10
    <3> HIDE DEF x
    <3>2. PlacedAt(x, p, (r - back) - run, p)
      BY <1>5, <1>6, <3>1, PositionFacts
    <3>3. QED
      BY <3>2 DEF PlacedAt
  <2>17. moved = Moved(gen, x, z)
    BY <1>2 DEF Moved, Generator
  <2>18. /\ match' = m /\ from' = h /\ gen' = (IF run < rem THEN DoneBack(moved, match) ELSE moved)
         /\ pc' = (IF run < rem THEN "forward" ELSE "back")
    BY <1>12 DEF Backward, BackPage, max, y, h, rem, run
  <2> HIDE DEF x, z, moved, m
  <2>19. SameScan(moved, gen) /\ moved.xpos = x /\ moved.ypos = z
    <3>1. x \in Position /\ z \in Position
      BY <2>15, <2>16
    <3>2. QED
      BY <1>2, <2>17, <3>1, Moves
  <2>20. MatchAt(in, moved, m)
    BY <2>14, <2>19 DEF MatchAt, SameScan, SameOutput
  <2>21. CASE run < rem
    <3>1. gen' = DoneBack(moved, match) /\ pc' = "forward"
      BY <2>18, <2>21
    <3>2. DoneBack(moved, match) = DoneBack(moved, m)
      BY <2>12 DEF DoneBack
    <3>3. moved \in Generator /\ moved.to_output_pos = T
      BY <2>19 DEF SameScan, SameOutput
    <3>4. ForwardAt(in, gen', m) /\ gen'.xpos.page = p
      <4>1. m.back + moved.to_output_pos <= m.to /\ m.fwd = 0 /\ ~m.one_insert
            /\ moved.xpos.mem_page = Window(m.to).page /\ Window(m.to).page = p
        BY <1>5, <2>12, <2>13, <2>16, <2>19, <3>3
      <4>2. gen' = DoneBack(moved, m)
        BY <3>1, <3>2
      <4>3. QED
        BY <1>2, <2>12, <2>20, <3>3, <4>1, <4>2, ForwardBegins
    <3>5. BackDone(gen', moved, match)
      BY <1>2, <3>1, <3>3, DoneBackFacts
    <3>6. /\ gen' \in Generator /\ SameOutput(gen', gen) /\ gen'.ok = gen.ok /\ gen'.cksums = gen.cksums
          /\ gen'.table = gen.table /\ gen'.xpos.mem_page = p /\ gen'.ypos.mem_page = y.page
      BY <2>15, <2>16, <2>19, <3>5 DEF BackDone, SameScan, SameOutput
    <3>7. Built(gen', out)
      BY <1>1, <3>6, BuiltStays
    <3>8. Keeps
      BY <1>1, <1>2, <1>6, <1>9, <1>10, <2>7, <2>12, <2>18, <3>1, <3>4, <3>6, <3>7 DEF Keeps, Scans, Scanning
    <3>9. QED
      BY <1>1, <1>10, <2>18, <3>1, <3>4, <3>8, MatchesOn
  <2>22. CASE ~(run < rem)
    <3>1. gen' = moved /\ pc' = "back" /\ run = rem
      BY <2>9, <2>10, <2>18, <2>22
    <3>2. /\ gen' \in Generator /\ SameOutput(gen', gen) /\ gen'.ok = gen.ok /\ gen'.cksums = gen.cksums
          /\ gen'.table = gen.table /\ gen'.xpos = x /\ gen'.ypos = z
      BY <2>19, <3>1 DEF SameScan
    <3>3. Built(gen', out)
      BY <1>1, <3>2, BuiltStays
    <3>4. Keeps
      BY <1>1, <1>2, <1>6, <1>9, <1>10, <2>7, <2>12, <2>15, <2>16, <2>18, <3>1, <3>2, <3>3 DEF Keeps, Scans, Scanning
    <3>5. BackAt(in, gen', m)
      <4>1. MatchAt(in, gen', m)
        BY <2>20, <3>1
      <4>2. m.back + gen'.to_output_pos <= m.to
        BY <2>12, <2>13, <3>2 DEF SameOutput
      <4>3. x = [Window(m.to) EXCEPT !.off = @ - m.back]
        <5>1. Window(m.to) = [page |-> p, off |-> r, mem_page |-> p]
          BY <1>4, <2>12 DEF WindowNumbers
        <5>2. [Window(m.to) EXCEPT !.off = @ - m.back] = [page |-> p, off |-> r - (back + run), mem_page |-> p]
          BY <2>12, <5>1
        <5>3. x = [page |-> p, off |-> (r - back) - run, mem_page |-> p]
          BY <2>16 DEF Position
        <5>4. (r - back) - run = r - (back + run)
          BY <1>5, <2>13
        <5>5. QED
          BY <5>2, <5>3, <5>4
      <4>4. z.off < PageSize /\ XPOS(z) = m.src - m.back
        <5>1. PICK s \in Nat, a \in Nat : s = y.page * PageSize /\ a = y.off
          BY <2>2, <2>3
        <5>2. a - run < PageSize /\ s + (a - run) = src - (back + run)
          <6>1. a \in 1 .. PageSize /\ s + a = src - back /\ run > 0 /\ run <= a /\ run \in Nat
            BY <2>2, <2>3, <2>9, <3>1, <5>1
          <6>2. src \in Nat /\ back \in Nat /\ PageSize \in Nat
            BY <1>5
          <6>3. QED
            BY <6>1, <6>2
        <5>3. XPOS(z) = s + (a - run) /\ z.off = a - run
          BY <2>15, <5>1 DEF XPOS
        <5>4. QED
          BY <2>12, <5>2, <5>3
      <4>5. QED
        BY <2>12, <3>2, <4>1, <4>2, <4>3, <4>4 DEF BackAt
    <3>6. QED
      BY <1>1, <1>10, <2>18, <3>1, <3>4, <3>5, MatchesOn
  <2>23. QED
    BY <2>21, <2>22
<1>13. QED
  BY <1>11, <1>12

\* The sums are those of the bytes, whatever else the handle has changed.
LEMMA SameSums ==
  ASSUME NEW h, h.data \in Seq(Byte), NEW g, g.data = h.data, NEW p, p.mem_page \in Nat, NEW off \in Nat
  PROVE  InitQueryChecksum(g, p, off) = InitQueryChecksum(h, p, off)
<1>1. PICK S, H : SumsTo(S, H, h, p, off)
  BY SumsThere
<1>2. \A k : ByteAt(g, p, k) = ByteAt(h, p, k)
  BY DEF ByteAt, OnPage, PagesOf
<1>3. SumsTo(S, H, g, p, off)
  BY <1>1, <1>2 DEF SumsTo
<1>4. g.data \in Seq(Byte)
  OBVIOUS
<1>5. QED
  BY <1>1, <1>3, <1>4, SumIs

\* A position moves on over its page, and to the next one from its end.
Flipped(x, run, stops) ==
  IF stops THEN [x EXCEPT !.off = @ + run] ELSE FLIP_FORWARD([x EXCEPT !.off = @ + run])

\* A position at the end of its page is at the beginning of the next one.
LEMMA FlippedFacts ==
  ASSUME NEW x \in Position, NEW run \in Nat, NEW stops \in BOOLEAN, x.off + run <= PageSize,
         stops => x.off + run < PageSize, NEW f, f = Flipped(x, run, stops)
  PROVE  /\ f \in Position /\ f.mem_page = x.mem_page /\ f.off < PageSize
         /\ XPOS(f) = XPOS(x) + run /\ f.page <= x.page + 1
<1> DEFINE y == [x EXCEPT !.off = @ + run]
<1>1. x.page \in Nat /\ x.off \in Nat /\ PageSize \in Nat \ {0} /\ x.page * PageSize \in Nat
      /\ (x.page + 1) * PageSize = x.page * PageSize + PageSize
  BY Sizes, BlockStarts DEF Position
<1>2. PlacedAt(y, x.page, x.off + run, x.mem_page)
  <2>1. x.off + run \in Nat
    BY <1>1
  <2>2. y = [x EXCEPT !.off = x.off + run]
    OBVIOUS
  <2> HIDE DEF y
  <2>3. QED
    BY <1>1, <2>1, <2>2, PositionFacts
<1>3. f = IF stops \/ y.off # PageSize THEN y ELSE [y EXCEPT !.page = @ + 1, !.off = 0]
  BY DEF Flipped, FLIP_FORWARD
<1> HIDE DEF y
<1>4. CASE stops \/ y.off # PageSize
  <2>1. f = y /\ y.off < PageSize
    BY <1>1, <1>2, <1>3, <1>4 DEF PlacedAt
  <2>2. XPOS(y) = XPOS(x) + run
    BY <1>1, <1>2 DEF PlacedAt, XPOS
  <2>3. QED
    BY <1>1, <1>2, <2>1, <2>2 DEF PlacedAt
<1>5. CASE ~(stops \/ y.off # PageSize)
  <2>1. y \in Position /\ y.page = x.page /\ y.off = x.off + run /\ y.off = PageSize /\ y.mem_page = x.mem_page
    BY <1>2, <1>5 DEF PlacedAt
  <2>2. f = [y EXCEPT !.page = x.page + 1, !.off = 0] /\ x.page + 1 \in Nat /\ 0 \in Nat
    BY <1>1, <1>3, <1>5, <2>1
  <2>3. PlacedAt(f, x.page + 1, 0, x.mem_page)
    <3>1. PICK q \in Nat : q = x.page + 1
      BY <2>2
    <3>2. f = [y EXCEPT !.page = q, !.off = 0]
      BY <2>2, <3>1
    <3>3. PlacedAt([y EXCEPT !.page = q, !.off = 0], q, 0, y.mem_page)
      BY <2>1, <2>2, PositionFacts, ZenonT(40)
    <3>4. QED
      BY <2>1, <3>1, <3>2, <3>3
  <2>4. XPOS(f) = XPOS(x) + run
    BY <1>1, <2>1, <2>3 DEF PlacedAt, XPOS
  <2>5. QED
    BY <1>1, <2>3, <2>4 DEF PlacedAt
<1>6. QED
  BY <1>4, <1>5

\* What agrees behind a match joins it.
AgreesOn(n, m, run) ==
  /\ n \in Matches /\ Agree(n) /\ n.to = m.to /\ n.src = m.src /\ n.back = m.back /\ n.fwd = m.fwd + run

\* More bytes behind the match agree.
LEMMA AgreeOn ==
  ASSUME job \in Inputs, NEW m \in Matches, Agree(m), NEW run \in Nat, NEW one \in BOOLEAN,
         \A i \in 1 .. run : Target[m.to + m.fwd + i] = job.source[m.src + m.fwd + i],
         NEW n, n = [m EXCEPT !.fwd = @ + run, !.one_insert = one]
  PROVE  AgreesOn(n, m, run) /\ n.one_insert = one
<1>1. m.to \in Nat /\ m.src \in Nat /\ m.back \in Nat /\ m.fwd \in Nat /\ m.fwd + run \in Nat
  BY DEF Matches
<1>2. n \in Matches /\ n.to = m.to /\ n.src = m.src /\ n.back = m.back /\ n.fwd = m.fwd + run
      /\ n.one_insert = one
  BY <1>1 DEF Matches
<1>3. ASSUME NEW i \in 1 .. n.back + n.fwd
      PROVE  Target[n.to - n.back + i] = job.source[n.src - n.back + i]
  <2>1. i \in 1 .. (m.back + m.fwd) + run
    BY <1>1, <1>2
  <2>2. CASE i <= m.back + m.fwd
    <3>1. i \in 1 .. m.back + m.fwd
      BY <1>1, <2>1, <2>2
    <3>2. QED
      BY <1>2, <3>1 DEF Agree
  <2>3. CASE i > m.back + m.fwd
    <3>1. PICK k \in 1 .. run : k = i - (m.back + m.fwd)
      BY <1>1, <2>1, <2>3
    <3>2. m.to + m.fwd + k = n.to - n.back + i /\ m.src + m.fwd + k = n.src - n.back + i
      BY <1>1, <1>2, <2>1, <3>1
    <3>3. QED
      BY <3>2
  <2>4. QED
    BY <1>1, <2>1, <2>2, <2>3
<1>4. QED
  BY <1>2, <1>3 DEF Agree, AgreesOn

\* Where the match is extended, and how far on this turn: a turn never leaves the
\* pages of its two positions.
TurnOf(h, x, p, place, g) ==
  /\ g.status = "ok" /\ h.data = g.data /\ InTurn(g) /\ UsedBy(g, x.page)
  /\ h.md5_page <= g.md5_page /\ x.page < g.md5_page /\ x.page \in PageNumbers
  /\ p \in Position /\ p.page = x.page /\ p.off = x.off /\ p.mem_page = x.page
  /\ x.page \in Nat /\ x.off \in Nat /\ x.off < OnPage(h, x.page) /\ OnPage(h, x.page) \in Nat
  /\ OnPage(h, x.page) <= PageSize /\ x.page * PageSize \in Nat /\ x.page * PageSize + x.off = place
  /\ x.page <= PagesOf(h) /\ x.page * PageSize + OnPage(h, x.page) <= Len(h.data)

\* A turn of the forward loop maps the page of a position.
LEMMA TurnFacts ==
  ASSUME job \in Inputs, NEW h, NEW seek, FileOf(h, seek), AFile(h.data), InTurn(h),
         NEW x \in Position, x.off < PageSize, UsedBy(h, x.mem_page),
         x.page <= h.md5_page \/ Digested(h), XPOS(x) < Len(h.data),
         NEW g, g = MapPos(h, x), NEW p, p = InMem(x)
  PROVE  TurnOf(h, x, p, XPOS(x), g) /\ FileOf(g, seek)
<1>1. h.data \in Seq(Byte) /\ PagesOf(h) \in Nat /\ h.md5_page \in Nat
  BY PagesThere
<1>2. x.page \in Nat /\ x.off \in 0 .. PageSize - 1 /\ x.off \in Nat /\ x.page * PageSize + x.off = XPOS(x)
      /\ PageSize \in Nat
  BY Sizes DEF Position, XPOS
<1>3. /\ x.page * PageSize \in Nat /\ OnPage(h, x.page) \in Int /\ OnPage(h, x.page) <= PageSize
      /\ x.off < OnPage(h, x.page)
  BY <1>1, <1>2, PlaceOnPage
<1>4. x.page <= PagesOf(h) /\ OnPage(h, x.page) \in Nat /\ x.page * PageSize + OnPage(h, x.page) <= Len(h.data)
  BY <1>1, <1>2, <1>3, PlaceOnPage
<1>5. x.page <= h.md5_page
  BY <1>1, <1>2, <1>4 DEF Digested
<1>6. TurnsTo(g, h, seek, x.page)
  BY <1>5, MapPosIs
<1>7. /\ g.status = "ok" /\ FileOf(g, seek) /\ g.data = h.data /\ UsedBy(g, x.page) /\ InTurn(g)
      /\ h.md5_page <= g.md5_page /\ x.page < g.md5_page /\ x.page \in PageNumbers
  BY <1>4, <1>6 DEF TurnsTo
<1>8. p \in Position /\ p.page = x.page /\ p.off = x.off /\ p.mem_page = x.page
  <2>1. x.page \in PageOrNull
    BY <1>7 DEF PageOrNull
  <2>2. PlacedAt(p, x.page, x.off, x.page)
    BY <1>2, <2>1, PositionFacts DEF InMem
  <2>3. QED
    BY <2>2 DEF PlacedAt
<1>9. QED
  BY <1>2, <1>3, <1>4, <1>7, <1>8 DEF TurnOf

\* match_forward: a turn of the loop, with the insert before a page is left.
LEMMA ForwardStep ==
  ASSUME XInv, Forward
  PROVE  XInv'
<1>1. /\ Typed /\ Runs /\ Built(gen, out) /\ Fresh(out) /\ Scans /\ ForwardAt(in, gen, match)
  BY DEF XInv, Forward, Generating, Scanning
<1>2. /\ job \in Inputs /\ gen \in Generator /\ match \in Matches /\ out \in Written
      /\ FileOf(in, FALSE) /\ FileOf(from, TRUE) /\ in.data = job.target /\ from.data = job.source
      /\ in.data = Target /\ InTurn(in) /\ InTurn(from) /\ Len(from.data) = FromLength /\ Len(in.data) = InLength
      /\ AFile(in.data) /\ AFile(from.data)
  BY <1>1 DEF Typed, Runs, Target, FromLength, InLength, AFile
<1>3. MatchAt(in, gen, match)
  BY <1>1 DEF ForwardAt
<1>4. PICK p, r : WindowNumbers(in, gen, match, p, r)
  BY <1>2, <1>3, MatchNumbers
<1> DEFINE to == match.to
           src == match.src
           back == match.back
           fwd == match.fwd
           T == gen.to_output_pos
           hy == MapPos(from, gen.ypos)
           hx == MapPos(in, gen.xpos)
           x == InMem(gen.xpos)
           y == InMem(gen.ypos)
           turns == ~match.one_insert /\ gen.xpos.page # gen.xpos.mem_page
           len == IF turns THEN to - back - T ELSE 0
           max == ForwardMax(match)
           rem == Min({Rem(in, x) - x.off, Rem(from, y) - y.off, max - fwd})
           run == AgreeFrom(hx, x, hy, y, rem)
           stops == run < rem
           fx == Flipped(x, run, stops)
           fy == Flipped(y, run, stops)
           f == Inserted(gen, len)
           o == InsertWrite(gen, out, in, gen.xpos, len)
           one == match.one_insert \/ turns
           m == [match EXCEPT !.fwd = @ + run, !.one_insert = one]
<1>5. /\ to \in Nat /\ src \in Nat /\ back \in Nat /\ fwd \in Nat /\ T \in Nat /\ p \in Nat /\ r \in Nat /\ r < PageSize
      /\ to = p * PageSize + r /\ p * PageSize \in Nat /\ back <= r /\ back <= src /\ p \in PageNumbers
      /\ PageSize \in Nat \ {0} /\ QUERY_SIZE_POW \in Nat \ {0} /\ FromLength \in Nat /\ InLength \in Nat
      /\ src + QUERY_SIZE_POW <= FromLength /\ r + QUERY_SIZE_POW <= OnPage(in, p) /\ OnPage(in, p) \in Nat
      /\ At(to).page = p /\ At(to).off = r /\ Window(to).page = p /\ to + QUERY_SIZE_POW <= InLength
      /\ p * PageSize <= T /\ p <= PagesOf(in)
  <2>1. /\ PageSize \in Nat \ {0} /\ QUERY_SIZE_POW \in Nat \ {0} /\ FromLength \in Nat /\ InLength \in Nat
        /\ T \in Nat
    BY <1>2, Sizes, JobFacts DEF Generator
  <2>2. /\ to \in Nat /\ src \in Nat /\ back \in Nat /\ fwd \in Nat /\ p \in Nat /\ r \in 0 .. PageSize - 1
        /\ to = p * PageSize + r /\ p * PageSize \in Nat /\ back <= r /\ back <= src /\ p \in PageNumbers
        /\ src + QUERY_SIZE_POW <= FromLength /\ r + QUERY_SIZE_POW <= OnPage(in, p) /\ OnPage(in, p) \in Nat
        /\ At(to).page = p /\ At(to).off = r /\ to + QUERY_SIZE_POW <= InLength
        /\ p * PageSize <= T /\ p <= PagesOf(in)
        /\ Window(to) = [page |-> p, off |-> r, mem_page |-> p]
    BY <1>4 DEF WindowNumbers
  <2>3. r \in Nat /\ r < PageSize /\ Window(to).page = p
    BY <2>1, <2>2
  <2>4. QED
    BY <2>1, <2>2, <2>3
<1>6. max \in Int /\ max <= InLength - to /\ max <= FromLength - src
  <2>1. InLength - to \in Int /\ FromLength - src \in Int
    BY <1>5
  <2>2. QED
    BY <2>1, MinOfTwo DEF ForwardMax
<1>7. fwd < max
  BY DEF Forward
<1>8. /\ gen.xpos \in Position /\ gen.xpos.off < PageSize /\ XPOS(gen.xpos) = to + fwd /\ XPOS(gen.xpos) < Len(in.data)
      /\ gen.ypos \in Position /\ gen.ypos.off < PageSize /\ XPOS(gen.ypos) = src + fwd /\ XPOS(gen.ypos) < Len(from.data)
      /\ gen.xpos.page <= in.md5_page /\ Digested(from)
      /\ UsedBy(in, gen.xpos.mem_page) /\ UsedBy(from, gen.ypos.mem_page)
  <2>1. gen.xpos.off < PageSize /\ XPOS(gen.xpos) = to + fwd /\ gen.ypos.off < PageSize /\ XPOS(gen.ypos) = src + fwd
    BY <1>1 DEF ForwardAt
  <2>2. gen.xpos \in Position /\ gen.ypos \in Position
    BY <1>2 DEF Generator
  <2> HIDE DEF max
  <2>3. to + fwd < InLength /\ src + fwd < FromLength
    BY <1>5, <1>6, <1>7
  <2>4. QED
    BY <1>1, <1>2, <2>1, <2>2, <2>3 DEF Scans
<1>9. TurnOf(in, gen.xpos, x, to + fwd, hx) /\ FileOf(hx, FALSE)
  BY <1>2, <1>8, TurnFacts
<1>10. TurnOf(from, gen.ypos, y, src + fwd, hy) /\ FileOf(hy, TRUE)
  BY <1>2, <1>8, TurnFacts
<1>11. /\ job' = job /\ exit' = exit
       /\ in' = hx /\ from' = hy /\ out' = o /\ match' = m
       /\ gen' = [f EXCEPT !.xpos = fx, !.ypos = fy]
       /\ pc' = (IF run < rem THEN "matched" ELSE "forward")
  <2>1. hx.status = "ok" /\ hy.status = "ok"
    BY <1>9, <1>10 DEF TurnOf
  <2>2. QED
    BY <2>1 DEF Forward, Flipped
<1> HIDE DEF hx, hy, x, y
<1>12. /\ x \in Position /\ x.page = gen.xpos.page /\ x.off = gen.xpos.off /\ x.mem_page = x.page
       /\ y \in Position /\ y.page = gen.ypos.page /\ y.off = gen.ypos.off /\ y.mem_page = y.page
       /\ x.page \in Nat /\ x.off \in Nat /\ x.off < OnPage(in, x.page) /\ OnPage(in, x.page) \in Nat
       /\ y.page \in Nat /\ y.off \in Nat /\ y.off < OnPage(from, y.page) /\ OnPage(from, y.page) \in Nat
       /\ OnPage(in, x.page) <= PageSize /\ OnPage(from, y.page) <= PageSize
       /\ x.page * PageSize \in Nat /\ x.page * PageSize + x.off = to + fwd
       /\ y.page * PageSize \in Nat /\ y.page * PageSize + y.off = src + fwd
       /\ x.page * PageSize + OnPage(in, x.page) <= InLength
       /\ y.page * PageSize + OnPage(from, y.page) <= FromLength
       /\ hx.data = in.data /\ hy.data = from.data
       /\ InTurn(hx) /\ InTurn(hy) /\ UsedBy(hx, x.page) /\ UsedBy(hy, y.page)
       /\ in.md5_page <= hx.md5_page /\ from.md5_page <= hy.md5_page /\ x.page < hx.md5_page
  BY <1>2, <1>9, <1>10 DEF TurnOf
<1>13. /\ rem \in Nat /\ rem > 0 /\ x.off + rem <= OnPage(in, x.page) /\ y.off + rem <= OnPage(from, y.page)
       /\ fwd + rem <= max
  <2>1. rem = Min({OnPage(in, x.page) - x.off, OnPage(from, y.page) - y.off, max - fwd})
    BY DEF Rem
  <2>2. OnPage(in, x.page) - x.off \in Int /\ OnPage(from, y.page) - y.off \in Int /\ max - fwd \in Int
    BY <1>5, <1>6, <1>12
  <2> HIDE DEF rem, max
  <2>3. /\ rem \in {OnPage(in, x.page) - x.off, OnPage(from, y.page) - y.off, max - fwd}
        /\ rem <= OnPage(in, x.page) - x.off /\ rem <= OnPage(from, y.page) - y.off /\ rem <= max - fwd
    BY <2>1, <2>2, MinOfThree
  <2>4. OnPage(in, x.page) - x.off > 0 /\ OnPage(from, y.page) - y.off > 0 /\ max - fwd > 0
    BY <1>5, <1>6, <1>7, <1>12
  <2>5. rem \in Nat /\ rem > 0
    BY <2>2, <2>3, <2>4
  <2>6. QED
    BY <1>5, <1>6, <1>12, <2>3, <2>5
<1> HIDE DEF rem, max
<1>14. /\ run \in 0 .. rem
       /\ \A i \in 1 .. run : ByteAt(hx, x, x.off + i - 1) = ByteAt(hy, y, y.off + i - 1)
       /\ run < rem => ByteAt(hx, x, x.off + (run + 1) - 1) # ByteAt(hy, y, y.off + (run + 1) - 1)
  <2> HIDE DEF run
  <2>1. run = AgreeFrom(hx, x, hy, y, rem)
    BY DEF run
  <2>2. QED
    BY <1>13, <2>1, AgreeFromIs
<1> HIDE DEF run
<1>15. ASSUME NEW i \in 1 .. rem
       PROVE  /\ ByteAt(hx, x, x.off + i - 1) = Target[to + fwd + i]
              /\ ByteAt(hy, y, y.off + i - 1) = job.source[src + fwd + i]
  <2>1. PICK a \in Nat, b \in Nat : a = x.off + i - 1 /\ b = y.off + i - 1
    BY <1>12, <1>13
  <2>2. a < OnPage(in, x.page) /\ b < OnPage(from, y.page)
    BY <1>12, <1>13, <2>1
  <2>3. OnPage(hx, x.page) = OnPage(in, x.page) /\ OnPage(hy, y.page) = OnPage(from, y.page)
    BY <1>12 DEF OnPage, PagesOf
  <2>4. /\ Target \in Seq(Byte) /\ hx.data = Target /\ x.page \in Nat /\ x.mem_page = x.page /\ a < OnPage(hx, x.page)
        /\ job.source \in Seq(Byte) /\ hy.data = job.source /\ y.page \in Nat /\ y.mem_page = y.page /\ b < OnPage(hy, y.page)
    BY <1>2, <1>12, <2>2, <2>3, JobFacts
  <2>5. ByteAt(hx, x, a) = Target[x.page * PageSize + a + 1]
    BY <2>1, <2>4, TargetByte
  <2>6. ByteAt(hy, y, b) = job.source[y.page * PageSize + b + 1]
    BY <2>1, <2>4, TargetByte
  <2>7. x.page * PageSize + a + 1 = to + fwd + i /\ y.page * PageSize + b + 1 = src + fwd + i
    <3>1. PICK s \in Nat, t \in Nat : s = x.page * PageSize /\ t = y.page * PageSize
      BY <1>12
    <3>2. s + a + 1 = to + fwd + i /\ t + b + 1 = src + fwd + i
      BY <1>5, <1>12, <2>1, <3>1
    <3>3. QED
      BY <3>1, <3>2
  <2>8. QED
    BY <2>1, <2>5, <2>6, <2>7
<1>16. /\ AgreesOn(m, match, run) /\ m.one_insert = one
  <2>1. \A i \in 1 .. run : Target[to + fwd + i] = job.source[src + fwd + i]
    <3>1. SUFFICES ASSUME NEW i \in 1 .. run PROVE Target[to + fwd + i] = job.source[src + fwd + i]
      OBVIOUS
    <3>2. i \in 1 .. rem
      BY <1>13, <1>14
    <3>3. QED
      BY <1>14, <1>15, <3>2
  <2>2. Agree(match) /\ run \in Nat /\ one \in BOOLEAN
    BY <1>2, <1>3, <1>13, <1>14 DEF MatchAt, Matches
  <2>3. m = [match EXCEPT !.fwd = @ + run, !.one_insert = one]
    OBVIOUS
  <2> HIDE DEF m, one
  <2>4. QED
    BY <1>2, <2>1, <2>2, <2>3, AgreeOn
<1>17. /\ m \in Matches /\ Agree(m) /\ m.to = to /\ m.src = src /\ m.back = back /\ m.fwd = fwd + run /\ m.one_insert = one
       /\ run \in Nat /\ run <= rem
  BY <1>13, <1>14, <1>16 DEF AgreesOn
<1> HIDE DEF m
<1>18. /\ fx \in Position /\ fx.mem_page = x.page /\ fx.off < PageSize /\ XPOS(fx) = to + fwd + run /\ fx.page <= x.page + 1
       /\ fy \in Position /\ fy.mem_page = y.page /\ fy.off < PageSize /\ XPOS(fy) = src + fwd + run
  <2>1. x.off + run <= PageSize /\ y.off + run <= PageSize
        /\ (stops => x.off + run < PageSize /\ y.off + run < PageSize)
    BY <1>5, <1>12, <1>13, <1>17
  <2>2. stops \in BOOLEAN /\ XPOS(x) = to + fwd /\ XPOS(y) = src + fwd
    BY <1>12 DEF XPOS
  <2>3. fx = Flipped(x, run, stops) /\ fy = Flipped(y, run, stops)
    OBVIOUS
  <2> HIDE DEF fx, fy, stops
  <2>4. fx \in Position /\ fx.mem_page = x.mem_page /\ fx.off < PageSize /\ XPOS(fx) = XPOS(x) + run /\ fx.page <= x.page + 1
    BY <1>12, <1>17, <2>1, <2>2, <2>3, FlippedFacts
  <2>5. fy \in Position /\ fy.mem_page = y.mem_page /\ fy.off < PageSize /\ XPOS(fy) = XPOS(y) + run
    BY <1>12, <1>17, <2>1, <2>2, <2>3, FlippedFacts
  <2>6. QED
    BY <1>12, <2>2, <2>4, <2>5
<1> HIDE DEF fx, fy
<1>19. /\ IF match.one_insert THEN back + T = to /\ fwd >= QUERY_SIZE_POW
          ELSE back + T <= to /\ gen.xpos.mem_page = p
       /\ gen.xpos.mem_page # Null
  BY <1>1, <1>5 DEF ForwardAt
<1>20. turns => T + len = to - back /\ fwd >= QUERY_SIZE_POW /\ gen.xpos.mem_page = p /\ back + T <= to
  <2>1. SUFFICES ASSUME turns
                 PROVE  T + len = to - back /\ fwd >= QUERY_SIZE_POW /\ gen.xpos.mem_page = p /\ back + T <= to
    OBVIOUS
  <2>2. gen.xpos.mem_page = p /\ back + T <= to /\ x.page # p
    BY <1>12, <1>19, <2>1
  <2>3. T + len = to - back
    BY <1>5, <2>1
  <2>4. x.page > p
    <3>6. x.page \in Nat /\ p \in Nat
      BY <1>5, <1>12
    <3>1. SUFFICES ASSUME x.page < p PROVE FALSE
      BY <2>2, <3>6
    <3>2. x.page * PageSize + PageSize <= p * PageSize
      BY <1>5, <1>12, <3>1, BlockStarts
    <3>3. PICK s \in Nat, t \in Nat : s = x.page * PageSize /\ t = p * PageSize
      BY <1>5, <1>12
    <3>4. s + x.off = to + fwd /\ to = t + r /\ s + PageSize <= t /\ x.off < PageSize
      BY <1>5, <1>8, <1>12, <3>2, <3>3
    <3>5. QED
      BY <1>5, <1>12, <3>3, <3>4
  <2>5. fwd >= QUERY_SIZE_POW
    <3>1. p * PageSize + PageSize <= x.page * PageSize
      BY <1>5, <1>12, <2>4, BlockStarts
    <3>2. PICK s \in Nat, t \in Nat : s = x.page * PageSize /\ t = p * PageSize
      BY <1>5, <1>12
    <3>3. s + x.off = to + fwd /\ to = t + r /\ t + PageSize <= s
      BY <1>5, <1>12, <3>1, <3>2
    <3>4. r + QUERY_SIZE_POW <= PageSize
      <4>1. OnPage(in, p) <= PageSize
        <5>1. in.data \in Seq(Byte) /\ 0 \in 0 .. PageSize - 1
          BY <1>2, <1>5, JobFacts
        <5>2. QED
          BY <1>5, <5>1, PlaceOnPage
      <4>2. QED
        BY <1>5, <4>1
    <3>5. QED
      BY <1>5, <1>12, <3>2, <3>3, <3>4
  <2>6. QED
    BY <2>2, <2>3, <2>5
<1>21. len \in Nat /\ T + len <= to /\ (~turns => len = 0)
  <2>1. CASE turns
    <3>1. len = to - back - T
      BY <2>1
    <3> HIDE DEF len, turns
    <3>2. QED
      BY <1>5, <1>20, <2>1, <3>1
  <2>2. CASE ~turns
    <3>1. len = 0
      BY <2>2
    <3> HIDE DEF len, turns
    <3>2. QED
      BY <1>5, <1>19, <2>2, <3>1
  <2>3. QED
    BY <2>1, <2>2
<1>22. InsertHolds(f, o, gen, out, len)
  <2>1. len > 0 => /\ gen.xpos.mem_page \in Nat /\ gen.xpos.mem_page * PageSize <= T
                   /\ T + len <= gen.xpos.mem_page * PageSize + OnPage(in, gen.xpos.mem_page)
    <3>1. SUFFICES ASSUME len > 0
                   PROVE  /\ p * PageSize <= T /\ T + len <= p * PageSize + OnPage(in, p) /\ gen.xpos.mem_page = p
      BY <1>5
    <3>2. gen.xpos.mem_page = p
      <4> HIDE DEF turns, len
      <4>1. QED
        BY <1>20, <1>21, <3>1
    <3>3. PICK s \in Nat : s = p * PageSize
      BY <1>5
    <3>4. T + len <= s + r /\ r <= OnPage(in, p)
      <4> HIDE DEF turns, len
      <4>1. QED
        BY <1>5, <1>21, <3>3
    <3>5. T + len <= s + OnPage(in, p)
      <4> HIDE DEF turns, len
      <4>1. QED
        BY <1>5, <1>21, <3>3, <3>4
    <3>6. QED
      BY <1>5, <3>2, <3>3, <3>5
  <2>2. f = Inserted(gen, len) /\ o = InsertWrite(gen, out, in, gen.xpos, len)
    OBVIOUS
  <2> HIDE DEF f, o, len, turns
  <2>3. QED
    BY <1>1, <1>2, <1>21, <2>1, <2>2, InsertedFrom
<1>23. f \in Generator /\ SamePlace(f, gen) /\ o \in Written /\ f.to_output_pos = T + len /\ Built(f, o) /\ Fresh(o)
  BY <1>22 DEF InsertHolds
<1> HIDE DEF f, o
<1>24. SameScan(gen', f) /\ gen'.xpos = fx /\ gen'.ypos = fy
  <2>1. gen' = Moved(f, fx, fy)
    BY <1>11 DEF Moved
  <2>2. QED
    BY <1>18, <1>23, <2>1, Moves
<1>25. /\ gen' \in Generator /\ SameOutput(gen', f) /\ gen'.to_output_pos = T + len
       /\ gen'.ok = gen.ok /\ gen'.cksums = gen.cksums /\ gen'.table = gen.table /\ gen'.sum = gen.sum
  BY <1>23, <1>24 DEF SameScan, SamePlace, SameOutput
<1>26. Built(gen', out')
  BY <1>11, <1>23, <1>25, BuiltStays
<1>27. Keeps
  <2>1. fx.page <= hx.md5_page
    <3>1. hx.md5_page \in Nat /\ fx.page \in Nat
      BY <1>9, <1>18 DEF FileOf, Handles, Position
    <3>2. QED
      BY <1>12, <1>18, <3>1
  <2>2. gen.ok
    BY <1>1 DEF Scans
  <2>3. pc' \in Scanning
    BY <1>11 DEF Scanning
  <2>4. UsedBy(in', gen'.xpos.mem_page) /\ UsedBy(from', gen'.ypos.mem_page)
    BY <1>11, <1>12, <1>18, <1>24
  <2>5. QED
    BY <1>9, <1>10, <1>11, <1>12, <1>17, <1>23, <1>24, <1>25, <1>26, <2>1, <2>2, <2>3, <2>4 DEF Keeps
<1>28. MatchAt(hx, gen', m)
  <2>1. Window(to) = [page |-> p, off |-> r, mem_page |-> p]
    BY <1>4 DEF WindowNumbers
  <2>2. EndsOn(Window(to), T + len)
    <3>1. p * PageSize <= T + len
      <4> HIDE DEF len
      <4>1. PICK s \in Nat : s = p * PageSize
        BY <1>5
      <4>2. QED
        BY <1>5, <1>21, <4>1
    <3>2. XPOS(Window(to)) = to /\ Window(to).page = p /\ Window(to).off = r
      BY <1>5, <2>1 DEF XPOS
    <3>3. to <= InLength
      BY <1>5
    <3>4. QED
      BY <1>5, <1>21, <3>1, <3>2, <3>3 DEF EndsOn
  <2>3. r + QUERY_SIZE_POW <= Rem(hx, Window(to)) /\ Window(to).off = r
    <3>1. OnPage(hx, p) = OnPage(in, p)
      BY <1>12 DEF OnPage, PagesOf
    <3>2. Rem(hx, Window(to)) = OnPage(hx, p) /\ Window(to).off = r
      BY <2>1 DEF Rem
    <3>3. QED
      BY <1>5, <3>1, <3>2
  <2>4. p <= hx.md5_page
    <3>1. p <= in.md5_page
      BY <1>3, <1>5 DEF MatchAt
    <3>2. in.md5_page \in Nat /\ hx.md5_page \in Nat
      BY <1>2, <1>9 DEF FileOf, Handles
    <3>3. QED
      BY <1>5, <1>12, <3>1, <3>2
  <2>5. gen.sum = InitQueryChecksum(hx, Window(to), r)
    <3>1. gen.sum = InitQueryChecksum(in, Window(to), r)
      BY <1>3, <2>3 DEF MatchAt
    <3>4. Window(to).mem_page = p
      BY <2>1
    <3>2. Window(to).mem_page \in Nat /\ in.data \in Seq(Byte) /\ r \in Nat
      BY <1>2, <1>5, <3>4, JobFacts
    <3>3. QED
      BY <1>12, <3>1, <3>2, SameSums
  <2> HIDE DEF len
  <2>6. QED
    BY <1>5, <1>17, <1>25, <2>2, <2>3, <2>4, <2>5 DEF MatchAt
<1>29. ForwardAt(hx, gen', m)
  <2>1. m.fwd <= ForwardMax(m)
    <3>1. ForwardMax(m) = max
      BY <1>17 DEF ForwardMax, max
    <3>2. QED
      BY <1>5, <1>6, <1>13, <1>17, <3>1
  <2>2. XPOS(gen'.xpos) = m.to + m.fwd /\ XPOS(gen'.ypos) = m.src + m.fwd
    BY <1>5, <1>17, <1>18, <1>24
  <2>3. gen'.xpos.mem_page # Null
    BY <1>12, <1>18, <1>24 DEF Null
  <2>4. IF one THEN back + (T + len) = to /\ fwd + run >= QUERY_SIZE_POW
        ELSE back + (T + len) <= to /\ x.page = p
    <3>1. CASE turns
      <4>1. one
        BY <3>1
      <4> HIDE DEF one, turns, len
      <4>2. QED
        BY <1>5, <1>17, <1>20, <1>21, <3>1, <4>1
    <3>2. CASE ~turns /\ match.one_insert
      <4>1. one
        BY <3>2
      <4> HIDE DEF one, turns, len
      <4>2. QED
        BY <1>5, <1>17, <1>19, <1>21, <3>2, <4>1
    <3>3. CASE ~turns /\ ~match.one_insert
      <4>1. ~one /\ x.page = p
        BY <1>12, <1>19, <3>3
      <4> HIDE DEF one, turns, len
      <4>2. QED
        BY <1>5, <1>17, <1>19, <1>21, <3>3, <4>1
    <3>4. QED
      BY <3>1, <3>2, <3>3
  <2> HIDE DEF one, len
  <2>5. QED
    BY <1>5, <1>17, <1>18, <1>24, <1>25, <1>28, <2>1, <2>2, <2>3, <2>4 DEF ForwardAt
<1>30. run < rem => EndsAt(m)
  <2>1. SUFFICES ASSUME run < rem PROVE Target[m.to + m.fwd + 1] # job.source[m.src + m.fwd + 1]
    BY DEF EndsAt
  <2>2. run + 1 \in 1 .. rem
    BY <1>13, <1>17, <2>1
  <2>3. Target[to + fwd + (run + 1)] # job.source[src + fwd + (run + 1)]
    BY <1>14, <1>15, <2>1, <2>2
  <2>4. to + fwd + (run + 1) = m.to + m.fwd + 1 /\ src + fwd + (run + 1) = m.src + m.fwd + 1
    BY <1>5, <1>17
  <2>5. QED
    BY <2>3, <2>4
<1>31. QED
  BY <1>1, <1>11, <1>27, <1>29, <1>30, MatchesOn

\* A match that nothing limits but the ends of the files has no end to be found.
LEMMA ForwardEndsStep ==
  ASSUME XInv, ForwardEnds
  PROVE  XInv'
<1>1. /\ Typed /\ Runs /\ Built(gen, out) /\ Fresh(out) /\ Scans /\ ForwardAt(in, gen, match)
  BY DEF XInv, ForwardEnds, Generating, Scanning
<1>2. /\ gen \in Generator /\ match \in Matches /\ out \in Written
      /\ FileOf(in, FALSE) /\ FileOf(from, TRUE) /\ InTurn(in) /\ InTurn(from) /\ job \in Inputs
  BY <1>1 DEF Typed, Runs
<1>3. /\ job' = job /\ exit' = exit /\ in' = in /\ from' = from /\ out' = out /\ gen' = gen /\ match' = match
      /\ pc' = "matched" /\ match.fwd = ForwardMax(match)
  BY DEF ForwardEnds
<1>4. from.md5_page <= from.md5_page
  BY <1>2 DEF FileOf, Handles
<1>5. Keeps
  BY <1>1, <1>2, <1>3, <1>4 DEF Keeps, Scans, Scanning
<1>6. EndsAt(match')
  <2>1. ForwardMax(match) \in Int
    <3>1. InLength - match.to \in Int /\ FromLength - match.src \in Int
      BY <1>2, JobFacts DEF Matches
    <3>2. QED
      BY <3>1, MinOfTwo DEF ForwardMax
  <2>2. QED
    BY <1>3, <2>1 DEF EndsAt
<1>7. ForwardAt(in', gen', match')
  BY <1>1, <1>3
<1>8. QED
  BY <1>1, <1>3, <1>5, <1>6, <1>7, MatchesOn

\* A match that is taken: what precedes it is put out, then the match, and the
\* position is where that ends.
LEMMA FoundStep ==
  ASSUME XInv, Found
  PROVE  XInv'
<1>1. /\ Typed /\ Runs /\ Built(gen, out) /\ Fresh(out) /\ Scans /\ ForwardAt(in, gen, match) /\ EndsAt(match)
  BY DEF XInv, Found, Generating, Scanning
<1>2. /\ job \in Inputs /\ gen \in Generator /\ match \in Matches /\ out \in Written
      /\ FileOf(in, FALSE) /\ FileOf(from, TRUE) /\ InTurn(in) /\ InTurn(from)
      /\ in.data = Target /\ Len(in.data) = InLength
  BY <1>1 DEF Typed, Runs, Target, InLength
<1>3. MatchAt(in, gen, match)
  BY <1>1 DEF ForwardAt
<1>4. PICK p, r : WindowNumbers(in, gen, match, p, r)
  BY <1>2, <1>3, MatchNumbers
<1> DEFINE to == match.to
           src == match.src
           back == match.back
           fwd == match.fwd
           T == gen.to_output_pos
           len == IF match.one_insert THEN 0 ELSE to - back - T
           f == Inserted(gen, len)
           o == InsertWrite(gen, out, in, gen.xpos, len)
           a == src - back
           done == Copied(f, a, src + fwd)
<1>5. /\ to \in Nat /\ src \in Nat /\ back \in Nat /\ fwd \in Nat /\ T \in Nat /\ p \in Nat /\ r \in Nat
      /\ to = p * PageSize + r /\ p * PageSize \in Nat /\ back <= src /\ p \in PageNumbers
      /\ QUERY_SIZE_POW \in Nat \ {0} /\ FromLength \in Nat /\ InLength \in Nat /\ PageSize \in Nat
      /\ r + QUERY_SIZE_POW <= OnPage(in, p) /\ OnPage(in, p) \in Nat
      /\ At(to).page = p /\ p * PageSize <= T
  <2>1. QUERY_SIZE_POW \in Nat \ {0} /\ FromLength \in Nat /\ InLength \in Nat /\ PageSize \in Nat /\ T \in Nat
    BY <1>2, Sizes, JobFacts DEF Generator
  <2>2. /\ to \in Nat /\ src \in Nat /\ back \in Nat /\ fwd \in Nat /\ p \in Nat /\ r \in 0 .. PageSize - 1
        /\ to = p * PageSize + r /\ p * PageSize \in Nat /\ back <= src /\ p \in PageNumbers
        /\ r + QUERY_SIZE_POW <= OnPage(in, p) /\ OnPage(in, p) \in Nat
        /\ At(to).page = p /\ p * PageSize <= T
    BY <1>4 DEF WindowNumbers
  <2>3. r \in Nat
    BY <2>1, <2>2
  <2>4. QED
    BY <2>1, <2>2, <2>3
<1>6. /\ IF match.one_insert THEN back + T = to ELSE back + T <= to /\ gen.xpos.mem_page = p
      /\ gen.xpos.off < PageSize /\ XPOS(gen.xpos) = to + fwd
  <2>1. Window(to).page = p
    BY <1>5 DEF Window
  <2>2. QED
    BY <1>1, <2>1 DEF ForwardAt
<1>7. fwd <= InLength - to /\ fwd <= FromLength - src
  <2>1. InLength - to \in Int /\ FromLength - src \in Int
    BY <1>5
  <2>2. /\ ForwardMax(match) \in Int /\ ForwardMax(match) <= InLength - to
        /\ ForwardMax(match) <= FromLength - src /\ fwd <= ForwardMax(match)
    BY <1>1, <2>1, MinOfTwo DEF ForwardMax, ForwardAt
  <2>3. QED
    BY <1>5, <2>1, <2>2
<1>8. ASSUME to + fwd < InLength, src + fwd < FromLength
      PROVE  Target[to + fwd + 1] # job.source[src + fwd + 1]
  <2>1. InLength - to \in Int /\ FromLength - src \in Int /\ fwd < InLength - to /\ fwd < FromLength - src
    BY <1>5, <1>8
  <2>2. ForwardMax(match) \in {InLength - to, FromLength - src}
    BY <2>1, MinOfTwo DEF ForwardMax
  <2>3. fwd < ForwardMax(match)
    BY <2>1, <2>2
  <2>4. QED
    BY <1>1, <2>3 DEF EndsAt
<1>9. fwd + back >= QUERY_SIZE_POW
  BY DEF Found, LongEnough
<1>10. len \in Nat /\ T + len = to - back /\ (len > 0 => gen.xpos.mem_page = p)
  <2>1. CASE match.one_insert
    <3>1. len = 0
      BY <2>1
    <3> HIDE DEF len
    <3>2. QED
      BY <1>5, <1>6, <2>1, <3>1
  <2>2. CASE ~match.one_insert
    <3>1. len = to - back - T
      BY <2>2
    <3> HIDE DEF len
    <3>2. QED
      BY <1>5, <1>6, <2>2, <3>1
  <2>3. QED
    BY <2>1, <2>2
<1>11. out' = o /\ gen' = done /\ job' = job /\ in' = in /\ from' = from /\ match' = match
       /\ pc' = (IF XPOS(gen.xpos) = done.to_output_pos THEN "scan" ELSE "ended")
       /\ exit' = (IF XPOS(gen.xpos) = done.to_output_pos THEN exit ELSE [exit EXCEPT !.delta = "abort"])
  BY DEF Found
<1>12. InsertHolds(f, o, gen, out, len)
  <2>1. f = Inserted(gen, len) /\ o = InsertWrite(gen, out, in, gen.xpos, len)
    OBVIOUS
  <2> HIDE DEF f, o, len, done
  <2>2. len > 0 => /\ gen.xpos.mem_page \in Nat /\ gen.xpos.mem_page * PageSize <= T
                   /\ T + len <= gen.xpos.mem_page * PageSize + OnPage(in, gen.xpos.mem_page)
    <3>1. SUFFICES ASSUME len > 0
                   PROVE  p * PageSize <= T /\ T + len <= p * PageSize + OnPage(in, p)
      BY <1>5, <1>10
    <3>2. PICK s \in Nat : s = p * PageSize
      BY <1>5
    <3>3. T + len <= s + OnPage(in, p)
      BY <1>5, <1>10, <3>2
    <3>4. QED
      BY <1>5, <3>2, <3>3
  <2>3. QED
    BY <1>1, <1>2, <1>10, <2>1, <2>2, InsertedFrom
<1>13. /\ f \in Generator /\ SamePlace(f, gen) /\ o \in Written /\ f.to_output_pos = T + len
       /\ Built(f, o) /\ Fresh(o)
  BY <1>12 DEF InsertHolds
<1> DEFINE n == back + fwd
<1>14. /\ a \in Nat /\ n \in Nat \ {0} /\ a + n = src + fwd /\ a + n <= FromLength
       /\ f.to_output_pos + n = to + fwd /\ f.to_output_pos + n <= InLength
       /\ f.to_output_pos = to - back
  <2> HIDE DEF len, f
  <2>1. QED
    BY <1>5, <1>7, <1>9, <1>10, <1>13
<1>15. \A i \in 1 .. n : Target[f.to_output_pos + i] = job.source[a + i]
  BY <1>3, <1>14 DEF MatchAt, Agree
<1>16. done = Copied(f, a, a + n)
  BY <1>14
<1> HIDE DEF f, o, done, a, len
<1>17. CopyHolds(done, f, o, n)
  <2>1. f.to_output_pos + n < InLength /\ a + n < FromLength
          => Target[f.to_output_pos + n + 1] # job.source[a + n + 1]
    <3> HIDE DEF n
    <3>1. QED
      BY <1>8, <1>14
  <2> HIDE DEF n
  <2>2. QED
    BY <1>2, <1>13, <1>14, <1>15, <1>16, <2>1, CopyBuilt
<1>18. done \in Generator /\ SamePlace(done, f) /\ done.to_output_pos = to + fwd /\ Built(done, o)
  BY <1>14, <1>17 DEF CopyHolds
<1>19. XPOS(gen.xpos) = done.to_output_pos
  BY <1>6, <1>18
<1>20. pc' = "scan" /\ exit' = exit
  BY <1>11, <1>19
<1>21. /\ gen'.xpos = gen.xpos /\ gen'.ypos = gen.ypos /\ gen'.ok = gen.ok /\ gen'.cksums = gen.cksums
       /\ gen'.table = gen.table /\ gen' \in Generator
  BY <1>11, <1>13, <1>18 DEF SamePlace
<1>22. Keeps
  <2>1. from.md5_page <= from.md5_page
    BY <1>2 DEF FileOf, Handles
  <2>2. QED
    BY <1>1, <1>2, <1>11, <1>13, <1>18, <1>20, <1>21, <2>1 DEF Keeps, Scans, Scanning
<1>23. EndsOn(gen'.xpos, gen'.to_output_pos)
  <2>1. gen'.to_output_pos = XPOS(gen.xpos)
    BY <1>11, <1>19
  <2>2. gen.xpos.page \in Nat /\ gen.xpos.off \in Nat
    BY <1>2 DEF Generator, Position
  <2>3. gen.xpos.page * PageSize \in Nat
    BY <1>5, <2>2, BlockStarts, Sizes
  <2>4. gen.xpos.page * PageSize <= XPOS(gen.xpos)
    <3>1. PICK s \in Nat : s = gen.xpos.page * PageSize
      BY <2>3
    <3>2. s <= s + gen.xpos.off
      BY <2>2
    <3>3. QED
      BY <3>1, <3>2 DEF XPOS
  <2>5. XPOS(gen.xpos) <= InLength /\ XPOS(gen.xpos) \in Nat
    BY <1>5, <1>6, <1>7
  <2>6. QED
    BY <1>6, <1>21, <2>1, <2>4, <2>5 DEF EndsOn
<1>24. QED
  BY <1>1, <1>20, <1>22, <1>23, MatchesOn

\* A window that only its sums share with a block: nothing was put out for it.
LEMMA NotFoundStep ==
  ASSUME XInv, NotFound
  PROVE  XInv'
<1>1. /\ Typed /\ Runs /\ Built(gen, out) /\ Fresh(out) /\ Scans /\ ForwardAt(in, gen, match)
      /\ out.status = "ok"
  BY DEF XInv, NotFound, Generating, Scanning
<1>2. /\ job \in Inputs /\ gen \in Generator /\ match \in Matches /\ in.data = Target
  BY <1>1 DEF Typed, Target
<1>3. MatchAt(in, gen, match)
  BY <1>1 DEF ForwardAt
<1>4. PICK p, r : WindowNumbers(in, gen, match, p, r)
  BY <1>2, <1>3, MatchNumbers
<1>5. ~match.one_insert
  <2>1. match.fwd \in Nat /\ match.back \in Nat /\ QUERY_SIZE_POW \in Nat
    BY <1>2, Sizes DEF Matches
  <2>2. ~(match.fwd + match.back >= QUERY_SIZE_POW)
    BY DEF NotFound, LongEnough
  <2>3. match.one_insert => match.fwd >= QUERY_SIZE_POW
    BY <1>1 DEF ForwardAt
  <2>4. QED
    BY <2>1, <2>2, <2>3
<1> DEFINE x == MovedTo(gen.xpos, match.to)
           g == [gen EXCEPT !.xpos = x]
<1>6. NextOffset(g) /\ UNCHANGED <<job, in, from, match, cont, exit>>
  BY <1>5 DEF NotFound
<1>7. x \in Position /\ x = Window(match.to) /\ x.page = p /\ x.off = r /\ x.mem_page = p
  <2>1. /\ p = At(match.to).page /\ r = At(match.to).off /\ p \in Nat /\ r \in 0 .. PageSize - 1
        /\ Window(match.to) = [page |-> p, off |-> r, mem_page |-> p] /\ Window(match.to) \in Position
    BY <1>4 DEF WindowNumbers
  <2>2. gen.xpos \in Position /\ gen.xpos.mem_page = p
    BY <1>1, <1>2, <1>5, <2>1 DEF Generator, ForwardAt
  <2>3. r \in Nat
    BY <2>1, Sizes
  <2>4. PlacedAt([gen.xpos EXCEPT !.page = p, !.off = r], p, r, gen.xpos.mem_page)
    BY <2>1, <2>2, <2>3, PositionFacts
  <2>5. PlacedAt(x, p, r, p)
    BY <2>1, <2>2, <2>4 DEF MovedTo
  <2>6. x = Window(match.to)
    BY <2>1, <2>5, SamePosition DEF PlacedAt
  <2>7. QED
    BY <2>5, <2>6 DEF PlacedAt
<1> HIDE DEF x
<1>8. g \in Generator /\ g.xpos = x /\ g.ypos = gen.ypos /\ SameOutput(g, gen) /\ g.ok = gen.ok /\ g.sum = gen.sum
      /\ g.cksums = gen.cksums /\ g.table = gen.table
  BY <1>2, <1>7 DEF Generator, SameOutput
<1> HIDE DEF g
<1>9. gen.xpos.mem_page = p
  <2>1. Window(match.to).page = p
    BY <1>7
  <2>2. QED
    BY <1>1, <1>5, <2>1 DEF ForwardAt
<1>10. /\ EndsOn(x, gen.to_output_pos) /\ x.off + QUERY_SIZE_POW <= Rem(in, x) /\ x.page <= in.md5_page
       /\ gen.sum = InitQueryChecksum(in, x, x.off)
  BY <1>3, <1>7 DEF MatchAt
<1>11. InWindow(g)
  BY <1>1, <1>7, <1>8, <1>9, <1>10 DEF InWindow, Scans, SameOutput
<1>12. WindowAt(g.xpos) /\ g.sum = InitQueryChecksum(in, g.xpos, g.xpos.off)
  BY <1>7, <1>8, <1>10 DEF WindowAt
<1>13. QED
  BY <1>1, <1>6, <1>8, <1>11, <1>12, NextOffsetStep DEF Scans

\* A write that fails, or comes after one that has, breaks nothing.
LEMMA NotInserted ==
  ASSUME job \in Inputs, NEW g \in Generator, NEW o \in Written, Built(g, o), Fresh(o),
         NEW h, h.data \in Seq(Byte), NEW x, x.mem_page \in Nat, NEW len \in Nat,
         NEW o2, o2 = InsertWrite(g, o, h, x, len), o2.status # "ok"
  PROVE  o2 \in Written /\ Built(g, o2) /\ Fresh(o2)
<1>1. CASE len = 0
  BY <1>1 DEF InsertWrite
<1>2. CASE len # 0
  <2> DEFINE bytes == InsertBytes(g, h, x, len)
  <2>1. bytes \in Seq(Bytes)
    <3>1. ASSUME NEW i \in 1 .. len PROVE ByteAt(h, x, (g.to_output_pos % PageSize) + i - 1) \in Bytes
      <4>1. g.to_output_pos % PageSize \in Nat
        BY Sizes DEF Generator
      <4>2. (g.to_output_pos % PageSize) + i - 1 \in Nat
        BY <4>1
      <4>3. QED
        BY <4>2, ByteFacts
    <3>2. QED
      BY <3>1 DEF InsertBytes
  <2>2. o2 = HandleWrite(o, bytes, job.verify) /\ job.verify \in BOOLEAN
    BY <1>2, JobFacts DEF InsertWrite
  <2> HIDE DEF bytes
  <2>3. WroteTo(o2, o, bytes, job.verify)
    BY <2>1, <2>2, WriteFacts
  <2>4. o2.bytes = o2.file
    <3>1. o.bytes = o.file /\ Since(o) = o.bytes
      BY DEF Built, Wrote, Fresh, Since
    <3>2. QED
      BY <2>3, <3>1 DEF WroteTo
  <2>5. Fresh(o2)
    BY <2>3 DEF WroteTo, Fresh
  <2>6. QED
    BY <2>3, <2>4, <2>5 DEF WroteTo, Built, Wrote
<1>3. QED
  BY <1>1, <1>2

\* The rest of a page is put out, or the turn is one after a write that failed.
LEMMA RestOfPageStep ==
  ASSUME XInv, RestOfPage
  PROVE  XInv'
<1>1. /\ Typed /\ Runs /\ Built(gen, out) /\ Fresh(out) /\ Resting /\ pc \in {"rest", "just"}
      /\ gen.to_output_pos < InLength
  BY DEF XInv, RestOfPage, Generating, Scanning
<1>2. /\ job \in Inputs /\ gen \in Generator /\ match \in Matches /\ out \in Written
      /\ FileOf(in, FALSE) /\ FileOf(from, TRUE) /\ in.data = job.target /\ AFile(in.data)
      /\ in.data = Target /\ Len(in.data) = InLength /\ InTurn(in)
  BY <1>1 DEF Typed, Runs, Target, InLength, AFile
<1> DEFINE h == MapPos(in, gen.xpos)
           x == InMem(gen.xpos)
           p == gen.xpos.page
           r == gen.xpos.off
           T == gen.to_output_pos
           len == Rem(in, x) - x.off
           o == InsertWrite(gen, out, h, x, len)
           f == Inserted(gen, len)
           g == IF o.status = "ok" THEN f ELSE [gen EXCEPT !.ok = FALSE]
           y == [x EXCEPT !.page = @ + 1, !.off = 0]
<1>3. /\ gen.xpos \in Position /\ p \in Nat /\ r \in 0 .. PageSize - 1 /\ T \in Nat /\ PageSize \in Nat \ {0}
      /\ InLength \in Nat /\ in.data \in Seq(Byte)
  <2>1. gen.xpos \in Position /\ T \in Nat /\ PageSize \in Nat \ {0} /\ InLength \in Nat
    BY <1>2, Sizes, JobFacts DEF Generator
  <2>2. p \in Nat /\ r \in Nat
    BY <2>1 DEF Position
  <2>3. r < PageSize
    BY <1>1 DEF Resting
  <2>4. in.data \in Seq(Byte)
    BY <1>2, JobFacts
  <2>5. r \in 0 .. PageSize - 1
    <3> HIDE DEF r
    <3>1. QED
      BY <2>1, <2>2, <2>3
  <2>6. QED
    BY <2>1, <2>2, <2>4, <2>5
<1>4. /\ p * PageSize \in Nat /\ (p + 1) * PageSize = p * PageSize + PageSize /\ OnPage(in, p) \in Int
      /\ PagesOf(in) \in Nat
      /\ p * PageSize + r < Len(in.data) => p <= PagesOf(in) /\ r < OnPage(in, p)
      /\ p <= PagesOf(in) => OnPage(in, p) \in Nat /\ p * PageSize + OnPage(in, p) <= Len(in.data)
      /\ p <= PagesOf(in) /\ OnPage(in, p) < PageSize => p * PageSize + OnPage(in, p) = Len(in.data)
      /\ OnPage(in, p) <= PageSize
  <2>1. p * PageSize \in Nat /\ (p + 1) * PageSize = p * PageSize + PageSize
    BY <1>3, BlockStarts
  <2>2. PagesOf(in) \in Nat
    BY <1>3, PageBounds
  <2>3. /\ OnPage(in, p) \in Int /\ OnPage(in, p) <= PageSize
        /\ p * PageSize + r <= Len(in.data) => p <= PagesOf(in)
        /\ p <= PagesOf(in) => OnPage(in, p) \in Nat /\ p * PageSize + OnPage(in, p) <= Len(in.data)
        /\ p <= PagesOf(in) /\ OnPage(in, p) < PageSize => p * PageSize + OnPage(in, p) = Len(in.data)
        /\ p * PageSize + r < Len(in.data) => r < OnPage(in, p)
    BY <1>3, PlaceOnPage
  <2>4. p * PageSize + r < Len(in.data) => p * PageSize + r <= Len(in.data)
    <3> HIDE DEF p, r
    <3>1. QED
      BY <1>2, <1>3, <2>1
  <2>5. QED
    BY <2>1, <2>2, <2>3, <2>4
<1>5. UsedBy(in, gen.xpos.mem_page) /\ UsedBy(from, gen.ypos.mem_page) /\ p <= in.md5_page
      /\ (gen.ypos.mem_page # Null => Digested(from))
      /\ (gen.ok => p * PageSize + r = T /\ out.status = "ok")
      /\ (~gen.ok => out.status # "ok" /\ r = 0)
  BY <1>1 DEF Resting, XPOS
<1>6. TurnsTo(h, in, FALSE, p)
  BY <1>2, <1>3, <1>5, MapPosIs
<1>7. CASE h.status # "ok"
  <2>1. p > PagesOf(in)
    BY <1>3, <1>4, <1>6, <1>7 DEF TurnsTo
  <2>2. ~gen.ok
    <3>1. SUFFICES ASSUME gen.ok PROVE FALSE
      OBVIOUS
    <3>2. p * PageSize + r < Len(in.data)
      BY <1>1, <1>2, <1>5, <3>1
    <3>3. QED
      BY <1>3, <1>4, <2>1, <3>2
  <2>3. Stops("2")
    BY <1>7 DEF RestOfPage
  <2>4. exit = [delta |-> "runs", patch |-> "waits"]
    BY <1>1 DEF Runs
  <2>5. exit.delta = "runs" /\ exit.patch = "waits"
    BY <2>4
  <2>6. QED
    BY <1>1, <1>5, <2>2, <2>3, <2>4, <2>5, StopsHolds
<1>8. CASE h.status = "ok"
  <2>1. /\ FileOf(h, FALSE) /\ h.data = in.data /\ UsedBy(h, p) /\ InTurn(h)
        /\ p < h.md5_page /\ p <= PagesOf(in) /\ p \in PageNumbers /\ h.md5_page \in Nat
    BY <1>6, <1>8 DEF TurnsTo, FileOf, Handles
  <2>2. /\ in' = h /\ out' = o /\ gen' = [g EXCEPT !.xpos = y]
        /\ UNCHANGED <<job, from, match, cont, pc, exit>>
    BY <1>8 DEF RestOfPage
  <2>3. x \in Position /\ x.page = p /\ x.off = r /\ x.mem_page = p
    <3>1. p \in PageOrNull
      BY <2>1 DEF PageOrNull
    <3>2. PlacedAt(x, p, r, p)
      BY <1>3, <3>1, PositionFacts DEF InMem
    <3>3. QED
      BY <3>2 DEF PlacedAt
  <2> HIDE DEF x, h
  <2>4. y \in Position /\ y.page = p + 1 /\ y.off = 0 /\ y.mem_page = p
    <3>1. y = [x EXCEPT !.page = p + 1, !.off = 0] /\ p + 1 \in Nat /\ 0 \in Nat
      BY <1>3, <2>3
    <3>2. PlacedAt(y, p + 1, 0, x.mem_page)
      BY <2>3, <3>1, PositionFacts
    <3>3. QED
      BY <2>3, <3>2 DEF PlacedAt
  <2> HIDE DEF y
  <2>5. len = OnPage(in, p) - r
    BY <2>3 DEF Rem
  <2>6. len \in Nat /\ (gen.ok => p * PageSize <= T /\ T + len = p * PageSize + OnPage(in, p))
    <3> HIDE DEF len, p, r, T
    <3>1. CASE gen.ok
      <4>5. p * PageSize + r < Len(in.data)
        <5>1. p * PageSize + r = T /\ T < Len(in.data)
          BY <1>1, <1>2, <1>5, <3>1 DEF T
        <5>2. QED
          BY <5>1
      <4>1. r < OnPage(in, p)
        BY <1>4, <4>5
      <4>2. PICK s \in Nat : s = p * PageSize
        BY <1>4
      <4>3. len \in Nat /\ s <= T /\ T + len = s + OnPage(in, p)
        BY <1>3, <1>4, <1>5, <2>5, <3>1, <4>1, <4>2, SMTT(40)
      <4>4. QED
        BY <4>2, <4>3
    <3>2. CASE ~gen.ok
      BY <1>3, <1>4, <1>5, <2>1, <2>5, <3>2
    <3>3. QED
      BY <3>1, <3>2
  <2> HIDE DEF len
  <2>7. /\ g \in Generator /\ o \in Written /\ Built(g, o) /\ Fresh(o) /\ g.ypos = gen.ypos
        /\ IF o.status = "ok" THEN g.ok /\ gen.ok /\ g.to_output_pos = T + len ELSE ~g.ok
    <3>1. CASE o.status = "ok"
      <4>1. out.status = "ok"
        <5>1. SUFFICES ASSUME out.status # "ok" PROVE FALSE
          OBVIOUS
        <5>2. o.status # "ok"
          BY <5>1 DEF InsertWrite, HandleWrite, Fails
        <5>3. QED
          BY <3>1, <5>2
      <4>2. gen.ok
        BY <1>5, <4>1
      <4>3. len > 0 => /\ x.mem_page \in Nat /\ x.mem_page * PageSize <= T
                       /\ T + len <= x.mem_page * PageSize + OnPage(h, x.mem_page)
        <5>1. OnPage(h, p) = OnPage(in, p)
          BY <2>1 DEF OnPage, PagesOf
        <5>2. PICK s \in Nat : s = p * PageSize + OnPage(in, p)
          BY <1>4, <2>1
        <5>3. s <= s
          OBVIOUS
        <5>4. QED
          BY <1>3, <2>3, <2>6, <4>2, <5>1, <5>2, <5>3
      <4>4. f = Inserted(gen, len) /\ o = InsertWrite(gen, out, h, x, len) /\ h.data = Target
        BY <1>2, <2>1
      <4>5. g = f
        BY <3>1
      <4> HIDE DEF f, o, g
      <4>6. InsertHolds(f, o, gen, out, len)
        BY <1>1, <1>2, <2>6, <4>3, <4>4, InsertedFrom
      <4>7. QED
        BY <3>1, <4>2, <4>5, <4>6 DEF InsertHolds, SamePlace
    <3>2. CASE o.status # "ok"
      <4>1. o = InsertWrite(gen, out, h, x, len) /\ h.data \in Seq(Byte) /\ x.mem_page \in Nat
        BY <1>3, <2>1, <2>3
      <4>2. g = [gen EXCEPT !.ok = FALSE]
        BY <3>2
      <4> HIDE DEF o, g, f
      <4>3. o \in Written /\ Built(gen, o) /\ Fresh(o)
        BY <1>1, <1>2, <2>6, <3>2, <4>1, NotInserted
      <4>4. g \in Generator /\ SameOutput(g, gen) /\ g.ypos = gen.ypos /\ ~g.ok
        BY <1>2, <4>2 DEF Generator, SameOutput
      <4>5. QED
        BY <3>2, <4>3, <4>4, BuiltStays
    <3>3. QED
      BY <3>1, <3>2
  <2> HIDE DEF g, o, f
  <2>8. gen' \in Generator /\ SameOutput(gen', g) /\ gen'.xpos = y /\ gen'.ypos = gen.ypos /\ gen'.ok = g.ok
    BY <2>2, <2>4, <2>7 DEF Generator, SameOutput
  <2>9. Typed'
    BY <1>1, <1>2, <2>1, <2>2, <2>7, <2>8, SameJob DEF Typed
  <2>10. Runs' /\ Fresh(out)'
    BY <1>1, <2>1, <2>2, <2>7 DEF Runs, InTurn, Fresh
  <2>11. Built(gen, out)'
    <3>1. Built(gen', out')
      BY <2>2, <2>7, <2>8, BuiltStays
    <3>2. QED
      BY <2>2, <3>1, SameJob
  <2>12. Resting'
    <3>1. InLength' = InLength
      BY <2>2 DEF InLength, Target
    <3>2. gen'.ok /\ gen'.to_output_pos < InLength => XPOS(gen'.xpos) = gen'.to_output_pos
      <4>1. SUFFICES ASSUME gen'.ok, gen'.to_output_pos < InLength PROVE XPOS(gen'.xpos) = gen'.to_output_pos
        OBVIOUS
      <4>2. gen'.to_output_pos = T + len /\ gen.ok
        BY <2>7, <2>8, <4>1 DEF SameOutput
      <4>3. gen'.to_output_pos = p * PageSize + OnPage(in, p)
        BY <2>6, <4>2
      <4>4. ~(OnPage(in, p) < PageSize)
        BY <1>2, <1>3, <1>4, <2>1, <4>1, <4>3
      <4>5. OnPage(in, p) = PageSize
        BY <1>3, <1>4, <4>4
      <4>6. XPOS(gen'.xpos) = p * PageSize + PageSize
        BY <1>3, <1>4, <2>4, <2>8 DEF XPOS
      <4>7. QED
        BY <4>3, <4>5, <4>6
    <3>3. gen'.xpos.mem_page = p /\ gen'.xpos.page = p + 1 /\ gen'.xpos.off = 0
      BY <2>4, <2>8
    <3>4. p + 1 <= h.md5_page
      BY <1>3, <2>1
    <3>5. UsedBy(in, gen.xpos.mem_page)' /\ UsedBy(from, gen.ypos.mem_page)' /\ Digested(from)' <=> Digested(from)
      BY <1>5, <2>1, <2>2, <2>8, <3>3 DEF UsedBy, Digested, PagesOf
    <3>6. (gen'.ok => out'.status = "ok") /\ (~gen'.ok => out'.status # "ok")
      BY <2>2, <2>7, <2>8
    <3>7. (gen'.ypos.mem_page # Null => Digested(from')) /\ gen'.xpos.page <= in'.md5_page /\ gen'.xpos.off < PageSize
      BY <1>3, <1>5, <2>2, <2>8, <3>3, <3>4
    <3>8. UsedBy(in', gen'.xpos.mem_page) /\ UsedBy(from', gen'.ypos.mem_page)
      BY <1>5, <2>1, <2>2, <2>8, <3>3
    <3>9. QED
      BY <3>1, <3>2, <3>3, <3>6, <3>7, <3>8 DEF Resting, UsedBy, Digested, PagesOf, XPOS
  <2>13. pc' \in {"rest", "just"}
    BY <1>1, <2>2
  <2>14. QED
    BY <2>9, <2>10, <2>11, <2>12, <2>13 DEF XInv, Scanning, Generating
<1>9. QED
  BY <1>7, <1>8

\* The target is let go of, and its data is complete or a write has failed.
LEMMA RestEndsStep ==
  ASSUME XInv, RestEnds
  PROVE  XInv'
<1>1. /\ Typed /\ Runs /\ Built(gen, out) /\ Fresh(out) /\ Resting /\ gen.to_output_pos >= InLength
  BY DEF XInv, RestEnds, Generating, Scanning
<1>2. /\ job \in Inputs /\ gen \in Generator /\ match \in Matches /\ out \in Written
      /\ FileOf(in, FALSE) /\ FileOf(from, TRUE) /\ in.data = job.target /\ InTurn(in)
      /\ UsedBy(in, gen.xpos.mem_page) /\ UsedBy(from, gen.ypos.mem_page)
  BY <1>1 DEF Typed, Runs, Resting
<1>3. in' = Unmapped(in, gen.xpos) /\ job' = job /\ from' = from /\ gen' = gen /\ match' = match
  BY DEF RestEnds
<1>4. FileOf(in', FALSE) /\ in'.data = in.data /\ Idle(in') /\ InTurn(in')
  <2>1. CASE gen.xpos.mem_page = Null
    <3>1. in' = in
      BY <1>3, <2>1 DEF Unmapped
    <3>2. Idle(in)
      BY <1>2, <2>1, PageFacts DEF UsedBy, Idle
    <3>3. QED
      BY <1>2, <3>1, <3>2
  <2>2. CASE gen.xpos.mem_page # Null
    <3>1. gen.xpos.mem_page \in PageNumbers
      BY <1>2, <2>2 DEF Generator, Position, PageOrNull
    <3>2. in' = UnmapPage(in, gen.xpos.mem_page)
      BY <1>3, <2>2 DEF Unmapped
    <3>3. UnmapsPage(in', in, FALSE, gen.xpos.mem_page)
      BY <1>2, <3>1, <3>2, UnmapFile
    <3>4. FileOf(in', FALSE) /\ in'.data = in.data /\ Idle(in') /\ in'.md5_page = in.md5_page
          /\ Listed(in') \subseteq Listed(in)
      BY <3>3 DEF UnmapsPage
    <3>5. InTurn(in')
      BY <1>2, <3>4 DEF InTurn, Listed
    <3>6. QED
      BY <3>4, <3>5
  <2>3. QED
    BY <2>1, <2>2
<1> HIDE DEF RestEnds
<1>5. CASE gen.ok
  <2>1. pc' = "digest" /\ out' = HandleClose(out) /\ exit' = exit
    BY <1>5 DEF RestEnds
  <2>2. /\ out' \in Written /\ out'.bytes = Since(out) /\ out'.reset /\ out'.file = out.file
        /\ out'.status = out.status
    BY <1>2, <2>1, CloseFacts
  <2>3. Built(gen', out')
    <3>1. out.bytes = out.file /\ Since(out) = out.bytes
      BY <1>1 DEF Built, Wrote, Fresh, Since
    <3>2. QED
      BY <1>1, <1>3, <2>2, <3>1 DEF Built, Wrote
  <2>4. Built(gen, out)'
    BY <1>3, <2>3, SameJob
  <2>5. Typed'
    BY <1>2, <1>3, <1>4, <2>1, <2>2, SameJob DEF Typed, Generating
  <2>6. Runs'
    BY <1>1, <1>3, <1>4, <2>1 DEF Runs, InTurn
  <2>7. gen.to_output_pos = InLength
    <3>1. gen.to_output_pos <= InLength
      BY <1>1 DEF Built, Ordered
    <3>2. gen.to_output_pos \in Nat /\ InLength \in Nat
      BY <1>2, JobFacts DEF Generator
    <3>3. QED
      BY <1>1, <3>1, <3>2
  <2>8. Digesting'
    <3>1. (gen.ypos.mem_page # Null => Digested(from)) /\ out.status = "ok"
      BY <1>1, <1>5 DEF Resting
    <3>2. InLength' = InLength
      BY <1>3, SameJob
    <3>3. QED
      BY <1>2, <1>3, <1>4, <2>2, <2>7, <3>1, <3>2 DEF Digesting, UsedBy, Idle, Digested, PagesOf
  <2>9. QED
    BY <2>1, <2>4, <2>5, <2>6, <2>8 DEF XInv, Scanning, Generating
<1>6. CASE ~gen.ok
  <2>1. Ends("2") /\ out' = out
    BY <1>6 DEF RestEnds
  <2>2. exit = [delta |-> "runs", patch |-> "waits"]
    BY <1>1 DEF Runs
  <2>3. pc' = "ended" /\ exit'.delta = "2" /\ exit'.patch = "waits"
    BY <2>1, <2>2 DEF Ends
  <2>4. Typed'
    BY <1>2, <1>3, <1>4, <2>1, <2>3, SameJob DEF Typed, Generating
  <2>5. Finished'
    BY <1>1, <1>6, <2>1, <2>3 DEF Finished, Resting
  <2>6. QED
    BY <2>3, <2>4, <2>5 DEF XInv, Scanning, Generating
<1>7. QED
  BY <1>5, <1>6

\* The digest of the target takes its next page.
LEMMA DigestInStep ==
  ASSUME XInv, DigestIn
  PROVE  XInv'
<1>1. /\ Typed /\ Runs /\ Built(gen, out) /\ Digesting /\ ~Digested(in) /\ pc = "digest"
  BY DEF XInv, DigestIn, Generating, Scanning
<1>2. /\ job \in Inputs /\ gen \in Generator /\ match \in Matches /\ out \in Written
      /\ FileOf(in, FALSE) /\ FileOf(from, TRUE) /\ in.data = job.target /\ AFile(in.data) /\ InTurn(in) /\ Idle(in)
  BY <1>1 DEF Typed, Runs, Digesting, AFile
<1> DEFINE h == DigestPage(in, job.verify)
<1>3. DigestsOne(h, in, FALSE)
  BY <1>1, <1>2, DigestFacts
<1>4. h.status = "ok" /\ FileOf(h, FALSE) /\ h.data = in.data /\ Idle(h) /\ InTurn(h)
  BY <1>3 DEF DigestsOne
<1>5. in' = h /\ UNCHANGED <<job, from, out, gen, match, cont, pc, exit>>
  BY <1>4 DEF DigestIn
<1> HIDE DEF h
<1>6. Typed'
  BY <1>1, <1>2, <1>4, <1>5, SameJob DEF Typed
<1>7. Runs'
  BY <1>1, <1>4, <1>5 DEF Runs, InTurn
<1>8. Built(gen, out)'
  BY <1>1, <1>5, SameJob
<1>9. Digesting'
  <2>1. InLength' = InLength
    BY <1>5, SameJob
  <2>2. QED
    BY <1>1, <1>4, <1>5, <2>1 DEF Digesting, UsedBy, Idle, Digested, PagesOf
<1>10. pc' = "digest"
  BY <1>1, <1>5
<1>11. QED
  BY <1>6, <1>7, <1>8, <1>9, <1>10 DEF XInv, Scanning, Generating

\* The digest of the source takes its next page: nothing has been compared.
LEMMA DigestFromStep ==
  ASSUME XInv, DigestFrom
  PROVE  XInv'
<1>1. /\ Typed /\ Runs /\ Built(gen, out) /\ Digesting /\ ~Digested(from) /\ pc = "digest"
  BY DEF XInv, DigestFrom, Generating, Scanning
<1>2. gen.ypos.mem_page = Null
  BY <1>1 DEF Digesting
<1>3. Idle(from)
  BY <1>1, <1>2, PageFacts DEF Digesting, UsedBy, Idle
<1>4. /\ job \in Inputs /\ gen \in Generator /\ match \in Matches /\ out \in Written
      /\ FileOf(in, FALSE) /\ FileOf(from, TRUE) /\ from.data = job.source /\ AFile(from.data) /\ InTurn(from)
      /\ in.data = job.target
  BY <1>1 DEF Typed, Runs, Digesting, AFile
<1> DEFINE h == DigestPage(from, job.verify)
<1>5. DigestsOne(h, from, TRUE)
  BY <1>1, <1>3, <1>4, DigestFacts
<1>6. h.status = "ok" /\ FileOf(h, TRUE) /\ h.data = from.data /\ Idle(h) /\ InTurn(h)
  BY <1>5 DEF DigestsOne
<1>7. from' = h /\ UNCHANGED <<job, in, out, gen, match, cont, pc, exit>>
  BY <1>6 DEF DigestFrom
<1> HIDE DEF h
<1>8. Typed'
  BY <1>1, <1>4, <1>6, <1>7, SameJob DEF Typed
<1>9. Runs'
  BY <1>1, <1>6, <1>7 DEF Runs, InTurn
<1>10. Built(gen, out)'
  BY <1>1, <1>7, SameJob
<1>11. Digesting'
  <2>1. InLength' = InLength
    BY <1>7, SameJob
  <2>2. UsedBy(h, Null)
    BY <1>6, PageFacts DEF UsedBy, Idle
  <2>3. QED
    BY <1>1, <1>2, <1>7, <2>1, <2>2 DEF Digesting, UsedBy, Idle
<1>12. pc' = "digest"
  BY <1>1, <1>7
<1>13. QED
  BY <1>8, <1>9, <1>10, <1>11, <1>12 DEF XInv, Scanning, Generating

(***************************************************************************)
(* The control.                                                            *)
(***************************************************************************)

\* The number a source that is used takes: those before it count.
NumberOf(s) == IF s = 1 /\ 0 \in gen.used THEN 1 ELSE 0

\* control_reindex: the number of a source among those that are used.
LEMMA NumberIs ==
  ASSUME gen \in Generator, NEW s \in gen.used
  PROVE  Cardinality({src \in gen.used : src < s}) = NumberOf(s) /\ s \in 0 .. 1
<1>1. gen.used \subseteq 0 .. 1 /\ s \in 0 .. 1
  BY DEF Generator
<1>2. CASE s = 1 /\ 0 \in gen.used
  <2>1. {src \in gen.used : src < s} = {0}
    BY <1>1, <1>2
  <2>2. QED
    BY <1>1, <1>2, <2>1, FS_Singleton DEF NumberOf
<1>3. CASE ~(s = 1 /\ 0 \in gen.used)
  <2>1. {src \in gen.used : src < s} = {}
    BY <1>1, <1>3
  <2>2. QED
    BY <1>1, <1>3, <2>1, FS_EmptySet DEF NumberOf
<1>4. QED
  BY <1>2, <1>3

\* The instructions with the numbers of their sources: nothing else about them
\* changes, and they are where they were.
Renumbered(insts) ==
  /\ Len(insts) = Len(gen.insts) /\ insts = [i \in 1 .. Len(gen.insts) |-> insts[i]]
  /\ \A i \in 1 .. Len(gen.insts) :
       /\ gen.insts[i].index \in gen.used
       /\ insts[i] = [index |-> NumberOf(gen.insts[i].index), offset |-> gen.insts[i].offset,
                      length |-> gen.insts[i].length]
       /\ insts[i].index = NumberOf(gen.insts[i].index) /\ insts[i].offset = gen.insts[i].offset
       /\ insts[i].length = gen.insts[i].length
  /\ \A i \in 1 .. Len(gen.insts) : \A s \in gen.used :
       Before(insts, NumberOf(s), i) = Before(gen.insts, s, i)

\* The instructions with the new numbers are those of the generator.
LEMMA ReindexedFacts ==
  ASSUME gen \in Generator, Ordered(gen), NEW insts, insts = Reindexed
  PROVE  Renumbered(insts)
<1> DEFINE n == Len(gen.insts)
<1>1. gen.insts \in Seq(Instruction) /\ n \in Nat
  BY DEF Generator
<1>2. \A i \in 1 .. n : gen.insts[i] \in Instruction /\ gen.insts[i].index \in gen.used
  BY <1>1 DEF Ordered
<1>3. insts = [i \in 1 .. n |-> [gen.insts[i] EXCEPT !.index = Cardinality({src \in gen.used : src < @})]]
  BY DEF Reindexed
<1>4. insts = [i \in 1 .. n |-> insts[i]] /\ Len(insts) = n
  BY <1>1, <1>3
<1>5. ASSUME NEW i \in 1 .. n
      PROVE  insts[i] = [index |-> NumberOf(gen.insts[i].index), offset |-> gen.insts[i].offset,
                         length |-> gen.insts[i].length]
  <2>1. insts[i] = [gen.insts[i] EXCEPT !.index = Cardinality({src \in gen.used : src < gen.insts[i].index})]
    BY <1>3
  <2>2. Cardinality({src \in gen.used : src < gen.insts[i].index}) = NumberOf(gen.insts[i].index)
    BY <1>2, NumberIs
  <2>3. gen.insts[i] \in Instruction
    BY <1>2
  <2>4. QED
    BY <2>1, <2>2, <2>3 DEF Instruction
<1>8. ASSUME NEW i \in 1 .. n
      PROVE  /\ insts[i].index = NumberOf(gen.insts[i].index) /\ insts[i].offset = gen.insts[i].offset
             /\ insts[i].length = gen.insts[i].length
  <2> DEFINE j == NumberOf(gen.insts[i].index)
             a == gen.insts[i].offset
             len == gen.insts[i].length
  <2>1. insts[i] = [index |-> j, offset |-> a, length |-> len]
    BY <1>5
  <2> HIDE DEF j, a, len
  <2>2. insts[i].index = j /\ insts[i].offset = a /\ insts[i].length = len
    BY <2>1
  <2>3. QED
    BY <2>2 DEF j, a, len
<1>6. ASSUME NEW i \in 1 .. n, NEW s \in gen.used
      PROVE  Before(insts, NumberOf(s), i) = Before(gen.insts, s, i)
  <2> DEFINE k == i - 1
  <2>1. k \in Nat /\ \A j \in 1 .. k : j \in 1 .. n
    BY <1>1
  <2>2. Lengths(gen.insts, k) /\ Lengths(insts, k)
    <3>1. \A j \in 1 .. n : gen.insts[j].length \in Nat
      BY <1>2 DEF Instruction
    <3>2. \A j \in 1 .. n : insts[j].length \in Nat
      BY <1>8, <3>1
    <3>3. QED
      BY <2>1, <3>1, <3>2 DEF Lengths
  <2>3. ASSUME NEW j \in 1 .. k PROVE PartOf(insts[j], NumberOf(s)) = PartOf(gen.insts[j], s)
    <3>1. j \in 1 .. n
      BY <2>1
    <3>2. gen.insts[j].index \in gen.used /\ insts[j].index = NumberOf(gen.insts[j].index)
          /\ insts[j].length = gen.insts[j].length
      BY <1>2, <1>8, <3>1
    <3>3. gen.used \subseteq {0, 1}
      BY DEF Generator
    <3>4. NumberOf(s) = NumberOf(gen.insts[j].index) <=> s = gen.insts[j].index
      BY <3>2, <3>3 DEF NumberOf
    <3>5. QED
      BY <3>2, <3>4 DEF PartOf
  <2> HIDE DEF k
  <2>4. Before(insts, NumberOf(s), k + 1) = Before(gen.insts, s, k + 1)
    BY <2>1, <2>2, <2>3, SameBefore
  <2>5. k + 1 = i
    BY DEF k
  <2>6. QED
    BY <2>4, <2>5
<1>7. QED
  BY <1>2, <1>4, <1>5, <1>6, <1>8 DEF Renumbered

\* The sources of a control are those that are used, with what the generator
\* knows of them.
InfosFit(infos) == \A s \in gen.used : infos[NumberOf(s) + 1].sequential = gen.sequential[s]

\* The infos say of each source that is used whether it is sequential.
LEMMA InfosFitted ==
  ASSUME gen \in Generator, NEW infos, InfosOf(infos)
  PROVE  InfosFit(infos)
<1>1. gen.used \subseteq {0, 1}
  BY DEF Generator
<1>2. SUFFICES ASSUME NEW s \in gen.used PROVE infos[NumberOf(s) + 1].sequential = gen.sequential[s]
  BY DEF InfosFit
<1>3. CASE s = 0
  BY <1>1, <1>3 DEF InfosOf, NumberOf
<1>4. CASE s = 1
  BY <1>1, <1>4 DEF InfosOf, NumberOf
<1>5. QED
  BY <1>1, <1>3, <1>4

\* What is written into the control of the sources.
LEMMA SourceInfoIs ==
  ASSUME gen \in Generator
  PROVE  InfosOf(SourceInfo)
<1> DEFINE data == [isdata |-> TRUE, sequential |-> gen.sequential[0], len |-> Len(out.bytes), md5 |-> out.md5]
           file == [isdata |-> FALSE, sequential |-> gen.sequential[1], len |-> FromLength, md5 |-> from.hashed]
           infos == SourceInfo
<1>1. infos = (IF 0 \in gen.used THEN <<data>> ELSE <<>>) \o (IF 1 \in gen.used THEN <<file>> ELSE <<>>)
  BY DEF SourceInfo
<1>2. /\ data.isdata /\ data.sequential = gen.sequential[0]
      /\ ~file.isdata /\ file.sequential = gen.sequential[1] /\ file.len = FromLength
  OBVIOUS
<1> HIDE DEF data, file, infos
<1>3. CASE 0 \in gen.used /\ 1 \in gen.used
  <2>1. infos = <<data>> \o <<file>>
    BY <1>1, <1>3
  <2>2. Len(infos) = 2 /\ infos[1] = data /\ infos[2] = file
    BY <2>1
  <2>3. QED
    BY <1>2, <1>3, <2>2 DEF InfosOf, infos
<1>4. CASE 0 \in gen.used /\ 1 \notin gen.used
  <2>1. infos = <<data>> \o <<>>
    BY <1>1, <1>4
  <2>2. Len(infos) = 1 /\ infos[1] = data
    BY <2>1
  <2>3. QED
    BY <1>2, <1>4, <2>2 DEF InfosOf, infos
<1>5. CASE 0 \notin gen.used /\ 1 \in gen.used
  <2>1. infos = <<>> \o <<file>>
    BY <1>1, <1>5
  <2>2. Len(infos) = 1 /\ infos[1] = file
    BY <2>1
  <2>3. QED
    BY <1>2, <1>5, <2>2 DEF InfosOf, infos
<1>6. CASE 0 \notin gen.used /\ 1 \notin gen.used
  <2>1. infos = <<>> \o <<>>
    BY <1>1, <1>6
  <2>2. Len(infos) = 0
    BY <2>1
  <2>3. QED
    BY <1>6, <2>2 DEF InfosOf, infos
<1>7. QED
  BY <1>3, <1>4, <1>5, <1>6

\* What is left out of a control is put back when it is read.
LEMMA PackedFacts ==
  ASSUME gen \in Generator, Ordered(gen), NEW infos, InfosFit(infos)
  PROVE  PackHolds(infos, Reindexed) /\ Unpacked(infos, Packed(infos, Reindexed)) = Reindexed
<1> DEFINE n == Len(gen.insts)
           R == Reindexed
           P == Packed(infos, R)
           U == Unpacked(infos, P)
<1>1. n \in Nat /\ \A i \in 1 .. n : gen.insts[i] \in Instruction
  BY DEF Generator
<1>2. Renumbered(R)
  BY ReindexedFacts
<1>3. P = [i \in 1 .. Len(R) |-> IF infos[R[i].index + 1].sequential THEN [R[i] EXCEPT !.offset = 0] ELSE R[i]]
  BY DEF Packed
<1>4. U = [i \in 1 .. Len(P) |-> IF infos[P[i].index + 1].sequential
                                 THEN [P[i] EXCEPT !.offset = Before(P, P[i].index, i)] ELSE P[i]]
  BY DEF Unpacked
<1>5. PackHolds(infos, R) <=> \A i \in 1 .. Len(R) : infos[R[i].index + 1].sequential
                                => R[i].offset = Before(R, R[i].index, i)
  BY DEF PackHolds
<1> HIDE DEF R, P, U
<1>6. /\ Len(R) = n /\ R = [i \in 1 .. n |-> R[i]]
      /\ \A i \in 1 .. n :
           R[i] = [index |-> NumberOf(gen.insts[i].index), offset |-> gen.insts[i].offset,
                   length |-> gen.insts[i].length]
  BY <1>2 DEF Renumbered
<1>7. ASSUME NEW i \in 1 .. n, infos[R[i].index + 1].sequential
      PROVE  R[i].offset = Before(R, R[i].index, i)
  <2> DEFINE s == gen.insts[i].index
  <2>1. s \in gen.used /\ R[i].index = NumberOf(s) /\ Before(R, NumberOf(s), i) = Before(gen.insts, s, i)
        /\ R[i].offset = gen.insts[i].offset
    BY <1>2 DEF Renumbered
  <2>2. gen.sequential[s]
    BY <1>7, <2>1 DEF InfosFit
  <2>3. s \in {0, 1}
    BY <2>1 DEF Generator
  <2>4. InSequence(gen.insts, s)
    BY <2>2, <2>3 DEF Ordered
  <2>5. gen.insts[i].offset = Before(gen.insts, s, i)
    BY <2>4 DEF InSequence
  <2>6. QED
    BY <2>1, <2>5
<1>8. PackHolds(infos, R)
  BY <1>5, <1>6, <1>7
<1>9. Len(P) = n /\ \A i \in 1 .. n : P[i] = IF infos[R[i].index + 1].sequential THEN [R[i] EXCEPT !.offset = 0] ELSE R[i]
  BY <1>1, <1>3, <1>6
<1>10. ASSUME NEW i \in 1 .. n
       PROVE  P[i].index = R[i].index /\ P[i].length = R[i].length /\ R[i].length \in Nat
  <2>1. gen.insts[i].length \in Nat
    BY <1>1 DEF Instruction
  <2>2. R[i].length = gen.insts[i].length
    BY <1>2 DEF Renumbered
  <2>3. R[i] = [index |-> R[i].index, offset |-> R[i].offset, length |-> R[i].length]
    BY <1>2 DEF Renumbered
  <2>4. [R[i] EXCEPT !.offset = 0].index = R[i].index /\ [R[i] EXCEPT !.offset = 0].length = R[i].length
    <3> DEFINE a == R[i].index
               b == R[i].offset
               c == R[i].length
    <3>1. R[i] = [index |-> a, offset |-> b, length |-> c]
      BY <2>3
    <3> HIDE DEF a, b, c
    <3>2. [R[i] EXCEPT !.offset = 0].index = a /\ [R[i] EXCEPT !.offset = 0].length = c
      BY <3>1
    <3>3. QED
      BY <3>2 DEF a, c
  <2>5. QED
    BY <1>9, <2>1, <2>2, <2>4
<1>11. ASSUME NEW i \in 1 .. n, NEW j
       PROVE  Before(P, j, i) = Before(R, j, i)
  <2> DEFINE k == i - 1
  <2>1. k \in Nat /\ (\A m \in 1 .. k : m \in 1 .. n) /\ k + 1 = i
    BY <1>1
  <2> HIDE DEF k
  <2>2. Lengths(P, k) /\ Lengths(R, k)
    BY <1>10, <2>1 DEF Lengths
  <2>3. \A m \in 1 .. k : PartOf(P[m], j) = PartOf(R[m], j)
    BY <1>10, <2>1 DEF PartOf
  <2>4. QED
    BY <2>1, <2>2, <2>3, SameBefore, SMTT(40)
<1>12. ASSUME NEW i \in 1 .. n PROVE U[i] = R[i]
  <2>1. U[i] = IF infos[R[i].index + 1].sequential
               THEN [P[i] EXCEPT !.offset = Before(R, R[i].index, i)] ELSE P[i]
    BY <1>4, <1>9, <1>10, <1>11
  <2>2. CASE infos[R[i].index + 1].sequential
    <3>1. U[i] = [P[i] EXCEPT !.offset = R[i].offset] /\ P[i] = [R[i] EXCEPT !.offset = 0]
      BY <1>7, <1>9, <2>1, <2>2
    <3>2. R[i] = [index |-> NumberOf(gen.insts[i].index), offset |-> gen.insts[i].offset,
                  length |-> gen.insts[i].length]
      BY <1>6
    <3>3. QED
      BY <3>1, <3>2
  <2>3. CASE ~infos[R[i].index + 1].sequential
    BY <1>9, <2>1, <2>3
  <2>4. QED
    BY <2>2, <2>3
<1>13. U = R
  <2>1. U = [i \in 1 .. n |-> U[i]]
    BY <1>4, <1>9
  <2>2. QED
    BY <1>6, <1>12, <2>1
<1>14. QED
  BY <1>8, <1>13 DEF R, P, U

\* The control is written behind the data: delta returns 0, or 2 if that fails.
LEMMA WriteControlStep ==
  ASSUME XInv, WriteControl
  PROVE  XInv'
<1>1. /\ Typed /\ Runs /\ Built(gen, out) /\ Digesting /\ Digested(in)
  BY DEF XInv, WriteControl, Generating, Scanning
<1>2. /\ job \in Inputs /\ gen \in Generator /\ match \in Matches /\ out \in Written
      /\ FileOf(in, FALSE) /\ FileOf(from, TRUE) /\ in.data = job.target /\ job.verify \in BOOLEAN
      /\ exit = [delta |-> "runs", patch |-> "waits"] /\ Ordered(gen)
      /\ out.status = "ok" /\ gen.to_output_pos = InLength
  BY <1>1, JobFacts DEF Typed, Runs, Built, Digesting
<1> DEFINE o == HandleWrite(out, <<>>, job.verify)
           infos == SourceInfo
           R == Reindexed
<1>3. InfosOf(infos) /\ InfosFit(infos)
  BY <1>2, SourceInfoIs, InfosFitted
<1>4. PackHolds(infos, R)
  BY <1>2, <1>3, PackedFacts
<1>5. o \in Written
  <2>1. <<>> \in Seq(Bytes)
    OBVIOUS
  <2>2. WroteTo(o, out, <<>>, job.verify)
    BY <1>2, <2>1, WriteFacts
  <2>3. QED
    BY <2>2 DEF WroteTo
<1>6. exit.delta = "runs" /\ exit.patch = "waits" /\ DOMAIN exit = {"delta", "patch"}
  BY <1>2
<1>7. CASE o.status # "ok"
  <2>1. out' = o /\ Ends("2") /\ UNCHANGED <<job, in, from, gen, match, cont>>
    BY <1>4, <1>7 DEF WriteControl, ControlWritten
  <2> HIDE DEF o
  <2>2. pc' = "ended" /\ exit'.delta = "2" /\ exit'.patch = "waits"
    BY <1>2, <1>6, <2>1 DEF Ends
  <2>3. Typed'
    BY <1>2, <1>5, <2>1, <2>2, SameJob DEF Typed
  <2>4. Finished'
    BY <1>7, <2>1, <2>2 DEF Finished
  <2>5. QED
    BY <2>2, <2>3, <2>4 DEF XInv, Scanning, Generating
<1>8. CASE o.status = "ok"
  <2>1. /\ out' = o /\ cont' = ControlPacked /\ exit' = [exit EXCEPT !.delta = "0"] /\ pc' = "made"
        /\ UNCHANGED <<job, in, from, gen, match>>
    BY <1>4, <1>8 DEF WriteControl, ControlWritten
  <2> HIDE DEF o
  <2>2. exit' = [delta |-> "0", patch |-> "waits"]
    BY <1>2, <2>1
  <2>3. cont' = [made |-> TRUE, infos |-> infos, insts |-> Packed(infos, R), to_len |-> InLength,
                 to_md5 |-> in.hashed, no_verify |-> ~job.verify, data |-> out.file]
    BY <2>1 DEF ControlPacked, Control
  <2> HIDE DEF infos, R
  <2>4. /\ cont'.made /\ cont'.infos = infos /\ cont'.insts = Packed(infos, R) /\ cont'.to_len = InLength
        /\ cont'.to_md5 = in.hashed /\ cont'.no_verify = ~job.verify /\ cont'.data = out.file
        /\ MadeFields(cont')
    BY <2>3 DEF MadeFields
  <2>5. InfosOf(cont.infos)'
    BY <1>3, <2>1, <2>4 DEF InfosOf, FromLength
  <2>6. ControlOf(Packed(cont.infos, Reindexed))'
    <3>1. Reindexed' = R
      BY <2>1 DEF Reindexed, R
    <3>2. Packed(cont.infos, Reindexed)' = Packed(infos, R)
      BY <2>4, <3>1 DEF Packed
    <3>3. Ordered(gen)' /\ InLength' = InLength
      BY <1>2, <2>1 DEF Ordered, InLength, Target
    <3>4. out.file \in Seq(Byte \cup {Junk}) /\ Len(out.file) = gen.data_output_pos /\ Makes(gen.insts, out.file)
      BY <1>1, <1>2 DEF Built, Wrote, Written
    <3>5. Makes(gen.insts, cont.data)'
      BY <2>1, <2>4, <3>4 DEF Makes, Holds, Piece, Target
    <3>6. Digested(in)'
      BY <1>1, <2>1 DEF Digested, PagesOf
    <3>7. QED
      BY <1>2, <2>1, <2>4, <3>2, <3>3, <3>4, <3>5, <3>6 DEF ControlOf
  <2>7. MadeHolds'
    BY <2>2, <2>4, <2>5, <2>6 DEF MadeHolds, MadeFields
  <2>8. Typed'
    BY <1>2, <1>5, <2>1, SameJob DEF Typed
  <2>9. pc' = "made"
    BY <2>1
  <2>10. QED
    BY <2>7, <2>8, <2>9 DEF XInv, Scanning, Generating
<1>9. QED
  BY <1>7, <1>8

(***************************************************************************)
(* The command patch.                                                      *)
(***************************************************************************)


\* The number of the file among the sources of a control that delta has made.
LEMMA FromSourceIs ==
  ASSUME gen \in Generator, NEW infos, InfosOf(infos)
  PROVE  /\ ~Incompatible(infos)
         /\ FromSource(infos) = IF 1 \notin gen.used THEN 0 ELSE IF 0 \in gen.used THEN 2 ELSE 1
         /\ 1 \in gen.used => infos[FromSource(infos)].len = FromLength
<1>1. CASE 0 \in gen.used /\ 1 \in gen.used
  <2>1. Len(infos) = 2 /\ infos[1].isdata /\ infos[2].len = FromLength
    BY <1>1 DEF InfosOf
  <2>2. FromSource(infos) = 2
    BY <2>1 DEF FromSource
  <2>3. QED
    BY <1>1, <2>1, <2>2 DEF Incompatible
<1>2. CASE 0 \in gen.used /\ 1 \notin gen.used
  <2>1. Len(infos) = 1 /\ infos[1].isdata
    BY <1>2 DEF InfosOf
  <2>2. FromSource(infos) = 0
    BY <2>1 DEF FromSource
  <2>3. QED
    BY <1>2, <2>1, <2>2 DEF Incompatible
<1>3. CASE 0 \notin gen.used /\ 1 \in gen.used
  <2>1. Len(infos) = 1 /\ ~infos[1].isdata /\ infos[1].len = FromLength
    BY <1>3 DEF InfosOf
  <2>2. FromSource(infos) = 1
    BY <2>1 DEF FromSource
  <2>3. QED
    BY <1>3, <2>1, <2>2 DEF Incompatible
<1>4. CASE 0 \notin gen.used /\ 1 \notin gen.used
  BY <1>4 DEF InfosOf, Incompatible, FromSource
<1>5. QED
  BY <1>1, <1>2, <1>3, <1>4

\* The control is what it was before it was packed, and nothing is copied yet.
LEMMA ReadPatchStep ==
  ASSUME XInv, ReadPatch
  PROVE  XInv'
<1>1. Typed /\ MadeHolds
  BY DEF XInv, ReadPatch
<1>2. /\ job \in Inputs /\ gen \in Generator /\ match \in Matches /\ out \in Written
      /\ FileOf(in, FALSE) /\ FileOf(from, TRUE) /\ in.data = job.target /\ job.writes \in Nat
      /\ exit = [delta |-> "0", patch |-> "waits"] /\ Ordered(gen) /\ gen.insts \in Seq(Instruction)
  BY <1>1, JobFacts DEF Typed, MadeHolds, ControlOf, Generator
<1> DEFINE infos == cont.infos
           n == FromSource(infos)
           o == WriteHandle(job.writes)
           h == ReadHandle(job.given, TRUE)
           d == ProcessPatch
<1>3. InfosOf(infos) /\ cont.insts = Packed(infos, Reindexed)
  BY <1>1 DEF MadeHolds, ControlOf
<1>4. /\ ~Incompatible(infos) /\ n = (IF 1 \notin gen.used THEN 0 ELSE IF 0 \in gen.used THEN 2 ELSE 1)
      /\ 1 \in gen.used => infos[n].len = FromLength
  BY <1>2, <1>3, FromSourceIs
<1>5. Unpacked(infos, cont.insts) = Reindexed
  BY <1>2, <1>3, InfosFitted, PackedFacts
<1>6. /\ d.made = cont.made /\ d.infos = infos /\ d.insts = Reindexed /\ d.to_len = cont.to_len
      /\ d.to_md5 = cont.to_md5 /\ d.no_verify = cont.no_verify /\ d.data = cont.data
      /\ d.from_source = n /\ d.pos = 0 /\ d.inst = 1 /\ d.copied = 0 /\ CopyFields(d)
  <2> DEFINE c == ControlRead
  <2>1. /\ c.made = cont.made /\ c.infos = infos /\ c.insts = Reindexed /\ c.to_len = cont.to_len
        /\ c.to_md5 = cont.to_md5 /\ c.no_verify = cont.no_verify /\ c.data = cont.data
    <3>1. c = [cont EXCEPT !.insts = Reindexed]
      BY <1>5 DEF ControlRead
    <3>2. cont = [made |-> cont.made, infos |-> cont.infos, insts |-> cont.insts, to_len |-> cont.to_len,
                  to_md5 |-> cont.to_md5, no_verify |-> cont.no_verify, data |-> cont.data]
      BY <1>1 DEF MadeHolds, MadeFields
    <3> HIDE DEF c
    <3>3. QED
      BY <3>1, <3>2
  <2>2. d = [made |-> c.made, infos |-> c.infos, insts |-> c.insts, to_len |-> c.to_len, to_md5 |-> c.to_md5,
             no_verify |-> c.no_verify, data |-> c.data,
             from_source |-> FromSource(c.infos), pos |-> 0, inst |-> 1, copied |-> 0]
    BY DEF ProcessPatch
  <2> HIDE DEF c, d
  <2>3. /\ d.made = c.made /\ d.infos = c.infos /\ d.insts = c.insts /\ d.to_len = c.to_len
        /\ d.to_md5 = c.to_md5 /\ d.no_verify = c.no_verify /\ d.data = c.data
        /\ d.from_source = FromSource(c.infos) /\ d.pos = 0 /\ d.inst = 1 /\ d.copied = 0
    BY <2>2
  <2>4. CopyFields(d)
    BY <2>2, <2>3 DEF CopyFields
  <2>5. QED
    BY <2>1, <2>3, <2>4
<1>7. o \in Written /\ o.bytes = <<>> /\ ~o.reset /\ o.hashed = <<>> /\ o.file = <<>> /\ o.status = "ok"
  BY <1>2, WriteHandleFacts
<1>8. FileOf(h, TRUE) /\ h.data = job.given /\ Idle(h)
  BY <1>2, OpenedFacts DEF AFile
<1> HIDE DEF d, h, o
<1>9. /\ out' = o /\ UNCHANGED <<job, in, gen, match>>
      /\ IF n # 0 /\ Len(job.given) # infos[n].len
         THEN Ends("2") /\ UNCHANGED <<from, cont>>
         ELSE from' = h /\ cont' = d /\ exit' = [exit EXCEPT !.patch = "runs"] /\ pc' = "copy"
  BY <1>4, <1>6 DEF ReadPatch, d, o, h
<1>10. exit.delta = "0" /\ exit.patch = "waits"
  BY <1>2
<1> HIDE DEF n, infos
<1>11. CASE n # 0 /\ Len(job.given) # infos[n].len
  <2>1. Ends("2") /\ from' = from /\ cont' = cont
    BY <1>9, <1>11
  <2>2. pc' = "ended" /\ exit'.delta = "0" /\ exit'.patch = "2"
    BY <1>2, <1>10, <2>1 DEF Ends
  <2>3. Typed'
    BY <1>2, <1>7, <1>9, <2>1, <2>2, SameJob DEF Typed
  <2>4. job.given # job.source
    BY <1>4, <1>11 DEF FromLength
  <2>5. Finished'
    BY <1>9, <2>2, <2>4 DEF Finished
  <2>6. QED
    BY <2>2, <2>3, <2>5 DEF XInv, Scanning, Generating
<1>12. CASE ~(n # 0 /\ Len(job.given) # infos[n].len)
  <2>1. from' = h /\ cont' = d /\ exit' = [exit EXCEPT !.patch = "runs"] /\ pc' = "copy"
    BY <1>9, <1>12
  <2>2. exit' = [delta |-> "0", patch |-> "runs"]
    BY <1>2, <2>1
  <2>3. Typed'
    BY <1>2, <1>7, <1>8, <1>9, <2>1, SameJob DEF Typed
  <2>4. Reindexed' = Reindexed /\ InLength' = InLength /\ FromLength' = FromLength /\ Target' = Target
    BY <1>9, SameJob DEF Reindexed
  <2>5. ControlOf(Reindexed)'
    <3>1. ControlOf(cont.insts)
      BY <1>1, <1>3 DEF MadeHolds, infos
    <3>2. Ordered(gen)' /\ Digested(in)'
      BY <1>9, <2>4, <3>1 DEF ControlOf, Ordered, Digested, PagesOf
    <3>3. Makes(gen.insts, cont.data)'
      BY <1>6, <1>9, <2>1, <2>4, <3>1 DEF ControlOf, Makes, Holds, Piece
    <3>4. QED
      BY <1>6, <1>9, <2>1, <2>4, <3>1, <3>2, <3>3 DEF ControlOf
  <2>6. Before(gen.insts, 0, 1) = 0 /\ Before(gen.insts, 1, 1) = 0
    <3>1. Len(gen.insts) \in Nat /\ Lengths(gen.insts, Len(gen.insts))
      <4>1. Len(gen.insts) \in Nat /\ \A i \in 1 .. Len(gen.insts) : gen.insts[i] \in Instruction
        BY <1>2
      <4>2. \A i \in 1 .. Len(gen.insts) : gen.insts[i].length \in Nat
        BY <4>1 DEF Instruction
      <4>3. QED
        BY <4>1, <4>2 DEF Lengths
    <3>2. QED
      BY <3>1, BeforeFacts
  <2>7. Start(gen.insts, 1) + 0 = 0
    BY <2>6 DEF Start
  <2>8. SubSeq(Target, 1, 0) = <<>> /\ 1 \in 1 .. Len(gen.insts) + 1
    BY <1>2, JobFacts
  <2>9. 1 \in gen.used => Len(job.given) = FromLength
    BY <1>4, <1>12
  <2>10. Copying'
    <3>1. /\ CopyFields(cont') /\ ControlOf(Reindexed)' /\ exit' = [delta |-> "0", patch |-> "runs"]
          /\ Idle(from') /\ from'.data = job'.given /\ (1 \in gen'.used => Len(job'.given) = FromLength')
      BY <1>6, <1>8, <1>9, <2>1, <2>2, <2>4, <2>5, <2>9
    <3>2. /\ cont'.from_source = IF 1 \notin gen'.used THEN 0 ELSE IF 0 \in gen'.used THEN 2 ELSE 1
          /\ cont'.inst \in 1 .. Len(gen'.insts) + 1 /\ cont'.copied \in Nat /\ ~(cont'.copied > 0)
          /\ cont'.pos = Before(gen'.insts, 0, cont'.inst)
      BY <1>4, <1>6, <1>9, <2>1, <2>6, <2>8
    <3>3. /\ ~out'.reset /\ out'.bytes = out'.file
          /\ out'.hashed = (IF job'.verify THEN out'.bytes ELSE <<>>)
          /\ out'.bytes = SubSeq(Target', 1, Start(gen'.insts, cont'.inst) + cont'.copied)
      BY <1>6, <1>7, <1>9, <2>1, <2>4, <2>7, <2>8
    <3>4. QED
      BY <3>1, <3>2, <3>3 DEF Copying, Idle, CopyFields
  <2>11. QED
    BY <2>1, <2>3, <2>10 DEF XInv, Scanning, Generating
<1>13. QED
  BY <1>11, <1>12

\* What an instruction of the control copies, and where it goes.
InstAt(c, i) ==
  LET inst == gen.insts[i] IN
  /\ inst \in Instruction /\ inst.index \in gen.used /\ inst.index \in {0, 1}
  /\ c.insts[i].index = NumberOf(inst.index) /\ c.insts[i].offset = inst.offset
  /\ c.insts[i].length = inst.length
  /\ Start(gen.insts, i) \in Nat /\ Start(gen.insts, i + 1) = Start(gen.insts, i) + inst.length
  /\ Start(gen.insts, i + 1) <= InLength
  /\ Before(gen.insts, 0, i) \in Nat
  /\ Before(gen.insts, 0, i + 1) = Before(gen.insts, 0, i) + (IF inst.index = 0 THEN inst.length ELSE 0)
  /\ inst.index = 0 => inst.offset = Before(gen.insts, 0, i)
  /\ inst.offset + inst.length <= Len(Piece(inst.index, c.data))
  /\ \A k \in 1 .. inst.length :
       Target[Start(gen.insts, i) + k] = Piece(inst.index, c.data)[inst.offset + k]

\* An instruction of the control, its piece of the target and of its source.
LEMMA InstFacts ==
  ASSUME job \in Inputs, gen \in Generator, ControlOf(Reindexed), NEW i \in 1 .. Len(gen.insts)
  PROVE  InstAt(cont, i)
<1> DEFINE insts == gen.insts
           n == Len(insts)
           inst == insts[i]
<1>1. n \in Nat /\ \A j \in 1 .. n : insts[j] \in Instruction
  BY DEF Generator
<1>2. Lengths(insts, n)
  <2>1. \A j \in 1 .. n : insts[j].length \in Nat
    BY <1>1 DEF Instruction
  <2>2. QED
    BY <2>1 DEF Lengths
<1>3. Ordered(gen) /\ gen.to_output_pos = InLength /\ Makes(insts, cont.data) /\ cont.insts = Reindexed
  BY DEF ControlOf
<1>4. Renumbered(cont.insts)
  BY <1>3, ReindexedFacts
<1>5. /\ inst.index \in gen.used /\ cont.insts[i].index = NumberOf(inst.index)
      /\ cont.insts[i].offset = inst.offset /\ cont.insts[i].length = inst.length
  BY <1>4 DEF Renumbered
<1>6. inst \in Instruction /\ inst.index \in {0, 1} /\ inst.length \in Nat \ {0} /\ inst.offset \in Nat
  BY <1>1 DEF Instruction
<1>7. i \in 1 .. n + 1 /\ i + 1 \in 1 .. n + 1
  BY <1>1
<1>8. \A s : Before(insts, s, i) \in Nat /\ Before(insts, s, i + 1) \in Nat
             /\ Before(insts, s, i + 1) = Before(insts, s, i) + PartOf(inst, s)
  BY <1>1, <1>2, <1>7, BeforeFacts
<1>9. PICK a \in Nat, b \in Nat : a = Before(insts, 0, i) /\ b = Before(insts, 1, i)
  BY <1>8
<1>10. PICK c \in Nat, d \in Nat : c = Before(insts, 0, i + 1) /\ d = Before(insts, 1, i + 1)
  BY <1>8
<1>11. PICK e \in Nat, f \in Nat : e = Before(insts, 0, n + 1) /\ f = Before(insts, 1, n + 1)
  <2>1. n + 1 \in 1 .. n + 1
    BY <1>1
  <2>2. QED
    BY <1>1, <1>2, <2>1, BeforeFacts
<1>12. c <= e /\ d <= f
  BY <1>1, <1>2, <1>7, <1>10, <1>11, BeforeGrows
<1>13. e + f = InLength
  BY <1>3, <1>11 DEF Ordered, Size
<1>14. c = a + PartOf(inst, 0) /\ d = b + PartOf(inst, 1)
  BY <1>8, <1>9, <1>10
<1>15. Start(insts, i) = a + b /\ Start(insts, i + 1) = c + d
  BY <1>9, <1>10 DEF Start
<1>16. a + b \in Nat /\ c + d = (a + b) + inst.length /\ c + d <= InLength
       /\ c = a + (IF inst.index = 0 THEN inst.length ELSE 0)
  <2>1. PartOf(inst, 0) + PartOf(inst, 1) = inst.length /\ PartOf(inst, 0) \in Nat /\ PartOf(inst, 1) \in Nat
    BY <1>6 DEF PartOf
  <2>2. PICK q \in Nat, r \in Nat : q = PartOf(inst, 0) /\ r = PartOf(inst, 1)
    BY <2>1
  <2>3. c + d = (a + b) + inst.length
    BY <1>6, <1>14, <2>1, <2>2
  <2>4. c + d <= InLength
    BY <1>12, <1>13
  <2>5. c = a + (IF inst.index = 0 THEN inst.length ELSE 0)
    BY <1>14 DEF PartOf
  <2>6. QED
    BY <2>3, <2>4, <2>5
<1>17. inst.index = 0 => inst.offset = a
  BY <1>3, <1>9 DEF Ordered, InSequence
<1>18. Holds(insts, cont.data, i)
  BY <1>3 DEF Makes
<1>19. /\ inst.offset + inst.length <= Len(Piece(inst.index, cont.data))
       /\ \A k \in 1 .. inst.length :
            Target[Start(insts, i) + k] = Piece(inst.index, cont.data)[inst.offset + k]
  BY <1>18 DEF Holds
<1>20. /\ Start(insts, i) \in Nat /\ Start(insts, i + 1) = Start(insts, i) + inst.length
       /\ Start(insts, i + 1) <= InLength
  BY <1>15, <1>16
<1>21. /\ Before(insts, 0, i) \in Nat
       /\ Before(insts, 0, i + 1) = Before(insts, 0, i) + (IF inst.index = 0 THEN inst.length ELSE 0)
       /\ inst.index = 0 => inst.offset = Before(insts, 0, i)
  BY <1>9, <1>10, <1>16, <1>17
<1>22. QED
  BY <1>5, <1>6, <1>19, <1>20, <1>21 DEF InstAt

\* A piece of a file, and the bytes of it.
PieceOf(s, a, b) == SubSeq(s, a + 1, b)
GoesTo(s, a, b, c) ==
  /\ SubSeq(s, 1, a) \o c = SubSeq(s, 1, b) /\ c \in Seq(Byte) /\ Len(c) = b - a
  /\ \A i \in 1 .. b - a : c[i] = s[a + i]
LEMMA PieceIs ==
  ASSUME NEW s \in Seq(Byte), NEW a \in Nat, NEW b \in Nat, a <= b, b <= Len(s),
         NEW c, c = PieceOf(s, a, b)
  PROVE  GoesTo(s, a, b, c)
<1>1. s \in Seq(Byte) /\ a \in Nat /\ b \in Nat /\ a <= b /\ b <= Len(s)
  OBVIOUS
<1>2. SubSeq(s, 1, a) \o SubSeq(s, a + 1, b) = SubSeq(s, 1, b)
  BY <1>1, PiecesJoin, Zenon
<1>3. SubSeq(s, a + 1, b) \in Seq(Byte)
  BY <1>1, PiecesJoin, Zenon
<1>7. Len(SubSeq(s, a + 1, b)) = b - a
  BY <1>1
<1>4. \A i \in 1 .. b - a : SubSeq(s, a + 1, b)[i] = s[a + i]
  BY <1>1, PiecesJoin, Zenon
<1>5. c = SubSeq(s, a + 1, b)
  BY DEF PieceOf
<1>6. QED
  BY <1>2, <1>3, <1>4, <1>5, <1>7, Zenon DEF GoesTo

\* Bytes that go on where a piece from the beginning ends.
LEMMA PieceAfter ==
  ASSUME NEW s \in Seq(Byte), NEW bytes \in Seq(Bytes), NEW a \in Nat, a + Len(bytes) <= Len(s),
         \A k \in 1 .. Len(bytes) : bytes[k] = s[a + k]
  PROVE  SubSeq(s, 1, a) \o bytes = SubSeq(s, 1, a + Len(bytes))
<1>1. PICK b \in Nat : b = a + Len(bytes)
  <2>1. Len(bytes) \in Nat
    OBVIOUS
  <2>2. QED
    BY <2>1
<1>2. a <= b /\ b <= Len(s) /\ Len(bytes) = b - a /\ Len(bytes) \in Nat
  BY <1>1
<1>3. PICK c : c = PieceOf(s, a, b)
  OBVIOUS
<1>4. GoesTo(s, a, b, c)
  <2>1. /\ s \in Seq(Byte) /\ a \in Nat /\ b \in Nat /\ a <= b /\ b <= Len(s) /\ c = PieceOf(s, a, b)
    BY <1>2, <1>3
  <2>2. QED
    BY <2>1, PieceIs, Zenon
<1>5. bytes = c
  <2>1. \A i \in 1 .. Len(bytes) : bytes[i] = c[i]
    BY <1>2, <1>4 DEF GoesTo
  <2>2. bytes = [i \in 1 .. Len(bytes) |-> bytes[i]] /\ c = [i \in 1 .. Len(c) |-> c[i]]
    BY <1>4 DEF GoesTo
  <2>3. QED
    BY <1>2, <1>4, <2>1, <2>2 DEF GoesTo
<1>6. QED
  BY <1>1, <1>4, <1>5 DEF GoesTo

\* A turn of patch: it changes the file it writes, its place in the control and,
\* if it copies from it, the file it reads.
SameControl(d, c) ==
  /\ CopyFields(d) /\ d.made = c.made /\ d.infos = c.infos /\ d.insts = c.insts /\ d.to_len = c.to_len
  /\ d.to_md5 = c.to_md5 /\ d.no_verify = c.no_verify /\ d.data = c.data /\ d.from_source = c.from_source
PlaceIn(c) ==
  /\ c.inst \in 1 .. Len(gen.insts) + 1 /\ c.copied \in Nat
  /\ c.copied > 0 => c.inst <= Len(gen.insts) /\ gen.insts[c.inst].index = 1
                     /\ c.copied < gen.insts[c.inst].length
  /\ c.pos = Before(gen.insts, 0, c.inst)
Goes(c) == Start(gen.insts, c.inst) + c.copied

\* A turn of patch that writes the next bytes of the target, if the file is the right one.
LEMMA CopyGoesOn ==
  ASSUME Typed, Copying, out.status = "ok", pc' = "copy",
         UNCHANGED <<job, in, gen, match, exit>>,
         FileOf(from', TRUE), from'.data = from.data, Idle(from'),
         SameControl(cont', cont), PlaceIn(cont'),
         NEW bytes \in Seq(Bytes), out' = HandleWrite(out, bytes, job.verify),
         job.given = job.source =>
           /\ Goes(cont) \in Nat /\ Goes(cont') = Goes(cont) + Len(bytes) /\ Goes(cont') <= InLength
           /\ \A k \in 1 .. Len(bytes) : bytes[k] = Target[Goes(cont) + k]
  PROVE  XInv'
<1>1. /\ job \in Inputs /\ gen \in Generator /\ match \in Matches /\ out \in Written
      /\ FileOf(in, FALSE) /\ in.data = job.target /\ job.verify \in BOOLEAN /\ Target \in Seq(Byte)
  BY JobFacts DEF Typed
<1>2. WroteTo(out', out, bytes, job.verify)
  BY <1>1, WriteFacts
<1>3. out' \in Written
  BY <1>2 DEF WroteTo
<1>4. Typed'
  BY <1>1, <1>3, SameJob DEF Typed
<1>5. Reindexed' = Reindexed /\ InLength' = InLength /\ FromLength' = FromLength /\ Target' = Target
  BY SameJob DEF Reindexed
<1>6. ~out.reset /\ out.bytes = out.file /\ Since(out) = out.bytes
  BY DEF Copying, Since
<1>7. ~out'.reset /\ out'.bytes = out'.file
  <2>1. CASE out.writes = 0
    BY <1>2, <1>6, <2>1 DEF WroteTo
  <2>2. CASE out.writes # 0
    BY <1>2, <1>6, <2>2 DEF WroteTo
  <2>3. QED
    BY <2>1, <2>2
<1>8. ASSUME out'.status = "ok"
      PROVE  out'.bytes = out.bytes \o bytes /\ out'.hashed = (IF job.verify THEN out'.bytes ELSE <<>>)
  <2>1. out.writes # 0
    BY <1>2, <1>8 DEF WroteTo
  <2>2. out'.bytes = out.bytes \o bytes
        /\ out'.hashed = (IF job.verify THEN out.hashed \o bytes ELSE out.hashed)
    BY <1>2, <1>6, <2>1 DEF WroteTo
  <2>3. out.hashed = (IF job.verify THEN out.bytes ELSE <<>>)
    BY DEF Copying
  <2>4. QED
    BY <2>2, <2>3
<1>9. ASSUME out'.status = "ok", job.given = job.source
      PROVE  out'.bytes = SubSeq(Target, 1, Goes(cont'))
  <2>1. PICK a \in Nat : a = Goes(cont)
    BY <1>9
  <2>2. Len(bytes) \in Nat
    OBVIOUS
  <2>3. Goes(cont') = a + Len(bytes) /\ a + Len(bytes) <= Len(Target)
        /\ \A k \in 1 .. Len(bytes) : bytes[k] = Target[a + k]
    BY <1>9, <2>1, <2>2 DEF InLength
  <2>4. SubSeq(Target, 1, a) \o bytes = SubSeq(Target, 1, a + Len(bytes))
    BY <1>1, <2>1, <2>3, PieceAfter
  <2>5. out.bytes = SubSeq(Target, 1, a)
    BY <1>9, <2>1 DEF Copying, Goes
  <2>6. QED
    BY <1>8, <1>9, <2>3, <2>4, <2>5
<1>10. ControlOf(Reindexed)'
  <2>1. ControlOf(Reindexed)
    BY DEF Copying
  <2>2. Ordered(gen)' /\ Digested(in)'
    BY <1>5, <2>1 DEF ControlOf, Ordered, Digested, PagesOf
  <2>3. Makes(gen.insts, cont.data)'
    BY <1>5, <2>1 DEF ControlOf, Makes, Holds, Piece, SameControl
  <2>4. QED
    BY <1>5, <2>1, <2>2, <2>3 DEF ControlOf, SameControl
<1>11. Copying'
  <2>1. /\ exit' = [delta |-> "0", patch |-> "runs"]
        /\ Idle(from)' /\ from'.data = job'.given /\ (1 \in gen'.used => Len(job'.given) = FromLength')
        /\ cont'.from_source = IF 1 \notin gen'.used THEN 0 ELSE IF 0 \in gen'.used THEN 2 ELSE 1
    BY <1>5 DEF Copying, SameControl, Idle
  <2>2. /\ cont'.inst \in 1 .. Len(gen'.insts) + 1 /\ cont'.copied \in Nat
        /\ cont'.copied > 0 => cont'.inst <= Len(gen'.insts) /\ gen'.insts[cont'.inst].index = 1
                               /\ cont'.copied < gen'.insts[cont'.inst].length
        /\ cont'.pos = Before(gen'.insts, 0, cont'.inst)
    BY DEF PlaceIn
  <2>3. CopyFields(cont')
    BY DEF SameControl
  <2>4. out'.status = "ok" =>
          /\ out'.hashed = (IF job'.verify THEN out'.bytes ELSE <<>>)
          /\ job'.given = job'.source
               => out'.bytes = SubSeq(Target', 1, Start(gen'.insts, cont'.inst) + cont'.copied)
    BY <1>5, <1>8, <1>9 DEF Goes
  <2>5. QED
    BY <1>7, <1>10, <2>1, <2>2, <2>3, <2>4 DEF Copying, CopyFields
<1>12. QED
  BY <1>4, <1>11 DEF XInv, Scanning, Generating

\* Where patch is in the instructions: the control it reads has as many of them,
\* and the file is the one it says.
CopyAt(i) ==
  /\ i = cont.inst /\ i \in 1 .. Len(gen.insts) /\ InstAt(cont, i)
  /\ IsData <=> gen.insts[i].index = 0
  /\ Inst.offset = gen.insts[i].offset /\ Inst.length = gen.insts[i].length
  /\ gen.insts[i].offset \in Nat /\ gen.insts[i].length \in Nat \ {0}
  /\ (~cont.no_verify) = job.verify
LEMMA CopyPlace ==
  ASSUME Typed, Copying, cont.inst <= Len(cont.insts)
  PROVE  CopyAt(cont.inst)
<1>1. job \in Inputs /\ gen \in Generator /\ ControlOf(Reindexed) /\ job.verify \in BOOLEAN
  BY JobFacts DEF Typed, Copying
<1>2. Len(cont.insts) = Len(gen.insts)
  <2>1. Renumbered(Reindexed) /\ cont.insts = Reindexed
    BY <1>1, ReindexedFacts DEF ControlOf
  <2>2. QED
    BY <2>1 DEF Renumbered
<1>3. PICK i : i = cont.inst
  OBVIOUS
<1>4. i \in 1 .. Len(gen.insts)
  <2>1. i \in 1 .. Len(gen.insts) + 1 /\ i <= Len(gen.insts)
    BY <1>2, <1>3 DEF Copying
  <2>2. Len(gen.insts) \in Nat
    BY <1>1 DEF Generator
  <2>3. QED
    BY <2>1, <2>2
<1>5. InstAt(cont, i)
  BY <1>1, <1>4, InstFacts
<1>6. PICK inst : inst = gen.insts[i]
  OBVIOUS
<1>7. /\ inst \in Instruction /\ inst.index \in gen.used /\ inst.index \in {0, 1}
      /\ cont.insts[i].index = NumberOf(inst.index) /\ cont.insts[i].offset = inst.offset
      /\ cont.insts[i].length = inst.length
  BY <1>5, <1>6 DEF InstAt
<1>8. Inst = cont.insts[i]
  BY <1>3 DEF Inst
<1>9. inst.offset \in Nat /\ inst.length \in Nat \ {0}
  BY <1>7 DEF Instruction
<1>10. IsData <=> inst.index = 0
  <2>1. cont.from_source = IF 1 \notin gen.used THEN 0 ELSE IF 0 \in gen.used THEN 2 ELSE 1
    BY DEF Copying
  <2>2. Inst.index = NumberOf(inst.index)
    BY <1>7, <1>8
  <2>3. CASE inst.index = 0
    <3>1. Inst.index = 0 /\ 0 \in gen.used
      BY <1>7, <2>2, <2>3 DEF NumberOf
    <3>2. cont.from_source \in {0, 2}
      BY <2>1, <3>1
    <3>3. QED
      BY <2>3, <3>1, <3>2 DEF IsData
  <2>4. CASE inst.index = 1
    <3>1. Inst.index = (IF 0 \in gen.used THEN 1 ELSE 0) /\ 1 \in gen.used
      BY <1>7, <2>2, <2>4 DEF NumberOf
    <3>2. cont.from_source = IF 0 \in gen.used THEN 2 ELSE 1
      BY <2>1, <3>1
    <3>3. Inst.index + 1 = cont.from_source
      <4>1. CASE 0 \in gen.used
        BY <3>1, <3>2, <4>1
      <4>2. CASE 0 \notin gen.used
        BY <3>1, <3>2, <4>2
      <4>3. QED
        BY <4>1, <4>2
    <3>4. QED
      BY <2>4, <3>3 DEF IsData
  <2>5. QED
    BY <1>7, <2>3, <2>4
<1>11. (~cont.no_verify) = job.verify
  <2>1. cont.no_verify = ~job.verify
    BY <1>1 DEF ControlOf
  <2>2. CASE job.verify = TRUE
    <3>1. cont.no_verify = FALSE
      BY <2>1, <2>2
    <3>2. QED
      BY <2>2, <3>1
  <2>3. CASE job.verify = FALSE
    <3>1. cont.no_verify = TRUE
      BY <2>1, <2>3
    <3>2. QED
      BY <2>3, <3>1
  <2>4. QED
    BY <1>1, <2>2, <2>3
<1>12. QED
  BY <1>3, <1>4, <1>5, <1>6, <1>7, <1>8, <1>9, <1>10, <1>11 DEF CopyAt

\* The control with the place in it changed.
Placed(c, pos, i, copied) ==
  [made |-> c.made, infos |-> c.infos, insts |-> c.insts, to_len |-> c.to_len, to_md5 |-> c.to_md5,
   no_verify |-> c.no_verify, data |-> c.data, from_source |-> c.from_source, pos |-> pos,
   inst |-> i, copied |-> copied]
LEMMA PlacedFacts ==
  ASSUME NEW c, NEW pos, NEW i, NEW copied, NEW d, d = Placed(c, pos, i, copied)
  PROVE  SameControl(d, c) /\ d.pos = pos /\ d.inst = i /\ d.copied = copied
<1>1. /\ d.made = c.made /\ d.infos = c.infos /\ d.insts = c.insts /\ d.to_len = c.to_len
      /\ d.to_md5 = c.to_md5 /\ d.no_verify = c.no_verify /\ d.data = c.data
      /\ d.from_source = c.from_source /\ d.pos = pos /\ d.inst = i /\ d.copied = copied
  BY DEF Placed
<1>2. CopyFields(d)
  BY <1>1 DEF Placed, CopyFields
<1>3. QED
  BY <1>1, <1>2 DEF SameControl
LEMMA PlacedOne ==
  ASSUME NEW c, CopyFields(c), NEW v
  PROVE  /\ [c EXCEPT !.pos = v] = Placed(c, v, c.inst, c.copied)
         /\ [c EXCEPT !.inst = v] = Placed(c, c.pos, v, c.copied)
         /\ [c EXCEPT !.copied = v] = Placed(c, c.pos, c.inst, v)
<1>1. PICK a, b, e, f, g, h, j, k, p0, i0, n0 :
        /\ a = c.made /\ b = c.infos /\ e = c.insts /\ f = c.to_len /\ g = c.to_md5 /\ h = c.no_verify
        /\ j = c.data /\ k = c.from_source /\ p0 = c.pos /\ i0 = c.inst /\ n0 = c.copied
  OBVIOUS
<1>2. c = [made |-> a, infos |-> b, insts |-> e, to_len |-> f, to_md5 |-> g, no_verify |-> h, data |-> j,
           from_source |-> k, pos |-> p0, inst |-> i0, copied |-> n0]
  BY <1>1 DEF CopyFields
<1>3. [c EXCEPT !.pos = v]
        = [made |-> a, infos |-> b, insts |-> e, to_len |-> f, to_md5 |-> g, no_verify |-> h, data |-> j,
           from_source |-> k, pos |-> v, inst |-> i0, copied |-> n0]
  BY <1>2
<1>4. [c EXCEPT !.inst = v]
        = [made |-> a, infos |-> b, insts |-> e, to_len |-> f, to_md5 |-> g, no_verify |-> h, data |-> j,
           from_source |-> k, pos |-> p0, inst |-> v, copied |-> n0]
  BY <1>2
<1>5. [c EXCEPT !.copied = v]
        = [made |-> a, infos |-> b, insts |-> e, to_len |-> f, to_md5 |-> g, no_verify |-> h, data |-> j,
           from_source |-> k, pos |-> p0, inst |-> i0, copied |-> v]
  BY <1>2
<1>6. Placed(c, v, c.inst, c.copied)
        = [made |-> a, infos |-> b, insts |-> e, to_len |-> f, to_md5 |-> g, no_verify |-> h, data |-> j,
           from_source |-> k, pos |-> v, inst |-> i0, copied |-> n0]
  BY <1>1, Zenon DEF Placed
<1>7. Placed(c, c.pos, v, c.copied)
        = [made |-> a, infos |-> b, insts |-> e, to_len |-> f, to_md5 |-> g, no_verify |-> h, data |-> j,
           from_source |-> k, pos |-> p0, inst |-> v, copied |-> n0]
  BY <1>1, Zenon DEF Placed
<1>8. Placed(c, c.pos, c.inst, v)
        = [made |-> a, infos |-> b, insts |-> e, to_len |-> f, to_md5 |-> g, no_verify |-> h, data |-> j,
           from_source |-> k, pos |-> p0, inst |-> i0, copied |-> v]
  BY <1>1, Zenon DEF Placed
<1>9. QED
  BY <1>3, <1>4, <1>5, <1>6, <1>7, <1>8, Zenon
LEMMA PlacedTwo ==
  ASSUME NEW c, CopyFields(c), NEW i, NEW v
  PROVE  [c EXCEPT !.pos = v, !.inst = i] = Placed(c, v, i, c.copied)
<1>1. PICK d : d = [c EXCEPT !.pos = v]
  OBVIOUS
<1>2. d = Placed(c, v, c.inst, c.copied)
  BY <1>1, PlacedOne
<1>3. SameControl(d, c) /\ d.pos = v /\ d.inst = c.inst /\ d.copied = c.copied
  BY <1>2, PlacedFacts
<1>4. [d EXCEPT !.inst = i] = Placed(d, d.pos, i, d.copied)
  BY <1>3, PlacedOne DEF SameControl
<1>5. Placed(d, d.pos, i, d.copied) = Placed(c, v, i, c.copied)
  BY <1>3 DEF Placed, SameControl
<1>6. [c EXCEPT !.pos = v, !.inst = i] = [d EXCEPT !.inst = i]
  BY <1>1, Zenon
<1>7. QED
  BY <1>4, <1>5, <1>6, Zenon
LEMMA PlacedNext ==
  ASSUME NEW c, CopyFields(c), NEW i, NEW v
  PROVE  [c EXCEPT !.inst = i, !.copied = v] = Placed(c, c.pos, i, v)
<1>1. PICK d : d = [c EXCEPT !.inst = i]
  OBVIOUS
<1>2. d = Placed(c, c.pos, i, c.copied)
  BY <1>1, PlacedOne
<1>3. SameControl(d, c) /\ d.pos = c.pos /\ d.inst = i /\ d.copied = c.copied
  BY <1>2, PlacedFacts
<1>4. [d EXCEPT !.copied = v] = Placed(d, d.pos, d.inst, v)
  BY <1>3, PlacedOne DEF SameControl
<1>5. Placed(d, d.pos, d.inst, v) = Placed(c, c.pos, i, v)
  BY <1>3 DEF Placed, SameControl
<1>6. [c EXCEPT !.inst = i, !.copied = v] = [d EXCEPT !.copied = v]
  BY <1>1, Zenon
<1>7. QED
  BY <1>4, <1>5, <1>6, Zenon

\* The data: what the instruction copies comes next in the patch.
LEMMA CopyDataStep ==
  ASSUME XInv, CopyData
  PROVE  XInv'
<1>1. /\ pc = "copy" /\ out.status = "ok" /\ cont.inst <= Len(cont.insts) /\ IsData
      /\ UNCHANGED <<job, in, from, gen, match, pc, exit>>
  BY DEF CopyData
<1>2. Typed /\ Copying
  BY <1>1 DEF XInv
<1>3. PICK i : i = cont.inst
  OBVIOUS
<1>4. CopyAt(i)
  BY <1>1, <1>2, <1>3, CopyPlace
<1>5. PICK a, n : a = gen.insts[i].offset /\ n = gen.insts[i].length
  OBVIOUS
<1>6. /\ i \in 1 .. Len(gen.insts) /\ gen.insts[i].index = 0 /\ Inst.offset = a /\ Inst.length = n
      /\ a \in Nat /\ n \in Nat \ {0} /\ (~cont.no_verify) = job.verify
  BY <1>1, <1>4, <1>5 DEF CopyAt
<1>7. /\ Start(gen.insts, i) \in Nat /\ Start(gen.insts, i + 1) = Start(gen.insts, i) + n
      /\ Start(gen.insts, i + 1) <= InLength
      /\ Before(gen.insts, 0, i) = a /\ Before(gen.insts, 0, i + 1) = a + n
      /\ a + n <= Len(cont.data)
      /\ \A k \in 1 .. n : Target[Start(gen.insts, i) + k] = cont.data[a + k]
  <2>1. InstAt(cont, i)
    BY <1>4 DEF CopyAt
  <2>2. Piece(0, cont.data) = cont.data
    BY DEF Piece
  <2>3. QED
    BY <1>5, <1>6, <2>1, <2>2 DEF InstAt
<1>8. cont.pos = a
  BY <1>2, <1>3, <1>7 DEF Copying
<1>9. cont.copied = 0
  <2>1. cont.copied \in Nat /\ (cont.copied > 0 => gen.insts[i].index = 1)
    BY <1>2, <1>3 DEF Copying
  <2>2. QED
    BY <1>6, <2>1
<1>10. cont.data \in Seq(Bytes)
  BY <1>2 DEF Copying, ControlOf, Bytes
<1>11. PICK bytes : bytes = [k \in 1 .. n |-> IF a + k <= Len(cont.data) THEN cont.data[a + k] ELSE Junk]
  OBVIOUS
<1>12. /\ bytes \in Seq(Bytes) /\ Len(bytes) = n
       /\ \A k \in 1 .. n : bytes[k] = cont.data[a + k]
  <2>1. ASSUME NEW k \in 1 .. n
        PROVE  /\ (IF a + k <= Len(cont.data) THEN cont.data[a + k] ELSE Junk) = cont.data[a + k]
               /\ cont.data[a + k] \in Bytes
    <3>1. a + k \in 1 .. Len(cont.data)
      BY <1>6, <1>7, <1>10
    <3>2. QED
      BY <1>10, <3>1
  <2>2. bytes = [k \in 1 .. n |-> cont.data[a + k]]
    BY <1>11, <2>1
  <2>3. bytes \in [1 .. n -> Bytes]
    BY <2>1, <2>2
  <2>4. bytes \in Seq(Bytes) /\ Len(bytes) = n
    BY <1>6, <2>3
  <2>5. QED
    BY <2>2, <2>4
<1>13. out' = HandleWrite(out, bytes, job.verify)
  <2>1. out' = HandleWrite(out, [k \in 1 .. Inst.length |->
                                   IF cont.pos + k <= Len(cont.data) THEN cont.data[cont.pos + k] ELSE Junk],
                           ~cont.no_verify)
    BY DEF CopyData
  <2>2. [k \in 1 .. Inst.length |->
           IF cont.pos + k <= Len(cont.data) THEN cont.data[cont.pos + k] ELSE Junk] = bytes
    BY <1>6, <1>8, <1>11
  <2>3. out' = HandleWrite(out, bytes, ~cont.no_verify)
    BY <2>1, <2>2, Zenon
  <2>4. (~cont.no_verify) = job.verify
    BY <1>6
  <2>5. QED
    BY <2>3, <2>4, Zenon
<1>14. cont' = Placed(cont, a + n, i + 1, 0)
  <2>1. cont' = [cont EXCEPT !.pos = a + n, !.inst = i + 1]
    BY <1>3, <1>6, <1>8 DEF CopyData
  <2>2. CopyFields(cont)
    BY <1>2 DEF Copying
  <2>3. cont' = Placed(cont, a + n, i + 1, cont.copied)
    BY <2>1, <2>2, PlacedTwo, Zenon
  <2>4. QED
    BY <1>9, <2>3, Zenon
<1>15. SameControl(cont', cont) /\ cont'.pos = a + n /\ cont'.inst = i + 1 /\ cont'.copied = 0
  BY <1>14, PlacedFacts
<1>16. PlaceIn(cont')
  <2>1. Len(gen.insts) \in Nat
    BY <1>2 DEF Typed, Generator
  <2>2. i + 1 \in 1 .. Len(gen.insts) + 1
    BY <1>6, <2>1
  <2>3. QED
    BY <1>7, <1>15, <2>2 DEF PlaceIn
<1>17. /\ Goes(cont) = Start(gen.insts, i) /\ Goes(cont') = Start(gen.insts, i + 1)
  <2>1. Start(gen.insts, i) \in Nat /\ Start(gen.insts, i + 1) \in Nat
    BY <1>6, <1>7
  <2>2. QED
    BY <1>3, <1>9, <1>15, <2>1 DEF Goes
<1>18. /\ Goes(cont) \in Nat /\ Goes(cont') = Goes(cont) + Len(bytes) /\ Goes(cont') <= InLength
       /\ \A k \in 1 .. Len(bytes) : bytes[k] = Target[Goes(cont) + k]
  BY <1>7, <1>12, <1>17
<1>19. FileOf(from', TRUE) /\ from'.data = from.data /\ Idle(from') /\ pc' = "copy"
  <2>1. FileOf(from, TRUE)' <=> FileOf(from', TRUE)
    BY <1>1, SameJob
  <2>2. FileOf(from', TRUE)
    BY <1>1, <1>2 DEF Typed, FileOf, Sound, Digests
  <2>3. QED
    BY <1>1, <1>2, <2>2 DEF Copying
<1>20. QED
  BY <1>1, <1>2, <1>12, <1>13, <1>15, <1>16, <1>18, <1>19, CopyGoesOn

\* A failed write ends the command patch.
LEMMA CopyFailsStep ==
  ASSUME XInv, CopyFails
  PROVE  XInv'
<1>1. /\ pc = "copy" /\ out.status # "ok" /\ Ends("2")
      /\ UNCHANGED <<job, in, from, out, gen, match, cont>>
  BY DEF CopyFails, Stops
<1>2. Typed /\ exit = [delta |-> "0", patch |-> "runs"]
  BY <1>1 DEF XInv, Copying
<1>3. exit' = [delta |-> "0", patch |-> "2"] /\ pc' = "ended"
  BY <1>1, <1>2 DEF Ends
<1>4. Typed'
  BY <1>1, <1>2, <1>3, SameJob DEF Typed, FileOf, Sound, Digests
<1>5. Finished'
  BY <1>1, <1>3 DEF Finished
<1>6. QED
  BY <1>3, <1>4, <1>5 DEF XInv, Scanning, Generating

\* The commands have returned, or nothing is done.
LEMMA StutterStep ==
  ASSUME XInv, UNCHANGED vars
  PROVE  XInv'
<1>1. /\ job' = job /\ in' = in /\ from' = from /\ out' = out /\ gen' = gen /\ match' = match /\ cont' = cont
      /\ pc' = pc /\ exit' = exit
  BY DEF vars
<1>2. /\ Target' = Target /\ InLength' = InLength /\ FromLength' = FromLength
      /\ Built(gen, out)' <=> Built(gen', out')
      /\ FileOf(in, FALSE)' <=> FileOf(in', FALSE)
      /\ FileOf(from, TRUE)' <=> FileOf(from', TRUE)
      /\ BackAt(in, gen, match)' <=> BackAt(in', gen', match')
      /\ ForwardAt(in, gen, match)' <=> ForwardAt(in', gen', match')
      /\ EndsAt(match)' <=> EndsAt(match')
  BY <1>1, SameJob
<1>3. FileOf(in', FALSE) = FileOf(in, FALSE) /\ FileOf(from', TRUE) = FileOf(from, TRUE)
  BY <1>1 DEF FileOf, Digests
<1>4. /\ Built(gen', out') = Built(gen, out) /\ BackAt(in', gen', match') = BackAt(in, gen, match)
      /\ ForwardAt(in', gen', match') = ForwardAt(in, gen, match) /\ EndsAt(match') = EndsAt(match)
  BY <1>1, Zenon
<1>5. Reindexed' = Reindexed
  BY <1>1 DEF Reindexed
<1>6. Typed' <=> Typed
  BY <1>1, <1>2, <1>3 DEF Typed
<1>7. (Runs' <=> Runs) /\ (SumsSoFar' <=> SumsSoFar) /\ (Scans' <=> Scans)
  BY <1>1, <1>2 DEF Runs, SumsSoFar, Scans, TableHolds
<1>8. /\ Fresh(out)' <=> Fresh(out)
      /\ OnLastPage(gen.xpos)' <=> OnLastPage(gen.xpos)
      /\ WindowAt(gen.xpos)' <=> WindowAt(gen.xpos)
      /\ InitQueryChecksum(in, gen.xpos, gen.xpos.off)' = InitQueryChecksum(in, gen.xpos, gen.xpos.off)
  <2>1. Fresh(out)' <=> Fresh(out)
    BY <1>1 DEF Fresh
  <2>2. OnLastPage(gen.xpos)' <=> OnLastPage(gen.xpos)
    BY <1>1, <1>2 DEF OnLastPage, EndsOn
  <2>3. WindowAt(gen.xpos)' <=> WindowAt(gen.xpos)
    BY <1>1 DEF WindowAt
  <2>4. InitQueryChecksum(in, gen.xpos, gen.xpos.off)' = InitQueryChecksum(in, gen.xpos, gen.xpos.off)
    BY <1>1, Zenon
  <2>5. QED
    BY <2>1, <2>2, <2>3, <2>4
<1>9. (Resting' <=> Resting) /\ (Digesting' <=> Digesting)
  BY <1>1, <1>2 DEF Resting, Digesting
<1>10. Makes(gen.insts, cont.data)' <=> Makes(gen.insts, cont.data)
  BY <1>1, <1>2 DEF Makes, Holds, Piece
<1>11. Ordered(gen)' <=> Ordered(gen)
  BY <1>1, <1>2 DEF Ordered
<1>12. /\ ControlOf(Packed(cont.infos, Reindexed))' <=> ControlOf(Packed(cont.infos, Reindexed))
       /\ ControlOf(Reindexed)' <=> ControlOf(Reindexed)
  BY <1>1, <1>2, <1>5, <1>10, <1>11 DEF ControlOf
<1>13. InfosOf(cont.infos)' <=> InfosOf(cont.infos)
  BY <1>1, <1>2 DEF InfosOf
<1>14. (MadeFields(cont)' <=> MadeFields(cont)) /\ (CopyFields(cont)' <=> CopyFields(cont))
  BY <1>1, Zenon
<1>15. MadeHolds' <=> MadeHolds
  BY <1>1, <1>12, <1>13, <1>14 DEF MadeHolds
<1>16. Copying' <=> Copying
  BY <1>1, <1>2, <1>12, <1>14 DEF Copying
<1>17. Finished' <=> Finished
  BY <1>1, <1>2 DEF Finished
<1>18. QED
  BY <1>1, <1>2, <1>4, <1>6, <1>7, <1>8, <1>9, <1>15, <1>16, <1>17 DEF XInv

\* One turn of the loop that copies from the file: page p of it from offset r on.
LEMMA CopyPageStep ==
  ASSUME XInv, CopyPage
  PROVE  XInv'
<1>1. /\ pc = "copy" /\ out.status = "ok" /\ cont.inst <= Len(cont.insts) /\ ~IsData
  BY DEF CopyPage
<1>2. Typed /\ Copying
  BY <1>1 DEF XInv
<1>3. PICK i : i = cont.inst
  OBVIOUS
<1>4. CopyAt(i)
  BY <1>1, <1>2, <1>3, CopyPlace
<1>5. PICK a, n, c : a = gen.insts[i].offset /\ n = gen.insts[i].length /\ c = cont.copied
  OBVIOUS
<1>6. /\ i \in 1 .. Len(gen.insts) /\ Inst.offset = a /\ Inst.length = n
      /\ a \in Nat /\ n \in Nat \ {0} /\ (~cont.no_verify) = job.verify
  BY <1>1, <1>4, <1>5 DEF CopyAt
<1>7. PICK start : start = Start(gen.insts, i)
  OBVIOUS
<1>8. InstAt(cont, i) /\ gen.insts[i].index = 1
  <2>1. InstAt(cont, i) /\ gen.insts[i].index # 0
    BY <1>1, <1>4 DEF CopyAt
  <2>2. QED
    BY <2>1 DEF InstAt
<1>9. Piece(1, cont.data) = job.source
  BY DEF Piece
<1>10. /\ 1 \in gen.used /\ start \in Nat /\ Start(gen.insts, i + 1) = start + n
       /\ start + n <= InLength /\ Before(gen.insts, 0, i + 1) = Before(gen.insts, 0, i) + 0
       /\ Before(gen.insts, 0, i) \in Nat
       /\ a + n <= Len(job.source)
       /\ \A k \in 1 .. n : Target[start + k] = job.source[a + k]
  BY <1>5, <1>7, <1>8, <1>9 DEF InstAt
<1>11. c \in 0 .. n - 1 /\ cont.pos = Before(gen.insts, 0, i)
  <2>1. c \in Nat /\ (c > 0 => c < n) /\ cont.pos = Before(gen.insts, 0, i)
    BY <1>2, <1>3, <1>5 DEF Copying
  <2>2. QED
    BY <1>6, <2>1
<1>12. /\ job \in Inputs /\ job.given \in Seq(Byte) /\ FileOf(from, TRUE) /\ AFile(from.data)
       /\ from.data = job.given /\ Idle(from) /\ Len(job.given) = Len(job.source) /\ job.verify \in BOOLEAN
       /\ Len(job.given) \in Nat
  BY <1>2, <1>10, JobFacts DEF Typed, Copying, AFile, FromLength
<1>13. PICK o \in Nat : o = a + c
  BY <1>6, <1>11
<1>14. o < Len(job.given) /\ o + (n - c) <= Len(job.given)
  BY <1>6, <1>10, <1>11, <1>12, <1>13
<1>15. PICK p, r : p = At(o).page /\ r = At(o).off
  OBVIOUS
<1>16. p \in Nat /\ r \in 0 .. PageSize - 1 /\ p * PageSize + r = o /\ p * PageSize \in Nat
  BY <1>15, AtFacts
<1>17. PICK on : on = OnPage(from, p)
  OBVIOUS
<1>18. on \in Int /\ r < on /\ p <= PagesOf(from)
  <2>1. p * PageSize + r < Len(from.data) /\ p * PageSize + r <= Len(from.data) /\ from.data \in Seq(Byte)
    BY <1>12, <1>14, <1>16
  <2>2. QED
    BY <1>16, <1>17, <2>1, PlaceOnPage
<1>19. p \in PageNumbers
  <2>1. \A q \in Nat : q <= from.md5_page \/ q <= PagesOf(from) + 1 => q \in PageNumbers
    BY <1>12, PagesThere
  <2>2. PagesOf(from) \in Nat
    BY <1>12, PagesThere
  <2>3. QED
    BY <1>16, <1>18, <2>1, <2>2
<1>20. PICK len : len = Min({n - c, on - r})
  OBVIOUS
<1>21. len \in Nat \ {0} /\ len <= n - c /\ len <= on - r
  <2>1. n - c \in Int /\ on - r \in Int /\ n - c > 0 /\ on - r > 0
    BY <1>6, <1>11, <1>16, <1>18, Sizes
  <2>2. len \in {n - c, on - r} /\ len <= n - c /\ len <= on - r
    BY <1>20, <2>1, MinOfTwo
  <2>3. QED
    BY <2>1, <2>2
<1>22. PICK g : g = MapPage(from, p, job.verify)
  OBVIOUS
<1>23. MapsPage(g, from, TRUE, p)
  BY <1>12, <1>18, <1>19, <1>22, MapFile
<1>24. PICK f : f = UnmapPage(g, p)
  OBVIOUS
<1>25. UnmapsPage(f, g, TRUE, p)
  <2>1. FileOf(g, TRUE) /\ UsedBy(g, p)
    BY <1>23 DEF MapsPage
  <2>2. QED
    BY <1>19, <1>24, <2>1, UnmapFile
<1>26. PICK x : x = [InitPos EXCEPT !.mem_page = p]
  OBVIOUS
<1>27. PICK bytes : bytes = [k \in 1 .. len |-> ByteAt(g, x, r + k - 1)]
  OBVIOUS
<1>28. ASSUME NEW k \in 1 .. len
       PROVE  ByteAt(g, x, r + k - 1) = job.given[o + k] /\ job.given[o + k] \in Byte
  <2>1. PICK off \in Nat : off = r + k - 1
    BY <1>16, <1>21, Sizes
  <2>2. x.mem_page = p
    BY <1>26 DEF InitPos
  <2>3. g.data = job.given
    BY <1>12, <1>23 DEF MapsPage
  <2>4. OnPage(g, p) = on
    BY <1>12, <1>17, <2>3 DEF OnPage, PagesOf
  <2>5. off < OnPage(g, p)
    BY <1>16, <1>18, <1>21, <2>1, <2>4, Sizes
  <2>6. ByteAt(g, x, off) = job.given[p * PageSize + off + 1] /\ p * PageSize + off + 1 \in 1 .. Len(job.given)
    BY <1>12, <1>16, <2>2, <2>3, <2>5, TargetByte
  <2>7. p * PageSize + off + 1 = o + k
    BY <1>16, <1>21, <2>1, Sizes
  <2>8. QED
    BY <1>12, <2>1, <2>6, <2>7
<1>29. /\ bytes \in Seq(Bytes) /\ Len(bytes) = len
       /\ \A k \in 1 .. len : bytes[k] = job.given[o + k]
  <2>1. bytes \in [1 .. len -> Bytes]
    BY <1>27, <1>28 DEF Bytes
  <2>2. bytes \in Seq(Bytes) /\ Len(bytes) = len
    BY <1>21, <2>1
  <2>3. QED
    BY <1>27, <1>28, <2>2

<1>30. /\ from' = f /\ out' = HandleWrite(out, bytes, job.verify)
       /\ cont' = IF c + len = n THEN [cont EXCEPT !.inst = i + 1, !.copied = 0]
                  ELSE [cont EXCEPT !.copied = c + len]
       /\ UNCHANGED <<job, in, gen, match, pc, exit>>
  <2> DEFINE at == At(Inst.offset + cont.copied)
             lot == Min({Inst.length - cont.copied, OnPage(from, at.page) - at.off})
             mapped == MapPage(from, at.page, ~cont.no_verify)
             h == UnmapPage(mapped, at.page)
             b == [k \in 1 .. lot |-> ByteAt(mapped, [InitPos EXCEPT !.mem_page = at.page], at.off + k - 1)]
  <2>1. at.page = p /\ at.off = r
    BY <1>5, <1>6, <1>13, <1>15
  <2>2. lot = len
    BY <1>5, <1>6, <1>17, <1>20, <2>1
  <2>3. mapped = g
    <3>1. mapped = MapPage(from, p, ~cont.no_verify)
      BY <2>1
    <3>2. QED
      BY <1>6, <1>22, <3>1, Zenon
  <2>4. h = f
    BY <1>24, <2>1, <2>3
  <2>5. b = bytes
    BY <1>26, <1>27, <2>1, <2>2, <2>3
  <2>6. mapped.status = "ok" /\ h.status = "ok" /\ OnPage(from, at.page) > 0
    BY <1>16, <1>17, <1>18, <1>23, <1>25, <2>1, <2>3, <2>4, Sizes DEF MapsPage, UnmapsPage
  <2>7. IF OnPage(from, at.page) <= 0 THEN Stops("2")
        ELSE IF mapped.status # "ok" \/ h.status # "ok" THEN Stops(h.status)
        ELSE /\ from' = h
             /\ out' = HandleWrite(out, b, ~cont.no_verify)
             /\ cont' = IF cont.copied + lot = Inst.length
                        THEN [cont EXCEPT !.inst = @ + 1, !.copied = 0]
                        ELSE [cont EXCEPT !.copied = @ + lot]
             /\ UNCHANGED <<job, in, gen, match, pc, exit>>
    BY DEF CopyPage
  <2> HIDE DEF at, lot, mapped, h, b
  <2>8. OnPage(from, at.page) \in Int
    BY <1>17, <1>18, <2>1
  <2>9. /\ from' = h
        /\ out' = HandleWrite(out, b, ~cont.no_verify)
        /\ cont' = IF cont.copied + lot = Inst.length
                   THEN [cont EXCEPT !.inst = cont.inst + 1, !.copied = 0]
                   ELSE [cont EXCEPT !.copied = cont.copied + lot]
        /\ UNCHANGED <<job, in, gen, match, pc, exit>>
    BY <2>6, <2>7, <2>8
  <2>10. out' = HandleWrite(out, bytes, job.verify)
    BY <1>6, <2>5, <2>9, Zenon
  <2>11. cont' = IF c + len = n THEN [cont EXCEPT !.inst = i + 1, !.copied = 0]
                 ELSE [cont EXCEPT !.copied = c + len]
    BY <1>3, <1>5, <1>6, <2>2, <2>9, Zenon
  <2>12. QED
    BY <2>4, <2>9, <2>10, <2>11
<1>31. CopyFields(cont)
  BY <1>2 DEF Copying
<1>32. ASSUME c + len = n
       PROVE  SameControl(cont', cont) /\ PlaceIn(cont') /\ Goes(cont') = start + c + len
  <2>1. cont' = Placed(cont, cont.pos, i + 1, 0)
    <3>1. cont' = [cont EXCEPT !.inst = i + 1, !.copied = 0]
      BY <1>30, <1>32, Zenon
    <3>2. QED
      BY <1>31, <3>1, PlacedNext, Zenon
  <2>2. SameControl(cont', cont) /\ cont'.pos = cont.pos /\ cont'.inst = i + 1 /\ cont'.copied = 0
    BY <2>1, PlacedFacts
  <2>3. PlaceIn(cont')
    <3>1. Len(gen.insts) \in Nat
      BY <1>2 DEF Typed, Generator
    <3>2. i + 1 \in 1 .. Len(gen.insts) + 1
      BY <1>6, <3>1
    <3>3. QED
      BY <1>10, <1>11, <2>2, <3>2 DEF PlaceIn
  <2>4. Goes(cont') = start + c + len
    <3>1. Start(gen.insts, i + 1) = start + n
      BY <1>10
    <3>2. Goes(cont') = start + n + 0
      BY <2>2, <3>1 DEF Goes
    <3>3. QED
      BY <1>6, <1>10, <1>11, <1>21, <1>32, <3>2
  <2>5. QED
    BY <2>2, <2>3, <2>4
<1>33. ASSUME c + len # n
       PROVE  SameControl(cont', cont) /\ PlaceIn(cont') /\ Goes(cont') = start + c + len
  <2>1. cont' = Placed(cont, cont.pos, i, c + len)
    BY <1>3, <1>30, <1>31, <1>33, PlacedOne
  <2>2. SameControl(cont', cont) /\ cont'.pos = cont.pos /\ cont'.inst = i /\ cont'.copied = c + len
    BY <2>1, PlacedFacts
  <2>3. PlaceIn(cont')
    <3>1. Len(gen.insts) \in Nat
      BY <1>2 DEF Typed, Generator
    <3>2. i \in 1 .. Len(gen.insts) + 1 /\ i <= Len(gen.insts)
      BY <1>6, <3>1
    <3>3. c + len \in Nat /\ c + len < n
      BY <1>6, <1>11, <1>21, <1>33
    <3>4. QED
      BY <1>5, <1>8, <1>11, <2>2, <3>2, <3>3 DEF PlaceIn
  <2>4. Goes(cont') = start + c + len
    <3>1. Goes(cont') = start + (c + len)
      BY <1>7, <2>2 DEF Goes
    <3>2. QED
      BY <1>10, <1>11, <1>21, <3>1
  <2>5. QED
    BY <2>2, <2>3, <2>4
<1>34. SameControl(cont', cont) /\ PlaceIn(cont') /\ Goes(cont') = start + c + len
  BY <1>32, <1>33
<1>35. Goes(cont) = start + c
  BY <1>3, <1>5, <1>7 DEF Goes
<1>36. ASSUME job.given = job.source
       PROVE  /\ Goes(cont) \in Nat /\ Goes(cont') = Goes(cont) + Len(bytes) /\ Goes(cont') <= InLength
              /\ \A k \in 1 .. Len(bytes) : bytes[k] = Target[Goes(cont) + k]
  <2>1. start + c \in Nat /\ start + c + len <= start + n /\ start + n <= InLength /\ start + n \in Nat
        /\ start + c + len \in Nat /\ InLength \in Nat
    BY <1>6, <1>10, <1>11, <1>12, <1>21, JobFacts
  <2>2. Goes(cont) \in Nat /\ Goes(cont') = Goes(cont) + Len(bytes) /\ Goes(cont') <= InLength
    BY <1>29, <1>34, <1>35, <2>1
  <2>3. ASSUME NEW k \in 1 .. len
        PROVE  bytes[k] = Target[start + c + k]
    <3>1. bytes[k] = job.source[o + k]
      BY <1>29, <1>36
    <3>2. PICK j : j = c + k
      OBVIOUS
    <3>3. j \in 1 .. n /\ o + k = a + j /\ start + c + k = start + j
      <4>1. c \in Nat /\ k \in Nat \ {0} /\ a \in Nat /\ n \in Nat /\ len \in Nat /\ start \in Nat /\ k <= len
            /\ len <= n - c
        BY <1>6, <1>10, <1>11, <1>21
      <4>2. QED
        BY <1>13, <3>2, <4>1
    <3>4. Target[start + j] = job.source[a + j]
      BY <1>10, <3>3
    <3>5. QED
      BY <3>1, <3>3, <3>4
  <2>4. QED
    BY <1>29, <1>35, <2>2, <2>3
<1>37. FileOf(from', TRUE) /\ from'.data = from.data /\ Idle(from') /\ pc' = "copy"
  BY <1>1, <1>23, <1>25, <1>30 DEF MapsPage, UnmapsPage
<1>38. UNCHANGED <<job, in, gen, match, exit>> /\ out' = HandleWrite(out, bytes, job.verify)
       /\ bytes \in Seq(Bytes)
  BY <1>29, <1>30
<1>39. QED
  BY <1>1, <1>2, <1>34, <1>36, <1>37, <1>38, CopyGoesOn

\* A digest that is complete is the one of the whole file.
LEMMA DigestWhole ==
  ASSUME job \in Inputs, NEW h, NEW seek, FileOf(h, seek), h.data \in Seq(Byte), Digested(h)
  PROVE  h.hashed = IF job.verify THEN h.data ELSE <<>>
<1>1. h.hashed = IF job.verify THEN SubSeq(h.data, 1, UpTo(h, h.md5_page)) ELSE <<>>
  BY DEF FileOf, Digests
<1>2. UpTo(h, h.md5_page) = Len(h.data)
  BY DEF Digested, UpTo
<1>3. SubSeq(h.data, 1, Len(h.data)) = h.data
  <2>1. PICK s : s = h.data
    OBVIOUS
  <2>2. s \in Seq(Byte)
    BY <2>1
  <2>3. SubSeq(s, 1, Len(s)) = s
    BY <2>2
  <2>4. QED
    BY <2>1, <2>3
<1>4. QED
  BY <1>1, <1>2, <1>3

\* The copies are done, and what was written is compared with what the control says.
LEMMA CheckResultStep ==
  ASSUME XInv, CheckResult
  PROVE  XInv'
<1>1. /\ pc = "copy" /\ out.status = "ok" /\ cont.inst > Len(cont.insts)
      /\ UNCHANGED <<job, in, from, gen, match, cont>>
  BY DEF CheckResult
<1>2. Typed /\ Copying
  BY <1>1 DEF XInv
<1>3. PICK o : o = HandleClose(out)
  OBVIOUS
<1>4. out' = o /\ Ends(IF Intact(o, cont.to_md5, cont.to_len) THEN "0" ELSE "2")
  BY <1>3 DEF CheckResult
<1>5. PICK how : how = IF Intact(o, cont.to_md5, cont.to_len) THEN "0" ELSE "2"
  OBVIOUS
<1>6. exit' = [delta |-> "0", patch |-> how] /\ pc' = "ended" /\ how \in {"0", "2"}
  <2>1. Ends(how)
    BY <1>4, <1>5
  <2>2. exit = [delta |-> "0", patch |-> "runs"]
    BY <1>2 DEF Copying
  <2>3. QED
    BY <1>5, <2>1, <2>2 DEF Ends
<1>7. /\ o \in Written /\ o.bytes = out.bytes /\ o.file = out.bytes /\ o.md5 = out.hashed /\ o.status = "ok"
  <2>1. out \in Written /\ ~out.reset /\ out.bytes = out.file
    BY <1>2 DEF Typed, Copying
  <2>2. Since(out) = out.bytes
    BY <2>1 DEF Since
  <2>3. QED
    BY <1>1, <1>3, <2>1, <2>2, CloseFacts
<1>8. Target \in Seq(Byte) /\ job \in Inputs /\ gen \in Generator /\ job.verify \in BOOLEAN
      /\ InLength = Len(Target) /\ InLength \in Nat
  BY <1>2, JobFacts DEF Typed, InLength
<1>9. cont.to_len = InLength /\ cont.to_md5 = IF job.verify THEN Target ELSE <<>>
  <2>1. ControlOf(Reindexed)
    BY <1>2 DEF Copying
  <2>2. cont.to_len = InLength /\ cont.to_md5 = in.hashed /\ Digested(in)
    BY <2>1 DEF ControlOf
  <2>3. FileOf(in, FALSE) /\ in.data = Target
    BY <1>2 DEF Typed, Target
  <2>4. in.hashed = IF job.verify THEN in.data ELSE <<>>
    BY <1>8, <2>2, <2>3, DigestWhole
  <2>5. QED
    BY <2>2, <2>3, <2>4
<1>10. out.hashed = IF job.verify THEN out.bytes ELSE <<>>
  BY <1>1, <1>2 DEF Copying
<1>11. job.given = job.source => out.bytes = Target
  <2>1. Len(cont.insts) = Len(gen.insts) /\ Len(gen.insts) \in Nat
    <3>1. cont.insts = Reindexed /\ Ordered(gen)
      BY <1>2 DEF Copying, ControlOf
    <3>2. Renumbered(cont.insts)
      BY <1>8, <3>1, ReindexedFacts
    <3>3. QED
      BY <1>8, <3>2 DEF Renumbered, Generator
  <2>2. cont.inst = Len(gen.insts) + 1
    <3>1. cont.inst \in 1 .. Len(gen.insts) + 1
      BY <1>2 DEF Copying
    <3>2. QED
      BY <1>1, <2>1, <3>1
  <2>3. cont.copied = 0
    <3>1. cont.copied \in Nat /\ (cont.copied > 0 => cont.inst <= Len(gen.insts))
      BY <1>2 DEF Copying
    <3>2. QED
      BY <2>1, <2>2, <3>1
  <2>4. Start(gen.insts, cont.inst) + cont.copied = InLength
    <3>1. gen.to_output_pos = InLength /\ gen.to_output_pos = Size(gen.insts)
      BY <1>2 DEF Copying, ControlOf, Ordered
    <3>2. Start(gen.insts, cont.inst) = InLength
      BY <2>2, <3>1 DEF Start, Size
    <3>3. QED
      BY <1>8, <2>3, <3>2
  <2>5. SubSeq(Target, 1, Len(Target)) = Target
    BY <1>8
  <2>6. job.given = job.source => out.bytes = SubSeq(Target, 1, Start(gen.insts, cont.inst) + cont.copied)
    BY <1>1, <1>2 DEF Copying
  <2>7. QED
    BY <1>8, <2>4, <2>5, <2>6
<1>12. job.given = job.source => how = "0"
  BY <1>5, <1>7, <1>8, <1>9, <1>10, <1>11 DEF Intact
<1>13. how = "0" /\ job.verify => out.bytes = Target
  BY <1>5, <1>7, <1>9, <1>10 DEF Intact
<1>14. ~cont.no_verify => job.verify
  <2>1. cont.no_verify = ~job.verify
    BY <1>2 DEF Copying, ControlOf
  <2>2. QED
    BY <2>1
<1>15. Target' = Target
  BY <1>1, SameJob
<1>16. Finished'
  <2>1. exit'.delta = "0" /\ exit'.patch = how
    BY <1>6
  <2>2. exit'.patch = "2" /\ job'.given = job'.source => out'.status # "ok"
    BY <1>1, <1>12, <2>1
  <2>3. exit'.patch = "0" /\ (~cont'.no_verify \/ job'.given = job'.source)
          => out'.bytes = Target' /\ out'.file = Target'
    BY <1>1, <1>4, <1>7, <1>11, <1>13, <1>14, <1>15, <2>1
  <2>4. QED
    BY <1>6, <2>1, <2>2, <2>3 DEF Finished
<1>17. Typed'
  BY <1>1, <1>2, <1>4, <1>6, <1>7, SameJob DEF Typed, FileOf, Sound, Digests
<1>18. QED
  BY <1>6, <1>16, <1>17 DEF XInv, Scanning, Generating

\* Each action keeps the invariant.
LEMMA XStep ==
  ASSUME XInv, [Next]_vars
  PROVE  XInv'
<1>1. CASE SumPage
  BY <1>1, SumPageStep
<1>2. CASE ScanEnds
  BY <1>2, ScanEndsStep
<1>3. CASE ScanPage
  BY <1>3, ScanPageStep
<1>4. CASE LeavePage
  BY <1>4, LeavePageStep
<1>5. CASE Roll
  BY <1>5, RollStep
<1>6. CASE TryMatch
  BY <1>6, TryMatchStep
<1>7. CASE Backward
  BY <1>7, BackwardStep
<1>8. CASE Forward
  BY <1>8, ForwardStep
<1>9. CASE ForwardEnds
  BY <1>9, ForwardEndsStep
<1>10. CASE Found
  BY <1>10, FoundStep
<1>11. CASE NotFound
  BY <1>11, NotFoundStep
<1>12. CASE WriteFails
  BY <1>12, WriteFailsStep
<1>13. CASE RestOfPage
  BY <1>13, RestOfPageStep
<1>14. CASE RestEnds
  BY <1>14, RestEndsStep
<1>15. CASE DigestIn
  BY <1>15, DigestInStep
<1>16. CASE DigestFrom
  BY <1>16, DigestFromStep
<1>17. CASE WriteControl
  BY <1>17, WriteControlStep
<1>18. CASE ReadPatch
  BY <1>18, ReadPatchStep
<1>19. CASE CopyData
  BY <1>19, CopyDataStep
<1>20. CASE CopyPage
  BY <1>20, CopyPageStep
<1>21. CASE CopyFails
  BY <1>21, CopyFailsStep
<1>22. CASE CheckResult
  BY <1>22, CheckResultStep
<1>23. CASE UNCHANGED vars
  BY <1>23, StutterStep
<1>24. QED
  BY <1>1, <1>2, <1>3, <1>4, <1>5, <1>6, <1>7, <1>8, <1>9, <1>10, <1>11, <1>12, <1>13, <1>14, <1>15,
     <1>16, <1>17, <1>18, <1>19, <1>20, <1>21, <1>22, <1>23
     DEF Next, DeltaNext, PatchNext, Done

(***************************************************************************)
(* What the invariant says of the properties.                              *)
(***************************************************************************)

\* The commands that have not returned have no status yet.
LEMMA Exits ==
  ASSUME XInv
  PROVE  /\ pc = "ended" => Finished
         /\ pc # "ended" => exit.delta \in {"runs", "0"} /\ exit.patch \in {"waits", "runs"}
<1>1. pc \in Generating \cup {"made", "copy", "ended"}
  BY DEF XInv, Typed
<1>2. CASE pc \in Generating
  <2>1. exit = [delta |-> "runs", patch |-> "waits"] /\ pc # "ended"
    BY <1>2 DEF XInv, Runs, Generating, Scanning
  <2>2. QED
    BY <2>1
<1>3. CASE pc = "made"
  <2>1. exit = [delta |-> "0", patch |-> "waits"]
    BY <1>3 DEF XInv, MadeHolds
  <2>2. QED
    BY <1>3, <2>1
<1>4. CASE pc = "copy"
  <2>1. exit = [delta |-> "0", patch |-> "runs"]
    BY <1>4 DEF XInv, Copying
  <2>2. QED
    BY <1>4, <2>1
<1>5. CASE pc = "ended"
  BY <1>5 DEF XInv
<1>6. QED
  BY <1>1, <1>2, <1>3, <1>4, <1>5

\* The files that are read.
LEMMA PagesHold ==
  ASSUME XInv
  PROVE  PagesSound
<1>1. job \in Inputs /\ FileOf(in, FALSE) /\ FileOf(from, TRUE)
  BY DEF XInv, Typed
<1>2. ASSUME NEW h, NEW seek, FileOf(h, seek)
      PROVE  /\ h.status = "ok" => ListSound(h)
             /\ Digested(h) => h.hashed = (IF job.verify THEN h.data ELSE <<>>)
  <2>1. h \in Handles /\ Sound(h) /\ h.data \in Seq(Byte)
    BY <1>2 DEF FileOf, Handles
  <2>2. ListSound(h)
    BY <2>1, SoundListed
  <2>3. Digested(h) => h.hashed = (IF job.verify THEN h.data ELSE <<>>)
    BY <1>1, <1>2, <2>1, DigestWhole
  <2>4. QED
    BY <2>2, <2>3
<1>3. QED
  BY <1>1, <1>2 DEF PagesSound

\* The assertions.
LEMMA AssertionsHold ==
  ASSUME XInv
  PROVE  AssertsHold
<1>1. exit.delta # "abort" /\ exit.patch # "abort"
  BY Exits DEF Finished
<1>2. gen \in Generator /\ gen.xpos \in Position /\ gen.ypos \in Position
  BY DEF XInv, Typed, Generator
<1>3. ASSUME NEW h, NEW m \in PageOrNull, UsedBy(h, m), m # Null
      PROVE  h.refs[m] > 0
  BY <1>3 DEF UsedBy, PageOrNull
<1>4. ASSUME pc \in {"roll", "back", "forward", "matched"}
      PROVE  /\ in.refs[gen.xpos.mem_page] > 0
             /\ gen.ypos.mem_page # Null => from.refs[gen.ypos.mem_page] > 0
  <2>1. UsedBy(in, gen.xpos.mem_page) /\ UsedBy(from, gen.ypos.mem_page)
    BY <1>4 DEF XInv, Scanning, Scans
  <2>2. gen.xpos.mem_page \in PageOrNull /\ gen.ypos.mem_page \in PageOrNull /\ gen.xpos.page \in Nat
    BY <1>2 DEF Position
  <2>3. gen.xpos.mem_page # Null
    <3>1. CASE pc = "roll"
      <4>1. gen.xpos.mem_page = gen.xpos.page
        BY <3>1 DEF XInv, WindowAt
      <4>2. QED
        BY <2>2, <4>1 DEF Null
    <3>2. CASE pc = "back"
      <4>1. BackAt(in, gen, match) /\ match.to \in Nat
        BY <3>2 DEF XInv, Typed, Matches
      <4>2. gen.xpos = [Window(match.to) EXCEPT !.off = @ - match.back]
        BY <4>1 DEF BackAt
      <4>3. gen.xpos.mem_page = At(match.to).page
        BY <4>2 DEF Window
      <4>4. QED
        BY <4>1, <4>3, AtFacts DEF Null
    <3>3. CASE pc \in {"forward", "matched"}
      BY <3>3 DEF XInv, ForwardAt
    <3>4. QED
      BY <1>4, <3>1, <3>2, <3>3
  <2>4. QED
    BY <1>3, <2>1, <2>2, <2>3
<1>5. pc = "roll" => gen.sum = InitQueryChecksum(in, gen.xpos, gen.xpos.off)
  BY DEF XInv
<1>6. QED
  BY <1>1, <1>4, <1>5 DEF AssertsHold

\* The statuses and what was written.
LEMMA PatchHolds ==
  ASSUME XInv
  PROVE  PatchTrue
<1>1. CASE pc = "ended"
  BY <1>1, Exits DEF Finished, PatchTrue
<1>2. CASE pc # "ended"
  <2>1. exit.delta # "2" /\ exit.patch # "0" /\ exit.patch # "2"
    BY <1>2, Exits
  <2>2. QED
    BY <2>1 DEF PatchTrue
<1>3. QED
  BY <1>1, <1>2

\* The invariant of the two commands, loop by loop, holds in every state of every run,
\* whatever the sizes of pages and blocks, the number of pages that may be mapped, the
\* hashes, the table and the inputs: each action keeps it.
THEOREM XInvAlways == Spec => []XInv
<1>1. Init => XInv
  BY XInitHolds
<1>2. XInv /\ [Next]_vars => XInv'
  BY XStep
<1>3. QED
  BY <1>1, <1>2, PTL DEF Spec

\* A patch that delta made gives the target back: with the source it was made with, both
\* commands end with 0 unless a write fails, and with another source patch ends with 0
\* only if what it wrote is the target, when the patch has digests.
THEOREM PatchAlways == Spec => []PatchTrue
<1>1. XInv => PatchTrue
  BY PatchHolds
<1>2. QED
  BY <1>1, XInvAlways, PTL

\* No assertion of xdelta.c or xdmain.c fails in any run, the page that a position has
\* mapped is not freed while the match is extended, and the sum that is rolled along the
\* target is the sum of the window it is at.
THEOREM AssertsAlways == Spec => []AssertsHold
<1>1. XInv => AssertsHold
  BY AssertionsHold
<1>2. QED
  BY <1>1, XInvAlways, PTL

\* After any mapping, unmapping and freeing of pages, the list of the pages of both files
\* is sound and within max_mapped_pages, and a digest that is complete is that of the
\* whole file, whatever the order in which its pages were mapped.
THEOREM PagesAlways == Spec => []PagesSound
<1>1. XInv => PagesSound
  BY PagesHold
<1>2. QED
  BY <1>1, XInvAlways, PTL
=============================================================================
