--------------------------- MODULE AddrCacheProofs ---------------------------
(***************************************************************************)
(* What holds of the address caches for every number of near and same      *)
(* modes, every radix and every bound.                                     *)
(***************************************************************************)
EXTENDS AddrCache, NaturalsInduction, WellFoundedInduction, SequenceTheorems, TLAPS

-----------------------------------------------------------------------------
(* The arithmetic of the same table: an address selects a slot, a slot is   *)
(* sent as a page (the mode) and a byte.                                    *)

\* Division with remainder, for the divisors the same table uses.
LEMMA DivMod ==
  ASSUME NEW a \in Nat, NEW b \in Nat \ {0}
  PROVE  /\ a \div b \in Nat
         /\ a % b \in 0 .. b - 1
         /\ a = (a \div b) * b + (a % b)
  BY SMT

\* The slot of an address lies on one of the SSame pages, so that the page can
\* be sent as a mode and the rest as a byte.
LEMMA PageInTable ==
  ASSUME NEW d \in Nat, NEW b \in Nat \ {0}, NEW n \in Nat, d < n * b
  PROVE  d \div b \in 0 .. n - 1
<1> DEFINE q == d \div b
           r == d % b
<1>1. q \in Nat /\ r \in 0 .. b - 1 /\ d = q * b + r
  BY DivMod
<1> HIDE DEF q, r
<1>2. SUFFICES ASSUME q >= n PROVE FALSE
  BY <1>1, <1>2 DEF q
<1>3. q * b >= n * b
  BY <1>1, <1>2, SMT
<1>4. QED
  BY <1>1, <1>3

-----------------------------------------------------------------------------
(* CHOOSE in FirstMode and LeastModes: a non-empty set of naturals has a    *)
(* least element.                                                           *)

LEMMA LeastNat ==
  ASSUME NEW S, S \subseteq Nat, S # {}
  PROVE  \E m \in S : \A n \in S : m <= n
<1> DEFINE R == OpToRel(<, Nat)
<1>1. \A x, y \in Nat : x < y => <<x, y>> \in R
  BY DEF OpToRel
<1>2. IsWellFoundedOn(R, Nat)
  BY NatLessThanWellFounded
<1> HIDE DEF R
<1>3. PICK m \in S : \A n \in S : <<n, m>> \notin R
  BY <1>2, WFMin
<1>4. \A n \in S : ~(n < m)
  BY <1>1, <1>3, Zenon
<1>5. m \in Nat /\ \A n \in S : n \in Nat
  BY <1>3
<1>6. \A n \in S : m <= n
  BY <1>4, <1>5
<1>7. QED
  BY <1>3, <1>6

\* The mode a search settles on is one of the modes searched.
LEMMA FirstModeIn ==
  ASSUME NEW ms, ms \subseteq Nat, ms # {}
  PROVE  FirstMode(ms) \in ms
<1>1. PICK m \in ms : \A n \in ms : m <= n
  BY LeastNat
<1>2. QED
  BY <1>1 DEF FirstMode

\* The modes that send an integer send a natural number.
LEMMA IntModesType ==
  ASSUME NEW c \in Caches, NEW addr \in Nat, NEW pos \in Nat, addr <= pos
  PROVE  /\ IntModes(c, addr) \subseteq 0 .. SameStart - 1
         /\ VCD_SELF \in IntModes(c, addr)
         /\ \A m \in IntModes(c, addr) : Delta(c, addr, pos, m) \in Nat
<1>1. SNear \in Nat
  BY CacheAssumption
<1>2. IntModes(c, addr) \subseteq 0 .. SameStart - 1
  BY <1>1 DEF IntModes, SameStart, VCD_SELF, VCD_HERE
<1>3. ASSUME NEW m \in IntModes(c, addr), m # VCD_SELF, m # VCD_HERE
      PROVE  m - 2 \in NearSlots /\ c.near[m - 2] <= addr
  BY <1>1, <1>3 DEF IntModes, SameStart, VCD_SELF, VCD_HERE, NearSlots
<1>4. \A i \in NearSlots : c.near[i] \in Nat
  BY DEF Caches
<1>5. ASSUME NEW m \in IntModes(c, addr)
      PROVE  Delta(c, addr, pos, m) \in Nat
  BY <1>3, <1>4, <1>5 DEF Delta
<1>6. QED
  BY <1>2, <1>5 DEF IntModes

\* Some mode always gives the least integer: xd3_encode_address finds one.
LEMMA LeastModesNonempty ==
  ASSUME NEW c \in Caches, NEW addr \in Nat, NEW pos \in Nat, addr <= pos
  PROVE  LeastModes(c, addr, pos) # {}
<1> DEFINE ds == {Delta(c, addr, pos, m) : m \in IntModes(c, addr)}
<1>1. ds \subseteq Nat /\ ds # {}
  BY IntModesType
<1>2. PICK d \in ds : \A e \in ds : d <= e
  <2> HIDE DEF ds
  <2> QED BY <1>1, LeastNat
<1>3. QED
  BY <1>2 DEF LeastModes

\* The integer of every admissible mode decodes to the address.
LEMMA IntRoundTrip ==
  ASSUME NEW c \in Caches, NEW addr \in Nat, NEW pos \in Nat, addr <= pos,
         NEW m \in IntModes(c, addr)
  PROVE  /\ IntAddress(c, addr, pos, m) \in Codes
         /\ DecodeAddress(c, IntAddress(c, addr, pos, m), pos) = addr
<1>1. SNear \in Nat /\ m \in 0 .. SameStart - 1 /\ Delta(c, addr, pos, m) \in Nat
  BY CacheAssumption, IntModesType
<1>2. IntAddress(c, addr, pos, m) \in Codes
  BY <1>1 DEF IntAddress, Codes
<1>3. CASE m \in {VCD_SELF, VCD_HERE}
  BY <1>1, <1>3, <1>2 DEF DecodeAddress, IntAddress, Delta, VCD_SELF, VCD_HERE, SameStart
<1>4. CASE m \notin {VCD_SELF, VCD_HERE}
  <2>1. m - 2 \in NearSlots
    BY <1>1, <1>4 DEF NearSlots, SameStart, VCD_SELF, VCD_HERE
  <2>2. c.near[m - 2] \in Nat
    BY <2>1 DEF Caches
  <2>3. m < SameStart /\ ~(m = VCD_SELF) /\ ~(m = VCD_HERE)
    BY <1>1, <1>4 DEF SameStart
  <2>4. DecodeAddress(c, IntAddress(c, addr, pos, m), pos)
          = (addr - c.near[m - 2]) + c.near[m - 2]
    BY <2>3 DEF DecodeAddress, IntAddress, Delta
  <2>5. QED
    BY <1>2, <2>2, <2>4
<1>5. QED
  BY <1>3, <1>4

\* What xd3_decode_address makes of a mode of the same table: it reads the slot
\* that the page and the byte name.
LEMMA SameDecode ==
  ASSUME NEW c, NEW pos, NEW q \in Nat, NEW r \in Nat
  PROVE  DecodeAddress(c, [mode |-> SameStart + q, form |-> "byte", val |-> r], pos)
           = c.same[q * Radix + r]
<1> DEFINE a == [mode |-> SameStart + q, form |-> "byte", val |-> r]
<1>1. SameStart \in Nat /\ Radix \in Nat
  BY CacheAssumption DEF SameStart
<1>2. a.mode - SameStart = q /\ a.val = r /\ ~(a.mode < SameStart)
  BY <1>1
<1> HIDE DEF a
<1>3. DecodeAddress(c, a, pos) = c.same[(a.mode - SameStart) * Radix + a.val]
  BY <1>2, Zenon DEF DecodeAddress
<1>4. (a.mode - SameStart) * Radix + a.val = q * Radix + r
  BY <1>2
<1>5. QED
  BY <1>3, <1>4, Zenon DEF a

\* The page and byte of a same-table hit lead back to the slot that was hit.
LEMMA SameRoundTrip ==
  ASSUME NEW c \in Caches, NEW addr \in Nat, NEW pos \in Nat, SameHit(c, addr)
  PROVE  /\ SameAddress(addr) \in Codes
         /\ DecodeAddress(c, SameAddress(addr), pos) = addr
<1> DEFINE d == addr % SameSize
           q == d \div Radix
           r == d % Radix
<1>1. SNear \in Nat /\ SSame \in Nat \ {0} /\ Radix \in Nat \ {0}
  BY CacheAssumption DEF SameHit
<1>2. SameSize \in Nat \ {0}
  BY <1>1, SMT DEF SameSize
<1>3. d \in Nat /\ d < SameSize
  BY <1>2, DivMod
<1>4. q \in Nat /\ r \in 0 .. Radix - 1 /\ d = q * Radix + r
  <2> HIDE DEF d
  <2> QED BY <1>1, <1>3, DivMod
<1>5. q \in 0 .. SSame - 1
  <2> HIDE DEF d
  <2> QED BY <1>1, <1>3, PageInTable DEF SameSize
<1>6. SameAddress(addr) = [mode |-> SameStart + q, form |-> "byte", val |-> r]
  BY DEF SameAddress
<1>7. c.same[d] = addr
  BY DEF SameHit
<1> HIDE DEF d, q, r
<1>8. SameStart + q \in SameStart .. SameStart + SSame - 1
  BY <1>1, <1>5 DEF SameStart
<1>9. SameAddress(addr) \in Codes
  BY <1>4, <1>6, <1>8 DEF Codes
<1>10. DecodeAddress(c, SameAddress(addr), pos) = c.same[q * Radix + r]
  <2>1. q \in Nat /\ r \in Nat
    BY <1>1, <1>4
  <2>2. DecodeAddress(c, [mode |-> SameStart + q, form |-> "byte", val |-> r], pos)
          = c.same[q * Radix + r]
    BY <2>1, SameDecode
  <2>3. QED
    BY <1>6, <2>2
<1>11. QED
  BY <1>4, <1>7, <1>9, <1>10

\* xd3_decode_address undoes xd3_encode_address on equal caches: for any
\* contents of the caches and any address below the current position.
THEOREM RoundTrip ==
  ASSUME NEW c \in Caches, NEW addr \in Nat, NEW pos \in Nat, addr <= pos
  PROVE  /\ EncodeAddress(c, addr, pos) \in Codes
         /\ DecodeAddress(c, EncodeAddress(c, addr, pos), pos) = addr
<1> DEFINE small == SmallModes(c, addr, pos)
           least == LeastModes(c, addr, pos)
<1>1. IntModes(c, addr) \subseteq Nat
  BY IntModesType, CacheAssumption DEF SameStart
<1>2. CASE small # {}
  <2>1. FirstMode(small) \in IntModes(c, addr)
    BY <1>1, <1>2, FirstModeIn DEF SmallModes
  <2>2. QED
    BY <1>2, <2>1, IntRoundTrip DEF EncodeAddress
<1>3. CASE small = {} /\ SameHit(c, addr)
  BY <1>3, SameRoundTrip DEF EncodeAddress
<1>4. CASE small = {} /\ ~SameHit(c, addr)
  <2>1. FirstMode(least) \in IntModes(c, addr)
    BY <1>1, LeastModesNonempty, FirstModeIn DEF LeastModes
  <2>2. QED
    BY <1>4, <2>1, IntRoundTrip DEF EncodeAddress
<1>5. QED
  BY <1>2, <1>3, <1>4

-----------------------------------------------------------------------------
(* The invariant. *)

\* xd3_update_cache and xd3_init_cache leave well-formed caches.
LEMMA CacheTypes ==
  /\ InitCache \in Caches
  /\ \A c \in Caches : \A addr \in Nat : UpdateCache(c, addr) \in Caches
<1>1. InitCache \in Caches
  BY DEF InitCache, Caches
<1>2. ASSUME NEW c \in Caches, NEW addr \in Nat
      PROVE  UpdateCache(c, addr) \in Caches
  <2>1. c.near \in [NearSlots -> Nat] /\ c.next \in Nat /\ c.same \in [SameSlots -> Nat]
    BY DEF Caches
  <2>2. [i \in NearSlots |-> IF i = c.next THEN addr ELSE c.near[i]] \in [NearSlots -> Nat]
    BY <2>1
  <2>3. (IF c.next + 1 < SNear THEN c.next + 1 ELSE 0) \in Nat
    BY <2>1
  <2>4. [i \in SameSlots |-> IF i = addr % SameSize THEN addr ELSE c.same[i]]
          \in [SameSlots -> Nat]
    BY <2>1
  <2>5. QED
    BY <2>2, <2>3, <2>4 DEF UpdateCache, Caches
<1>3. QED
  BY <1>1, <1>2

\* An instruction leaves a view behind, whoever handles it.
LEMMA AfterType ==
  ASSUME NEW v \in Views, NEW inst \in Insts, NEW addr \in Nat
  PROVE  After(v, inst, addr) \in Views
<1>1. inst.op \in {"WIN", "DATA", "CPY", "END"} /\ inst.size \in Nat
      /\ (inst.op = "WIN" => inst.tgt \in Nat)
  BY DEF Insts
<1>2. v.cache \in Caches /\ v.pos \in Nat /\ v.base \in Nat /\ v.end \in Nat
      /\ v.pos + inst.size \in Nat
  BY <1>1 DEF Views
<1>3. CASE inst.op = "WIN"
  BY <1>1, <1>3, CacheTypes DEF After, Views
<1>4. CASE inst.op = "DATA"
  BY <1>2, <1>4 DEF After, Views
<1>5. CASE inst.op = "CPY"
  BY <1>2, <1>5, CacheTypes DEF After, Views
<1>6. CASE inst.op = "END"
  BY <1>6 DEF After
<1>7. QED
  BY <1>1, <1>3, <1>4, <1>5, <1>6

\* The encoder's state as a view.
LEMMA EncViewType == EncTypeOK => EncView \in Views
  BY DEF EncTypeOK, EncView, Views, here

\* Writing an instruction keeps the invariant if the encoder moves to the
\* state the instruction leaves behind.
LEMMA WriteKeeps ==
  ASSUME IInv, NEW inst \in Insts, NEW addr \in Nat, Write(inst, addr),
         EncTypeOK', EncView' = After(EncView, inst, addr),
         AsMeant(EncView, inst, addr)
  PROVE  IInv'
<1> DEFINE item == [view |-> EncView, addr |-> addr]
           Items == [view : Views, addr : Nat]
<1>0. PICK n \in Nat : n = Len(wire)
  BY DEF IInv, TypeOK
<1>1. /\ wire \in Seq(Insts) /\ sent \in Seq(Items) /\ Len(sent) = n /\ n \in Nat
      /\ EncView \in Views /\ DecView \in Views
  BY <1>0, EncViewType DEF IInv, TypeOK
<1>2. item \in Items
  BY <1>1
<1>3. wire' = Append(wire, inst) /\ sent' = Append(sent, item) /\ UNCHANGED decVars
  BY DEF Write
<1> HIDE DEF item, Items
<1>4. /\ wire' \in Seq(Insts) /\ Len(wire') = n + 1
      /\ wire'[n + 1] = inst /\ \A i \in 1 .. n : wire'[i] = wire[i]
  BY <1>0, <1>1, <1>3
<1>5. /\ sent' \in Seq(Items) /\ Len(sent') = n + 1
      /\ sent'[n + 1] = item /\ \A i \in 1 .. n : sent'[i] = sent[i]
  BY <1>1, <1>2, <1>3
<1>6. DecView' = DecView /\ failed' = failed
  BY <1>3 DEF decVars, DecView
<1>8. TypeOK'
  BY <1>1, <1>4, <1>5, <1>6 DEF IInv, TypeOK, Items
<1>9. \A i \in 1 .. n + 1 : ViewAt(i)' = ViewAt(i)
  BY <1>1, <1>5, SMT DEF ViewAt, item
<1>10. ViewAt(n + 2)' = EncView'
  BY <1>1, <1>5 DEF ViewAt
<1>11. Lockstep'
  <2>1. ViewAt(1)' = DecView'
    BY <1>1, <1>6, <1>9 DEF IInv, Lockstep
  <2>2. ASSUME NEW i \in 1 .. n
        PROVE  After(sent'[i].view, wire'[i], sent'[i].addr) = ViewAt(i + 1)'
    <3>1. After(sent[i].view, wire[i], sent[i].addr) = ViewAt(i + 1)
      BY <1>0 DEF IInv, Lockstep
    <3>2. ViewAt(i + 1)' = ViewAt(i + 1)
      BY <1>1, <1>9
    <3>3. QED
      BY <1>4, <1>5, <3>1, <3>2
  <2>3. After(sent'[n + 1].view, wire'[n + 1], sent'[n + 1].addr) = ViewAt(n + 2)'
    BY <1>4, <1>5, <1>10 DEF item
  <2>4. ASSUME NEW i \in 1 .. Len(wire')
        PROVE  After(sent'[i].view, wire'[i], sent'[i].addr) = ViewAt(i + 1)'
    <3>1. CASE i \in 1 .. n
      BY <2>2, <3>1
    <3>2. CASE i = n + 1
      <4>1. i + 1 = n + 2
        BY <1>1, <3>2
      <4>2. QED
        BY <2>3, <3>2, <4>1
    <3>3. QED
      BY <1>1, <1>4, <3>1, <3>2
  <2>5. QED
    BY <2>1, <2>4 DEF Lockstep
<1>12. EncodedAsMeant'
  <2>1. ASSUME NEW i \in 1 .. n + 1
        PROVE  AsMeant(sent'[i].view, wire'[i], sent'[i].addr)
    <3>1. CASE i \in 1 .. n
      BY <1>0, <1>4, <1>5, <3>1 DEF IInv, EncodedAsMeant
    <3>2. CASE i = n + 1
      <4>1. sent'[i].view = EncView /\ sent'[i].addr = addr /\ wire'[i] = inst
        BY <1>4, <1>5, <3>2 DEF item
      <4>2. QED
        BY <4>1
    <3>3. QED
      BY <1>1, <3>1, <3>2
  <2>2. QED
    BY <1>4, <2>1 DEF EncodedAsMeant
<1>13. QED
  BY <1>6, <1>8, <1>11, <1>12 DEF IInv, NeverRejects

\* Reading an instruction keeps the invariant if the decoder moves to the
\* state the instruction leaves behind and does not reject it.
LEMMA ReadKeeps ==
  ASSUME IInv, wire # <<>>, wire' = Tail(wire), sent' = Tail(sent),
         UNCHANGED encVars, failed' = FALSE,
         DecView' = After(DecView, Head(wire), Head(sent).addr)
  PROVE  IInv'
<1> DEFINE Items == [view : Views, addr : Nat]
<1>0. PICK n \in Nat : n = Len(wire)
  BY DEF IInv, TypeOK
<1>1. /\ wire \in Seq(Insts) /\ sent \in Seq(Items) /\ Len(sent) = n
      /\ EncTypeOK /\ DecView \in Views
  BY <1>0 DEF IInv, TypeOK
<1> HIDE DEF Items
<1>2. n >= 1 /\ sent # <<>>
  BY <1>0, <1>1
<1>3. Head(wire) = wire[1] /\ Head(sent) = sent[1] /\ sent[1] \in Items
  BY <1>0, <1>1, <1>2
<1>4. /\ wire' \in Seq(Insts) /\ Len(wire') = n - 1
      /\ \A i \in 1 .. n - 1 : wire'[i] = wire[i + 1]
  BY <1>0, <1>1, <1>2, HeadTailProperties
<1>5. /\ sent' \in Seq(Items) /\ Len(sent') = n - 1
      /\ \A i \in 1 .. n - 1 : sent'[i] = sent[i + 1]
  BY <1>0, <1>1, <1>2, HeadTailProperties
<1>6. EncView' = EncView /\ (EncTypeOK' <=> EncTypeOK)
  BY DEF encVars, EncView, EncTypeOK, here
<1>7. Head(wire) \in Insts /\ Head(sent).addr \in Nat
  BY <1>0, <1>1, <1>2, <1>3 DEF Items
<1>8. TypeOK'
  <2>1. DecView' \in Views
    BY <1>1, <1>7, AfterType
  <2>2. QED
    BY <1>1, <1>4, <1>5, <1>6, <2>1 DEF TypeOK, Items
<1>9. ASSUME NEW i \in 1 .. n
      PROVE  ViewAt(i)' = ViewAt(i + 1)
  <2>1. CASE i <= n - 1
    BY <1>0, <1>1, <1>5, <2>1 DEF ViewAt
  <2>2. CASE i = n
    BY <1>0, <1>1, <1>5, <1>6, <2>2 DEF ViewAt
  <2>3. QED
    BY <1>0, <2>1, <2>2
<1>10. ASSUME NEW i \in 1 .. n
       PROVE  After(sent[i].view, wire[i], sent[i].addr) = ViewAt(i + 1)
  BY <1>0 DEF IInv, Lockstep
<1>11. Lockstep'
  <2>1. ViewAt(1) = DecView /\ ViewAt(1) = sent[1].view
    BY <1>1, <1>2 DEF IInv, Lockstep, ViewAt
  <2>2. ViewAt(1)' = DecView'
    <3>1. DecView' = ViewAt(1 + 1)
      BY <1>2, <1>3, <1>10, <2>1
    <3>2. ViewAt(1)' = ViewAt(1 + 1)
      BY <1>2, <1>9
    <3>3. QED
      BY <3>1, <3>2
  <2>3. ASSUME NEW i \in 1 .. n - 1
        PROVE  After(sent'[i].view, wire'[i], sent'[i].addr) = ViewAt(i + 1)'
    <3>1. i + 1 \in 1 .. n
      BY <1>0
    <3>2. After(sent[i + 1].view, wire[i + 1], sent[i + 1].addr) = ViewAt(i + 1 + 1)
      BY <1>10, <3>1
    <3>3. ViewAt(i + 1)' = ViewAt(i + 1 + 1)
      BY <1>9, <3>1
    <3>4. QED
      BY <1>4, <1>5, <3>2, <3>3
  <2>4. QED
    BY <1>4, <2>2, <2>3 DEF Lockstep
<1>12. EncodedAsMeant'
  <2>1. ASSUME NEW i \in 1 .. n - 1
        PROVE  AsMeant(sent'[i].view, wire'[i], sent'[i].addr)
    <3>1. i + 1 \in 1 .. Len(wire) /\ wire'[i] = wire[i + 1] /\ sent'[i] = sent[i + 1]
      BY <1>0, <1>4, <1>5
    <3>2. QED
      BY <3>1 DEF IInv, EncodedAsMeant
  <2>2. QED
    BY <1>4, <2>1 DEF EncodedAsMeant
<1>13. QED
  BY <1>8, <1>11, <1>12 DEF IInv, NeverRejects

\* The head of the wire, seen from the decoder: it is what was meant in the
\* state the decoder is in.
LEMMA HeadAsMeant ==
  ASSUME IInv, wire # <<>>
  PROVE  /\ AsMeant(DecView, Head(wire), Head(sent).addr)
         /\ Head(sent).addr \in Nat /\ Head(wire) \in Insts
<1>1. /\ 1 \in 1 .. Len(wire) /\ wire \in Seq(Insts) /\ Len(sent) = Len(wire)
      /\ sent \in Seq([view : Views, addr : Nat])
  BY DEF IInv, TypeOK
<1>2. Head(wire) = wire[1] /\ Head(sent) = sent[1]
  OBVIOUS
<1>3. sent[1] \in [view : Views, addr : Nat] /\ wire[1] \in Insts
  BY <1>1, ElementOfSeq
<1>4. sent[1].view = DecView
  BY <1>1 DEF IInv, Lockstep, ViewAt
<1>5. AsMeant(sent[1].view, wire[1], sent[1].addr)
  BY <1>1 DEF IInv, EncodedAsMeant
<1>6. QED
  BY <1>2, <1>3, <1>4, <1>5

\* A COPY at the head of the wire is decoded to the address that was meant, and
\* none of the three checks rejects it.
LEMMA HeadDecodes ==
  ASSUME IInv, wire # <<>>, Head(wire).op = "CPY"
  PROVE  /\ DecodeAddress(dec, Head(wire).code, dec_position) = Head(sent).addr
         /\ CanCopy(dec_cpylen, dec_position, Head(sent).addr, Head(wire).size)
         /\ dec_position + Head(wire).size <= dec_maxpos
<1>1. dec \in Caches /\ dec_position \in Nat /\ Head(sent).addr \in Nat
  BY HeadAsMeant DEF IInv, TypeOK, DecView, Views
<1>2. /\ Head(wire).code = EncodeAddress(dec, Head(sent).addr, dec_position)
      /\ CanCopy(dec_cpylen, dec_position, Head(sent).addr, Head(wire).size)
      /\ dec_position + Head(wire).size <= dec_maxpos
  BY HeadAsMeant DEF AsMeant, DecView
<1>3. Head(sent).addr <= dec_position
  BY <1>1, <1>2 DEF CanCopy
<1>4. QED
  BY <1>1, <1>2, <1>3, RoundTrip

\* The invariant holds before the first window, both caches as xd3_init_cache
\* leaves them.
LEMMA InitIInv == Init => IInv
<1> SUFFICES ASSUME Init PROVE IInv
  OBVIOUS
<1>1. EncView = DecView /\ EncTypeOK
  BY CacheTypes DEF Init, EncView, DecView, EncTypeOK, here
<1>2. TypeOK
  <2>1. wire = <<>> /\ sent = <<>> /\ failed \in BOOLEAN
    BY DEF Init
  <2>2. wire \in Seq(Insts) /\ sent \in Seq([view : Views, addr : Nat])
    BY <2>1, EmptySeq
  <2>3. QED
    BY <1>1, <2>1, <2>2, EncViewType DEF TypeOK
<1>3. Lockstep /\ EncodedAsMeant /\ NeverRejects
  BY <1>1 DEF Init, Lockstep, ViewAt, EncodedAsMeant, NeverRejects
<1>4. QED
  BY <1>2, <1>3 DEF IInv

\* Every step of either side keeps the invariant.
LEMMA NextIInv == IInv /\ [Next]_vars => IInv'
<1> SUFFICES ASSUME IInv, [Next]_vars PROVE IInv'
  OBVIOUS
<1>1. EncTypeOK /\ DecView \in Views
  BY DEF IInv, TypeOK
<1>2. enc \in Caches /\ taroff \in Nat /\ avail_in \in Nat /\ unencoded_offset \in Nat
      /\ here \in Nat
  BY <1>1 DEF EncTypeOK, here
<1>3. Segments \subseteq Nat /\ Lengths \subseteq Nat /\ Sizes \subseteq Nat \ {0}
  BY CacheAssumption
<1>4. ASSUME NEW base \in Segments, NEW length \in Lengths, EncodeWindow(base, length)
      PROVE  IInv'
  <2> DEFINE inst == [op |-> "WIN", size |-> base, tgt |-> length]
  <2>1. inst \in Insts
    BY <1>3 DEF Insts
  <2>2. EncTypeOK'
    BY <1>3, <1>4, CacheTypes DEF EncodeWindow, EncTypeOK
  <2>3. EncView' = After(EncView, inst, 0)
    BY <1>3, <1>4 DEF EncodeWindow, EncView, After, here
  <2>4. Write(inst, 0) /\ AsMeant(EncView, inst, 0)
    BY <1>4 DEF EncodeWindow, AsMeant
  <2>5. QED
    BY <2>1, <2>2, <2>3, <2>4, WriteKeeps
<1>5. ASSUME NEW size \in Sizes, EncodeData(size) PROVE IInv'
  <2> DEFINE inst == [op |-> "DATA", size |-> size]
  <2>1. inst \in Insts
    BY <1>3 DEF Insts
  <2>2. EncTypeOK'
    BY <1>1, <1>3, <1>5 DEF EncodeData, Encode, EncTypeOK
  <2>3. EncView' = After(EncView, inst, 0)
    BY <1>2, <1>3, <1>5 DEF EncodeData, Encode, EncView, After, here
  <2>4. Write(inst, 0)
    BY <1>5 DEF EncodeData
  <2>5. AsMeant(EncView, inst, 0)
    BY <1>2, <1>3, <1>5 DEF EncodeData, Encode, AsMeant, EncView, here
  <2>6. QED
    BY <2>1, <2>2, <2>3, <2>4, <2>5, WriteKeeps
<1>6. ASSUME NEW xtra \in BOOLEAN, NEW size \in Sizes, NEW addr \in 0 .. here,
             EncodeCopy(xtra, addr, size)
      PROVE  IInv'
  <2> DEFINE a == IF xtra THEN addr ELSE taroff + addr
             inst == [op |-> "CPY", size |-> size, code |-> EncodeAddress(enc, a, here)]
  <2>1. a \in Nat /\ CanCopy(taroff, here, a, size)
    BY <1>2, <1>3, <1>6 DEF EncodeCopy, CanCopy, here
  <2>2. /\ Encode(size) /\ enc' = UpdateCache(enc, a) /\ Write(inst, a)
    BY <1>6 DEF EncodeCopy
  <2> HIDE DEF a
  <2>3. a <= here /\ size \in Nat
    BY <1>2, <1>3, <2>1 DEF CanCopy
  <2>4. EncodeAddress(enc, a, here) \in Codes
    BY <1>2, <2>1, <2>3, RoundTrip
  <2>5. inst \in Insts
    BY <2>3, <2>4 DEF Insts
  <2>6. EncTypeOK'
    BY <1>1, <2>1, <2>2, <2>3, CacheTypes DEF Encode, EncTypeOK
  <2>7. here + size = here' /\ here + size <= taroff + avail_in
    BY <1>2, <2>2, <2>3 DEF Encode, here
  <2>8. EncView' = After(EncView, inst, a)
    BY <2>2, <2>7 DEF Encode, EncView, After
  <2>9. AsMeant(EncView, inst, a)
    BY <2>1, <2>7 DEF AsMeant, EncView
  <2>10. QED
    BY <2>1, <2>2, <2>5, <2>6, <2>8, <2>9, WriteKeeps
<1>7. CASE EncodeEnd
  <2> DEFINE inst == [op |-> "END", size |-> 0]
  <2>1. inst \in Insts
    BY DEF Insts
  <2>2. EncTypeOK'
    BY <1>1, <1>7 DEF EncodeEnd, EncTypeOK
  <2>3. EncView' = After(EncView, inst, 0)
    BY <1>7 DEF EncodeEnd, EncView, After, here
  <2>4. Write(inst, 0) /\ AsMeant(EncView, inst, 0)
    BY <1>7 DEF EncodeEnd, AsMeant, EncView, here
  <2>5. QED
    BY <2>1, <2>2, <2>3, <2>4, WriteKeeps
<1>8. CASE DecodeWindow
  <2>1. /\ wire # <<>> /\ wire' = Tail(wire) /\ sent' = Tail(sent) /\ UNCHANGED encVars
        /\ failed' = FALSE
    BY <1>8 DEF DecodeWindow, Read
  <2>2. DecView' = After(DecView, Head(wire), Head(sent).addr)
    BY <1>8 DEF DecodeWindow, WindowBounds, Read, DecView, After
  <2>3. QED
    BY <2>1, <2>2, ReadKeeps
<1>9. CASE DecodeData
  <2>1. /\ wire # <<>> /\ wire' = Tail(wire) /\ sent' = Tail(sent) /\ UNCHANGED encVars
        /\ Head(wire).op = "DATA"
    BY <1>9 DEF DecodeData, Read
  <2>2. dec_position + Head(wire).size <= dec_maxpos
    BY <2>1, HeadAsMeant DEF AsMeant, DecView
  <2>3. /\ failed' = FALSE /\ dec' = dec /\ dec_position' = dec_position + Head(wire).size
        /\ dec_cpylen' = dec_cpylen /\ dec_maxpos' = dec_maxpos
    BY <1>9, <2>2 DEF DecodeData, Advance
  <2>4. DecView' = After(DecView, Head(wire), Head(sent).addr)
    BY <2>1, <2>3 DEF DecView, After
  <2>5. QED
    BY <2>1, <2>3, <2>4, ReadKeeps
<1>10. CASE DecodeCopy
  <2>1. /\ wire # <<>> /\ wire' = Tail(wire) /\ sent' = Tail(sent) /\ UNCHANGED encVars
        /\ Head(wire).op = "CPY"
    BY <1>10 DEF DecodeCopy, Read
  <2>2. /\ DecodeAddress(dec, Head(wire).code, dec_position) = Head(sent).addr
        /\ CanCopy(dec_cpylen, dec_position, Head(sent).addr, Head(wire).size)
        /\ dec_position + Head(wire).size <= dec_maxpos
    BY <2>1, HeadDecodes
  <2>3. /\ dec' = UpdateCache(dec, Head(sent).addr) /\ failed' = FALSE
        /\ dec_position' = dec_position + Head(wire).size
        /\ dec_cpylen' = dec_cpylen /\ dec_maxpos' = dec_maxpos
    BY <1>10, <2>2 DEF DecodeCopy, Advance
  <2>4. DecView' = After(DecView, Head(wire), Head(sent).addr)
    BY <2>1, <2>3 DEF DecView, After
  <2>5. QED
    BY <2>1, <2>3, <2>4, ReadKeeps
<1>11. CASE DecodeEnd
  <2>1. /\ wire # <<>> /\ wire' = Tail(wire) /\ sent' = Tail(sent) /\ UNCHANGED encVars
        /\ Head(wire).op = "END"
    BY <1>11 DEF DecodeEnd, Read
  <2>2. dec_position = dec_maxpos
    BY <2>1, HeadAsMeant DEF AsMeant, DecView
  <2>3. failed' = FALSE /\ DecView' = DecView
    BY <1>11, <2>2 DEF DecodeEnd, DecView
  <2>4. DecView' = After(DecView, Head(wire), Head(sent).addr)
    BY <2>1, <2>3 DEF After
  <2>5. QED
    BY <2>1, <2>3, <2>4, ReadKeeps
<1>12. CASE UNCHANGED vars
  BY <1>12 DEF vars, encVars, decVars, IInv, TypeOK, EncTypeOK, Lockstep, EncodedAsMeant,
               NeverRejects, EncView, DecView, ViewAt, here
<1>13. QED
  BY <1>4, <1>5, <1>6, <1>7, <1>8, <1>9, <1>10, <1>11, <1>12 DEF Next, EncodeStep, DecodeStep

-----------------------------------------------------------------------------
(* The length of an address.                                                *)

\* xd3_sizeof_size of a larger integer is no smaller, and one byte is the least.
LEMMA IntLengthMonotone ==
  ASSUME NEW d \in Nat, NEW e \in Nat, d <= e
  PROVE  /\ IntLength(d) \in Nat /\ 1 <= IntLength(d)
         /\ IntLength(d) <= IntLength(e)
         /\ d <= SmallMax => IntLength(d) = 1
<1> DEFINE L1 == SmallMax + 1
           L2 == L1 * L1
           L3 == L1 * L2
           L4 == L1 * L3
           L5 == L1 * L4
           L6 == L1 * L5
           L7 == L1 * L6
           L8 == L1 * L7
           L9 == L1 * L8
           Chain(x) ==
             IF x < L1 THEN 1 ELSE IF x < L2 THEN 2 ELSE IF x < L3 THEN 3
             ELSE IF x < L4 THEN 4 ELSE IF x < L5 THEN 5 ELSE IF x < L6 THEN 6
             ELSE IF x < L7 THEN 7 ELSE IF x < L8 THEN 8 ELSE IF x < L9 THEN 9 ELSE 10
<1>1. L1 \in Nat /\ SmallMax \in Nat /\ (d <= SmallMax => d < L1)
  BY CacheAssumption
<1>2. /\ L2 \in Nat /\ L3 \in Nat /\ L4 \in Nat /\ L5 \in Nat
      /\ L6 \in Nat /\ L7 \in Nat /\ L8 \in Nat /\ L9 \in Nat
  <2>1. \A x, y \in Nat : x * y \in Nat
    OBVIOUS
  <2> HIDE DEF L1
  <2>2. L2 \in Nat
    BY <1>1, <2>1
  <2> HIDE DEF L2
  <2>3. L3 \in Nat
    BY <1>1, <2>1, <2>2
  <2> HIDE DEF L3
  <2>4. L4 \in Nat
    BY <1>1, <2>1, <2>3
  <2> HIDE DEF L4
  <2>5. L5 \in Nat
    BY <1>1, <2>1, <2>4
  <2> HIDE DEF L5
  <2>6. L6 \in Nat
    BY <1>1, <2>1, <2>5
  <2> HIDE DEF L6
  <2>7. L7 \in Nat
    BY <1>1, <2>1, <2>6
  <2> HIDE DEF L7
  <2>8. L8 \in Nat
    BY <1>1, <2>1, <2>7
  <2> HIDE DEF L8
  <2>9. L9 \in Nat
    BY <1>1, <2>1, <2>8
  <2>10. QED
    BY <2>2, <2>3, <2>4, <2>5, <2>6, <2>7, <2>8, <2>9
<1>3. IntLength(d) = Chain(d) /\ IntLength(e) = Chain(e)
  BY DEF IntLength
<1> HIDE DEF L1, L2, L3, L4, L5, L6, L7, L8, L9
<1>4. Chain(d) \in Nat /\ 1 <= Chain(d) /\ (d < L1 => Chain(d) = 1)
  OBVIOUS
<1>5. Chain(d) <= Chain(e)
  BY <1>1, <1>2
<1> HIDE DEF Chain
<1>6. QED
  BY <1>1, <1>3, <1>4, <1>5

\* The mode a least search settles on is no larger than any other.
LEMMA LeastIsLeast ==
  ASSUME NEW c \in Caches, NEW addr \in Nat, NEW pos \in Nat, addr <= pos,
         NEW n \in IntModes(c, addr)
  PROVE  LET m == FirstMode(LeastModes(c, addr, pos))
         IN  m \in IntModes(c, addr) /\ Delta(c, addr, pos, m) <= Delta(c, addr, pos, n)
<1> DEFINE m == FirstMode(LeastModes(c, addr, pos))
<1>1. LeastModes(c, addr, pos) \subseteq Nat
  BY IntModesType, CacheAssumption DEF LeastModes, SameStart
<1>2. m \in LeastModes(c, addr, pos)
  BY <1>1, LeastModesNonempty, FirstModeIn
<1> HIDE DEF m
<1>3. m \in IntModes(c, addr) /\ Delta(c, addr, pos, m) <= Delta(c, addr, pos, n)
  BY <1>2 DEF LeastModes
<1>4. QED
  BY <1>3 DEF m

\* xd3_encode_address finds a shortest address: no mode that could send addr
\* takes fewer bytes, although the search stops at the first one of one byte.
LEMMA ShortestAddress ==
  ASSUME NEW c \in Caches, NEW addr \in Nat, NEW pos \in Nat, addr <= pos
  PROVE  LET a == EncodeAddress(c, addr, pos)
         IN  /\ \A m \in IntModes(c, addr) :
                   CodeLength(a) <= IntLength(Delta(c, addr, pos, m))
             /\ SameHit(c, addr) => CodeLength(a) = 1
<1> DEFINE a == EncodeAddress(c, addr, pos)
           small == SmallModes(c, addr, pos)
           least == LeastModes(c, addr, pos)
<1>1. /\ IntModes(c, addr) \subseteq Nat
      /\ \A m \in IntModes(c, addr) : Delta(c, addr, pos, m) \in Nat
  BY IntModesType, CacheAssumption DEF SameStart
<1>2. \A m \in IntModes(c, addr) :
         IntLength(Delta(c, addr, pos, m)) \in Nat /\ 1 <= IntLength(Delta(c, addr, pos, m))
  BY <1>1, IntLengthMonotone
<1>3. \A m : IntAddress(c, addr, pos, m).form = "size"
              /\ IntAddress(c, addr, pos, m).val = Delta(c, addr, pos, m)
  BY DEF IntAddress
<1>4. CASE small # {}
  <2> DEFINE m == FirstMode(small)
  <2>1. m \in small
    BY <1>1, <1>4, FirstModeIn DEF SmallModes
  <2>2. a = IntAddress(c, addr, pos, m)
    BY <1>4 DEF EncodeAddress
  <2> HIDE DEF m, a
  <2>3. Delta(c, addr, pos, m) \in Nat /\ Delta(c, addr, pos, m) <= SmallMax
    BY <1>1, <2>1 DEF SmallModes
  <2>4. CodeLength(a) = 1
    BY <1>3, <2>2, <2>3, IntLengthMonotone DEF CodeLength
  <2>5. QED
    BY <1>2, <2>4 DEF a
<1>5. CASE small = {} /\ SameHit(c, addr)
  <2>1. CodeLength(a) = 1
    BY <1>5 DEF CodeLength, EncodeAddress, SameAddress
  <2>2. QED
    BY <1>2, <2>1
<1>6. CASE small = {} /\ ~SameHit(c, addr)
  <2> DEFINE m == FirstMode(least)
  <2>1. a = IntAddress(c, addr, pos, m)
    BY <1>6 DEF EncodeAddress
  <2>2. ASSUME NEW n \in IntModes(c, addr)
        PROVE  CodeLength(a) <= IntLength(Delta(c, addr, pos, n))
    <3>1. m \in IntModes(c, addr) /\ Delta(c, addr, pos, m) <= Delta(c, addr, pos, n)
      BY LeastIsLeast
    <3> HIDE DEF m, a
    <3>2. CodeLength(a) = IntLength(Delta(c, addr, pos, m))
      BY <1>3, <2>1 DEF CodeLength
    <3>3. QED
      BY <1>1, <3>1, <3>2, IntLengthMonotone
  <2>3. QED
    BY <1>6, <2>2
<1>7. QED
  BY <1>4, <1>5, <1>6

\* What was written is as short as the caches of that moment allow.
LEMMA CheapestIInv == IInv => CheapestAddress
<1> SUFFICES ASSUME IInv, NEW i \in 1 .. Len(wire), wire[i].op = "CPY"
             PROVE  LET v == sent[i].view
                        addr == sent[i].addr
                    IN  /\ \A m \in IntModes(v.cache, addr) :
                              CodeLength(wire[i].code) <= IntLength(Delta(v.cache, addr, v.pos, m))
                        /\ SameHit(v.cache, addr) => CodeLength(wire[i].code) = 1
  BY DEF CheapestAddress
<1> DEFINE v == sent[i].view
           addr == sent[i].addr
<1>1. sent \in Seq([view : Views, addr : Nat]) /\ i \in 1 .. Len(sent)
  BY DEF IInv, TypeOK
<1>2. v \in Views /\ addr \in Nat
  <2>1. sent[i] \in [view : Views, addr : Nat]
    BY <1>1, ElementOfSeq
  <2>2. QED
    BY <2>1
<1>3. v.cache \in Caches /\ v.pos \in Nat
  BY <1>2 DEF Views
<1>4. wire[i].code = EncodeAddress(v.cache, addr, v.pos) /\ addr < v.pos
  BY DEF IInv, EncodedAsMeant, AsMeant, CanCopy
<1>5. addr <= v.pos
  BY <1>2, <1>3, <1>4
<1> HIDE DEF v, addr
<1>6. QED
  BY <1>2, <1>3, <1>4, <1>5, ShortestAddress DEF v, addr

-----------------------------------------------------------------------------
(* The theorems. *)

\* The inductive invariant holds in every reachable state.
THEOREM Invariance == Spec => []IInv
  BY InitIInv, NextIInv, PTL DEF Spec

\* Type correctness: modes, bytes and cached addresses stay in range, and the
\* form of every number is the one the decoder infers from its mode.
THEOREM TypeCorrect == Spec => []TypeOK
<1>1. IInv => TypeOK
  BY DEF IInv
<1>2. QED
  BY <1>1, Invariance, PTL

\* xd3_update_cache and xd3_init_cache keep the two sides' caches in step.
THEOREM CachesInLockstep == Spec => []Lockstep
<1>1. IInv => Lockstep
  BY DEF IInv
<1>2. QED
  BY <1>1, Invariance, PTL

\* xd3_decode_address always returns the address xd3_encode_address was given.
THEOREM AddressesAgree == Spec => []AddrAgree
<1>1. IInv => AddrAgree
  BY HeadDecodes DEF AddrAgree
<1>2. QED
  BY <1>1, Invariance, PTL

\* xd3_encode_address never sends an address in more bytes than it must.
THEOREM AddressesAreCheapest == Spec => []CheapestAddress
  BY CheapestIInv, Invariance, PTL

\* The decoder accepts all an encoder writes under its own assertions: every
\* instruction passes the three checks of xd3_decode_parse_halfinst, and at the
\* end of the instructions the window has the length that was announced.
THEOREM EncoderIsAccepted == Spec => []NeverRejects
<1>1. IInv => NeverRejects
  BY DEF IInv
<1>2. QED
  BY <1>1, Invariance, PTL
=============================================================================
