----------------------------- MODULE IoptProofs -----------------------------
(***************************************************************************)
(* What holds of the instruction buffer for every profile, window and      *)
(* constant of the matcher.                                                *)
(***************************************************************************)
EXTENDS Iopt, Lemmas

Insts == Instructions(Types)
News  == [inst : Insts, mlen : Nat, lazy : BOOLEAN]

\* The numbers of a profile.
LEMMA ProfileNumbers ==
  ASSUME profile \in Profiles
  PROVE  /\ AvailIn \in Nat \ {0} /\ profile.iopt_size \in Nat \ {0}
         /\ profile.max_back \in Nat /\ MaxLazy \in Nat
         /\ profile.unlimited \in BOOLEAN /\ Greedy \in BOOLEAN
  BY IoptAssumption DEF AvailIn, MaxLazy, Greedy

\* The numbers of the matcher.
LEMMA MatcherNumbers ==
  /\ Elts \in Nat \ {0} /\ MinMatch \in Nat \ {0} /\ MinRun \in Nat /\ MaxSplit \in Nat
  /\ SLook \in Nat \ {0} /\ LLook \in Nat
  /\ MinMatch <= SLook /\ MinMatch <= LLook /\ MinMatch <= MinRun /\ MinMatch <= MaxSplit
  BY IoptAssumption

\* A match that waits for a slot is there.
LEMMA NewIsNotNone ==
  ASSUME NEW x \in News
  PROVE  x # None
  BY DEF News, None

\* The fields of an instruction.
LEMMA InstFields ==
  ASSUME NEW r \in Insts, profile \in Profiles
  PROVE  /\ r.type \in Types /\ r.pos \in 0 .. AvailIn /\ r.size \in Nat /\ r.addr \in Nat
         /\ End(r) = r.pos + r.size /\ End(r) \in Nat
  BY ProfileNumbers DEF Insts, Instructions, End

\* The buffer, element by element.
LEMMA UsedElements ==
  ASSUME TypeOK
  PROVE  /\ used \in Seq(Insts) /\ Len(used) \in Nat
         /\ \A i \in 1 .. Len(used) : used[i] \in Insts
  BY ElementOfSeq DEF TypeOK, Insts

\* The numbers of a state.
LEMMA StateNumbers ==
  ASSUME TypeOK
  PROVE  /\ AvailIn \in Nat \ {0} /\ MinMatch \in Nat \ {0} /\ SLook \in Nat \ {0}
         /\ input_position \in 0 .. AvailIn
         /\ min_match \in Nat /\ min_match >= MinMatch
         /\ min_match <= Larger(MinMatch, AvailIn)
         /\ free \in Nat /\ slots \in Nat /\ unencoded_offset \in Nat
         /\ Len(used) \in Nat
<1>1. profile \in Profiles /\ min_match \in MinMatch .. Larger(MinMatch, AvailIn)
      /\ input_position \in 0 .. AvailIn
      /\ free \in Nat /\ slots \in Nat /\ unencoded_offset \in Nat
  BY DEF TypeOK
<1>2. AvailIn \in Nat \ {0} /\ MinMatch \in Nat \ {0} /\ SLook \in Nat \ {0}
  BY <1>1, ProfileNumbers, MatcherNumbers
<1>3. min_match \in Nat /\ min_match >= MinMatch /\ min_match <= Larger(MinMatch, AvailIn)
  BY <1>1, <1>2 DEF Larger
<1>4. QED
  BY <1>1, <1>2, <1>3, UsedElements

\* The numbers of an instruction in the buffer.
LEMMA UsedNumbers ==
  ASSUME TypeOK, NEW i \in 1 .. Len(used)
  PROVE  /\ used[i].pos \in 0 .. AvailIn /\ used[i].size \in Nat /\ used[i].addr \in Nat
         /\ used[i].type \in Types
         /\ End(used[i]) = used[i].pos + used[i].size /\ End(used[i]) \in Nat
<1>1. used[i] \in Insts /\ profile \in Profiles
  BY UsedElements DEF TypeOK
<1>2. QED
  BY <1>1, InstFields

\* Later instructions start and end later.
LEMMA OrderedApart ==
  ASSUME TypeOK, InOrder, NEW i \in 1 .. Len(used), NEW j \in 1 .. Len(used), i < j
  PROVE  used[i].pos < used[j].pos /\ End(used[i]) < End(used[j])
<1> DEFINE p == [k \in 1 .. Len(used) |-> used[k].pos]
           e == [k \in 1 .. Len(used) |-> End(used[k])]
<1>1. Len(used) \in Nat
  BY UsedElements
<1>2. \A k \in 1 .. Len(used) : p[k] \in Int /\ e[k] \in Int
  BY UsedNumbers
<1>3. \A k \in 1 .. Len(used) - 1 : p[k] < p[k + 1] /\ e[k] < e[k + 1]
  BY <1>1 DEF InOrder
<1> HIDE DEF p, e
<1>4. p[i] < p[j] /\ e[i] < e[j]
  BY <1>1, <1>2, <1>3, IncreasingSteps
<1>5. QED
  BY <1>4 DEF p, e

-----------------------------------------------------------------------------
(* The buffer stays sound.                                                 *)

LEMMA BufferInit == Init => BufferInv
<1> SUFFICES ASSUME Init PROVE BufferInv
  OBVIOUS
<1>1. /\ profile \in Profiles /\ AvailIn \in Nat \ {0} /\ profile.iopt_size \in Nat
      /\ MinMatch \in Nat \ {0}
  BY ProfileNumbers, MatcherNumbers DEF Init
<1>2. used = <<>> /\ used \in Seq(Instructions(Types))
  BY DEF Init
<1>3. TypeOK
  <2>1. MinMatch \in MinMatch .. Larger(MinMatch, AvailIn)
    BY <1>1 DEF Larger
  <2>2. new = None /\ pc = "START" /\ input_position \in 0 .. AvailIn
    BY <1>1 DEF Init
  <2>3. free \in Nat /\ slots \in Nat /\ iout \in {None} /\ unencoded_offset \in Nat
    BY <1>1 DEF Init
  <2>4. r1 \in Nat \ {0} /\ flushed \in Nat /\ min_match = MinMatch
    BY DEF Init
  <2>5. force \in BOOLEAN
    BY DEF Init
  <2>6. QED
    BY <1>1, <1>2, <2>1, <2>2, <2>3, <2>4, <2>5 DEF TypeOK
<1>4. QED
  BY <1>2, <1>3 DEF Init, BufferInv, InOrder, Shortened, NewSound, MatcherAhead, Compacted, AtStart

\* A match that was found, with the instructions that it covers erased.
LEMMA FoundKeeps ==
  ASSUME BufferInv, pc = "SEARCH", NEW type \in Types, NEW back \in Nat, NEW mlen \in Nat,
         back <= input_position, Found(type, back, mlen),
         used' \in Seq(Insts), Len(used') <= Len(used),
         \A i \in 1 .. Len(used') : used'[i] = used[i],
         used' # <<>> => used'[Len(used')].pos < input_position - back,
         free' \in Nat, UNCHANGED <<sizeVars, outVars, flushVars>>
  PROVE  BufferInv'
<1>1. /\ AvailIn \in Nat \ {0} /\ MinMatch \in Nat \ {0} /\ input_position \in 0 .. AvailIn
      /\ min_match \in Nat /\ min_match >= MinMatch
  BY StateNumbers DEF BufferInv
<1>2. AvailIn' = AvailIn /\ Insts' = Insts /\ profile' = profile
  BY DEF sizeVars, AvailIn, Insts, Instructions
<1>3. /\ pc' = "SLOT" /\ input_position' = input_position /\ min_match' = min_match
      /\ mlen >= min_match /\ input_position + mlen <= AvailIn
  BY DEF Found
<1> DEFINE inst == [type |-> type, pos |-> input_position - back, size |-> back + mlen,
                    addr |-> input_position - back]
<1>4. new' = [inst |-> inst, mlen |-> mlen, lazy |-> TRUE]
  BY DEF Found
<1>5. inst \in Insts
  BY <1>1, <1>3 DEF Insts, Instructions
<1>6. new' \in News /\ new'.inst = inst /\ new'.mlen = mlen
  BY <1>4, <1>5 DEF News
<1>7. new' # None
  BY <1>6, NewIsNotNone
<1>8. TypeOK'
  BY <1>1, <1>2, <1>3, <1>6, <1>7 DEF BufferInv, TypeOK, sizeVars, outVars, flushVars, News, Insts, Instructions, Adds
<1>9. \A i \in 1 .. Len(used) :
         /\ End(used[i]) = used[i].pos + used[i].size /\ End(used[i]) \in Nat
         /\ used[i].pos \in Nat /\ used[i].size \in Nat
  BY UsedNumbers DEF BufferInv
<1>10. Len(used) \in Nat /\ Len(used') \in Nat
  BY UsedElements DEF BufferInv
<1>11. InOrder'
  <2>1. \A i \in 1 .. Len(used') : used'[i] = used[i] /\ i \in 1 .. Len(used)
    BY <1>10
  <2>2. ASSUME NEW i \in 1 .. Len(used') - 1
        PROVE  used'[i].pos < used'[i + 1].pos /\ End(used'[i]) < End(used'[i + 1])
    <3>1. /\ i \in 1 .. Len(used) - 1
          /\ i \in 1 .. Len(used') /\ i + 1 \in 1 .. Len(used')
      BY <1>10
    <3>2. used'[i] = used[i] /\ used'[i + 1] = used[i + 1]
      BY <2>1, <3>1
    <3>3. QED
      BY <3>1, <3>2 DEF BufferInv, InOrder
  <2>3. \A i \in 1 .. Len(used') : End(used'[i]) <= AvailIn'
    BY <1>2, <2>1 DEF BufferInv, InOrder
  <2>4. QED
    BY <2>2, <2>3 DEF InOrder, End
<1>12. Shortened'
  BY <1>10 DEF BufferInv, Shortened
<1>13. NewSound'
  <2>1. /\ inst.pos = input_position - back /\ inst.pos <= input_position
        /\ End(inst) = input_position + mlen /\ inst.addr = inst.pos
    BY <1>1 DEF End
  <2> HIDE DEF inst
  <2>2. ASSUME used' # <<>>
        PROVE  /\ used'[Len(used')].pos < inst.pos
               /\ End(used'[Len(used')]) < End(inst)
    <3>1. Len(used') \in 1 .. Len(used) /\ used'[Len(used')] = used[Len(used')]
      BY <1>10, <2>2
    <3>2. End(used[Len(used)]) < input_position + min_match
      BY <1>10, <3>1 DEF BufferInv, MatcherAhead
    <3>3. End(used[Len(used')]) <= End(used[Len(used)])
      BY <1>9, <1>10, <2>2, <3>1, OrderedApart DEF BufferInv
    <3>4. QED
      BY <1>1, <1>3, <1>9, <1>10, <2>1, <2>2, <3>1, <3>2, <3>3
  <2>3. input_position + SLook <= AvailIn
    BY DEF BufferInv, MatcherAhead
  <2>4. QED
    BY <1>1, <1>2, <1>3, <1>6, <2>1, <2>2, <2>3 DEF NewSound
<1>14. MatcherAhead' /\ Compacted' /\ AtStart'
  BY <1>3 DEF MatcherAhead, Compacted, AtStart
<1>15. QED
  BY <1>8, <1>11, <1>12, <1>13, <1>14 DEF BufferInv

\* A match that waits for a slot.
LEMMA NewFields ==
  ASSUME TypeOK, new # None
  PROVE  /\ new \in News /\ new.inst \in Insts /\ new.mlen \in Nat /\ new.lazy \in BOOLEAN
         /\ new.inst.pos \in Nat /\ new.inst.size \in Nat
         /\ End(new.inst) = new.inst.pos + new.inst.size
<1>1. new \in News /\ profile \in Profiles
  BY DEF TypeOK, News, Insts
<1>2. new.inst \in Insts /\ new.mlen \in Nat /\ new.lazy \in BOOLEAN
  BY <1>1 DEF News
<1>3. QED
  BY <1>1, <1>2, InstFields

\* The matcher goes on, or the window ends and everything is flushed.
LEMMA ResumeKeeps ==
  ASSUME BufferInv, used' \in Seq(Insts), InOrder', Shortened', free' \in Nat, slots' \in Nat,
         profile' = profile, UNCHANGED outVars, new' = None,
         input_position' \in 0 .. AvailIn,
         min_match' \in MinMatch .. Larger(MinMatch, AvailIn),
         \/ LoopNoMore
         \/ pc' = "SEARCH" /\ UNCHANGED flushVars /\ MatcherAhead'
  PROVE  BufferInv'
<1>1. AvailIn' = AvailIn /\ Insts' = Insts
  BY DEF AvailIn, Insts, Instructions
<1>2. pc' \in {"SEARCH", "COMPACT"} /\ (pc' = "COMPACT" => force' = TRUE /\ r1' = 1)
  BY DEF LoopNoMore
<1>3. r1' \in Nat \ {0} /\ flushed' \in Nat
  BY DEF LoopNoMore, flushVars, BufferInv, TypeOK
<1>4. force' \in BOOLEAN
  <2>1. CASE LoopNoMore
    BY <2>1 DEF LoopNoMore
  <2>2. CASE UNCHANGED flushVars
    BY <2>2 DEF flushVars, BufferInv, TypeOK
  <2>3. QED
    BY <2>1, <2>2
<1>5. iout' \in ({None} \cup Instructions(Types) \cup Adds)' /\ unencoded_offset' \in Nat
  BY <1>1 DEF outVars, BufferInv, TypeOK, Instructions, Adds
<1>6. profile' \in Profiles /\ used' \in Seq(Instructions(Types))'
  BY <1>1 DEF BufferInv, TypeOK, Insts
<1>7. TypeOK'
  BY <1>1, <1>2, <1>3, <1>4, <1>5, <1>6 DEF TypeOK
<1>8. AtStart' /\ NewSound'
  BY <1>2 DEF AtStart, NewSound
<1>9. MatcherAhead'
  BY DEF LoopNoMore, MatcherAhead
<1>10. Compacted'
  <2>1. ASSUME NEW i \in 1 .. Len(used') - 1
        PROVE  (pc' = "COMPACT" /\ i < r1' => Disjoint(i)') /\ pc' # "ENCODE"
    BY <1>2
  <2>2. QED
    BY <2>1 DEF Compacted
<1>11. QED
  BY <1>7, <1>8, <1>9, <1>10 DEF BufferInv

\* restartloop, from a position that the last match has reached or passed, or that
\* is not the first of the window.
LEMMA RestartKeeps ==
  ASSUME BufferInv, used' \in Seq(Insts), InOrder', Shortened', free' \in Nat, slots' \in Nat,
         profile' = profile, UNCHANGED outVars, new' = None,
         NEW p \in 0 .. AvailIn, NEW last \in 0 .. AvailIn, last > p => p > 0, Restart(p, last),
         used' # <<>> => used'[Len(used')].pos < p /\ End(used'[Len(used')]) = last
  PROVE  BufferInv'
<1>1. AvailIn \in Nat \ {0} /\ MinMatch \in Nat \ {0} /\ min_match \in Nat
      /\ min_match >= MinMatch /\ min_match <= Larger(MinMatch, AvailIn) /\ AvailIn' = AvailIn
  BY StateNumbers DEF BufferInv, AvailIn
<1>2. input_position' \in 0 .. AvailIn
  BY <1>1 DEF Restart
<1>3. min_match' \in MinMatch .. Larger(MinMatch, AvailIn)
  <2>1. min_match' \in {min_match, MinMatch, Larger(MinMatch, 1 + last - p)}
        /\ (min_match' = Larger(MinMatch, 1 + last - p) => last > p \/ min_match' \in {min_match, MinMatch})
    BY DEF Restart
  <2>2. QED
    BY <1>1, <2>1 DEF Larger
<1>4. CASE p + SLook > AvailIn
  <2>1. LoopNoMore
    BY <1>4 DEF Restart
  <2>2. QED
    BY <1>2, <1>3, <2>1, ResumeKeeps
<1>5. CASE ~(p + SLook > AvailIn)
  <2>1. /\ pc' = "SEARCH" /\ UNCHANGED flushVars /\ input_position' = p
        /\ min_match' = IF last > p THEN Larger(MinMatch, 1 + last - p) ELSE MinMatch
    BY <1>5 DEF Restart
  <2>2. p + SLook <= AvailIn
    BY <1>1, <1>5, MatcherNumbers
  <2>3. last < p + min_match'
    BY <1>1, <2>1 DEF Larger
  <2>4. MatcherAhead'
    BY <1>1, <2>1, <2>2, <2>3 DEF MatcherAhead, End
  <2>5. QED
    BY <1>2, <1>3, <2>1, <2>4, ResumeKeeps
<1>6. QED
  BY <1>4, <1>5

\* The match that was found takes a slot; a lazy search starts a byte further on,
\* or the search goes on behind the match.
LEMMA PlaceKeeps ==
  ASSUME BufferInv, pc \in {"SLOT", "PLACE"}, NEW available \in Nat, available > 0,
         Place(available), slots' \in Nat, profile' = profile
  PROVE  BufferInv'
<1>1. AvailIn \in Nat \ {0} /\ MinMatch \in Nat \ {0} /\ SLook \in Nat \ {0} /\ AvailIn' = AvailIn
      /\ input_position \in 0 .. AvailIn /\ Len(used) \in Nat /\ Insts' = Insts
  BY StateNumbers DEF BufferInv, AvailIn, Insts, Instructions
<1>2. new # None
  BY DEF BufferInv, TypeOK
<1>3. /\ new.inst \in Insts /\ new.mlen \in Nat /\ new.lazy \in BOOLEAN
      /\ new.inst.pos \in Nat /\ new.inst.size \in Nat
      /\ End(new.inst) = new.inst.pos + new.inst.size
  BY <1>2, NewFields DEF BufferInv
<1>4. /\ new.mlen >= MinMatch /\ new.inst.pos <= input_position
      /\ End(new.inst) = input_position + new.mlen /\ End(new.inst) <= AvailIn
      /\ new.inst.type \in Copies => new.inst.addr = new.inst.pos
      /\ new.lazy => input_position + SLook <= AvailIn
      /\ used # <<>> => /\ used[Len(used)].pos < new.inst.pos
                       /\ End(used[Len(used)]) < End(new.inst)
  BY <1>2 DEF BufferInv, NewSound
<1>5. used' = Append(used, new.inst) /\ free' = available - 1 /\ new' = None /\ UNCHANGED outVars
  BY DEF Place
<1>6. used \in Seq(Insts)
  BY UsedElements DEF BufferInv
<1>7. /\ used' \in Seq(Insts) /\ Len(used') = Len(used) + 1 /\ used'[Len(used) + 1] = new.inst
      /\ \A i \in 1 .. Len(used) : used'[i] = used[i]
  BY <1>3, <1>5, <1>6, AppendProperties
<1>8. free' \in Nat
  BY <1>5
<1>9. InOrder'
  <2>1. ASSUME NEW i \in 1 .. Len(used') - 1
        PROVE  used'[i].pos < used'[i + 1].pos /\ End(used'[i]) < End(used'[i + 1])
    <3>1. CASE i = Len(used)
      BY <1>1, <1>4, <1>7, <3>1
    <3>2. CASE i # Len(used)
      <4>1. i \in 1 .. Len(used) - 1 /\ i \in 1 .. Len(used) /\ i + 1 \in 1 .. Len(used)
        BY <1>1, <1>7, <3>2
      <4>2. used'[i] = used[i] /\ used'[i + 1] = used[i + 1]
        BY <1>7, <4>1
      <4>3. QED
        BY <4>1, <4>2 DEF BufferInv, InOrder
    <3>3. QED
      BY <3>1, <3>2
  <2>2. ASSUME NEW i \in 1 .. Len(used')
        PROVE  End(used'[i]) <= AvailIn'
    <3>1. CASE i = Len(used) + 1
      BY <1>1, <1>4, <1>7, <3>1
    <3>2. CASE i # Len(used) + 1
      <4>1. i \in 1 .. Len(used)
        BY <1>1, <1>7, <3>2
      <4>2. QED
        BY <1>1, <1>7, <4>1 DEF BufferInv, InOrder
    <3>3. QED
      BY <3>1, <3>2
  <2>3. QED
    BY <2>1, <2>2 DEF InOrder, End
<1>10. Shortened'
  <2>1. new.inst.size >= MinMatch
    BY <1>1, <1>3, <1>4
  <2>2. ASSUME NEW i \in 1 .. Len(used')
        PROVE  /\ used'[i].size >= MinMatch
               /\ used'[i].type \in Copies => used'[i].addr = used'[i].pos
    <3>1. CASE i = Len(used) + 1
      BY <1>4, <1>7, <2>1, <3>1
    <3>2. CASE i # Len(used) + 1
      <4>1. i \in 1 .. Len(used)
        BY <1>1, <1>7, <3>2
      <4>2. QED
        BY <1>7, <4>1 DEF BufferInv, Shortened
    <3>3. QED
      BY <3>1, <3>2
  <2>3. QED
    BY <2>2 DEF Shortened
<1>11. used'[Len(used')] = new.inst
  BY <1>7
<1>12. CASE new.lazy /\ TryLazy(new.mlen)
  <2>1. min_match' = new.mlen /\ UpdateOne
    BY <1>12 DEF Place
  <2>2. min_match' \in MinMatch .. Larger(MinMatch, AvailIn)
    BY <1>1, <1>3, <1>4, <2>1 DEF Larger
  <2>3. CASE input_position + SLook = AvailIn
    <3>1. LoopNoMore /\ input_position' = input_position
      BY <2>1, <2>3 DEF UpdateOne
    <3>2. QED
      BY <1>1, <1>5, <1>7, <1>8, <1>9, <1>10, <2>2, <3>1, ResumeKeeps
  <2>4. CASE input_position + SLook # AvailIn
    <3>1. pc' = "SEARCH" /\ input_position' = input_position + 1 /\ UNCHANGED flushVars
      BY <2>1, <2>4 DEF UpdateOne
    <3>2. input_position + 1 + SLook <= AvailIn /\ input_position' \in 0 .. AvailIn
      BY <1>1, <1>4, <1>12, <2>4, <3>1
    <3>3. MatcherAhead'
      <4>1. End(used'[Len(used')]) < input_position' + min_match'
        BY <1>1, <1>3, <1>4, <1>11, <2>1, <3>1
      <4>2. used'[Len(used')].pos < input_position'
        BY <1>1, <1>3, <1>4, <1>11, <3>1
      <4>3. QED
        BY <1>1, <3>1, <3>2, <4>1, <4>2 DEF MatcherAhead, End
    <3>4. QED
      BY <1>1, <1>5, <1>7, <1>8, <1>9, <1>10, <2>2, <3>1, <3>2, <3>3, ResumeKeeps
  <2>5. QED
    BY <2>3, <2>4
<1>13. CASE ~(new.lazy /\ TryLazy(new.mlen))
  <2> DEFINE p == input_position + new.mlen
             last == End(new.inst)
  <2>1. Restart(p, last)
    BY <1>13 DEF Place
  <2>2. p \in 0 .. AvailIn /\ last \in 0 .. AvailIn /\ (last > p => p > 0)
    BY <1>1, <1>3, <1>4
  <2>3. used' # <<>> => used'[Len(used')].pos < p /\ End(used'[Len(used')]) = last
    BY <1>1, <1>3, <1>4, <1>11
  <2> HIDE DEF p, last
  <2>4. QED
    BY <1>5, <1>7, <1>8, <1>9, <1>10, <2>1, <2>2, <2>3, RestartKeeps
<1>14. QED
  BY <1>12, <1>13

\* The instructions that are left when those that start at pos or later are erased.
LEMMA KeptBefore ==
  ASSUME TypeOK, NEW pos \in Nat
  PROVE  /\ Kept(pos) \in Seq(Insts) /\ Len(Kept(pos)) <= Len(used)
         /\ \A i \in 1 .. Len(Kept(pos)) : Kept(pos)[i] = used[i]
         /\ Kept(pos) # <<>> => Kept(pos)[Len(Kept(pos))].pos < pos
<1> DEFINE covered(n) == \A i \in n + 1 .. Len(used) : used[i].pos >= pos
           good(n) == covered(n) /\ (n > 0 => used[n].pos < pos)
           S == {n \in 0 .. Len(used) : covered(n)}
           n0 == CHOOSE n \in 0 .. Len(used) : good(n)
<1>1. Len(used) \in Nat /\ used \in Seq(Insts)
  BY UsedElements
<1>2. \A i \in 1 .. Len(used) : used[i].pos \in Nat
  BY UsedNumbers
<1>3. Len(used) \in S /\ S \subseteq Nat
  BY <1>1
<1>4. PICK m \in S : \A n \in S : m <= n
  <2> HIDE DEF S
  <2> QED BY <1>3, LeastNat
<1>5. m \in 0 .. Len(used) /\ covered(m)
  BY <1>4
<1>6. ASSUME m > 0, ~(used[m].pos < pos)
      PROVE  FALSE
  <2>1. m \in 1 .. Len(used) /\ used[m].pos >= pos
    BY <1>1, <1>2, <1>5, <1>6
  <2>2. \A i \in (m - 1) + 1 .. Len(used) : i = m \/ i \in m + 1 .. Len(used)
    BY <1>1, <2>1
  <2>3. covered(m - 1)
    BY <1>5, <2>1, <2>2
  <2>4. m - 1 \in S
    BY <1>1, <2>1, <2>3
  <2>5. m <= m - 1
    <3> HIDE DEF S
    <3> QED BY <1>4, <2>4
  <2>6. QED
    BY <1>1, <2>1, <2>5
<1>7. n0 \in 0 .. Len(used) /\ good(n0)
  BY <1>5, <1>6
<1>8. Kept(pos) = SubSeq(used, 1, n0)
  BY DEF Kept
<1> HIDE DEF n0
<1>9. /\ Kept(pos) \in Seq(Insts) /\ Len(Kept(pos)) = n0
      /\ \A i \in 1 .. n0 : Kept(pos)[i] = used[i]
  <2>1. \A i \in 1 .. n0 : used[i] \in Insts
    BY <1>1, <1>7, UsedElements
  <2>2. QED
    BY <1>1, <1>7, <1>8, <2>1, SubSeqProperties
<1>10. QED
  BY <1>1, <1>7, <1>9

\* The end of the last match, as the matcher sees it.
LEMMA LastMatchedEnd ==
  ASSUME BufferInv
  PROVE  /\ LastMatched \in 0 .. AvailIn
         /\ used # <<>> => LastMatched = End(used[Len(used)]) /\ Len(used) \in 1 .. Len(used)
<1>1. Len(used) \in Nat /\ AvailIn \in Nat /\ used \in Seq(Insts)
  BY StateNumbers, UsedElements DEF BufferInv
<1>2. CASE used = <<>>
  BY <1>1, <1>2 DEF LastMatched
<1>3. CASE used # <<>>
  <2>1. Len(used) \in 1 .. Len(used)
    BY <1>1, <1>3
  <2>2. End(used[Len(used)]) \in Nat /\ End(used[Len(used)]) <= AvailIn
    BY <2>1, UsedNumbers DEF BufferInv, InOrder
  <2>3. QED
    BY <1>1, <1>3, <2>1, <2>2 DEF LastMatched
<1>4. QED
  BY <1>2, <1>3

\* What UNCHANGED bufVars leaves alone.
LEMMA SameBuffer ==
  ASSUME BufferInv, UNCHANGED bufVars
  PROVE  /\ used' \in Seq(Insts) /\ Len(used') = Len(used) /\ \A i \in 1 .. Len(used') : used'[i] = used[i]
         /\ InOrder' /\ Shortened' /\ free' \in Nat /\ slots' \in Nat /\ profile' = profile
         /\ AvailIn' = AvailIn
<1>1. used' = used /\ free' = free /\ slots' = slots /\ profile' = profile
  BY DEF bufVars, sizeVars
<1>2. used \in Seq(Insts) /\ free \in Nat /\ slots \in Nat
  BY UsedElements, StateNumbers DEF BufferInv
<1>3. AvailIn' = AvailIn
  BY <1>1 DEF AvailIn
<1>4. InOrder' /\ Shortened'
  BY <1>1, <1>3 DEF BufferInv, InOrder, Shortened, End
<1>5. QED
  BY <1>1, <1>2, <1>3, <1>4

\* Each step of the matcher.
LEMMA MatchKeeps == BufferInv /\ Match => BufferInv'
<1> SUFFICES ASSUME BufferInv, Match PROVE BufferInv'
  OBVIOUS
<1>1. /\ AvailIn \in Nat \ {0} /\ MinMatch \in Nat \ {0} /\ SLook \in Nat \ {0} /\ MinRun \in Nat
      /\ input_position \in 0 .. AvailIn /\ min_match \in Nat /\ min_match >= MinMatch
      /\ min_match <= Larger(MinMatch, AvailIn) /\ Len(used) \in Nat /\ free \in Nat
  BY StateNumbers, MatcherNumbers DEF BufferInv
<1>2. Copies \subseteq Types /\ "RUN" \in Types
  BY DEF Types, Copies
<1>3. ASSUME pc = "SEARCH", UNCHANGED <<bufVars, outVars, flushVars>>,
             NEW type \in Types, NEW n \in Nat, Found(type, 0, n)
      PROVE  BufferInv'
  <2>1. used' \in Seq(Insts) /\ Len(used') = Len(used) /\ \A i \in 1 .. Len(used') : used'[i] = used[i]
    BY <1>3, SameBuffer
  <2>2. free' \in Nat /\ UNCHANGED <<sizeVars, outVars, flushVars>>
    BY <1>1, <1>3 DEF bufVars
  <2>3. used' # <<>> => used'[Len(used')].pos < input_position - 0
    <3>1. used' = used
      BY <1>3 DEF bufVars
    <3>2. QED
      BY <1>1, <1>3, <3>1 DEF BufferInv, MatcherAhead
  <2>4. 0 \in Nat /\ 0 <= input_position /\ Len(used') <= Len(used)
    BY <1>1, <2>1
  <2>5. QED
    BY <1>3, <2>1, <2>2, <2>3, <2>4, FoundKeeps
<1>4. CASE FindRun
  BY <1>1, <1>2, <1>3, <1>4 DEF FindRun
<1>5. CASE FindTarget
  BY <1>1, <1>2, <1>3, <1>5 DEF FindTarget
<1>6. CASE FindSource
  <2>1. PICK back \in 0 .. profile.max_back, n \in MinMatch .. AvailIn, type \in Copies :
          /\ back <= input_position - (IF Greedy THEN LastMatched ELSE unencoded_offset)
          /\ Found(type, back, n)
          /\ IF back > 0
               THEN /\ used' = Kept(input_position - back)
                    /\ free' = free + Len(used) - Len(used')
               ELSE UNCHANGED <<used, free>>
    BY <1>6 DEF FindSource
  <2>2. pc = "SEARCH" /\ UNCHANGED <<sizeVars, outVars, flushVars>> /\ TypeOK /\ profile \in Profiles
    BY <1>6 DEF FindSource, BufferInv, TypeOK
  <2>3. back \in Nat /\ n \in Nat /\ type \in Types
    BY <1>1, <1>2, <2>1, <2>2, ProfileNumbers
  <2>4. back <= input_position
    <3>1. LastMatched \in Nat /\ unencoded_offset \in Nat
      BY <1>1, LastMatchedEnd, StateNumbers DEF BufferInv
    <3>2. QED
      BY <1>1, <2>1, <2>3, <3>1
  <2>5. CASE back = 0
    <3>1. UNCHANGED <<bufVars, outVars, flushVars>>
      BY <2>1, <2>2, <2>5 DEF bufVars
    <3>2. QED
      BY <1>3, <2>1, <2>2, <2>3, <2>5, <3>1
  <2>6. CASE back # 0
    <3>1. used' = Kept(input_position - back) /\ free' = free + Len(used) - Len(used')
      BY <2>1, <2>3, <2>6
    <3>2. input_position - back \in Nat
      BY <1>1, <2>3, <2>4
    <3>3. /\ used' \in Seq(Insts) /\ Len(used') <= Len(used)
          /\ \A i \in 1 .. Len(used') : used'[i] = used[i]
          /\ used' # <<>> => used'[Len(used')].pos < input_position - back
      BY <2>2, <3>1, <3>2, KeptBefore
    <3>4. free' \in Nat
      <4>1. Len(used') \in Nat
        BY <3>3
      <4>2. QED
        BY <1>1, <3>1, <3>3, <4>1
    <3>5. QED
      BY <2>1, <2>2, <2>3, <2>4, <3>3, <3>4, FoundKeeps
  <2>7. QED
    BY <2>5, <2>6
<1>7. CASE ContinueMatch
  <2>1. PICK n \in MinMatch .. AvailIn, type \in Copies :
          new' = [inst |-> [type |-> type, pos |-> 0, size |-> n, addr |-> 0], mlen |-> n, lazy |-> FALSE]
    BY <1>7 DEF ContinueMatch
  <2>2. /\ pc = "START" /\ pc' = "SLOT" /\ input_position' = input_position /\ min_match' = min_match
        /\ UNCHANGED <<bufVars, outVars, flushVars>>
    BY <1>7 DEF ContinueMatch
  <2>3. used = <<>> /\ input_position = 0 /\ used' = used
    BY <2>2 DEF BufferInv, AtStart, bufVars
  <2>4. used' \in Seq(Insts) /\ InOrder' /\ Shortened' /\ AvailIn' = AvailIn
    BY <2>2, SameBuffer
  <2> DEFINE inst == [type |-> type, pos |-> 0, size |-> n, addr |-> 0]
  <2>5. inst \in Insts /\ n \in Nat /\ n >= MinMatch /\ n <= AvailIn
    BY <1>1, <1>2 DEF Insts, Instructions
  <2>6. new' \in News /\ new'.inst = inst /\ new'.mlen = n /\ new'.lazy = FALSE
    BY <2>1, <2>5 DEF News
  <2>7. new' # None
    BY <2>6, NewIsNotNone
  <2>8. TypeOK'
    BY <1>1, <2>2, <2>4, <2>6, <2>7 DEF BufferInv, TypeOK, bufVars, sizeVars, outVars, flushVars, News, Insts, Instructions, Adds
  <2>9. NewSound'
    <3>1. inst.pos = 0 /\ End(inst) = n /\ inst.addr = inst.pos
      BY <2>5 DEF End
    <3> HIDE DEF inst
    <3>2. QED
      BY <1>1, <2>2, <2>3, <2>4, <2>5, <2>6, <3>1 DEF NewSound
  <2>10. MatcherAhead' /\ Compacted' /\ AtStart'
    BY <2>2 DEF MatcherAhead, Compacted, AtStart
  <2>11. QED
    BY <2>4, <2>8, <2>9, <2>10 DEF BufferInv
<1>8. ASSUME pc \in {"START", "SEARCH"}, Restart(input_position, LastMatched), UNCHANGED <<new, bufVars, outVars>>
      PROVE  BufferInv'
  <2>1. new' = None
    BY <1>8 DEF BufferInv, TypeOK
  <2>2. LastMatched \in 0 .. AvailIn
        /\ (used # <<>> => LastMatched = End(used[Len(used)]) /\ Len(used) \in 1 .. Len(used))
    BY LastMatchedEnd
  <2>3. used # <<>> => used[Len(used)].pos < input_position
    BY <1>8 DEF BufferInv, MatcherAhead, AtStart
  <2>4. LastMatched > input_position => input_position > 0
    <3>1. CASE used = <<>>
      BY <1>1, <3>1 DEF LastMatched
    <3>2. CASE used # <<>>
      BY <1>1, <2>2, <2>3, <3>2, UsedNumbers DEF BufferInv
    <3>3. QED
      BY <3>1, <3>2
  <2>5. used' = used
    BY <1>8 DEF bufVars
  <2>6. /\ used' \in Seq(Insts) /\ InOrder' /\ Shortened' /\ free' \in Nat /\ slots' \in Nat
        /\ profile' = profile
    BY <1>8, SameBuffer
  <2>7. QED
    BY <1>1, <1>8, <2>1, <2>2, <2>3, <2>4, <2>5, <2>6, RestartKeeps
<1>9. CASE StartSearch
  <2>1. input_position = 0
    BY <1>9 DEF StartSearch, BufferInv, AtStart
  <2>2. QED
    BY <1>8, <1>9, <2>1 DEF StartSearch
<1>10. CASE GetSourceBlock
  BY <1>8, <1>10 DEF GetSourceBlock
<1>11. CASE NoMatch
  <2>1. /\ pc = "SEARCH" /\ UpdateOne /\ UNCHANGED <<new, bufVars, outVars>>
        /\ min_match' = IF min_match > MinMatch THEN min_match - 1 ELSE min_match
    BY <1>11 DEF NoMatch
  <2>2. /\ used' \in Seq(Insts) /\ InOrder' /\ Shortened' /\ free' \in Nat /\ slots' \in Nat
        /\ profile' = profile /\ AvailIn' = AvailIn
    BY <2>1, SameBuffer
  <2>3. new' = None /\ UNCHANGED outVars /\ used' = used
    BY <2>1 DEF BufferInv, TypeOK, bufVars
  <2>4. min_match' \in MinMatch .. Larger(MinMatch, AvailIn)
    BY <1>1, <2>1 DEF Larger
  <2>5. input_position + SLook <= AvailIn
    BY <2>1 DEF BufferInv, MatcherAhead
  <2>6. CASE input_position + SLook = AvailIn
    <3>1. LoopNoMore /\ input_position' = input_position
      BY <2>1, <2>6 DEF UpdateOne
    <3>2. QED
      BY <1>1, <2>2, <2>3, <2>4, <3>1, ResumeKeeps
  <2>7. CASE input_position + SLook # AvailIn
    <3>1. pc' = "SEARCH" /\ input_position' = input_position + 1 /\ UNCHANGED flushVars
      BY <2>1, <2>7 DEF UpdateOne
    <3>2. input_position' \in 0 .. AvailIn /\ input_position' + SLook <= AvailIn
      BY <1>1, <2>5, <2>7, <3>1
    <3>3. used # <<>> => /\ used[Len(used)].pos < input_position'
                        /\ End(used[Len(used)]) < input_position' + min_match'
      <4>1. ASSUME used # <<>>
            PROVE /\ used[Len(used)].pos < input_position
                  /\ End(used[Len(used)]) < input_position + min_match
                  /\ used[Len(used)].pos \in Nat /\ End(used[Len(used)]) \in Nat
        BY <2>1, <4>1, LastMatchedEnd, UsedNumbers DEF BufferInv, MatcherAhead
      <4>2. QED
        BY <1>1, <2>1, <3>1, <4>1
    <3>4. MatcherAhead'
      BY <2>2, <2>3, <3>1, <3>2, <3>3 DEF MatcherAhead, End
    <3>5. QED
      BY <2>2, <2>3, <2>4, <3>1, <3>2, <3>4, ResumeKeeps
  <2>8. QED
    BY <2>6, <2>7
<1>12. QED
  BY <1>4, <1>5, <1>6, <1>7, <1>9, <1>10, <1>11 DEF Match

\* Each step that enters the match, or starts the flush that makes room for it.
LEMMA SlotKeeps == BufferInv /\ Slot => BufferInv'
<1> SUFFICES ASSUME BufferInv, Slot PROVE BufferInv'
  OBVIOUS
<1>1. free \in Nat /\ slots \in Nat /\ Elts \in Nat /\ Elts > 0
  BY StateNumbers, MatcherNumbers DEF BufferInv
<1>2. CASE GetSlot
  BY <1>1, <1>2, PlaceKeeps DEF GetSlot, sizeVars
<1>3. CASE GrowSlots
  BY <1>1, <1>3, PlaceKeeps DEF GrowSlots, sizeVars
<1>4. CASE PlaceAfterFlush
  BY <1>1, <1>4, PlaceKeeps DEF PlaceAfterFlush, sizeVars
<1>5. CASE StartFlush
  <2>1. /\ pc' = "COMPACT" /\ r1' = 1 /\ force' = FALSE /\ flushed' = 0
        /\ UNCHANGED <<input_position, min_match, new, used, free, profile, slots, iout, unencoded_offset>>
    BY <1>5 DEF StartFlush, matchVars, bufVars, sizeVars, outVars
  <2>2. new # None /\ AvailIn' = AvailIn
    BY <1>5, <2>1 DEF StartFlush, BufferInv, TypeOK, AvailIn
  <2>3. TypeOK'
    <3>1. /\ iout' \in ({None} \cup Instructions(Types) \cup Adds)'
          /\ used' \in Seq(Instructions(Types))'
          /\ new' \in [inst : Instructions(Types)', mlen : Nat, lazy : BOOLEAN]
      BY <2>1, <2>2 DEF BufferInv, TypeOK, Instructions, Adds
    <3>2. new' # None /\ ~force' /\ pc' = "COMPACT" /\ r1' \in Nat \ {0} /\ flushed' \in Nat
      BY <2>1, <2>2
    <3>3. force' \in BOOLEAN
      BY <2>1
    <3>4. /\ input_position' \in 0 .. AvailIn' /\ min_match' \in MinMatch .. Larger(MinMatch, AvailIn')
          /\ profile' \in Profiles /\ free' \in Nat /\ slots' \in Nat /\ unencoded_offset' \in Nat
      BY <2>1, <2>2 DEF BufferInv, TypeOK
    <3>5. QED
      BY <3>1, <3>2, <3>3, <3>4 DEF TypeOK
  <2>4. InOrder' /\ Shortened' /\ NewSound'
    BY <2>1, <2>2 DEF BufferInv, InOrder, Shortened, NewSound, End
  <2>5. MatcherAhead' /\ AtStart'
    BY <2>1 DEF MatcherAhead, AtStart
  <2>6. Compacted'
    <3>1. ASSUME NEW i \in 1 .. Len(used) - 1
          PROVE  ~(i < 1) /\ pc' # "ENCODE"
      BY <2>1, StateNumbers DEF BufferInv
    <3>2. QED
      BY <2>1, <3>1 DEF Compacted
  <2>7. QED
    BY <2>3, <2>4, <2>5, <2>6 DEF BufferInv
<1>6. QED
  BY <1>2, <1>3, <1>4, <1>5 DEF Slot

-----------------------------------------------------------------------------
(* The compaction.                                                         *)

\* What a turn of the compaction has to keep.
LEMMA CompactingKeeps ==
  ASSUME BufferInv, Compacting, pc' = "COMPACT",
         used' \in Seq(Insts), free' \in Nat, r1' \in Nat \ {0},
         InOrder', Shortened',
         \A i \in 1 .. Len(used') - 1 : i < r1' => Disjoint(i)',
         used' # <<>> /\ new # None =>
           /\ used # <<>>
           /\ used'[Len(used')].pos <= used[Len(used)].pos
           /\ End(used'[Len(used')]) <= End(used[Len(used)])
  PROVE  BufferInv'
<1>1. /\ pc = "COMPACT"
      /\ UNCHANGED <<input_position, min_match, new, iout, unencoded_offset, profile, slots, force, flushed>>
  BY DEF Compacting, matchVars, outVars, sizeVars
<1>2. AvailIn' = AvailIn /\ Insts' = Insts
  BY <1>1 DEF AvailIn, Insts, Instructions
<1>3. TypeOK'
  <2>1. iout' \in ({None} \cup Instructions(Types) \cup Adds)' /\ used' \in Seq(Instructions(Types))'
    BY <1>1, <1>2 DEF BufferInv, TypeOK, Instructions, Adds, Insts
  <2>2. new' = None <=> (pc' \notin {"SLOT", "PLACE"} /\ (pc' \in {"COMPACT", "ENCODE"} => force'))
    BY <1>1 DEF BufferInv, TypeOK
  <2>3. new' # None => new' \in [inst : Instructions(Types)', mlen : Nat, lazy : BOOLEAN]
    BY <1>1, <1>2 DEF BufferInv, TypeOK, Instructions
  <2>4. force' \in BOOLEAN
    BY <1>1 DEF BufferInv, TypeOK
  <2>5. /\ input_position' \in 0 .. AvailIn' /\ min_match' \in MinMatch .. Larger(MinMatch, AvailIn')
        /\ profile' \in Profiles /\ slots' \in Nat /\ unencoded_offset' \in Nat /\ flushed' \in Nat
    BY <1>1, <1>2 DEF BufferInv, TypeOK
  <2>6. pc' \in {"START", "SEARCH", "SLOT", "PLACE", "COMPACT", "ENCODE", "DONE"}
        /\ free' \in Nat /\ r1' \in Nat \ {0}
    OBVIOUS
  <2>7. QED
    BY <2>1, <2>2, <2>3, <2>4, <2>5, <2>6 DEF TypeOK
<1>4. NewSound'
  <2>1. CASE new = None
    BY <1>1, <2>1 DEF NewSound
  <2>2. CASE new # None
    <3>1. new.inst.pos \in Nat /\ End(new.inst) \in Nat
      BY <2>2, NewFields DEF BufferInv
    <3>2. ASSUME used' # <<>>
          PROVE  used'[Len(used')].pos < new.inst.pos /\ End(used'[Len(used')]) < End(new.inst)
      <4>1. used # <<>> /\ Len(used) \in 1 .. Len(used)
        BY <2>2, <3>2, LastMatchedEnd
      <4>2. /\ used[Len(used)].pos \in Int /\ End(used[Len(used)]) \in Int
            /\ used[Len(used)].pos < new.inst.pos /\ End(used[Len(used)]) < End(new.inst)
        BY <2>2, <4>1, UsedNumbers DEF BufferInv, NewSound
      <4>3. Len(used') \in 1 .. Len(used') /\ used'[Len(used')] \in Insts
        BY <3>2
      <4>4. used'[Len(used')].pos \in Int /\ End(used'[Len(used')]) \in Int
        BY <1>1, <4>3, InstFields DEF BufferInv, TypeOK
      <4>5. QED
        BY <2>2, <3>1, <3>2, <4>1, <4>2, <4>4
    <3>3. new' # None /\ NewSound
      BY <1>1, <2>2 DEF BufferInv
    <3>4. QED
      BY <1>1, <1>2, <3>2, <3>3 DEF NewSound, End
  <2>3. QED
    BY <2>1, <2>2
<1>5. MatcherAhead' /\ AtStart' /\ Compacted'
  BY <1>1 DEF MatcherAhead, AtStart, Compacted
<1>6. QED
  BY <1>3, <1>4, <1>5 DEF BufferInv

\* Removing one instruction, when it is not the last one or nothing is to come.
LEMMA WithoutKeeps ==
  ASSUME BufferInv, Compacting, pc' = "COMPACT", NEW k \in 1 .. Len(used), k = Len(used) => new = None,
         used' = Without(k), free' = free + 1, r1' \in Nat \ {0},
         \A i \in 1 .. Len(used) - 2 : i < r1' =>
           /\ i + 1 < k => Disjoint(i)
           /\ i + 1 = k => End(used[i]) <= used[i + 2].pos
           /\ i + 1 > k => Disjoint(i + 1)
  PROVE  BufferInv'
<1>1. used \in Seq(Insts) /\ Len(used) \in Nat /\ free \in Nat
  BY UsedElements, StateNumbers DEF BufferInv
<1>2. /\ used' \in Seq(Insts) /\ Len(used') = Len(used) - 1
      /\ \A i \in 1 .. Len(used) - 1 : used'[i] = IF i < k THEN used[i] ELSE used[i + 1]
  BY <1>1, RemoveAtProperties DEF Without
<1>3. AvailIn' = AvailIn
  BY DEF Compacting, sizeVars, AvailIn
<1>4. \A i \in 1 .. Len(used) - 1 : \E j \in {i, i + 1} : j \in 1 .. Len(used) /\ used'[i] = used[j]
  BY <1>1, <1>2, SMTT(60)
<1>5. InOrder'
  <2>1. ASSUME NEW i \in 1 .. Len(used') - 1
        PROVE  used'[i].pos < used'[i + 1].pos /\ End(used'[i]) < End(used'[i + 1])
    <3>1. \E a, b \in 1 .. Len(used) : a < b /\ used'[i] = used[a] /\ used'[i + 1] = used[b]
      <4>1. CASE i + 1 < k
        <5>1. i \in 1 .. Len(used) - 1 /\ i + 1 \in 1 .. Len(used) - 1 /\ i < k /\ i < i + 1
          BY <1>1, <1>2, <4>1
        <5>2. used'[i] = used[i] /\ used'[i + 1] = used[i + 1]
          BY <1>2, <4>1, <5>1
        <5>3. i \in 1 .. Len(used) /\ i + 1 \in 1 .. Len(used)
          BY <1>1, <5>1
        <5>4. QED
          BY <5>1, <5>2, <5>3
      <4>2. CASE i + 1 = k
        BY <1>1, <1>2, <4>2
      <4>3. CASE i + 1 > k
        <5>1. /\ i \in 1 .. Len(used) - 1 /\ i + 1 \in 1 .. Len(used) - 1
              /\ ~(i < k) /\ ~(i + 1 < k) /\ (i + 1) + 1 = i + 2
          BY <1>1, <1>2, <4>3
        <5>2. used'[i] = used[i + 1] /\ used'[i + 1] = used[i + 2]
          BY <1>2, <5>1
        <5>3. i + 1 \in 1 .. Len(used) /\ i + 2 \in 1 .. Len(used) /\ i + 1 < i + 2
          BY <1>1, <1>2
        <5>4. QED
          BY <5>2, <5>3
      <4>4. QED
        BY <1>1, <1>2, <4>1, <4>2, <4>3
    <3>2. QED
      BY <3>1, OrderedApart DEF BufferInv
  <2>2. ASSUME NEW i \in 1 .. Len(used')
        PROVE  End(used'[i]) <= AvailIn'
    BY <1>2, <1>3, <1>4 DEF BufferInv, InOrder
  <2>3. QED
    BY <2>1, <2>2 DEF InOrder, End
<1>6. Shortened'
  <2>1. ASSUME NEW i \in 1 .. Len(used')
        PROVE  /\ used'[i].size >= MinMatch
               /\ used'[i].type \in Copies => used'[i].addr = used'[i].pos
    BY <1>2, <1>4 DEF BufferInv, Shortened
  <2>2. QED
    BY <2>1 DEF Shortened
<1>7. ASSUME NEW i \in 1 .. Len(used') - 1, i < r1'
      PROVE  End(used'[i]) <= used'[i + 1].pos
  <2>1. i \in 1 .. Len(used) - 2 /\ i \in 1 .. Len(used) - 1 /\ i + 1 \in 1 .. Len(used) - 1
    BY <1>1, <1>2
  <2>2. CASE i + 1 < k
    BY <1>1, <1>2, <1>7, <2>1, <2>2 DEF Disjoint
  <2>3. CASE i + 1 = k
    <3>1. used'[i] = used[i] /\ used'[i + 1] = used[i + 2]
      <4>1. i < k /\ ~(i + 1 < k) /\ (i + 1) + 1 = i + 2
        BY <1>1, <2>1, <2>3
      <4>2. QED
        BY <1>2, <2>1, <4>1
    <3>2. QED
      BY <1>7, <2>1, <2>3, <3>1
  <2>4. CASE i + 1 > k
    <3>1. used'[i] = used[i + 1] /\ used'[i + 1] = used[i + 2] /\ (i + 1) + 1 = i + 2
      <4>1. ~(i < k) /\ ~(i + 1 < k) /\ (i + 1) + 1 = i + 2
        BY <1>1, <2>1, <2>4
      <4>2. QED
        BY <1>2, <2>1, <4>1
    <3>2. QED
      BY <1>7, <2>1, <2>4, <3>1 DEF Disjoint
  <2>5. QED
    BY <2>1, <2>2, <2>3, <2>4
<1>8. ASSUME new # None, used' # <<>>
      PROVE  used # <<>> /\ used'[Len(used')] = used[Len(used)]
             /\ used[Len(used)].pos \in Int /\ End(used[Len(used)]) \in Int
  <2>1. k < Len(used) /\ Len(used) \in 1 .. Len(used) /\ Len(used') \in 1 .. Len(used')
    BY <1>1, <1>2, <1>8
  <2>2. used'[Len(used) - 1] = used[Len(used)]
    BY <1>1, <1>2, <2>1
  <2>3. QED
    BY <1>1, <1>2, <2>1, <2>2, UsedNumbers DEF BufferInv
<1>9. \A i \in 1 .. Len(used') - 1 : i < r1' => Disjoint(i)'
  BY <1>7 DEF Disjoint, End
<1>10. QED
  BY <1>1, <1>2, <1>5, <1>6, <1>8, <1>9, CompactingKeeps


\* Half of a gap, rounded up, and what remains.
LEMMA HalfGap ==
  ASSUME NEW gap \in Nat, NEW m \in Nat, gap >= 2 * m
  PROVE  gap - gap \div 2 \in Nat /\ gap - gap \div 2 >= m
         /\ gap - gap \div 2 <= gap /\ gap - (gap - gap \div 2) >= m
  OBVIOUS

\* Two instructions of asz and bsz bytes that overlap by lap bytes are cut so that the
\* first keeps n bytes, or all but the overlap.
LEMMA Balance ==
  ASSUME NEW asz \in Nat, NEW bsz \in Nat, NEW lap \in Nat, NEW m \in Nat, NEW n \in Nat,
         NEW cut \in Int, n <= asz, n <= bsz, m <= n, lap < bsz,
         asz + bsz - lap - n >= m,
         cut = IF lap < asz - n THEN lap ELSE asz - n
  PROVE  cut \in Nat /\ lap - cut \in Nat /\ asz - cut >= m /\ bsz - (lap - cut) >= m
  OBVIOUS

\* Of two instructions that overlap, but not mostly, what is left of each is an
\* instruction, and together they lose the overlap.
LEMMA ShortenSplits ==
  ASSUME NEW a, NEW b, a.pos \in Nat, a.size \in Nat, b.pos \in Nat, b.size \in Nat,
         a.size >= MinMatch, b.size >= MinMatch, a.pos < b.pos,
         End(a) > b.pos, End(a) < End(b), End(b) - a.pos >= 2 * MinMatch
  PROVE  LET cut == Shorten(a, b)
         IN  /\ cut[1] \in Nat /\ cut[2] \in Nat /\ cut[1] + cut[2] = End(a) - b.pos
             /\ a.size - cut[1] >= MinMatch /\ b.size - cut[2] >= MinMatch
<1> DEFINE gap == End(b) - a.pos
           half == gap - gap \div 2
           n == Smaller(MaxSplit, half)
           lap == End(a) - b.pos
           cut == IF b.pos > End(a) - (a.size - n) THEN (a.size - n) - (b.pos - (End(a) - (a.size - n)))
                  ELSE a.size - n
<1>1. /\ MinMatch \in Nat /\ MaxSplit \in Nat /\ MinMatch <= MaxSplit /\ MinMatch > 0
      /\ End(a) \in Nat /\ End(b) \in Nat /\ End(a) = a.pos + a.size /\ End(b) = b.pos + b.size
  BY MatcherNumbers DEF End
<1>2. gap \in Nat /\ gap >= 2 * MinMatch /\ lap \in Nat /\ lap > 0 /\ lap < b.size
      /\ gap = a.size + b.size - lap
  BY <1>1
<1>3. half \in Nat /\ half >= MinMatch /\ gap - half >= MinMatch
  <2> HIDE DEF gap
  <2>1. QED
    BY <1>1, <1>2, HalfGap
<1>4. Shorten(a, b) = IF n > a.size THEN <<0, lap>>
                      ELSE IF n > b.size THEN <<lap, 0>> ELSE <<cut, lap - cut>>
  BY DEF Shorten, Overlapped
<1> HIDE DEF half
<1>5. n \in Nat /\ n <= half /\ n >= MinMatch
  BY <1>1, <1>3 DEF Smaller
<1> HIDE DEF n
<1>6. cut \in Int /\ cut = IF lap < a.size - n THEN lap ELSE a.size - n
  BY <1>1, <1>5
<1> HIDE DEF gap, lap, cut
<1>7. CASE n > a.size
  <2>1. Shorten(a, b) = <<0, lap>>
    BY <1>4, <1>7
  <2>2. b.size - lap >= MinMatch
    BY <1>1, <1>2, <1>3, <1>5, <1>7
  <2>3. a.size - 0 >= MinMatch /\ 0 + lap = lap
    BY <1>1, <1>2
  <2>4. QED
    BY <1>2, <2>1, <2>2, <2>3 DEF lap
<1>8. CASE ~(n > a.size) /\ n > b.size
  <2>1. Shorten(a, b) = <<lap, 0>>
    BY <1>4, <1>8
  <2>2. a.size - lap >= MinMatch
    BY <1>1, <1>2, <1>3, <1>5, <1>8
  <2>3. b.size - 0 >= MinMatch /\ lap + 0 = lap
    BY <1>1, <1>2
  <2>4. QED
    BY <1>2, <2>1, <2>2, <2>3 DEF lap
<1>9. CASE ~(n > a.size) /\ ~(n > b.size)
  <2>1. Shorten(a, b) = <<cut, lap - cut>>
    BY <1>4, <1>9
  <2>2. n <= a.size /\ n <= b.size
    BY <1>5, <1>9
  <2>3. a.size + b.size - lap - n >= MinMatch
    BY <1>1, <1>2, <1>3, <1>5
  <2>4. cut \in Nat /\ lap - cut \in Nat /\ a.size - cut >= MinMatch /\ b.size - (lap - cut) >= MinMatch
    BY <1>1, <1>2, <1>5, <1>6, <2>2, <2>3, Balance
  <2>5. cut + (lap - cut) = lap
    BY <1>2, <2>4
  <2>6. QED
    BY <2>1, <2>4, <2>5 DEF lap
<1>10. QED
  BY <1>7, <1>8, <1>9

\* The numbers of an overlap of lap bytes, of which the first instruction loses c1
\* and the second c2.
CutNumbers(apos, asz, bpos, bsz, aend, bend, c1, c2) ==
  /\ {apos, asz, bpos, bsz, aend, bend, c1, c2} \subseteq Nat
  /\ aend = apos + asz /\ bend = bpos + bsz /\ aend < bend /\ bend <= AvailIn
  /\ c1 + c2 = aend - bpos /\ asz - c1 >= MinMatch /\ bsz - c2 >= MinMatch

LEMMA CutEnds ==
  ASSUME NEW apos, NEW asz, NEW bpos, NEW bsz, NEW aend, NEW bend, NEW c1, NEW c2,
         CutNumbers(apos, asz, bpos, bsz, aend, bend, c1, c2),
         AvailIn \in Nat, MinMatch \in Nat \ {0}
  PROVE  /\ bpos + c2 = aend - c1 /\ apos + (asz - c1) = aend - c1
         /\ (bpos + c2) + (bsz - c2) = bend
         /\ asz - c1 \in Nat /\ bsz - c2 \in Nat /\ aend - c1 \in Nat
         /\ apos < aend - c1 /\ aend - c1 <= aend /\ aend - c1 < bend
         /\ bpos + c2 \in 0 .. AvailIn /\ aend - c1 <= AvailIn
  BY DEF CutNumbers

\* An overlap that is shortened.
LEMMA ShortenKeeps == BufferInv /\ ShortenOne => BufferInv'
<1> SUFFICES ASSUME BufferInv, ShortenOne PROVE BufferInv'
  OBVIOUS
<1> DEFINE a == used[r1]  b == used[r1 + 1]  cut == Shorten(a, b)  c1 == cut[1]  c2 == cut[2]
<1>0. MinMatch \in Nat \ {0} /\ AvailIn \in Nat
  BY StateNumbers DEF BufferInv
<1>1. used \in Seq(Insts) /\ Len(used) \in Nat /\ free \in Nat /\ r1 \in Nat \ {0}
  BY UsedElements, StateNumbers DEF BufferInv, TypeOK
<1>2. /\ Compacting /\ r1 < Len(used) /\ End(a) > b.pos /\ Judged /\ ~MostlyOverlap
      /\ pc = "COMPACT" /\ pc' = "COMPACT" /\ free' = free /\ r1' = r1 + 1
  BY DEF ShortenOne, Compacting, Judged, Overlap, Pair, At
<1>3. used' = [used EXCEPT ![r1].size = @ - c1, ![r1 + 1].size = @ - c2,
                           ![r1 + 1].pos = @ + c2, ![r1 + 1].addr = @ + c2]
  BY DEF ShortenOne, At
<1>4. r1 \in 1 .. Len(used) /\ r1 + 1 \in 1 .. Len(used) /\ a \in Insts /\ b \in Insts
  BY <1>1, <1>2
<1>5. /\ a.pos \in Nat /\ a.size \in Nat /\ b.pos \in Nat /\ b.size \in Nat /\ b.addr \in Nat
      /\ End(a) = a.pos + a.size /\ End(b) = b.pos + b.size /\ a.pos <= AvailIn
  BY <1>0, <1>4, UsedNumbers DEF BufferInv
<1>6. a.pos < b.pos /\ End(a) < End(b) /\ End(b) <= AvailIn /\ a.size >= MinMatch /\ b.size >= MinMatch
      /\ (b.type \in Copies => b.addr = b.pos) /\ (a.type \in Copies => a.addr = a.pos)
  BY <1>1, <1>2, <1>4 DEF BufferInv, InOrder, Shortened
<1>7. End(b) - a.pos >= 2 * MinMatch
  <2>1. ~(End(b) - a.pos < 2 * MinMatch)
    BY <1>2 DEF MostlyOverlap, Gap, At
  <2>2. QED
    BY <1>0, <1>5, <2>1
<1>8. /\ c1 \in Nat /\ c2 \in Nat /\ c1 + c2 = End(a) - b.pos
      /\ a.size - c1 >= MinMatch /\ b.size - c2 >= MinMatch
  BY <1>2, <1>5, <1>6, <1>7, ShortenSplits
<1> HIDE DEF cut, c1, c2
<1> DEFINE a2 == [a EXCEPT !.size = a.size - c1]
           b2 == [b EXCEPT !.size = b.size - c2, !.pos = b.pos + c2, !.addr = b.addr + c2]
<1>9. used' = [used EXCEPT ![r1] = a2, ![r1 + 1] = b2]
  <2>1. r1 # r1 + 1
    BY <1>1
  <2>2. QED
    BY <1>1, <1>3, <1>4, <2>1 DEF Insts, Instructions
<1>10. /\ a2.pos = a.pos /\ a2.size = a.size - c1 /\ a2.type = a.type /\ a2.addr = a.addr
       /\ b2.pos = b.pos + c2 /\ b2.size = b.size - c2 /\ b2.type = b.type /\ b2.addr = b.addr + c2
  BY <1>4 DEF Insts, Instructions
<1>11. a2 \in Insts /\ b2 \in Insts
  <2>1. b.pos + c2 \in 0 .. AvailIn /\ b.addr + c2 \in Nat /\ b.size - c2 \in Nat /\ a.size - c1 \in Nat
    <3> HIDE DEF a, b
    <3>1. CutNumbers(a.pos, a.size, b.pos, b.size, End(a), End(b), c1, c2)
      BY <1>5, <1>6, <1>8 DEF CutNumbers
    <3>2. b.pos + c2 \in 0 .. AvailIn /\ b.size - c2 \in Nat /\ a.size - c1 \in Nat
      BY <1>0, <3>1, CutEnds
    <3>3. b.addr + c2 \in Nat
      BY <1>5, <1>8
    <3>4. QED
      BY <3>2, <3>3
  <2>2. QED
    BY <1>4, <2>1 DEF Insts, Instructions
<1>12. /\ End(a2) = End(a) - c1 /\ End(b2) = End(b) /\ b2.pos = End(a2)
       /\ a.pos < End(a2) /\ b2.pos <= End(a) /\ End(a2) < End(b) /\ End(a2) <= AvailIn
       /\ End(a2) \in Nat /\ b2.pos \in Nat
  <2>1. End(a2) = a2.pos + a2.size /\ End(b2) = b2.pos + b2.size
    BY DEF End
  <2> HIDE DEF a2, b2, a, b
  <2>2. End(a2) = a.pos + (a.size - c1) /\ End(b2) = (b.pos + c2) + (b.size - c2)
    BY <1>10, <2>1
  <2>3. CutNumbers(a.pos, a.size, b.pos, b.size, End(a), End(b), c1, c2)
    BY <1>5, <1>6, <1>8 DEF CutNumbers
  <2>4. QED
    BY <1>0, <1>10, <2>2, <2>3, CutEnds
<1> HIDE DEF a2, b2
<1>13. /\ used' \in Seq(Insts) /\ Len(used') = Len(used)
       /\ used'[r1] = a2 /\ used'[r1 + 1] = b2
       /\ \A i \in 1 .. Len(used) : i # r1 /\ i # r1 + 1 => used'[i] = used[i]
  <2>1. r1 # r1 + 1
    BY <1>1
  <2>2. QED
    BY <1>1, <1>4, <1>9, <1>11, <2>1
<1> HIDE DEF a, b
<1>14. AvailIn' = AvailIn
  BY <1>2 DEF Compacting, sizeVars, AvailIn
<1>15. \A i \in 1 .. Len(used) : used[i].pos \in Nat /\ End(used[i]) \in Nat
  BY UsedNumbers DEF BufferInv
<1>16. ASSUME NEW i \in 1 .. Len(used'), i + 1 = r1
       PROVE  used'[i] = used[i] /\ End(used[i]) <= a.pos /\ used[i].pos < a.pos
  <2>1. i \in 1 .. Len(used) - 1 /\ i < r1 /\ i # r1 /\ i # r1 + 1 /\ i \in 1 .. Len(used)
    BY <1>1, <1>4, <1>13, <1>16
  <2>2. Disjoint(i) /\ used[i].pos < used[i + 1].pos
    BY <1>2, <2>1 DEF BufferInv, Compacted, InOrder
  <2>3. QED
    BY <1>13, <1>16, <2>1, <2>2 DEF Disjoint, a
<1>17. ASSUME NEW i \in 1 .. Len(used'), i = r1 + 2
       PROVE  used'[i] = used[i] /\ End(a) < used[i].pos /\ End(b) < End(used[i])
  <2>1. i \in 1 .. Len(used) /\ i # r1 /\ i # r1 + 1 /\ r1 + 1 \in 1 .. Len(used) - 1 /\ r1 + 1 < Len(used)
        /\ (r1 + 1) + 1 = i
    BY <1>1, <1>4, <1>13, <1>17
  <2>2. ~(At(r1 + 2).pos <= End(At(r1)) + 1)
    BY <1>2, <2>1 DEF Judged, Irrelevant, Third
  <2>3. ~(used[i].pos <= End(a) + 1)
    BY <1>17, <2>2 DEF At, a
  <2>4. End(used[r1 + 1]) < End(used[i])
    BY <2>1 DEF BufferInv, InOrder
  <2>5. End(a) < used[i].pos
    BY <1>5, <1>15, <2>1, <2>3, SMTT(60)
  <2>6. QED
    BY <1>13, <2>1, <2>4, <2>5 DEF b
<1>18. ASSUME NEW i \in 1 .. Len(used') - 1
       PROVE  /\ used'[i].pos < used'[i + 1].pos /\ End(used'[i]) < End(used'[i + 1])
              /\ i < r1' => End(used'[i]) <= used'[i + 1].pos
  <2>0. i \in 1 .. Len(used') /\ i + 1 \in 1 .. Len(used') /\ i \in 1 .. Len(used) - 1
        /\ i \in 1 .. Len(used) /\ i + 1 \in 1 .. Len(used)
    BY <1>1, <1>13
  <2>1. CASE i + 1 = r1
    <3>1. used'[i] = used[i] /\ End(used[i]) <= a.pos /\ used[i].pos < a.pos /\ used'[i + 1] = a2
      BY <1>13, <1>16, <2>0, <2>1
    <3>2. QED
      BY <1>5, <1>10, <1>12, <1>15, <2>0, <3>1
  <2>2. CASE i = r1
    <3>1. used'[i] = a2 /\ used'[i + 1] = b2
      BY <1>13, <2>2
    <3>2. End(a2) < End(b2)
      BY <1>12
    <3>3. a2.pos < b2.pos /\ End(a2) <= b2.pos
      BY <1>5, <1>10, <1>12
    <3>4. QED
      BY <3>1, <3>2, <3>3
  <2>3. CASE i = r1 + 1
    <3>1. i + 1 = r1 + 2
      BY <1>1, <2>3
    <3>2. used'[i + 1] = used[i + 1] /\ End(a) < used[i + 1].pos /\ End(b) < End(used[i + 1])
      BY <1>17, <2>0, <3>1
    <3>3. used'[i] = b2 /\ ~(i < r1')
      BY <1>1, <1>2, <1>13, <2>3
    <3>4. b2.pos < used[i + 1].pos
      BY <1>5, <1>12, <1>15, <2>0, <3>2, SMTT(60)
    <3>5. QED
      BY <1>12, <3>2, <3>3, <3>4
  <2>4. CASE i + 1 # r1 /\ i # r1 /\ i # r1 + 1
    <3>1. i + 1 # r1 + 1
      BY <1>1, <2>4
    <3>2. used'[i] = used[i] /\ used'[i + 1] = used[i + 1]
      BY <1>13, <2>0, <2>4, <3>1
    <3>3. i < r1' => i < r1
      BY <1>1, <1>2, <2>4
    <3>4. QED
      BY <1>2, <2>0, <3>2, <3>3 DEF BufferInv, InOrder, Compacted, Disjoint
  <2>5. QED
    BY <2>1, <2>2, <2>3, <2>4
<1>19. ASSUME NEW i \in 1 .. Len(used')
       PROVE  /\ End(used'[i]) <= AvailIn'
              /\ used'[i].size >= MinMatch
              /\ used'[i].type \in Copies => used'[i].addr = used'[i].pos
  <2>1. CASE i = r1
    BY <1>6, <1>8, <1>10, <1>12, <1>13, <1>14, <2>1
  <2>2. CASE i = r1 + 1
    <3>1. b2.type \in Copies => b2.addr = b2.pos
      BY <1>6, <1>10
    <3>2. QED
      BY <1>6, <1>8, <1>10, <1>12, <1>13, <1>14, <2>2, <3>1
  <2>3. CASE i # r1 /\ i # r1 + 1
    <3>1. used'[i] = used[i] /\ i \in 1 .. Len(used)
      BY <1>13, <2>3
    <3>2. QED
      BY <1>14, <3>1 DEF BufferInv, InOrder, Shortened
  <2>4. QED
    BY <2>1, <2>2, <2>3
<1>20. InOrder'
  BY <1>18, <1>19 DEF InOrder, End
<1>21. Shortened'
  BY <1>19 DEF Shortened
<1>22. \A i \in 1 .. Len(used') - 1 : i < r1' => Disjoint(i)'
  BY <1>18 DEF Disjoint, End
<1>23. ASSUME used' # <<>>, new # None
       PROVE  /\ used # <<>>
              /\ used'[Len(used')].pos <= used[Len(used)].pos
              /\ End(used'[Len(used')]) <= End(used[Len(used)])
  <2>1. Third
    BY <1>2, <1>23 DEF Judged, BufferInv, TypeOK
  <2>2. Len(used) \in 1 .. Len(used) /\ Len(used) # r1 /\ Len(used) # r1 + 1
    BY <1>1, <1>4, <2>1 DEF Third
  <2>3. used'[Len(used')] = used[Len(used)]
    BY <1>13, <2>2
  <2>4. QED
    BY <1>1, <1>15, <2>2, <2>3
<1>24. free' \in Nat /\ r1' \in Nat \ {0}
  BY <1>1, <1>2
<1>25. QED
  BY <1>2, <1>13, <1>20, <1>21, <1>22, <1>23, <1>24, CompactingKeeps

\* Each turn of the compaction.
LEMMA CompactKeeps == BufferInv /\ Compact => BufferInv'
<1> SUFFICES ASSUME BufferInv, Compact PROVE BufferInv'
  OBVIOUS
<1>1. used \in Seq(Insts) /\ Len(used) \in Nat /\ free \in Nat /\ r1 \in Nat \ {0}
  BY UsedElements, StateNumbers DEF BufferInv, TypeOK
<1>2. \A i \in 1 .. Len(used) : used[i].pos \in Nat /\ End(used[i]) \in Nat
  BY UsedNumbers DEF BufferInv
<1>3. pc = "COMPACT" => \A i \in 1 .. Len(used) - 1 : i < r1 => Disjoint(i)
  BY DEF BufferInv, Compacted
<1>4. CASE SkipDisjoint
  <2>1. /\ Compacting /\ pc = "COMPACT" /\ pc' = "COMPACT" /\ used' = used /\ free' = free /\ r1' = r1 + 1
        /\ ~(r1 < Len(used) /\ End(used[r1]) > used[r1 + 1].pos) /\ r1 < Len(used)
    BY <1>4 DEF SkipDisjoint, Compacting, Overlap, Pair, At
  <2>2. r1 \in 1 .. Len(used) - 1 /\ r1 \in 1 .. Len(used) /\ r1 + 1 \in 1 .. Len(used)
    BY <1>1, <2>1
  <2>3. Disjoint(r1)
    BY <1>2, <2>1, <2>2 DEF Disjoint
  <2>4. \A i \in 1 .. Len(used) - 1 : i < r1 + 1 => Disjoint(i)
    <3>1. ASSUME NEW i \in 1 .. Len(used) - 1, i < r1 + 1, i # r1
          PROVE  i < r1
      BY <1>1, <3>1
    <3>2. QED
      BY <1>3, <2>1, <2>3, <3>1
  <2>5. AvailIn' = AvailIn
    BY <2>1 DEF Compacting, sizeVars, AvailIn
  <2>6. InOrder' /\ Shortened'
    BY <2>1, <2>5 DEF BufferInv, InOrder, Shortened, End
  <2>7. \A i \in 1 .. Len(used') - 1 : i < r1' => Disjoint(i)'
    BY <2>1, <2>4 DEF Disjoint, End
  <2>8. used' # <<>> =>
          /\ used'[Len(used')].pos <= used[Len(used)].pos
          /\ End(used'[Len(used')]) <= End(used[Len(used)])
    BY <1>2, <2>1, <2>2, LastMatchedEnd
  <2>9. r1' \in Nat \ {0} /\ used' \in Seq(Insts) /\ free' \in Nat
    BY <1>1, <2>1
  <2>10. QED
    BY <2>1, <2>6, <2>7, <2>8, <2>9, CompactingKeeps
<1>5. CASE DropIrrelevant
  <2>1. /\ Compacting /\ pc = "COMPACT" /\ pc' = "COMPACT" /\ r1 + 1 < Len(used)
        /\ used' = Without(r1 + 1) /\ free' = free + 1 /\ r1' = r1
    BY <1>5 DEF DropIrrelevant, Compacting, Irrelevant, Third
  <2>2. r1 + 1 \in 1 .. Len(used) /\ ~(r1 + 1 = Len(used))
    BY <1>1, <2>1
  <2>3. ASSUME NEW i \in 1 .. Len(used) - 2, i < r1'
        PROVE  Disjoint(i) /\ ~(i + 1 = r1 + 1) /\ ~(i + 1 > r1 + 1)
    <3>1. i \in 1 .. Len(used) - 1 /\ i < r1
      BY <1>1, <2>1, <2>3
    <3>2. QED
      BY <1>1, <1>3, <2>1, <3>1
  <2>4. r1' \in Nat \ {0}
    BY <1>1, <2>1
  <2>5. QED
    BY <2>1, <2>2, <2>3, <2>4, WithoutKeeps
<1>6. CASE DropShorter
  <2>1. /\ Compacting /\ pc = "COMPACT" /\ pc' = "COMPACT" /\ Judged /\ r1 < Len(used)
        /\ free' = free + 1
        /\ IF At(r1).size < At(r1 + 1).size
             THEN used' = Without(r1) /\ r1' = r1
             ELSE used' = Without(r1 + 1) /\ r1' = r1 + 1
    BY <1>6 DEF DropShorter, Compacting, Judged, Overlap, Pair
  <2>2. CASE used' = Without(r1) /\ r1' = r1
    <3>1. r1 \in 1 .. Len(used) /\ ~(r1 = Len(used)) /\ r1' \in Nat \ {0}
      BY <1>1, <2>1, <2>2
    <3>2. ASSUME NEW i \in 1 .. Len(used) - 2, i < r1'
          PROVE  /\ i + 1 < r1 => Disjoint(i)
                 /\ i + 1 = r1 => End(used[i]) <= used[i + 2].pos
                 /\ i + 1 > r1 => Disjoint(i + 1)
      <4>1. /\ i \in 1 .. Len(used) - 1 /\ i < r1 /\ ~(i + 1 > r1)
            /\ i \in 1 .. Len(used) /\ i + 1 \in 1 .. Len(used) /\ i + 2 \in 1 .. Len(used)
            /\ i + 1 \in 1 .. Len(used) - 1 /\ (i + 1) + 1 = i + 2
        BY <1>1, <2>2, <3>2
      <4>2. Disjoint(i)
        BY <1>3, <2>1, <4>1
      <4>3. used[i + 1].pos < used[i + 2].pos
        BY <4>1 DEF BufferInv, InOrder
      <4>4. End(used[i]) <= used[i + 2].pos
        BY <1>2, <4>1, <4>2, <4>3 DEF Disjoint
      <4>5. QED
        BY <4>1, <4>2, <4>4
    <3>3. QED
      BY <2>1, <2>2, <3>1, <3>2, WithoutKeeps
  <2>3. CASE used' = Without(r1 + 1) /\ r1' = r1 + 1
    <3>1. r1 + 1 \in 1 .. Len(used) /\ r1' \in Nat \ {0}
      BY <1>1, <2>1, <2>3
    <3>2. ASSUME r1 + 1 = Len(used)
          PROVE  new = None
      <4>1. ~Third
        BY <1>1, <3>2 DEF Third
      <4>2. QED
        BY <2>1, <4>1 DEF Judged, BufferInv, TypeOK
    <3>3. ASSUME NEW i \in 1 .. Len(used) - 2, i < r1'
          PROVE  /\ i + 1 < r1 + 1 => Disjoint(i)
                 /\ i + 1 = r1 + 1 => End(used[i]) <= used[i + 2].pos
                 /\ i + 1 > r1 + 1 => Disjoint(i + 1)
      <4>1. /\ ~(i + 1 > r1 + 1) /\ i \in 1 .. Len(used) - 1
            /\ i + 2 \in 1 .. Len(used) /\ i \in 1 .. Len(used)
        BY <1>1, <2>3, <3>3
      <4>2. ASSUME i + 1 < r1 + 1
            PROVE  Disjoint(i)
        <5>1. i < r1
          BY <1>1, <4>2
        <5>2. QED
          BY <1>3, <2>1, <4>1, <5>1
      <4>3. ASSUME i + 1 = r1 + 1
            PROVE  End(used[i]) <= used[i + 2].pos
        <5>1. i = r1 /\ r1 + 1 < Len(used)
          BY <1>1, <4>1, <4>3
        <5>2. ~(used[i + 2].pos <= End(used[i]) + 1)
          BY <2>1, <5>1 DEF Judged, Irrelevant, Third, At
        <5>3. QED
          BY <1>2, <4>1, <5>2
      <4>4. QED
        BY <4>1, <4>2, <4>3
    <3>4. QED
      BY <2>1, <2>3, <3>1, <3>2, <3>3, WithoutKeeps
  <2>4. QED
    BY <2>1, <2>2, <2>3
<1>7. CASE ShortenOne
  BY <1>7, ShortenKeeps
<1>8. CASE EndCompact
  <2>1. /\ pc = "COMPACT" /\ pc' = "ENCODE" /\ r1' = 1
        /\ UNCHANGED <<input_position, min_match, new, used, free, iout, unencoded_offset, profile, slots, force, flushed>>
        /\ ~Pair \/ (Overlap /\ ~Irrelevant /\ ~Judged)
    BY <1>8 DEF EndCompact, Compacting, matchVars, outVars, sizeVars
  <2>2. AvailIn' = AvailIn
    BY <2>1 DEF AvailIn
  <2>3. TypeOK'
    <3>1. /\ iout' \in ({None} \cup Instructions(Types) \cup Adds)'
          /\ used' \in Seq(Instructions(Types))'
          /\ new' # None => new' \in [inst : Instructions(Types)', mlen : Nat, lazy : BOOLEAN]
      BY <2>1, <2>2 DEF BufferInv, TypeOK, Instructions, Adds
    <3>2. new' = None <=> (pc' \notin {"SLOT", "PLACE"} /\ (pc' \in {"COMPACT", "ENCODE"} => force'))
      BY <2>1 DEF BufferInv, TypeOK
    <3>3. force' \in BOOLEAN
      BY <2>1 DEF BufferInv, TypeOK
    <3>4. /\ input_position' \in 0 .. AvailIn' /\ min_match' \in MinMatch .. Larger(MinMatch, AvailIn')
          /\ profile' \in Profiles /\ free' \in Nat /\ slots' \in Nat /\ unencoded_offset' \in Nat
          /\ flushed' \in Nat
      BY <2>1, <2>2 DEF BufferInv, TypeOK
    <3>5. r1' \in Nat \ {0} /\ pc' = "ENCODE"
      BY <2>1
    <3>6. QED
      BY <3>1, <3>2, <3>3, <3>4, <3>5 DEF TypeOK
  <2>4. InOrder' /\ Shortened' /\ NewSound'
    BY <2>1, <2>2 DEF BufferInv, InOrder, Shortened, NewSound, End
  <2>5. MatcherAhead' /\ AtStart'
    BY <2>1 DEF MatcherAhead, AtStart
  <2>6. ASSUME NEW i \in 1 .. Len(used) - 1, force \/ i < Len(used) - 1
        PROVE  Disjoint(i)
    <3>1. CASE ~Pair
      <4>1. i < r1
        BY <1>1, <3>1 DEF Pair
      <4>2. QED
        BY <1>3, <2>1, <4>1
    <3>2. CASE Overlap /\ ~Irrelevant /\ ~Judged
      <4>1. ~Third /\ ~force
        BY <3>2 DEF Judged
      <4>2. i < r1
        BY <1>1, <2>6, <4>1 DEF Third
      <4>3. QED
        BY <1>3, <2>1, <4>2
    <3>3. QED
      BY <2>1, <3>1, <3>2
  <2>7. Compacted'
    <3>1. \A i \in 1 .. Len(used') - 1 : force' \/ i < Len(used') - 1 => Disjoint(i)'
      BY <2>1, <2>6 DEF Disjoint, End
    <3>2. QED
      BY <2>1, <3>1 DEF Compacted
  <2>8. QED
    BY <2>3, <2>4, <2>5, <2>7 DEF BufferInv
<1>9. QED
  BY <1>4, <1>5, <1>6, <1>7, <1>8 DEF Compact

-----------------------------------------------------------------------------
(* The encoder of instructions.                                            *)

\* What can be held back to be paired.
Holds == {None} \cup Insts \cup Adds

LEMMA HoldOrPairHolds ==
  ASSUME NEW o, o.iout \in Holds, o.freed \in Nat, NEW inst \in Insts \cup Adds
  PROVE  /\ HoldOrPair(o, inst).iout \in Holds /\ HoldOrPair(o, inst).freed \in Nat
         /\ HoldOrPair(o, inst).freed + SlotOf(HoldOrPair(o, inst).iout)
              = o.freed + SlotOf(o.iout) + SlotOf(inst)
<1>1. SlotOf(o.iout) \in Nat /\ SlotOf(inst) \in Nat /\ SlotOf(None) = 0
  BY DEF SlotOf, None, Types, Copies
<1>2. CASE o.iout # None /\ IsDouble(o.iout, inst)
  <2>1. HoldOrPair(o, inst) = [iout |-> None, freed |-> o.freed + SlotOf(o.iout) + SlotOf(inst)]
    BY <1>2 DEF HoldOrPair
  <2>2. QED
    BY <1>1, <2>1 DEF Holds
<1>3. CASE ~(o.iout # None /\ IsDouble(o.iout, inst))
  <2>1. HoldOrPair(o, inst) = [iout |-> inst, freed |-> o.freed + SlotOf(o.iout)]
    BY <1>3 DEF HoldOrPair
  <2>2. QED
    BY <1>1, <2>1 DEF Holds
<1>4. QED
  BY <1>2, <1>3

\* The unmatched bytes up to pos are added, and take no slot.
LEMMA AddUpToHolds ==
  ASSUME TypeOK, NEW o, o.iout \in Holds, o.freed \in Nat, NEW pos \in 0 .. AvailIn
  PROVE  /\ AddUpTo(o, pos).iout \in Holds /\ AddUpTo(o, pos).freed \in Nat
         /\ AddUpTo(o, pos).freed + SlotOf(AddUpTo(o, pos).iout) = o.freed + SlotOf(o.iout)
<1>1. unencoded_offset \in Nat /\ AvailIn \in Nat
  BY StateNumbers
<1>2. SlotOf(o.iout) \in Nat
  BY DEF SlotOf
<1>3. CASE pos > unencoded_offset
  <2> DEFINE add == Add(unencoded_offset, pos - unencoded_offset)
  <2>1. add \in Adds
    BY <1>1, <1>3 DEF Adds, Add
  <2>2. SlotOf(add) = 0
    BY DEF SlotOf, Add, Types, Copies
  <2>3. AddUpTo(o, pos) = HoldOrPair(o, add)
    BY <1>3 DEF AddUpTo
  <2> HIDE DEF add
  <2>4. QED
    BY <1>2, <2>1, <2>2, <2>3, HoldOrPairHolds
<1>4. CASE ~(pos > unencoded_offset)
  BY <1>2, <1>4 DEF AddUpTo
<1>5. QED
  BY <1>3, <1>4

\* The front instruction, with the unmatched bytes before it.
LEMMA FrontHolds ==
  ASSUME TypeOK, used # <<>>
  PROVE  LET inst == Head(used)
             o == HoldOrPair(AddUpTo(Held, inst.pos), inst)
         IN  /\ inst = used[1] /\ 1 \in 1 .. Len(used)
             /\ o.iout \in Holds /\ o.freed \in Nat
             /\ o.freed + SlotOf(o.iout) = SlotOf(iout) + 1
<1> DEFINE inst == Head(used)  add == AddUpTo(Held, inst.pos)  o == HoldOrPair(add, inst)
<1>1. inst = used[1] /\ 1 \in 1 .. Len(used) /\ inst \in Insts /\ profile \in Profiles
  BY UsedElements DEF TypeOK
<1>2. Held.iout \in Holds /\ Held.freed \in Nat /\ Held.iout = iout /\ Held.freed = 0
  BY DEF TypeOK, Holds, Held, Insts
<1>3. inst.pos \in 0 .. AvailIn /\ inst.type \in Types
  BY <1>1, InstFields
<1>4. SlotOf(inst) = 1 /\ SlotOf(iout) \in Nat
  BY <1>3 DEF SlotOf
<1> HIDE DEF inst
<1>5. /\ add.iout \in Holds /\ add.freed \in Nat
      /\ add.freed + SlotOf(add.iout) = 0 + SlotOf(iout)
  BY <1>2, <1>3, AddUpToHolds
<1> HIDE DEF add
<1>6. /\ o.iout \in Holds /\ o.freed \in Nat
      /\ o.freed + SlotOf(o.iout) = add.freed + SlotOf(add.iout) + SlotOf(inst)
  BY <1>1, <1>5, HoldOrPairHolds
<1>7. o.freed + SlotOf(o.iout) = SlotOf(iout) + 1
  BY <1>4, <1>5, <1>6
<1>8. QED
  BY <1>1, <1>6, <1>7 DEF inst, add

\* The rest of the buffer, when its front has been encoded.
LEMMA TailOfUsed ==
  ASSUME BufferInv, used # <<>>
  PROVE  /\ Tail(used) \in Seq(Insts) /\ Len(Tail(used)) = Len(used) - 1 /\ Len(used) >= 1
         /\ \A i \in 1 .. Len(used) - 1 : Tail(used)[i] = used[i + 1] /\ i + 1 \in 1 .. Len(used)
<1>1. used \in Seq(Insts) /\ Len(used) \in Nat
  BY UsedElements DEF BufferInv
<1>2. QED
  BY <1>1, HeadTailProperties

\* Each turn of the encoder.
LEMMA EncodeKeeps == BufferInv /\ Encode => BufferInv'
<1> SUFFICES ASSUME BufferInv, Encode PROVE BufferInv'
  OBVIOUS
<1>1. used \in Seq(Insts) /\ Len(used) \in Nat /\ free \in Nat /\ unencoded_offset \in Nat
      /\ AvailIn \in Nat /\ flushed \in Nat
  BY UsedElements, StateNumbers DEF BufferInv, TypeOK
<1>2. iout \in Holds /\ pc = "ENCODE"
  BY DEF BufferInv, TypeOK, Holds, Insts, Encode, EncodeFront, Finalize
<1>3. CASE EncodeFront
  <2> DEFINE inst == Head(used)  o == HoldOrPair(AddUpTo(Held, inst.pos), inst)
  <2>1. /\ used # <<>> /\ iout' = o.iout /\ free' = free + o.freed
        /\ unencoded_offset' = Larger(unencoded_offset, inst.pos) + inst.size
        /\ used' = Tail(used)
        /\ flushed' = IF force THEN flushed ELSE flushed + 1
        /\ pc' = IF ~force /\ (flushed + 1 > slots \div 2 \/ Len(used) - 1 <= 2)
                 THEN "PLACE" ELSE "ENCODE"
        /\ UNCHANGED <<input_position, min_match, new, profile, slots, r1, force>>
    BY <1>3 DEF EncodeFront, matchVars, sizeVars
  <2>2. o.iout \in Holds /\ o.freed \in Nat /\ inst = used[1] /\ 1 \in 1 .. Len(used)
    BY <2>1, FrontHolds DEF BufferInv
  <2> HIDE DEF o, inst
  <2>3. /\ used' \in Seq(Insts) /\ Len(used') = Len(used) - 1 /\ Len(used) >= 1
        /\ \A i \in 1 .. Len(used) - 1 : used'[i] = used[i + 1] /\ i + 1 \in 1 .. Len(used)
    BY <2>1, TailOfUsed
  <2>4. AvailIn' = AvailIn /\ Insts' = Insts
    BY <2>1 DEF AvailIn, Insts, Instructions
  <2>5. TypeOK'
    <3>1. iout' \in ({None} \cup Instructions(Types) \cup Adds)'
      BY <2>1, <2>2, <2>4 DEF Holds, Insts, Adds
    <3>2. used' \in Seq(Instructions(Types))'
      BY <2>3, <2>4 DEF Insts
    <3>3. new' # None => new' \in [inst : Instructions(Types)', mlen : Nat, lazy : BOOLEAN]
      BY <2>1, <2>4 DEF BufferInv, TypeOK, Insts
    <3>4. new' = None <=> (pc' \notin {"SLOT", "PLACE"} /\ (pc' \in {"COMPACT", "ENCODE"} => force'))
      BY <1>2, <2>1 DEF BufferInv, TypeOK
    <3>5. force' \in BOOLEAN /\ pc' \in {"PLACE", "ENCODE"}
      BY <2>1 DEF BufferInv, TypeOK
    <3>6. /\ input_position' \in 0 .. AvailIn' /\ min_match' \in MinMatch .. Larger(MinMatch, AvailIn')
          /\ profile' \in Profiles /\ slots' \in Nat /\ r1' \in Nat \ {0}
      BY <2>1, <2>4 DEF BufferInv, TypeOK
    <3>7. inst.pos \in Nat /\ inst.size \in Nat
      BY <2>2, UsedNumbers DEF BufferInv
    <3>8. unencoded_offset' \in Nat /\ free' \in Nat /\ flushed' \in Nat
      BY <1>1, <2>1, <2>2, <3>7, SMTT(60) DEF Larger
    <3>9. QED
      BY <3>1, <3>2, <3>3, <3>4, <3>5, <3>6, <3>8 DEF TypeOK
  <2>6. ASSUME NEW i \in 1 .. Len(used') - 1
        PROVE  /\ used'[i] = used[i + 1] /\ used'[i + 1] = used[(i + 1) + 1]
               /\ i + 1 \in 1 .. Len(used) - 1
    <3>1. i \in 1 .. Len(used) - 1 /\ i + 1 \in 1 .. Len(used) - 1
      BY <1>1, <2>3
    <3>2. QED
      BY <2>3, <3>1
  <2>7. \A i \in 1 .. Len(used') : used'[i] = used[i + 1] /\ i + 1 \in 1 .. Len(used)
    BY <2>3
  <2>8. InOrder'
    <3>1. \A i \in 1 .. Len(used') - 1 :
             used'[i].pos < used'[i + 1].pos /\ End(used'[i]) < End(used'[i + 1])
      BY <2>6 DEF BufferInv, InOrder
    <3>2. \A i \in 1 .. Len(used') : End(used'[i]) <= AvailIn'
      BY <2>4, <2>7 DEF BufferInv, InOrder
    <3>3. QED
      BY <3>1, <3>2 DEF InOrder, End
  <2>9. Shortened'
    BY <2>7 DEF BufferInv, Shortened
  <2>10. NewSound'
    <3>1. used' # <<>> => Len(used') \in 1 .. Len(used') /\ used'[Len(used')] = used[Len(used)] /\ used # <<>>
      <4>1. used' # <<>> => Len(used') \in 1 .. Len(used') /\ Len(used') + 1 = Len(used)
        BY <1>1, <2>3
      <4>2. QED
        BY <2>1, <2>7, <4>1
    <3>2. QED
      BY <2>1, <2>4, <3>1 DEF BufferInv, NewSound, End
  <2>11. MatcherAhead' /\ AtStart'
    BY <2>1 DEF MatcherAhead, AtStart
  <2>12. Compacted'
    <3>1. ASSUME NEW i \in 1 .. Len(used') - 1, force \/ i < Len(used') - 1
          PROVE  End(used'[i]) <= used'[i + 1].pos
      <4>1. force \/ i + 1 < Len(used) - 1
        BY <1>1, <2>3, <3>1
      <4>2. Disjoint(i + 1)
        BY <1>2, <2>6, <4>1 DEF BufferInv, Compacted
      <4>3. QED
        BY <2>6, <4>2 DEF Disjoint
    <3>2. \A i \in 1 .. Len(used') - 1 : force' \/ i < Len(used') - 1 => Disjoint(i)'
      BY <2>1, <3>1 DEF Disjoint, End
    <3>3. pc' # "COMPACT"
      BY <2>1
    <3>4. QED
      BY <3>2, <3>3 DEF Compacted
  <2>13. QED
    BY <2>5, <2>8, <2>9, <2>10, <2>11, <2>12 DEF BufferInv
<1>4. CASE Finalize
  <2> DEFINE o == AddUpTo(Held, AvailIn)
  <2>1. /\ used = <<>> /\ force /\ free' = free + o.freed + SlotOf(o.iout) /\ iout' = None
        /\ unencoded_offset' = Larger(unencoded_offset, AvailIn) /\ pc' = "DONE"
        /\ UNCHANGED <<input_position, min_match, new, used, profile, slots, r1, force, flushed>>
    BY <1>4 DEF Finalize, matchVars, sizeVars, flushVars
  <2>2. o.freed \in Nat /\ SlotOf(o.iout) \in Nat
    <3>1. Held.iout \in Holds /\ Held.freed \in Nat /\ AvailIn \in 0 .. AvailIn
      BY <1>1, <1>2 DEF Held
    <3>2. QED
      BY <3>1, AddUpToHolds DEF BufferInv, SlotOf
  <2> HIDE DEF o
  <2>3. AvailIn' = AvailIn
    BY <2>1 DEF AvailIn
  <2>4. TypeOK'
    <3>1. new' = None /\ iout' = None /\ used' \in Seq(Instructions(Types))'
      BY <1>2, <2>1, <2>3 DEF BufferInv, TypeOK, Instructions
    <3>2. force' \in BOOLEAN /\ pc' = "DONE"
      BY <2>1
    <3>3. /\ input_position' \in 0 .. AvailIn' /\ min_match' \in MinMatch .. Larger(MinMatch, AvailIn')
          /\ profile' \in Profiles /\ slots' \in Nat /\ r1' \in Nat \ {0} /\ flushed' \in Nat
      BY <2>1, <2>3 DEF BufferInv, TypeOK
    <3>4. unencoded_offset' \in Nat /\ free' \in Nat
      BY <1>1, <2>1, <2>2 DEF Larger
    <3>5. QED
      BY <3>1, <3>2, <3>3, <3>4 DEF TypeOK
  <2>5. InOrder' /\ Shortened' /\ NewSound'
    BY <1>2, <2>1, <2>3 DEF BufferInv, TypeOK, InOrder, Shortened, NewSound, End
  <2>6. MatcherAhead' /\ AtStart' /\ Compacted'
    BY <2>1 DEF MatcherAhead, AtStart, Compacted
  <2>7. QED
    BY <2>4, <2>5, <2>6 DEF BufferInv
<1>5. QED
  BY <1>3, <1>4 DEF Encode

\* A step that changes nothing.
LEMMA StutterKeeps == BufferInv /\ UNCHANGED vars => BufferInv'
  BY DEF vars, matchVars, bufVars, sizeVars, outVars, flushVars, BufferInv, TypeOK, InOrder, Shortened,
         NewSound, MatcherAhead, Compacted, AtStart, Disjoint, AvailIn, Instructions, Adds, End

LEMMA BufferNext == BufferInv /\ [Next]_vars => BufferInv'
  BY MatchKeeps, SlotKeeps, CompactKeeps, EncodeKeeps, StutterKeeps DEF Next, Done

\* After any sequence of matches, erasures and flushes, the invariant of the buffer.
THEOREM BufferAlways == Spec => []BufferInv
  BY BufferInit, BufferNext, PTL DEF Spec

\* The instructions buffered, and the match that waits, follow one another.
LEMMA BufferInvImplies == BufferInv => BufferSound
<1> SUFFICES ASSUME BufferInv PROVE Ordered
  BY DEF BufferSound, BufferInv
<1>1. CASE new = None
  BY <1>1 DEF Ordered, Buffered, BufferInv, InOrder
<1>2. CASE new # None
  <2>1. used \in Seq(Insts) /\ Len(used) \in Nat /\ new.inst \in Insts
    BY <1>2, UsedElements, NewFields DEF BufferInv
  <2>2. /\ Buffered = Append(used, new.inst) /\ Len(Buffered) = Len(used) + 1
        /\ Buffered[Len(used) + 1] = new.inst
        /\ \A i \in 1 .. Len(used) : Buffered[i] = used[i]
    BY <1>2, <2>1, AppendProperties DEF Buffered
  <2>3. ASSUME NEW i \in 1 .. Len(Buffered) - 1
        PROVE  Buffered[i].pos < Buffered[i + 1].pos /\ End(Buffered[i]) < End(Buffered[i + 1])
    <3>1. CASE i = Len(used)
      BY <1>2, <2>1, <2>2, <3>1 DEF BufferInv, NewSound
    <3>2. CASE i # Len(used)
      <4>1. i \in 1 .. Len(used) - 1 /\ i \in 1 .. Len(used) /\ i + 1 \in 1 .. Len(used)
        BY <2>1, <2>2, <3>2
      <4>2. QED
        BY <2>2, <4>1 DEF BufferInv, InOrder
    <3>3. QED
      BY <3>1, <3>2
  <2>4. QED
    BY <2>3 DEF Ordered
<1>3. QED
  BY <1>1, <1>2

\* What xd3_iopt_flush_instructions, the lazy limit and the encoder of instructions may
\* rely on always holds: order, sizes of at least MIN_MATCH, and addresses that
\* moved with the start of a copy.
THEOREM BufferSoundAlways == Spec => []BufferSound
  BY BufferAlways, BufferInvImplies, PTL

-----------------------------------------------------------------------------
(* The slots.                                                              *)

\* What a step of the matcher has to keep.
LEMMA MatcherSlots ==
  ASSUME SlotsInv, profile' = profile, SlotsConserved', slots' = slots \/ profile.unlimited,
         pc' \in {"SEARCH", "SLOT"} \/ LoopNoMore
  PROVE  SlotsInv'
<1>1. CASE pc' \in {"SEARCH", "SLOT"}
  BY <1>1 DEF SlotsInv, SlotsKept
<1>2. CASE LoopNoMore
  <2>1. pc' = "COMPACT" /\ force' = TRUE /\ flushed' = 0
    BY <1>2 DEF LoopNoMore
  <2>2. QED
    BY <2>1 DEF SlotsInv, SlotsKept
<1>3. QED
  BY <1>1, <1>2

\* Where the matcher goes from a step.
LEMMA RestartTo ==
  ASSUME NEW p, NEW last, Restart(p, last) \/ UpdateOne
  PROVE  pc' = "SEARCH" \/ LoopNoMore
<1>1. CASE Restart(p, last)
  BY <1>1 DEF Restart
<1>2. CASE UpdateOne
  BY <1>2 DEF UpdateOne
<1>3. QED
  BY <1>1, <1>2

LEMMA SlotsInit == Init => SlotsInv
<1> SUFFICES ASSUME Init PROVE SlotsInv
  OBVIOUS
<1>1. Len(used) = 0 /\ SlotOf(iout) = 0
  BY DEF Init, SlotOf, None, Types, Copies
<1>2. slots \in Nat /\ free = slots /\ slots = profile.iopt_size
  BY ProfileNumbers DEF Init
<1>3. SlotsConserved
  BY <1>1, <1>2 DEF SlotsConserved
<1>4. QED
  BY <1>2, <1>3 DEF Init, SlotsInv, SlotsKept

LEMMA MatchSlots == BufferInv /\ SlotsInv /\ Match => SlotsInv'
<1> SUFFICES ASSUME BufferInv, SlotsInv, Match PROVE SlotsInv'
  OBVIOUS
<1>1. Len(used) \in Nat /\ free \in Nat /\ slots \in Nat /\ TypeOK
      /\ Len(used) + free + SlotOf(iout) = slots /\ SlotOf(iout) \in Nat
  BY StateNumbers DEF BufferInv, SlotsInv, SlotsKept, SlotsConserved, SlotOf
<1>2. profile' = profile /\ slots' = slots /\ iout' = iout
  BY DEF Match, FindRun, FindTarget, FindSource, ContinueMatch, StartSearch, GetSourceBlock, NoMatch,
         bufVars, sizeVars, outVars
<1>3. SlotOf(iout') = SlotOf(iout)
  BY <1>2
<1>4. pc' \in {"SEARCH", "SLOT"} \/ LoopNoMore
  BY RestartTo DEF Match, FindRun, FindTarget, FindSource, ContinueMatch, StartSearch, GetSourceBlock,
         NoMatch, Found
<1>5. Len(used') + free' = Len(used) + free
  <2>1. CASE UNCHANGED <<used, free>>
    BY <2>1
  <2>2. CASE FindSource
    <3>1. PICK back \in 0 .. profile.max_back :
            \/ /\ back <= input_position - (IF Greedy THEN LastMatched ELSE unencoded_offset)
               /\ used' = Kept(input_position - back) /\ free' = free + Len(used) - Len(used')
            \/ UNCHANGED <<used, free>>
      BY <2>2 DEF FindSource
    <3>2. CASE UNCHANGED <<used, free>>
      BY <2>1, <3>2
    <3>3. CASE ~UNCHANGED <<used, free>>
      <4>1. LastMatched \in Nat /\ unencoded_offset \in Nat /\ input_position \in Nat /\ AvailIn \in Nat
        BY LastMatchedEnd, StateNumbers DEF BufferInv
      <4>2. back \in Nat
        BY ProfileNumbers DEF BufferInv, TypeOK
      <4>3. input_position - back \in Nat
        BY <3>1, <3>3, <4>1, <4>2
      <4>4. Len(used') \in Nat
        BY <1>1, <3>1, <3>3, <4>3, KeptBefore
      <4>5. QED
        BY <1>1, <3>1, <3>3, <4>4
    <3>4. QED
      BY <3>2, <3>3
  <2>3. QED
    BY <2>1, <2>2 DEF Match, FindRun, FindTarget, ContinueMatch, StartSearch, GetSourceBlock, NoMatch,
         bufVars
<1>6. SlotsConserved'
  BY <1>1, <1>2, <1>3, <1>5 DEF SlotsConserved, SlotOf
<1>7. QED
  BY <1>2, <1>4, <1>6, MatcherSlots

LEMMA PlaceSlots ==
  ASSUME BufferInv, SlotsInv, pc \in {"SLOT", "PLACE"}, NEW available \in Nat, Place(available),
         profile' = profile, slots' = slots \/ profile.unlimited,
         slots' = slots - free + available
  PROVE  SlotsInv'
<1>1. Len(used) \in Nat /\ free \in Nat /\ slots \in Nat
      /\ Len(used) + free + SlotOf(iout) = slots /\ SlotOf(iout) \in Nat
  BY StateNumbers DEF BufferInv, SlotsInv, SlotsKept, SlotsConserved, SlotOf
<1>2. used' = Append(used, new.inst) /\ free' = available - 1 /\ SlotOf(iout)' = SlotOf(iout)
  BY DEF Place, outVars, SlotOf
<1>3. new # None
  BY DEF BufferInv, TypeOK
<1>4. used \in Seq(Insts) /\ new.inst \in Insts
  BY <1>3, UsedElements, NewFields DEF BufferInv
<1>5. Len(used') = Len(used) + 1
  BY <1>2, <1>4, AppendProperties
<1>6. SlotsConserved'
  <2>1. Len(used') + free' + SlotOf(iout)' = slots'
    BY <1>1, <1>2, <1>5
  <2>2. QED
    BY <2>1 DEF SlotsConserved
<1>7. pc' = "SEARCH" \/ LoopNoMore
  BY RestartTo DEF Place
<1>8. QED
  BY <1>6, <1>7, MatcherSlots

LEMMA SlotSlots == BufferInv /\ SlotsInv /\ Slot => SlotsInv'
<1> SUFFICES ASSUME BufferInv, SlotsInv, Slot PROVE SlotsInv'
  OBVIOUS
<1>1. free \in Nat /\ slots \in Nat /\ Elts \in Nat
  BY StateNumbers, MatcherNumbers DEF BufferInv
<1>2. CASE GetSlot
  <2>1. slots' = slots /\ slots' = slots - free + free /\ profile' = profile
    BY <1>1, <1>2 DEF GetSlot, sizeVars
  <2>2. QED
    BY <1>1, <1>2, <2>1, PlaceSlots DEF GetSlot
<1>3. CASE GrowSlots
  <2>1. slots' = slots - free + Elts /\ profile' = profile /\ profile.unlimited
    BY <1>1, <1>3 DEF GrowSlots
  <2>2. QED
    BY <1>1, <1>3, <2>1, PlaceSlots DEF GrowSlots
<1>4. CASE PlaceAfterFlush
  <2>1. slots' = slots /\ slots' = slots - free + free /\ profile' = profile
    BY <1>1, <1>4 DEF PlaceAfterFlush, sizeVars
  <2>2. QED
    BY <1>1, <1>4, <2>1, PlaceSlots DEF PlaceAfterFlush
<1>5. CASE StartFlush
  <2>1. /\ pc' = "COMPACT" /\ force' = FALSE /\ flushed' = 0 /\ ~profile.unlimited
        /\ UNCHANGED <<used, free, profile, slots, iout>>
    BY <1>5 DEF StartFlush, bufVars, sizeVars, outVars
  <2>2. SlotsConserved'
    BY <2>1 DEF SlotsInv, SlotsKept, SlotsConserved, SlotOf
  <2>3. QED
    BY <2>1, <2>2 DEF SlotsInv, SlotsKept
<1>6. QED
  BY <1>2, <1>3, <1>4, <1>5 DEF Slot

LEMMA CompactSlots == BufferInv /\ SlotsInv /\ Compact => SlotsInv'
<1> SUFFICES ASSUME BufferInv, SlotsInv, Compact PROVE SlotsInv'
  OBVIOUS
<1>1. /\ pc = "COMPACT" /\ pc' \in {"COMPACT", "ENCODE"}
      /\ UNCHANGED <<iout, profile, slots, force, flushed>>
  BY DEF Compact, SkipDisjoint, DropIrrelevant, DropShorter, ShortenOne, EndCompact, Compacting, outVars,
         sizeVars
<1>2. Len(used) \in Nat /\ free \in Nat /\ slots \in Nat /\ used \in Seq(Insts) /\ r1 \in Nat \ {0}
      /\ Len(used) + free + SlotOf(iout) = slots /\ SlotOf(iout) \in Nat
  BY StateNumbers, UsedElements DEF BufferInv, TypeOK, SlotsInv, SlotsKept, SlotsConserved, SlotOf
<1>3. Len(used') + free' = Len(used) + free
  <2>1. ASSUME NEW k \in 1 .. Len(used), used' = Without(k), free' = free + 1
        PROVE  Len(used') + free' = Len(used) + free
    <3>1. Len(used') = Len(used) - 1
      BY <1>2, <2>1, RemoveAtProperties DEF Without
    <3>2. QED
      BY <1>2, <2>1, <3>1
  <2>2. CASE SkipDisjoint \/ EndCompact
    BY <2>2 DEF SkipDisjoint, EndCompact
  <2>3. CASE DropIrrelevant
    <3>1. r1 + 1 \in 1 .. Len(used)
      BY <1>2, <2>3 DEF DropIrrelevant, Irrelevant, Third
    <3>2. QED
      BY <2>1, <2>3, <3>1 DEF DropIrrelevant
  <2>4. CASE DropShorter
    <3>1. r1 \in 1 .. Len(used) /\ r1 + 1 \in 1 .. Len(used)
      BY <1>2, <2>4 DEF DropShorter, Judged, Overlap, Pair
    <3>2. QED
      BY <2>1, <2>4, <3>1 DEF DropShorter
  <2>5. CASE ShortenOne
    <3>1. free' = free /\ \E a, b, c, d : used' = [used EXCEPT ![r1].size = a, ![r1 + 1].size = b,
                                                              ![r1 + 1].pos = c, ![r1 + 1].addr = d]
      BY <2>5 DEF ShortenOne
    <3>2. Len(used') = Len(used)
      <4>1. BufferInv'
        BY <2>5, CompactKeeps DEF Compact
      <4>2. used' \in Seq(Insts')
        BY <4>1 DEF BufferInv, TypeOK, Insts
      <4>3. DOMAIN used' = DOMAIN used
        BY <3>1
      <4>4. DOMAIN used = 1 .. Len(used) /\ DOMAIN used' = 1 .. Len(used') /\ Len(used') \in Nat
        BY <1>2, <4>2
      <4>5. QED
        BY <1>2, <4>3, <4>4
    <3>3. QED
      BY <3>1, <3>2
  <2>6. QED
    BY <2>2, <2>3, <2>4, <2>5 DEF Compact
<1>4. SlotsConserved'
  <2>1. SlotOf(iout)' = SlotOf(iout)
    BY <1>1 DEF SlotOf
  <2>2. Len(used') + free' + SlotOf(iout)' = slots'
    BY <1>1, <1>2, <1>3, <2>1
  <2>3. QED
    BY <2>2 DEF SlotsConserved
<1>5. flushed' = 0 /\ (profile'.unlimited => force')
  BY <1>1 DEF SlotsInv
<1>6. QED
  BY <1>1, <1>4, <1>5 DEF SlotsInv, SlotsKept

\* The encoder frees the slot that iout held, or that of the front instruction.  A
\* buffer of at least four slots has a third instruction at first, or one free.
LEMMA EncodeSlots ==
  ASSUME \A p \in Profiles : p.unlimited \/ p.iopt_size >= 4
  PROVE  BufferInv /\ SlotsInv /\ Encode => SlotsInv'
<1> SUFFICES ASSUME BufferInv, SlotsInv, Encode PROVE SlotsInv'
  OBVIOUS
<1>1. Len(used) \in Nat /\ free \in Nat /\ slots \in Nat /\ flushed \in Nat
      /\ Len(used) + free + SlotOf(iout) = slots /\ SlotOf(iout) \in Nat
  BY StateNumbers DEF BufferInv, TypeOK, SlotsInv, SlotsKept, SlotsConserved, SlotOf
<1>2. pc = "ENCODE" /\ iout \in Holds
  BY DEF BufferInv, TypeOK, Holds, Insts, Encode, EncodeFront, Finalize
<1>3. CASE EncodeFront
  <2> DEFINE inst == Head(used)  o == HoldOrPair(AddUpTo(Held, inst.pos), inst)
  <2>1. /\ used # <<>> /\ iout' = o.iout /\ free' = free + o.freed /\ used' = Tail(used)
        /\ flushed' = IF force THEN flushed ELSE flushed + 1
        /\ pc' = IF ~force /\ (flushed + 1 > slots \div 2 \/ Len(used) - 1 <= 2)
                 THEN "PLACE" ELSE "ENCODE"
        /\ UNCHANGED <<profile, slots, force>>
    BY <1>3 DEF EncodeFront, sizeVars
  <2>2. o.iout \in Holds /\ o.freed \in Nat /\ o.freed + SlotOf(o.iout) = SlotOf(iout) + 1
    BY <2>1, FrontHolds DEF BufferInv
  <2>3. SlotOf(iout)' = SlotOf(o.iout) /\ SlotOf(o.iout) \in {0, 1} /\ SlotOf(iout) \in {0, 1}
    BY <2>1 DEF SlotOf
  <2> HIDE DEF o
  <2>4. Len(used') = Len(used) - 1
    BY <2>1, TailOfUsed
  <2>5. free' + SlotOf(iout)' = free + SlotOf(iout) + 1
    BY <1>1, <2>1, <2>2, <2>3, SMTT(60)
  <2>11. free' \in Nat /\ SlotOf(iout)' \in {0, 1} /\ slots' = slots
    BY <1>1, <2>1, <2>2, <2>3
  <2>6. SlotsConserved'
    <3>1. Len(used') + (free' + SlotOf(iout)') = slots
      BY <1>1, <2>3, <2>4, <2>5
    <3>2. Len(used') + free' + SlotOf(iout)' = slots'
      BY <1>1, <2>4, <2>11, <3>1
    <3>3. QED
      BY <3>2 DEF SlotsConserved
  <2>7. ASSUME pc' = "PLACE"
        PROVE  free' > 0
    <3>1. ~force /\ (flushed + 1 > slots \div 2 \/ Len(used) - 1 <= 2)
      BY <2>1, <2>7
    <3>2. CASE flushed > 0
      <4>1. free + SlotOf(iout) > 0
        BY <1>2, <3>1, <3>2 DEF SlotsInv
      <4>2. free + SlotOf(iout) >= 1
        BY <1>1, <4>1
      <4>3. QED
        BY <1>1, <2>5, <2>11, <4>2
    <3>3. CASE flushed = 0
      <4>1. ~profile.unlimited /\ profile \in Profiles
        BY <1>2, <3>1 DEF SlotsInv, BufferInv, TypeOK
      <4>2. slots >= 4
        BY <4>1 DEF SlotsInv
      <4>3. Len(used) <= 3
        BY <1>1, <3>1, <3>3, <4>2
      <4>4. free + SlotOf(iout) >= 1
        BY <1>1, <4>2, <4>3
      <4>5. QED
        BY <1>1, <2>5, <2>11, <4>4
    <3>4. QED
      BY <1>1, <3>2, <3>3
  <2>8. pc' \in {"PLACE", "ENCODE"} /\ (profile'.unlimited => force')
    BY <1>2, <2>1 DEF SlotsInv
  <2>9. free' + SlotOf(iout)' > 0
    BY <1>1, <2>5
  <2>10. QED
    BY <2>1, <2>6, <2>7, <2>8, <2>9 DEF SlotsInv, SlotsKept, SlotOf
<1>4. CASE Finalize
  <2> DEFINE o == AddUpTo(Held, AvailIn)
  <2>1. /\ free' = free + o.freed + SlotOf(o.iout) /\ iout' = None /\ pc' = "DONE"
        /\ UNCHANGED <<used, profile, slots>>
    BY <1>4 DEF Finalize, sizeVars
  <2>2. o.freed \in Nat /\ o.freed + SlotOf(o.iout) = SlotOf(iout) /\ SlotOf(o.iout) \in Nat
    <3>1. Held.iout \in Holds /\ Held.freed = 0 /\ Held.freed \in Nat /\ Held.iout = iout
      BY <1>2 DEF Held
    <3>2. AvailIn \in 0 .. AvailIn
      BY StateNumbers DEF BufferInv
    <3>3. /\ o.freed \in Nat /\ o.freed + SlotOf(o.iout) = Held.freed + SlotOf(Held.iout)
      BY <3>1, <3>2, AddUpToHolds DEF BufferInv
    <3>4. SlotOf(o.iout) \in Nat
      BY DEF SlotOf
    <3> HIDE DEF o
    <3>5. QED
      BY <1>1, <3>1, <3>3, <3>4
  <2> HIDE DEF o
  <2>3. SlotOf(iout)' = 0
    BY <2>1 DEF SlotOf, None, Types, Copies
  <2>4. Len(used') + free' + SlotOf(iout)' = slots'
    BY <1>1, <2>1, <2>2, <2>3
  <2>5. SlotsConserved'
    BY <2>4 DEF SlotsConserved
  <2>6. QED
    BY <2>1, <2>5 DEF SlotsInv, SlotsKept
<1>5. QED
  BY <1>3, <1>4 DEF Encode

LEMMA SlotsInvAlways ==
  ASSUME \A p \in Profiles : p.unlimited \/ p.iopt_size >= 4
  PROVE  Spec => []SlotsInv
<1>1. Init => SlotsInv
  BY SlotsInit
<1>2. BufferInv /\ SlotsInv /\ [Next]_vars => SlotsInv'
  <2> SUFFICES ASSUME BufferInv, SlotsInv, [Next]_vars PROVE SlotsInv'
    OBVIOUS
  <2>1. CASE UNCHANGED vars
    BY <2>1 DEF vars, bufVars, sizeVars, outVars, flushVars, SlotsInv, SlotsKept, SlotsConserved, SlotOf
  <2>2. CASE Match \/ Slot \/ Compact
    BY <2>2, MatchSlots, SlotSlots, CompactSlots
  <2>3. CASE Encode
    BY <2>3, EncodeSlots
  <2>4. QED
    BY <2>1, <2>2, <2>3 DEF Next, Done
<1>3. QED
  BY <1>1, <1>2, BufferAlways, PTL DEF Spec

\* No slot is lost, and a flush that was not forced frees one, in a buffer that grows or
\* that has at least four slots: main sets no lower bound for -I, and with three the
\* assertion of xd3_iopt_get_slot would not hold.
THEOREM SlotsKeptAlways ==
  ASSUME \A p \in Profiles : p.unlimited \/ p.iopt_size >= 4
  PROVE  Spec => []SlotsKept
<1>1. Spec => []SlotsInv
  BY SlotsInvAlways
<1>2. SlotsInv => SlotsKept
  BY DEF SlotsInv
<1>3. QED
  BY <1>1, <1>2, PTL

-----------------------------------------------------------------------------
(* Nothing that is encoded later starts before what is encoded.            *)

\* It is enough that the front of the buffer does not, and the match that waits.
FrontBehind ==
  /\ used # <<>> => used[1].pos >= unencoded_offset
  /\ new # None => new.inst.pos >= unencoded_offset

\* NothingBehind, for streams that are not greedy, through the front alone.
LEMMA BehindFront ==
  ASSUME BufferInv, ~Greedy
  PROVE  NothingBehind <=>
           /\ FrontBehind /\ unencoded_offset <= AvailIn
           /\ pc = "SEARCH" => input_position >= unencoded_offset
<1>1. Len(used) \in Nat /\ used \in Seq(Insts) /\ unencoded_offset \in Nat
  BY UsedElements, StateNumbers DEF BufferInv
<1>2. \A i \in 1 .. Len(used) : used[i].pos \in Nat
  BY UsedNumbers DEF BufferInv
<1>3. used # <<>> => \A i \in 1 .. Len(used) : 1 \in 1 .. Len(used) /\ used[1].pos <= used[i].pos
  <2>1. ASSUME used # <<>>, NEW i \in 1 .. Len(used)
        PROVE  1 \in 1 .. Len(used) /\ used[1].pos <= used[i].pos
    <3>1. 1 \in 1 .. Len(used) /\ (i = 1 \/ 1 < i)
      BY <1>1
    <3>2. CASE 1 < i
      <4>1. used[1].pos < used[i].pos
        BY <3>1, <3>2, OrderedApart DEF BufferInv
      <4>2. QED
        BY <1>2, <3>1, <4>1
    <3>3. CASE i = 1
      BY <1>2, <3>1, <3>3
    <3>4. QED
      BY <3>1, <3>2, <3>3
  <2>2. QED
    BY <2>1
<1>4. used # <<>> => 1 \in 1 .. Len(used)
  BY <1>1
<1>5. (used # <<>> => used[1].pos >= unencoded_offset)
        <=> \A i \in 1 .. Len(used) : used[i].pos >= unencoded_offset
  <2>1. CASE used = <<>>
    BY <2>1
  <2>2. CASE used # <<>>
    <3>1. ASSUME used[1].pos >= unencoded_offset, NEW i \in 1 .. Len(used)
          PROVE  used[i].pos >= unencoded_offset
      <4>1. used[1].pos <= used[i].pos /\ used[1].pos \in Nat /\ used[i].pos \in Nat
        BY <1>2, <1>3, <2>2
      <4>2. QED
        BY <1>1, <3>1, <4>1
    <3>2. QED
      BY <1>4, <2>2, <3>1
  <2>3. QED
    BY <2>1, <2>2
<1>6. FrontBehind <=> \A i \in 1 .. Len(Buffered) : Buffered[i].pos >= unencoded_offset
  <2>1. CASE new = None
    BY <1>5, <2>1 DEF FrontBehind, Buffered
  <2>2. CASE new # None
    <3>1. new.inst \in Insts
      BY <2>2, NewFields DEF BufferInv
    <3>2. /\ Buffered = Append(used, new.inst) /\ Len(Buffered) = Len(used) + 1
          /\ Buffered[Len(used) + 1] = new.inst
          /\ \A i \in 1 .. Len(used) : Buffered[i] = used[i]
      BY <1>1, <2>2, <3>1, AppendProperties DEF Buffered
    <3>3. 1 .. Len(Buffered) = (1 .. Len(used)) \cup {Len(used) + 1}
      BY <1>1, <3>2
    <3>4. (\A i \in 1 .. Len(Buffered) : Buffered[i].pos >= unencoded_offset)
            <=> (\A i \in 1 .. Len(used) : used[i].pos >= unencoded_offset)
                  /\ new.inst.pos >= unencoded_offset
      BY <3>2, <3>3
    <3>5. QED
      BY <1>5, <2>2, <3>4 DEF FrontBehind
  <2>3. QED
    BY <2>1, <2>2
<1>7. SearchNotBehind <=> (pc = "SEARCH" => input_position >= unencoded_offset)
  BY DEF SearchNotBehind
<1>8. QED
  BY <1>6, <1>7 DEF NothingBehind

\* What keeps NothingBehind, through the front alone.
BehindFacts ==
  /\ FrontBehind /\ unencoded_offset <= AvailIn
  /\ pc = "SEARCH" => input_position >= unencoded_offset
  /\ pc # "DONE" /\ (pc \in {"COMPACT", "ENCODE"} => ~force) => unencoded_offset <= input_position
  /\ pc = "COMPACT" => flushed = 0
  /\ pc = "ENCODE" /\ ~force /\ flushed > 0 => Len(used) > 2

LEMMA BehindEquals == BufferInv /\ ~Greedy => (BehindInv <=> BehindFacts)
  BY BehindFront DEF BehindInv, BehindFacts

\* A step that encodes nothing and does not search further back.
LEMMA MatcherBehind ==
  ASSUME BufferInv, BufferInv', BehindFacts, profile' = profile, UNCHANGED outVars,
         pc # "DONE", pc \in {"COMPACT", "ENCODE"} => ~force,
         input_position' >= input_position, FrontBehind',
         pc' \in {"SEARCH", "SLOT"} \/ LoopNoMore
  PROVE  BehindFacts'
<1>1. /\ unencoded_offset' = unencoded_offset /\ AvailIn' = AvailIn
      /\ unencoded_offset \in Nat /\ input_position \in Nat
  BY StateNumbers DEF outVars, AvailIn, BufferInv
<1>2. input_position' \in Nat
  <2>1. input_position' \in 0 .. AvailIn' /\ AvailIn \in Nat
    BY StateNumbers DEF BufferInv, TypeOK
  <2>2. QED
    BY <1>1, <2>1
<1>3. unencoded_offset <= input_position /\ unencoded_offset <= AvailIn
  BY DEF BehindFacts
<1>4. unencoded_offset' <= input_position' /\ unencoded_offset' <= AvailIn'
  BY <1>1, <1>2, <1>3
<1>5. pc' # "ENCODE" /\ (pc' = "COMPACT" => flushed' = 0)
  BY DEF LoopNoMore
<1>6. QED
  BY <1>1, <1>2, <1>4, <1>5 DEF BehindFacts

LEMMA MatchBehind == BufferInv /\ BehindFacts /\ ~Greedy /\ Match => BehindFacts'
<1> SUFFICES ASSUME BufferInv, BehindFacts, ~Greedy, Match PROVE BehindFacts'
  OBVIOUS
<1>1. /\ input_position \in Nat /\ unencoded_offset \in Nat /\ AvailIn \in Nat /\ Len(used) \in Nat
      /\ SLook \in Nat
  BY StateNumbers DEF BufferInv
<1>2. pc \in {"START", "SEARCH"} /\ profile' = profile /\ UNCHANGED outVars
  BY DEF Match, FindRun, FindTarget, FindSource, ContinueMatch, StartSearch, GetSourceBlock, NoMatch,
         bufVars, sizeVars
<1>3. BufferInv'
  BY MatchKeeps
<1>4. unencoded_offset' = unencoded_offset /\ unencoded_offset <= input_position
  BY <1>2 DEF outVars, BehindFacts
<1>5. pc' \in {"SEARCH", "SLOT"} \/ LoopNoMore
  BY RestartTo DEF Match, FindRun, FindTarget, FindSource, ContinueMatch, StartSearch, GetSourceBlock,
         NoMatch, Found
<1>6. CASE UNCHANGED <<input_position, used>> /\ (FindRun \/ FindTarget \/ ContinueMatch)
  <2>1. new'.inst.pos = input_position
    <3>1. CASE FindRun
      BY <1>1, <3>1 DEF FindRun, Found
    <3>2. CASE FindTarget
      BY <1>1, <3>2 DEF FindTarget, Found
    <3>3. CASE ContinueMatch
      BY <3>3 DEF ContinueMatch, BufferInv, AtStart
    <3>4. QED
      BY <1>6, <3>1, <3>2, <3>3
  <2>2. FrontBehind'
    BY <1>1, <1>4, <1>6, <2>1 DEF BehindFacts, FrontBehind
  <2>3. QED
    BY <1>1, <1>2, <1>3, <1>5, <1>6, <2>2, MatcherBehind
<1>7. CASE FindSource
  <2>1. PICK back \in 0 .. profile.max_back, n \in MinMatch .. AvailIn, type \in Copies :
          /\ back <= input_position - unencoded_offset
          /\ Found(type, back, n)
          /\ IF back > 0
               THEN /\ used' = Kept(input_position - back)
                    /\ free' = free + Len(used) - Len(used')
               ELSE UNCHANGED <<used, free>>
    BY <1>7 DEF FindSource
  <2>2. back \in Nat
    BY ProfileNumbers DEF BufferInv, TypeOK
  <2>3. new'.inst.pos = input_position - back /\ input_position' = input_position
    BY <2>1 DEF Found
  <2>4. input_position - back \in Nat /\ new'.inst.pos >= unencoded_offset
    BY <1>1, <2>1, <2>2, <2>3
  <2>5. used' # <<>> => used'[1] = used[1] /\ used # <<>>
    <3>1. CASE used' = used
      BY <3>1
    <3>2. CASE used' = Kept(input_position - back)
      <4>1. /\ used' \in Seq(Insts) /\ Len(used') <= Len(used)
            /\ \A i \in 1 .. Len(used') : used'[i] = used[i]
        BY <2>4, <3>2, KeptBefore DEF BufferInv
      <4>2. used \in Seq(Insts)
        BY UsedElements DEF BufferInv
      <4>3. ASSUME used' # <<>>
            PROVE  1 \in 1 .. Len(used') /\ Len(used) # 0
        BY <1>1, <4>1, <4>3
      <4>4. QED
        BY <4>1, <4>2, <4>3
    <3>3. QED
      BY <2>1, <3>1, <3>2
  <2>6. FrontBehind'
    BY <1>4, <2>4, <2>5 DEF BehindFacts, FrontBehind
  <2>7. QED
    BY <1>1, <1>2, <1>3, <1>5, <2>3, <2>6, MatcherBehind
<1>8. CASE StartSearch \/ GetSourceBlock \/ NoMatch
  <2>1. used' = used /\ new' = new /\ new = None
    BY <1>8 DEF StartSearch, GetSourceBlock, NoMatch, bufVars, BufferInv, TypeOK
  <2>2. input_position' >= input_position
    <3>1. CASE StartSearch
      BY <1>1, <3>1 DEF StartSearch, Restart, BufferInv, AtStart
    <3>2. CASE GetSourceBlock
      BY <1>1, <3>2 DEF GetSourceBlock, Restart
    <3>3. CASE NoMatch
      BY <1>1, <3>3 DEF NoMatch, UpdateOne
    <3>4. QED
      BY <1>8, <3>1, <3>2, <3>3
  <2>3. FrontBehind'
    BY <1>4, <2>1 DEF BehindFacts, FrontBehind
  <2>4. QED
    BY <1>2, <1>3, <1>5, <2>2, <2>3, MatcherBehind
<1>9. FindRun \/ FindTarget \/ ContinueMatch => UNCHANGED <<input_position, used>>
  BY DEF FindRun, FindTarget, ContinueMatch, Found, bufVars
<1>10. QED
  BY <1>6, <1>7, <1>8, <1>9 DEF Match

LEMMA SlotBehind == BufferInv /\ BehindFacts /\ ~Greedy /\ Slot => BehindFacts'
<1> SUFFICES ASSUME BufferInv, BehindFacts, ~Greedy, Slot PROVE BehindFacts'
  OBVIOUS
<1>1. /\ input_position \in Nat /\ unencoded_offset \in Nat /\ AvailIn \in Nat /\ Len(used) \in Nat
      /\ SLook \in Nat /\ used \in Seq(Insts)
  BY StateNumbers, UsedElements DEF BufferInv
<1>2. pc \in {"SLOT", "PLACE"} /\ profile' = profile /\ UNCHANGED outVars
  BY DEF Slot, GetSlot, GrowSlots, StartFlush, PlaceAfterFlush, Place, sizeVars, bufVars
<1>3. BufferInv' /\ new # None /\ new.inst \in Insts /\ new.mlen \in Nat
  BY <1>2, SlotKeeps, NewFields DEF BufferInv, TypeOK
<1>4. unencoded_offset' = unencoded_offset /\ unencoded_offset <= input_position
  BY <1>2 DEF outVars, BehindFacts
<1>5. CASE StartFlush
  <2>1. /\ pc' = "COMPACT" /\ flushed' = 0
        /\ UNCHANGED <<input_position, new, used, profile>>
    BY <1>5 DEF StartFlush, matchVars, bufVars, sizeVars
  <2>2. FrontBehind' /\ AvailIn' = AvailIn
    BY <1>4, <2>1 DEF BehindFacts, FrontBehind, AvailIn
  <2>3. QED
    BY <1>2, <1>4, <2>1, <2>2 DEF BehindFacts
<1>6. ASSUME NEW available, Place(available)
      PROVE  BehindFacts'
  <2>1. used' = Append(used, new.inst) /\ new' = None
    BY <1>6 DEF Place
  <2>2. used'[1] = IF used = <<>> THEN new.inst ELSE used[1]
    <3>1. CASE used = <<>>
      BY <1>3, <2>1, <3>1
    <3>2. CASE used # <<>>
      <4>1. 1 \in 1 .. Len(used)
        BY <1>1, <3>2
      <4>2. QED
        BY <1>1, <1>3, <2>1, <3>2, <4>1, AppendProperties
    <3>3. QED
      BY <3>1, <3>2
  <2>3. FrontBehind'
    BY <1>3, <1>4, <2>1, <2>2 DEF BehindFacts, FrontBehind
  <2>4. (Restart(input_position + new.mlen, End(new.inst)) \/ UpdateOne)
        /\ (pc' = "SEARCH" \/ LoopNoMore)
    BY <1>6, RestartTo DEF Place
  <2>5. input_position' >= input_position
    <3>1. CASE UpdateOne
      BY <1>1, <3>1 DEF UpdateOne
    <3>2. CASE Restart(input_position + new.mlen, End(new.inst))
      BY <1>1, <1>3, <3>2 DEF Restart
    <3>3. QED
      BY <2>4, <3>1, <3>2
  <2>6. QED
    BY <1>2, <1>3, <2>3, <2>4, <2>5, MatcherBehind
<1>7. QED
  BY <1>5, <1>6 DEF Slot, GetSlot, GrowSlots, PlaceAfterFlush

LEMMA CompactBehind == BufferInv /\ BehindFacts /\ ~Greedy /\ Compact => BehindFacts'
<1> SUFFICES ASSUME BufferInv, BehindFacts, ~Greedy, Compact PROVE BehindFacts'
  OBVIOUS
<1>1. /\ unencoded_offset \in Nat /\ Len(used) \in Nat /\ used \in Seq(Insts) /\ r1 \in Nat \ {0}
  BY StateNumbers, UsedElements DEF BufferInv, TypeOK
<1>2. /\ pc = "COMPACT" /\ pc' \in {"COMPACT", "ENCODE"}
      /\ UNCHANGED <<input_position, new, unencoded_offset, profile, force, flushed>>
  BY DEF Compact, SkipDisjoint, DropIrrelevant, DropShorter, ShortenOne, EndCompact, Compacting, outVars,
         sizeVars, matchVars
<1>3. \A i \in 1 .. Len(used) : used[i].pos \in Nat
  BY UsedNumbers DEF BufferInv
<1>4. used' # <<>> => /\ used # <<>> /\ 1 \in 1 .. Len(used)
                     /\ used'[1].pos \in Nat /\ used'[1].pos >= used[1].pos
  <2>1. ASSUME used # <<>>, used' = used
        PROVE  /\ 1 \in 1 .. Len(used)
               /\ used'[1].pos \in Nat /\ used'[1].pos >= used[1].pos
    <3>1. 1 \in 1 .. Len(used)
      BY <1>1, <2>1
    <3>2. QED
      BY <1>3, <2>1, <3>1
  <2>2. ASSUME NEW k \in 1 .. Len(used), used' = Without(k), used' # <<>>
        PROVE  /\ used # <<>> /\ 1 \in 1 .. Len(used)
               /\ used'[1].pos \in Nat /\ used'[1].pos >= used[1].pos
    <3>1. /\ used' \in Seq(Insts) /\ Len(used') = Len(used) - 1
          /\ \A i \in 1 .. Len(used) - 1 : used'[i] = IF i < k THEN used[i] ELSE used[i + 1]
      BY <1>1, <2>2, RemoveAtProperties DEF Without
    <3>2. Len(used') # 0 /\ Len(used') \in Nat
      BY <2>2, <3>1
    <3>3. 1 \in 1 .. Len(used) - 1 /\ 1 \in 1 .. Len(used) /\ 1 + 1 \in 1 .. Len(used) /\ used # <<>>
      BY <1>1, <3>1, <3>2
    <3>4. used'[1] \in {used[1], used[1 + 1]}
      BY <3>1, <3>3
    <3>5. used[1].pos < used[1 + 1].pos
      BY <3>3 DEF BufferInv, InOrder
    <3>6. used'[1].pos = used[1].pos \/ used'[1].pos = used[1 + 1].pos
      BY <3>4
    <3>7. QED
      BY <1>3, <3>3, <3>5, <3>6
  <2>3. CASE SkipDisjoint \/ EndCompact
    BY <2>1, <2>3 DEF SkipDisjoint, EndCompact
  <2>4. CASE DropIrrelevant
    <3>1. r1 + 1 \in 1 .. Len(used)
      BY <1>1, <2>4 DEF DropIrrelevant, Irrelevant, Third
    <3>2. QED
      BY <2>2, <2>4, <3>1 DEF DropIrrelevant
  <2>5. CASE DropShorter
    <3>1. r1 \in 1 .. Len(used) /\ r1 + 1 \in 1 .. Len(used)
      BY <1>1, <2>5 DEF DropShorter, Judged, Overlap, Pair
    <3>2. QED
      BY <2>2, <2>5, <3>1 DEF DropShorter
  <2>6. CASE ShortenOne
    <3>1. r1 < Len(used)
      BY <2>6 DEF ShortenOne, Judged, Overlap, Pair
    <3>2. r1 + 1 # 1 /\ 1 \in 1 .. Len(used)
      BY <1>1, <3>1
    <3>3. used[1] \in Insts /\ used[1].pos \in Nat
      BY <1>1, <1>3, <3>2
    <3> DEFINE cut == Shorten(At(r1), At(r1 + 1))
    <3>4. used' = [used EXCEPT ![r1].size = @ - cut[1],
                               ![r1 + 1].size = @ - cut[2],
                               ![r1 + 1].pos  = @ + cut[2],
                               ![r1 + 1].addr = @ + cut[2]]
      BY <2>6 DEF ShortenOne
    <3> HIDE DEF cut
    <3>5. used'[1].pos = used[1].pos
      BY <1>1, <3>2, <3>3, <3>4 DEF Insts, Instructions
    <3>6. QED
      BY <1>1, <3>2, <3>3, <3>5
  <2>7. QED
    BY <2>3, <2>4, <2>5, <2>6 DEF Compact
<1>5. FrontBehind'
  <2>1. used' # <<>> => used'[1].pos >= unencoded_offset
    <3>1. ASSUME used' # <<>>
          PROVE  used'[1].pos >= unencoded_offset
      <4>1. used[1].pos >= unencoded_offset /\ used[1].pos \in Nat
        BY <1>3, <1>4, <3>1 DEF BehindFacts, FrontBehind
      <4>2. used'[1].pos \in Nat /\ used'[1].pos >= used[1].pos
        BY <1>4, <3>1
      <4>3. unencoded_offset \in Nat
        BY <1>1
      <4>4. QED
        BY <4>1, <4>2, <4>3
    <3>2. QED
      BY <3>1
  <2>2. QED
    BY <1>2, <2>1 DEF BehindFacts, FrontBehind
<1>6. flushed = 0 /\ AvailIn' = AvailIn
  BY <1>2 DEF BehindFacts, AvailIn
<1>7. QED
  BY <1>2, <1>5, <1>6 DEF BehindFacts

\* The front instruction ends no later than what follows it starts.
LEMMA FrontEnds ==
  ASSUME BufferInv, BehindFacts, FrontSettled, pc = "ENCODE", used # <<>>
  PROVE  /\ Len(used) > 1 => End(used[1]) <= used[1 + 1].pos
         /\ new # None => End(used[1]) <= new.inst.pos
<1>1. used \in Seq(Insts) /\ Len(used) \in Nat /\ 1 \in 1 .. Len(used) /\ flushed \in Nat
  BY UsedElements DEF BufferInv, TypeOK
<1>0. Len(used) \in Nat /\ Len(used) >= 1 /\ flushed \in Nat
  BY <1>1
<1>6. (Len(used) > 1 \/ Len(used) = 1) /\ (Len(used) > 2 \/ ~(Len(used) > 1) \/ Len(used) = 2)
      /\ (Len(used) > 2 => 1 < Len(used) - 1 /\ 1 + 1 < Len(used))
  <2> DEFINE n == Len(used)
  <2>1. n \in Nat /\ n >= 1
    BY <1>0
  <2> HIDE DEF n
  <2>2. (n > 1 \/ n = 1) /\ (n > 2 \/ ~(n > 1) \/ n = 2) /\ (n > 2 => 1 < n - 1 /\ 1 + 1 < n)
    BY <2>1
  <2>3. QED
    BY <2>2 DEF n
<1>2. \A i \in 1 .. Len(used) : used[i].pos \in Nat /\ End(used[i]) \in Nat
  BY UsedNumbers DEF BufferInv
<1>3. ASSUME Len(used) > 1
      PROVE  End(used[1]) <= used[1 + 1].pos
  <2>1. 1 \in 1 .. Len(used) - 1
    BY <1>1, <1>3
  <2>2. CASE force \/ 1 < Len(used) - 1
    BY <2>1, <2>2 DEF BufferInv, Compacted, Disjoint
  <2>3. CASE ~(force \/ 1 < Len(used) - 1)
    <3>1. ~force /\ Len(used) = 2
      BY <1>3, <1>6, <2>3, Zenon
    <3>2. flushed = 0 /\ new # None
      BY <1>0, <3>1 DEF BehindFacts, BufferInv, TypeOK
    <3>3. new.inst \in Insts
      BY <3>2, NewFields DEF BufferInv
    <3>4. Buffered = Append(used, new.inst)
      BY <3>2 DEF Buffered
    <3>5. \A i \in 1 .. Len(used) : Append(used, new.inst)[i] = used[i]
      BY <1>1, <3>3, AppendProperties
    <3>6. 1 \in 1 .. Len(used) /\ 2 \in 1 .. Len(used) /\ 1 + 1 = 2 /\ Len(used) \in 1 .. 2
      BY <3>1
    <3>7. QED
      BY <3>1, <3>2, <3>4, <3>5, <3>6 DEF FrontSettled
  <2>4. QED
    BY <2>2, <2>3
<1>4. ASSUME new # None
      PROVE  End(used[1]) <= new.inst.pos
  <2>1. new.inst \in Insts /\ new.inst.pos \in Nat /\ ~force
    BY <1>4, NewFields DEF BufferInv, TypeOK
  <2>2. used[Len(used)].pos < new.inst.pos
    BY <1>4 DEF BufferInv, NewSound
  <2>3. CASE Len(used) > 1
    <3>1. Len(used) \in 1 .. Len(used) /\ 1 + 1 \in 1 .. Len(used)
      BY <1>1, <2>3
    <3>2. used[1 + 1].pos <= used[Len(used)].pos
      <4>1. used[1 + 1].pos \in Nat /\ used[Len(used)].pos \in Nat
        BY <1>2, <3>1
      <4>2. CASE Len(used) > 2
        <5>1. 1 + 1 < Len(used)
          BY <1>6, <4>2, Zenon
        <5>2. used[1 + 1].pos < used[Len(used)].pos
          BY <3>1, <5>1, OrderedApart DEF BufferInv
        <5>3. QED
          BY <4>1, <5>2
      <4>3. CASE Len(used) = 2
        BY <4>1, <4>3
      <4>4. QED
        BY <1>6, <2>3, <4>2, <4>3, Zenon
    <3>3. used[1 + 1].pos \in Nat /\ used[Len(used)].pos \in Nat /\ End(used[1]) \in Nat
      BY <1>1, <1>2, <3>1
    <3>4. End(used[1]) <= used[1 + 1].pos
      BY <1>3, <2>3
    <3>5. QED
      BY <2>1, <2>2, <3>2, <3>3, <3>4
  <2>4. CASE ~(Len(used) > 1)
    <3>1. Len(used) = 1
      BY <1>6, <2>4, Zenon
    <3>2. flushed = 0
      BY <1>0, <2>1, <3>1 DEF BehindFacts
    <3>3. Buffered = Append(used, new.inst)
      BY <1>4 DEF Buffered
    <3>4. /\ \A i \in 1 .. Len(used) : Append(used, new.inst)[i] = used[i]
          /\ Append(used, new.inst)[Len(used) + 1] = new.inst
      BY <1>1, <2>1, AppendProperties
    <3>5. 1 \in 1 .. Len(used) /\ Len(used) + 1 = 2 /\ Len(used) \in 1 .. 2
      BY <3>1
    <3>6. Buffered[1] = used[1] /\ Buffered[2] = new.inst
      BY <3>3, <3>4, <3>5
    <3>7. QED
      BY <2>1, <3>2, <3>5, <3>6 DEF FrontSettled
  <2>5. QED
    BY <2>3, <2>4
<1>5. QED
  BY <1>3, <1>4

LEMMA EncodeBehind ==
  BufferInv /\ BehindFacts /\ FrontSettled /\ ~Greedy /\ Encode => BehindFacts'
<1> SUFFICES ASSUME BufferInv, BehindFacts, FrontSettled, ~Greedy, Encode PROVE BehindFacts'
  OBVIOUS
<1>1. /\ unencoded_offset \in Nat /\ Len(used) \in Nat /\ used \in Seq(Insts) /\ flushed \in Nat
      /\ input_position \in Nat /\ AvailIn \in Nat
  BY StateNumbers, UsedElements DEF BufferInv, TypeOK
<1>2. pc = "ENCODE"
  BY DEF Encode, EncodeFront, Finalize
<1>3. CASE EncodeFront
  <2>1. /\ used # <<>> /\ used' = Tail(used)
        /\ unencoded_offset' = Larger(unencoded_offset, Head(used).pos) + Head(used).size
        /\ flushed' = IF force THEN flushed ELSE flushed + 1
        /\ pc' = IF ~force /\ (flushed + 1 > slots \div 2 \/ Len(used) - 1 <= 2)
                 THEN "PLACE" ELSE "ENCODE"
        /\ UNCHANGED <<input_position, new, profile, force>>
    BY <1>3 DEF EncodeFront, matchVars, sizeVars
  <2>2. Head(used) = used[1] /\ 1 \in 1 .. Len(used)
    BY <1>1, <2>1
  <2>3. /\ used[1].pos \in Nat /\ used[1].size \in Nat /\ End(used[1]) \in Nat
        /\ End(used[1]) = used[1].pos + used[1].size
    BY <2>2, UsedNumbers DEF BufferInv
  <2>4. unencoded_offset' = End(used[1]) /\ End(used[1]) <= AvailIn
    <3>1. used[1].pos >= unencoded_offset
      BY <2>1 DEF BehindFacts, FrontBehind
    <3>2. End(used[1]) <= AvailIn
      BY <2>2 DEF BufferInv, InOrder
    <3>3. QED
      BY <1>1, <2>1, <2>2, <2>3, <3>1, <3>2 DEF Larger
  <2>5. /\ Len(used') = Len(used) - 1
        /\ used' # <<>> => used'[1] = used[1 + 1] /\ Len(used) > 1 /\ 1 + 1 \in 1 .. Len(used)
    <3>1. /\ used' \in Seq(Insts) /\ Len(used') = Len(used) - 1
          /\ \A i \in 1 .. Len(used) - 1 : used'[i] = used[i + 1] /\ i + 1 \in 1 .. Len(used)
      BY <2>1, TailOfUsed
    <3>2. used' # <<>> => 1 \in 1 .. Len(used) - 1
      BY <1>1, <3>1
    <3>3. QED
      BY <1>1, <3>1, <3>2
  <2>6. /\ Len(used) > 1 => End(used[1]) <= used[1 + 1].pos
        /\ new # None => End(used[1]) <= new.inst.pos
    BY <1>2, <2>1, FrontEnds
  <2>7. FrontBehind'
    <3>1. used' # <<>> => used'[1].pos >= unencoded_offset'
      <4>1. ASSUME used' # <<>>
            PROVE  used'[1].pos >= unencoded_offset'
        <5>1. used[1 + 1].pos \in Nat
          BY <2>5, <4>1, UsedNumbers DEF BufferInv
        <5>2. End(used[1]) <= used[1 + 1].pos
          BY <2>5, <2>6, <4>1
        <5>3. QED
          BY <2>3, <2>4, <2>5, <4>1, <5>1, <5>2
      <4>2. QED
        BY <4>1
    <3>2. new' # None => new'.inst.pos >= unencoded_offset'
      <4>1. ASSUME new # None
            PROVE  new.inst.pos >= End(used[1])
        <5>1. new.inst.pos \in Nat
          BY <4>1, NewFields DEF BufferInv
        <5>2. QED
          BY <2>3, <2>6, <4>1, <5>1
      <4>2. QED
        BY <2>1, <2>4, <4>1
    <3>3. QED
      BY <3>1, <3>2 DEF FrontBehind
  <2>8. ~force => unencoded_offset' <= input_position'
    <3>1. ASSUME ~force
          PROVE  End(used[1]) <= input_position
      <4>1. new # None
        BY <1>2, <3>1 DEF BufferInv, TypeOK
      <4>2. new.inst.pos \in Nat /\ new.inst.pos <= input_position
        BY <4>1, NewFields DEF BufferInv, NewSound
      <4>3. End(used[1]) <= new.inst.pos
        BY <2>6, <4>1
      <4>4. QED
        BY <1>1, <2>3, <4>2, <4>3
    <3>2. QED
      BY <2>1, <2>4, <3>1
  <2>9. pc' = "ENCODE" /\ ~force' => Len(used') > 2
    BY <1>1, <2>1, <2>5
  <2>10. /\ pc' \in {"PLACE", "ENCODE"}
         /\ pc' \in {"PLACE", "ENCODE"} /\ (pc' \in {"COMPACT", "ENCODE"} => ~force') => ~force
    BY <2>1
  <2>11. unencoded_offset' <= AvailIn'
    BY <2>1, <2>4 DEF AvailIn
  <2>12. QED
    BY <2>7, <2>8, <2>9, <2>10, <2>11 DEF BehindFacts
<1>4. CASE Finalize
  <2>1. /\ used = <<>> /\ used' = used /\ new' = new /\ force /\ pc' = "DONE"
        /\ unencoded_offset' = Larger(unencoded_offset, AvailIn) /\ profile' = profile
    BY <1>4 DEF Finalize, matchVars, sizeVars
  <2>2. new = None /\ unencoded_offset <= AvailIn /\ AvailIn' = AvailIn
    BY <1>2, <2>1 DEF BufferInv, TypeOK, BehindFacts, AvailIn
  <2>3. unencoded_offset' <= AvailIn'
    BY <1>1, <2>1, <2>2 DEF Larger
  <2>4. QED
    BY <2>1, <2>2, <2>3 DEF BehindFacts, FrontBehind
<1>5. QED
  BY <1>3, <1>4 DEF Encode

LEMMA BehindNext ==
  BufferInv /\ BehindFacts /\ FrontSettled /\ ~Greedy /\ [Next]_vars => BehindFacts'
<1> SUFFICES ASSUME BufferInv, BehindFacts, FrontSettled, ~Greedy, [Next]_vars PROVE BehindFacts'
  OBVIOUS
<1>1. CASE UNCHANGED vars
  BY <1>1 DEF vars, matchVars, bufVars, sizeVars, outVars, flushVars, BehindFacts, FrontBehind, AvailIn
<1>2. CASE Match \/ Slot \/ Compact \/ Encode
  BY <1>2, MatchBehind, SlotBehind, CompactBehind, EncodeBehind
<1>3. QED
  BY <1>1, <1>2 DEF Next, Done

\* In a buffer that grows (-I 0), which is never flushed before the window ends, no
\* instruction starts before what is encoded, and the matcher does not search behind
\* it: the assertions of xd3_iopt_finish_encoding and xd3_source_match_setup.
THEOREM NothingBehindAlways ==
  ASSUME \A p \in Profiles : ~p.greedy /\ p.unlimited
  PROVE  Spec => []NothingBehind
<1>1. Spec => []SlotsInv
  BY SlotsInvAlways
<1>2. BufferInv => ~Greedy
  BY DEF BufferInv, TypeOK, Greedy
<1>3. BufferInv /\ SlotsInv => FrontSettled
  BY DEF BufferInv, TypeOK, SlotsInv, FrontSettled
<1>4. Init => BehindFacts
  <2> SUFFICES ASSUME Init PROVE BehindFacts
    OBVIOUS
  <2>1. AvailIn \in Nat
    BY ProfileNumbers DEF Init
  <2>2. QED
    BY <2>1 DEF Init, BehindFacts, FrontBehind
<1>5. BufferInv /\ BehindFacts => NothingBehind
  BY <1>2, BehindEquals DEF BehindInv
<1>6. BufferInv /\ SlotsInv /\ BehindFacts /\ [Next]_vars => BehindFacts'
  BY <1>2, <1>3, BehindNext
<1>7. QED
  BY <1>1, <1>4, <1>5, <1>6, BufferAlways, PTL DEF Spec
=============================================================================
