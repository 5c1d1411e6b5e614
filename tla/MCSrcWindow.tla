----------------------------- MODULE MCSrcWindow -----------------------------
(* Sources, targets and configurations for model checking SrcWindow. *)
EXTENDS SrcWindow, TLC

\* Bytes that repeat, so that hashes collide and matches have rivals.
Letters == <<1, 2, 3, 1, 2, 1, 3, 3, 1, 2, 3, 2, 2, 1, 3, 1, 1, 2, 3, 3, 2, 1, 2, 3>>
Source(n) == SubSeq(Letters, 1, n)

MCSlot(slots, cksum) == (cksum + cksum \div 5) % slots
\* Short copies are dropped from these distances on (2^14 and 2^21).
MCFar == (2 :> 5) @@ (3 :> 8)

\* A window is a stretch of the source, two stretches, or a stretch after a byte
\* that is not in the source or a run of a byte; or it is empty.
Stretch(a, n) == SubSeq(Letters, a, a + n - 1)
Whole == {Stretch(1, 8), Stretch(9, 8), Stretch(17, 8), Stretch(6, 8)}
Mixed == {Stretch(4, 5) \o Stretch(13, 5), Stretch(14, 5) \o Stretch(5, 6), Stretch(19, 4) \o Stretch(2, 6),
          Stretch(9, 4) \o <<4>> \o Stretch(2, 5), <<4, 2, 2, 2, 2, 2>> \o Stretch(11, 5),
          Stretch(17, 7), <<>>}
Pairs   == {<<a, b>> : a, b \in Whole \cup Mixed}
Triples == {<<a, b, c>> : a, b \in Whole, c \in Mixed}

Encoding(sizes, blk, lru, kind, size_known, slots, targets) ==
  {[source |-> Source(n), windows |-> t, blk |-> blk, lru |-> lru, window |-> blk * lru,
    kind |-> kind, size_known |-> size_known, slots |-> k, small |-> TRUE] :
     n \in sizes, t \in targets, k \in slots}
NoCompress(encodings) == {[e EXCEPT !.small = FALSE] : e \in encodings}

\* Windows of a few letters, longer than the ring of chains, to be found in themselves.
Dense == {<<1, 2, 1, 2, 1, 1, 2, 1, 2, 2, 1, 2, 1, 2, 2, 1, 1, 2, 1, 2, 1, 2>>,
          <<1, 1, 2, 1, 1, 2, 2, 1, 1, 1, 1, 1, 1, 2, 1, 1, 1, 1, 2, 2, 2, 2, 2, 1>>,
          <<1, 2, 3, 3, 1, 2, 1, 2, 3, 3, 3, 3, 3, 1, 2, 3, 1, 2, 3, 3, 3>>,
          <<2, 1, 4, 2, 4, 3, 2, 1, 4, 2, 4, 3, 2, 1, 4, 1, 4, 2, 4, 4, 2, 1>>,
          <<1, 2, 4, 1, 2, 3, 1, 2, 3, 1, 4, 1, 2, 4, 4, 1, 2, 3, 4, 1, 2, 1>>}
AllPairs == {<<a, b>> : a, b \in Dense \cup Whole \cup Mixed}

\* Sources of several windows, of a part of a block, and of whole blocks; a
\* buffer that grows, and buffers of two and three instructions; no source at all.
MCEncodings ==
  Encoding({24}, 4, 2, "file", TRUE, {0, 2}, AllPairs) \cup
  NoCompress(Encoding({24}, 4, 2, "file", TRUE, {2}, Pairs)) \cup
  Encoding({24}, 4, 2, "pipe", FALSE, {0, 2}, Pairs \cup Triples) \cup
  Encoding({22}, 4, 2, "app", FALSE, {0, 2}, Pairs \cup Triples) \cup
  Encoding({24}, 8, 1, "app", TRUE, {2}, Pairs) \cup
  Encoding({3}, 4, 2, "app", FALSE, {2}, Pairs) \cup
  Encoding({3, 8}, 8, 1, "single", TRUE, {0, 2}, Pairs) \cup
  Encoding({0}, 4, 2, "none", TRUE, {0, 2, 3}, AllPairs)
==============================================================================
