----------------------------- MODULE MCXdelta1 -----------------------------
(***************************************************************************)
(* xdelta 1 on two letters.  Pages of eight bytes, blocks of four, sums    *)
(* modulo four so that different windows often agree, and a table that is  *)
(* too small for the blocks of the source.                                 *)
(***************************************************************************)
EXTENDS Xdelta1

MCCHEW(b) == b + 1
MCCHash(low, high) == low + 2 * high

\* Sources of three pages, of one page, of less than a block and of nothing.
Long == <<0, 0, 0, 1, 0, 1, 1, 1, 0, 0, 1, 1, 0, 1, 0, 0, 1, 0>>
Sources == {Long, SubSeq(Long, 1, 8), <<0, 1, 0>>, <<>>}

\* Targets put together from pieces of the long source and other letters.
Pieces(lens) == {SubSeq(Long, i, i + n - 1) : i \in {1, 3, 6, 8}, n \in lens}
Targets ==
  {a \o b \o c : a \in {<<>>, <<1>>, <<1, 1, 1, 0, 0, 0>>} \cup Pieces({5}),
                 b \in {<<>>, <<1, 0, 1>>} \cup Pieces({4, 8, 10}),
                 c \in {<<>>, <<0, 0>>} \cup Pieces({5, 9})}

\* Another source of the same length, and one of another.
Others(s) == {s, <<>>} \cup (IF s = <<>> THEN {} ELSE {[s EXCEPT ![Len(s)] = 1 - @]})

MCInputs ==
  {[target |-> t, source |-> s, given |-> s, verify |-> v, writes |-> w] :
     t \in Targets, s \in Sources, v \in {TRUE}, w \in {99}}
  \cup UNION {{[target |-> t, source |-> s, given |-> g, verify |-> v, writes |-> w] :
     g \in Others(s), t \in Pieces({6, 10}) \cup {<<>>, <<1, 1>> \o Long \o <<0>>},
     v \in BOOLEAN, w \in {1, 2, 3, 99}} : s \in Sources}
=============================================================================
