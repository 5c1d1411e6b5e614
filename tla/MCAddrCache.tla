---------------------------- MODULE MCAddrCache ----------------------------
(***************************************************************************)
(* A small instance of AddrCache: two near slots and two pages of the same *)
(* table, so that the ring wraps, two addresses share a same slot, both    *)
(* pages are used, and integers of one, two and three bytes occur.         *)
(***************************************************************************)
EXTENDS AddrCache

MCSegments == {0, 3}
MCLengths == {0, 3, 6}
MCSizes == {1, 2}
=============================================================================
