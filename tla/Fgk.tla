--------------------------------- MODULE Fgk ---------------------------------
(***************************************************************************)
(* Adaptive Huffman coding (xdelta3-fgk.h).  The encoder and the decoder   *)
(* each have a tree, which they change in the same way after each symbol,  *)
(* and which is never sent.  The nodes are linked three times: as a tree,  *)
(* as a list in the order of weights, and in blocks of equal weight whose  *)
(* leader is the rightmost; the symbols that have not occurred are a list  *)
(* of their own, in the child pointers of its members, and its first       *)
(* member stands in the tree for all of them.                              *)
(***************************************************************************)
EXTENDS BitIO

total_nodes == 2 * ALPHABET_SIZE - 1
total_blocks == 2 * total_nodes
Nodes  == 0 .. total_nodes - 1   \* h->alphabet, and after it the internal nodes
Blocks == 1 .. total_blocks
NULL   == -1

-----------------------------------------------------------------------------
(* The blocks that are free are a stack. *)

MakeBlock(t, lead, node) ==
  [t EXCEPT !.my_block[node] = Head(t.free_block), !.leader[Head(t.free_block)] = lead,
            !.free_block = Tail(@)]
FreeBlock(t, block) == [t EXCEPT !.free_block = <<block>> \o @]

Log2(n) == CHOOSE e \in 0 .. n : 2^e <= n /\ n < 2^(e + 1)

\* fgk_factor_remaining.
FactorRemaining(t) ==
  LET count == t.zero_freq_count - 1
      exp == IF count > 1 THEN Log2(count) ELSE 0
  IN  [t EXCEPT !.zero_freq_count = count, !.zero_freq_exp = exp, !.zero_freq_rem = count - 2^exp]

\* fgk_alloc and fgk_init.
InitTree ==
  FactorRemaining(FactorRemaining(
    [weight |-> [n \in Nodes |-> 0], parent |-> [n \in Nodes |-> NULL],
     left_child  |-> [n \in Nodes |-> IF n \in Symbols THEN n - 1 ELSE NULL],
     right_child |-> [n \in Nodes |-> IF n < ALPHABET_SIZE - 1 THEN n + 1 ELSE NULL],
     left |-> [n \in Nodes |-> NULL], right |-> [n \in Nodes |-> NULL],
     my_block |-> [n \in Nodes |-> NULL], leader |-> [b \in Blocks |-> NULL],
     free_block |-> [b \in Blocks |-> b],
     root |-> 0, zeros |-> 0, free_node |-> ALPHABET_SIZE,
     zero_freq_count |-> ALPHABET_SIZE + 2, zero_freq_exp |-> 0, zero_freq_rem |-> 0]))

-----------------------------------------------------------------------------
(* The update after a symbol. *)

\* fgk_eliminate_zero, on the list of the symbols that have not occurred.
EliminateZero(tree, node) ==
  LET t == FactorRemaining(tree)
      l == t.left_child[node]
      r == t.right_child[node]
  IN  IF tree.zero_freq_count = 1 THEN tree
      ELSE IF l = NULL THEN LET head == t.right_child[t.zeros]
                            IN  [t EXCEPT !.zeros = head, !.left_child[head] = NULL]
      ELSE IF r = NULL THEN [t EXCEPT !.right_child[l] = NULL]
      ELSE [t EXCEPT !.left_child[r] = l, !.right_child[l] = r]

SetChild(t, parent, old, new) ==
  IF t.right_child[parent] = old THEN [t EXCEPT !.right_child[parent] = new]
  ELSE [t EXCEPT !.left_child[parent] = new]

\* The block of a node that enters next to one of weight 1, or its own.
EnterBlock(t, node) ==
  LET right == t.right[node]
  IN  IF t.weight[right] = 1 THEN [t EXCEPT !.my_block[node] = t.my_block[right]]
      ELSE MakeBlock(t, node, node)

\* fgk_increase_zero_weight: a new internal node takes the place of the zeros; its
\* children are the zeros that are left, and the symbol.
IncreaseZeroWeight(t, this) ==
  LET zero == t.zeros
      new == t.free_node
      linked == [t EXCEPT !.free_node = new + 1, !.parent[new] = t.parent[zero],
                          !.right[new] = t.right[zero], !.weight[new] = 0,
                          !.right_child[new] = this, !.left[new] = this]
      placed ==
        IF zero = t.root
          THEN MakeBlock(MakeBlock([linked EXCEPT !.root = new], this, this), new, new)
          ELSE LET entered == EnterBlock(SetChild([linked EXCEPT !.left[linked.right[new]] = new],
                                                  t.parent[zero], zero, new), new)
               IN  [entered EXCEPT !.my_block[this] = entered.my_block[new]]
      without == EliminateZero(placed, this)
      rest == without.zeros
  IN  IF t.zero_freq_count = 1
        THEN [EnterBlock([t EXCEPT !.right_child[this] = NULL], this) EXCEPT !.zeros = NULL]
        ELSE [without EXCEPT !.left_child[new] = rest, !.left_child[this] = NULL,
                             !.right_child[this] = NULL,
                             !.right[this] = new, !.left[this] = rest, !.parent[this] = new,
                             !.parent[rest] = new, !.right[rest] = this]

\* fgk_move_right: the node changes places with the leader of its block.
MoveRight(t, fwd) ==
  LET back == t.leader[t.my_block[fwd]]
      lists ==
        LET a == [t EXCEPT !.left[t.right[back]] = fwd]
            b == IF a.left[fwd] # NULL THEN [a EXCEPT !.right[a.left[fwd]] = back] ELSE a
            c == [b EXCEPT !.right[fwd] = b.right[back]]
            d == IF b.right[fwd] = back THEN [c EXCEPT !.right[back] = fwd]
                 ELSE [c EXCEPT !.left[b.right[fwd]] = back, !.right[back] = b.right[fwd]]
            e == [d EXCEPT !.left[back] = d.left[fwd]]
        IN  IF d.left[back] = fwd THEN [e EXCEPT !.left[fwd] = back]
            ELSE [e EXCEPT !.right[d.left[back]] = fwd, !.left[fwd] = d.left[back]]
      fp == t.parent[fwd]
      bp == t.parent[back]
      \* Both places are looked up before they change, for brothers too.
      Place(p, n) == IF t.right_child[p] = n THEN "R" ELSE "L"
      Put(u, p, side, n) == IF side = "R" THEN [u EXCEPT !.right_child[p] = n]
                            ELSE [u EXCEPT !.left_child[p] = n]
      swapped == Put(Put([lists EXCEPT !.parent[fwd] = bp, !.parent[back] = fp],
                         fp, Place(fp, fwd), back), bp, Place(bp, back), fwd)
  IN  IF fwd = back \/ t.parent[fwd] = back \/ t.weight[fwd] = 0 THEN t
      ELSE [swapped EXCEPT !.leader[t.my_block[fwd]] = fwd]

\* fgk_promote: the node, which leads its block, goes to the next one.
PromoteMutantFree(t, node) ==
  LET right == t.right[node]
      left == t.left[node]
      next == t.weight[node] = t.weight[right] - 1 /\ right # t.root
      free == FreeBlock(t, t.my_block[node])
  IN  IF t.weight[node] = 0 \/ left = t.zeros THEN t
      ELSE IF next THEN [free EXCEPT !.my_block[node] = t.my_block[right]]
      ELSE MakeBlock(free, node, node)
Promote(t, node) ==
  LET right == t.right[node]
      left == t.left[node]
      lc == t.left_child[node]
      block == t.my_block[node]
      next == t.weight[node] = t.weight[right] - 1 /\ right # t.root
      left_alone == IF t.my_block[left] = block THEN [t EXCEPT !.leader[block] = left]
                    ELSE FreeBlock(t, block)
  IN  IF t.weight[node] = 0 THEN t
      ELSE IF left = t.right_child[node] /\ lc # NULL /\ t.weight[lc] = 0
        THEN IF next THEN [FreeBlock(t, block) EXCEPT !.my_block[node] = t.my_block[right],
                                                      !.my_block[left] = t.my_block[right]]
             ELSE t
      ELSE IF left = t.zeros THEN t
      ELSE IF next THEN [left_alone EXCEPT !.my_block[node] = left_alone.my_block[right]]
      ELSE MakeBlock(left_alone, node, node)

\* fgk_update_tree: from the symbol to the root.
RECURSIVE Climb(_, _)
Climb(t, node) ==
  LET p == Promote(MoveRight(t, node), node)
  IN  IF node = t.root THEN [t EXCEPT !.weight[node] = @ + 1]
      ELSE Climb([p EXCEPT !.weight[node] = @ + 1], p.parent[node])

UpdateTree(t, n) == Climb(IF t.weight[n] = 0 THEN IncreaseZeroWeight(t, n) ELSE t, n)

-----------------------------------------------------------------------------
(* The list of zeros, and the codes. *)

\* The list of zeros from a node on.
RECURSIVE From(_, _)
From(t, node) == IF node = NULL THEN <<>> ELSE <<node>> \o From(t, t.right_child[node])
ZeroList(t) == From(t, t.zeros)

ZeroBits(t) == t.zero_freq_exp + (IF t.zero_freq_rem = 0 THEN 0 ELSE 1)

\* The path from the root to a node: 1 is to the right.
RECURSIVE Path(_, _)
Path(t, node) ==
  LET p == t.parent[node]
  IN  IF node = t.root THEN <<>> ELSE Append(Path(t, p), IF t.right_child[p] = node THEN 1 ELSE 0)

\* fgk_encode_data: the code of a symbol, in the tree before it is updated.
Code(t, n) ==
  IF t.weight[n] = 0
    THEN LET where == CHOOSE k \in 1 .. t.zero_freq_count : ZeroList(t)[k] = n   \* fgk_find_nth_zero, from 1
         IN  Path(t, t.zeros) \o EncodeBits(ZeroBits(t), where - 1)
    ELSE Path(t, n)

\* fgk_decode_bit: d is [at, coded], where the decoder is in the tree and which bits of
\* an index it has; the result also says whether the code is complete.
DecodeBit(t, d, bit) ==
  IF t.weight[d.at] = 0
    THEN [at |-> d.at, coded |-> Append(d.coded, bit), done |-> Len(d.coded) + 1 >= ZeroBits(t)]
    ELSE LET at == IF bit = 1 THEN t.right_child[d.at] ELSE t.left_child[d.at]
         IN  [at |-> at, coded |-> d.coded,
              done |-> t.left_child[at] = NULL /\ (t.weight[at] # 0 \/ t.zero_freq_count = 1)]

\* fgk_decode_data and fgk_nth_zero, which stops at the end of the list.  With one zero left there
\* are no bits, and the bit of an earlier code that is read finds it all the same.
DecodeData(t, d) ==
  IF t.weight[d.at] # 0 THEN d.at
  ELSE LET n == DecodeBits(d.coded)
       IN  ZeroList(t)[IF n < t.zero_freq_count THEN n + 1 ELSE t.zero_freq_count]

-----------------------------------------------------------------------------
(* What a tree must be. *)

InTree(t) == {n \in Nodes : n = t.root \/ t.parent[n] # NULL}
Leaf(t, n) == n \in Symbols

\* Each node is the child of its parent, and an internal node's weight is that of its children.
TreeWellFormed(t) ==
  \A n \in InTree(t) :
    /\ n # t.root => n \in {t.left_child[t.parent[n]], t.right_child[t.parent[n]]}
    /\ ~Leaf(t, n) => t.weight[n] = t.weight[t.left_child[n]] + t.weight[t.right_child[n]]

\* The blocks that nodes are in and the free ones are all blocks, and none is both.
BlocksKept(t) ==
  LET used == {t.my_block[n] : n \in InTree(t) \ {t.zeros}}
  IN  /\ \A i, j \in DOMAIN t.free_block : i # j => t.free_block[i] # t.free_block[j]
      /\ used \cap Range(t.free_block) = {}
==============================================================================
