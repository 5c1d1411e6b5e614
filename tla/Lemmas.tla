------------------------------- MODULE Lemmas -------------------------------
(***************************************************************************)
(* Facts about numbers and sequences that the proofs of several components *)
(* need.                                                                   *)
(***************************************************************************)
EXTENDS Integers, Sequences, NaturalsInduction, WellFoundedInduction, SequenceTheorems, TLAPS

\* A non-empty set of naturals has a least element.
LEMMA LeastNat ==
  ASSUME NEW S, S \subseteq Nat, S # {}
  PROVE  \E m \in S : \A n \in S : m <= n
<1> DEFINE R == OpToRel(<, Nat)
<1>1. \A x, y \in Nat : x < y => <<x, y>> \in R
  BY DEF OpToRel
<1>2. IsWellFoundedOn(R, Nat)
  BY NatLessThanWellFounded
<1> HIDE DEF R
<1>3. PICK m \in S : \A n \in S : <<n, m>> \notin R
  BY <1>2, WFMin
<1>4. \A n \in S : ~(n < m)
  BY <1>1, <1>3, Zenon
<1>5. m \in Nat /\ \A n \in S : n \in Nat
  BY <1>3
<1>6. \A n \in S : m <= n
  BY <1>4, <1>5
<1>7. QED
  BY <1>3, <1>6

\* What grows from each index to the next grows over any number of them.
LEMMA IncreasingSteps ==
  ASSUME NEW n \in Nat, NEW f, \A i \in 1 .. n : f[i] \in Int,
         \A i \in 1 .. n - 1 : f[i] < f[i + 1]
  PROVE  \A i, j \in 1 .. n : i < j => f[i] < f[j]
<1> SUFFICES ASSUME NEW i \in 1 .. n, NEW k \in 1 .. n, i < k, ~(f[i] < f[k])
             PROVE  FALSE
  OBVIOUS
<1> DEFINE S == {j \in i + 1 .. n : ~(f[i] < f[j])}
<1>1. S \subseteq Nat /\ S # {}
  OBVIOUS
<1>2. PICK j \in S : \A m \in S : j <= m
  <2> HIDE DEF S
  <2> QED BY <1>1, LeastNat
<1>3. j - 1 \in i .. n /\ j - 1 \notin S
  BY <1>2
<1>4. f[i] <= f[j - 1]
  BY <1>3
<1>5. f[j - 1] < f[j]
  <2>1. j - 1 \in 1 .. n - 1 /\ (j - 1) + 1 = j
    BY <1>2, <1>3
  <2>2. QED
    BY <2>1
<1>6. QED
  BY <1>2, <1>3, <1>4, <1>5

\* Removing element k of a sequence moves the later ones down by one.
LEMMA RemoveAtProperties ==
  ASSUME NEW S, NEW s \in Seq(S), NEW k \in 1 .. Len(s)
  PROVE  LET t == SubSeq(s, 1, k - 1) \o SubSeq(s, k + 1, Len(s))
         IN  /\ t \in Seq(S) /\ Len(t) = Len(s) - 1
             /\ \A i \in 1 .. Len(s) - 1 : t[i] = IF i < k THEN s[i] ELSE s[i + 1]
<1> DEFINE a == SubSeq(s, 1, k - 1)
           b == SubSeq(s, k + 1, Len(s))
<1>1. Len(s) \in Nat /\ \A i \in 1 .. Len(s) : s[i] \in S
  OBVIOUS
<1>2. a \in Seq(S) /\ Len(a) = k - 1 /\ \A i \in 1 .. k - 1 : a[i] = s[i]
  BY <1>1, SubSeqProperties
<1>3. b \in Seq(S) /\ Len(b) = Len(s) - k /\ \A i \in 1 .. Len(s) - k : b[i] = s[k + i]
  BY <1>1, SubSeqProperties
<1> HIDE DEF a, b
<1>4. /\ a \o b \in Seq(S) /\ Len(a \o b) = Len(s) - 1
      /\ \A i \in 1 .. Len(s) - 1 : (a \o b)[i] = IF i < k THEN a[i] ELSE b[i - (k - 1)]
  <2>1. /\ a \o b \in Seq(S) /\ Len(a \o b) = Len(a) + Len(b)
        /\ \A i \in 1 .. Len(a) + Len(b) :
             (a \o b)[i] = IF i <= Len(a) THEN a[i] ELSE b[i - Len(a)]
    BY <1>2, <1>3, ConcatProperties
  <2>2. QED
    BY <1>1, <1>2, <1>3, <2>1
<1>5. ASSUME NEW i \in 1 .. Len(s) - 1
      PROVE  (a \o b)[i] = IF i < k THEN s[i] ELSE s[i + 1]
  <2>1. CASE i < k
    BY <1>1, <1>2, <1>4, <2>1
  <2>2. CASE ~(i < k)
    <3>1. i - (k - 1) \in 1 .. Len(s) - k /\ k + (i - (k - 1)) = i + 1
      BY <1>1, <2>2
    <3>2. QED
      BY <1>1, <1>3, <1>4, <2>2, <3>1
  <2>3. QED
    BY <2>1, <2>2
<1>6. QED
  BY <1>4, <1>5 DEF a, b

\* Block a of size k: where it starts, and where the one after it starts.
LEMMA BlockStarts ==
  ASSUME NEW a \in Nat, NEW b \in Nat, NEW k \in Nat \ {0}
  PROVE  /\ a * k \in Nat /\ (a + 1) * k = a * k + k /\ 0 * k = 0
         /\ a <= b => a * k <= b * k
         /\ a < b => a * k + k <= b * k
         /\ (a * k) \div k = a /\ (a * k) % k = 0
<1>1. a * k \in Nat /\ (a + 1) * k = a * k + k /\ 0 * k = 0
  OBVIOUS
<1>2. a <= b => a * k <= b * k
  OBVIOUS
<1>3. a < b => a * k + k <= b * k
  OBVIOUS
<1>4. (a * k) \div k = a /\ (a * k) % k = 0
  OBVIOUS
<1>5. QED
  BY <1>1, <1>2, <1>3, <1>4

\* Quotient and remainder.
LEMMA Division ==
  ASSUME NEW n \in Nat, NEW k \in Nat \ {0}
  PROVE  /\ n \div k \in Nat /\ n % k \in 0 .. k - 1
         /\ n = (n \div k) * k + (n % k)
  OBVIOUS

\* Two numbers that leave the same remainder are at least k apart.
LEMMA SameRemainder ==
  ASSUME NEW a \in Nat, NEW b \in Nat, NEW k \in Nat \ {0}, a % k = b % k, a < b
  PROVE  a + k <= b
<1> DEFINE p == a \div k
           q == b \div k
           r == a % k
<1>1. p \in Nat /\ q \in Nat /\ r \in Nat /\ a = p * k + r /\ b = q * k + r
  <2>1. p \in Nat /\ r \in 0 .. k - 1 /\ a = p * k + r
    BY Division
  <2>2. q \in Nat /\ b = q * k + (b % k)
    BY Division
  <2>3. b % k = r
    OBVIOUS
  <2> HIDE DEF p, q, r
  <2>4. QED
    BY <2>1, <2>2, <2>3
<1> HIDE DEF p, q, r
<1>2. p < q
  <2>1. q <= p => q * k <= p * k
    BY <1>1, BlockStarts
  <2>2. p * k \in Nat /\ q * k \in Nat
    BY <1>1, BlockStarts
  <2>3. QED
    BY <1>1, <2>1, <2>2
<1>3. p * k + k <= q * k /\ p * k \in Nat /\ q * k \in Nat
  BY <1>1, <1>2, BlockStarts
<1>4. QED
  BY <1>1, <1>3

\* Adding k leaves the remainder as it is.
LEMMA AddRemainder ==
  ASSUME NEW a \in Nat, NEW k \in Nat \ {0}
  PROVE  (a + k) % k = a % k
<1> DEFINE p == (a \div k) + 1
           r == a % k
           q == (a + k) \div k
           s == (a + k) % k
<1>1. p \in Nat /\ r \in 0 .. k - 1 /\ a + k = p * k + r
  <2>1. a \div k \in Nat /\ r \in 0 .. k - 1 /\ a = (a \div k) * k + r
    BY Division
  <2>2. p * k = (a \div k) * k + k
    BY <2>1, BlockStarts
  <2>3. (a \div k) * k \in Nat
    BY <2>1, BlockStarts
  <2> HIDE DEF r
  <2>4. QED
    BY <2>1, <2>2, <2>3
<1>2. q \in Nat /\ s \in 0 .. k - 1 /\ a + k = q * k + s
  <2>1. a + k \in Nat
    OBVIOUS
  <2>2. QED
    BY <2>1, Division
<1> HIDE DEF p, r, q, s
<1>3. /\ p < q => p * k + k <= q * k
      /\ q < p => q * k + k <= p * k
      /\ p * k \in Nat /\ q * k \in Nat
  BY <1>1, <1>2, BlockStarts
<1>4. p = q
  BY <1>1, <1>2, <1>3
<1>5. r = s
  BY <1>1, <1>2, <1>3, <1>4
<1>6. QED
  BY <1>5 DEF r, s

\* In a row of k numbers, each remainder occurs once.
LEMMA RowRemainder ==
  ASSUME NEW a \in Nat, NEW b \in Nat, NEW n \in Nat, NEW k \in Nat \ {0},
         a % k = b % k, a <= n, n < a + k, b <= n, n < b + k
  PROVE  a = b
<1>1. a < b => a + k <= b
  BY SameRemainder
<1>2. b < a => b + k <= a
  BY SameRemainder
<1>3. QED
  BY <1>1, <1>2

\* A function on 0 .. n that is defined at each number from its value at the one
\* before it exists.
Recursive(n, V, v, step, f) ==
  f \in [0 .. n -> V] /\ f[0] = v /\ \A i \in 1 .. n : f[i] = step[<<i, f[i - 1]>>]

LEMMA Recursion ==
  ASSUME NEW n \in Nat, NEW V, NEW v \in V, NEW step \in [(1 .. n) \X V -> V]
  PROVE  \E f : Recursive(n, V, v, step, f)
<1> DEFINE Upto(k, f) == f[0] = v /\ \A i \in 1 .. k : f[i] = step[<<i, f[i - 1]>>]
           Bad == {k \in 0 .. n : ~ \E f \in [0 .. k -> V] : Upto(k, f)}
<1>1. SUFFICES ASSUME Bad # {} PROVE FALSE
  <2>1. n \in 0 .. n
    OBVIOUS
  <2>2. \E f \in [0 .. n -> V] : Upto(n, f)
    <3>1. n \notin Bad
      BY <1>1
    <3>2. QED
      BY <2>1, <3>1
  <2>3. QED
    BY <2>2 DEF Recursive
<1>2. Bad \subseteq Nat
  OBVIOUS
<1>3. PICK m \in Bad : \A k \in Bad : m <= k
  <2> HIDE DEF Bad
  <2> QED BY <1>1, <1>2, LeastNat
<1>4. m \in 0 .. n /\ ~ \E f \in [0 .. m -> V] : Upto(m, f)
  OBVIOUS
<1>5. CASE m = 0
  <2> DEFINE f == [i \in 0 .. 0 |-> v]
  <2>1. f \in [0 .. m -> V] /\ f[0] = v
    BY <1>5
  <2>2. \A i \in 1 .. m : FALSE
    BY <1>5
  <2>3. QED
    BY <1>4, <2>1, <2>2
<1>6. CASE m # 0
  <2>1. m - 1 \in 0 .. n /\ m - 1 \notin Bad
    BY <1>3, <1>4, <1>6
  <2>2. PICK f \in [0 .. m - 1 -> V] : Upto(m - 1, f)
    BY <2>1
  <2> DEFINE w == step[<<m, f[m - 1]>>]
             g == [i \in 0 .. m |-> IF i = m THEN w ELSE f[i]]
  <2>3. m \in 1 .. n /\ f[m - 1] \in V
    BY <1>4, <1>6
  <2>4. w \in V
    BY <2>3
  <2> HIDE DEF w
  <2>5. g \in [0 .. m -> V]
    BY <1>4, <1>6, <2>4
  <2>6. g[0] = v
    BY <1>4, <1>6, <2>2
  <2>7. ASSUME NEW i \in 1 .. m PROVE g[i] = step[<<i, g[i - 1]>>]
    <3>1. i - 1 \in 0 .. m - 1 /\ i \in 0 .. m /\ i - 1 \in 0 .. m /\ i - 1 # m
      BY <1>4, <1>6
    <3>2. g[i - 1] = f[i - 1]
      BY <3>1
    <3>3. CASE i = m
      BY <3>1, <3>2, <3>3 DEF w
    <3>4. CASE i # m
      <4>1. i \in 1 .. m - 1 /\ g[i] = f[i]
        BY <1>4, <1>6, <3>1, <3>4
      <4>2. QED
        BY <2>2, <3>2, <4>1
    <3>5. QED
      BY <3>3, <3>4
  <2>8. QED
    BY <1>4, <2>5, <2>6, <2>7
<1>7. QED
  BY <1>5, <1>6

\* Of the first places, those up to the first bad one are good.
LEMMA LongestPrefix ==
  ASSUME NEW limit \in Nat, NEW Bad
  PROVE  \E n \in 0 .. limit : (\A i \in 1 .. n : i \notin Bad) /\ (n < limit => n + 1 \in Bad)
<1> DEFINE Here == {i \in 1 .. limit : i \in Bad}
<1>1. CASE Here = {}
  <2>1. limit \in 0 .. limit /\ \A i \in 1 .. limit : i \notin Bad
    BY <1>1
  <2>2. QED
    BY <2>1
<1>2. CASE Here # {}
  <2>1. Here \subseteq Nat
    OBVIOUS
  <2>2. PICK m \in Here : \A k \in Here : m <= k
    <3> HIDE DEF Here
    <3> QED BY <1>2, <2>1, LeastNat
  <2>3. m \in 1 .. limit /\ m \in Bad
    BY <2>2
  <2>4. ASSUME NEW i \in 1 .. m - 1 PROVE i \notin Bad
    <3>1. i \in 1 .. limit /\ i < m
      BY <2>3
    <3>2. QED
      BY <2>2, <3>1
  <2>5. m - 1 \in 0 .. limit /\ (m - 1) + 1 = m
    BY <2>3
  <2>6. QED
    BY <2>3, <2>4, <2>5
<1>3. QED
  BY <1>1, <1>2

\* What holds of the first value, and of each value if it does of the one before,
\* holds of all of them.
LEMMA AllAlong ==
  ASSUME NEW n \in Nat, NEW V, NEW f, f[0] \in V,
         \A i \in 1 .. n : f[i - 1] \in V => f[i] \in V
  PROVE  \A i \in 0 .. n : f[i] \in V
<1> DEFINE Bad == {k \in 0 .. n : f[k] \notin V}
<1>1. SUFFICES ASSUME Bad # {} PROVE FALSE
  OBVIOUS
<1>2. Bad \subseteq Nat
  OBVIOUS
<1>3. PICK m \in Bad : \A k \in Bad : m <= k
  <2> HIDE DEF Bad
  <2> QED BY <1>1, <1>2, LeastNat
<1>4. m \in 0 .. n /\ f[m] \notin V /\ m # 0
  OBVIOUS
<1>5. m \in 1 .. n /\ m - 1 \in 0 .. n /\ m - 1 \notin Bad
  BY <1>3, <1>4
<1>6. QED
  BY <1>4, <1>5

\* Quotient and remainder are unique.
LEMMA DivisionIs ==
  ASSUME NEW k \in Nat \ {0}, NEW q \in Nat, NEW r \in 0 .. k - 1, NEW n \in Nat, n = q * k + r
  PROVE  n \div k = q /\ n % k = r
<1>1. PICK a \in Nat, b \in 0 .. k - 1 : a = n \div k /\ b = n % k /\ n = a * k + b
  BY Division
<1>2. /\ a < q => a * k + k <= q * k
      /\ q < a => q * k + k <= a * k
      /\ a * k \in Nat /\ q * k \in Nat
  BY BlockStarts
<1>3. a = q
  BY <1>1, <1>2
<1>4. b = r
  BY <1>1, <1>2, <1>3
<1>5. QED
  BY <1>1, <1>3, <1>4
=============================================================================
