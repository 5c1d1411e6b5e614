--------------------------- MODULE MainInputProofs ---------------------------
(***************************************************************************)
(* A command that ends with success has done its work, and armor refuses a *)
(* wrong source before the output is opened: for every size of the files,  *)
(* the pipes and the windows, and however main, its children, their        *)
(* failures and signals interleave.                                        *)
(***************************************************************************)
EXTENDS MainInput, Lemmas

-----------------------------------------------------------------------------
(* Scripts *)

\* What the fields of a step are.
LEMMA StepFields ==
  ASSUME NEW s \in Steps
  PROVE  /\ s[1] \in {"open", "pipes", "copier", "parent"} => s[2] \in Inputs /\ s = <<s[1], s[2]>>
         /\ s[1] = "close" => s[2] \in Files /\ s = <<"close", s[2]>>
         /\ s[1] = "read" => s[2] \in Inputs /\ s[3] \in Nat
         /\ s[1] = "finish" => s[2] \in Nat \ {0}
         /\ s[1] \notin {"open", "pipes", "copier", "parent", "close", "read", "finish"} => s = <<s[1]>>
         /\ s[1] \in {"open", "pipes", "copier", "parent", "close", "read", "finish", "hash", "reap", "verify",
                      "output", "recompress", "output_parent", "encode", "decode", "compare"}
<1>1. CASE s \in {"open", "pipes", "copier", "parent"} \X Inputs
  <2>1. PICK n \in {"open", "pipes", "copier", "parent"}, f \in Inputs : s = <<n, f>>
    BY <1>1
  <2>2. s[1] = n /\ s[2] = f
    BY <2>1
  <2>3. QED
    BY <2>1, <2>2
<1>2. CASE s \in {"close"} \X Files
  <2>1. PICK f \in Files : s = <<"close", f>>
    BY <1>2
  <2>2. s[1] = "close" /\ s[2] = f
    BY <2>1
  <2>3. QED
    BY <2>1, <2>2
<1>3. CASE s \in {"read"} \X Inputs \X Nat
  BY <1>3
<1>4. CASE s \in {"finish"} \X (Nat \ {0})
  BY <1>4
<1>5. CASE s \in {<<"hash">>, <<"reap">>, <<"verify">>, <<"output">>, <<"recompress">>, <<"output_parent">>,
                  <<"encode">>, <<"decode">>, <<"compare">>}
  <2>1. PICK n \in {"hash", "reap", "verify", "output", "recompress", "output_parent", "encode", "decode",
                    "compare"} : s = <<n>>
    BY <1>5
  <2>2. s[1] = n
    BY <2>1
  <2>3. QED
    BY <2>1, <2>2
<1>6. QED
  BY <1>1, <1>2, <1>3, <1>4, <1>5 DEF Steps

\* The steps that the program makes.
LEMMA StepsMade ==
  /\ \A f \in Inputs : /\ <<"open", f>> \in Steps /\ <<"pipes", f>> \in Steps /\ <<"copier", f>> \in Steps
                       /\ <<"parent", f>> \in Steps /\ \A n \in Nat : <<"read", f, n>> \in Steps
  /\ \A f \in Files : <<"close", f>> \in Steps
  /\ \A k \in Nat \ {0} : <<"finish", k>> \in Steps
  /\ <<"hash">> \in Steps /\ <<"reap">> \in Steps /\ <<"verify">> \in Steps /\ <<"output">> \in Steps
  /\ <<"recompress">> \in Steps /\ <<"output_parent">> \in Steps /\ <<"encode">> \in Steps
  /\ <<"decode">> \in Steps /\ <<"compare">> \in Steps
  BY DEF Steps

\* What is left of a script after its first step.
LEMMA TailScript ==
  ASSUME NEW s \in Seq(Steps), s # <<>>
  PROVE  /\ Len(s) \in Nat /\ Len(s) >= 1 /\ s[1] \in Steps /\ Head(s) = s[1]
         /\ Tail(s) \in Seq(Steps) /\ Len(Tail(s)) = Len(s) - 1
         /\ \A i \in 1 .. Len(s) - 1 : Tail(s)[i] = s[i + 1]
         /\ <<>> \o Tail(s) = Tail(s)
  OBVIOUS

\* A step may follow in any case that the step before it took the place of.
LEMMA TailKeeps ==
  ASSUME NEW s \in Seq(Steps), s # <<>>, Ordered(s), Chained(s)
  PROVE  /\ Ordered(Tail(s)) /\ Chained(Tail(s))
         /\ \A j \in 1 .. Len(Tail(s)) : Follows(s[1], Tail(s)[j])
         /\ Tail(s) # <<>> =>
              /\ Tail(s)[1][1] \notin {"pipes", "recompress"}
              /\ Tail(s)[1][1] = "copier" => s[1] = <<"pipes", Tail(s)[1][2]>>
              /\ Tail(s)[1][1] = "parent" => s[1] = <<"copier", Tail(s)[1][2]>>
              /\ Tail(s)[1][1] = "read" => s[1] = <<"parent", Tail(s)[1][2]>>
              /\ Tail(s)[1][1] = "output_parent" => s[1] = <<"recompress">>
              /\ Tail(s)[1][1] = "finish" => ~(Tail(s)[1][2] > 1)
<1> DEFINE t == Tail(s)
<1>1. /\ t \in Seq(Steps) /\ Len(t) \in Nat /\ Len(s) = Len(t) + 1
      /\ \A i \in 1 .. Len(t) : t[i] = s[i + 1]
  BY TailScript
<1> HIDE DEF t
<1>2. Ordered(t)
  <2> SUFFICES ASSUME NEW i \in 1 .. Len(t), NEW j \in 1 .. Len(t), i < j PROVE Follows(t[i], t[j])
    BY DEF Ordered
  <2>1. i + 1 \in 1 .. Len(s) /\ j + 1 \in 1 .. Len(s) /\ i + 1 < j + 1
    BY <1>1
  <2>2. Follows(s[i + 1], s[j + 1])
    BY <2>1 DEF Ordered
  <2>3. t[i] = s[i + 1] /\ t[j] = s[j + 1]
    BY <1>1
  <2>4. QED
    BY <2>2, <2>3
<1>3. \A j \in 1 .. Len(t) : Follows(s[1], t[j])
  BY <1>1 DEF Ordered
<1>4. Chained(t)
  <2> SUFFICES ASSUME NEW i \in 1 .. Len(t), i # 1 PROVE Linked(t, i)
    BY DEF Chained
  <2>1. i + 1 \in 1 .. Len(s) /\ i + 1 # 1 /\ t[i] = s[i + 1] /\ t[i - 1] = s[(i + 1) - 1]
    BY <1>1
  <2>2. Linked(s, i + 1)
    BY <2>1 DEF Chained
  <2>3. QED
    BY <2>1, <2>2 DEF Linked
<1>5. t # <<>> => /\ t[1][1] \notin {"pipes", "recompress"}
                  /\ t[1][1] = "copier" => s[1] = <<"pipes", t[1][2]>>
                  /\ t[1][1] = "parent" => s[1] = <<"copier", t[1][2]>>
                  /\ t[1][1] = "read" => s[1] = <<"parent", t[1][2]>>
                  /\ t[1][1] = "output_parent" => s[1] = <<"recompress">>
                  /\ t[1][1] = "finish" => ~(t[1][2] > 1)
  <2>1. t # <<>> => 2 \in 1 .. Len(s) /\ t[1] = s[2] /\ s[2 - 1] = s[1]
    <3>1. t # <<>> => Len(t) >= 1
      BY <1>1
    <3>2. QED
      BY <1>1, <3>1
  <2>2. 2 \in 1 .. Len(s) => Linked(s, 2)
    BY DEF Chained
  <2>3. QED
    BY <2>1, <2>2 DEF Linked
<1>6. QED
  BY <1>2, <1>3, <1>4, <1>5 DEF t

\* Where an element of a concatenation is in its parts.
LEMMA Places ==
  ASSUME NEW m \in Nat, NEW n \in Nat, NEW i \in 1 .. m + n
  PROVE  /\ i <= m => i \in 1 .. m /\ (i # 1 => i - 1 \in 1 .. m)
         /\ i > m => i \in m + 1 .. m + n /\ i - m \in 1 .. n /\ (i - m) + m = i
         /\ i = m + 1 => 1 \in 1 .. n /\ 1 + m = i /\ n # 0
         /\ i > m + 1 => /\ i - m # 1 /\ (i - m) - 1 \in 1 .. n
                         /\ ((i - m) - 1) + m = i - 1
         /\ i <= m \/ i = m + 1 \/ i > m + 1
         /\ \A j \in 1 .. m + n : i < j => (j <= m => i <= m) /\ (i > m => j > m /\ i - m < j - m)
  OBVIOUS

\* Steps that are put before a script.
Starts(r) ==
  r # <<>> => /\ r[1][1] \notin {"pipes", "copier", "parent", "recompress", "output_parent", "read"}
              /\ ~(r[1][1] = "finish" /\ r[1][2] > 1)
Precede(st, r) == \A i \in 1 .. Len(st), j \in 1 .. Len(r) : Follows(st[i], r[j])

LEMMA PushKeeps ==
  ASSUME NEW st \in Seq(Steps), NEW r \in Seq(Steps), Ordered(st), Chained(st), Ordered(r), Chained(r),
         Precede(st, r), Starts(r)
  PROVE  /\ st \o r \in Seq(Steps) /\ Ordered(st \o r) /\ Chained(st \o r)
         /\ Len(st \o r) = Len(st) + Len(r)
         /\ \A i \in 1 .. Len(st) : (st \o r)[i] = st[i]
         /\ \A i \in 1 .. Len(r) : (st \o r)[i + Len(st)] = r[i]
<1> DEFINE t == st \o r
           m == Len(st)
           n == Len(r)
<1>1. /\ t \in Seq(Steps) /\ m \in Nat /\ n \in Nat /\ Len(t) = m + n
      /\ \A i \in 1 .. m : t[i] = st[i]
      /\ \A i \in m + 1 .. m + n : t[i] = r[i - m]
  OBVIOUS
<1> HIDE DEF t
<1>0. /\ \A i \in 1 .. m, j \in 1 .. m : i < j => Follows(st[i], st[j])
      /\ \A i \in 1 .. n, j \in 1 .. n : i < j => Follows(r[i], r[j])
      /\ \A i \in 1 .. m, j \in 1 .. n : Follows(st[i], r[j])
  BY DEF Ordered, Precede
<1>9. /\ \A i \in 1 .. m : i # 1 => Linked(st, i)
      /\ \A i \in 1 .. n : i # 1 => Linked(r, i)
  BY DEF Chained
<1>8. n # 0 => /\ r[1][1] \notin {"pipes", "copier", "parent", "recompress", "output_parent", "read"}
               /\ ~(r[1][1] = "finish" /\ r[1][2] > 1)
  <2>1. n # 0 => r # <<>>
    OBVIOUS
  <2>2. QED
    BY <2>1 DEF Starts
<1>7. m \in Nat /\ n \in Nat
  BY <1>1
<1> HIDE DEF m, n
<1>2. \A i \in 1 .. n : t[i + m] = r[i]
  <2> SUFFICES ASSUME NEW i \in 1 .. n PROVE t[i + m] = r[i]
    OBVIOUS
  <2>1. i + m \in m + 1 .. m + n /\ (i + m) - m = i
    BY <1>1
  <2>2. QED
    BY <1>1, <2>1
<1>3. Ordered(t)
  <2> SUFFICES ASSUME NEW i \in 1 .. m + n, NEW j \in 1 .. m + n, i < j PROVE Follows(t[i], t[j])
    BY <1>1 DEF Ordered
  <2>1. CASE j <= m
    <3>1. i \in 1 .. m /\ j \in 1 .. m
      BY <1>7, <2>1, Places
    <3>2. QED
      BY <1>0, <1>1, <3>1
  <2>2. CASE i <= m /\ j > m
    <3>1. i \in 1 .. m /\ j \in m + 1 .. m + n /\ j - m \in 1 .. n
      BY <1>7, <2>2, Places
    <3>2. QED
      BY <1>0, <1>1, <3>1
  <2>3. CASE i > m
    <3>1. /\ i - m \in 1 .. n /\ j - m \in 1 .. n /\ i - m < j - m
          /\ i \in m + 1 .. m + n /\ j \in m + 1 .. m + n
      BY <1>7, <2>3, Places
    <3>2. t[i] = r[i - m] /\ t[j] = r[j - m]
      BY <1>1, <3>1
    <3>3. QED
      BY <1>0, <3>1, <3>2
  <2>4. QED
    BY <1>7, <2>1, <2>2, <2>3, Places
<1>4. Chained(t)
  <2> SUFFICES ASSUME NEW i \in 1 .. m + n, i # 1 PROVE Linked(t, i)
    BY <1>1 DEF Chained
  <2>1. CASE i <= m
    <3>1. i \in 1 .. m /\ i - 1 \in 1 .. m
      BY <1>7, <2>1, Places
    <3>2. t[i] = st[i] /\ t[i - 1] = st[i - 1] /\ Linked(st, i)
      BY <1>1, <1>9, <3>1
    <3>3. QED
      BY <3>2 DEF Linked
  <2>2. CASE i = m + 1
    <3>1. 1 \in 1 .. n /\ 1 + m = i /\ n # 0
      BY <1>7, <2>2, Places
    <3>2. t[i] = r[1]
      BY <1>2, <3>1
    <3>3. QED
      BY <1>8, <3>1, <3>2 DEF Linked
  <2>3. CASE i > m + 1
    <3>1. i - m \in 1 .. n /\ i - m # 1 /\ (i - m) - 1 \in 1 .. n /\ (i - m) + m = i /\ ((i - m) - 1) + m = i - 1
      BY <1>7, <2>3, Places
    <3>2. t[i] = r[i - m] /\ t[i - 1] = r[(i - m) - 1] /\ Linked(r, i - m)
      BY <1>2, <1>9, <3>1
    <3>3. QED
      BY <3>2 DEF Linked
  <2>4. QED
    BY <1>7, <2>1, <2>2, <2>3, Places
<1>5. QED
  BY <1>1, <1>2, <1>3, <1>4 DEF t, m, n

LEMMA Turns ==
  ASSUME NEW s
  PROVE  /\ s[1] = "verify" => Turn(s) = 2
         /\ s[1] = "output" => Turn(s) = 3
         /\ s[1] = "recompress" => Turn(s) = 4
         /\ s[1] = "output_parent" => Turn(s) = 5
         /\ s[1] \in {"encode", "decode"} => Turn(s) = 6
         /\ s[1] = "close" => Turn(s) = 7
         /\ s[1] = "compare" => Turn(s) = 8
         /\ s[1] = "finish" => Turn(s) = 9
         /\ s[1] \in {"open", "pipes", "copier", "parent", "hash", "reap", "read"} => Turn(s) = 1
         /\ Turn(s) \in 1 .. 9
<1>1. s[1] = "verify" => Turn(s) = 2
  BY DEF Turn
<1>2. s[1] = "output" => Turn(s) = 3
  BY DEF Turn
<1>3. s[1] = "recompress" => Turn(s) = 4
  BY DEF Turn
<1>4. s[1] = "output_parent" => Turn(s) = 5
  BY DEF Turn
<1>5. s[1] \in {"encode", "decode"} => Turn(s) = 6
  BY DEF Turn
<1>6. s[1] = "close" => Turn(s) = 7
  BY DEF Turn
<1>7. s[1] = "compare" => Turn(s) = 8
  BY DEF Turn
<1>8. s[1] = "finish" => Turn(s) = 9
  BY DEF Turn
<1>9. s[1] \in {"open", "pipes", "copier", "parent", "hash", "reap", "read"} => Turn(s) = 1
  BY DEF Turn
<1>10. s[1] \notin {"verify", "output", "recompress", "output_parent", "encode", "decode", "close", "compare",
                    "finish"} => Turn(s) = 1
  BY DEF Turn
<1> DEFINE n == s[1]
           k == Turn(s)
<1>11. /\ n = "verify" => k = 2
       /\ n = "output" => k = 3
       /\ n = "recompress" => k = 4
       /\ n = "output_parent" => k = 5
       /\ n \in {"encode", "decode"} => k = 6
       /\ n = "close" => k = 7
       /\ n = "compare" => k = 8
       /\ n = "finish" => k = 9
       /\ n \notin {"verify", "output", "recompress", "output_parent", "encode", "decode", "close", "compare",
                     "finish"} => k = 1
  BY <1>1, <1>2, <1>3, <1>4, <1>5, <1>6, <1>7, <1>8, <1>10
<1> HIDE DEF n, k
<1>12. k \in 1 .. 9
  <2>1. k = 1 \/ k = 2 \/ k = 3 \/ k = 4 \/ k = 5 \/ k = 6 \/ k = 7 \/ k = 8 \/ k = 9
    BY <1>11, Zenon
  <2>2. QED
    BY <2>1
<1>13. QED
  BY <1>1, <1>2, <1>3, <1>4, <1>5, <1>6, <1>7, <1>8, <1>9, <1>12 DEF k

LEMMA FollowsNames ==
  ASSUME NEW a \in Steps, NEW b \in Steps, Follows(a, b), a[1] # "read", b[1] # "read"
  PROVE  /\ Turn(a) <= Turn(b)
         /\ Turn(a) = Turn(b) => Turn(a) \in {1, 7}
<1>1. Turn(a) \in 1 .. 9 /\ Turn(b) \in 1 .. 9
  BY Turns
<1>2. Turn(a) < Turn(b) \/ (Turn(a) = Turn(b) /\ Turn(a) \in {1, 7})
  BY DEF Follows
<1>3. QED
  BY <1>1, <1>2

LEMMA AmongTail ==
  ASSUME NEW x, NEW s \in Seq(Steps), s # <<>>
  PROVE  Among(x, s) <=> s[1] = x \/ Among(x, Tail(s))
<1> DEFINE t == Tail(s)
<1>1. /\ t \in Seq(Steps) /\ Len(t) \in Nat /\ Len(s) = Len(t) + 1
      /\ \A i \in 1 .. Len(t) : t[i] = s[i + 1]
  BY TailScript
<1> HIDE DEF t
<1>2. ASSUME Among(x, s), s[1] # x PROVE Among(x, t)
  <2>1. PICK i \in 1 .. Len(s) : s[i] = x
    BY <1>2 DEF Among
  <2>2. i - 1 \in 1 .. Len(t) /\ (i - 1) + 1 = i
    BY <1>1, <1>2, <2>1
  <2>3. t[i - 1] = x
    BY <1>1, <2>1, <2>2
  <2>4. QED
    BY <2>2, <2>3 DEF Among
<1>3. ASSUME s[1] = x PROVE Among(x, s)
  <2>1. 1 \in 1 .. Len(s)
    BY <1>1
  <2>2. QED
    BY <1>3, <2>1 DEF Among
<1>4. ASSUME Among(x, t) PROVE Among(x, s)
  <2>1. PICK i \in 1 .. Len(t) : t[i] = x
    BY <1>4 DEF Among
  <2>2. i + 1 \in 1 .. Len(s)
    BY <1>1
  <2>3. QED
    BY <1>1, <2>1, <2>2 DEF Among
<1>5. QED
  BY <1>2, <1>3, <1>4 DEF t

LEMMA AmongParts ==
  ASSUME NEW x, NEW st \in Seq(Steps), NEW r \in Seq(Steps)
  PROVE  Among(x, st \o r) <=> Among(x, st) \/ Among(x, r)
<1> DEFINE t == st \o r
           m == Len(st)
           n == Len(r)
<1>1. /\ m \in Nat /\ n \in Nat /\ Len(t) = m + n
      /\ \A i \in 1 .. m : t[i] = st[i]
      /\ \A i \in m + 1 .. m + n : t[i] = r[i - m]
  OBVIOUS
<1>2. /\ Among(x, st) <=> \E i \in 1 .. m : st[i] = x
      /\ Among(x, r) <=> \E i \in 1 .. n : r[i] = x
      /\ Among(x, t) <=> \E i \in 1 .. m + n : t[i] = x
  BY <1>1 DEF Among
<1> HIDE DEF t, m, n
<1>3. ASSUME NEW i \in 1 .. m + n, t[i] = x PROVE Among(x, st) \/ Among(x, r)
  BY <1>1, <1>2, <1>3, Places
<1>4. ASSUME NEW i \in 1 .. m, st[i] = x PROVE Among(x, t)
  <2>1. i \in 1 .. m + n
    BY <1>1
  <2>2. QED
    BY <1>1, <1>2, <1>4, <2>1
<1>5. ASSUME NEW i \in 1 .. n, r[i] = x PROVE Among(x, t)
  <2>1. i + m \in m + 1 .. m + n /\ (i + m) - m = i /\ i + m \in 1 .. m + n
    BY <1>1
  <2>2. t[i + m] = x
    BY <1>1, <1>5, <2>1
  <2>3. QED
    BY <1>2, <2>1, <2>2
<1>6. QED
  BY <1>2, <1>3, <1>4, <1>5 DEF t

-----------------------------------------------------------------------------
(* How the script changes *)

ScriptOK == script \in Seq(Steps) /\ Ordered(script) /\ Chained(script)

\* The steps that have to do with starting children, which come at once.
ForkNames == {"pipes", "copier", "parent", "recompress", "output_parent"}
NoForks(s) == \A i \in 1 .. Len(s) : s[i][1] \notin ForkNames
Calm(s)    == \A i \in 1 .. Len(s) : s[i][1] \notin ForkNames \cup {"read"}

LEMMA CalmScript ==
  ASSUME NEW s \in Seq(Steps), s # <<>>, Chained(s), s[1][1] \notin ForkNames
  PROVE  NoForks(s) /\ \A i \in 1 .. Len(s) : i # 1 => s[i][1] # "read"
<1>0. Len(s) \in Nat /\ \A i \in 1 .. Len(s) : i # 1 => Linked(s, i)
  BY DEF Chained
<1> DEFINE n == Len(s)
<1> HIDE DEF n
<1>1. ASSUME NEW i \in 1 .. n, i # 1
      PROVE  i - 1 \in 1 .. n /\ (i - 1 # 1 => i - 2 \in 1 .. n /\ (i - 1) - 1 = i - 2) /\ (i - 1 = 1 => s[i - 1] = s[1])
  BY <1>0, <1>1 DEF n
<1>2. ASSUME NEW i \in 1 .. n, s[i][1] \in ForkNames PROVE FALSE
  <2>1. i # 1 /\ Linked(s, i)
    BY <1>0, <1>2 DEF n
  <2>2. i - 1 \in 1 .. n /\ (i - 1 # 1 => i - 2 \in 1 .. n /\ (i - 1) - 1 = i - 2) /\ (i - 1 = 1 => s[i - 1] = s[1])
    BY <1>1, <2>1
  <2>3. s[i - 1][1] \in {"pipes", "copier", "recompress"}
    <3>1. s[i][1] \in {"copier", "parent", "output_parent"}
      BY <1>2, <2>1 DEF Linked, ForkNames
    <3>2. \/ s[i - 1] = <<"pipes", s[i][2]>> \/ s[i - 1] = <<"copier", s[i][2]>>
          \/ s[i - 1] = <<"recompress">>
      BY <2>1, <3>1 DEF Linked
    <3>3. QED
      BY <3>2
  <2>4. i - 1 # 1
    BY <2>2, <2>3 DEF ForkNames
  <2>5. Linked(s, i - 1)
    BY <1>0, <2>2, <2>4 DEF n
  <2>6. s[i - 2] = <<"pipes", s[i - 1][2]>>
    BY <2>2, <2>3, <2>4, <2>5 DEF Linked
  <2>7. i - 2 # 1
    <3>1. s[i - 2][1] = "pipes"
      BY <2>6
    <3>2. s[1][1] # "pipes"
      BY DEF ForkNames
    <3>3. QED
      BY <3>1, <3>2
  <2>8. Linked(s, i - 2)
    BY <1>0, <2>2, <2>4, <2>7 DEF n
  <2>9. QED
    BY <2>6, <2>8 DEF Linked
<1>3. ASSUME NEW i \in 1 .. n, i # 1, s[i][1] = "read" PROVE FALSE
  <2>1. s[i - 1] = <<"parent", s[i][2]>>
    BY <1>0, <1>3 DEF n, Linked
  <2>2. s[i - 1][1] = "parent"
    BY <2>1
  <2>3. i - 1 \in 1 .. n /\ s[i - 1][1] \in ForkNames
    BY <1>1, <1>3, <2>2 DEF ForkNames
  <2>4. QED
    BY <1>2, <2>3
<1>4. QED
  BY <1>2, <1>3 DEF NoForks, n

LEMMA CalmTail ==
  ASSUME NEW s \in Seq(Steps), s # <<>>, Chained(s), s[1][1] \notin ForkNames
  PROVE  Calm(Tail(s))
<1>1. NoForks(s) /\ \A i \in 1 .. Len(s) : i # 1 => s[i][1] # "read"
  BY CalmScript
<1>2. /\ Len(s) \in Nat /\ Len(Tail(s)) = Len(s) - 1
      /\ \A i \in 1 .. Len(s) - 1 : Tail(s)[i] = s[i + 1]
  BY TailScript
<1>3. \A i \in 1 .. Len(s) - 1 : i + 1 \in 1 .. Len(s) /\ i + 1 # 1
  BY <1>2
<1>4. QED
  BY <1>1, <1>2, <1>3 DEF Calm, NoForks

\* A script that begins with a step that starts nothing may have steps put before it.
LEMMA CalmStarts ==
  ASSUME NEW s \in Seq(Steps), s # <<>>, Ordered(s), Chained(s), s[1][1] \notin ForkNames
  PROVE  Starts(Tail(s))
<1>1. Tail(s) \in Seq(Steps) /\ (Tail(s) # <<>> => 1 \in 1 .. Len(Tail(s)))
  <2>1. Tail(s) \in Seq(Steps)
    BY TailScript
  <2>2. QED
    BY <2>1
<1>2. Tail(s) # <<>> => Tail(s)[1][1] \notin ForkNames \cup {"read"}
  BY <1>1, CalmTail DEF Calm
<1>3. Tail(s) # <<>> => (Tail(s)[1][1] = "finish" => ~(Tail(s)[1][2] > 1))
  BY TailKeeps
<1>4. QED
  BY <1>2, <1>3 DEF Starts, ForkNames

\* A step is done.
LEMMA Popped ==
  ASSUME ScriptOK, script # <<>>, Do(<<>>)
  PROVE  /\ ScriptOK' /\ script' = Tail(script)
         /\ \A x : Among(x, script) <=> script[1] = x \/ Among(x, script')
         /\ \A i \in 1 .. Len(script') : Follows(script[1], script'[i])
         /\ script[1][1] \notin ForkNames => Calm(script')
         /\ script' # <<>> /\ script'[1][1] = "finish" => ~(script'[1][2] > 1)
<1>1. script' = Tail(script) /\ script \in Seq(Steps) /\ Ordered(script) /\ Chained(script)
  BY TailScript DEF ScriptOK, Do
<1>2. Tail(script) \in Seq(Steps)
  BY <1>1, TailScript
<1>3. ScriptOK'
  BY <1>1, <1>2, TailKeeps DEF ScriptOK
<1>4. \A x : Among(x, script) <=> script[1] = x \/ Among(x, script')
  BY <1>1, AmongTail
<1>5. \A i \in 1 .. Len(script') : Follows(script[1], script'[i])
  BY <1>1, TailKeeps
<1>6. script[1][1] \notin ForkNames => Calm(script')
  BY <1>1, CalmTail
<1>7. script' # <<>> /\ script'[1][1] = "finish" => ~(script'[1][2] > 1)
  BY <1>1, TailKeeps
<1>8. QED
  BY <1>1, <1>3, <1>4, <1>5, <1>6, <1>7

\* A step that starts nothing is done, and others take its place.
LEMMA Replaced ==
  ASSUME ScriptOK, script # <<>>, NEW st \in Seq(Steps), st # <<>>, Do(st), script[1][1] \notin ForkNames,
         Ordered(st), Chained(st), Precede(st, Tail(script))
  PROVE  /\ ScriptOK' /\ script' # <<>> /\ script'[1] = st[1]
         /\ \A x : Among(x, script') <=> Among(x, st) \/ Among(x, Tail(script))
         /\ Len(script') = Len(st) + Len(Tail(script))
         /\ \A i \in 1 .. Len(st) : script'[i] = st[i]
         /\ \A i \in 1 .. Len(Tail(script)) : script'[i + Len(st)] = Tail(script)[i]
         /\ Calm(Tail(script))
<1> DEFINE r == Tail(script)
<1>1. script' = st \o r /\ script \in Seq(Steps) /\ Ordered(script) /\ Chained(script)
  BY DEF ScriptOK, Do
<1>2. r \in Seq(Steps) /\ Ordered(r) /\ Chained(r) /\ Starts(r) /\ Calm(r)
  BY <1>1, TailScript, TailKeeps, CalmStarts, CalmTail
<1> HIDE DEF r
<1>3. /\ st \o r \in Seq(Steps) /\ Ordered(st \o r) /\ Chained(st \o r)
      /\ Len(st \o r) = Len(st) + Len(r)
      /\ \A i \in 1 .. Len(st) : (st \o r)[i] = st[i]
      /\ \A i \in 1 .. Len(r) : (st \o r)[i + Len(st)] = r[i]
  <2>1. Precede(st, r)
    BY DEF r
  <2>2. QED
    BY <1>2, <2>1, PushKeeps
<1>4. 1 \in 1 .. Len(st) /\ st \o r # <<>> /\ (st \o r)[1] = st[1]
  <2>1. Len(st) \in Nat /\ Len(st) >= 1 /\ Len(r) \in Nat
    BY <1>2
  <2>2. 1 \in 1 .. Len(st) /\ Len(st \o r) # 0
    BY <1>3, <2>1
  <2>3. QED
    BY <1>3, <2>2
<1>5. \A x : Among(x, script') <=> Among(x, st) \/ Among(x, r)
  BY <1>1, <1>2, AmongParts
<1>6. QED
  BY <1>1, <1>2, <1>3, <1>4, <1>5 DEF ScriptOK, r

LEMMA OneStep ==
  ASSUME NEW a \in Steps
  PROVE  /\ <<a>> \in Seq(Steps) /\ <<a>> # <<>> /\ Len(<<a>>) = 1 /\ <<a>>[1] = a
         /\ Ordered(<<a>>) /\ Chained(<<a>>)
         /\ \A i \in 1 .. Len(<<a>>) : <<a>>[i] = a
         /\ \A x : Among(x, <<a>>) <=> x = a
<1> DEFINE st == <<a>>
<1>1. st \in Seq(Steps) /\ st # <<>> /\ Len(st) = 1 /\ st[1] = a
  OBVIOUS
<1> HIDE DEF st
<1>2. \A i \in 1 .. Len(st) : i = 1
  BY <1>1
<1>3. Ordered(st) /\ Chained(st)
  BY <1>2 DEF Ordered, Chained
<1>4. \A x : Among(x, st) <=> x = a
  <2>1. 1 \in 1 .. Len(st)
    BY <1>1
  <2>2. QED
    BY <1>1, <1>2, <2>1 DEF Among
<1>5. QED
  BY <1>1, <1>3, <1>4 DEF st

\* One step takes the place of another.
LEMMA ReplacedByOne ==
  ASSUME ScriptOK, script # <<>>, NEW a \in Steps, Do(<<a>>), script[1][1] \notin ForkNames,
         a[1] \notin {"pipes", "copier", "parent", "recompress", "output_parent"},
         a[1] = "read" \/ Turn(a) = Turn(script[1]), a[1] = "read" \/ script[1][1] # "read"
  PROVE  /\ ScriptOK' /\ script' # <<>> /\ script'[1] = a
         /\ \A x : Among(x, script') <=> x = a \/ Among(x, Tail(script))
         /\ NoForks(script')
<1> DEFINE st == <<a>>
<1>1. st \in Seq(Steps) /\ st # <<>> /\ Len(st) = 1 /\ st[1] = a
  BY OneStep
<1>2. Ordered(st) /\ Chained(st)
  BY OneStep
<1>3. Precede(st, Tail(script))
  <2>1. \A j \in 1 .. Len(Tail(script)) : Follows(script[1], Tail(script)[j])
    BY TailKeeps DEF ScriptOK
  <2>2. \A j \in 1 .. Len(Tail(script)) : Follows(a, Tail(script)[j])
    BY <2>1 DEF Follows
  <2>3. \A i \in 1 .. Len(st) : st[i] = a
    BY OneStep
  <2> HIDE DEF st
  <2>4. QED
    BY <2>2, <2>3 DEF Precede
<1>4. Do(st)
  OBVIOUS
<1>5. \A x : Among(x, st) <=> x = a
  BY OneStep
<1> HIDE DEF st
<1>6. /\ ScriptOK' /\ script' # <<>> /\ script'[1] = a
      /\ \A x : Among(x, script') <=> x = a \/ Among(x, Tail(script))
  BY <1>1, <1>2, <1>3, <1>4, <1>5, Replaced
<1>7. NoForks(script')
  <2>1. script' \in Seq(Steps) /\ Chained(script') /\ script'[1][1] \notin ForkNames
    BY <1>6 DEF ScriptOK, ForkNames
  <2>2. QED
    BY <1>6, <2>1, CalmScript
<1>8. QED
  BY <1>6, <1>7

\* A read comes before what asked for it.
LEMMA Pushed ==
  ASSUME ScriptOK, script # <<>>, NEW a \in Steps, a[1] = "read", script' = <<a>> \o script,
         script[1][1] \notin ForkNames \cup {"finish", "read"}
  PROVE  /\ ScriptOK' /\ script' # <<>> /\ script'[1] = a
         /\ \A x : Among(x, script') <=> x = a \/ Among(x, script)
         /\ NoForks(script')
<1> DEFINE st == <<a>>
<1>1. st \in Seq(Steps) /\ st # <<>> /\ Len(st) = 1 /\ st[1] = a
  BY OneStep
<1>2. Ordered(st) /\ Chained(st)
  BY OneStep
<1>3. Precede(st, script) /\ Starts(script)
  <2>1. \A i \in 1 .. Len(st) : st[i] = a
    BY OneStep
  <2>2. \A b : Follows(a, b)
    BY DEF Follows
  <2> HIDE DEF st
  <2>3. Precede(st, script)
    BY <2>1, <2>2 DEF Precede
  <2>4. Starts(script)
    BY DEF Starts, ForkNames
  <2>5. QED
    BY <2>3, <2>4
<1>4. script' = st \o script /\ script \in Seq(Steps) /\ Ordered(script) /\ Chained(script)
  BY DEF ScriptOK
<1>5. \A x : Among(x, st) <=> x = a
  BY OneStep
<1> HIDE DEF st
<1>6. /\ script' \in Seq(Steps) /\ Ordered(script') /\ Chained(script')
      /\ Len(script') = Len(st) + Len(script)
      /\ \A i \in 1 .. Len(st) : script'[i] = st[i]
  BY <1>1, <1>2, <1>3, <1>4, PushKeeps
<1>7. script' # <<>> /\ script'[1] = a
  BY <1>1, <1>4, <1>6
<1>8. \A x : Among(x, script') <=> x = a \/ Among(x, script)
  BY <1>1, <1>4, <1>5, AmongParts, SMTT(60)
<1>9. NoForks(script')
  BY <1>6, <1>7, CalmScript DEF ForkNames
<1>10. QED
  BY <1>6, <1>7, <1>8, <1>9 DEF ScriptOK

-----------------------------------------------------------------------------
(* Sequences of pipes and children *)

LEMMA SetElement ==
  ASSUME NEW S, NEW s \in Seq(S), NEW k \in DOMAIN s, NEW x \in S
  PROVE  /\ [s EXCEPT ![k] = x] \in Seq(S) /\ Len([s EXCEPT ![k] = x]) = Len(s)
         /\ DOMAIN [s EXCEPT ![k] = x] = DOMAIN s
         /\ [s EXCEPT ![k] = x][k] = x
         /\ \A i \in DOMAIN s : i # k => [s EXCEPT ![k] = x][i] = s[i]
  OBVIOUS

LEMMA MapElements ==
  ASSUME NEW S, NEW s \in Seq(S), NEW t, DOMAIN t = DOMAIN s, t = [k \in DOMAIN s |-> t[k]],
         \A k \in DOMAIN s : t[k] \in S
  PROVE  t \in Seq(S) /\ Len(t) = Len(s)
<1>1. Len(s) \in Nat /\ DOMAIN s = 1 .. Len(s)
  OBVIOUS
<1>2. t \in [1 .. Len(s) -> S]
  BY <1>1
<1>3. QED
  BY <1>1, <1>2

LEMMA AppendElement ==
  ASSUME NEW S, NEW s \in Seq(S), NEW x \in S
  PROVE  /\ Append(s, x) \in Seq(S) /\ Len(Append(s, x)) = Len(s) + 1
         /\ DOMAIN Append(s, x) = 1 .. Len(s) + 1 /\ DOMAIN s = 1 .. Len(s) /\ Len(s) \in Nat
         /\ \A i \in 1 .. Len(s) : Append(s, x)[i] = s[i]
         /\ Append(s, x)[Len(s) + 1] = x
  OBVIOUS

LEMMA TakeElement ==
  ASSUME NEW S, NEW s \in Seq(S), s # <<>>
  PROVE  /\ Head(s) \in S /\ Head(s) = s[1] /\ Len(s) \in Nat /\ Len(s) >= 1
         /\ Tail(s) \in Seq(S) /\ Len(Tail(s)) = Len(s) - 1
         /\ \A i \in 1 .. Len(s) - 1 : Tail(s)[i] = s[i + 1]
  OBVIOUS

\* The fields of the state.
LEMMA Fields ==
  ASSUME TypeOK
  PROVE  /\ Len(pipe) \in Nat /\ DOMAIN pipe = 1 .. Len(pipe) /\ Len(child) \in Nat /\ DOMAIN child = 1 .. Len(child)
         /\ \A p \in DOMAIN pipe : /\ pipe[p] \in Pipes /\ pipe[p].units \in Seq(Int) /\ Len(pipe[p].units) \in Nat
                                   /\ pipe[p].readers \subseteq Nat /\ pipe[p].writers \subseteq Nat
         /\ \A q \in DOMAIN child :
              /\ child[q] \in Children /\ child[q].blk \in Seq(Int) /\ child[q].buf \in Seq(Int) /\ child[q].pos \in Nat
              /\ Len(child[q].buf) \in Nat /\ child[q].errors \in Nat /\ child[q].in \in Nat /\ child[q].out \in Nat
              /\ child[q].role \in {"decompressor", "copier", "recompressor"}
              /\ child[q].at \in {"forked", "running", "exited"} /\ child[q].exit \in {"", "0", "1", "SIGPIPE"}
         /\ \A f \in Files : /\ file[f].fd \in Int /\ file[f].data \in Seq(Int) /\ file[f].eof \in BOOLEAN
                             /\ Len(file[f].data) \in Nat
         /\ Inputs \subseteq Files /\ "output" \in Files /\ "output" \notin Inputs
<1>1. /\ Len(pipe) \in Nat /\ DOMAIN pipe = 1 .. Len(pipe) /\ Len(child) \in Nat /\ DOMAIN child = 1 .. Len(child)
      /\ \A p \in DOMAIN pipe : pipe[p] \in Pipes
      /\ \A q \in DOMAIN child : child[q] \in Children
  BY DEF TypeOK
<1>2. ASSUME NEW c \in Pipes
      PROVE  /\ c.units \in Seq(Int) /\ Len(c.units) \in Nat /\ c.readers \subseteq Nat /\ c.writers \subseteq Nat
  BY DEF Pipes
<1>3. ASSUME NEW c \in Children
      PROVE  /\ c.blk \in Seq(Int) /\ c.buf \in Seq(Int) /\ c.pos \in Nat
             /\ Len(c.buf) \in Nat /\ c.errors \in Nat /\ c.in \in Nat /\ c.out \in Nat
             /\ c.role \in {"decompressor", "copier", "recompressor"}
             /\ c.at \in {"forked", "running", "exited"} /\ c.exit \in {"", "0", "1", "SIGPIPE"}
  <2>1. c.blk \in Seq(Int) /\ c.buf \in Seq(Int)
    BY DEF Children
  <2>2. c.pos \in Nat /\ c.errors \in Nat /\ c.in \in Nat /\ c.out \in Nat
    BY DEF Children
  <2>3. c.role \in {"decompressor", "copier", "recompressor"}
    BY DEF Children
  <2>4. c.at \in {"forked", "running", "exited"} /\ c.exit \in {"", "0", "1", "SIGPIPE"}
    BY DEF Children
  <2>5. Len(c.buf) \in Nat
    BY <2>1
  <2>6. QED
    BY <2>1, <2>2, <2>3, <2>4, <2>5
<1>4. \A f \in Files : /\ file[f].fd \in Int /\ file[f].data \in Seq(Int) /\ file[f].eof \in BOOLEAN
                       /\ Len(file[f].data) \in Nat
  BY DEF TypeOK
<1>5. Inputs \subseteq Files /\ "output" \in Files /\ "output" \notin Inputs
  BY DEF Inputs, Files
<1>6. QED
  BY <1>1, <1>2, <1>3, <1>4, <1>5

LEMMA Lengths ==
  ASSUME TypeOK
  PROVE  /\ Len(pipe) \in Nat /\ DOMAIN pipe = 1 .. Len(pipe) /\ Len(child) \in Nat /\ DOMAIN child = 1 .. Len(child)
         /\ Len(child) <= Len(pipe) => DOMAIN child \subseteq DOMAIN pipe
         /\ DOMAIN child # {} => Len(child) \in DOMAIN child
         /\ \A q \in DOMAIN child : q > 0 /\ q # 0 /\ q \in Nat /\ q <= Len(child)
<1>1. Len(pipe) \in Nat /\ DOMAIN pipe = 1 .. Len(pipe) /\ Len(child) \in Nat /\ DOMAIN child = 1 .. Len(child)
  BY DEF TypeOK
<1> DEFINE m == Len(child)
           n == Len(pipe)
<1>2. m \in Nat /\ n \in Nat
  BY <1>1
<1> HIDE DEF m, n
<1>3. m <= n => 1 .. m \subseteq 1 .. n
  BY <1>2
<1>4. 1 .. m # {} => m \in 1 .. m
  BY <1>2
<1>5. QED
  BY <1>1, <1>3, <1>4 DEF m, n

-----------------------------------------------------------------------------
(* The children *)

\* What main sees of a step of a child.
Apart ==
  /\ UNCHANGED <<cmd, script, file, ext_subprocs, status>>
  /\ DOMAIN child' = DOMAIN child /\ Len(child') = Len(child) /\ Len(pipe') = Len(pipe) /\ DOMAIN pipe' = DOMAIN pipe
  /\ \A q \in DOMAIN child :
       /\ child'[q].role = child[q].role
       /\ child[q].exit # "" => child'[q].exit = child[q].exit
       /\ child[q].role = "decompressor" =>
            child'[q].pos - Len(child'[q].buf) - Len(pipe'[q].units) = Taken(q)
  /\ \A p \in DOMAIN pipe :
       /\ 0 \in pipe'[p].readers <=> 0 \in pipe[p].readers
       /\ 0 \in pipe'[p].writers <=> 0 \in pipe[p].writers

LEMMA ApartKeeps ==
  ASSUME TypeOK, Paired, Piped, InputTrue, Forking, Writes, Doing, Waiting, Apart
  PROVE  Piped' /\ InputTrue' /\ Forking' /\ Writes' /\ Doing' /\ Waiting' /\ ScriptOK' = ScriptOK
<1>0. /\ cmd' = cmd /\ script' = script /\ file' = file /\ ext_subprocs' = ext_subprocs /\ status' = status
      /\ DOMAIN child' = DOMAIN child /\ Len(child') = Len(child) /\ Len(pipe') = Len(pipe)
      /\ DOMAIN pipe' = DOMAIN pipe
      /\ DOMAIN child \subseteq DOMAIN pipe
  <2>1. DOMAIN child \subseteq DOMAIN pipe
    BY Lengths DEF Paired
  <2>2. QED
    BY <2>1 DEF Apart
<1>1. \A q : Decompressor(q) => Decompressor(q)' /\ Taken(q)' = Taken(q)
  BY <1>0 DEF Apart, Decompressor, Child, Taken
<1>2. \A q : Feeds(q) => Feeds(q)' /\ Taken(q)' = Taken(q)
  BY <1>0, <1>1 DEF Apart, Feeds, Decompressor, Child
<1>3. Piped' /\ InputTrue'
  <2>1. \A q \in DOMAIN child : child[q].exit = "1" => child'[q].exit = "1"
    BY DEF Apart
  <2>2. (\E pid \in DOMAIN child : child[pid].exit = "1") => (\E pid \in DOMAIN child' : child'[pid].exit = "1")
    BY <1>0, <2>1
  <2>3. At("read")' = At("read") /\ Subject' = Subject /\ From' = From
    BY <1>0 DEF At, Running, Subject, From
  <2>4. \A x : Pending(x)' = Pending(x)
    BY <1>0 DEF Pending
  <2>5. Piped'
    BY <1>0, <1>2 DEF Piped
  <2>6. /\ \A i \in 1 .. Len(file'["input"].data) : file'["input"].data[i] = i
        /\ file'["input"].eof => file'["input"].data = Whole \/ \E pid \in DOMAIN child' : child'[pid].exit = "1"
    BY <1>0, <2>2 DEF InputTrue
  <2>7. /\ At("read")' => From' # 0 /\ (Subject' = "input" => ~file'["input"].eof)
        /\ Pending(<<"encode">>)' => Pending(<<"open", "input">>)' \/ file'["input"].fd # 0
    BY <1>0, <2>3, <2>4 DEF InputTrue
  <2>8. QED
    BY <2>5, <2>6, <2>7 DEF InputTrue, Whole
<1>4. \A q : Fed(q) => Fed(q)'
  BY <1>0, <1>2 DEF Fed
<1>5. \A x : At(x)' = At(x) /\ Subject' = Subject
  BY <1>0 DEF At, Running, Subject
<1>6. \A q : Recompressor(q) => Recompressor(q)'
  BY <1>0 DEF Apart, Recompressor, Child
<1>7. Decompressor(Len(child))' = Decompressor(Len(child))
  BY <1>0 DEF Apart, Decompressor, Child
<1>8. Forking'
  <2>1. At("parent") => child'[Len(child')].role = "copier"
    <3>1. ASSUME At("parent") PROVE Len(child) \in DOMAIN child
      BY <3>1, Lengths DEF Forking, Fed, Feeds, Decompressor, Child
    <3>2. QED
      BY <1>0, <3>1 DEF Apart, Forking
  <2>2. At("output_parent") => Recompressor(Len(child))' /\ 0 \in pipe'[Len(child')].writers
    <3>1. ASSUME At("output_parent") PROVE Len(child) \in DOMAIN child
      BY <3>1 DEF Forking, Recompressor, Child
    <3>2. QED
      BY <1>0, <1>6, <3>1 DEF Apart, Forking, Recompressor, Child
  <2>3. IF At("copier")' THEN Len(pipe') = Len(child') + 1 /\ Fed(Len(child))'
        ELSE Len(pipe') = Len(child') /\ ~Decompressor(Len(child))'
    BY <1>0, <1>4, <1>5, <1>7 DEF Forking
  <2>4. At("parent")' => Fed(Len(child) - 1)'
    BY <1>0, <1>4, <1>5 DEF Forking
  <2>5. \A i \in 1 .. Len(script') : script'[i][1] \in {"pipes", "copier", "parent"} => file'[script'[i][2]] = Opened
    BY <1>0 DEF Forking
  <2>6. /\ At("pipes")' => Then(<<"copier", Subject>>)'
        /\ At("recompress")' => Then(<<"output_parent">>)'
    BY <1>0, <1>5 DEF Forking, Then
  <2>7. QED
    BY <1>0, <1>5, <2>1, <2>2, <2>3, <2>4, <2>5, <2>6 DEF Forking
<1>9. \A x : Pending(x)' = Pending(x)
  BY <1>0 DEF Pending, Among
<1>10. Writes'
  <2>1. Unopened' = Unopened
    BY <1>9 DEF Unopened
  <2>2. file["output"].fd > 0 => Recompressor(file["output"].fd)' /\ 0 \in pipe'[file["output"].fd].writers
    BY <1>0, <1>6 DEF Writes, Apart, Recompressor, Child
  <2>3. \A q \in DOMAIN child : child'[q].role = child[q].role
    BY DEF Apart
  <2>4. QED
    BY <1>0, <1>9, <2>1, <2>2, <2>3 DEF Writes
<1>11. Doing'
  BY <1>0, <1>5, <1>9 DEF Doing, Wrong, Whole
<1>12. Waiting'
  <2>1. \A q \in DOMAIN child : child[q].exit \in {"0", "SIGPIPE"} => child'[q].exit = child[q].exit
    BY DEF Apart
  <2>2. QED
    BY <1>0, <2>1 DEF Waiting
<1>13. QED
  BY <1>0, <1>3, <1>8, <1>10, <1>11, <1>12 DEF ScriptOK

LEMMA ReleasedPipes ==
  ASSUME TypeOK, NEW pids, pipe' = Released(pipe, pids)
  PROVE  /\ pipe' \in Seq(Pipes) /\ Len(pipe') = Len(pipe) /\ DOMAIN pipe' = DOMAIN pipe
         /\ \A p \in DOMAIN pipe : /\ pipe'[p].units = pipe[p].units
                                   /\ pipe'[p].readers = pipe[p].readers \ pids
                                   /\ pipe'[p].writers = pipe[p].writers \ pids
<1>1. pipe \in Seq(Pipes) /\ \A p \in DOMAIN pipe : pipe[p] \in Pipes
  BY Fields DEF TypeOK
<1>2. DOMAIN pipe' = DOMAIN pipe /\ pipe' = [p \in DOMAIN pipe |-> pipe'[p]]
  BY DEF Released
<1>3. \A p \in DOMAIN pipe : pipe'[p] = [pipe[p] EXCEPT !.readers = @ \ pids, !.writers = @ \ pids]
  BY DEF Released
<1>4. ASSUME NEW c \in Pipes, NEW d, d = [c EXCEPT !.readers = @ \ pids, !.writers = @ \ pids]
      PROVE  d \in Pipes /\ d.units = c.units /\ d.readers = c.readers \ pids /\ d.writers = c.writers \ pids
  BY <1>4 DEF Pipes
<1>5. \A p \in DOMAIN pipe : /\ pipe'[p] \in Pipes /\ pipe'[p].units = pipe[p].units
                             /\ pipe'[p].readers = pipe[p].readers \ pids
                             /\ pipe'[p].writers = pipe[p].writers \ pids
  BY <1>1, <1>3, <1>4
<1>6. QED
  BY <1>1, <1>2, <1>5, MapElements

LEMMA SetChild ==
  ASSUME child \in Seq(Children), NEW pid \in DOMAIN child, NEW c \in Children, child' = [child EXCEPT ![pid] = c]
  PROVE  /\ child' \in Seq(Children) /\ Len(child') = Len(child) /\ DOMAIN child' = DOMAIN child
         /\ child'[pid] = c /\ \A q \in DOMAIN child : q # pid => child'[q] = child[q]
  OBVIOUS

LEMMA SetPipe ==
  ASSUME pipe \in Seq(Pipes), NEW p \in DOMAIN pipe, NEW c \in Pipes, pipe' = [pipe EXCEPT ![p] = c]
  PROVE  /\ pipe' \in Seq(Pipes) /\ Len(pipe') = Len(pipe) /\ DOMAIN pipe' = DOMAIN pipe
         /\ pipe'[p] = c /\ \A q \in DOMAIN pipe : q # p => pipe'[q] = pipe[q]
  OBVIOUS

\* A child changes.
LEMMA OneChild ==
  ASSUME TypeOK, Paired, NEW pid \in DOMAIN child, NEW c \in Children, child' = [child EXCEPT ![pid] = c],
         c.role = child[pid].role, c.in = child[pid].in, c.out = child[pid].out, c.at = "exited" <=> c.exit # "",
         Len(pipe') = Len(pipe), DOMAIN pipe' = DOMAIN pipe
  PROVE  /\ child' \in Seq(Children) /\ Len(child') = Len(child) /\ DOMAIN child' = DOMAIN child
         /\ child'[pid] = c /\ \A q \in DOMAIN child : q # pid => child'[q] = child[q]
         /\ \A q \in DOMAIN child : child'[q].role = child[q].role
         /\ Paired'
<1>1. /\ child' \in Seq(Children) /\ Len(child') = Len(child) /\ DOMAIN child' = DOMAIN child
      /\ child'[pid] = c /\ \A q \in DOMAIN child : q # pid => child'[q] = child[q]
  <2>1. child \in Seq(Children)
    BY DEF TypeOK
  <2>2. QED
    BY <2>1, SetChild
<1>2. \A q \in DOMAIN child : /\ child'[q].role = child[q].role /\ child'[q].in = child[q].in
                              /\ child'[q].out = child[q].out /\ (child'[q].at = "exited" <=> child'[q].exit # "")
  BY <1>1 DEF Paired
<1>3. \A q : Child(q)' = Child(q) /\ Decompressor(q)' = Decompressor(q)
  BY <1>1, <1>2 DEF Child, Decompressor
<1>4. Paired'
  <2>1. Len(child') <= Len(pipe')
    BY <1>1 DEF Paired
  <2>2. \A q \in DOMAIN child' :
          /\ child'[q].role = "decompressor" =>
               /\ child'[q].out = q /\ child'[q].in = q + 1 /\ q + 1 \in DOMAIN pipe'
               /\ Child(q + 1)' => child'[q + 1].role = "copier"
          /\ child'[q].role = "copier" => child'[q].out = q /\ Decompressor(q - 1)'
          /\ child'[q].role = "recompressor" => child'[q].in = q
          /\ child'[q].at = "exited" <=> child'[q].exit # ""
    <3> SUFFICES ASSUME NEW q \in DOMAIN child
                 PROVE  /\ child'[q].role = "decompressor" =>
                             /\ child'[q].out = q /\ child'[q].in = q + 1 /\ q + 1 \in DOMAIN pipe'
                             /\ Child(q + 1)' => child'[q + 1].role = "copier"
                        /\ child'[q].role = "copier" => child'[q].out = q /\ Decompressor(q - 1)'
                        /\ child'[q].role = "recompressor" => child'[q].in = q
                        /\ child'[q].at = "exited" <=> child'[q].exit # ""
      BY <1>1
    <3>1. Child(q + 1)' => Child(q + 1) /\ child'[q + 1].role = child[q + 1].role
      BY <1>2, <1>3 DEF Child
    <3>2. Decompressor(q - 1) => Decompressor(q - 1)'
      BY <1>3
    <3>3. /\ child'[q].role = child[q].role /\ child'[q].in = child[q].in
          /\ child'[q].out = child[q].out /\ (child'[q].at = "exited" <=> child'[q].exit # "")
      BY <1>2
    <3>4. /\ child[q].role = "decompressor" =>
               /\ child[q].out = q /\ child[q].in = q + 1 /\ q + 1 \in DOMAIN pipe
               /\ Child(q + 1) => child[q + 1].role = "copier"
          /\ child[q].role = "copier" => child[q].out = q /\ Decompressor(q - 1)
          /\ child[q].role = "recompressor" => child[q].in = q
      BY DEF Paired
    <3>5. q + 1 \in DOMAIN pipe => q + 1 \in DOMAIN pipe'
      OBVIOUS
    <3>6. QED
      BY <3>1, <3>2, <3>3, <3>4, <3>5
  <2>3. QED
    BY <2>1, <2>2 DEF Paired
<1>5. QED
  BY <1>1, <1>2, <1>4

\* What nobody has changed is kept.
LEMMA Untouched ==
  ASSUME NEW q, child'[q] = child[q], pipe'[q] = pipe[q], file' = file
  PROVE  (Making(q) => Making(q)') /\ (Gathering(q) => Gathering(q)')
  BY DEF Making, Gathering, Taken

\* A process exits.
LEMMA ExitKeeps ==
  ASSUME TypeOK, Paired, Decompressing, Recompressing, UNCHANGED <<cmd, script, file, ext_subprocs, status>>,
         NEW pid, NEW how \in {"0", "1", "SIGPIPE"}, Runs(pid), Exits(pid, how),
         child[pid].role = "decompressor" /\ how = "0" => child[pid].pos = Size /\ child[pid].buf = <<>>,
         child[pid].role = "decompressor" /\ how = "SIGPIPE" => pipe[pid].readers = {},
         child[pid].role = "recompressor" =>
           how # "SIGPIPE" /\ (how = "0" => pipe[pid].units = <<>> /\ pipe[pid].writers = {})
  PROVE  TypeOK' /\ Paired' /\ Decompressing' /\ Recompressing' /\ Apart
<1> DEFINE c == [child[pid] EXCEPT !.at = "exited", !.exit = how]
<1>1. pid \in DOMAIN child /\ child[pid] \in Children /\ child[pid].at = "running" /\ child[pid].exit = ""
  BY Fields DEF Runs, Child, Paired
<1>2. /\ pipe' \in Seq(Pipes) /\ Len(pipe') = Len(pipe) /\ DOMAIN pipe' = DOMAIN pipe
      /\ \A p \in DOMAIN pipe : /\ pipe'[p].units = pipe[p].units
                                /\ pipe'[p].readers = pipe[p].readers \ {pid}
                                /\ pipe'[p].writers = pipe[p].writers \ {pid}
  BY ReleasedPipes DEF Exits
<1>3. /\ c \in Children /\ c.role = child[pid].role /\ c.in = child[pid].in /\ c.out = child[pid].out
      /\ c.pos = child[pid].pos /\ c.buf = child[pid].buf /\ c.blk = child[pid].blk
      /\ c.at = "exited" /\ c.exit = how
  BY <1>1 DEF Children
<1>4. child' = [child EXCEPT ![pid] = c]
  BY DEF Exits
<1> HIDE DEF c
<1>5. /\ child' \in Seq(Children) /\ Len(child') = Len(child) /\ DOMAIN child' = DOMAIN child
      /\ child'[pid] = c /\ \A q \in DOMAIN child : q # pid => child'[q] = child[q]
      /\ \A q \in DOMAIN child : child'[q].role = child[q].role
      /\ Paired'
  BY <1>1, <1>2, <1>3, <1>4, OneChild
<1>6. TypeOK'
  BY <1>2, <1>5 DEF TypeOK
<1>7. /\ \A q \in DOMAIN child : /\ child'[q].pos = child[q].pos /\ child'[q].buf = child[q].buf
                                 /\ child'[q].blk = child[q].blk
                                 /\ q # pid => child'[q].at = child[q].at /\ child'[q].exit = child[q].exit
      /\ DOMAIN child \subseteq DOMAIN pipe /\ pid # 0
  <2>1. DOMAIN child \subseteq DOMAIN pipe /\ pid # 0
    <3>1. pid > 0
      BY <1>1, Lengths
    <3>2. DOMAIN child \subseteq DOMAIN pipe
      BY Lengths DEF Paired
    <3>3. QED
      BY <3>1, <3>2
  <2>2. \A q \in DOMAIN child : /\ child'[q].pos = child[q].pos /\ child'[q].buf = child[q].buf
                                 /\ child'[q].blk = child[q].blk
    BY <1>3, <1>5
  <2>3. \A q \in DOMAIN child : q # pid => child'[q].at = child[q].at /\ child'[q].exit = child[q].exit
    BY <1>5
  <2>4. QED
    BY <2>1, <2>2, <2>3
<1>8. ASSUME NEW q \in DOMAIN child, Making(q), child[q].role = "decompressor" PROVE Making(q)'
  <2>1. Taken(q)' = Taken(q)
    BY <1>2, <1>7 DEF Taken
  <2>2. q # pid => child'[q].at = child[q].at /\ child'[q].exit = child[q].exit
    BY <1>7
  <2>3. q = pid => child'[q].at = "exited" /\ child'[q].exit = how
    BY <1>3, <1>5
  <2>4. child'[q].exit = "0" => child[q].pos = Size /\ child[q].buf = <<>>
    BY <1>8, <2>2, <2>3 DEF Making
  <2>5. child'[q].exit = "SIGPIPE" => pipe'[q].readers = {}
    BY <1>2, <1>7, <1>8, <2>2, <2>3 DEF Making
  <2>6. child'[q].at # "exited" => q \in pipe'[q].writers
    BY <1>2, <1>7, <1>8, <2>2, <2>3 DEF Making
  <2>7. pipe'[q].units = pipe[q].units
    BY <1>2, <1>7
  <2>8. QED
    BY <1>7, <1>8, <2>1, <2>4, <2>5, <2>6, <2>7 DEF Making
<1>9. ASSUME NEW q \in DOMAIN child, Gathering(q), child[q].role = "recompressor" PROVE Gathering(q)'
  <2>1. q # pid => child'[q].exit = child[q].exit
    BY <1>7
  <2>2. q = pid => child'[q].exit = how
    BY <1>3, <1>5
  <2>3. pipe'[q].units = pipe[q].units /\ child'[q].blk = child[q].blk /\ pipe'[q].writers \subseteq pipe[q].writers
    BY <1>2, <1>7
  <2>4. QED
    BY <1>9, <2>1, <2>2, <2>3 DEF Gathering
<1>10. Decompressing'
  BY <1>5, <1>8 DEF Decompressing
<1>11. Recompressing'
  BY <1>5, <1>9 DEF Recompressing
<1>12. Apart
  <2>1. \A q \in DOMAIN child : child[q].exit # "" => child'[q].exit = child[q].exit
    BY <1>1, <1>7
  <2>2. \A q \in DOMAIN child : child'[q].pos - Len(child'[q].buf) - Len(pipe'[q].units) = Taken(q)
    BY <1>2, <1>7 DEF Taken
  <2>3. QED
    BY <1>2, <1>5, <1>7, <2>1, <2>2 DEF Apart
<1>13. QED
  BY <1>5, <1>6, <1>10, <1>11, <1>12

\* What the steps of a child that runs change of it.
Same(r, c) ==
  /\ c \in Children /\ c.role = r.role /\ c.in = r.in /\ c.out = r.out /\ c.at = r.at /\ c.exit = r.exit

\* Units move through one pipe, and it is no other child's.
Through(t) ==
  /\ pipe' \in Seq(Pipes) /\ Len(pipe') = Len(pipe) /\ DOMAIN pipe' = DOMAIN pipe
  /\ \A p \in DOMAIN pipe : p # t => pipe'[p] = pipe[p]
  /\ t \in DOMAIN pipe => pipe'[t].readers = pipe[t].readers /\ pipe'[t].writers = pipe[t].writers
Foreign(t, pid) ==
  \A q \in DOMAIN child : q # pid /\ child[q].role \in {"decompressor", "recompressor"} => q # t

\* A child that runs moves units through one pipe at most, which is no other child's.
LEMMA ChildMoves ==
  ASSUME TypeOK, Paired, Decompressing, Recompressing, UNCHANGED <<cmd, script, file, ext_subprocs, status>>,
         NEW pid, Runs(pid), NEW c, Same(child[pid], c), child' = [child EXCEPT ![pid] = c],
         NEW t, Through(t), Foreign(t, pid),
         child[pid].role = "decompressor" => Making(pid)' /\ Taken(pid)' = Taken(pid),
         child[pid].role = "recompressor" => Gathering(pid)'
  PROVE  TypeOK' /\ Paired' /\ Decompressing' /\ Recompressing' /\ Apart
<1>1. pid \in DOMAIN child /\ child[pid] \in Children /\ child[pid].at = "running" /\ child[pid].exit = ""
  BY Fields DEF Runs, Child, Paired
<1>2. /\ c \in Children /\ c.role = child[pid].role /\ c.in = child[pid].in /\ c.out = child[pid].out
      /\ c.at = "running" /\ c.exit = ""
  BY <1>1 DEF Same
<1>12. c.at = "exited" <=> c.exit # ""
  BY <1>2
<1>13. /\ pipe' \in Seq(Pipes) /\ Len(pipe') = Len(pipe) /\ DOMAIN pipe' = DOMAIN pipe
       /\ \A p \in DOMAIN pipe : p # t => pipe'[p] = pipe[p]
       /\ t \in DOMAIN pipe => pipe'[t].readers = pipe[t].readers /\ pipe'[t].writers = pipe[t].writers
  BY DEF Through
<1>3. /\ child' \in Seq(Children) /\ Len(child') = Len(child) /\ DOMAIN child' = DOMAIN child
      /\ child'[pid] = c /\ \A q \in DOMAIN child : q # pid => child'[q] = child[q]
      /\ \A q \in DOMAIN child : child'[q].role = child[q].role
      /\ Paired'
  BY <1>1, <1>2, <1>12, <1>13, OneChild
<1>4. TypeOK'
  BY <1>3, <1>13 DEF TypeOK
<1>5. DOMAIN child \subseteq DOMAIN pipe
  BY Lengths DEF Paired
<1>6. \A q \in DOMAIN child : q # pid /\ child[q].role \in {"decompressor", "recompressor"} =>
        child'[q] = child[q] /\ pipe'[q] = pipe[q]
  BY <1>3, <1>5, <1>13 DEF Foreign
<1>7. Decompressing'
  <2>1. \A q \in DOMAIN child : child[q].role = "decompressor" => Making(q)'
    BY <1>6, Untouched DEF Decompressing
  <2>2. QED
    BY <1>3, <2>1 DEF Decompressing
<1>8. Recompressing'
  <2>1. \A q \in DOMAIN child : child[q].role = "recompressor" => Gathering(q)'
    BY <1>6, Untouched DEF Recompressing
  <2>2. \A q \in DOMAIN child' : child'[q].role = "recompressor" =>
          \A other \in DOMAIN child' : child'[other].role = "recompressor" => other = q
    <3> SUFFICES ASSUME NEW q \in DOMAIN child', NEW other \in DOMAIN child',
                        child'[q].role = "recompressor", child'[other].role = "recompressor"
                 PROVE  other = q
      OBVIOUS
    <3>1. q \in DOMAIN child /\ other \in DOMAIN child
      BY <1>3
    <3>2. child[q].role = "recompressor" /\ child[other].role = "recompressor"
      BY <1>3, <3>1
    <3>3. QED
      BY <3>1, <3>2 DEF Recompressing
  <2>3. \A q \in DOMAIN child' : child'[q].role = "recompressor" => cmd'.tzip
    <3>1. cmd' = cmd
      OBVIOUS
    <3>2. \A q \in DOMAIN child : child'[q].role = "recompressor" => cmd.tzip
      BY <1>3 DEF Recompressing
    <3>3. QED
      BY <1>3, <3>1, <3>2
  <2>4. \A q \in DOMAIN child' : child'[q].role = "recompressor" => Gathering(q)'
    BY <1>3, <2>1
  <2>5. QED
    BY <2>2, <2>3, <2>4 DEF Recompressing
<1>9. Apart
  <2>1. \A q \in DOMAIN child : child[q].exit # "" => child'[q].exit = child[q].exit
    BY <1>1, <1>3
  <2>2. \A q \in DOMAIN child : child[q].role = "decompressor" =>
          child'[q].pos - Len(child'[q].buf) - Len(pipe'[q].units) = Taken(q)
    BY <1>6 DEF Taken
  <2>3. \A p \in DOMAIN pipe : pipe'[p].readers = pipe[p].readers /\ pipe'[p].writers = pipe[p].writers
    BY <1>13
  <2>4. QED
    BY <1>3, <1>13, <2>1, <2>2, <2>3 DEF Apart
<1>10. QED
  BY <1>3, <1>4, <1>7, <1>8, <1>9

LEMMA Updates ==
  ASSUME NEW r \in Children, NEW b \in Seq(Int), NEW n \in Nat
  PROVE  /\ Same(r, [r EXCEPT !.buf = b])
         /\ Same(r, [r EXCEPT !.buf = b, !.drain = TRUE])
         /\ Same(r, [r EXCEPT !.blk = b, !.buf = b, !.drain = FALSE, !.pos = n])
         /\ Same(r, [r EXCEPT !.buf = r.blk, !.drain = FALSE, !.errors = n])
         /\ Same(r, [r EXCEPT !.buf = b, !.pos = n])
         /\ Same(r, [r EXCEPT !.blk = b])
<1>1. Same(r, [r EXCEPT !.buf = b])
  BY DEF Same, Children
<1>2. Same(r, [r EXCEPT !.buf = b, !.drain = TRUE])
  BY DEF Same, Children
<1>3. Same(r, [r EXCEPT !.blk = b, !.buf = b, !.drain = FALSE, !.pos = n])
  BY DEF Same, Children
<1>4. Same(r, [r EXCEPT !.buf = r.blk, !.drain = FALSE, !.errors = n])
  BY DEF Same, Children
<1>5. Same(r, [r EXCEPT !.buf = b, !.pos = n])
  BY DEF Same, Children
<1>6. Same(r, [r EXCEPT !.blk = b])
  BY DEF Same, Children
<1>7. QED
  BY <1>1, <1>2, <1>3, <1>4, <1>5, <1>6

\* What a copier reads.
LEMMA BlockUnits ==
  ASSUME NEW n \in Nat
  PROVE  Block(n) \in Seq(Int)
<1>1. Size \in Nat /\ CheckSize \in Nat
  BY MainAssumption
<1> DEFINE m == Min({n + CheckSize, Size})
<1>2. Whole \in Seq(Int) /\ Len(Whole) = Size
  BY <1>1 DEF Whole
<1>3. m \in {n + CheckSize, Size} /\ m <= Size
  BY <1>1 DEF Min
<1>4. n + 1 \in Nat \ {0} /\ m \in Nat
  BY <1>1, <1>3
<1> HIDE DEF m
<1>5. \A i \in n + 1 .. m : Whole[i] \in Int
  BY <1>1, <1>2, <1>3, <1>4
<1>6. SubSeq(Whole, n + 1, m) \in Seq(Int)
  BY <1>2, <1>4, <1>5
<1>7. QED
  BY <1>6 DEF Block, m

\* A child puts a unit that it holds, and takes one that is there.
LEMMA PutUnit ==
  ASSUME NEW u \in Seq(Int), NEW b \in Seq(Int), b # <<>>
  PROVE  /\ Append(u, Head(b)) \in Seq(Int) /\ Len(Append(u, Head(b))) = Len(u) + 1 /\ Tail(b) \in Seq(Int)
         /\ \A i \in 1 .. Len(u) : Append(u, Head(b))[i] = u[i]
         /\ Append(u, Head(b))[Len(u) + 1] = b[1] /\ Len(b) \in Nat /\ Len(b) >= 1 /\ Len(u) \in Nat
  OBVIOUS

LEMMA SetUnits ==
  ASSUME pipe \in Seq(Pipes), NEW p \in DOMAIN pipe, NEW u \in Seq(Int), pipe' = [pipe EXCEPT ![p].units = u]
  PROVE  /\ pipe' \in Seq(Pipes) /\ Len(pipe') = Len(pipe) /\ DOMAIN pipe' = DOMAIN pipe
         /\ pipe'[p].units = u /\ pipe'[p].readers = pipe[p].readers /\ pipe'[p].writers = pipe[p].writers
         /\ \A q \in DOMAIN pipe : q # p => pipe'[q] = pipe[q]
<1> DEFINE c == [pipe[p] EXCEPT !.units = u]
<1>1. pipe' = [pipe EXCEPT ![p] = c]
  OBVIOUS
<1>2. c \in Pipes /\ c.units = u /\ c.readers = pipe[p].readers /\ c.writers = pipe[p].writers
  <2>1. pipe[p] \in Pipes
    OBVIOUS
  <2>2. QED
    BY <2>1 DEF Pipes
<1> HIDE DEF c
<1>3. QED
  BY <1>1, <1>2, SetPipe

\* The steps of a copier change no child's pipe but its own.
LEMMA CopierKeeps ==
  ASSUME TypeOK, Paired, Decompressing, Recompressing, UNCHANGED <<cmd, script, file, ext_subprocs, status>>,
         NEW pid, Runs(pid), child[pid].role = "copier", NEW c, Same(child[pid], c),
         child' = [child EXCEPT ![pid] = c],
         \/ pipe' = pipe
         \/ \E u \in Seq(Int) : pipe' = [pipe EXCEPT ![pid].units = u]
  PROVE  TypeOK' /\ Paired' /\ Decompressing' /\ Recompressing' /\ Apart
<1>1. pid \in DOMAIN child /\ child[pid] \in Children /\ child[pid].at = "running" /\ child[pid].exit = ""
      /\ pid \in DOMAIN pipe
  <2>1. pid \in DOMAIN child /\ child[pid].at = "running"
    BY DEF Runs, Child
  <2>2. pid \in DOMAIN pipe
    BY <2>1, Lengths DEF Paired
  <2>3. child[pid] \in Children
    BY <2>1, Fields
  <2>4. child[pid].exit = ""
    BY <2>1 DEF Paired
  <2>5. QED
    BY <2>1, <2>2, <2>3, <2>4
<1>2. Through(pid)
  <2>1. pipe \in Seq(Pipes)
    BY DEF TypeOK
  <2>2. CASE pipe' = pipe
    BY <2>1, <2>2 DEF Through
  <2>3. CASE \E u \in Seq(Int) : pipe' = [pipe EXCEPT ![pid].units = u]
    <3>1. PICK u \in Seq(Int) : pipe' = [pipe EXCEPT ![pid].units = u]
      BY <2>3
    <3>2. QED
      BY <1>1, <2>1, <3>1, SetUnits DEF Through
  <2>4. QED
    BY <2>2, <2>3
<1>3. Foreign(pid, pid)
  BY DEF Foreign
<1>4. child[pid].role # "decompressor" /\ child[pid].role # "recompressor"
  OBVIOUS
<1>5. QED
  BY <1>2, <1>3, <1>4, ChildMoves

LEMMA CopierSteps ==
  ASSUME TypeOK, Paired, Decompressing, Recompressing, UNCHANGED <<cmd, script, file, ext_subprocs, status>>,
         NEW pid, CopierWrites(pid) \/ CopierReads(pid) \/ CopierReadFails(pid)
  PROVE  TypeOK' /\ Paired' /\ Decompressing' /\ Recompressing' /\ Apart
<1>1. Runs(pid) /\ child[pid].role = "copier" /\ pid \in DOMAIN child
  BY DEF CopierWrites, CopierReads, CopierReadFails, Runs, Child
<1>2. /\ child[pid] \in Children /\ child[pid].buf \in Seq(Int) /\ child[pid].pos \in Nat /\ child[pid].errors \in Nat
      /\ child[pid].blk \in Seq(Int) /\ child[pid].out = pid /\ pid \in DOMAIN pipe /\ pipe[pid].units \in Seq(Int)
  <2>1. child[pid].out = pid /\ pid \in DOMAIN pipe
    BY <1>1, Lengths DEF Paired
  <2>2. QED
    BY <1>1, <2>1, Fields
<1> DEFINE r == child[pid]
<1>3. CASE CopierWrites(pid)
  <2>1. CASE /\ pipe' = [pipe EXCEPT ![child[pid].out].units = Append(@, Head(child[pid].buf))]
             /\ child' = [child EXCEPT ![pid].buf = Tail(@)]
    <3>1. r.buf # <<>>
      BY <1>3 DEF CopierWrites
    <3>2. Append(pipe[pid].units, Head(r.buf)) \in Seq(Int) /\ Tail(r.buf) \in Seq(Int)
      BY <1>2, <3>1, PutUnit
    <3>3. pipe' = [pipe EXCEPT ![pid].units = Append(pipe[pid].units, Head(r.buf))]
      BY <1>2, <2>1
    <3>4. child' = [child EXCEPT ![pid] = [r EXCEPT !.buf = Tail(r.buf)]]
      BY <2>1
    <3>5. Same(r, [r EXCEPT !.buf = Tail(r.buf)])
      BY <1>2, <3>2, Updates
    <3>6. \E u \in Seq(Int) : pipe' = [pipe EXCEPT ![pid].units = u]
      BY <3>2, <3>3
    <3>7. QED
      BY <1>1, <3>4, <3>5, <3>6, CopierKeeps
  <2>2. CASE /\ child' = [child EXCEPT ![pid] = [@ EXCEPT !.buf = <<>>, !.drain = TRUE]] /\ pipe' = pipe
    <3>1. <<>> \in Seq(Int)
      OBVIOUS
    <3>2. child' = [child EXCEPT ![pid] = [r EXCEPT !.buf = <<>>, !.drain = TRUE]]
      BY <2>2
    <3>3. Same(r, [r EXCEPT !.buf = <<>>, !.drain = TRUE])
      BY <1>2, <3>1, Updates
    <3>4. QED
      BY <1>1, <2>2, <3>2, <3>3, CopierKeeps
  <2>3. QED
    BY <1>3, <2>1, <2>2 DEF CopierWrites
<1>4. CASE CopierReads(pid)
  <2>1. PICK blk \in {Block(child[pid].pos)} :
          child' = [child EXCEPT ![pid] = [@ EXCEPT !.blk = blk, !.buf = blk, !.drain = FALSE,
                                                    !.pos = child[pid].pos + Len(blk)]]
    BY <1>4 DEF CopierReads
  <2>2. blk \in Seq(Int) /\ r.pos + Len(blk) \in Nat
    <3>1. blk \in Seq(Int)
      BY <1>2, <2>1, BlockUnits
    <3>2. Len(blk) \in Nat
      BY <3>1
    <3>3. QED
      BY <1>2, <3>1, <3>2
  <2>3. child' = [child EXCEPT ![pid] = [r EXCEPT !.blk = blk, !.buf = blk, !.drain = FALSE, !.pos = r.pos + Len(blk)]]
    BY <2>1
  <2>4. Same(r, [r EXCEPT !.blk = blk, !.buf = blk, !.drain = FALSE, !.pos = r.pos + Len(blk)])
    BY <1>2, <2>2, Updates
  <2>5. pipe' = pipe
    BY <1>4 DEF CopierReads
  <2>6. QED
    BY <1>1, <2>3, <2>4, <2>5, CopierKeeps
<1>5. CASE CopierReadFails(pid)
  <2>1. child' = [child EXCEPT ![pid] = [r EXCEPT !.buf = r.blk, !.drain = FALSE, !.errors = r.errors + 1]]
    BY <1>5 DEF CopierReadFails
  <2>2. r.errors + 1 \in Nat
    BY <1>2
  <2>3. Same(r, [r EXCEPT !.buf = r.blk, !.drain = FALSE, !.errors = r.errors + 1])
    BY <1>2, <2>2, Updates
  <2>4. pipe' = pipe
    BY <1>5 DEF CopierReadFails
  <2>5. QED
    BY <1>1, <2>1, <2>3, <2>4, CopierKeeps
<1>6. QED
  BY <1>3, <1>4, <1>5

\* The units of a file after the first k.
Made(u, k) == \A i \in 1 .. Len(u) : u[i] = k + i

\* What a decompressor makes, and where it is then: units 1 .. pos, the last in buf.
LEMMA MadeUnit ==
  ASSUME NEW u \in Seq(Int), NEW pos \in Nat, NEW b \in Seq(Int), b # <<>>, Len(b) <= 1,
         pos - Len(b) - Len(u) >= 0,
         Made(u, pos - Len(b) - Len(u)), Made(b, pos - Len(b)),
         NEW v, v = Append(u, Head(b))
  PROVE  /\ pos - Len(<<>>) - Len(v) = pos - Len(b) - Len(u)
         /\ Made(v, pos - Len(b) - Len(u))
<1> DEFINE m == Len(u)
           n == Len(b)
<1>1. /\ m \in Nat /\ n \in Nat /\ n >= 1 /\ Len(v) = m + 1 /\ v[m + 1] = b[1]
      /\ \A i \in 1 .. m : v[i] = u[i]
  BY PutUnit
<1>2. /\ n <= 1 /\ \A i \in 1 .. m : u[i] = (pos - n - m) + i
      /\ \A i \in 1 .. n : b[i] = pos - n + i
  BY DEF Made
<1>3. Len(<<>>) = 0
  OBVIOUS
<1> HIDE DEF m, n
<1>4. n = 1
  BY <1>1, <1>2
<1>5. v[m + 1] = pos
  BY <1>1, <1>2, <1>4
<1>6. \A i \in 1 .. m + 1 : v[i] = (pos - n - m) + i
  <2> SUFFICES ASSUME NEW i \in 1 .. m + 1 PROVE v[i] = (pos - n - m) + i
    OBVIOUS
  <2>1. CASE i \in 1 .. m
    BY <1>1, <1>2, <2>1
  <2>2. CASE i = m + 1
    BY <1>1, <1>4, <1>5, <2>2
  <2>3. QED
    BY <1>1, <2>1, <2>2
<1>7. pos - 0 - (m + 1) = pos - n - m
  BY <1>1, <1>4
<1>8. QED
  BY <1>1, <1>3, <1>6, <1>7 DEF m, n, Made

LEMMA MakingParts ==
  ASSUME NEW pid
  PROVE  /\ Making(pid) => Made(pipe[pid].units, Taken(pid)) /\ Made(child[pid].buf, child[pid].pos - Len(child[pid].buf))
         /\ Making(pid)' <=>
              /\ Taken(pid)' >= 0 /\ Len(child'[pid].buf) <= 1
              /\ Made(pipe'[pid].units, Taken(pid)')
              /\ Made(child'[pid].buf, child'[pid].pos - Len(child'[pid].buf))
              /\ child'[pid].at # "exited" => pid \in pipe'[pid].writers
              /\ child'[pid].exit = "0" => child'[pid].pos = Size /\ child'[pid].buf = <<>>
              /\ child'[pid].exit = "SIGPIPE" => pipe'[pid].readers = {}
  BY DEF Making, Made

LEMMA OneUnit ==
  ASSUME NEW n \in Nat, NEW t \in Nat
  PROVE  /\ <<n + 1>> \in Seq(Int) /\ Len(<<n + 1>>) = 1 /\ n + 1 \in Nat /\ <<n + 1>>[1] = n + 1
         /\ (n + 1) - 1 - t = n - 0 - t /\ Len(<<>>) = 0
         /\ Made(<<n + 1>>, (n + 1) - Len(<<n + 1>>)) /\ \A k : Made(<<>>, k)
<1>1. /\ <<n + 1>> \in Seq(Int) /\ Len(<<n + 1>>) = 1 /\ n + 1 \in Nat /\ <<n + 1>>[1] = n + 1
      /\ (n + 1) - 1 - t = n - 0 - t /\ Len(<<>>) = 0
  OBVIOUS
<1>2. \A i \in 1 .. 1 : i = 1 /\ n + 1 = (n + 1) - 1 + i
  OBVIOUS
<1>3. Made(<<n + 1>>, (n + 1) - Len(<<n + 1>>))
  BY <1>1, <1>2 DEF Made
<1>4. \A k : Made(<<>>, k)
  BY <1>1 DEF Made
<1>5. QED
  BY <1>1, <1>3, <1>4

\* What a running child is.
LEMMA Running1 ==
  ASSUME TypeOK, Paired, NEW pid, Runs(pid)
  PROVE  /\ pid \in DOMAIN child /\ child[pid] \in Children /\ child[pid].at = "running" /\ child[pid].exit = ""
         /\ pid \in DOMAIN pipe /\ pid \in Nat /\ pipe[pid].units \in Seq(Int) /\ Len(pipe[pid].units) \in Nat
         /\ child[pid].buf \in Seq(Int) /\ child[pid].blk \in Seq(Int) /\ child[pid].pos \in Nat
         /\ child[pid].role = "decompressor" => /\ child[pid].in = pid + 1 /\ child[pid].out = pid
                                                /\ pid + 1 \in DOMAIN pipe /\ pid + 1 # pid
                                                /\ pipe[pid + 1].units \in Seq(Int)
         /\ child[pid].role = "recompressor" => child[pid].in = pid
<1>1. pid \in DOMAIN child /\ child[pid].at = "running"
  BY DEF Runs, Child
<1>2. pid \in DOMAIN pipe /\ pid \in Nat
  BY <1>1, Lengths DEF Paired
<1>3. child[pid].exit = ""
  BY <1>1 DEF Paired
<1>4. child[pid] \in Children /\ child[pid].buf \in Seq(Int) /\ child[pid].blk \in Seq(Int) /\ child[pid].pos \in Nat
  BY <1>1, Fields
<1>5. pipe[pid].units \in Seq(Int) /\ Len(pipe[pid].units) \in Nat /\ (pid + 1 \in DOMAIN pipe => pipe[pid + 1].units \in Seq(Int))
  BY <1>2, Fields
<1>6. /\ child[pid].role = "decompressor" => child[pid].in = pid + 1 /\ child[pid].out = pid /\ pid + 1 \in DOMAIN pipe
      /\ child[pid].role = "recompressor" => child[pid].in = pid
  BY <1>1 DEF Paired
<1>7. pid + 1 # pid
  BY <1>2
<1>8. QED
  BY <1>1, <1>2, <1>3, <1>4, <1>5, <1>6, <1>7

LEMMA DecompressorSteps ==
  ASSUME TypeOK, Paired, Decompressing, Recompressing, UNCHANGED <<cmd, script, file, ext_subprocs, status>>,
         NEW pid, DecompressorReads(pid) \/ DecompressorWrites(pid)
  PROVE  TypeOK' /\ Paired' /\ Decompressing' /\ Recompressing' /\ Apart
<1> DEFINE r == child[pid]
           rest == pipe[pid].units
<1>1. Runs(pid) /\ child[pid].role = "decompressor"
  BY DEF DecompressorReads, DecompressorWrites
<1>2. /\ pid \in DOMAIN child /\ r \in Children /\ r.at = "running" /\ r.exit = ""
      /\ pid \in DOMAIN pipe /\ pid \in Nat /\ rest \in Seq(Int) /\ Len(rest) \in Nat
      /\ r.buf \in Seq(Int) /\ r.pos \in Nat
      /\ r.in = pid + 1 /\ r.out = pid /\ pid + 1 \in DOMAIN pipe /\ pid + 1 # pid
      /\ pipe[pid + 1].units \in Seq(Int)
  BY <1>1, Running1
<1>3. Making(pid) /\ pipe \in Seq(Pipes)
  BY <1>1, <1>2 DEF Decompressing, TypeOK
<1>4. /\ Taken(pid) >= 0 /\ Taken(pid) = r.pos - Len(r.buf) - Len(rest) /\ Len(r.buf) <= 1
      /\ pid \in pipe[pid].writers
      /\ Made(rest, Taken(pid)) /\ Made(r.buf, r.pos - Len(r.buf))
  BY <1>2, <1>3, MakingParts DEF Making, Taken
<1>5. child[pid].role # "recompressor"
  BY <1>1
<1>6. ASSUME NEW how \in {"0", "1"}, Exits(pid, how), how = "0" => r.pos = Size /\ r.buf = <<>>
      PROVE  TypeOK' /\ Paired' /\ Decompressing' /\ Recompressing' /\ Apart
  BY <1>1, <1>5, <1>6, ExitKeeps
<1>7. CASE DecompressorReads(pid)
  <2>1. CASE /\ CanTake(r.in) /\ Head(pipe[r.in].units) = r.pos + 1
             /\ child' = [child EXCEPT ![pid] = [@ EXCEPT !.buf = <<child[pid].pos + 1>>, !.pos = child[pid].pos + 1]]
             /\ pipe' = [pipe EXCEPT ![r.in].units = Tail(@)]
    <3> DEFINE c == [r EXCEPT !.buf = <<r.pos + 1>>, !.pos = r.pos + 1]
               u == Tail(pipe[pid + 1].units)
    <3>1. child' = [child EXCEPT ![pid] = c]
      BY <2>1
    <3>2. <<r.pos + 1>> \in Seq(Int) /\ r.pos + 1 \in Nat
      BY <1>2, OneUnit
    <3>3. /\ Same(r, c) /\ c.buf = <<r.pos + 1>> /\ c.pos = r.pos + 1
      <4>1. Same(r, c)
        BY <1>2, <3>2, Updates
      <4>2. c.buf = <<r.pos + 1>> /\ c.pos = r.pos + 1
        BY <1>2 DEF Children
      <4>3. QED
        BY <4>1, <4>2
    <3>4. u \in Seq(Int)
      <4>1. pipe[pid + 1].units # <<>>
        BY <1>2, <2>1 DEF CanTake
      <4>2. QED
        BY <1>2, <4>1, TakeElement
    <3>5. pipe' = [pipe EXCEPT ![pid + 1].units = u]
      BY <1>2, <2>1
    <3>6. r.buf = <<>>
      BY <1>7 DEF DecompressorReads
    <3> HIDE DEF c, u
    <3>7. PICK t : t = pid + 1
      OBVIOUS
    <3>8. Through(t)
      <4>1. t \in DOMAIN pipe /\ pipe' = [pipe EXCEPT ![t].units = u]
        BY <1>2, <3>5, <3>7
      <4>2. QED
        BY <1>3, <3>4, <4>1, SetUnits DEF Through
    <3>9. Foreign(t, pid)
      BY <1>1, <1>2, <3>7 DEF Foreign, Paired, Child
    <3>10. pipe'[pid] = pipe[pid] /\ child'[pid] = c
      BY <1>2, <3>1, <3>7, <3>8 DEF Through
    <3>11. PICK n \in Nat : n = r.pos
      BY <1>2
    <3>12. /\ Len(c.buf) = 1 /\ Made(c.buf, c.pos - Len(c.buf))
           /\ c.pos - Len(c.buf) - Len(rest) = r.pos - Len(r.buf) - Len(rest)
      <4>1. c.buf = <<n + 1>> /\ c.pos = n + 1
        BY <3>3, <3>11
      <4>2. PICK l \in Nat : l = Len(rest)
        BY <1>2
      <4>3. /\ Len(<<n + 1>>) = 1 /\ Made(<<n + 1>>, (n + 1) - Len(<<n + 1>>))
            /\ (n + 1) - 1 - l = n - 0 - l /\ Len(<<>>) = 0
        BY <3>11, <4>2, OneUnit
      <4>4. QED
        BY <3>6, <3>11, <4>1, <4>2, <4>3
    <3>13. Taken(pid)' = Taken(pid)
      BY <1>4, <3>10, <3>12 DEF Taken
    <3>14. Making(pid)'
      <4>1. Taken(pid)' >= 0 /\ Len(child'[pid].buf) <= 1
        BY <1>4, <3>10, <3>12, <3>13
      <4>2. Made(pipe'[pid].units, Taken(pid)')
        BY <1>4, <3>10, <3>13
      <4>3. Made(child'[pid].buf, child'[pid].pos - Len(child'[pid].buf))
        BY <3>10, <3>12
      <4>4. pid \in pipe'[pid].writers /\ child'[pid].exit = ""
        BY <1>2, <1>4, <3>3, <3>10 DEF Same
      <4>5. QED
        BY <4>1, <4>2, <4>3, <4>4, MakingParts
    <3>15. QED
      BY <1>1, <1>5, <3>1, <3>3, <3>8, <3>9, <3>13, <3>14, ChildMoves
  <2>2. CASE Exits(pid, "1")
    BY <1>6, <2>2
  <2>3. CASE Exits(pid, IF r.pos = Size THEN "0" ELSE "1")
    <3>1. r.buf = <<>>
      BY <1>7 DEF DecompressorReads
    <3>2. CASE r.pos = Size
      BY <1>6, <2>3, <3>1, <3>2
    <3>3. CASE r.pos # Size
      BY <1>6, <2>3, <3>3
    <3>4. QED
      BY <3>2, <3>3
  <2>4. QED
    BY <1>7, <2>1, <2>2, <2>3 DEF DecompressorReads
<1>8. CASE DecompressorWrites(pid)
  <2>1. CASE /\ pipe' = [pipe EXCEPT ![r.out].units = Append(@, Head(r.buf))]
             /\ child' = [child EXCEPT ![pid].buf = <<>>]
    <3> DEFINE c == [r EXCEPT !.buf = <<>>]
               u == Append(rest, Head(r.buf))
    <3>1. child' = [child EXCEPT ![pid] = c]
      BY <2>1
    <3>2. Same(r, c) /\ c.buf = <<>> /\ c.pos = r.pos
      <4>1. <<>> \in Seq(Int)
        OBVIOUS
      <4>2. Same(r, c)
        BY <1>2, <4>1, Updates
      <4>3. c.buf = <<>> /\ c.pos = r.pos
        BY <1>2 DEF Children
      <4>4. QED
        BY <4>2, <4>3
    <3>3. r.buf # <<>>
      BY <1>8 DEF DecompressorWrites
    <3>4. u \in Seq(Int)
      BY <1>2, <3>3, PutUnit
    <3>5. pipe' = [pipe EXCEPT ![pid].units = u]
      BY <1>2, <2>1
    <3>6. u = Append(rest, Head(r.buf))
      OBVIOUS
    <3> HIDE DEF c, u
    <3>7. /\ pipe' \in Seq(Pipes) /\ Len(pipe') = Len(pipe) /\ DOMAIN pipe' = DOMAIN pipe
          /\ pipe'[pid].units = u
          /\ pipe'[pid].readers = pipe[pid].readers /\ pipe'[pid].writers = pipe[pid].writers
          /\ \A q \in DOMAIN pipe : q # pid => pipe'[q] = pipe[q]
      BY <1>2, <1>3, <3>4, <3>5, SetUnits
    <3>8. Through(pid) /\ Foreign(pid, pid)
      BY <3>7 DEF Through, Foreign
    <3>9. child'[pid] = c
      BY <1>2, <3>1
    <3>10. r.pos - Len(<<>>) - Len(u) = Taken(pid) /\ Made(u, Taken(pid))
      <4>1. /\ r.pos - Len(r.buf) - Len(rest) >= 0 /\ Len(r.buf) <= 1
            /\ Made(rest, r.pos - Len(r.buf) - Len(rest)) /\ Made(r.buf, r.pos - Len(r.buf))
        BY <1>4
      <4>2. rest \in Seq(Int) /\ r.buf \in Seq(Int) /\ r.pos \in Nat
        BY <1>2
      <4> HIDE DEF r, rest
      <4>3. /\ r.pos - Len(<<>>) - Len(u) = r.pos - Len(r.buf) - Len(rest)
            /\ Made(u, r.pos - Len(r.buf) - Len(rest))
        BY <3>3, <3>6, <4>1, <4>2, MadeUnit
      <4>4. QED
        BY <1>4, <4>3
    <3>11. Taken(pid)' = Taken(pid)
      BY <3>2, <3>7, <3>9, <3>10 DEF Taken
    <3>12. Making(pid)'
      <4>1. child'[pid].buf = <<>> /\ Len(<<>>) = 0
        BY <3>2, <3>9
      <4>2. Taken(pid)' >= 0 /\ Len(child'[pid].buf) <= 1
        BY <1>4, <3>11, <4>1
      <4>3. Made(pipe'[pid].units, Taken(pid)')
        BY <3>7, <3>10, <3>11
      <4>4. Made(child'[pid].buf, child'[pid].pos - Len(child'[pid].buf))
        BY <4>1 DEF Made
      <4>5. pid \in pipe'[pid].writers /\ child'[pid].exit = ""
        BY <1>2, <1>4, <3>2, <3>7, <3>9 DEF Same
      <4>6. QED
        BY <4>2, <4>3, <4>4, <4>5, MakingParts
    <3>13. QED
      BY <1>1, <1>5, <3>1, <3>2, <3>8, <3>11, <3>12, ChildMoves
  <2>2. CASE Broken(r.out) /\ Exits(pid, "SIGPIPE")
    <3>1. pipe[pid].readers = {}
      BY <1>2, <2>2 DEF Broken
    <3>2. QED
      BY <1>1, <1>5, <2>2, <3>1, ExitKeeps
  <2>3. QED
    BY <1>8, <2>1, <2>2 DEF DecompressorWrites
<1>9. QED
  BY <1>7, <1>8


\* The recompressor takes what comes first in its pipe.
LEMMA Gathered ==
  ASSUME NEW a \in Seq(Int), NEW u \in Seq(Int), u # <<>>
  PROVE  Append(a, Head(u)) \o Tail(u) = a \o u /\ Append(a, Head(u)) \in Seq(Int) /\ Tail(u) \in Seq(Int)
<1> DEFINE s == Append(a, Head(u)) \o Tail(u)
           t == a \o u
           m == Len(a)
           n == Len(u)
<1>1. /\ m \in Nat /\ n \in Nat /\ n >= 1 /\ Head(u) = u[1] /\ Head(u) \in Int
      /\ Tail(u) \in Seq(Int) /\ Len(Tail(u)) = n - 1 /\ \A i \in 1 .. n - 1 : Tail(u)[i] = u[i + 1]
  BY TakeElement
<1>2. /\ Append(a, Head(u)) \in Seq(Int) /\ Len(Append(a, Head(u))) = m + 1
      /\ \A i \in 1 .. m : Append(a, Head(u))[i] = a[i]
      /\ Append(a, Head(u))[m + 1] = u[1]
  BY <1>1, AppendElement
<1>3. /\ t \in Seq(Int) /\ Len(t) = m + n
      /\ \A i \in 1 .. m : t[i] = a[i]
      /\ \A i \in m + 1 .. m + n : t[i] = u[i - m]
  OBVIOUS
<1>4. /\ s \in Seq(Int) /\ Len(s) = (m + 1) + (n - 1)
      /\ \A i \in 1 .. m + 1 : s[i] = Append(a, Head(u))[i]
      /\ \A i \in (m + 1) + 1 .. (m + 1) + (n - 1) : s[i] = Tail(u)[i - (m + 1)]
  BY <1>1, <1>2
<1> DEFINE w == Append(a, Head(u))
           v == Tail(u)
<1>5. /\ Len(v) = n - 1 /\ (\A i \in 1 .. n - 1 : v[i] = u[i + 1])
      /\ (\A i \in 1 .. m : w[i] = a[i]) /\ w[m + 1] = u[1]
      /\ (\A i \in 1 .. m + 1 : s[i] = w[i])
      /\ \A i \in (m + 1) + 1 .. (m + 1) + (n - 1) : s[i] = v[i - (m + 1)]
  BY <1>1, <1>2, <1>4
<1>6. Len(s) = Len(t) /\ s \in Seq(Int) /\ t \in Seq(Int)
  BY <1>1, <1>3, <1>4
<1>7. m \in Nat /\ n \in Nat /\ n >= 1 /\ Len(t) = m + n
  BY <1>1, <1>3
<1> HIDE DEF s, t, m, n, v, w
<1>8. \A i \in 1 .. m + n : s[i] = t[i]
  <2> SUFFICES ASSUME NEW i \in 1 .. m + n PROVE s[i] = t[i]
    OBVIOUS
  <2>1. CASE i \in 1 .. m
    <3>1. i \in 1 .. m + 1
      BY <1>7, <2>1
    <3>2. QED
      BY <1>3, <1>5, <2>1, <3>1
  <2>2. CASE i = m + 1
    <3>1. i \in 1 .. m + 1 /\ i \in m + 1 .. m + n /\ i - m = 1
      BY <1>7, <2>2
    <3>2. s[i] = u[1] /\ t[i] = u[1]
      BY <1>3, <1>5, <2>2, <3>1
    <3>3. QED
      BY <3>2
  <2>3. CASE i \in (m + 1) + 1 .. m + n
    <3>1. /\ i \in (m + 1) + 1 .. (m + 1) + (n - 1) /\ i \in m + 1 .. m + n
          /\ i - (m + 1) \in 1 .. n - 1 /\ (i - (m + 1)) + 1 = i - m
      BY <1>7, <2>3
    <3>2. s[i] = v[i - (m + 1)] /\ v[i - (m + 1)] = u[(i - (m + 1)) + 1] /\ t[i] = u[i - m]
      BY <1>3, <1>5, <3>1
    <3>3. QED
      BY <3>1, <3>2
  <2>4. i \in 1 .. m \/ i = m + 1 \/ i \in (m + 1) + 1 .. m + n
    BY <1>7
  <2>5. QED
    BY <2>1, <2>2, <2>3, <2>4
<1>9. s = t
  BY <1>6, <1>7, <1>8
<1>10. QED
  BY <1>1, <1>2, <1>9 DEF s, t

LEMMA RecompressorSteps ==
  ASSUME TypeOK, Paired, Decompressing, Recompressing, UNCHANGED <<cmd, script, file, ext_subprocs, status>>,
         NEW pid, Recompresses(pid)
  PROVE  TypeOK' /\ Paired' /\ Decompressing' /\ Recompressing' /\ Apart
<1> DEFINE r == child[pid]
           rest == pipe[pid].units
<1>1. Runs(pid) /\ child[pid].role = "recompressor"
  BY DEF Recompresses
<1>2. /\ pid \in DOMAIN child /\ r \in Children /\ r.at = "running" /\ r.exit = ""
      /\ pid \in DOMAIN pipe /\ rest \in Seq(Int) /\ r.blk \in Seq(Int) /\ r.in = pid
  BY <1>1, Running1
<1>3. Gathering(pid) /\ pipe \in Seq(Pipes)
  BY <1>1, <1>2 DEF Recompressing, TypeOK
<1>4. child[pid].role # "decompressor"
  BY <1>1
<1>5. CASE /\ CanTake(r.in)
           /\ child' = [child EXCEPT ![pid].blk = Append(@, Head(pipe[r.in].units))]
           /\ pipe' = [pipe EXCEPT ![r.in].units = Tail(@)]
  <2> DEFINE b == Append(r.blk, Head(rest))
             u == Tail(rest)
             c == [r EXCEPT !.blk = b]
  <2>1. rest # <<>>
    BY <1>2, <1>5 DEF CanTake
  <2>2. b \o u = r.blk \o rest /\ b \in Seq(Int) /\ u \in Seq(Int)
    BY <1>2, <2>1, Gathered
  <2>3. child' = [child EXCEPT ![pid] = c] /\ pipe' = [pipe EXCEPT ![pid].units = u]
    BY <1>2, <1>5
  <2>4. Same(r, c) /\ c.blk = b /\ c.exit = ""
    <3> HIDE DEF b
    <3>1. Same(r, c)
      BY <1>2, <2>2, Updates
    <3>2. c.blk = b /\ c.exit = r.exit
      BY <1>2 DEF Children
    <3>3. QED
      BY <1>2, <3>1, <3>2
  <2> HIDE DEF b, u, c
  <2>5. /\ pipe' \in Seq(Pipes) /\ Len(pipe') = Len(pipe) /\ DOMAIN pipe' = DOMAIN pipe
        /\ pipe'[pid].units = u
        /\ pipe'[pid].readers = pipe[pid].readers /\ pipe'[pid].writers = pipe[pid].writers
        /\ \A q \in DOMAIN pipe : q # pid => pipe'[q] = pipe[q]
    BY <1>2, <1>3, <2>2, <2>3, SetUnits
  <2>6. Through(pid) /\ Foreign(pid, pid)
    BY <2>5 DEF Through, Foreign
  <2>7. child'[pid] = c
    BY <1>2, <2>3
  <2>8. Gathering(pid)'
    <3>1. file["output"].data = r.blk \o rest /\ file' = file
      BY <1>3 DEF Gathering
    <3>2. file'["output"].data = child'[pid].blk \o pipe'[pid].units
      BY <2>2, <2>4, <2>5, <2>7, <3>1
    <3>3. child'[pid].exit = ""
      BY <2>4, <2>7
    <3>4. QED
      BY <3>2, <3>3 DEF Gathering
  <2>9. QED
    BY <1>1, <1>4, <2>3, <2>4, <2>6, <2>8, ChildMoves
<1>6. CASE AtEnd(r.in) /\ Exits(pid, "0")
  <2>1. pipe[pid].units = <<>> /\ pipe[pid].writers = {}
    BY <1>2, <1>6 DEF AtEnd
  <2>2. QED
    BY <1>1, <1>4, <1>6, <2>1, ExitKeeps
<1>7. QED
  BY <1>5, <1>6 DEF Recompresses

\* A copier that is done, and a program that fails.
LEMMA Endings ==
  ASSUME TypeOK, Paired, Decompressing, Recompressing, UNCHANGED <<cmd, script, file, ext_subprocs, status>>,
         NEW pid, CopierExits(pid) \/ ChildFails(pid)
  PROVE  TypeOK' /\ Paired' /\ Decompressing' /\ Recompressing' /\ Apart
<1>1. CASE CopierExits(pid)
  <2>1. Runs(pid) /\ child[pid].role = "copier" /\ Exits(pid, "0")
    BY <1>1 DEF CopierExits
  <2>2. child[pid].role # "decompressor" /\ child[pid].role # "recompressor"
    BY <2>1
  <2>3. QED
    BY <2>1, <2>2, ExitKeeps
<1>2. CASE ChildFails(pid)
  <2>1. Runs(pid) /\ Exits(pid, "1")
    BY <1>2 DEF ChildFails
  <2>2. QED
    BY <2>1, ExitKeeps
<1>3. QED
  BY <1>1, <1>2

\* A child starts: it closes ends that are not its own, and never the one it writes to.
LEMMA KeptPipes ==
  ASSUME TypeOK, NEW pid \in DOMAIN child, NEW p \in DOMAIN pipe
  PROVE  LET k == Kept(pid, child[pid], p)
         IN  /\ k \in Pipes /\ k.units = pipe[p].units
             /\ k.readers \in {pipe[p].readers, pipe[p].readers \ {pid}}
             /\ k.writers \in {pipe[p].writers, pipe[p].writers \ {pid}}
             /\ child[pid].role = "decompressor" /\ child[pid].in # p => k.writers = pipe[p].writers
<1> DEFINE c == child[pid]
           d == pipe[p]
           k == Kept(pid, c, p)
<1>1. d \in Pipes /\ c.role \in {"decompressor", "copier", "recompressor"}
  BY Fields
<1>2. ASSUME NEW rd \in SUBSET Nat, NEW wr \in SUBSET Nat
      PROVE  LET e == [d EXCEPT !.readers = rd, !.writers = wr]
                 f == [d EXCEPT !.writers = wr]
             IN  /\ e \in Pipes /\ e.units = d.units /\ e.readers = rd /\ e.writers = wr
                 /\ f \in Pipes /\ f.units = d.units /\ f.readers = d.readers /\ f.writers = wr
  BY <1>1 DEF Pipes
<1>3. d.readers \in SUBSET Nat /\ d.writers \in SUBSET Nat
  BY <1>1 DEF Pipes
<1>4. CASE c.role = "decompressor"
  <2> DEFINE rd == IF p = c.out THEN d.readers \ {pid} ELSE d.readers
             wr == IF p = c.in THEN d.writers \ {pid} ELSE d.writers
  <2>1. k = [d EXCEPT !.readers = rd, !.writers = wr]
    BY <1>4 DEF Kept
  <2>2. /\ rd \in SUBSET Nat /\ wr \in SUBSET Nat
        /\ rd \in {d.readers, d.readers \ {pid}} /\ wr \in {d.writers, d.writers \ {pid}}
        /\ c.in # p => wr = d.writers
    BY <1>3
  <2> HIDE DEF rd, wr, k, d
  <2>3. k \in Pipes /\ k.units = d.units /\ k.readers = rd /\ k.writers = wr
    BY <1>2, <2>1, <2>2, ZenonT(60)
  <2>4. QED
    BY <2>2, <2>3 DEF k, d
<1>5. CASE c.role = "copier"
  <2> DEFINE rd == IF p \in {c.out, c.out - 1} THEN d.readers \ {pid} ELSE d.readers
             wr == IF p = c.out - 1 THEN d.writers \ {pid} ELSE d.writers
  <2>1. k = [d EXCEPT !.readers = rd, !.writers = wr]
    BY <1>5 DEF Kept
  <2>2. /\ rd \in SUBSET Nat /\ wr \in SUBSET Nat
        /\ rd \in {d.readers, d.readers \ {pid}} /\ wr \in {d.writers, d.writers \ {pid}}
    BY <1>3
  <2> HIDE DEF rd, wr, k, d
  <2>3. k \in Pipes /\ k.units = d.units /\ k.readers = rd /\ k.writers = wr
    BY <1>2, <2>1, <2>2, ZenonT(60)
  <2>4. QED
    BY <1>5, <2>2, <2>3 DEF k, d
<1>6. CASE c.role = "recompressor"
  <2> DEFINE wr == IF p = c.in THEN d.writers \ {pid} ELSE d.writers
  <2>1. k = [d EXCEPT !.writers = wr]
    BY <1>6 DEF Kept
  <2>2. wr \in SUBSET Nat /\ wr \in {d.writers, d.writers \ {pid}}
    BY <1>3
  <2> HIDE DEF wr, k, d
  <2>3. k \in Pipes /\ k.units = d.units /\ k.readers = d.readers /\ k.writers = wr
    BY <1>2, <1>3, <2>1, <2>2
  <2>4. QED
    BY <1>6, <2>2, <2>3 DEF k, d
<1>7. QED
  BY <1>1, <1>4, <1>5, <1>6

LEMMA StartKeeps ==
  ASSUME TypeOK, Paired, Decompressing, Recompressing, UNCHANGED <<cmd, script, file, ext_subprocs, status>>,
         NEW pid, ChildStarts(pid)
  PROVE  TypeOK' /\ Paired' /\ Decompressing' /\ Recompressing' /\ Apart
<1> DEFINE r == child[pid]
           c == [r EXCEPT !.at = "running"]
<1>1. pid \in DOMAIN child /\ r.at = "forked" /\ r \in Children /\ r.exit = "" /\ pid # 0
  <2>1. pid \in DOMAIN child /\ r.at = "forked"
    BY DEF ChildStarts, Child
  <2>2. r.exit = ""
    BY <2>1 DEF Paired
  <2>3. QED
    BY <2>1, <2>2, Fields, Lengths
<1>2. /\ c \in Children /\ c.role = r.role /\ c.in = r.in /\ c.out = r.out /\ c.pos = r.pos /\ c.buf = r.buf
      /\ c.blk = r.blk /\ c.at = "running" /\ c.exit = ""
  BY <1>1 DEF Children
<1>3. child' = [child EXCEPT ![pid] = c]
  BY DEF ChildStarts
<1>4. /\ pipe' = [p \in DOMAIN pipe |-> Kept(pid, child[pid], p)] /\ pipe \in Seq(Pipes)
      /\ DOMAIN pipe' = DOMAIN pipe /\ pipe' = [p \in DOMAIN pipe |-> pipe'[p]]
  BY DEF ChildStarts, TypeOK
<1>5. ASSUME NEW p \in DOMAIN pipe
      PROVE  /\ pipe'[p] \in Pipes /\ pipe'[p].units = pipe[p].units
             /\ pipe'[p].readers \in {pipe[p].readers, pipe[p].readers \ {pid}}
             /\ pipe'[p].writers \in {pipe[p].writers, pipe[p].writers \ {pid}}
             /\ child[pid].role = "decompressor" /\ child[pid].in # p => pipe'[p].writers = pipe[p].writers
  <2>1. pipe'[p] = Kept(pid, child[pid], p)
    BY <1>4
  <2>2. QED
    BY <1>1, <2>1, KeptPipes
<1>6. pipe' \in Seq(Pipes) /\ Len(pipe') = Len(pipe)
  BY <1>4, <1>5, MapElements
<1> HIDE DEF c
<1>7. /\ child' \in Seq(Children) /\ Len(child') = Len(child) /\ DOMAIN child' = DOMAIN child
      /\ child'[pid] = c /\ \A q \in DOMAIN child : q # pid => child'[q] = child[q]
      /\ \A q \in DOMAIN child : child'[q].role = child[q].role
      /\ Paired'
  BY <1>1, <1>2, <1>3, <1>4, <1>6, OneChild
<1>8. TypeOK'
  BY <1>6, <1>7 DEF TypeOK
<1>9. \A q \in DOMAIN child : /\ child'[q].pos = child[q].pos /\ child'[q].buf = child[q].buf
                              /\ child'[q].blk = child[q].blk /\ child'[q].exit = child[q].exit
                              /\ child'[q].at = "exited" => child[q].at = "exited"
                              /\ child[q].at = "exited" => child'[q].at = "exited"
  <2>1. \A q \in DOMAIN child : q = pid \/ child'[q] = child[q]
    BY <1>7
  <2>2. child'[pid] = c
    BY <1>7
  <2>3. QED
    BY <1>1, <1>2, <2>1, <2>2
<1>10. DOMAIN child \subseteq DOMAIN pipe
  BY Lengths DEF Paired
<1>11. ASSUME NEW q \in DOMAIN child, Making(q), child[q].role = "decompressor" PROVE Making(q)'
  <2>1. q \in DOMAIN pipe /\ pipe'[q].units = pipe[q].units
    BY <1>5, <1>10
  <2>2. Taken(q)' = Taken(q)
    BY <1>9, <2>1 DEF Taken
  <2>3. child'[q].exit = "SIGPIPE" => pipe'[q].readers = {}
    BY <1>5, <1>9, <1>11, <2>1 DEF Making
  <2>4. child'[q].at # "exited" => q \in pipe'[q].writers
    <3>1. child'[q].at # "exited" => q \in pipe[q].writers
      BY <1>9, <1>11 DEF Making
    <3>2. q # pid => pipe[q].writers \ {pid} = pipe[q].writers \/ (q \in pipe[q].writers => q \in pipe[q].writers \ {pid})
      OBVIOUS
    <3>3. q = pid => pipe'[q].writers = pipe[q].writers
      <4>1. child[q].in = q + 1
        BY <1>11 DEF Paired
      <4>2. q + 1 # q
        <5>1. q \in Nat
          BY Lengths
        <5>2. QED
          BY <5>1
      <4>3. QED
        BY <1>5, <1>11, <2>1, <4>1, <4>2
    <3>4. q # pid /\ q \in pipe[q].writers => q \in pipe'[q].writers
      BY <1>5, <2>1
    <3>5. QED
      BY <3>1, <3>3, <3>4
  <2>5. QED
    BY <1>9, <1>11, <2>1, <2>2, <2>3, <2>4 DEF Making
<1>12. ASSUME NEW q \in DOMAIN child, Gathering(q) PROVE Gathering(q)'
  <2>1. q \in DOMAIN pipe /\ pipe'[q].units = pipe[q].units /\ pipe'[q].writers \subseteq pipe[q].writers
    BY <1>5, <1>10
  <2>2. QED
    BY <1>9, <1>12, <2>1 DEF Gathering
<1>13. Decompressing'
  BY <1>7, <1>11 DEF Decompressing
<1>14. Recompressing'
  BY <1>7, <1>12 DEF Recompressing
<1>15. Apart
  <2>1. \A p \in DOMAIN pipe : /\ 0 \in pipe'[p].readers <=> 0 \in pipe[p].readers
                               /\ 0 \in pipe'[p].writers <=> 0 \in pipe[p].writers
    <3> SUFFICES ASSUME NEW p \in DOMAIN pipe
                 PROVE  /\ 0 \in pipe'[p].readers <=> 0 \in pipe[p].readers
                        /\ 0 \in pipe'[p].writers <=> 0 \in pipe[p].writers
      OBVIOUS
    <3>1. 0 # pid
      BY <1>1
    <3>2. \A S : 0 \in S <=> 0 \in S \ {pid}
      BY <3>1
    <3>3. QED
      BY <1>5, <3>2
  <2>2. \A q \in DOMAIN child : child'[q].pos - Len(child'[q].buf) - Len(pipe'[q].units) = Taken(q)
    BY <1>5, <1>9, <1>10 DEF Taken
  <2>3. QED
    BY <1>4, <1>6, <1>7, <1>9, <2>1, <2>2 DEF Apart
<1>16. QED
  BY <1>7, <1>8, <1>13, <1>14, <1>15

LEMMA ChildKeeps ==
  ASSUME RunInv, NEW pid, ChildStep(pid) \/ Failure(pid)
  PROVE  RunInv'
<1>1. TypeOK /\ Paired /\ Decompressing /\ Recompressing /\ Piped /\ InputTrue /\ Forking /\ Writes /\ Doing /\ Waiting /\ ScriptOK
  BY DEF RunInv, ScriptOK, TypeOK
<1>2. UNCHANGED <<cmd, script, file, ext_subprocs, status>>
  BY DEF ChildStep, Failure
<1>3. TypeOK' /\ Paired' /\ Decompressing' /\ Recompressing' /\ Apart
  <2>1. CASE ChildStarts(pid)
    BY <1>1, <1>2, <2>1, StartKeeps
  <2>2. CASE CopierWrites(pid) \/ CopierReads(pid) \/ CopierReadFails(pid)
    BY <1>1, <1>2, <2>2, CopierSteps
  <2>3. CASE CopierExits(pid) \/ ChildFails(pid)
    BY <1>1, <1>2, <2>3, Endings
  <2>4. CASE DecompressorReads(pid) \/ DecompressorWrites(pid)
    BY <1>1, <1>2, <2>4, DecompressorSteps
  <2>5. CASE Recompresses(pid)
    BY <1>1, <1>2, <2>5, RecompressorSteps
  <2>6. QED
    BY <2>1, <2>2, <2>3, <2>4, <2>5 DEF ChildStep, Failure
<1>4. Piped' /\ InputTrue' /\ Forking' /\ Writes' /\ Doing' /\ Waiting' /\ ScriptOK' = ScriptOK
  BY <1>1, <1>3, ApartKeeps
<1>5. QED
  BY <1>1, <1>3, <1>4 DEF RunInv, ScriptOK

-----------------------------------------------------------------------------
(* What is pending *)

LEMMA Heads ==
  ASSUME NEW s \in Seq(Steps), s # <<>>
  PROVE  Head(s) = s[1] /\ 1 \in 1 .. Len(s) /\ s[1] \in Steps
  OBVIOUS

\* What is known where a step is done.
LEMMA AtHead ==
  ASSUME ScriptOK, NEW n, At(n)
  PROVE  /\ status = "running" /\ script # <<>> /\ script \in Seq(Steps) /\ script[1] \in Steps /\ script[1][1] = n
         /\ Head(script) = script[1] /\ Subject = script[1][2] /\ 1 \in 1 .. Len(script)
         /\ \A m : At(m) => m = n
<1>1. status = "running" /\ script # <<>> /\ Head(script)[1] = n /\ script \in Seq(Steps)
  BY DEF At, Running, ScriptOK
<1>2. Head(script) = script[1] /\ 1 \in 1 .. Len(script) /\ script[1] \in Steps
  BY <1>1, Heads
<1>3. QED
  BY <1>1, <1>2 DEF At, Subject

LEMMA TurnValues ==
  /\ Turn(<<"verify">>) = 2 /\ Turn(<<"output">>) = 3 /\ Turn(<<"recompress">>) = 4
  /\ Turn(<<"output_parent">>) = 5 /\ Turn(<<"encode">>) = 6 /\ Turn(<<"decode">>) = 6
  /\ Turn(<<"compare">>) = 8 /\ Turn(<<"open", "input">>) = 1
<1> DEFINE N(s) == s[1]
<1>1. /\ N(<<"verify">>) = "verify" /\ N(<<"output">>) = "output" /\ N(<<"recompress">>) = "recompress"
      /\ N(<<"output_parent">>) = "output_parent" /\ N(<<"encode">>) = "encode" /\ N(<<"decode">>) = "decode"
      /\ N(<<"compare">>) = "compare" /\ N(<<"open", "input">>) = "open"
  OBVIOUS
<1>2. QED
  BY <1>1, Turns

\* What comes earlier is past.
LEMMA Passed ==
  ASSUME ScriptOK, script # <<>>, script[1][1] # "read", NEW x \in Steps, x[1] # "read", Turn(x) < Turn(script[1])
  PROVE  ~Pending(x)
<1>1. script \in Seq(Steps) /\ Ordered(script) /\ Chained(script) /\ script[1] \in Steps
  BY Heads DEF ScriptOK
<1>2. Turn(x) \in 1 .. 9 /\ Turn(script[1]) \in 1 .. 9
  BY Turns
<1>3. ASSUME Among(x, Tail(script)) PROVE FALSE
  <2>1. PICK j \in 1 .. Len(Tail(script)) : Tail(script)[j] = x
    BY <1>3 DEF Among
  <2>2. Follows(script[1], x)
    BY <1>1, <2>1, TailKeeps
  <2>3. Turn(script[1]) <= Turn(x)
    BY <1>1, <2>2, FollowsNames
  <2>4. QED
    BY <1>2, <2>3
<1>4. script[1] # x
  BY <1>2
<1>5. QED
  BY <1>1, <1>3, <1>4, AmongTail DEF Pending

\* A step that comes once is past when it is done.
LEMMA Once ==
  ASSUME ScriptOK, script # <<>>, Do(<<>>), NEW x, x = script[1], x[1] # "read", Turn(x) \notin {1, 7}
  PROVE  ~Pending(x)'
<1>1. script \in Seq(Steps) /\ Ordered(script) /\ Chained(script) /\ script[1] \in Steps
  BY Heads DEF ScriptOK
<1>2. script' = Tail(script)
  BY Popped
<1>3. ASSUME Among(x, Tail(script)) PROVE FALSE
  <2>1. PICK j \in 1 .. Len(Tail(script)) : Tail(script)[j] = x
    BY <1>3 DEF Among
  <2>2. Follows(script[1], x)
    BY <1>1, <2>1, TailKeeps
  <2>3. Turn(x) = Turn(x) => Turn(x) \in {1, 7}
    BY <1>1, <2>2, FollowsNames
  <2>4. QED
    BY <2>3
<1>4. QED
  BY <1>2, <1>3 DEF Pending

\* Steps of other names are pending as before.
Steady(names) == \A x : x[1] \notin names => (Pending(x)' <=> Pending(x))

LEMMA PoppedSteady ==
  ASSUME ScriptOK, script # <<>>, Do(<<>>)
  PROVE  Steady({script[1][1]}) /\ \A x : Pending(x)' => Pending(x)
  BY Popped DEF Steady, Pending

LEMMA ReplacedSteady ==
  ASSUME ScriptOK, script # <<>>, NEW a, \A x : Among(x, script') <=> x = a \/ Among(x, Tail(script)),
         NEW names, a[1] \in names, script[1][1] \in names
  PROVE  Steady(names)
<1>1. \A x : Among(x, script) <=> script[1] = x \/ Among(x, Tail(script))
  BY AmongTail DEF ScriptOK
<1>2. QED
  BY <1>1 DEF Steady, Pending

\* The steps that are told apart.
SamePlaces ==
  /\ Pending(<<"output">>)' <=> Pending(<<"output">>)
  /\ Pending(<<"recompress">>)' <=> Pending(<<"recompress">>)
  /\ Pending(<<"output_parent">>)' <=> Pending(<<"output_parent">>)
SameWork ==
  /\ Pending(<<"encode">>)' <=> Pending(<<"encode">>)
  /\ Pending(<<"open", "input">>)' <=> Pending(<<"open", "input">>)
  /\ Pending(<<"compare">>)' <=> Pending(<<"compare">>)
  /\ Pending(<<"verify">>)' <=> Pending(<<"verify">>)

LEMMA SteadyPlaces ==
  ASSUME NEW names, Steady(names)
  PROVE  /\ names \cap {"output", "recompress", "output_parent"} = {} => SamePlaces
         /\ names \cap {"encode", "open", "compare", "verify"} = {} => SameWork
         /\ "decode" \notin names => (Pending(<<"decode">>)' <=> Pending(<<"decode">>))
         /\ "encode" \notin names => (Pending(<<"encode">>)' <=> Pending(<<"encode">>))
         /\ "open" \notin names => (Pending(<<"open", "input">>)' <=> Pending(<<"open", "input">>))
         /\ "compare" \notin names => (Pending(<<"compare">>)' <=> Pending(<<"compare">>))
         /\ "verify" \notin names => (Pending(<<"verify">>)' <=> Pending(<<"verify">>))
<1> DEFINE N(s) == s[1]
<1>1. /\ N(<<"verify">>) = "verify" /\ N(<<"output">>) = "output" /\ N(<<"recompress">>) = "recompress"
      /\ N(<<"output_parent">>) = "output_parent" /\ N(<<"encode">>) = "encode" /\ N(<<"decode">>) = "decode"
      /\ N(<<"compare">>) = "compare" /\ N(<<"open", "input">>) = "open"
  OBVIOUS
<1>2. \A x : N(x) \notin names => (Pending(x)' <=> Pending(x))
  BY DEF Steady
<1> HIDE DEF N
<1>3. /\ "output" \notin names => (Pending(<<"output">>)' <=> Pending(<<"output">>))
      /\ "recompress" \notin names => (Pending(<<"recompress">>)' <=> Pending(<<"recompress">>))
      /\ "output_parent" \notin names => (Pending(<<"output_parent">>)' <=> Pending(<<"output_parent">>))
  BY <1>1, <1>2
<1>4. /\ "decode" \notin names => (Pending(<<"decode">>)' <=> Pending(<<"decode">>))
      /\ "encode" \notin names => (Pending(<<"encode">>)' <=> Pending(<<"encode">>))
      /\ "open" \notin names => (Pending(<<"open", "input">>)' <=> Pending(<<"open", "input">>))
      /\ "compare" \notin names => (Pending(<<"compare">>)' <=> Pending(<<"compare">>))
      /\ "verify" \notin names => (Pending(<<"verify">>)' <=> Pending(<<"verify">>))
  BY <1>1, <1>2
<1>5. names \cap {"output", "recompress", "output_parent"} = {} =>
        "output" \notin names /\ "recompress" \notin names /\ "output_parent" \notin names
  OBVIOUS
<1>6. names \cap {"encode", "open", "compare", "verify"} = {} =>
        "encode" \notin names /\ "open" \notin names /\ "compare" \notin names /\ "verify" \notin names
  OBVIOUS
<1>7. QED
  BY <1>3, <1>4, <1>5, <1>6 DEF SamePlaces, SameWork

LEMMA SteadyOne ==
  ASSUME NEW n, Steady({n})
  PROVE  /\ n \notin {"output", "recompress", "output_parent"} => SamePlaces
         /\ n \notin {"encode", "open", "compare", "verify"} => SameWork
         /\ n # "decode" => (Pending(<<"decode">>)' <=> Pending(<<"decode">>))
         /\ n # "encode" => (Pending(<<"encode">>)' <=> Pending(<<"encode">>))
         /\ n # "open" => (Pending(<<"open", "input">>)' <=> Pending(<<"open", "input">>))
         /\ n # "compare" => (Pending(<<"compare">>)' <=> Pending(<<"compare">>))
         /\ n # "verify" => (Pending(<<"verify">>)' <=> Pending(<<"verify">>))
<1> DEFINE names == {n}
<1>1. /\ n \notin {"output", "recompress", "output_parent"} => names \cap {"output", "recompress", "output_parent"} = {}
      /\ n \notin {"encode", "open", "compare", "verify"} => names \cap {"encode", "open", "compare", "verify"} = {}
      /\ \A m : m \in names <=> n = m
  OBVIOUS
<1>2. Steady(names)
  OBVIOUS
<1> HIDE DEF names
<1>3. QED
  BY <1>1, <1>2, SteadyPlaces

-----------------------------------------------------------------------------
(* What the steps of main leave alone *)

LEMMA SameKids ==
  ASSUME Paired, Decompressing, Recompressing, cmd' = cmd, pipe' = pipe, child' = child,
         file'["output"].data = file["output"].data
  PROVE  Paired' /\ Decompressing' /\ Recompressing'
<1>1. \A q : Child(q)' = Child(q) /\ Decompressor(q)' = Decompressor(q) /\ Taken(q)' = Taken(q)
  BY DEF Child, Decompressor, Taken
<1>2. Paired'
  BY <1>1 DEF Paired
<1>3. Decompressing'
  BY <1>1 DEF Decompressing, Making
<1>4. Recompressing'
  BY DEF Recompressing, Gathering
<1>5. QED
  BY <1>2, <1>3, <1>4

LEMMA CalmForking ==
  ASSUME Forking, ScriptOK, NEW n, At(n), n # "copier", ScriptOK', NoForks(script'),
         Len(pipe') = Len(pipe), child' = child
  PROVE  Forking'
<1>1. Len(pipe) = Len(child) /\ ~Decompressor(Len(child)) /\ ~At("copier")
  <2>1. ~At("copier")
    BY AtHead
  <2>2. QED
    BY <2>1 DEF Forking
<1>2. ASSUME NEW m \in ForkNames PROVE ~At(m)'
  <2>1. At(m)' => script' # <<>> /\ Head(script')[1] = m
    BY DEF At, Running
  <2>2. script' # <<>> => Head(script') = script'[1] /\ 1 \in 1 .. Len(script')
    BY Heads DEF ScriptOK
  <2>3. QED
    BY <2>1, <2>2 DEF NoForks
<1>3. ~At("pipes")' /\ ~At("recompress")' /\ ~At("copier")' /\ ~At("parent")' /\ ~At("output_parent")'
  BY <1>2 DEF ForkNames
<1>4. \A i \in 1 .. Len(script') : script'[i][1] \notin {"pipes", "copier", "parent"}
  BY DEF NoForks, ForkNames
<1>5. Len(pipe') = Len(child') /\ ~Decompressor(Len(child))'
  BY <1>1 DEF Decompressor, Child
<1>6. QED
  BY <1>3, <1>4, <1>5 DEF Forking

SameRecompressor ==
  /\ \A q : Recompressor(q)' <=> Recompressor(q)
  /\ \A q : Recompressor(q) /\ 0 \in pipe[q].writers => 0 \in pipe'[q].writers

LEMMA WritesKeeps ==
  ASSUME Writes, cmd' = cmd, SamePlaces, Pending(<<"decode">>)' => Pending(<<"decode">>),
         file'["output"] = file["output"], SameRecompressor
  PROVE  Writes'
<1>1. Unopened' = Unopened
  BY DEF Unopened, SamePlaces
<1>2. (\A q \in DOMAIN child : child[q].role # "recompressor") => \A q \in DOMAIN child' : child'[q].role # "recompressor"
  BY DEF SameRecompressor, Recompressor, Child
<1>3. (\E q \in DOMAIN child : child[q].role = "recompressor") => \E q \in DOMAIN child' : child'[q].role = "recompressor"
  BY DEF SameRecompressor, Recompressor, Child
<1>4. PICK d : d = file["output"].fd
  OBVIOUS
<1>5. d > 0 => Recompressor(d)' /\ 0 \in pipe'[d].writers
  <2>1. d > 0 => Recompressor(d) /\ 0 \in pipe[d].writers
    BY <1>4 DEF Writes
  <2>2. QED
    BY <2>1 DEF SameRecompressor
<1>6. file'["output"].fd > 0 => Recompressor(file["output"].fd)' /\ 0 \in pipe'[file'["output"].fd].writers
  <2>1. file'["output"].fd = d
    BY <1>4
  <2>2. QED
    BY <1>5, <2>1 DEF Recompressor, Child
<1>7. /\ Pending(<<"output">>)' => file'["output"].fd = 0
      /\ Pending(<<"recompress">>)' => cmd'.tzip
      /\ Unopened' \/ Pending(<<"output_parent">>)' => file'["output"].data = <<>> /\ file'["output"].fd <= 0
  BY <1>1 DEF Writes, SamePlaces
<1>8. Unopened' => \A q \in DOMAIN child' : child'[q].role # "recompressor"
  BY <1>1, <1>2 DEF Writes
<1>9. Pending(<<"decode">>)' /\ ~Unopened' /\ ~Pending(<<"output_parent">>)' =>
        IF cmd'.tzip THEN file'["output"].fd > 0 ELSE file'["output"].fd = -1
  BY <1>1 DEF Writes, SamePlaces
<1>10. cmd'.op = "DECODE" /\ cmd'.tzip => Unopened' \/ \E q \in DOMAIN child' : child'[q].role = "recompressor"
  BY <1>1, <1>3 DEF Writes
<1>11. QED
  BY <1>6, <1>7, <1>8, <1>9, <1>10 DEF Writes

LEMMA DoingKeeps ==
  ASSUME Doing, cmd' = cmd, Pending(<<"encode">>) => Pending(<<"encode">>)',
         Pending(<<"open", "input">>)' => Pending(<<"open", "input">>),
         Pending(<<"compare">>) => Pending(<<"compare">>)', Pending(<<"verify">>) => Pending(<<"verify">>)',
         file["input"].eof => file'["input"].eof, file'["output"].data = file["output"].data,
         file'["hash"].data = file["hash"].data,
         At("finish")' => \A i \in 1 .. Len(ext_subprocs') : i < Subject' => ext_subprocs'[i] = 0
  PROVE  Doing'
<1>1. Wrong' = Wrong
  BY DEF Wrong
<1>2. cmd'.op = "ENCODE" => Pending(<<"encode">>)' \/ (file'["input"].eof /\ ~Pending(<<"open", "input">>)')
  BY DEF Doing
<1>3. cmd'.op = "DECODE" /\ cmd'.armor => Pending(<<"compare">>)' \/ file'["output"].data = Whole'
  BY DEF Doing, Whole
<1>4. Wrong' => Pending(<<"verify">>)' /\ \A i \in 1 .. Len(file'["hash"].data) : file'["hash"].data[i] < 0
  BY <1>1 DEF Doing
<1>5. QED
  BY <1>2, <1>3, <1>4 DEF Doing

\* The files that main reads, but for one, with their pipes.
SameFeeds(f) ==
  \A g \in Inputs \ {f} :
    /\ file'[g] = file[g]
    /\ \A q : q = file[g].fd /\ Feeds(q) => Feeds(q)' /\ Taken(q)' = Taken(q)

LEMMA PipedKeeps ==
  ASSUME Piped, NEW f, SameFeeds(f),
         f \in Inputs => /\ \A q : q = file'[f].fd /\ q > 0 => Feeds(q)' /\ Len(file'[f].data) = Taken(q)'
                         /\ \A g \in Inputs \ {f} : file'[f].fd > 0 => file[g].fd # file'[f].fd
  PROVE  Piped'
<1> SUFFICES ASSUME NEW g \in Inputs
             PROVE  /\ file'[g].fd > 0 => Feeds(file[g].fd)' /\ Len(file'[g].data) = Taken(file[g].fd)'
                    /\ \A h \in Inputs \ {g} : file'[g].fd > 0 => file'[h].fd # file'[g].fd
  BY DEF Piped
<1>1. PICK q : q = file'[g].fd
  OBVIOUS
<1>2. q > 0 => Feeds(q)' /\ Len(file'[g].data) = Taken(q)'
  <2>1. CASE g = f
    BY <1>1, <2>1
  <2>2. CASE g # f
    <3>1. g \in Inputs \ {f} /\ file'[g] = file[g]
      BY <2>2 DEF SameFeeds
    <3>2. q > 0 => Feeds(q) /\ Len(file[g].data) = Taken(q)
      BY <1>1, <3>1 DEF Piped
    <3>3. q > 0 => Feeds(q)' /\ Taken(q)' = Taken(q)
      BY <1>1, <3>1, <3>2 DEF SameFeeds
    <3>4. QED
      BY <3>1, <3>2, <3>3
  <2>3. QED
    BY <2>1, <2>2
<1>3. \A h \in Inputs \ {g} : q > 0 => file'[h].fd # q
  <2> SUFFICES ASSUME NEW h \in Inputs \ {g}, q > 0, file'[h].fd = q PROVE FALSE
    OBVIOUS
  <2>1. CASE g = f
    BY <1>1, <2>1 DEF SameFeeds
  <2>2. CASE h = f
    BY <1>1, <2>2 DEF SameFeeds
  <2>3. CASE g # f /\ h # f
    BY <1>1, <2>3 DEF SameFeeds, Piped
  <2>4. QED
    BY <2>1, <2>2, <2>3
<1>4. file'[g].fd > 0 => Feeds(file[g].fd)' /\ Len(file'[g].data) = Taken(file[g].fd)'
  BY <1>1, <1>2 DEF Feeds, Decompressor, Child, Taken
<1>5. QED
  BY <1>1, <1>3, <1>4

LEMMA SamePiped ==
  ASSUME Piped, file' = file, pipe' = pipe, child' = child
  PROVE  Piped'
<1>1. \A q : Feeds(q)' = Feeds(q) /\ Taken(q)' = Taken(q)
  BY DEF Feeds, Decompressor, Child, Taken
<1>2. SameFeeds("output") /\ "output" \notin Inputs
  BY <1>1 DEF SameFeeds, Inputs
<1>3. QED
  BY <1>2, PipedKeeps

LEMMA InputKeeps ==
  ASSUME InputTrue, file'["input"].data = file["input"].data, file'["input"].eof => file["input"].eof,
         file["input"].fd # 0 => file'["input"].fd # 0 \/ ~Pending(<<"encode">>)',
         \A q \in DOMAIN child : child[q].exit = "1" => q \in DOMAIN child' /\ child'[q].exit = "1",
         Pending(<<"encode">>)' => Pending(<<"encode">>),
         Pending(<<"open", "input">>) => Pending(<<"open", "input">>)' \/ file'["input"].fd # 0,
         At("read")' => From' # 0 /\ (Subject' = "input" => ~file'["input"].eof)
  PROVE  InputTrue'
<1>1. file["input"].eof => file["input"].data = Whole \/ \E q \in DOMAIN child : child[q].exit = "1"
  BY DEF InputTrue
<1>2. (\E q \in DOMAIN child : child[q].exit = "1") => \E q \in DOMAIN child' : child'[q].exit = "1"
  OBVIOUS
<1>3. file'["input"].eof => file'["input"].data = Whole' \/ \E q \in DOMAIN child' : child'[q].exit = "1"
  BY <1>1, <1>2 DEF Whole
<1>4. Pending(<<"encode">>)' => Pending(<<"open", "input">>)' \/ file'["input"].fd # 0
  BY DEF InputTrue
<1>5. \A i \in 1 .. Len(file'["input"].data) : file'["input"].data[i] = i
  BY DEF InputTrue
<1>6. QED
  BY <1>3, <1>4, <1>5 DEF InputTrue

LEMMA NotReading ==
  ASSUME ScriptOK', Calm(script')
  PROVE  NoForks(script') /\ ~At("read")'
<1>1. NoForks(script')
  BY DEF Calm, NoForks
<1>2. At("read")' => script' # <<>> /\ Head(script')[1] = "read"
  BY DEF At, Running
<1>3. script' # <<>> => Head(script') = script'[1] /\ 1 \in 1 .. Len(script')
  BY Heads DEF ScriptOK
<1>4. QED
  BY <1>1, <1>2, <1>3 DEF Calm

LEMMA NewHead ==
  ASSUME ScriptOK', script' # <<>>, NEW a, script'[1] = a
  PROVE  /\ \A m : At(m)' => m = a[1]
         /\ Subject' = a[2] /\ From' = file'[a[2]].fd
<1>1. Head(script') = script'[1]
  BY Heads DEF ScriptOK
<1>2. QED
  BY <1>1 DEF At, Running, Subject, From

\* The waiting begins with the first child.
LEMMA FreshFinish ==
  ASSUME ScriptOK, script # <<>>, Do(<<>>)
  PROVE  At("finish")' => \A i \in 1 .. Len(ext_subprocs') : i < Subject' => ext_subprocs'[i] = 0
<1> SUFFICES ASSUME At("finish")' PROVE \A i \in 1 .. Len(ext_subprocs') : ~(i < Subject')
  OBVIOUS
<1>1. ScriptOK' /\ script' # <<>> /\ Head(script')[1] = "finish"
  BY Popped DEF At, Running
<1>2. Head(script') = script'[1] /\ script'[1] \in Steps
  BY <1>1, Heads DEF ScriptOK
<1>3. ~(script'[1][2] > 1)
  BY <1>1, <1>2, Popped
<1>4. script'[1][2] \in Nat \ {0}
  BY <1>1, <1>2, StepFields
<1>5. PICK k : k = Subject'
  OBVIOUS
<1>6. k \in Nat \ {0} /\ ~(k > 1)
  BY <1>2, <1>3, <1>4, <1>5 DEF Subject
<1>7. \A i \in 1 .. Len(ext_subprocs') : ~(i < k)
  BY <1>6
<1>8. QED
  BY <1>5, <1>7

\* Nothing but the script changes, and the list of those to wait for.
LEMMA Scripted ==
  ASSUME RunInv, NEW n, At(n), n # "copier", ScriptOK', NoForks(script'),
         UNCHANGED <<cmd, file, pipe, child, status>>, ext_subprocs' \in Seq(Nat), Waiting', SamePlaces,
         Pending(<<"decode">>)' => Pending(<<"decode">>), Pending(<<"encode">>)' => Pending(<<"encode">>),
         Pending(<<"open", "input">>) => Pending(<<"open", "input">>)',
         At("read")' => From' # 0 /\ (Subject' = "input" => ~file'["input"].eof), Doing'
  PROVE  RunInv'
<1>1. cmd' = cmd /\ file' = file /\ pipe' = pipe /\ child' = child
  OBVIOUS
<1>2. /\ TypeOK /\ ScriptOK /\ Paired /\ Decompressing /\ Recompressing /\ Piped /\ InputTrue /\ Forking /\ Writes
  BY DEF RunInv, ScriptOK, TypeOK
<1>3. TypeOK'
  BY <1>1, <1>2 DEF TypeOK, ScriptOK
<1>4. Paired' /\ Decompressing' /\ Recompressing'
  BY <1>1, <1>2, SameKids
<1>5. Piped'
  BY <1>1, <1>2, SamePiped
<1>6. InputTrue'
  BY <1>1, <1>2, InputKeeps
<1>7. Forking'
  BY <1>1, <1>2, CalmForking
<1>8. Writes'
  <2>1. SameRecompressor
    BY <1>1 DEF SameRecompressor, Recompressor, Child
  <2>2. QED
    BY <1>1, <1>2, <2>1, WritesKeeps
<1>9. QED
  BY <1>3, <1>4, <1>5, <1>6, <1>7, <1>8 DEF RunInv, ScriptOK

LEMMA RunParts ==
  ASSUME RunInv
  PROVE  /\ TypeOK /\ ScriptOK /\ Paired /\ Decompressing /\ Recompressing /\ Waiting /\ Piped /\ InputTrue
         /\ Forking /\ Writes /\ Doing /\ ext_subprocs \in Seq(Nat)
  BY DEF RunInv, ScriptOK, TypeOK

LEMMA SameWaiting ==
  ASSUME Waiting, child' = child, ext_subprocs' = ext_subprocs
  PROVE  Waiting'
  BY DEF Waiting

\* A window or a block is read.
LEMMA PushRead ==
  ASSUME RunInv, NEW n \in {"encode", "decode", "hash"}, At(n), NEW f \in Inputs, file[f].fd # 0,
         f = "input" => ~file["input"].eof, script' = <<<<"read", f, WindowSize>>>> \o script,
         UNCHANGED <<cmd, file, pipe, child, ext_subprocs, status>>
  PROVE  RunInv'
<1> DEFINE a == <<"read", f, WindowSize>>
<1>1. a \in Steps /\ a[1] = "read" /\ a[2] = f
  <2>1. WindowSize \in Nat
    BY MainAssumption
  <2>2. QED
    BY <2>1, StepsMade
<1>2. script # <<>> /\ script[1][1] = n /\ ScriptOK
  BY AtHead, RunParts
<1>3. script[1][1] \notin ForkNames \cup {"finish", "read"}
  BY <1>2 DEF ForkNames
<1>4. script' = <<a>> \o script
  OBVIOUS
<1> HIDE DEF a
<1>5. /\ ScriptOK' /\ script' # <<>> /\ script'[1] = a
      /\ \A x : Among(x, script') <=> x = a \/ Among(x, script)
      /\ NoForks(script')
  BY <1>1, <1>2, <1>3, <1>4, Pushed
<1>6. Steady({"read"})
  BY <1>1, <1>5 DEF Steady, Pending
<1>7. SamePlaces /\ SameWork /\ (Pending(<<"decode">>)' <=> Pending(<<"decode">>))
  <2>1. PICK m : m = "read"
    OBVIOUS
  <2>2. Steady({m}) /\ m # "decode"
    BY <1>6, <2>1
  <2>3. m \notin {"output", "recompress", "output_parent"} /\ m \notin {"encode", "open", "compare", "verify"}
    BY <2>1
  <2>4. QED
    BY <2>2, <2>3, SteadyOne
<1>8. /\ \A m : At(m)' => m = "read"
      /\ Subject' = f /\ From' = file'[f].fd
  BY <1>1, <1>5, NewHead
<1>9. ~At("finish")'
  BY <1>8
<1>10. Doing'
  <2>1. file' = file /\ cmd' = cmd
    OBVIOUS
  <2>2. QED
    BY <1>7, <1>9, <2>1, RunParts, DoingKeeps DEF SameWork
<1>11. Waiting' /\ ext_subprocs' \in Seq(Nat)
  BY RunParts, SameWaiting
<1>12. n # "copier"
  OBVIOUS
<1>13. At("read")' => From' # 0 /\ (Subject' = "input" => ~file'["input"].eof)
  BY <1>8
<1>14. QED
  BY <1>5, <1>7, <1>10, <1>11, <1>12, <1>13, Scripted DEF SameWork

LEMMA WholeUnits ==
  /\ Whole \in Seq(Int) /\ Len(Whole) = Size /\ Size \in Nat /\ Size >= 1 /\ Whole[1] = 1 /\ 1 \in 1 .. Len(Whole)
  /\ \A i \in 1 .. Size : Whole[i] = i
<1>1. Size \in Nat /\ Size >= 1
  BY MainAssumption
<1>2. QED
  BY <1>1 DEF Whole

\* A step is done that changes nothing else.
LEMMA PopOnly ==
  ASSUME RunInv, NEW n \in {"encode", "decode", "verify", "compare"}, At(n), Do(<<>>),
         UNCHANGED <<cmd, file, pipe, child, ext_subprocs, status>>,
         n = "encode" => file["input"].eof, n = "verify" => file["hash"].data = Whole,
         n = "compare" => file["output"].data = Whole
  PROVE  RunInv'
<1>1. script # <<>> /\ script[1][1] = n /\ ScriptOK /\ script[1] \in Steps
  BY AtHead, RunParts
<1>2. ScriptOK' /\ Calm(script')
  <2>1. script[1][1] \notin ForkNames
    BY <1>1 DEF ForkNames
  <2>2. QED
    BY <1>1, <2>1, Popped
<1>3. NoForks(script') /\ ~At("read")'
  BY <1>2, NotReading
<1>4. Steady({n}) /\ \A x : Pending(x)' => Pending(x)
  BY <1>1, PoppedSteady
<1>5. SamePlaces
  <2>1. n \notin {"output", "recompress", "output_parent"}
    OBVIOUS
  <2>2. QED
    BY <1>4, <2>1, SteadyOne
<1>6. /\ n # "encode" => (Pending(<<"encode">>)' <=> Pending(<<"encode">>))
      /\ n # "compare" => (Pending(<<"compare">>)' <=> Pending(<<"compare">>))
      /\ n # "verify" => (Pending(<<"verify">>)' <=> Pending(<<"verify">>))
      /\ Pending(<<"open", "input">>)' <=> Pending(<<"open", "input">>)
  <2>1. n # "open"
    OBVIOUS
  <2>2. QED
    BY <1>4, <2>1, SteadyOne
<1>7. n = "encode" => ~Pending(<<"open", "input">>)
  <2>1. n = "encode" => Turn(script[1]) = 6 /\ script[1][1] # "read"
    BY <1>1, Turns
  <2>2. <<"open", "input">> \in Steps /\ <<"open", "input">>[1] # "read" /\ Turn(<<"open", "input">>) = 1
    BY StepsMade, TurnValues DEF Inputs
  <2>3. QED
    BY <1>1, <2>1, <2>2, Passed
<1>8. cmd' = cmd /\ file' = file
  OBVIOUS
<1>9. Doing'
  <2>1. Doing
    BY RunParts
  <2>2. Wrong' = Wrong
    BY <1>8 DEF Wrong
  <2>3. cmd'.op = "ENCODE" => Pending(<<"encode">>)' \/ (file'["input"].eof /\ ~Pending(<<"open", "input">>)')
    <3>1. CASE n = "encode"
      BY <1>6, <1>7, <1>8, <3>1
    <3>2. CASE n # "encode"
      BY <1>6, <1>8, <2>1, <3>2 DEF Doing
    <3>3. QED
      BY <3>1, <3>2
  <2>4. cmd'.op = "DECODE" /\ cmd'.armor => Pending(<<"compare">>)' \/ file'["output"].data = Whole'
    <3>1. Whole' = Whole
      BY DEF Whole
    <3>2. CASE n = "compare"
      BY <1>8, <3>1, <3>2
    <3>3. CASE n # "compare"
      BY <1>6, <1>8, <2>1, <3>1, <3>3 DEF Doing
    <3>4. QED
      BY <3>2, <3>3
  <2>5. Wrong' => Pending(<<"verify">>)' /\ \A i \in 1 .. Len(file'["hash"].data) : file'["hash"].data[i] < 0
    <3>1. CASE n = "verify"
      <4>1. Whole[1] = 1 /\ 1 \in 1 .. Len(Whole)
        BY WholeUnits
      <4>2. file["hash"].data = Whole
        BY <3>1
      <4>3. Wrong => file["hash"].data[1] < 0
        BY <2>1, <4>1, <4>2 DEF Doing
      <4>4. ~Wrong
        BY <4>1, <4>2, <4>3
      <4>5. QED
        BY <2>2, <4>4
    <3>2. CASE n # "verify"
      BY <1>6, <1>8, <2>1, <2>2, <3>2 DEF Doing
    <3>3. QED
      BY <3>1, <3>2
  <2>6. At("finish")' => \A i \in 1 .. Len(ext_subprocs') : i < Subject' => ext_subprocs'[i] = 0
    BY <1>1, FreshFinish
  <2>7. QED
    BY <2>3, <2>4, <2>5, <2>6 DEF Doing
<1>10. Waiting' /\ ext_subprocs' \in Seq(Nat)
  BY RunParts, SameWaiting
<1>11. n # "copier"
  OBVIOUS
<1>12. QED
  BY <1>2, <1>3, <1>4, <1>5, <1>6, <1>9, <1>10, <1>11, Scripted

\* One entry that is set to zero.
LEMMA Crossed ==
  ASSUME NEW s \in Seq(Nat), NEW k \in 1 .. Len(s), NEW t, t = [s EXCEPT ![k] = 0]
  PROVE  /\ t \in Seq(Nat) /\ Len(t) = Len(s) /\ t[k] = 0
         /\ \A i \in 1 .. Len(s) : i # k => t[i] = s[i]
<1>1. 0 \in Nat /\ DOMAIN s = 1 .. Len(s)
  OBVIOUS
<1>2. QED
  BY <1>1, SetElement

\* The children are waited for one after the other, and a failure ends the command.
LEMMA FinishGoesOn ==
  ASSUME RunInv, At("finish"), Subject <= Len(ext_subprocs), Normal(ext_subprocs[Subject]),
         ext_subprocs' = [ext_subprocs EXCEPT ![Subject] = 0], Do(<<<<"finish", Subject + 1>>>>),
         UNCHANGED <<cmd, file, pipe, child, status>>
  PROVE  RunInv'
<1>1. script # <<>> /\ script[1][1] = "finish" /\ ScriptOK /\ script[1] \in Steps /\ Subject = script[1][2]
  BY AtHead, RunParts
<1>2. PICK k \in Nat \ {0} : k = Subject
  BY <1>1, StepFields
<1> DEFINE a == <<"finish", k + 1>>
<1>3. a \in Steps /\ a[1] = "finish" /\ a[2] = k + 1
  <2>1. k + 1 \in Nat \ {0}
    BY <1>2
  <2>2. QED
    BY <2>1, StepsMade
<1>4. Do(<<a>>)
  BY <1>2
<1> HIDE DEF a
<1>5. /\ ScriptOK' /\ script' # <<>> /\ script'[1] = a
      /\ \A x : Among(x, script') <=> x = a \/ Among(x, Tail(script))
      /\ NoForks(script')
  <2>1. Turn(a) = 9 /\ Turn(script[1]) = 9
    BY <1>1, <1>3, Turns
  <2>2. script[1][1] \notin ForkNames /\ a[1] \notin {"pipes", "copier", "parent", "recompress", "output_parent"}
        /\ script[1][1] # "read"
    BY <1>1, <1>3 DEF ForkNames
  <2>3. QED
    BY <1>1, <1>3, <1>4, <2>1, <2>2, ReplacedByOne
<1>6. PICK m : m = "finish"
  OBVIOUS
<1>7. Steady({m})
  BY <1>1, <1>3, <1>5, <1>6, ReplacedSteady
<1>8. SamePlaces /\ SameWork /\ (Pending(<<"decode">>)' <=> Pending(<<"decode">>))
  <2>1. /\ m \notin {"output", "recompress", "output_parent"} /\ m \notin {"encode", "open", "compare", "verify"}
        /\ m # "decode"
    BY <1>6
  <2>2. QED
    BY <1>7, <2>1, SteadyOne
<1>9. /\ \A n : At(n)' => n = "finish"
      /\ Subject' = k + 1
  BY <1>3, <1>5, NewHead
<1>10. ~At("read")'
  BY <1>9
<1>11. /\ ext_subprocs' \in Seq(Nat) /\ Len(ext_subprocs') = Len(ext_subprocs) /\ ext_subprocs'[k] = 0
       /\ \A i \in 1 .. Len(ext_subprocs) : i # k => ext_subprocs'[i] = ext_subprocs[i]
       /\ k \in 1 .. Len(ext_subprocs)
  <2>1. ext_subprocs \in Seq(Nat) /\ 0 \in Nat /\ DOMAIN ext_subprocs = 1 .. Len(ext_subprocs)
    BY RunParts
  <2>2. k \in 1 .. Len(ext_subprocs)
    BY <1>2, <2>1
  <2>3. ext_subprocs' = [ext_subprocs EXCEPT ![k] = 0]
    BY <1>2
  <2>4. QED
    BY <2>1, <2>2, <2>3, Crossed
<1>12. Waiting'
  <2> SUFFICES ASSUME NEW q \in DOMAIN child
               PROVE  child[q].exit \in {"0", "SIGPIPE"} \/ \E i \in 1 .. Len(ext_subprocs') : ext_subprocs'[i] = q
    BY DEF Waiting
  <2>1. CASE child[q].exit \in {"0", "SIGPIPE"}
    BY <2>1
  <2>2. CASE \E i \in 1 .. Len(ext_subprocs) : ext_subprocs[i] = q
    <3>1. PICK i \in 1 .. Len(ext_subprocs) : ext_subprocs[i] = q
      BY <2>2
    <3>2. i = k => child[q].exit \in {"0", "SIGPIPE"}
      BY <1>2, <3>1 DEF Normal
    <3>3. i # k => ext_subprocs'[i] = q
      BY <1>11, <3>1
    <3>4. QED
      BY <1>11, <3>2, <3>3
  <2>3. Waiting
    BY RunParts
  <2>4. QED
    BY <2>1, <2>2, <2>3 DEF Waiting
<1>13. \A i \in 1 .. Len(ext_subprocs') : i < Subject' => ext_subprocs'[i] = 0
  <2>1. \A i \in 1 .. Len(ext_subprocs) : i < k => ext_subprocs[i] = 0
    BY <1>2, RunParts DEF Doing
  <2>2. \A i \in 1 .. Len(ext_subprocs) : i < k + 1 => i < k \/ i = k
    BY <1>2
  <2>3. QED
    BY <1>9, <1>11, <2>1, <2>2
<1>14. file' = file /\ cmd' = cmd
  OBVIOUS
<1>15. Doing'
  BY <1>8, <1>13, <1>14, RunParts, DoingKeeps DEF SameWork
<1>16. QED
  BY <1>5, <1>8, <1>10, <1>11, <1>12, <1>15, Scripted DEF SameWork

LEMMA FrontLast ==
  ASSUME NEW s \in Seq(Nat)
  PROVE  /\ Front(s) \in Seq(Nat)
         /\ \A i \in 1 .. Len(s) : s[i] = Last(s) \/ \E j \in 1 .. Len(Front(s)) : Front(s)[j] = s[i]
<1>1. Len(s) \in Nat
  OBVIOUS
<1>2. CASE Len(s) = 0
  <2>1. Front(s) = <<>>
    BY <1>2 DEF Front
  <2>2. QED
    BY <1>2, <2>1
<1>3. CASE Len(s) > 0
  <2> DEFINE t == SubSeq(s, 1, Len(s) - 1)
  <2>1. t \in Seq(Nat) /\ Len(t) = Len(s) - 1 /\ \A i \in 1 .. Len(s) - 1 : t[i] = s[i]
    <3>1. PICK n \in Int : n = Len(s) - 1
      BY <1>1
    <3>2. 1 \in Int /\ \A i \in 1 .. n : s[i] \in Nat
      BY <1>1, <3>1
    <3>3. /\ SubSeq(s, 1, n) \in Seq(Nat) /\ Len(SubSeq(s, 1, n)) = IF 1 <= n THEN n - 1 + 1 ELSE 0
          /\ \A i \in 1 .. n - 1 + 1 : SubSeq(s, 1, n)[i] = s[1 + i - 1]
      BY <3>2, SubSeqProperties
    <3>4. n >= 0 /\ t = SubSeq(s, 1, n)
      BY <1>3, <3>1
    <3> HIDE DEF t
    <3>5. QED
      BY <3>1, <3>3, <3>4
  <2>2. \A i \in 1 .. Len(s) : i = Len(s) \/ i \in 1 .. Len(s) - 1
    BY <1>1
  <2> HIDE DEF t
  <2>3. \A i \in 1 .. Len(s) : s[i] = s[Len(s)] \/ \E j \in 1 .. Len(t) : t[j] = s[i]
    BY <2>1, <2>2
  <2>4. QED
    BY <2>1, <2>3 DEF Front, Last, t
<1>4. QED
  BY <1>1, <1>2, <1>3

\* The children of a pass over a file are waited for where it ends.
LEMMA ReapGoesOn ==
  ASSUME RunInv, At("reap"), Normal(Last(ext_subprocs)), Normal(Last(Front(ext_subprocs))),
         ext_subprocs' = Front(Front(ext_subprocs)), Do(<<>>), UNCHANGED <<cmd, file, pipe, child, status>>
  PROVE  RunInv'
<1>1. script # <<>> /\ script[1][1] = "reap" /\ ScriptOK /\ script[1] \in Steps
  BY AtHead, RunParts
<1>2. ScriptOK' /\ Calm(script')
  <2>1. script[1][1] \notin ForkNames
    BY <1>1 DEF ForkNames
  <2>2. QED
    BY <1>1, <2>1, Popped
<1>3. NoForks(script') /\ ~At("read")'
  BY <1>2, NotReading
<1>4. PICK m : m = "reap"
  OBVIOUS
<1>5. Steady({m})
  BY <1>1, <1>4, PoppedSteady
<1>6. SamePlaces /\ SameWork /\ (Pending(<<"decode">>)' <=> Pending(<<"decode">>))
  <2>1. /\ m \notin {"output", "recompress", "output_parent"} /\ m \notin {"encode", "open", "compare", "verify"}
        /\ m # "decode"
    BY <1>4
  <2>2. QED
    BY <1>5, <2>1, SteadyOne
<1> DEFINE e == ext_subprocs
           f == Front(ext_subprocs)
<1>7. /\ e \in Seq(Nat) /\ f \in Seq(Nat) /\ Front(f) \in Seq(Nat)
      /\ \A i \in 1 .. Len(e) : e[i] = Last(e) \/ \E j \in 1 .. Len(f) : f[j] = e[i]
      /\ \A i \in 1 .. Len(f) : f[i] = Last(f) \/ \E j \in 1 .. Len(Front(f)) : Front(f)[j] = f[i]
  <2>1. e \in Seq(Nat)
    BY RunParts
  <2>2. f \in Seq(Nat)
    BY <2>1, FrontLast
  <2>3. QED
    BY <2>1, <2>2, FrontLast
<1>8. Waiting'
  <2> SUFFICES ASSUME NEW q \in DOMAIN child
               PROVE  child[q].exit \in {"0", "SIGPIPE"} \/ \E i \in 1 .. Len(Front(f)) : Front(f)[i] = q
    BY DEF Waiting
  <2>1. child[q].exit \in {"0", "SIGPIPE"} \/ \E i \in 1 .. Len(e) : e[i] = q
    BY RunParts DEF Waiting
  <2>2. Normal(q) => child[q].exit \in {"0", "SIGPIPE"}
    BY DEF Normal
  <2> HIDE DEF e, f
  <2>3. (\E i \in 1 .. Len(e) : e[i] = q) => q = Last(e) \/ q = Last(f) \/ \E i \in 1 .. Len(Front(f)) : Front(f)[i] = q
    BY <1>7
  <2>4. QED
    BY <2>1, <2>2, <2>3 DEF e, f
<1>9. file' = file /\ cmd' = cmd
  OBVIOUS
<1>10. At("finish")' => \A i \in 1 .. Len(ext_subprocs') : i < Subject' => ext_subprocs'[i] = 0
  BY <1>1, FreshFinish
<1>11. Doing'
  BY <1>6, <1>9, <1>10, RunParts, DoingKeeps DEF SameWork
<1>12. ext_subprocs' \in Seq(Nat)
  BY <1>7
<1>13. QED
  BY <1>2, <1>3, <1>6, <1>8, <1>11, <1>12, Scripted DEF SameWork

-----------------------------------------------------------------------------
(* Main and its files and pipes *)

OneFile == [fd : Nat \cup {-1}, data : Seq(Int), eof : BOOLEAN]

LEMMA FileFields ==
  ASSUME NEW r \in OneFile, NEW d \in Nat \cup {-1}, NEW s \in Seq(Int)
  PROVE  /\ LET t == [r EXCEPT !.fd = d] IN t \in OneFile /\ t.fd = d /\ t.data = r.data /\ t.eof = r.eof
         /\ LET t == [r EXCEPT !.data = s] IN t \in OneFile /\ t.fd = r.fd /\ t.data = s /\ t.eof = r.eof
         /\ LET t == [r EXCEPT !.eof = TRUE] IN t \in OneFile /\ t.fd = r.fd /\ t.data = r.data /\ t.eof = TRUE
  BY DEF OneFile

\* One file changes.
LEMMA SetFile ==
  ASSUME file \in [Files -> OneFile], NEW f \in Files, NEW r \in OneFile, file' = [file EXCEPT ![f] = r]
  PROVE  /\ file' \in [Files -> OneFile] /\ file'[f] = r /\ \A g \in Files : g # f => file'[g] = file[g]
  OBVIOUS

LEMMA SetFd ==
  ASSUME TypeOK, NEW f \in Files, NEW d \in Nat \cup {-1}, file' = [file EXCEPT ![f].fd = d]
  PROVE  /\ file' \in [Files -> OneFile] /\ \A g \in Files : g # f => file'[g] = file[g]
         /\ file'[f].fd = d /\ file'[f].data = file[f].data /\ file'[f].eof = file[f].eof
<1>1. file \in [Files -> OneFile]
  BY DEF TypeOK, OneFile
<1>2. PICK r \in OneFile : r = file[f]
  BY <1>1
<1>3. PICK t : t = [r EXCEPT !.fd = d]
  OBVIOUS
<1>4. t \in OneFile /\ t.fd = d /\ t.data = r.data /\ t.eof = r.eof
  BY <1>3, FileFields DEF OneFile
<1>5. file' = [file EXCEPT ![f] = t]
  BY <1>2, <1>3
<1>6. QED
  BY <1>1, <1>2, <1>4, <1>5, SetFile

LEMMA SetData ==
  ASSUME TypeOK, NEW f \in Files, NEW s \in Seq(Int), file' = [file EXCEPT ![f].data = s]
  PROVE  /\ file' \in [Files -> OneFile] /\ \A g \in Files : g # f => file'[g] = file[g]
         /\ file'[f].fd = file[f].fd /\ file'[f].data = s /\ file'[f].eof = file[f].eof
<1>1. file \in [Files -> OneFile]
  BY DEF TypeOK, OneFile
<1>2. PICK r \in OneFile : r = file[f]
  BY <1>1
<1>3. PICK t : t = [r EXCEPT !.data = s]
  OBVIOUS
<1>4. t \in OneFile /\ t.fd = r.fd /\ t.data = s /\ t.eof = r.eof
  BY <1>3, FileFields DEF OneFile
<1>5. file' = [file EXCEPT ![f] = t]
  BY <1>2, <1>3
<1>6. QED
  BY <1>1, <1>2, <1>4, <1>5, SetFile

LEMMA SetEof ==
  ASSUME TypeOK, NEW f \in Files, file' = [file EXCEPT ![f].eof = TRUE]
  PROVE  /\ file' \in [Files -> OneFile] /\ \A g \in Files : g # f => file'[g] = file[g]
         /\ file'[f].fd = file[f].fd /\ file'[f].data = file[f].data /\ file'[f].eof = TRUE
<1>1. file \in [Files -> OneFile]
  BY DEF TypeOK, OneFile
<1>2. PICK r \in OneFile : r = file[f]
  BY <1>1
<1>3. PICK t : t = [r EXCEPT !.eof = TRUE]
  OBVIOUS
<1>4. t \in OneFile /\ t.fd = r.fd /\ t.data = r.data /\ t.eof = TRUE
  BY <1>3, FileFields DEF OneFile
<1>5. file' = [file EXCEPT ![f] = t]
  BY <1>2, <1>3
<1>6. QED
  BY <1>1, <1>2, <1>4, <1>5, SetFile

\* Some pipes change, and no child.
LEMMA PipesMove ==
  ASSUME Paired, Decompressing, Recompressing, cmd' = cmd, child' = child,
         Len(pipe') = Len(pipe), DOMAIN pipe' = DOMAIN pipe, NEW T, \A p \in DOMAIN pipe : p \notin T => pipe'[p] = pipe[p],
         DOMAIN child \subseteq DOMAIN pipe,
         \A q \in DOMAIN child : q \in T /\ child[q].role = "decompressor" => Making(q)',
         \A q \in DOMAIN child : q \in T /\ child[q].role = "recompressor" => Gathering(q)',
         \A q \in DOMAIN child : q \notin T /\ child[q].role = "recompressor" => file'["output"].data = file["output"].data
  PROVE  Paired' /\ Decompressing' /\ Recompressing'
<1>1. \A q : Child(q)' = Child(q) /\ Decompressor(q)' = Decompressor(q)
  BY DEF Child, Decompressor
<1>2. Paired'
  BY <1>1 DEF Paired
<1>3. Decompressing'
  <2> SUFFICES ASSUME NEW q \in DOMAIN child, child[q].role = "decompressor" PROVE Making(q)'
    BY DEF Decompressing
  <2>1. CASE q \in T
    BY <2>1
  <2>2. CASE q \notin T
    <3>1. pipe'[q] = pipe[q] /\ Making(q)
      BY <2>2 DEF Decompressing
    <3>2. QED
      BY <3>1 DEF Making, Taken
  <2>3. QED
    BY <2>1, <2>2
<1>4. Recompressing'
  <2> SUFFICES ASSUME NEW q \in DOMAIN child, child[q].role = "recompressor" PROVE Gathering(q)'
    BY DEF Recompressing
  <2>1. CASE q \in T
    BY <2>1
  <2>2. CASE q \notin T
    <3>1. pipe'[q] = pipe[q] /\ Gathering(q) /\ file'["output"].data = file["output"].data
      BY <2>2 DEF Recompressing
    <3>2. QED
      BY <3>1 DEF Gathering
  <2>3. QED
    BY <2>1, <2>2
<1>5. QED
  BY <1>2, <1>3, <1>4

LEMMA Together ==
  ASSUME TypeOK, cmd' = cmd, ScriptOK', file' \in [Files -> OneFile], pipe' \in Seq(Pipes), child' \in Seq(Children),
         ext_subprocs' \in Seq(Nat), Paired', Decompressing', Recompressing', Waiting', Piped', InputTrue', Forking',
         Writes', Doing'
  PROVE  RunInv'
  BY DEF RunInv, TypeOK, ScriptOK, OneFile

\* What reading a unit has in common, from a file or from a pipe: the unit after those
\* that were read.
LEMMA AppendTrue ==
  ASSUME NEW s \in Seq(Int), NEW u \in Int
  PROVE  /\ Append(s, u) \in Seq(Int) /\ Len(Append(s, u)) = Len(s) + 1
         /\ \A i \in 1 .. Len(Append(s, u)) : Append(s, u)[i] = IF i = Len(s) + 1 THEN u ELSE s[i]
         /\ \A i \in 1 .. Len(Append(s, u)) : i # Len(s) + 1 => i \in 1 .. Len(s)
  OBVIOUS

LEMMA ReadHead ==
  ASSUME RunInv, Reading
  PROVE  /\ ScriptOK /\ script # <<>> /\ script[1] \in Steps /\ script[1][1] = "read" /\ Subject \in Inputs
         /\ Left \in Nat /\ script[1][1] \notin ForkNames /\ At("read")
<1>1. At("read") /\ ScriptOK
  BY RunParts DEF Reading
<1>2. script # <<>> /\ script[1] \in Steps /\ script[1][1] = "read" /\ Head(script) = script[1]
  BY <1>1, AtHead
<1>3. script[1][1] \notin ForkNames
  BY <1>2 DEF ForkNames
<1>4. script[1][2] \in Inputs /\ script[1][3] \in Nat
  BY <1>2, StepFields
<1>5. QED
  BY <1>1, <1>2, <1>3, <1>4 DEF Subject, Left

LEMMA UnitRead ==
  ASSUME RunInv, Reading, Left > 0, NEW f, f = Subject, NEW m \in Nat, m = Len(file[f].data) + 1,
         file' = [file EXCEPT ![f].data = Append(file[f].data, Given(m))], Do(<<<<"read", f, Left - 1>>>>),
         UNCHANGED <<cmd, child, ext_subprocs, status>>, Len(pipe') = Len(pipe), SameRecompressor
  PROVE  /\ ScriptOK' /\ f \in Inputs /\ file' \in [Files -> OneFile]
         /\ \A g \in Files : g # f => file'[g] = file[g]
         /\ file'[f].fd = file[f].fd /\ Len(file'[f].data) = m
         /\ ext_subprocs' \in Seq(Nat) /\ InputTrue' /\ Forking' /\ Writes' /\ Doing' /\ Waiting'
<1>1. /\ ScriptOK /\ script # <<>> /\ script[1][1] = "read" /\ f \in Inputs /\ Left \in Nat
      /\ script[1][1] \notin ForkNames /\ At("read")
  BY ReadHead
<1> DEFINE a == <<"read", f, Left - 1>>
<1>2. a \in Steps /\ a[1] = "read" /\ a[2] = f
  <2>1. Left - 1 \in Nat
    BY <1>1
  <2>2. QED
    BY <1>1, <2>1, StepsMade
<1>3. Do(<<a>>)
  OBVIOUS
<1> HIDE DEF a
<1>4. /\ ScriptOK' /\ script' # <<>> /\ script'[1] = a
      /\ \A x : Among(x, script') <=> x = a \/ Among(x, Tail(script))
      /\ NoForks(script')
  <2>1. a[1] \notin {"pipes", "copier", "parent", "recompress", "output_parent"}
    BY <1>2
  <2>2. QED
    BY <1>1, <1>2, <1>3, <2>1, ReplacedByOne
<1>5. PICK n : n = "read"
  OBVIOUS
<1>6. Steady({n})
  BY <1>1, <1>2, <1>4, <1>5, ReplacedSteady
<1>7. SamePlaces /\ SameWork /\ (Pending(<<"decode">>)' <=> Pending(<<"decode">>))
  <2>1. /\ n \notin {"output", "recompress", "output_parent"} /\ n \notin {"encode", "open", "compare", "verify"}
        /\ n # "decode"
    BY <1>5
  <2>2. QED
    BY <1>6, <2>1, SteadyOne
<1>8. /\ \A x : At(x)' => x = "read"
      /\ Subject' = f /\ From' = file'[f].fd
  BY <1>2, <1>4, NewHead
<1>9. cmd' = cmd /\ child' = child /\ ext_subprocs' = ext_subprocs
  OBVIOUS
<1>10. f \in Files /\ "output" \in Files /\ f # "output" /\ "input" \in Files /\ "hash" \in Files
  BY <1>1 DEF Inputs, Files
<1>11. file[f].data \in Seq(Int) /\ TypeOK
  BY <1>10, Fields, RunParts
<1>12. PICK u : u = Given(m)
  OBVIOUS
<1>13. u \in Int /\ (f = "input" => u = m) /\ (f = "hash" /\ Wrong => u < 0)
  <2>1. m > 0
    BY <1>11
  <2>2. f = "input" => u = m
    BY <1>12 DEF Given
  <2>3. f = "hash" /\ Wrong => u = -m
    <3>1. f = "hash" => f # "input"
      OBVIOUS
    <3>2. "DECODE" # "ENCODE"
      OBVIOUS
    <3>3. QED
      BY <1>12, <3>1, <3>2 DEF Given, Wrong
  <2>4. u \in {m, -m}
    BY <1>12 DEF Given
  <2>5. QED
    BY <2>1, <2>2, <2>3, <2>4
<1> DEFINE s == Append(file[f].data, u)
<1>14. s \in Seq(Int) /\ Len(s) = m /\ (\A i \in 1 .. Len(s) : s[i] = IF i = m THEN u ELSE file[f].data[i])
       /\ \A i \in 1 .. Len(s) : i # m => i \in 1 .. Len(file[f].data)
  BY <1>11, <1>13, AppendTrue
<1>15. /\ file' \in [Files -> OneFile] /\ \A g \in Files : g # f => file'[g] = file[g]
       /\ file'[f].fd = file[f].fd /\ file'[f].data = s /\ file'[f].eof = file[f].eof
  <2>1. file' = [file EXCEPT ![f].data = s]
    BY <1>12
  <2>2. s \in Seq(Int)
    BY <1>14
  <2> HIDE DEF s
  <2>3. QED
    BY <1>10, <1>11, <2>1, <2>2, SetData
<1> HIDE DEF s
<1>16. InputTrue /\ Writes /\ Doing /\ Forking /\ Waiting /\ ext_subprocs \in Seq(Nat)
  BY RunParts
<1>17. From # 0 /\ (f = "input" => ~file["input"].eof)
  BY <1>1, <1>16 DEF InputTrue
<1>18. file'["input"].fd = file["input"].fd /\ file'["input"].eof = file["input"].eof
  BY <1>10, <1>15
<1>19. InputTrue'
  <2>1. \A i \in 1 .. Len(file'["input"].data) : file'["input"].data[i] = i
    <3>1. CASE f = "input"
      <4>1. \A i \in 1 .. Len(s) : s[i] = i
        BY <1>13, <1>14, <1>16, <3>1 DEF InputTrue
      <4>2. QED
        BY <1>15, <3>1, <4>1
    <3>2. CASE f # "input"
      BY <1>10, <1>15, <1>16, <3>2 DEF InputTrue
    <3>3. QED
      BY <3>1, <3>2
  <2>2. file'["input"].eof => file'["input"].data = Whole' \/ \E q \in DOMAIN child' : child'[q].exit = "1"
    <3>1. file'["input"].eof => file'["input"] = file["input"]
      BY <1>10, <1>15, <1>17, <1>18
    <3>2. Whole' = Whole
      BY DEF Whole
    <3>3. QED
      BY <1>9, <1>16, <1>18, <3>1, <3>2 DEF InputTrue
  <2>3. At("read")' => From' # 0 /\ (Subject' = "input" => ~file'["input"].eof)
    BY <1>8, <1>15, <1>17, <1>18 DEF From
  <2>4. Pending(<<"encode">>)' => Pending(<<"open", "input">>)' \/ file'["input"].fd # 0
    BY <1>7, <1>16, <1>18 DEF InputTrue, SameWork
  <2>5. QED
    BY <2>1, <2>2, <2>3, <2>4 DEF InputTrue
<1>20. Forking'
  BY <1>1, <1>4, <1>5, <1>9, <1>16, CalmForking
<1>21. file'["output"] = file["output"]
  BY <1>10, <1>15
<1>22. Writes'
  BY <1>7, <1>9, <1>16, <1>21, WritesKeeps
<1>23. Doing'
  <2>1. cmd'.op = "ENCODE" => Pending(<<"encode">>)' \/ (file'["input"].eof /\ ~Pending(<<"open", "input">>)')
    BY <1>7, <1>9, <1>16, <1>18 DEF Doing, SameWork
  <2>2. cmd'.op = "DECODE" /\ cmd'.armor => Pending(<<"compare">>)' \/ file'["output"].data = Whole'
    <3>1. Whole' = Whole
      BY DEF Whole
    <3>2. QED
      BY <1>7, <1>9, <1>16, <1>21, <3>1 DEF Doing, SameWork
  <2>3. Wrong' = Wrong
    BY <1>9 DEF Wrong
  <2>4. Wrong => \A i \in 1 .. Len(file'["hash"].data) : file'["hash"].data[i] < 0
    <3>1. CASE f = "hash"
      <4>1. Wrong => \A i \in 1 .. Len(s) : s[i] < 0
        BY <1>13, <1>14, <1>16, <3>1 DEF Doing
      <4>2. QED
        BY <1>15, <3>1, <4>1
    <3>2. CASE f # "hash"
      BY <1>10, <1>15, <1>16, <3>2 DEF Doing
    <3>3. QED
      BY <3>1, <3>2
  <2>5. Wrong => Pending(<<"verify">>)'
    BY <1>7, <1>16 DEF Doing, SameWork
  <2>6. ~At("finish")'
    BY <1>8
  <2>7. QED
    BY <2>1, <2>2, <2>3, <2>4, <2>5, <2>6 DEF Doing
<1>24. Waiting'
  BY <1>9, <1>16, SameWaiting
<1>25. QED
  BY <1>1, <1>4, <1>9, <1>14, <1>15, <1>16, <1>19, <1>20, <1>22, <1>23, <1>24

LEMMA SameChildren ==
  ASSUME pipe' = pipe, child' = child
  PROVE  SameRecompressor /\ \A q : Feeds(q)' = Feeds(q) /\ Taken(q)' = Taken(q)
  BY DEF SameRecompressor, Recompressor, Feeds, Decompressor, Child, Taken

\* A unit of a file.
LEMMA ReadFile ==
  ASSUME RunInv, Reading, Left > 0, From = -1, pipe' = pipe,
         file' = [file EXCEPT ![Subject].data = Append(@, Given(Len(@) + 1))],
         Do(<<<<"read", Subject, Left - 1>>>>), UNCHANGED <<cmd, child, ext_subprocs, status>>
  PROVE  RunInv'
<1>1. PICK f : f = Subject
  OBVIOUS
<1>2. f \in Inputs /\ f \in Files /\ "output" \in Files /\ f # "output"
  BY <1>1, ReadHead DEF Inputs, Files
<1>3. file[f].data \in Seq(Int) /\ TypeOK
  BY <1>2, Fields, RunParts
<1>4. PICK m \in Nat : m = Len(file[f].data) + 1
  BY <1>3
<1>5. file' = [file EXCEPT ![f].data = Append(file[f].data, Given(m))]
  BY <1>1, <1>4
<1>6. SameRecompressor /\ (\A q : Feeds(q)' = Feeds(q) /\ Taken(q)' = Taken(q))
  BY SameChildren
<1>7. Do(<<<<"read", f, Left - 1>>>>)
  BY <1>1
<1>8. /\ ScriptOK' /\ file' \in [Files -> OneFile]
      /\ \A g \in Files : g # f => file'[g] = file[g]
      /\ file'[f].fd = file[f].fd /\ Len(file'[f].data) = m
      /\ ext_subprocs' \in Seq(Nat) /\ InputTrue' /\ Forking' /\ Writes' /\ Doing' /\ Waiting'
  BY <1>1, <1>4, <1>5, <1>6, <1>7, UnitRead
<1>9. cmd' = cmd /\ child' = child
  OBVIOUS
<1>10. Paired' /\ Decompressing' /\ Recompressing'
  <2>1. file'["output"].data = file["output"].data
    BY <1>2, <1>8
  <2>2. QED
    BY <1>9, <2>1, RunParts, SameKids
<1>11. Piped'
  <2>1. SameFeeds(f)
    BY <1>6, <1>8 DEF SameFeeds, Inputs, Files
  <2>2. file'[f].fd = -1
    BY <1>1, <1>8 DEF From
  <2>3. Piped
    BY RunParts
  <2>4. ~(file'[f].fd > 0)
    BY <2>2
  <2>5. QED
    BY <2>1, <2>3, <2>4, PipedKeeps
<1>12. pipe' \in Seq(Pipes) /\ child' \in Seq(Children)
  BY <1>3, <1>9 DEF TypeOK
<1>13. QED
  BY <1>3, <1>8, <1>9, <1>10, <1>11, <1>12, Together

\* A unit is taken out of the pipe of a decompressor.
LEMMA TakenUnit ==
  ASSUME NEW u \in Seq(Int), u # <<>>, NEW pos \in Nat, NEW b \in Nat, NEW t \in Int,
         t = pos - b - Len(u), Made(u, t)
  PROVE  /\ Head(u) = t + 1 /\ Tail(u) \in Seq(Int) /\ pos - b - Len(Tail(u)) = t + 1
         /\ Made(Tail(u), t + 1)
<1>1. /\ Head(u) = u[1] /\ Len(u) \in Nat /\ Len(u) >= 1
      /\ Tail(u) \in Seq(Int) /\ Len(Tail(u)) = Len(u) - 1
      /\ \A i \in 1 .. Len(u) - 1 : Tail(u)[i] = u[i + 1]
  BY TakeElement
<1>2. u[1] = t + 1
  BY <1>1 DEF Made
<1>3. \A i \in 1 .. Len(u) - 1 : Tail(u)[i] = (t + 1) + i
  <2> TAKE i \in 1 .. Len(u) - 1
  <2>1. i + 1 \in 1 .. Len(u)
    BY <1>1
  <2>2. u[i + 1] = t + (i + 1)
    BY <2>1 DEF Made
  <2>3. QED
    BY <1>1, <2>2
<1>4. QED
  BY <1>1, <1>2, <1>3 DEF Made

LEMMA ReadPipe ==
  ASSUME RunInv, Reading, Left > 0, From > 0, CanTake(From),
         file' = [file EXCEPT ![Subject].data = Append(@, Given(Head(pipe[From].units)))],
         pipe' = [pipe EXCEPT ![From].units = Tail(@)],
         Do(<<<<"read", Subject, Left - 1>>>>), UNCHANGED <<cmd, child, ext_subprocs, status>>
  PROVE  RunInv'
<1>1. PICK f : f = Subject
  OBVIOUS
<1>2. f \in Inputs /\ f \in Files /\ "output" \in Files /\ f # "output"
  BY <1>1, ReadHead DEF Inputs, Files
<1>3. file[f].data \in Seq(Int) /\ TypeOK
  BY <1>2, Fields, RunParts
<1>4. PICK m \in Nat : m = Len(file[f].data) + 1
  BY <1>3
<1>5. PICK q : q = From /\ q = file[f].fd
  BY <1>1 DEF From
<1>6. /\ Paired /\ Decompressing /\ Recompressing /\ Piped
  BY RunParts
<1>7. q > 0 /\ Feeds(q) /\ Len(file[f].data) = Taken(q)
  BY <1>2, <1>5, <1>6 DEF Piped
<1>8. q \in DOMAIN child /\ child[q].role = "decompressor" /\ Making(q) /\ q \in DOMAIN pipe /\ DOMAIN child \subseteq DOMAIN pipe
  BY <1>3, <1>6, <1>7, Lengths DEF Feeds, Decompressor, Child, Decompressing, Paired
<1>0. PICK u : u = pipe[q].units
  OBVIOUS
<1>9. u \in Seq(Int) /\ u # <<>> /\ child[q].pos \in Nat /\ Len(child[q].buf) \in Nat
  BY <1>0, <1>3, <1>5, <1>8, Fields DEF CanTake
<1>10. PICK t : t = Taken(q)
  OBVIOUS
<1>11. t \in Int /\ t >= 0 /\ t = child[q].pos - Len(child[q].buf) - Len(u) /\ Made(u, t) /\ m = t + 1
  <2>1. t = child[q].pos - Len(child[q].buf) - Len(u) /\ t >= 0
    BY <1>0, <1>8, <1>10 DEF Taken, Making
  <2>2. Made(u, t)
    BY <1>0, <1>8, <1>10, MakingParts
  <2>3. Len(u) \in Nat
    BY <1>9
  <2>4. t \in Int
    BY <1>9, <2>1, <2>3
  <2>5. QED
    BY <1>4, <1>7, <1>10, <2>1, <2>2, <2>4
<1>12. /\ Head(u) = t + 1 /\ Tail(u) \in Seq(Int) /\ child[q].pos - Len(child[q].buf) - Len(Tail(u)) = t + 1
       /\ Made(Tail(u), t + 1)
  <2>1. PICK b \in Nat : b = Len(child[q].buf)
    BY <1>9
  <2>2. PICK n \in Nat : n = child[q].pos
    BY <1>9
  <2>3. t = n - b - Len(u)
    BY <1>11, <2>1, <2>2
  <2>4. /\ Head(u) = t + 1 /\ Tail(u) \in Seq(Int) /\ n - b - Len(Tail(u)) = t + 1
        /\ Made(Tail(u), t + 1)
    <3>1. u \in Seq(Int) /\ u # <<>> /\ t \in Int /\ Made(u, t)
      BY <1>9, <1>11
    <3>2. QED
      BY <2>3, <3>1, TakenUnit
  <2>5. QED
    BY <2>1, <2>2, <2>4
<1>30. PICK v : v = Tail(u)
  OBVIOUS
<1>13. /\ pipe' \in Seq(Pipes) /\ Len(pipe') = Len(pipe) /\ DOMAIN pipe' = DOMAIN pipe
       /\ pipe'[q].units = v /\ pipe'[q].readers = pipe[q].readers /\ pipe'[q].writers = pipe[q].writers
       /\ \A p \in DOMAIN pipe : p # q => pipe'[p] = pipe[p]
  <2>1. pipe' = [pipe EXCEPT ![q].units = v] /\ pipe \in Seq(Pipes)
    BY <1>0, <1>3, <1>5, <1>30 DEF TypeOK
  <2>2. v \in Seq(Int)
    BY <1>12, <1>30
  <2>3. QED
    BY <1>8, <2>1, <2>2, SetUnits
<1>14. file' = [file EXCEPT ![f].data = Append(file[f].data, Given(m))]
  BY <1>0, <1>1, <1>5, <1>11, <1>12
<1>15. cmd' = cmd /\ child' = child
  OBVIOUS
<1>16. /\ \A p : Feeds(p) => Feeds(p)'
       /\ \A p : p # q /\ Feeds(p) => Taken(p)' = Taken(p)
       /\ Taken(q)' = t + 1
  <2>1. \A p : Feeds(p) => p \in DOMAIN pipe
    BY <1>8 DEF Feeds, Decompressor, Child
  <2>2. \A p \in DOMAIN pipe : pipe'[p].readers = pipe[p].readers
    BY <1>13
  <2>3. \A p : Feeds(p) => Feeds(p)'
    BY <1>15, <2>1, <2>2 DEF Feeds, Decompressor, Child
  <2>4. Taken(q)' = t + 1
    BY <1>12, <1>13, <1>15, <1>30 DEF Taken
  <2>5. \A p : p # q /\ Feeds(p) => Taken(p)' = Taken(p)
    BY <1>13, <1>15, <2>1 DEF Taken
  <2>6. QED
    BY <2>3, <2>4, <2>5
<1>17. SameRecompressor
  <2>1. \A p : Recompressor(p) => p \in DOMAIN pipe
    BY <1>8 DEF Recompressor, Child
  <2>2. \A p \in DOMAIN pipe : pipe'[p].writers = pipe[p].writers
    BY <1>13
  <2>3. QED
    BY <1>15, <2>1, <2>2 DEF SameRecompressor, Recompressor, Child
<1>18. Do(<<<<"read", f, Left - 1>>>>)
  BY <1>1
<1>19. /\ ScriptOK' /\ file' \in [Files -> OneFile]
       /\ \A g \in Files : g # f => file'[g] = file[g]
       /\ file'[f].fd = file[f].fd /\ Len(file'[f].data) = m
       /\ ext_subprocs' \in Seq(Nat) /\ InputTrue' /\ Forking' /\ Writes' /\ Doing' /\ Waiting'
  BY <1>1, <1>4, <1>13, <1>14, <1>17, <1>18, UnitRead
<1>20. Making(q)'
  <2>1. Made(v, t + 1) /\ v = pipe'[q].units /\ t + 1 >= 0
    BY <1>11, <1>12, <1>13, <1>30, SMTT(60)
  <2>2. Len(child[q].buf) <= 1 /\ Made(child[q].buf, child[q].pos - Len(child[q].buf))
    BY <1>8, MakingParts DEF Making
  <2>3. /\ child[q].at # "exited" => q \in pipe[q].writers
        /\ child[q].exit = "0" => child[q].pos = Size /\ child[q].buf = <<>>
        /\ child[q].exit = "SIGPIPE" => pipe[q].readers = {}
    BY <1>8 DEF Making
  <2>4. QED
    BY <1>13, <1>15, <1>16, <2>1, <2>2, <2>3, MakingParts
<1>21. Paired' /\ Decompressing' /\ Recompressing'
  <2>1. file'["output"].data = file["output"].data
    BY <1>2, <1>19
  <2>2. PICK T : T = {q}
    OBVIOUS
  <2>3. \A p : p \in T <=> p = q
    BY <2>2
  <2>4. \A p \in DOMAIN child : p \in T /\ child[p].role = "recompressor" => Gathering(p)'
    BY <1>8, <2>3
  <2>5. \A p \in DOMAIN child : p \in T /\ child[p].role = "decompressor" => Making(p)'
    BY <1>20, <2>3
  <2>6. \A p \in DOMAIN pipe : p \notin T => pipe'[p] = pipe[p]
    BY <1>13, <2>3
  <2>7. QED
    BY <1>6, <1>8, <1>13, <1>15, <2>1, <2>4, <2>5, <2>6, PipesMove
<1>22. Piped'
  <2>1. \A g \in Inputs \ {f} : file[g].fd # q
    BY <1>2, <1>5, <1>6, <1>7 DEF Piped
  <2>2. SameFeeds(f)
    BY <1>16, <1>19, <2>1 DEF SameFeeds, Inputs, Files
  <2>3. file'[f].fd = q
    BY <1>5, <1>19
  <2>4. Feeds(q)' /\ Len(file'[f].data) = Taken(q)'
    BY <1>7, <1>11, <1>16, <1>19
  <2>5. QED
    BY <1>6, <2>1, <2>2, <2>3, <2>4, PipedKeeps
<1>23. child' \in Seq(Children)
  BY <1>3, <1>15 DEF TypeOK
<1>24. QED
  BY <1>3, <1>13, <1>15, <1>19, <1>21, <1>22, <1>23, Together

\* A step is done, and no steps take its place.
LEMMA PopParts ==
  ASSUME RunInv, NEW n, At(n), n \notin ForkNames, Do(<<>>)
  PROVE  /\ ScriptOK /\ script # <<>> /\ script[1] \in Steps /\ script[1][1] = n /\ Subject = script[1][2]
         /\ ScriptOK' /\ NoForks(script') /\ ~At("read")' /\ Steady({n}) /\ \A x : Pending(x)' => Pending(x)
         /\ At("finish")' => \A i \in 1 .. Len(ext_subprocs') : i < Subject' => ext_subprocs'[i] = 0
<1>1. script # <<>> /\ script[1][1] = n /\ ScriptOK /\ script[1] \in Steps /\ Subject = script[1][2]
  BY AtHead, RunParts
<1>2. ScriptOK' /\ Calm(script')
  BY <1>1, Popped
<1>3. NoForks(script') /\ ~At("read")'
  BY <1>2, NotReading
<1>4. Steady({n}) /\ \A x : Pending(x)' => Pending(x)
  BY <1>1, PoppedSteady
<1>5. At("finish")' => \A i \in 1 .. Len(ext_subprocs') : i < Subject' => ext_subprocs'[i] = 0
  BY <1>1, FreshFinish
<1>6. QED
  BY <1>1, <1>2, <1>3, <1>4, <1>5

\* The end of a window.
LEMMA ReadStops ==
  ASSUME RunInv, Reading, Do(<<>>), UNCHANGED <<cmd, file, pipe, child, ext_subprocs, status>>
  PROVE  RunInv'
<1>1. PICK n : n = "read"
  OBVIOUS
<1>2. At(n) /\ n \notin ForkNames /\ n # "copier"
  BY <1>1 DEF Reading, ForkNames
<1>3. /\ ScriptOK' /\ NoForks(script') /\ ~At("read")' /\ Steady({n})
      /\ At("finish")' => \A i \in 1 .. Len(ext_subprocs') : i < Subject' => ext_subprocs'[i] = 0
  BY <1>2, PopParts
<1>4. SamePlaces /\ SameWork /\ (Pending(<<"decode">>)' <=> Pending(<<"decode">>))
  <2>1. /\ n \notin {"output", "recompress", "output_parent"} /\ n \notin {"encode", "open", "compare", "verify"}
        /\ n # "decode"
    BY <1>1
  <2>2. QED
    BY <1>3, <2>1, SteadyOne
<1>5. cmd' = cmd /\ file' = file
  OBVIOUS
<1>6. Doing'
  BY <1>3, <1>4, <1>5, RunParts, DoingKeeps DEF SameWork
<1>7. Waiting' /\ ext_subprocs' \in Seq(Nat)
  BY RunParts, SameWaiting
<1>8. QED
  BY <1>2, <1>3, <1>4, <1>6, <1>7, Scripted DEF SameWork

\* The end of a file: from a pipe, it is the end of what the decompressor has made.
LEMMA EndOfUnits ==
  ASSUME NEW s \in Seq(Int), \A i \in 1 .. Len(s) : s[i] = i, Len(s) = Size
  PROVE  s = Whole
<1>1. s = [i \in 1 .. Len(s) |-> s[i]] /\ Len(s) \in Nat
  OBVIOUS
<1>2. QED
  BY <1>1 DEF Whole

LEMMA EndSeen ==
  ASSUME RunInv, Reading, NEW f, f = Subject, f = "input",
         IF From = -1 THEN Len(file[f].data) = Size ELSE AtEnd(From)
  PROVE  file[f].data = Whole \/ \E q \in DOMAIN child : child[q].exit = "1"
<1>1. f \in Inputs /\ f \in Files /\ At("read")
  BY ReadHead DEF Inputs, Files
<1>2. file[f].data \in Seq(Int) /\ TypeOK /\ Piped /\ InputTrue /\ Decompressing /\ Paired
  BY <1>1, Fields, RunParts
<1>3. \A i \in 1 .. Len(file[f].data) : file[f].data[i] = i
  BY <1>2 DEF InputTrue
<1>4. PICK q : q = From /\ q = file[f].fd
  BY DEF From
<1>5. q # 0 /\ q \in Nat \cup {-1}
  BY <1>1, <1>2, <1>4 DEF InputTrue, TypeOK
<1>6. CASE q = -1
  BY <1>2, <1>3, <1>4, <1>6, EndOfUnits
<1>7. CASE q > 0 /\ q # -1
  <2>1. Feeds(q) /\ Len(file[f].data) = Taken(q) /\ pipe[q].units = <<>> /\ pipe[q].writers = {}
    BY <1>1, <1>2, <1>4, <1>7 DEF Piped, AtEnd
  <2>2. q \in DOMAIN child /\ child[q].role = "decompressor" /\ 0 \in pipe[q].readers
    BY <2>1 DEF Feeds, Decompressor, Child
  <2>3. Making(q)
    BY <1>2, <2>2 DEF Decompressing
  <2>4. child[q].at = "exited" /\ child[q].exit # "SIGPIPE"
    BY <2>1, <2>2, <2>3 DEF Making
  <2>5. child[q].exit \in {"0", "1"}
    <3>1. child[q].exit \in {"", "0", "1", "SIGPIPE"}
      BY <1>2, <2>2, Fields
    <3>2. child[q].exit # ""
      BY <1>2, <2>2, <2>4 DEF Paired
    <3>3. QED
      BY <2>4, <3>1, <3>2
  <2>6. CASE child[q].exit = "0"
    <3>1. child[q].pos = Size /\ child[q].buf = <<>>
      BY <2>3, <2>6 DEF Making
    <3>2. Taken(q) = Size
      <4>1. Size \in Nat /\ Len(<<>>) = 0
        BY WholeUnits
      <4>2. Taken(q) = Size - 0 - 0
        BY <2>1, <3>1, <4>1 DEF Taken
      <4>3. QED
        BY <4>1, <4>2
    <3>3. QED
      BY <1>2, <1>3, <2>1, <3>2, EndOfUnits
  <2>7. CASE child[q].exit = "1"
    BY <2>2, <2>7
  <2>8. QED
    BY <2>5, <2>6, <2>7
<1>8. QED
  BY <1>5, <1>6, <1>7

LEMMA ReadEof ==
  ASSUME RunInv, Reading, Do(<<>>), UNCHANGED <<cmd, pipe, child, ext_subprocs, status>>,
         IF From = -1 THEN Len(file[Subject].data) = Size ELSE AtEnd(From),
         file' = [file EXCEPT ![Subject].eof = TRUE]
  PROVE  RunInv'
<1>1. PICK n : n = "read"
  OBVIOUS
<1>2. At(n) /\ n \notin ForkNames /\ n # "copier"
  BY <1>1 DEF Reading, ForkNames
<1>3. /\ ScriptOK' /\ NoForks(script') /\ ~At("read")' /\ Steady({n})
      /\ At("finish")' => \A i \in 1 .. Len(ext_subprocs') : i < Subject' => ext_subprocs'[i] = 0
  BY <1>2, PopParts
<1>4. SamePlaces /\ SameWork /\ (Pending(<<"decode">>)' <=> Pending(<<"decode">>))
  <2>1. /\ n \notin {"output", "recompress", "output_parent"} /\ n \notin {"encode", "open", "compare", "verify"}
        /\ n # "decode"
    BY <1>1
  <2>2. QED
    BY <1>3, <2>1, SteadyOne
<1>5. PICK f : f = Subject
  OBVIOUS
<1>6. f \in Inputs /\ f \in Files /\ "output" \in Files /\ f # "output" /\ "input" \in Files /\ "hash" \in Files
  BY <1>5, ReadHead DEF Inputs, Files
<1>7. /\ TypeOK /\ ScriptOK /\ Paired /\ Decompressing /\ Recompressing /\ Waiting /\ Piped /\ InputTrue
      /\ Forking /\ Writes /\ Doing /\ ext_subprocs \in Seq(Nat)
  BY RunParts
<1>8. /\ file' \in [Files -> OneFile] /\ \A g \in Files : g # f => file'[g] = file[g]
      /\ file'[f].fd = file[f].fd /\ file'[f].data = file[f].data /\ file'[f].eof = TRUE
  BY <1>5, <1>6, <1>7, SetEof
<1>9. /\ cmd' = cmd /\ child' = child /\ pipe' = pipe /\ ext_subprocs' = ext_subprocs
  OBVIOUS
<1>10. SameRecompressor /\ (\A q : Feeds(q)' = Feeds(q) /\ Taken(q)' = Taken(q))
  BY <1>9, SameChildren
<1>11. \A g \in Files : file'[g].fd = file[g].fd /\ file'[g].data = file[g].data /\ (file[g].eof => file'[g].eof)
  BY <1>8
<1>12. Paired' /\ Decompressing' /\ Recompressing'
  BY <1>6, <1>7, <1>9, <1>11, SameKids
<1>13. Piped'
  <2>1. SameFeeds(f)
    BY <1>8, <1>10 DEF SameFeeds, Inputs, Files
  <2>2. PICK q : q = file[f].fd
    OBVIOUS
  <2>3. q > 0 => Feeds(q) /\ Len(file[f].data) = Taken(q)
    BY <1>6, <1>7, <2>2 DEF Piped
  <2>4. \A g \in Inputs \ {f} : q > 0 => file[g].fd # q
    BY <1>6, <1>7, <2>2 DEF Piped
  <2>5. QED
    BY <1>7, <1>8, <1>10, <2>1, <2>2, <2>3, <2>4, PipedKeeps
<1>14. InputTrue'
  <2>1. CASE f = "input"
    <3>1. file[f].data = Whole \/ \E q \in DOMAIN child : child[q].exit = "1"
      BY <1>5, <2>1, EndSeen
    <3>2. Whole' = Whole
      BY DEF Whole
    <3>3. file'["input"].data = Whole' \/ \E q \in DOMAIN child' : child'[q].exit = "1"
      BY <1>9, <1>11, <1>6, <2>1, <3>1, <3>2
    <3>4. \A i \in 1 .. Len(file'["input"].data) : file'["input"].data[i] = i
      BY <1>6, <1>7, <1>11 DEF InputTrue
    <3>5. Pending(<<"encode">>)' => Pending(<<"open", "input">>)' \/ file'["input"].fd # 0
      BY <1>4, <1>6, <1>7, <1>11 DEF InputTrue, SameWork
    <3>6. QED
      BY <1>3, <3>3, <3>4, <3>5 DEF InputTrue
  <2>2. CASE f # "input"
    <3>1. file'["input"] = file["input"]
      BY <1>6, <1>8, <2>2
    <3>2. QED
      BY <1>3, <1>4, <1>7, <1>9, <3>1, InputKeeps DEF SameWork
  <2>3. QED
    BY <2>1, <2>2
<1>15. Forking'
  BY <1>2, <1>3, <1>7, <1>9, CalmForking
<1>16. Writes'
  BY <1>4, <1>6, <1>7, <1>8, <1>9, <1>10, WritesKeeps
<1>17. Doing'
  BY <1>3, <1>4, <1>6, <1>7, <1>9, <1>11, DoingKeeps DEF SameWork
<1>18. Waiting'
  BY <1>7, <1>9, SameWaiting
<1>19. pipe' \in Seq(Pipes) /\ child' \in Seq(Children) /\ ext_subprocs' \in Seq(Nat)
  BY <1>7, <1>9 DEF TypeOK
<1>20. QED
  BY <1>3, <1>7, <1>8, <1>9, <1>12, <1>13, <1>14, <1>15, <1>16, <1>17, <1>18, <1>19, Together

\* Main opens a file to read.
OpenNames == {"open", "pipes", "copier", "parent", "read"}

LEMMA OpenedFile ==
  Opened \in OneFile /\ Opened.fd = -1 /\ Opened.data = <<>> /\ Opened.eof = FALSE /\ Len(<<>>) = 0
<1>1. Closed \in OneFile /\ Closed.data = <<>> /\ Closed.eof = FALSE
  <2>1. 0 \in Nat \cup {-1} /\ <<>> \in Seq(Int) /\ FALSE \in BOOLEAN
    OBVIOUS
  <2>2. QED
    BY <2>1 DEF Closed, OneFile
<1>2. PICK d \in Nat \cup {-1} : d = -1
  OBVIOUS
<1>3. <<>> \in Seq(Int) /\ Opened = [Closed EXCEPT !.fd = d]
  BY <1>2 DEF Opened
<1>4. PICK r \in OneFile : r = Closed
  BY <1>1
<1>5. PICK t : t = [r EXCEPT !.fd = d]
  OBVIOUS
<1>6. t \in OneFile /\ t.fd = d /\ t.data = r.data /\ t.eof = r.eof
  BY <1>3, <1>5, FileFields
<1>7. QED
  BY <1>1, <1>2, <1>3, <1>4, <1>5, <1>6

LEMMA OpenParts ==
  ASSUME RunInv, At("open"), NEW f, f = Subject, file' = [file EXCEPT ![f] = Opened],
         UNCHANGED <<cmd, pipe, child, ext_subprocs, status>>, ScriptOK', Steady(OpenNames), Forking',
         Pending(<<"open", "input">>)' => Among(<<"open", "input">>, Tail(script)),
         Among(<<"open", "input">>, Tail(script)) => Pending(<<"open", "input">>)',
         At("read")' => Subject' = f, ~At("finish")'
  PROVE  RunInv'
<1>1. script # <<>> /\ script[1][1] = "open" /\ ScriptOK /\ script[1] \in Steps /\ f = script[1][2]
  BY AtHead, RunParts
<1>2. f \in Inputs /\ script[1] = <<"open", f>>
  <2>1. script[1][1] \in {"open", "pipes", "copier", "parent"}
    BY <1>1
  <2>2. QED
    BY <1>1, <2>1, StepFields
<1>3. f \in Files /\ "output" \in Files /\ f # "output" /\ "input" \in Files /\ "hash" \in Files
  BY <1>2 DEF Inputs, Files
<1>4. /\ TypeOK /\ Paired /\ Decompressing /\ Recompressing /\ Waiting /\ Piped /\ InputTrue
      /\ Writes /\ Doing /\ ext_subprocs \in Seq(Nat)
  BY RunParts
<1>5. Opened \in OneFile /\ Opened.fd = -1 /\ Opened.data = <<>> /\ Opened.eof = FALSE /\ Len(<<>>) = 0
  BY OpenedFile
<1>6. file' \in [Files -> OneFile] /\ file'[f] = Opened /\ \A g \in Files : g # f => file'[g] = file[g]
  <2>1. file \in [Files -> OneFile]
    BY <1>4 DEF TypeOK, OneFile
  <2>2. QED
    BY <1>3, <1>5, <2>1, SetFile
<1>7. /\ cmd' = cmd /\ child' = child /\ pipe' = pipe /\ ext_subprocs' = ext_subprocs
  OBVIOUS
<1>8. SameRecompressor /\ (\A q : Feeds(q)' = Feeds(q) /\ Taken(q)' = Taken(q))
  BY <1>7, SameChildren
<1>9. /\ SamePlaces
      /\ Pending(<<"decode">>)' <=> Pending(<<"decode">>)
      /\ Pending(<<"encode">>)' <=> Pending(<<"encode">>)
      /\ Pending(<<"compare">>)' <=> Pending(<<"compare">>)
      /\ Pending(<<"verify">>)' <=> Pending(<<"verify">>)
  <2>1. PICK names : names = OpenNames
    OBVIOUS
  <2>2. /\ names \cap {"output", "recompress", "output_parent"} = {} /\ "decode" \notin names /\ "encode" \notin names
        /\ "compare" \notin names /\ "verify" \notin names
    BY <2>1 DEF OpenNames
  <2>3. Steady(names)
    BY <2>1
  <2>4. QED
    BY <2>2, <2>3, SteadyPlaces
<1>10. Pending(<<"open", "input">>) <=> f = "input" \/ Pending(<<"open", "input">>)'
  <2>1. Pending(<<"open", "input">>) <=> script[1] = <<"open", "input">> \/ Among(<<"open", "input">>, Tail(script))
    BY <1>1, AmongTail DEF Pending, ScriptOK
  <2>2. script[1] = <<"open", "input">> <=> f = "input"
    BY <1>2
  <2>3. QED
    BY <2>1, <2>2
<1>11. Paired' /\ Decompressing' /\ Recompressing'
  BY <1>3, <1>4, <1>6, <1>7, SameKids
<1>12. Piped'
  <2>1. SameFeeds(f)
    BY <1>6, <1>8 DEF SameFeeds, Inputs, Files
  <2>2. ~(file'[f].fd > 0)
    BY <1>5, <1>6
  <2>3. QED
    BY <1>4, <2>1, <2>2, PipedKeeps
<1>13. At("read")' => From' # 0 /\ ~file'[f].eof
  BY <1>5, <1>6 DEF From
<1>14. InputTrue'
  <2>1. CASE f = "input"
    <3>1. /\ file'["input"].fd # 0 /\ ~file'["input"].eof
          /\ \A i \in 1 .. Len(file'["input"].data) : file'["input"].data[i] = i
      BY <1>5, <1>6, <2>1
    <3>2. QED
      BY <1>13, <3>1 DEF InputTrue
  <2>2. CASE f # "input"
    <3>1. file'["input"] = file["input"]
      BY <1>3, <1>6, <2>2
    <3>2. At("read")' => From' # 0 /\ (Subject' = "input" => ~file'["input"].eof)
      BY <1>13, <2>2
    <3>3. QED
      BY <1>4, <1>7, <1>9, <1>10, <2>2, <3>1, <3>2, InputKeeps
  <2>3. QED
    BY <2>1, <2>2
<1>15. Writes'
  BY <1>3, <1>4, <1>6, <1>7, <1>8, <1>9, WritesKeeps
<1>16. Doing'
  <2>1. cmd'.op = "ENCODE" => Pending(<<"encode">>)' \/ (file'["input"].eof /\ ~Pending(<<"open", "input">>)')
    <3>1. CASE f = "input"
      BY <1>4, <1>7, <1>9, <1>10, <3>1 DEF Doing
    <3>2. CASE f # "input"
      <4>1. file'["input"] = file["input"]
        BY <1>3, <1>6, <3>2
      <4>2. QED
        BY <1>4, <1>7, <1>9, <1>10, <3>2, <4>1 DEF Doing
    <3>3. QED
      BY <3>1, <3>2
  <2>2. cmd'.op = "DECODE" /\ cmd'.armor => Pending(<<"compare">>)' \/ file'["output"].data = Whole'
    <3>1. Whole' = Whole /\ file'["output"] = file["output"]
      BY <1>3, <1>6 DEF Whole
    <3>2. QED
      BY <1>4, <1>7, <1>9, <3>1 DEF Doing
  <2>3. Wrong' = Wrong
    BY <1>7 DEF Wrong
  <2>4. Wrong => \A i \in 1 .. Len(file'["hash"].data) : file'["hash"].data[i] < 0
    <3>1. CASE f = "hash"
      BY <1>5, <1>6, <3>1
    <3>2. CASE f # "hash"
      <4>1. file'["hash"] = file["hash"]
        BY <1>3, <1>6, <3>2
      <4>2. QED
        BY <1>4, <4>1 DEF Doing
    <3>3. QED
      BY <3>1, <3>2
  <2>5. QED
    BY <1>4, <1>9, <2>1, <2>2, <2>3, <2>4 DEF Doing
<1>17. Waiting'
  BY <1>4, <1>7, SameWaiting
<1>18. pipe' \in Seq(Pipes) /\ child' \in Seq(Children) /\ ext_subprocs' \in Seq(Nat)
  BY <1>4, <1>7 DEF TypeOK
<1>19. QED
  BY <1>4, <1>6, <1>7, <1>11, <1>12, <1>14, <1>15, <1>16, <1>17, <1>18, Together

LEMMA OpenPlain ==
  ASSUME RunInv, At("open"), Do(<<<<"read", Subject, WindowSize>>>>),
         file' = [file EXCEPT ![Subject] = [Closed EXCEPT !.fd = -1]],
         UNCHANGED <<cmd, pipe, child, ext_subprocs, status>>
  PROVE  RunInv'
<1>1. script # <<>> /\ script[1][1] = "open" /\ ScriptOK /\ script[1] \in Steps /\ Subject = script[1][2]
  BY AtHead, RunParts
<1>2. PICK f \in Inputs : f = Subject
  <2>1. script[1][1] \in {"open", "pipes", "copier", "parent"}
    BY <1>1
  <2>2. QED
    BY <1>1, <2>1, StepFields
<1> DEFINE a == <<"read", f, WindowSize>>
<1>3. a \in Steps /\ a[1] = "read" /\ a[2] = f
  <2>1. WindowSize \in Nat
    BY MainAssumption
  <2>2. QED
    BY <2>1, StepsMade
<1>4. Do(<<a>>)
  BY <1>2
<1> HIDE DEF a
<1>5. /\ ScriptOK' /\ script' # <<>> /\ script'[1] = a
      /\ \A x : Among(x, script') <=> x = a \/ Among(x, Tail(script))
      /\ NoForks(script')
  <2>1. a[1] \notin {"pipes", "copier", "parent", "recompress", "output_parent"} /\ script[1][1] \notin ForkNames
    BY <1>1, <1>3 DEF ForkNames
  <2>2. QED
    BY <1>1, <1>3, <1>4, <2>1, ReplacedByOne
<1>6. Steady(OpenNames)
  <2>1. PICK names : names = OpenNames
    OBVIOUS
  <2>2. a[1] \in names /\ script[1][1] \in names
    BY <1>1, <1>3, <2>1 DEF OpenNames
  <2>3. QED
    BY <1>1, <1>5, <2>1, <2>2, ReplacedSteady
<1>7. Pending(<<"open", "input">>)' <=> Among(<<"open", "input">>, Tail(script))
  <2>1. PICK x : x = <<"open", "input">>
    OBVIOUS
  <2>2. x[1] = "open"
    BY <2>1
  <2>3. x # a
    BY <1>3, <2>2
  <2>4. Among(x, script') <=> Among(x, Tail(script))
    BY <1>5, <2>3
  <2>5. QED
    BY <2>1, <2>4 DEF Pending
<1>8. /\ \A x : At(x)' => x = "read"
      /\ Subject' = f
  BY <1>3, <1>5, NewHead
<1>9. ~At("finish")'
  BY <1>8
<1>10. Forking'
  <2>1. PICK n : n = "open"
    OBVIOUS
  <2>2. At(n) /\ n # "copier"
    BY <2>1
  <2>3. Len(pipe') = Len(pipe) /\ child' = child
    OBVIOUS
  <2>4. QED
    BY <1>1, <1>5, <2>2, <2>3, RunParts, CalmForking
<1>11. file' = [file EXCEPT ![f] = Opened]
  BY <1>2 DEF Opened
<1>12. QED
  BY <1>2, <1>5, <1>6, <1>7, <1>8, <1>9, <1>10, <1>11, OpenParts

\* The four steps of a compressed file.
LEMMA FourSteps ==
  ASSUME NEW a \in Steps, NEW b \in Steps, NEW c \in Steps, NEW d \in Steps
  PROVE  LET s == <<a, b, c, d>>
         IN  /\ s \in Seq(Steps) /\ s # <<>> /\ Len(s) = 4 /\ s[1] = a /\ s[2] = b /\ s[3] = c /\ s[4] = d
             /\ \A i \in 1 .. 4 : i = 1 \/ i = 2 \/ i = 3 \/ i = 4
             /\ 1 \in 1 .. 4 /\ 2 \in 1 .. 4 /\ 3 \in 1 .. 4 /\ 4 \in 1 .. 4
             /\ 2 - 1 = 1 /\ 3 - 1 = 2 /\ 4 - 1 = 3
  OBVIOUS

FourOf(f, w) == <<<<"pipes", f>>, <<"copier", f>>, <<"parent", f>>, <<"read", f, w>>>>

LEMMA PipesScript ==
  ASSUME NEW f \in Inputs, NEW w \in Nat, NEW st, st = FourOf(f, w)
  PROVE  /\ st \in Seq(Steps) /\ st # <<>> /\ Len(st) = 4 /\ Ordered(st) /\ Chained(st)
         /\ st[1] = <<"pipes", f>> /\ st[2] = <<"copier", f>> /\ st[3] = <<"parent", f>> /\ st[4] = <<"read", f, w>>
         /\ \A i \in 1 .. 4 : st[i][1] \in {"pipes", "copier", "parent", "read"} /\ st[i][2] = f /\ Turn(st[i]) = 1
<1> DEFINE a == <<"pipes", f>>
           b == <<"copier", f>>
           c == <<"parent", f>>
           d == <<"read", f, w>>
<1>1. /\ a \in Steps /\ b \in Steps /\ c \in Steps /\ d \in Steps
      /\ a[1] = "pipes" /\ b[1] = "copier" /\ c[1] = "parent" /\ d[1] = "read"
      /\ a[2] = f /\ b[2] = f /\ c[2] = f /\ d[2] = f
  BY StepsMade
<1>2. st = <<a, b, c, d>>
  BY DEF FourOf
<1>3. a = <<"pipes", f>> /\ b = <<"copier", f>> /\ c = <<"parent", f>> /\ d = <<"read", f, w>>
  OBVIOUS
<1> HIDE DEF a, b, c, d
<1>4. /\ st \in Seq(Steps) /\ st # <<>> /\ Len(st) = 4 /\ st[1] = a /\ st[2] = b /\ st[3] = c /\ st[4] = d
      /\ \A i \in 1 .. 4 : i = 1 \/ i = 2 \/ i = 3 \/ i = 4
      /\ 1 \in 1 .. 4 /\ 2 \in 1 .. 4 /\ 3 \in 1 .. 4 /\ 4 \in 1 .. 4
      /\ 2 - 1 = 1 /\ 3 - 1 = 2 /\ 4 - 1 = 3
  BY <1>1, <1>2, FourSteps
<1>5. \A i \in 1 .. 4 : st[i][1] \in {"pipes", "copier", "parent", "read"} /\ st[i][2] = f
  BY <1>1, <1>4
<1>6. \A i \in 1 .. 4 : Turn(st[i]) = 1
  <2>1. Turn(a) = 1 /\ Turn(b) = 1 /\ Turn(c) = 1 /\ Turn(d) = 1
    <3>1. Turn(a) = 1
      BY <1>1, Turns
    <3>2. Turn(b) = 1
      BY <1>1, Turns
    <3>3. Turn(c) = 1
      BY <1>1, Turns
    <3>4. Turn(d) = 1
      BY <1>1, Turns
    <3>5. QED
      BY <3>1, <3>2, <3>3, <3>4
  <2>2. QED
    BY <1>4, <2>1
<1>7. Ordered(st)
  BY <1>4, <1>6 DEF Ordered, Follows
<1>8. Chained(st)
  <2>1. Linked(st, 2)
    BY <1>1, <1>3, <1>4 DEF Linked
  <2>2. Linked(st, 3)
    BY <1>1, <1>3, <1>4 DEF Linked
  <2>3. Linked(st, 4)
    BY <1>1, <1>3, <1>4 DEF Linked
  <2>4. QED
    BY <1>4, <2>1, <2>2, <2>3 DEF Chained
<1>9. QED
  BY <1>3, <1>4, <1>5, <1>6, <1>7, <1>8

LEMMA Prepended ==
  ASSUME NEW m \in Nat, NEW n \in Nat, NEW i \in 1 .. m + n
  PROVE  i \in 1 .. m \/ (i - m \in 1 .. n /\ (i - m) + m = i)
  OBVIOUS

LEMMA OpenCompressed ==
  ASSUME RunInv, At("open"),
         Do(<<<<"pipes", Subject>>, <<"copier", Subject>>, <<"parent", Subject>>, <<"read", Subject, WindowSize>>>>),
         file' = [file EXCEPT ![Subject] = [Closed EXCEPT !.fd = -1]],
         UNCHANGED <<cmd, pipe, child, ext_subprocs, status>>
  PROVE  RunInv'
<1>1. script # <<>> /\ script[1][1] = "open" /\ ScriptOK /\ script[1] \in Steps /\ Subject = script[1][2]
  BY AtHead, RunParts
<1>2. PICK f \in Inputs : f = Subject
  <2>1. script[1][1] \in {"open", "pipes", "copier", "parent"}
    BY <1>1
  <2>2. QED
    BY <1>1, <2>1, StepFields
<1>0. PICK w \in Nat : w = WindowSize
  BY MainAssumption
<1>3. PICK st : st = FourOf(f, w)
  OBVIOUS
<1>4. /\ st \in Seq(Steps) /\ st # <<>> /\ Len(st) = 4 /\ Ordered(st) /\ Chained(st)
      /\ st[1] = <<"pipes", f>> /\ st[2] = <<"copier", f>>
      /\ \A i \in 1 .. 4 : st[i][1] \in {"pipes", "copier", "parent", "read"} /\ st[i][2] = f /\ Turn(st[i]) = 1
  BY <1>3, PipesScript
<1>5. Do(st)
  BY <1>0, <1>2, <1>3 DEF FourOf
<1>6. script[1][1] \notin ForkNames
  BY <1>1 DEF ForkNames
<1>7. script \in Seq(Steps) /\ Ordered(script) /\ Chained(script)
  BY <1>1 DEF ScriptOK
<1>8. /\ Tail(script) \in Seq(Steps) /\ Len(Tail(script)) \in Nat
      /\ \A j \in 1 .. Len(Tail(script)) : Follows(script[1], Tail(script)[j]) /\ Tail(script)[j] \in Steps
  <2>1. PICK t : t = Tail(script)
    OBVIOUS
  <2>2. t \in Seq(Steps) /\ \A j \in 1 .. Len(t) : Follows(script[1], t[j])
    BY <1>1, <1>7, <2>1, TailScript, TailKeeps
  <2>3. Len(t) \in Nat /\ \A j \in 1 .. Len(t) : t[j] \in Steps
    BY <2>2
  <2>4. QED
    BY <2>1, <2>2, <2>3
<1>9. Precede(st, Tail(script))
  <2> SUFFICES ASSUME NEW i \in 1 .. Len(st), NEW j \in 1 .. Len(Tail(script))
               PROVE  Follows(st[i], Tail(script)[j])
    BY DEF Precede
  <2>1. PICK x \in Steps : x = Tail(script)[j]
    BY <1>8
  <2>2. Follows(script[1], x)
    BY <1>8, <2>1
  <2>3. PICK y : y = st[i]
    OBVIOUS
  <2>4. Turn(script[1]) = 1 /\ Turn(y) = 1
    BY <1>1, <1>4, <2>3, Turns
  <2>5. Follows(y, x)
    BY <1>1, <2>2, <2>4 DEF Follows
  <2>6. QED
    BY <2>1, <2>3, <2>5
<1>10. /\ ScriptOK' /\ script' # <<>> /\ script'[1] = st[1]
       /\ \A x : Among(x, script') <=> Among(x, st) \/ Among(x, Tail(script))
       /\ Len(script') = Len(st) + Len(Tail(script))
       /\ \A i \in 1 .. Len(st) : script'[i] = st[i]
       /\ \A i \in 1 .. Len(Tail(script)) : script'[i + Len(st)] = Tail(script)[i]
       /\ Calm(Tail(script))
  BY <1>1, <1>4, <1>5, <1>6, <1>9, Replaced
<1>11. \A x : Among(x, st) => x[1] \in {"pipes", "copier", "parent", "read"}
  BY <1>4 DEF Among
<1>12. Steady(OpenNames)
  <2>1. \A x : Among(x, script) <=> script[1] = x \/ Among(x, Tail(script))
    BY <1>1, <1>7, AmongTail
  <2>2. \A x : x[1] \notin OpenNames => x # script[1] /\ ~Among(x, st)
    BY <1>1, <1>11 DEF OpenNames
  <2>3. QED
    BY <1>10, <2>1, <2>2 DEF Steady, Pending
<1>13. Pending(<<"open", "input">>)' <=> Among(<<"open", "input">>, Tail(script))
  <2>1. PICK x : x = <<"open", "input">>
    OBVIOUS
  <2>2. x[1] = "open"
    BY <2>1
  <2>3. ~Among(x, st)
    BY <1>11, <2>2
  <2>4. Among(x, script') <=> Among(x, Tail(script))
    BY <1>10, <2>3
  <2>5. QED
    BY <2>1, <2>4 DEF Pending
<1>14. PICK a : a = script'[1] /\ a[1] = "pipes" /\ a[2] = f
  BY <1>4, <1>10
<1>15. /\ \A x : At(x)' => x = "pipes"
       /\ Subject' = f
  BY <1>10, <1>14, NewHead
<1>16. ~At("finish")' /\ ~At("read")' /\ ~At("recompress")' /\ ~At("copier")' /\ ~At("parent")' /\ ~At("output_parent")'
  BY <1>15
<1>17. file' = [file EXCEPT ![f] = Opened]
  BY <1>2 DEF Opened
<1>18. f \in Files /\ file \in [Files -> OneFile] /\ Forking /\ TypeOK
  BY RunParts DEF Inputs, Files, TypeOK, OneFile
<1>19. file'[f] = Opened
  BY <1>17, <1>18
<1>20. Forking'
  <2>1. ASSUME NEW i \in 1 .. Len(script'), script'[i][1] \in {"pipes", "copier", "parent"}
        PROVE  file'[script'[i][2]] = Opened'
    <3>1. i \in 1 .. 4 \/ (i - 4 \in 1 .. Len(Tail(script)) /\ (i - 4) + 4 = i)
      BY <1>4, <1>8, <1>10, Prepended
    <3>2. CASE i \in 1 .. 4
      <4>1. script'[i][2] = f
        BY <1>4, <1>10, <3>2
      <4>2. QED
        BY <1>19, <4>1 DEF Opened, Closed
    <3>3. CASE i - 4 \in 1 .. Len(Tail(script)) /\ (i - 4) + 4 = i
      <4>1. script'[i] = Tail(script)[i - 4]
        BY <1>4, <1>10, <3>3
      <4>2. script'[i][1] \notin ForkNames
        BY <1>10, <3>3, <4>1 DEF Calm
      <4>3. QED
        BY <2>1, <4>2 DEF ForkNames
    <3>4. QED
      BY <3>1, <3>2, <3>3
  <2>2. At("pipes")' => Then(<<"copier", Subject>>)'
    <3>1. Len(script') > 1 /\ script'[2] = <<"copier", f>>
      BY <1>4, <1>8, <1>10
    <3>2. QED
      BY <1>15, <3>1 DEF Then
  <2>3. Len(pipe') = Len(child') /\ ~Decompressor(Len(child))'
    <3>1. ~At("copier")
      BY <1>1, AtHead
    <3>2. Len(pipe) = Len(child) /\ ~Decompressor(Len(child))
      BY <1>18, <3>1 DEF Forking
    <3>3. child' = child /\ pipe' = pipe
      OBVIOUS
    <3>4. QED
      BY <3>2, <3>3 DEF Decompressor, Child
  <2>4. QED
    BY <1>16, <2>1, <2>2, <2>3 DEF Forking
<1>21. QED
  BY <1>2, <1>10, <1>12, <1>13, <1>16, <1>17, <1>20, OpenParts

LEMMA NoPipe ==
  ASSUME NEW d, d = -1 \/ d = 0
  PROVE  d <= 0 /\ ~(d > 0)
  OBVIOUS

\* The output is opened.
OutputNames == {"output", "recompress", "output_parent"}
OutputOpened == file' = [file EXCEPT !["output"].fd = -1]

LEMMA OutputParts ==
  ASSUME RunInv, At("output"), OutputOpened,
         UNCHANGED <<cmd, pipe, child, ext_subprocs, status>>, ScriptOK', Steady(OutputNames), Forking',
         ~Pending(<<"output">>)', ~At("read")',
         At("finish")' => \A i \in 1 .. Len(ext_subprocs') : i < Subject' => ext_subprocs'[i] = 0,
         IF cmd.tzip THEN Pending(<<"recompress">>)' ELSE ~Pending(<<"recompress">>)' /\ ~Pending(<<"output_parent">>)'
  PROVE  RunInv'
<1>1. script # <<>> /\ script[1][1] = "output" /\ ScriptOK /\ script[1] \in Steps /\ 1 \in 1 .. Len(script)
  BY AtHead, RunParts
<1>2. /\ TypeOK /\ Paired /\ Decompressing /\ Recompressing /\ Waiting /\ Piped /\ InputTrue
      /\ Writes /\ Doing /\ ext_subprocs \in Seq(Nat)
  BY RunParts
<1>3. Pending(<<"output">>)
  <2>1. script[1][1] \notin {"open", "pipes", "copier", "parent", "close", "read", "finish"}
    BY <1>1
  <2>2. script[1] = <<script[1][1]>>
    BY <1>1, <2>1, StepFields
  <2>3. QED
    BY <1>1, <2>2 DEF Pending, Among
<1>4. "output" \in Files /\ "input" \in Files /\ "hash" \in Files /\ Inputs \subseteq Files /\ "output" \notin Inputs
  BY DEF Inputs, Files
<1>5. /\ file' \in [Files -> OneFile] /\ \A g \in Files : g # "output" => file'[g] = file[g]
      /\ file'["output"].fd = -1 /\ file'["output"].data = file["output"].data
  <2>1. PICK d \in Nat \cup {-1} : d = -1
    OBVIOUS
  <2>2. PICK f : f = "output"
    OBVIOUS
  <2>3. file' = [file EXCEPT ![f].fd = d] /\ f \in Files
    BY <1>4, <2>1, <2>2 DEF OutputOpened
  <2>4. /\ file' \in [Files -> OneFile] /\ \A g \in Files : g # f => file'[g] = file[g]
        /\ file'[f].fd = d /\ file'[f].data = file[f].data
    BY <1>2, <2>3, SetFd
  <2>5. QED
    BY <2>1, <2>2, <2>4
<1>6. /\ cmd' = cmd /\ child' = child /\ pipe' = pipe /\ ext_subprocs' = ext_subprocs
  OBVIOUS
<1>7. SameRecompressor /\ (\A q : Feeds(q)' = Feeds(q) /\ Taken(q)' = Taken(q))
  BY <1>6, SameChildren
<1>8. SameWork /\ (Pending(<<"decode">>)' <=> Pending(<<"decode">>))
  <2>1. PICK names : names = OutputNames
    OBVIOUS
  <2>2. names \cap {"encode", "open", "compare", "verify"} = {} /\ "decode" \notin names
    BY <2>1 DEF OutputNames
  <2>3. Steady(names)
    BY <2>1
  <2>4. QED
    BY <2>2, <2>3, SteadyPlaces
<1>9. file'["input"] = file["input"] /\ file'["hash"] = file["hash"]
  BY <1>4, <1>5
<1>10. Paired' /\ Decompressing' /\ Recompressing'
  BY <1>2, <1>5, <1>6, SameKids
<1>11. Piped'
  <2>1. SameFeeds("output")
    BY <1>4, <1>5, <1>7 DEF SameFeeds
  <2>2. QED
    BY <1>2, <1>4, <2>1, PipedKeeps
<1>12. InputTrue'
  BY <1>2, <1>6, <1>8, <1>9, InputKeeps DEF SameWork
<1>13. Doing'
  BY <1>2, <1>5, <1>6, <1>8, <1>9, DoingKeeps DEF SameWork
<1>14. Waiting'
  BY <1>2, <1>6, SameWaiting
<1>15. Writes'
  <2>1. file["output"].data = <<>> /\ \A q \in DOMAIN child : child[q].role # "recompressor"
    BY <1>2, <1>3 DEF Writes, Unopened
  <2>2. file'["output"].data = <<>> /\ file'["output"].fd <= 0 /\ ~(file'["output"].fd > 0)
    <3>1. PICK d : d = file'["output"].fd
      OBVIOUS
    <3>2. d <= 0 /\ ~(d > 0)
      BY <1>5, <3>1, NoPipe, Zenon
    <3>3. QED
      BY <1>5, <2>1, <3>1, <3>2, Zenon
  <2>3. CASE cmd.tzip
    <3>1. Pending(<<"recompress">>)' /\ Unopened'
      BY <2>3 DEF Unopened
    <3>2. QED
      BY <1>6, <2>1, <2>2, <2>3, <3>1 DEF Writes
  <2>4. CASE ~cmd.tzip
    <3>1. ~Pending(<<"recompress">>)' /\ ~Pending(<<"output_parent">>)' /\ ~Unopened'
      BY <2>4 DEF Unopened
    <3>2. QED
      BY <1>5, <1>6, <2>2, <2>4, <3>1 DEF Writes
  <2>5. QED
    BY <2>3, <2>4
<1>16. pipe' \in Seq(Pipes) /\ child' \in Seq(Children) /\ ext_subprocs' \in Seq(Nat)
  BY <1>2, <1>6 DEF TypeOK
<1>17. QED
  BY <1>2, <1>5, <1>6, <1>10, <1>11, <1>12, <1>13, <1>14, <1>15, <1>16, Together

LEMMA CalmAmong ==
  ASSUME NEW s, Calm(s), NEW n \in ForkNames \cup {"read"}, NEW x, x[1] = n
  PROVE  ~Among(x, s)
  BY DEF Calm, Among

LEMMA OutputPlain ==
  ASSUME RunInv, At("output"), ~cmd.tzip, OutputOpened, Do(<<>>),
         UNCHANGED <<cmd, pipe, child, ext_subprocs, status>>
  PROVE  RunInv'
<1>1. PICK n : n = "output"
  OBVIOUS
<1>2. At(n) /\ n \notin ForkNames /\ n # "copier"
  BY <1>1 DEF ForkNames
<1>3. /\ ScriptOK /\ script # <<>> /\ script[1] \in Steps /\ script[1][1] = n
      /\ ScriptOK' /\ NoForks(script') /\ ~At("read")' /\ Steady({n})
      /\ At("finish")' => \A i \in 1 .. Len(ext_subprocs') : i < Subject' => ext_subprocs'[i] = 0
  BY <1>2, PopParts
<1>4. Calm(script') /\ script' = Tail(script)
  BY <1>2, <1>3, Popped
<1>5. Steady(OutputNames)
  BY <1>1, <1>3 DEF Steady, OutputNames
<1>6. ~Pending(<<"output">>)'
  <2>1. PICK x : x = script[1]
    OBVIOUS
  <2>2. x[1] # "read" /\ Turn(x) \notin {1, 7}
    <3>1. Turn(x) = 3
      BY <1>1, <1>3, <2>1, Turns
    <3>2. QED
      BY <1>1, <1>3, <2>1, <3>1
  <2>3. ~Pending(x)'
    BY <1>3, <2>1, <2>2, Once
  <2>4. x = <<"output">>
    <3>1. x[1] \notin {"open", "pipes", "copier", "parent", "close", "read", "finish"} /\ x[1] = "output"
      BY <1>1, <1>3, <2>1
    <3>2. QED
      BY <1>3, <2>1, <3>1, StepFields
  <2>5. QED
    BY <2>3, <2>4
<1>7. ~Pending(<<"recompress">>)' /\ ~Pending(<<"output_parent">>)'
  <2>1. PICK x : x = <<"recompress">>
    OBVIOUS
  <2>2. PICK y : y = <<"output_parent">>
    OBVIOUS
  <2>3. /\ x[1] = "recompress" /\ x[1] \in ForkNames \cup {"read"}
        /\ y[1] = "output_parent" /\ y[1] \in ForkNames \cup {"read"}
    BY <2>1, <2>2 DEF ForkNames
  <2>4. ~Among(x, script')
    BY <1>4, <2>3, CalmAmong
  <2>5. ~Among(y, script')
    BY <1>4, <2>3, CalmAmong
  <2>6. QED
    BY <2>1, <2>2, <2>4, <2>5 DEF Pending
<1>9. Forking'
  <2>1. Len(pipe') = Len(pipe) /\ child' = child
    OBVIOUS
  <2>2. QED
    BY <1>2, <1>3, <2>1, RunParts, CalmForking
<1>10. QED
  BY <1>3, <1>5, <1>6, <1>7, <1>9, OutputParts

LEMMA Skipped ==
  ASSUME NEW k, k \in {1, 2, 3, 6, 7, 8, 9}
  PROVE  k \notin {4, 5}
  OBVIOUS

LEMMA BetweenTurns ==
  ASSUME NEW x \in Steps, x[1] \notin {"recompress", "output_parent"}
  PROVE  Turn(x) \notin {4, 5}
<1>1. PICK n : n = x[1]
  OBVIOUS
<1>2. n \in {"open", "pipes", "copier", "parent", "close", "read", "finish", "hash", "reap", "verify",
            "output", "recompress", "output_parent", "encode", "decode", "compare"}
  BY <1>1, StepFields
<1>3. PICK k : k = Turn(x)
  OBVIOUS
<1>4. /\ n = "verify" => k = 2
      /\ n = "output" => k = 3
      /\ n \in {"encode", "decode"} => k = 6
      /\ n = "close" => k = 7
      /\ n = "compare" => k = 8
      /\ n = "finish" => k = 9
      /\ n \in {"open", "pipes", "copier", "parent", "hash", "reap", "read"} => k = 1
  BY <1>1, <1>3, Turns
<1>5. k \in {1, 2, 3, 6, 7, 8, 9}
  BY <1>1, <1>2, <1>4
<1>6. k \notin {4, 5}
  BY <1>5, Skipped, Zenon
<1>7. QED
  BY <1>3, <1>6, Zenon

LEMMA TwoSteps ==
  ASSUME NEW a \in Steps, NEW b \in Steps
  PROVE  LET s == <<a, b>>
         IN  /\ s \in Seq(Steps) /\ s # <<>> /\ Len(s) = 2 /\ s[1] = a /\ s[2] = b
             /\ \A i \in 1 .. 2 : i = 1 \/ i = 2
             /\ 1 \in 1 .. 2 /\ 2 \in 1 .. 2 /\ 2 - 1 = 1
  OBVIOUS

RecompressSteps == <<<<"recompress">>, <<"output_parent">>>>

LEMMA RecompressScript ==
  ASSUME NEW st, st = RecompressSteps
  PROVE  /\ st \in Seq(Steps) /\ st # <<>> /\ Len(st) = 2 /\ Ordered(st) /\ Chained(st)
         /\ st[1] = <<"recompress">> /\ st[2] = <<"output_parent">>
         /\ \A i \in 1 .. 2 : st[i][1] \in {"recompress", "output_parent"} /\ Turn(st[i]) \in {4, 5}
         /\ Among(<<"recompress">>, st)
<1> DEFINE a == <<"recompress">>
           b == <<"output_parent">>
<1>1. a \in Steps /\ b \in Steps /\ a[1] = "recompress" /\ b[1] = "output_parent"
  BY StepsMade
<1>2. st = <<a, b>>
  BY DEF RecompressSteps
<1>20. a = <<"recompress">> /\ b = <<"output_parent">>
  OBVIOUS
<1> HIDE DEF a, b
<1>3. /\ st \in Seq(Steps) /\ st # <<>> /\ Len(st) = 2 /\ st[1] = a /\ st[2] = b
      /\ \A i \in 1 .. 2 : i = 1 \/ i = 2
      /\ 1 \in 1 .. 2 /\ 2 \in 1 .. 2 /\ 2 - 1 = 1
  <2>1. PICK x \in Steps : x = a
    BY <1>1
  <2>2. PICK y \in Steps : y = b
    BY <1>1
  <2>3. st = <<x, y>>
    BY <1>2, <2>1, <2>2
  <2>4. /\ st \in Seq(Steps) /\ st # <<>> /\ Len(st) = 2 /\ st[1] = x /\ st[2] = y
        /\ \A i \in 1 .. 2 : i = 1 \/ i = 2
        /\ 1 \in 1 .. 2 /\ 2 \in 1 .. 2 /\ 2 - 1 = 1
    BY <2>3, TwoSteps
  <2>5. QED
    BY <2>1, <2>2, <2>4
<1>4. Turn(a) = 4 /\ Turn(b) = 5
  <2>1. Turn(a) = 4
    BY <1>1, Turns
  <2>2. Turn(b) = 5
    BY <1>1, Turns
  <2>3. QED
    BY <2>1, <2>2
<1>5. \A i \in 1 .. 2 : st[i][1] \in {"recompress", "output_parent"} /\ Turn(st[i]) \in {4, 5}
  BY <1>1, <1>3, <1>4
<1>6. Ordered(st)
  BY <1>3, <1>4 DEF Ordered, Follows
<1>7. Linked(st, 2)
  BY <1>1, <1>20, <1>3 DEF Linked
<1>8. Chained(st)
  BY <1>3, <1>7 DEF Chained
<1>9. Among(<<"recompress">>, st)
  BY <1>20, <1>3 DEF Among
<1>10. QED
  BY <1>20, <1>3, <1>5, <1>6, <1>8, <1>9

LEMMA OutputCompressed ==
  ASSUME RunInv, At("output"), cmd.tzip, OutputOpened, Do(RecompressSteps),
         UNCHANGED <<cmd, pipe, child, ext_subprocs, status>>
  PROVE  RunInv'
<1>1. script # <<>> /\ script[1][1] = "output" /\ ScriptOK /\ script[1] \in Steps
  BY AtHead, RunParts
<1>2. PICK st : st = RecompressSteps
  OBVIOUS
<1>3. /\ st \in Seq(Steps) /\ st # <<>> /\ Len(st) = 2 /\ Ordered(st) /\ Chained(st)
      /\ st[1] = <<"recompress">> /\ st[2] = <<"output_parent">>
      /\ \A i \in 1 .. 2 : st[i][1] \in {"recompress", "output_parent"} /\ Turn(st[i]) \in {4, 5}
      /\ Among(<<"recompress">>, st)
  BY <1>2, RecompressScript
<1>4. Do(st) /\ script[1][1] \notin ForkNames
  BY <1>1, <1>2 DEF ForkNames
<1>30. st[1][1] = "recompress"
  <2>1. <<"recompress">>[1] = "recompress"
    OBVIOUS
  <2>2. QED
    BY <1>3, <2>1
<1>5. script \in Seq(Steps) /\ Ordered(script) /\ Chained(script)
  BY <1>1 DEF ScriptOK
<1>6. PICK t : t = Tail(script)
  OBVIOUS
<1>7. /\ t \in Seq(Steps) /\ \A j \in 1 .. Len(t) : Follows(script[1], t[j])
      /\ Calm(t)
  BY <1>1, <1>4, <1>5, <1>6, TailScript, TailKeeps, CalmTail
<1>8. Len(t) \in Nat /\ \A j \in 1 .. Len(t) : t[j] \in Steps
  BY <1>7
<1>9. \A j \in 1 .. Len(t) : Turn(t[j]) \in 6 .. 9
  <2> TAKE j \in 1 .. Len(t)
  <2>1. PICK x \in Steps : x = t[j]
    BY <1>8
  <2>2. x[1] \notin {"recompress", "output_parent", "read"} /\ Follows(script[1], x)
    BY <1>7, <2>1 DEF Calm, ForkNames
  <2>3. Turn(x) \notin {4, 5}
    BY <2>2, BetweenTurns
  <2>4. Turn(script[1]) = 3 /\ script[1][1] # "read" /\ x[1] # "read"
    BY <1>1, <2>2, Turns
  <2>5. Turn(script[1]) <= Turn(x) /\ (Turn(script[1]) = Turn(x) => Turn(script[1]) \in {1, 7})
    BY <1>1, <2>2, <2>4, FollowsNames
  <2>6. Turn(x) \in 1 .. 9
    BY Turns
  <2>7. QED
    BY <2>1, <2>3, <2>4, <2>5, <2>6
<1>10. Precede(st, Tail(script))
  <2> SUFFICES ASSUME NEW i \in 1 .. Len(st), NEW j \in 1 .. Len(t)
               PROVE  Follows(st[i], t[j])
    BY <1>6 DEF Precede
  <2>1. Turn(st[i]) \in {4, 5} /\ Turn(t[j]) \in 6 .. 9
    BY <1>3, <1>9
  <2>2. QED
    BY <2>1 DEF Follows
<1>11. /\ ScriptOK' /\ script' # <<>> /\ script'[1] = st[1]
       /\ \A x : Among(x, script') <=> Among(x, st) \/ Among(x, Tail(script))
       /\ Len(script') = Len(st) + Len(Tail(script))
       /\ \A i \in 1 .. Len(st) : script'[i] = st[i]
       /\ \A i \in 1 .. Len(Tail(script)) : script'[i + Len(st)] = Tail(script)[i]
       /\ Calm(Tail(script))
  BY <1>1, <1>3, <1>4, <1>10, Replaced
<1>31. Len(script') = 2 + Len(t)
  BY <1>3, <1>6, <1>11
<1>12. \A x : Among(x, st) => x[1] \in {"recompress", "output_parent"}
  BY <1>3 DEF Among
<1>13. Steady(OutputNames)
  <2>1. \A x : Among(x, script) <=> script[1] = x \/ Among(x, Tail(script))
    BY <1>1, <1>5, AmongTail
  <2>2. \A x : x[1] \notin OutputNames => x # script[1] /\ ~Among(x, st)
    BY <1>1, <1>12 DEF OutputNames
  <2>3. QED
    BY <1>11, <2>1, <2>2 DEF Steady, Pending
<1>14. ~Pending(<<"output">>)'
  <2>1. PICK x : x = <<"output">>
    OBVIOUS
  <2>2. x[1] = "output"
    BY <2>1
  <2>3. ~Among(x, st)
    BY <1>12, <2>2
  <2>4. ~Among(x, t)
    <3> SUFFICES ASSUME NEW j \in 1 .. Len(t), t[j] = x PROVE FALSE
      BY DEF Among
    <3>1. Turn(x) \in 6 .. 9 /\ Turn(x) = 3
      BY <1>9, <2>2, Turns
    <3>2. QED
      BY <3>1
  <2>5. QED
    BY <1>6, <1>11, <2>1, <2>3, <2>4 DEF Pending
<1>15. Pending(<<"recompress">>)'
  BY <1>3, <1>11 DEF Pending
<1>16. PICK a : a = script'[1] /\ a[1] = "recompress"
  BY <1>11, <1>30
<1>17. \A x : At(x)' => x = "recompress"
  BY <1>11, <1>16, NewHead
<1>18. ~At("finish")' /\ ~At("read")' /\ ~At("pipes")' /\ ~At("copier")' /\ ~At("parent")' /\ ~At("output_parent")'
  BY <1>17
<1>19. Forking /\ TypeOK
  BY RunParts
<1>20. Forking'
  <2>1. ASSUME NEW i \in 1 .. Len(script')
        PROVE  script'[i][1] \notin {"pipes", "copier", "parent"}
    <3>1. i \in 1 .. 2 \/ (i - 2 \in 1 .. Len(t) /\ (i - 2) + 2 = i)
      BY <1>8, <1>31, Prepended
    <3>2. CASE i \in 1 .. 2
      BY <1>3, <1>11, <3>2
    <3>3. CASE i - 2 \in 1 .. Len(t) /\ (i - 2) + 2 = i
      <4>1. script'[i] = t[i - 2]
        BY <1>3, <1>6, <1>11, <3>3
      <4>2. script'[i][1] \notin ForkNames
        BY <1>7, <3>3, <4>1 DEF Calm
      <4>3. QED
        BY <4>2 DEF ForkNames
    <3>4. QED
      BY <3>1, <3>2, <3>3
  <2>2. Then(<<"output_parent">>)'
    <3>1. Len(script') > 1 /\ script'[2] = <<"output_parent">>
      <4>1. 2 \in 1 .. Len(st) /\ Len(script') > 1
        <5>1. Len(st) = 2 /\ Len(t) \in Nat
          BY <1>3, <1>8
        <5>2. PICK k \in Nat : k = Len(t)
          BY <5>1
        <5>3. 2 + k > 1 /\ 2 \in 1 .. 2
          OBVIOUS
        <5>4. QED
          BY <1>31, <5>1, <5>2, <5>3
      <4>2. QED
        BY <1>3, <1>11, <4>1
    <3>2. QED
      BY <3>1 DEF Then
  <2>3. Len(pipe') = Len(child') /\ ~Decompressor(Len(child))'
    <3>1. ~At("copier")
      BY <1>1, AtHead
    <3>2. Len(pipe) = Len(child) /\ ~Decompressor(Len(child))
      BY <1>19, <3>1 DEF Forking
    <3>3. child' = child /\ pipe' = pipe
      OBVIOUS
    <3>4. QED
      BY <3>2, <3>3 DEF Decompressor, Child
  <2>4. QED
    BY <1>18, <2>1, <2>2, <2>3 DEF Forking
<1>21. QED
  BY <1>11, <1>13, <1>14, <1>15, <1>18, <1>20, OutputParts

\* Main closes a file, and with it an end of a pipe.
LEMMA PipeFields ==
  ASSUME NEW r \in Pipes
  PROVE  /\ r.units \in Seq(Int) /\ r.readers \subseteq Nat /\ r.writers \subseteq Nat
         /\ LET t == [r EXCEPT !.readers = @ \ {0}]
            IN t \in Pipes /\ t.units = r.units /\ t.readers = r.readers \ {0} /\ t.writers = r.writers
         /\ LET t == [r EXCEPT !.writers = @ \ {0}]
            IN t \in Pipes /\ t.units = r.units /\ t.readers = r.readers /\ t.writers = r.writers \ {0}
  BY DEF Pipes

LEMMA LoseEnd ==
  ASSUME pipe \in Seq(Pipes), NEW p \in DOMAIN pipe
  PROVE  /\ pipe' = [pipe EXCEPT ![p].readers = @ \ {0}] =>
              /\ pipe' \in Seq(Pipes) /\ Len(pipe') = Len(pipe) /\ DOMAIN pipe' = DOMAIN pipe
              /\ pipe'[p].units = pipe[p].units /\ pipe'[p].readers = pipe[p].readers \ {0}
              /\ pipe'[p].writers = pipe[p].writers
              /\ \A q \in DOMAIN pipe : q # p => pipe'[q] = pipe[q]
         /\ pipe' = [pipe EXCEPT ![p].writers = @ \ {0}] =>
              /\ pipe' \in Seq(Pipes) /\ Len(pipe') = Len(pipe) /\ DOMAIN pipe' = DOMAIN pipe
              /\ pipe'[p].units = pipe[p].units /\ pipe'[p].readers = pipe[p].readers
              /\ pipe'[p].writers = pipe[p].writers \ {0}
              /\ \A q \in DOMAIN pipe : q # p => pipe'[q] = pipe[q]
<1>1. PICK r \in Pipes : r = pipe[p]
  OBVIOUS
<1>2. ASSUME pipe' = [pipe EXCEPT ![p].readers = @ \ {0}]
      PROVE  /\ pipe' \in Seq(Pipes) /\ Len(pipe') = Len(pipe) /\ DOMAIN pipe' = DOMAIN pipe
             /\ pipe'[p].units = pipe[p].units /\ pipe'[p].readers = pipe[p].readers \ {0}
             /\ pipe'[p].writers = pipe[p].writers
             /\ \A q \in DOMAIN pipe : q # p => pipe'[q] = pipe[q]
  <2>1. PICK t : t = [r EXCEPT !.readers = @ \ {0}]
    OBVIOUS
  <2>2. t \in Pipes /\ t.units = r.units /\ t.readers = r.readers \ {0} /\ t.writers = r.writers
    BY <2>1, PipeFields
  <2>3. pipe' = [pipe EXCEPT ![p] = t]
    BY <1>1, <1>2, <2>1
  <2>4. QED
    BY <1>1, <2>2, <2>3, SetPipe
<1>3. ASSUME pipe' = [pipe EXCEPT ![p].writers = @ \ {0}]
      PROVE  /\ pipe' \in Seq(Pipes) /\ Len(pipe') = Len(pipe) /\ DOMAIN pipe' = DOMAIN pipe
             /\ pipe'[p].units = pipe[p].units /\ pipe'[p].readers = pipe[p].readers
             /\ pipe'[p].writers = pipe[p].writers \ {0}
             /\ \A q \in DOMAIN pipe : q # p => pipe'[q] = pipe[q]
  <2>1. PICK t : t = [r EXCEPT !.writers = @ \ {0}]
    OBVIOUS
  <2>2. t \in Pipes /\ t.units = r.units /\ t.readers = r.readers /\ t.writers = r.writers \ {0}
    BY <2>1, PipeFields
  <2>3. pipe' = [pipe EXCEPT ![p] = t]
    BY <1>1, <1>3, <2>1
  <2>4. QED
    BY <1>1, <2>2, <2>3, SetPipe
<1>4. QED
  BY <1>2, <1>3

\* Ends of pipes are closed, and units are left where they are.
Fewer ==
  /\ pipe' \in Seq(Pipes) /\ Len(pipe') = Len(pipe) /\ DOMAIN pipe' = DOMAIN pipe
  /\ \A p \in DOMAIN pipe : /\ pipe'[p].units = pipe[p].units
                            /\ pipe'[p].readers \subseteq pipe[p].readers /\ pipe'[p].writers \subseteq pipe[p].writers

LEMMA FewerKeeps ==
  ASSUME Paired, Decompressing, Recompressing, cmd' = cmd, child' = child, Fewer, DOMAIN child \subseteq DOMAIN pipe,
         file'["output"].data = file["output"].data,
         \A q \in DOMAIN child : child[q].role = "decompressor" /\ q \in pipe[q].writers => q \in pipe'[q].writers
  PROVE  /\ Paired' /\ Decompressing' /\ Recompressing'
         /\ \A q \in DOMAIN child : Taken(q)' = Taken(q)
<1>1. \A q : Child(q)' = Child(q) /\ Decompressor(q)' = Decompressor(q)
  BY DEF Child, Decompressor
<1>2. Paired'
  <2>1. DOMAIN pipe' = DOMAIN pipe /\ Len(pipe') = Len(pipe)
    BY DEF Fewer
  <2>2. QED
    BY <1>1, <2>1 DEF Paired
<1>3. \A q \in DOMAIN child : Taken(q)' = Taken(q)
  BY DEF Taken, Fewer
<1>4. Decompressing'
  <2> SUFFICES ASSUME NEW q \in DOMAIN child, child[q].role = "decompressor" PROVE Making(q)'
    BY DEF Decompressing
  <2>1. Making(q) /\ q \in DOMAIN pipe
    BY DEF Decompressing
  <2>2. /\ pipe'[q].units = pipe[q].units /\ pipe'[q].readers \subseteq pipe[q].readers
        /\ q \in pipe[q].writers => q \in pipe'[q].writers
    BY <2>1 DEF Fewer
  <2>3. child[q].exit = "SIGPIPE" => pipe'[q].readers = {}
    BY <2>1, <2>2 DEF Making
  <2>4. QED
    BY <1>3, <2>1, <2>2, <2>3 DEF Making
<1>5. Recompressing'
  <2> SUFFICES ASSUME NEW q \in DOMAIN child, child[q].role = "recompressor" PROVE Gathering(q)'
    BY DEF Recompressing
  <2>1. Gathering(q) /\ q \in DOMAIN pipe
    BY DEF Recompressing
  <2>2. pipe'[q].units = pipe[q].units /\ pipe'[q].writers \subseteq pipe[q].writers
    BY <2>1 DEF Fewer
  <2>3. child[q].exit = "0" => pipe'[q].writers = {}
    BY <2>1, <2>2 DEF Gathering
  <2>4. QED
    BY <2>1, <2>2, <2>3 DEF Gathering
<1>6. QED
  BY <1>2, <1>3, <1>4, <1>5

LEMMA ClosedPipe ==
  ASSUME RunInv, NEW f \in Files, Close(f), child' = child
  PROVE  /\ Fewer /\ DOMAIN child \subseteq DOMAIN pipe
         /\ \A p \in DOMAIN pipe : p = file[f].fd \/ pipe'[p] = pipe[p]
         /\ \A q \in DOMAIN child : child[q].role = "decompressor" => pipe'[q].writers = pipe[q].writers
         /\ f \in Inputs => \A p \in DOMAIN pipe : pipe'[p].writers = pipe[p].writers
         /\ f = "output" => \A q : Feeds(q)' = Feeds(q)
<1>1. TypeOK /\ Paired /\ Piped /\ Writes
  BY RunParts
<1>2. /\ Len(pipe) \in Nat /\ DOMAIN pipe = 1 .. Len(pipe) /\ DOMAIN child \subseteq DOMAIN pipe
      /\ pipe \in Seq(Pipes)
  BY <1>1, Lengths DEF Paired, TypeOK
<1>3. PICK q : q = file[f].fd
  OBVIOUS
<1>4. q \in Int
  BY <1>1, <1>3, Fields
<1>5. CASE q <= 0
  <2>1. pipe' = pipe
    BY <1>3, <1>5 DEF Close
  <2>2. Fewer
    BY <1>2, <2>1 DEF Fewer
  <2>3. QED
    BY <1>2, <2>1, <2>2, SameChildren
<1>6. CASE q > 0 /\ f = "output"
  <2>1. pipe' = [pipe EXCEPT ![q].writers = @ \ {0}]
    BY <1>3, <1>4, <1>6 DEF Close
  <2>2. Recompressor(q)
    BY <1>1, <1>3, <1>6 DEF Writes
  <2>3. q \in DOMAIN child /\ child[q].role = "recompressor" /\ q \in DOMAIN pipe
    BY <1>2, <2>2 DEF Recompressor, Child
  <2>4. /\ pipe' \in Seq(Pipes) /\ Len(pipe') = Len(pipe) /\ DOMAIN pipe' = DOMAIN pipe
        /\ pipe'[q].units = pipe[q].units /\ pipe'[q].readers = pipe[q].readers
        /\ pipe'[q].writers = pipe[q].writers \ {0}
        /\ \A p \in DOMAIN pipe : p # q => pipe'[p] = pipe[p]
    BY <1>2, <2>1, <2>3, LoseEnd
  <2>5. Fewer
    BY <2>4 DEF Fewer
  <2>6. \A p \in DOMAIN child : child[p].role = "decompressor" => pipe'[p].writers = pipe[p].writers
    BY <1>2, <2>3, <2>4
  <2>7. \A p : Feeds(p)' = Feeds(p)
    <3> TAKE p
    <3>1. Decompressor(p)' = Decompressor(p)
      BY DEF Decompressor, Child
    <3>2. Decompressor(p) => pipe'[p] = pipe[p]
      BY <1>2, <2>3, <2>4 DEF Decompressor, Child
    <3>3. QED
      BY <3>1, <3>2 DEF Feeds
  <2>8. f \notin Inputs
    BY <1>6 DEF Inputs
  <2>9. QED
    BY <1>2, <1>3, <2>4, <2>5, <2>6, <2>7, <2>8
<1>7. CASE q > 0 /\ f # "output"
  <2>1. pipe' = [pipe EXCEPT ![q].readers = @ \ {0}]
    BY <1>3, <1>4, <1>7 DEF Close
  <2>2. f \in Inputs
    BY <1>7 DEF Files, Inputs
  <2>3. Feeds(q)
    BY <1>1, <1>3, <1>7, <2>2 DEF Piped
  <2>4. q \in DOMAIN pipe
    BY <1>2, <2>3 DEF Feeds, Decompressor, Child
  <2>5. /\ pipe' \in Seq(Pipes) /\ Len(pipe') = Len(pipe) /\ DOMAIN pipe' = DOMAIN pipe
        /\ pipe'[q].units = pipe[q].units /\ pipe'[q].readers = pipe[q].readers \ {0}
        /\ pipe'[q].writers = pipe[q].writers
        /\ \A p \in DOMAIN pipe : p # q => pipe'[p] = pipe[p]
    BY <1>2, <2>1, <2>4, LoseEnd
  <2>6. \A p \in DOMAIN pipe : pipe'[p].writers = pipe[p].writers
    BY <2>5
  <2>7. Fewer
    BY <2>5 DEF Fewer
  <2>8. QED
    BY <1>2, <1>3, <1>7, <2>5, <2>6, <2>7
<1>8. QED
  BY <1>4, <1>5, <1>6, <1>7

LEMMA CloseKeeps ==
  ASSUME RunInv, NEW f \in Files, Close(f), UNCHANGED <<cmd, child, ext_subprocs, status>>,
         NEW n, At(n), n # "copier", ScriptOK', NoForks(script'), ~At("read")', SamePlaces, SameWork,
         Pending(<<"decode">>)' <=> Pending(<<"decode">>),
         At("finish")' => \A i \in 1 .. Len(ext_subprocs') : i < Subject' => ext_subprocs'[i] = 0,
         f = "input" => ~Pending(<<"encode">>),
         f = "output" => /\ ~Pending(<<"output">>) /\ ~Pending(<<"recompress">>) /\ ~Pending(<<"output_parent">>)
                         /\ ~Pending(<<"decode">>)
  PROVE  RunInv'
<1>1. /\ TypeOK /\ ScriptOK /\ Paired /\ Decompressing /\ Recompressing /\ Waiting /\ Piped /\ InputTrue
      /\ Forking /\ Writes /\ Doing /\ ext_subprocs \in Seq(Nat)
  BY RunParts
<1>2. /\ cmd' = cmd /\ child' = child /\ ext_subprocs' = ext_subprocs
  OBVIOUS
<1>3. "output" \in Files /\ "input" \in Files /\ "hash" \in Files /\ Inputs \subseteq Files /\ "output" \notin Inputs
      /\ (f = "output" \/ f \in Inputs)
  BY DEF Inputs, Files
<1>4. /\ file' \in [Files -> OneFile] /\ \A g \in Files : g # f => file'[g] = file[g]
      /\ file'[f].fd = 0 /\ file'[f].data = file[f].data /\ file'[f].eof = file[f].eof
  <2>1. PICK d \in Nat \cup {-1} : d = 0
    OBVIOUS
  <2>2. file' = [file EXCEPT ![f].fd = d]
    BY <2>1 DEF Close
  <2>3. /\ file' \in [Files -> OneFile] /\ \A g \in Files : g # f => file'[g] = file[g]
        /\ file'[f].fd = d /\ file'[f].data = file[f].data /\ file'[f].eof = file[f].eof
    BY <1>1, <2>2, SetFd
  <2>4. QED
    BY <2>1, <2>3
<1>5. \A g \in Files : file'[g].data = file[g].data /\ file'[g].eof = file[g].eof
  BY <1>4
<1>6. /\ Fewer /\ DOMAIN child \subseteq DOMAIN pipe
      /\ \A p \in DOMAIN pipe : p = file[f].fd \/ pipe'[p] = pipe[p]
      /\ \A q \in DOMAIN child : child[q].role = "decompressor" => pipe'[q].writers = pipe[q].writers
      /\ f \in Inputs => \A p \in DOMAIN pipe : pipe'[p].writers = pipe[p].writers
      /\ f = "output" => \A q : Feeds(q)' = Feeds(q)
  BY <1>2, ClosedPipe
<1>7. Paired' /\ Decompressing' /\ Recompressing' /\ \A q \in DOMAIN child : Taken(q)' = Taken(q)
  BY <1>1, <1>2, <1>3, <1>5, <1>6, FewerKeeps
<1>8. \A q : Feeds(q) => q \in DOMAIN child
  BY DEF Feeds, Decompressor, Child
<1>9. Piped'
  <2>1. SameFeeds(f)
    <3> SUFFICES ASSUME NEW g \in Inputs \ {f}, NEW q, q = file[g].fd, Feeds(q)
                 PROVE  file'[g] = file[g] /\ Feeds(q)' /\ Taken(q)' = Taken(q)
      BY <1>3, <1>4 DEF SameFeeds
    <3>1. q \in DOMAIN child /\ q \in DOMAIN pipe /\ Taken(q)' = Taken(q)
      BY <1>6, <1>7, <1>8
    <3>2. CASE f = "output"
      BY <1>3, <1>4, <1>6, <3>1, <3>2
    <3>3. CASE f \in Inputs
      <4>1. q > 0
        BY <1>1, <3>1, Lengths
      <4>2. file[f].fd # q
        BY <1>1, <3>3, <4>1 DEF Piped
      <4>3. pipe'[q] = pipe[q]
        BY <1>6, <3>1, <4>2
      <4>4. Feeds(q)'
        BY <1>2, <4>3 DEF Feeds, Decompressor, Child
      <4>5. QED
        BY <1>3, <1>4, <3>1, <4>4
    <3>4. QED
      BY <1>3, <3>2, <3>3
  <2>2. ~(file'[f].fd > 0)
    BY <1>4, NoPipe, Zenon
  <2>3. QED
    BY <1>1, <2>1, <2>2, PipedKeeps
<1>10. InputTrue'
  <2>1. file'["input"].data = file["input"].data /\ file'["input"].eof = file["input"].eof
    BY <1>3, <1>5
  <2>2. file["input"].fd # 0 => file'["input"].fd # 0 \/ ~Pending(<<"encode">>)'
    BY <1>3, <1>4 DEF SameWork
  <2>3. QED
    BY <1>1, <1>2, <2>1, <2>2, InputKeeps DEF SameWork
<1>11. Forking'
  BY <1>1, <1>2, <1>6, CalmForking DEF Fewer
<1>12. Writes'
  <2>1. CASE f \in Inputs
    <3>1. SameRecompressor
      BY <1>2, <1>6, <2>1 DEF SameRecompressor, Recompressor, Child
    <3>2. file'["output"] = file["output"]
      BY <1>3, <1>4, <2>1
    <3>3. QED
      BY <1>1, <1>2, <3>1, <3>2, WritesKeeps
  <2>2. CASE f = "output"
    <3>1. /\ ~Pending(<<"output">>)' /\ ~Pending(<<"recompress">>)' /\ ~Pending(<<"output_parent">>)'
          /\ ~Pending(<<"decode">>)' /\ ~Unopened' /\ ~Unopened
      BY <2>2 DEF SamePlaces, Unopened
    <3>2. ~(file'["output"].fd > 0)
      BY <1>4, <2>2, NoPipe, Zenon
    <3>3. cmd.op = "DECODE" /\ cmd.tzip => \E q \in DOMAIN child : child[q].role = "recompressor"
      BY <1>1, <3>1 DEF Writes
    <3>4. QED
      BY <1>2, <3>1, <3>2, <3>3 DEF Writes
  <2>3. QED
    BY <1>3, <2>1, <2>2
<1>13. Doing'
  BY <1>1, <1>2, <1>3, <1>5, DoingKeeps DEF SameWork
<1>14. Waiting'
  BY <1>1, <1>2, SameWaiting
<1>15. pipe' \in Seq(Pipes) /\ child' \in Seq(Children) /\ ext_subprocs' \in Seq(Nat)
  BY <1>1, <1>2, <1>6 DEF TypeOK, Fewer
<1>16. QED
  BY <1>1, <1>2, <1>4, <1>7, <1>9, <1>10, <1>11, <1>12, <1>13, <1>14, <1>15, Together

LEMMA CloseFileKeeps ==
  ASSUME RunInv, CloseFile
  PROVE  RunInv'
<1>1. PICK n : n = "close"
  OBVIOUS
<1>2. At(n) /\ n \notin ForkNames /\ n # "copier" /\ Do(<<>>)
  BY <1>1 DEF CloseFile, ForkNames
<1>3. /\ ScriptOK /\ script # <<>> /\ script[1] \in Steps /\ script[1][1] = n /\ Subject = script[1][2]
      /\ ScriptOK' /\ NoForks(script') /\ ~At("read")' /\ Steady({n})
      /\ At("finish")' => \A i \in 1 .. Len(ext_subprocs') : i < Subject' => ext_subprocs'[i] = 0
  BY <1>2, PopParts
<1>4. SamePlaces /\ SameWork /\ (Pending(<<"decode">>)' <=> Pending(<<"decode">>))
  <2>1. /\ n \notin {"output", "recompress", "output_parent"} /\ n \notin {"encode", "open", "compare", "verify"}
        /\ n # "decode"
    BY <1>1
  <2>2. QED
    BY <1>3, <2>1, SteadyOne
<1>5. PICK f \in Files : f = Subject
  BY <1>1, <1>3, StepFields
<1>6. Close(f) /\ UNCHANGED <<cmd, child, ext_subprocs, status>>
  BY <1>5 DEF CloseFile
<1>7. /\ ~Pending(<<"encode">>) /\ ~Pending(<<"decode">>)
      /\ ~Pending(<<"output">>) /\ ~Pending(<<"recompress">>) /\ ~Pending(<<"output_parent">>)
  <2>1. Turn(script[1]) = 7 /\ script[1][1] # "read"
    BY <1>1, <1>3, Turns
  <2>2. \A x \in Steps : x[1] # "read" /\ Turn(x) < 7 => ~Pending(x)
    BY <1>3, <2>1, Passed
  <2>3. PICK a : a = <<"encode">>
    OBVIOUS
  <2>4. PICK b : b = <<"decode">>
    OBVIOUS
  <2>5. PICK c : c = <<"output">>
    OBVIOUS
  <2>6. PICK d : d = <<"recompress">>
    OBVIOUS
  <2>7. PICK e : e = <<"output_parent">>
    OBVIOUS
  <2>8. /\ a \in Steps /\ b \in Steps /\ c \in Steps /\ d \in Steps /\ e \in Steps
        /\ Turn(a) = 6 /\ Turn(b) = 6 /\ Turn(c) = 3 /\ Turn(d) = 4 /\ Turn(e) = 5
    BY <2>3, <2>4, <2>5, <2>6, <2>7, StepsMade, TurnValues
  <2>9. a[1] # "read" /\ b[1] # "read" /\ c[1] # "read" /\ d[1] # "read" /\ e[1] # "read"
    BY <2>3, <2>4, <2>5, <2>6, <2>7
  <2>10. ~Pending(a) /\ ~Pending(b) /\ ~Pending(c) /\ ~Pending(d) /\ ~Pending(e)
    BY <2>2, <2>8, <2>9
  <2>11. QED
    BY <2>3, <2>4, <2>5, <2>6, <2>7, <2>10
<1>8. QED
  BY <1>2, <1>3, <1>4, <1>6, <1>7, CloseKeeps

\* The hash of a file is taken to its end.
LEMMA HashEnds ==
  ASSUME RunInv, At("hash"), Close("hash"), Do(<<>>) \/ Do(<<<<"reap">>>>),
         UNCHANGED <<cmd, child, ext_subprocs, status>>
  PROVE  RunInv'
<1>1. PICK n : n = "hash"
  OBVIOUS
<1>2. At(n) /\ n \notin ForkNames /\ n # "copier"
  BY <1>1 DEF ForkNames
<1>3. ScriptOK /\ script # <<>> /\ script[1] \in Steps /\ script[1][1] = n
  BY <1>2, AtHead, RunParts
<1>4. /\ ScriptOK' /\ NoForks(script') /\ ~At("read")' /\ Steady({"hash", "reap"})
      /\ At("finish")' => \A i \in 1 .. Len(ext_subprocs') : i < Subject' => ext_subprocs'[i] = 0
  <2>1. CASE Do(<<>>)
    <3>1. /\ ScriptOK' /\ NoForks(script') /\ ~At("read")' /\ Steady({n})
          /\ At("finish")' => \A i \in 1 .. Len(ext_subprocs') : i < Subject' => ext_subprocs'[i] = 0
      BY <1>2, <2>1, PopParts
    <3>2. Steady({"hash", "reap"})
      BY <1>1, <3>1 DEF Steady
    <3>3. QED
      BY <3>1, <3>2
  <2>2. CASE Do(<<<<"reap">>>>)
    <3>1. PICK a \in Steps : a = <<"reap">> /\ a[1] = "reap"
      BY StepsMade
    <3>2. Do(<<a>>)
      BY <2>2, <3>1
    <3>3. Turn(a) = 1 /\ Turn(script[1]) = 1
      <4>1. Turn(a) = 1
        BY <3>1, Turns
      <4>2. Turn(script[1]) = 1
        BY <1>1, <1>3, Turns
      <4>3. QED
        BY <4>1, <4>2
    <3>4. a[1] \notin {"pipes", "copier", "parent", "recompress", "output_parent"} /\ script[1][1] # "read"
      BY <1>1, <1>3, <3>1
    <3>5. /\ ScriptOK' /\ script' # <<>> /\ script'[1] = a
          /\ \A x : Among(x, script') <=> x = a \/ Among(x, Tail(script))
          /\ NoForks(script')
      BY <1>2, <1>3, <3>2, <3>3, <3>4, ReplacedByOne
    <3>6. PICK names : names = {"hash", "reap"}
      OBVIOUS
    <3>7. a[1] \in names /\ script[1][1] \in names
      BY <1>1, <1>3, <3>1, <3>6
    <3>8. Steady(names)
      BY <1>3, <3>5, <3>7, ReplacedSteady
    <3>9. \A x : At(x)' => x = a[1]
      BY <3>5, NewHead
    <3>10. ~At("read")' /\ ~At("finish")'
      BY <3>1, <3>9
    <3>11. QED
      BY <3>5, <3>6, <3>8, <3>10
  <2>3. QED
    BY <2>1, <2>2
<1>5. SamePlaces /\ SameWork /\ (Pending(<<"decode">>)' <=> Pending(<<"decode">>))
  <2>1. PICK names : names = {"hash", "reap"}
    OBVIOUS
  <2>2. /\ names \cap {"output", "recompress", "output_parent"} = {} /\ names \cap {"encode", "open", "compare", "verify"} = {}
        /\ "decode" \notin names
    BY <2>1
  <2>3. Steady(names)
    BY <1>4, <2>1
  <2>4. QED
    BY <2>2, <2>3, SteadyPlaces
<1>6. PICK f \in Files : f = "hash"
  BY DEF Files
<1>7. Close(f) /\ f # "input" /\ f # "output"
  BY <1>6
<1>8. QED
  BY <1>2, <1>4, <1>5, <1>7, CloseKeeps

LEMMA HashKeeps ==
  ASSUME RunInv, Hash
  PROVE  RunInv'
<1>1. CASE /\ ~file["hash"].eof /\ file["hash"].fd # 0
           /\ script' = <<<<"read", "hash", WindowSize>>>> \o script
           /\ UNCHANGED <<cmd, file, pipe, child, ext_subprocs, status>>
  <2>1. PICK f \in Inputs : f = "hash"
    BY DEF Inputs
  <2>2. PICK n \in {"encode", "decode", "hash"} : n = "hash"
    OBVIOUS
  <2>3. At(n) /\ file[f].fd # 0 /\ f # "input" /\ script' = <<<<"read", f, WindowSize>>>> \o script
    BY <1>1, <2>1, <2>2 DEF Hash
  <2>4. QED
    BY <1>1, <2>3, PushRead
<1>2. CASE /\ file["hash"].eof /\ file["hash"].fd # 0
           /\ Close("hash")
           /\ script' = (IF file["hash"].fd > 0 THEN <<<<"reap">>>> ELSE <<>>) \o Tail(script)
           /\ UNCHANGED <<cmd, child, ext_subprocs, status>>
  <2>1. At("hash")
    BY DEF Hash
  <2>2. Do(<<>>) \/ Do(<<<<"reap">>>>)
    BY <1>2 DEF Do
  <2>3. QED
    BY <1>2, <2>1, <2>2, HashEnds
<1>3. QED
  BY <1>1, <1>2 DEF Hash

-----------------------------------------------------------------------------
(* The forks *)

\* A child holds what main holds.
Held(new, old) ==
  /\ new.units = old.units
  /\ (0 \in new.readers <=> 0 \in old.readers) /\ old.readers \subseteq new.readers
  /\ (old.readers = {} => new.readers = {})
  /\ (0 \in new.writers <=> 0 \in old.writers) /\ old.writers \subseteq new.writers
  /\ (old.writers = {} => new.writers = {})

Heir(r, pid) == [r EXCEPT !.readers = @ \cup (IF 0 \in @ THEN {pid} ELSE {}),
                          !.writers = @ \cup (IF 0 \in @ THEN {pid} ELSE {})]

LEMMA PipeRecord ==
  ASSUME NEW u \in Seq(Int), NEW a \in SUBSET Nat, NEW b \in SUBSET Nat
  PROVE  LET t == [units |-> u, readers |-> a, writers |-> b]
         IN  t \in Pipes /\ t.units = u /\ t.readers = a /\ t.writers = b
  BY DEF Pipes

LEMMA InheritOne ==
  ASSUME NEW r \in Pipes, NEW pid \in Nat \ {0}, NEW t, t = Heir(r, pid)
  PROVE  t \in Pipes /\ Held(t, r) /\ (0 \in r.writers => pid \in t.writers)
<1>1. r = [units |-> r.units, readers |-> r.readers, writers |-> r.writers]
      /\ r.units \in Seq(Int) /\ r.readers \subseteq Nat /\ r.writers \subseteq Nat
  BY DEF Pipes
<1>2. PICK a : a = r.readers \cup (IF 0 \in r.readers THEN {pid} ELSE {})
  OBVIOUS
<1>3. PICK b : b = r.writers \cup (IF 0 \in r.writers THEN {pid} ELSE {})
  OBVIOUS
<1>4. t = [units |-> r.units, readers |-> a, writers |-> b]
  BY <1>1, <1>2, <1>3 DEF Heir
<1>5. /\ a \subseteq Nat /\ (0 \in a <=> 0 \in r.readers) /\ r.readers \subseteq a /\ (r.readers = {} => a = {})
  BY <1>1, <1>2
<1>6. /\ b \subseteq Nat /\ (0 \in b <=> 0 \in r.writers) /\ r.writers \subseteq b /\ (r.writers = {} => b = {})
      /\ (0 \in r.writers => pid \in b)
  BY <1>1, <1>3
<1>7. t \in Pipes /\ t.units = r.units /\ t.readers = a /\ t.writers = b
  <2>1. PICK u \in Seq(Int) : u = r.units
    BY <1>1
  <2>2. PICK x \in SUBSET Nat : x = a
    BY <1>5
  <2>3. PICK y \in SUBSET Nat : y = b
    BY <1>6
  <2>4. t = [units |-> u, readers |-> x, writers |-> y]
    BY <1>4, <2>1, <2>2, <2>3
  <2>5. t \in Pipes /\ t.units = u /\ t.readers = x /\ t.writers = y
    BY <2>4, PipeRecord
  <2>6. QED
    BY <2>1, <2>2, <2>3, <2>5
<1>8. QED
  BY <1>5, <1>6, <1>7 DEF Held

LEMMA InheritPipes ==
  ASSUME NEW ps \in Seq(Pipes), NEW pid \in Nat \ {0}, NEW t, t = Inherit(ps, pid)
  PROVE  /\ t \in Seq(Pipes) /\ Len(t) = Len(ps) /\ DOMAIN t = DOMAIN ps
         /\ \A p \in DOMAIN ps : Held(t[p], ps[p]) /\ (0 \in ps[p].writers => pid \in t[p].writers)
<1>1. DOMAIN t = DOMAIN ps /\ t = [p \in DOMAIN ps |-> t[p]]
  BY DEF Inherit
<1>2. \A p \in DOMAIN ps : t[p] \in Pipes /\ Held(t[p], ps[p]) /\ (0 \in ps[p].writers => pid \in t[p].writers)
  <2> TAKE p \in DOMAIN ps
  <2>1. PICK r \in Pipes : r = ps[p]
    OBVIOUS
  <2>2. PICK u : u = t[p]
    OBVIOUS
  <2>3. u = Heir(r, pid)
    BY <2>1, <2>2 DEF Inherit, Heir
  <2>4. u \in Pipes /\ Held(u, r) /\ (0 \in r.writers => pid \in u.writers)
    BY <2>3, InheritOne
  <2>5. QED
    BY <2>1, <2>2, <2>4
<1>3. t \in Seq(Pipes) /\ Len(t) = Len(ps)
  BY <1>1, <1>2, MapElements
<1>4. QED
  BY <1>1, <1>2, <1>3

LEMMA NewPipes ==
  ASSUME NEW ps \in Seq(Pipes)
  PROVE  /\ NewPipe \in Pipes /\ NewPipe.units = <<>> /\ 0 \in NewPipe.readers /\ 0 \in NewPipe.writers /\ Len(<<>>) = 0
         /\ LET t == Append(ps, NewPipe)
            IN  /\ t \in Seq(Pipes) /\ Len(t) = Len(ps) + 1 /\ DOMAIN ps \subseteq DOMAIN t
                /\ t[Len(ps) + 1] = NewPipe /\ \A p \in DOMAIN ps : t[p] = ps[p]
         /\ LET t == ps \o <<NewPipe, NewPipe>>
            IN  /\ t \in Seq(Pipes) /\ Len(t) = Len(ps) + 2 /\ DOMAIN ps \subseteq DOMAIN t
                /\ t[Len(ps) + 1] = NewPipe /\ \A p \in DOMAIN ps : t[p] = ps[p]
<1>1. NewPipe \in Pipes /\ NewPipe.units = <<>> /\ 0 \in NewPipe.readers /\ 0 \in NewPipe.writers /\ Len(<<>>) = 0
  BY DEF NewPipe, Pipes
<1>2. PICK n \in Pipes : n = NewPipe
  BY <1>1
<1>3. LET t == Append(ps, n)
      IN  /\ t \in Seq(Pipes) /\ Len(t) = Len(ps) + 1 /\ DOMAIN ps \subseteq DOMAIN t
          /\ t[Len(ps) + 1] = n /\ \A p \in DOMAIN ps : t[p] = ps[p]
  OBVIOUS
<1>4. LET t == ps \o <<n, n>>
      IN  /\ t \in Seq(Pipes) /\ Len(t) = Len(ps) + 2 /\ DOMAIN ps \subseteq DOMAIN t
          /\ t[Len(ps) + 1] = n /\ \A p \in DOMAIN ps : t[p] = ps[p]
  OBVIOUS
<1>5. QED
  BY <1>1, <1>2, <1>3, <1>4

\* A child that was forked and has not run.
Fresh(c, role, i, o, b) ==
  /\ c \in Children /\ c.role = role /\ c.in = i /\ c.out = o /\ c.blk = b /\ c.buf = b /\ c.pos = Len(b)
  /\ c.at = "forked" /\ c.exit = ""

LEMMA StartedChild ==
  ASSUME NEW role \in {"decompressor", "copier", "recompressor"}, NEW i \in Nat, NEW o \in Nat, NEW b \in Seq(Int)
  PROVE  Fresh(Started(role, i, o, b), role, i, o, b)
<1>1. Len(b) \in Nat /\ 0 \in Nat /\ FALSE \in BOOLEAN
  OBVIOUS
<1>2. QED
  BY <1>1 DEF Fresh, Started, Children

\* What a fork leaves as it was, whoever is started.
Grown(c) ==
  /\ pipe' \in Seq(Pipes) /\ DOMAIN pipe \subseteq DOMAIN pipe' /\ \A p \in DOMAIN pipe : Held(pipe'[p], pipe[p])
  /\ child' = Append(child, c) /\ c \in Children /\ c.at = "forked" /\ c.exit = ""
  /\ ext_subprocs' = Append(ext_subprocs, Pid)
  /\ cmd' = cmd /\ file' = file /\ status' = status

LEMMA ForkParts ==
  ASSUME RunInv, NEW n \in {"pipes", "copier", "recompress"}, At(n), Do(<<>>), NEW c, Grown(c)
  PROVE  /\ ScriptOK' /\ Steady({n}) /\ SameWork /\ (Pending(<<"decode">>)' <=> Pending(<<"decode">>))
         /\ script' = Tail(script) /\ script # <<>> /\ script[1] \in Steps /\ script[1][1] = n
         /\ DOMAIN child = 1 .. Len(child) /\ DOMAIN child' = 1 .. Len(child) + 1 /\ Len(child') = Len(child) + 1
         /\ Pid = Len(child) + 1 /\ Len(child) \in Nat /\ Pid \in Nat \ {0} /\ Pid \notin DOMAIN child
         /\ DOMAIN child \subseteq DOMAIN pipe /\ child' \in Seq(Children)
         /\ child'[Pid] = c /\ \A q \in DOMAIN child : child'[q] = child[q]
         /\ \A q \in DOMAIN child : /\ Taken(q)' = Taken(q) /\ (Making(q) => Making(q)') /\ (Gathering(q) => Gathering(q)')
                                    /\ (Feeds(q) => Feeds(q)')
         /\ Waiting' /\ Piped' /\ Doing' /\ ext_subprocs' \in Seq(Nat) /\ pipe' \in Seq(Pipes)
         /\ ~At("read")' => InputTrue'
<1>1. /\ TypeOK /\ ScriptOK /\ Paired /\ Waiting /\ Piped /\ InputTrue
      /\ Forking /\ Writes /\ Doing /\ ext_subprocs \in Seq(Nat)
  BY RunParts
<1>2. script # <<>> /\ script[1] \in Steps /\ script[1][1] = n
  BY <1>1, AtHead
<1>3. /\ ScriptOK' /\ script' = Tail(script)
  BY <1>1, <1>2, Popped
<1>4. Steady({n})
  BY <1>1, <1>2, PoppedSteady
<1>5. SameWork /\ (Pending(<<"decode">>)' <=> Pending(<<"decode">>))
  <2>1. n \notin {"encode", "open", "compare", "verify"} /\ n # "decode"
    OBVIOUS
  <2>2. QED
    BY <1>4, <2>1, SteadyOne
<1>6. /\ DOMAIN child = 1 .. Len(child) /\ Len(child) \in Nat /\ DOMAIN child \subseteq DOMAIN pipe
  BY <1>1, Lengths DEF Paired
<1>7. child \in Seq(Children) /\ c \in Children /\ child' = Append(child, c)
  BY <1>1 DEF TypeOK, Grown
<1>8. /\ child' \in Seq(Children) /\ Len(child') = Len(child) + 1 /\ DOMAIN child' = 1 .. Len(child) + 1
      /\ \A i \in 1 .. Len(child) : child'[i] = child[i]
      /\ child'[Len(child) + 1] = c
  BY <1>7, AppendElement
<1>9. Pid = Len(child) + 1
  BY DEF Pid
<1>10. Pid \in Nat \ {0} /\ Pid \notin DOMAIN child
  BY <1>6, <1>9
<1>11. \A q \in DOMAIN child : child'[q] = child[q] /\ q \in DOMAIN child' /\ Held(pipe'[q], pipe[q])
  <2>1. \A q \in DOMAIN child : child'[q] = child[q] /\ q \in DOMAIN child'
    BY <1>6, <1>8
  <2>2. \A q \in DOMAIN pipe : Held(pipe'[q], pipe[q])
    BY DEF Grown
  <2>3. QED
    BY <1>6, <2>1, <2>2
<1>12. file' = file /\ cmd' = cmd
  BY DEF Grown
<1>13. \A q \in DOMAIN child : /\ Taken(q)' = Taken(q) /\ (Making(q) => Making(q)') /\ (Gathering(q) => Gathering(q)')
                               /\ (Feeds(q) => Feeds(q)')
  <2> TAKE q \in DOMAIN child
  <2>1. /\ child'[q] = child[q] /\ pipe'[q].units = pipe[q].units
        /\ (0 \in pipe'[q].readers <=> 0 \in pipe[q].readers) /\ (pipe[q].readers = {} => pipe'[q].readers = {})
        /\ pipe[q].writers \subseteq pipe'[q].writers /\ (pipe[q].writers = {} => pipe'[q].writers = {})
    BY <1>11 DEF Held
  <2>2. Taken(q)' = Taken(q)
    BY <2>1 DEF Taken
  <2>3. Making(q) => Making(q)'
    BY <2>1, <2>2 DEF Making
  <2>4. Gathering(q) => Gathering(q)'
    BY <1>12, <2>1 DEF Gathering
  <2>5. Feeds(q) => Feeds(q)'
    BY <1>11, <2>1 DEF Feeds, Decompressor, Child
  <2>6. QED
    BY <2>2, <2>3, <2>4, <2>5
<1>14. ext_subprocs' \in Seq(Nat) /\ Len(ext_subprocs') = Len(ext_subprocs) + 1 /\ Len(ext_subprocs) \in Nat
       /\ (\A i \in 1 .. Len(ext_subprocs) : ext_subprocs'[i] = ext_subprocs[i])
       /\ ext_subprocs'[Len(ext_subprocs) + 1] = Pid
  <2>1. ext_subprocs' = Append(ext_subprocs, Pid) /\ Pid \in Nat
    BY <1>10 DEF Grown
  <2>2. PICK x \in Nat : x = Pid
    BY <2>1
  <2>3. QED
    BY <1>1, <2>1, <2>2, AppendElement
<1>15. Waiting'
  <2> SUFFICES ASSUME NEW q \in DOMAIN child'
               PROVE  child'[q].exit \in {"0", "SIGPIPE"} \/ \E i \in 1 .. Len(ext_subprocs') : ext_subprocs'[i] = q
    BY DEF Waiting
  <2>1. CASE q \in DOMAIN child
    <3>1. child[q].exit \in {"0", "SIGPIPE"} \/ \E i \in 1 .. Len(ext_subprocs) : ext_subprocs[i] = q
      BY <1>1, <2>1 DEF Waiting
    <3>2. \A i \in 1 .. Len(ext_subprocs) : i \in 1 .. Len(ext_subprocs')
      BY <1>14
    <3>3. QED
      BY <1>11, <1>14, <2>1, <3>1, <3>2
  <2>2. CASE q \notin DOMAIN child
    <3>1. q = Pid
      BY <1>6, <1>8, <1>9, <2>2
    <3>2. Len(ext_subprocs) + 1 \in 1 .. Len(ext_subprocs')
      BY <1>14
    <3>3. QED
      BY <1>14, <3>1, <3>2
  <2>3. QED
    BY <2>1, <2>2
<1>16. Piped'
  <2>1. \A q : Feeds(q) => q \in DOMAIN child
    BY DEF Feeds, Decompressor, Child
  <2>2. SameFeeds("output")
    BY <1>12, <1>13, <2>1 DEF SameFeeds
  <2>3. "output" \notin Inputs
    BY DEF Inputs
  <2>4. QED
    BY <1>1, <2>2, <2>3, PipedKeeps
<1>17. At("finish")' => \A i \in 1 .. Len(ext_subprocs') : i < Subject' => ext_subprocs'[i] = 0
  BY <1>1, <1>2, FreshFinish
<1>18. Doing'
  BY <1>1, <1>5, <1>12, <1>17, DoingKeeps DEF SameWork
<1>19. ~At("read")' => InputTrue'
  BY <1>1, <1>5, <1>11, <1>12, InputKeeps DEF SameWork
<1>20. pipe' \in Seq(Pipes)
  BY DEF Grown
<1>21. QED
  BY <1>2, <1>3, <1>4, <1>5, <1>6, <1>8, <1>9, <1>10, <1>11, <1>13, <1>14, <1>15, <1>16, <1>18, <1>19, <1>20

\* The new child and its pipe.
LEMMA FreshPair ==
  ASSUME NEW q, child'[q].pos = Len(child'[q].buf), pipe'[q].units = <<>>
  PROVE  Len(child'[q].buf) \in Nat => Taken(q)' = 0
<1>1. Len(<<>>) = 0
  OBVIOUS
<1>2. Len(child'[q].buf) \in Nat => Taken(q)' = Len(child'[q].buf) - Len(child'[q].buf) - 0
  BY <1>1 DEF Taken
<1>3. QED
  BY <1>2

\* What makes the new child one of them.
Joins(c, pid) ==
  /\ pid \in DOMAIN pipe'
  /\ Decompressor(Len(child)) => c.role = "copier"
  /\ c.role = "decompressor" => c.out = pid /\ c.in = pid + 1 /\ pid + 1 \in DOMAIN pipe' /\ Making(pid)'
  /\ c.role = "copier" => c.out = pid /\ Decompressor(pid - 1)
  /\ c.role = "recompressor" =>
       /\ c.in = pid /\ cmd.tzip /\ Gathering(pid)'
       /\ \A q \in DOMAIN child : child[q].role # "recompressor"

LEMMA ForkChildren ==
  ASSUME RunInv, NEW n \in {"pipes", "copier", "recompress"}, At(n), Do(<<>>), NEW c, Grown(c),
         NEW pid, pid = Pid, Joins(c, pid)
  PROVE  Paired' /\ Decompressing' /\ Recompressing'
<1>1. /\ DOMAIN child = 1 .. Len(child) /\ DOMAIN child' = 1 .. Len(child) + 1 /\ Len(child') = Len(child) + 1
      /\ Pid = Len(child) + 1 /\ Len(child) \in Nat /\ DOMAIN child \subseteq DOMAIN pipe
      /\ child'[Pid] = c /\ \A q \in DOMAIN child : child'[q] = child[q]
      /\ \A q \in DOMAIN child : /\ Taken(q)' = Taken(q) /\ (Making(q) => Making(q)') /\ (Gathering(q) => Gathering(q)')
                                 /\ (Feeds(q) => Feeds(q)')
      /\ pipe' \in Seq(Pipes)
  BY ForkParts
<1>2. Paired /\ Decompressing /\ Recompressing
  BY RunParts
<1>3. c.at = "forked" /\ c.exit = "" /\ DOMAIN pipe \subseteq DOMAIN pipe' /\ cmd' = cmd
  BY DEF Grown
<1>4. \A q \in DOMAIN child' : q \in DOMAIN child \/ q = pid
  BY <1>1
<1>5. pid \in DOMAIN child' /\ pid \notin DOMAIN child /\ child'[pid] = c /\ DOMAIN child \subseteq DOMAIN child'
      /\ pid \in Nat /\ pid + 1 \notin DOMAIN child'
  BY <1>1
<1>6. Len(child') <= Len(pipe')
  <2>1. Len(pipe') \in Nat /\ DOMAIN pipe' = 1 .. Len(pipe')
    BY <1>1
  <2>2. pid \in 1 .. Len(pipe')
    BY <2>1 DEF Joins
  <2>3. QED
    BY <1>1, <2>1, <2>2
<1>7. \A q : Decompressor(q) => Decompressor(q)'
  BY <1>1, <1>5 DEF Decompressor, Child
<1>8. Paired'
  <2>1. ASSUME NEW q \in DOMAIN child
        PROVE  /\ child'[q].role = "decompressor" =>
                    /\ child'[q].out = q /\ child'[q].in = q + 1 /\ q + 1 \in DOMAIN pipe'
                    /\ q + 1 \in DOMAIN child' => child'[q + 1].role = "copier"
               /\ child'[q].role = "copier" => child'[q].out = q /\ Decompressor(q - 1)'
               /\ child'[q].role = "recompressor" => child'[q].in = q
               /\ child'[q].at = "exited" <=> child'[q].exit # ""
    <3>1. child'[q] = child[q]
      BY <1>1
    <3>2. /\ child[q].role = "decompressor" =>
               /\ child[q].out = q /\ child[q].in = q + 1 /\ q + 1 \in DOMAIN pipe
               /\ q + 1 \in DOMAIN child => child[q + 1].role = "copier"
          /\ child[q].role = "copier" => child[q].out = q /\ Decompressor(q - 1)
          /\ child[q].role = "recompressor" => child[q].in = q
          /\ child[q].at = "exited" <=> child[q].exit # ""
      BY <1>2 DEF Paired, Child
    <3>3. ASSUME child[q].role = "decompressor", q + 1 \in DOMAIN child' PROVE child'[q + 1].role = "copier"
      <4>1. CASE q + 1 \in DOMAIN child
        BY <1>1, <3>2, <3>3, <4>1
      <4>2. CASE q + 1 \notin DOMAIN child
        <5>1. q + 1 = pid
          BY <1>4, <3>3, <4>2
        <5>2. q = Len(child)
          BY <1>1, <5>1
        <5>3. Decompressor(Len(child))
          BY <3>3, <5>2 DEF Decompressor, Child
        <5>4. QED
          BY <1>5, <5>1, <5>3 DEF Joins
      <4>3. QED
        BY <4>1, <4>2
    <3>4. QED
      BY <1>3, <1>7, <3>1, <3>2, <3>3
  <2>2. /\ c.role = "decompressor" =>
             /\ c.out = pid /\ c.in = pid + 1 /\ pid + 1 \in DOMAIN pipe'
             /\ pid + 1 \in DOMAIN child' => child'[pid + 1].role = "copier"
        /\ c.role = "copier" => c.out = pid /\ Decompressor(pid - 1)'
        /\ c.role = "recompressor" => c.in = pid
        /\ c.at = "exited" <=> c.exit # ""
    BY <1>3, <1>5, <1>7 DEF Joins
  <2>3. ASSUME NEW q \in DOMAIN child'
        PROVE  /\ child'[q].role = "decompressor" =>
                    /\ child'[q].out = q /\ child'[q].in = q + 1 /\ q + 1 \in DOMAIN pipe'
                    /\ q + 1 \in DOMAIN child' => child'[q + 1].role = "copier"
               /\ child'[q].role = "copier" => child'[q].out = q /\ Decompressor(q - 1)'
               /\ child'[q].role = "recompressor" => child'[q].in = q
               /\ child'[q].at = "exited" <=> child'[q].exit # ""
    BY <1>4, <1>5, <2>1, <2>2
  <2>4. QED
    BY <1>6, <2>3 DEF Paired, Child
<1>9. Decompressing'
  <2> SUFFICES ASSUME NEW q \in DOMAIN child', child'[q].role = "decompressor" PROVE Making(q)'
    BY DEF Decompressing
  <2>1. CASE q \in DOMAIN child
    <3>1. Making(q)
      BY <1>1, <1>2, <2>1 DEF Decompressing
    <3>2. QED
      BY <1>1, <2>1, <3>1
  <2>2. CASE q = pid
    <3>1. c.role = "decompressor"
      BY <1>5, <2>2
    <3>2. QED
      BY <2>2, <3>1 DEF Joins
  <2>3. QED
    BY <1>4, <2>1, <2>2
<1>10. Recompressing'
  <2> SUFFICES ASSUME NEW q \in DOMAIN child', child'[q].role = "recompressor"
               PROVE  /\ cmd.tzip /\ Gathering(q)'
                      /\ \A other \in DOMAIN child' : child'[other].role = "recompressor" => other = q
    BY <1>3 DEF Recompressing
  <2>1. CASE c.role = "recompressor"
    <3>1. \A other \in DOMAIN child' : child'[other].role = "recompressor" => other = pid
      BY <1>1, <1>4, <2>1 DEF Joins
    <3>2. QED
      BY <2>1, <3>1 DEF Joins
  <2>2. CASE c.role # "recompressor"
    <3>1. q \in DOMAIN child /\ \A other \in DOMAIN child' : child'[other].role = "recompressor" => other \in DOMAIN child
      BY <1>4, <1>5, <2>2
    <3>2. child[q].role = "recompressor" /\ cmd.tzip /\ Gathering(q)
      BY <1>1, <1>2, <3>1 DEF Recompressing
    <3>3. \A other \in DOMAIN child : child[other].role = "recompressor" => other = q
      BY <1>2, <3>1, <3>2 DEF Recompressing
    <3>4. QED
      BY <1>1, <3>1, <3>2, <3>3
  <2>3. QED
    BY <2>1, <2>2
<1>11. QED
  BY <1>8, <1>9, <1>10

LEMMA ForkKeeps ==
  ASSUME RunInv, NEW n \in {"pipes", "copier", "recompress"}, At(n), Do(<<>>), NEW c, Grown(c),
         NEW pid, pid = Pid, Joins(c, pid), Forking', Writes', ~At("read")'
  PROVE  RunInv'
<1>1. TypeOK /\ cmd' = cmd /\ file' \in [Files -> OneFile]
  <2>1. TypeOK /\ cmd' = cmd /\ file' = file
    BY RunParts DEF Grown
  <2>2. QED
    BY <2>1 DEF TypeOK, OneFile
<1>2. ScriptOK' /\ child' \in Seq(Children) /\ Waiting' /\ Piped' /\ Doing' /\ ext_subprocs' \in Seq(Nat)
      /\ pipe' \in Seq(Pipes) /\ InputTrue'
  BY ForkParts
<1>3. Paired' /\ Decompressing' /\ Recompressing'
  BY ForkChildren
<1>4. QED
  BY <1>1, <1>2, <1>3, Together

\* No descriptor has the number of a child that is not there.
LEMMA UnusedNumber ==
  ASSUME RunInv, NEW q, q \notin DOMAIN child, q > 0
  PROVE  \A f \in Files : file[f].fd # q
<1>1. Piped /\ Writes
  BY RunParts
<1>2. \A f \in Inputs : file[f].fd # q
  BY <1>1 DEF Piped, Feeds, Decompressor, Child
<1>3. file["output"].fd # q
  BY <1>1 DEF Writes, Recompressor, Child
<1>4. QED
  BY <1>2, <1>3 DEF Files, Inputs

LEMMA NoUnits == <<>> \in Seq(Int)
  OBVIOUS

LEMMA ZeroFacts == 0 >= 0 /\ 0 <= 1 /\ \A i : i \notin 1 .. 0
  OBVIOUS

LEMMA FreshMaking ==
  ASSUME NEW q, Taken(q)' = 0, Len(child'[q].buf) = 0, Len(pipe'[q].units) = 0, child'[q].exit = "",
         q \in pipe'[q].writers
  PROVE  Making(q)'
<1>5. 0 >= 0 /\ 0 <= 1 /\ \A i : i \notin 1 .. 0
  BY ZeroFacts
<1>1. Taken(q)' >= 0 /\ Len(child'[q].buf) <= 1
  BY <1>5, Zenon
<1>2. \A i : i \notin 1 .. Len(child'[q].buf) /\ i \notin 1 .. Len(pipe'[q].units)
  BY <1>5, Zenon
<1>3. child'[q].exit # "0" /\ child'[q].exit # "SIGPIPE"
  OBVIOUS
<1>4. QED
  BY <1>1, <1>2, <1>3, Zenon DEF Making

\* What comes after a step of a fork.
LEMMA NextSteps ==
  ASSUME RunInv, NEW n, At(n), Do(<<>>)
  PROVE  /\ Len(script') \in Nat /\ \A i \in 1 .. Len(script') : i + 1 \in 1 .. Len(script) /\ script'[i] = script[i + 1]
         /\ \A x : Then(x) => script' # <<>> /\ script'[1] = x
         /\ script' # <<>> => script'[1][1] \notin {"pipes", "recompress"}
         /\ script' # <<>> /\ script'[1][1] = "copier" => script[1] = <<"pipes", script'[1][2]>>
         /\ script' # <<>> /\ script'[1][1] = "parent" => script[1] = <<"copier", script'[1][2]>>
         /\ script' # <<>> /\ script'[1][1] = "read" => script[1] = <<"parent", script'[1][2]>>
         /\ script' # <<>> /\ script'[1][1] = "output_parent" => script[1] = <<"recompress">>
         /\ Forking => \A i \in 1 .. Len(script') :
              script'[i][1] \in {"pipes", "copier", "parent"} => file[script'[i][2]] = Opened
<1>1. ScriptOK
  BY RunParts
<1>2. script # <<>> /\ script \in Seq(Steps)
  BY <1>1, AtHead
<1>3. script' = Tail(script)
  BY <1>1, <1>2, Popped
<1>4. /\ Len(script') \in Nat /\ Len(script') = Len(script) - 1 /\ Len(script) \in Nat
      /\ \A i \in 1 .. Len(script') : i + 1 \in 1 .. Len(script) /\ script'[i] = script[i + 1]
      /\ script' \in Seq(Steps)
  BY <1>2, <1>3
<1>5. \A x : Then(x) => script' # <<>> /\ script'[1] = x
  <2> TAKE x
  <2> HAVE Then(x)
  <2>1. Len(script) > 1 /\ script[2] = x
    BY DEF Then
  <2>2. 1 \in 1 .. Len(script') /\ Len(script') # 0
    BY <1>4, <2>1
  <2>3. script'[1] = script[2]
    BY <1>4, <2>2
  <2>4. script' # <<>>
    BY <2>2
  <2>5. QED
    BY <2>1, <2>3, <2>4
<1>6. script' # <<>> =>
              /\ script'[1][1] \notin {"pipes", "recompress"}
              /\ script'[1][1] = "copier" => script[1] = <<"pipes", script'[1][2]>>
              /\ script'[1][1] = "parent" => script[1] = <<"copier", script'[1][2]>>
              /\ script'[1][1] = "read" => script[1] = <<"parent", script'[1][2]>>
              /\ script'[1][1] = "output_parent" => script[1] = <<"recompress">>
  BY <1>1, <1>2, <1>3, TailKeeps DEF ScriptOK
<1>7. Forking => \A i \in 1 .. Len(script') :
         script'[i][1] \in {"pipes", "copier", "parent"} => file[script'[i][2]] = Opened
  <2> SUFFICES ASSUME Forking, NEW i \in 1 .. Len(script'), script'[i][1] \in {"pipes", "copier", "parent"}
               PROVE  file[script'[i][2]] = Opened
    OBVIOUS
  <2>1. PICK j \in 1 .. Len(script) : script'[i] = script[j]
    BY <1>4
  <2>2. QED
    BY <2>1 DEF Forking
<1>8. QED
  BY <1>4, <1>5, <1>6, <1>7

\* The two pipes of a decompressor, and the decompressor.
LEMMA ForkDecompressorKeeps ==
  ASSUME RunInv, ForkDecompressor
  PROVE  RunInv'
<1>1. PICK n \in {"pipes", "copier", "recompress"} : n = "pipes"
  OBVIOUS
<1>2. At(n) /\ Do(<<>>) /\ cmd' = cmd /\ file' = file /\ status' = status
  BY <1>1 DEF ForkDecompressor
<1>3. /\ TypeOK /\ ScriptOK /\ Paired /\ Writes /\ Forking
  BY RunParts
<1>4. PICK ps : ps = pipe \o <<NewPipe, NewPipe>>
  OBVIOUS
<1>5. pipe \in Seq(Pipes) /\ Len(child) \in Nat /\ Pid = Len(child) + 1
  BY <1>3, Lengths DEF TypeOK, Pid
<1>6. /\ ps \in Seq(Pipes) /\ Len(ps) = Len(pipe) + 2 /\ DOMAIN pipe \subseteq DOMAIN ps
      /\ ps[Len(pipe) + 1] = NewPipe /\ \A p \in DOMAIN pipe : ps[p] = pipe[p]
      /\ NewPipe.units = <<>> /\ 0 \in NewPipe.readers /\ 0 \in NewPipe.writers
  BY <1>4, <1>5, NewPipes
<1>7. PICK pid \in Nat \ {0} : pid = Pid
  BY <1>5
<1>8. pipe' = Inherit(ps, pid)
  BY <1>4, <1>7 DEF ForkDecompressor
<1>9. /\ pipe' \in Seq(Pipes) /\ Len(pipe') = Len(ps) /\ DOMAIN pipe' = DOMAIN ps
      /\ \A p \in DOMAIN ps : Held(pipe'[p], ps[p]) /\ (0 \in ps[p].writers => pid \in pipe'[p].writers)
  BY <1>6, <1>8, InheritPipes
<1>10. Len(pipe) = Len(child) /\ ~Decompressor(Len(child)) /\ Then(<<"copier", Subject>>)
  <2>1. ~At("copier") /\ At("pipes")
    BY <1>1, <1>2, <1>3, AtHead
  <2>2. QED
    BY <1>3, <2>1 DEF Forking
<1>11. pid = Len(pipe) + 1 /\ pid \in DOMAIN ps /\ pid + 1 \in DOMAIN ps /\ ps[pid] = NewPipe
  BY <1>5, <1>6, <1>7, <1>10
<1>32. PICK i \in Nat : i = pid + 1
  OBVIOUS
<1>33. PICK o \in Nat : o = pid
  OBVIOUS
<1>12. PICK b \in Seq(Int) : b = <<>>
  BY NoUnits
<1>13. PICK c : c = Started("decompressor", i, o, b)
  OBVIOUS
<1>34. Fresh(c, "decompressor", i, o, b)
  <2>1. PICK role \in {"decompressor", "copier", "recompressor"} : role = "decompressor"
    OBVIOUS
  <2>2. Fresh(Started(role, i, o, b), role, i, o, b)
    BY StartedChild
  <2>3. QED
    BY <1>13, <2>1, <2>2
<1>14. c \in Children /\ c.role = "decompressor" /\ c.in = i /\ c.out = o /\ c.buf = b /\ c.pos = Len(b)
       /\ c.at = "forked" /\ c.exit = ""
  BY <1>34 DEF Fresh
<1>15. Len(b) = 0
  BY <1>12
<1>16. child' = Append(child, c) /\ ext_subprocs' = Append(ext_subprocs, Pid)
  <2>1. child' = Append(child, Started("decompressor", Len(pipe) + 2, Len(pipe) + 1, <<>>))
    BY DEF ForkDecompressor
  <2>2. Len(pipe) + 2 = i /\ Len(pipe) + 1 = o /\ <<>> = b
    BY <1>5, <1>10, <1>11, <1>12, <1>32, <1>33
  <2>3. QED
    BY <1>13, <2>1, <2>2 DEF ForkDecompressor
<1>17. Grown(c)
  <2>1. \A p \in DOMAIN pipe : Held(pipe'[p], pipe[p])
    BY <1>6, <1>9
  <2>2. QED
    BY <1>2, <1>6, <1>9, <1>14, <1>16, <2>1 DEF Grown
<1>18. /\ ScriptOK' /\ Steady({n}) /\ script[1][1] = n /\ script # <<>>
       /\ Len(child') = Len(child) + 1 /\ Pid \notin DOMAIN child /\ child'[Pid] = c
       /\ DOMAIN child' = 1 .. Len(child) + 1 /\ DOMAIN child = 1 .. Len(child) /\ DOMAIN child \subseteq DOMAIN pipe
       /\ \A q \in DOMAIN child : child'[q] = child[q]
       /\ (Pending(<<"decode">>)' <=> Pending(<<"decode">>))
  BY <1>2, <1>17, ForkParts
<1>19. /\ child'[pid] = c /\ Held(pipe'[pid], NewPipe) /\ pid \in pipe'[pid].writers
  BY <1>6, <1>7, <1>9, <1>11, <1>18
<1>20. pipe'[pid].units = <<>> /\ 0 \in pipe'[pid].readers
  BY <1>6, <1>19 DEF Held
<1>21. Taken(pid)' = 0
  <2>1. c.pos = Len(c.buf) /\ Len(c.buf) \in Nat
    <3>1. c.pos = Len(b) /\ c.buf = b
      BY <1>14
    <3>2. Len(b) \in Nat
      BY <1>15
    <3>3. QED
      BY <3>1, <3>2
  <2>2. child'[pid].pos = Len(child'[pid].buf) /\ Len(child'[pid].buf) \in Nat
    BY <1>19, <2>1
  <2>3. QED
    BY <1>20, <2>2, FreshPair
<1>22. Making(pid)'
  <2>1. c.buf = b /\ c.exit = ""
    BY <1>14
  <2>2. Len(child'[pid].buf) = 0 /\ Len(pipe'[pid].units) = 0 /\ child'[pid].exit = ""
    BY <1>12, <1>15, <1>19, <1>20, <2>1
  <2>3. pid \in pipe'[pid].writers
    BY <1>19
  <2>4. QED
    BY <1>21, <2>2, <2>3, FreshMaking
<1>23. Joins(c, pid)
  <2>1. c.in = pid + 1 /\ c.out = pid
    BY <1>14, <1>32, <1>33
  <2>2. c.role # "copier" /\ c.role # "recompressor"
    BY <1>14
  <2>3. pid \in DOMAIN pipe' /\ pid + 1 \in DOMAIN pipe'
    BY <1>9, <1>11
  <2>4. QED
    BY <1>10, <1>22, <2>1, <2>2, <2>3 DEF Joins
<1>24. /\ script' # <<>> /\ script'[1] = <<"copier", Subject>>
       /\ \A j \in 1 .. Len(script') :
            script'[j][1] \in {"pipes", "copier", "parent"} => file[script'[j][2]] = Opened
  BY <1>2, <1>3, <1>10, NextSteps
<1>25. PICK f : f = Subject
  OBVIOUS
<1>26. \A m : At(m)' => m = "copier"
  <2>1. PICK a : a = <<"copier", f>>
    OBVIOUS
  <2>2. a[1] = "copier" /\ script'[1] = a
    BY <1>24, <1>25, <2>1
  <2>3. \A m : At(m)' => m = a[1]
    BY <1>18, <1>24, <2>2, NewHead
  <2>4. QED
    BY <2>2, <2>3
<1>27. ~At("pipes")' /\ ~At("recompress")' /\ ~At("parent")' /\ ~At("output_parent")' /\ ~At("read")' /\ At("copier")'
  <2>1. status' = "running" /\ Head(script')[1] = "copier"
    <3>1. status = "running" /\ script' \in Seq(Steps)
      BY <1>2, <1>3, <1>18, AtHead DEF ScriptOK
    <3>2. Head(script') = script'[1]
      BY <1>24, <3>1
    <3>3. QED
      BY <1>2, <1>24, <3>1, <3>2
  <2>2. QED
    BY <1>24, <1>26, <2>1 DEF At, Running
<1>28. Fed(pid)'
  <2>1. Decompressor(pid)'
    <3>1. pid \in DOMAIN child'
      BY <1>5, <1>7, <1>18
    <3>2. c.role = "decompressor"
      BY <1>14
    <3>3. child'[pid].role = "decompressor"
      BY <1>19, <3>2
    <3>4. QED
      BY <3>1, <3>3 DEF Decompressor, Child
  <2>2. \A g \in Inputs : file'[g].fd # pid
    <3>1. pid \notin DOMAIN child /\ pid > 0
      BY <1>7, <1>18
    <3>2. \A g \in Files : file[g].fd # pid
      BY <3>1, UnusedNumber
    <3>3. QED
      BY <1>2, <3>2 DEF Inputs, Files
  <2>3. QED
    BY <1>20, <1>21, <2>1, <2>2 DEF Fed, Feeds
<1>29. Forking'
  <2>1. Len(pipe') = Len(child') + 1 /\ Len(child') = pid
    BY <1>5, <1>6, <1>7, <1>9, <1>10, <1>18
  <2>2. \A j \in 1 .. Len(script') :
            script'[j][1] \in {"pipes", "copier", "parent"} => file'[script'[j][2]] = Opened
    BY <1>2, <1>24
  <2>3. Fed(Len(child))'
    <3>1. Fed(pid)' <=> Fed(Len(child))'
      BY <2>1 DEF Fed, Feeds, Decompressor, Child, Taken
    <3>2. QED
      BY <1>28, <3>1
  <2>4. QED
    BY <1>27, <2>1, <2>2, <2>3 DEF Forking
<1>30. Writes'
  <2>1. SameRecompressor
    <3>1. \A q : Recompressor(q)' => q \in DOMAIN child
      <4> SUFFICES ASSUME NEW q, Recompressor(q)', q \notin DOMAIN child PROVE FALSE
        OBVIOUS
      <4>1. q = pid
        BY <1>5, <1>7, <1>18 DEF Recompressor, Child
      <4>2. QED
        BY <1>14, <1>19, <4>1 DEF Recompressor
    <3>2. \A q : Recompressor(q)' <=> Recompressor(q)
      BY <1>5, <1>18, <3>1 DEF Recompressor, Child
    <3>3. \A q \in DOMAIN child : 0 \in pipe[q].writers => 0 \in pipe'[q].writers
      BY <1>6, <1>9, <1>18 DEF Held
    <3>4. QED
      BY <3>2, <3>3 DEF SameRecompressor, Recompressor, Child
  <2>2. SamePlaces
    <3>1. n \notin {"output", "recompress", "output_parent"}
      BY <1>1
    <3>2. QED
      BY <1>18, <3>1, SteadyOne
  <2>3. QED
    BY <1>2, <1>3, <1>18, <2>1, <2>2, WritesKeeps
<1>31. QED
  BY <1>2, <1>7, <1>17, <1>23, <1>27, <1>29, <1>30, ForkKeeps

\* What the fork of a copier or a recompressor has in common: it inherits, and what
\* was there stays.
LEMMA ForkInherits ==
  ASSUME RunInv, NEW ps \in Seq(Pipes), NEW pid \in Nat \ {0}, pipe' = Inherit(ps, pid),
         DOMAIN pipe \subseteq DOMAIN ps, \A p \in DOMAIN pipe : ps[p] = pipe[p]
  PROVE  /\ pipe' \in Seq(Pipes) /\ Len(pipe') = Len(ps) /\ DOMAIN pipe' = DOMAIN ps
         /\ DOMAIN pipe \subseteq DOMAIN pipe' /\ \A p \in DOMAIN pipe : Held(pipe'[p], pipe[p])
         /\ \A p \in DOMAIN ps : Held(pipe'[p], ps[p]) /\ (0 \in ps[p].writers => pid \in pipe'[p].writers)
<1>1. /\ pipe' \in Seq(Pipes) /\ Len(pipe') = Len(ps) /\ DOMAIN pipe' = DOMAIN ps
      /\ \A p \in DOMAIN ps : Held(pipe'[p], ps[p]) /\ (0 \in ps[p].writers => pid \in pipe'[p].writers)
  BY InheritPipes
<1>2. \A p \in DOMAIN pipe : Held(pipe'[p], pipe[p])
  BY <1>1
<1>3. QED
  BY <1>1, <1>2

\* The copier of a decompressor.
LEMMA ForkCopierKeeps ==
  ASSUME RunInv, ForkCopier
  PROVE  RunInv'
<1>1. PICK n \in {"pipes", "copier", "recompress"} : n = "copier"
  OBVIOUS
<1>2. At(n) /\ Do(<<>>) /\ cmd' = cmd /\ file' = file /\ status' = status
  BY <1>1 DEF ForkCopier
<1>3. /\ TypeOK /\ ScriptOK /\ Paired /\ Writes /\ Forking
  BY RunParts
<1>4. pipe \in Seq(Pipes) /\ Len(child) \in Nat /\ Pid = Len(child) + 1
  BY <1>3, Lengths DEF TypeOK, Pid
<1>5. PICK pid \in Nat \ {0} : pid = Pid
  BY <1>4
<1>6. pipe' = Inherit(pipe, pid)
  BY <1>5 DEF ForkCopier
<1>7. /\ pipe' \in Seq(Pipes) /\ Len(pipe') = Len(pipe) /\ DOMAIN pipe' = DOMAIN pipe
      /\ \A p \in DOMAIN pipe : Held(pipe'[p], pipe[p])
  BY <1>4, <1>6, ForkInherits
<1>8. Len(pipe) = Len(child) + 1 /\ Fed(Len(child))
  <2>1. At("copier")
    BY <1>1, <1>2
  <2>2. QED
    BY <1>3, <2>1 DEF Forking
<1>9. PICK q : q = Len(child)
  OBVIOUS
<1>10. Fed(q) /\ q \in DOMAIN child /\ q = pid - 1 /\ pid = Len(pipe)
  <2>1. Fed(q)
    BY <1>8, <1>9
  <2>2. QED
    BY <1>4, <1>5, <1>8, <1>9, <2>1 DEF Fed, Feeds, Decompressor, Child
<1>11. PICK i \in Nat : i = 0
  OBVIOUS
<1>12. PICK o \in Nat : o = pid
  OBVIOUS
<1>13. PICK b \in Seq(Int) : b = Block(0)
  <2>1. Block(i) \in Seq(Int)
    BY BlockUnits
  <2>2. QED
    BY <1>11, <2>1
<1>14. PICK c : c = Started("copier", i, o, b)
  OBVIOUS
<1>15. Fresh(c, "copier", i, o, b)
  <2>1. PICK role \in {"decompressor", "copier", "recompressor"} : role = "copier"
    OBVIOUS
  <2>2. Fresh(Started(role, i, o, b), role, i, o, b)
    BY StartedChild
  <2>3. QED
    BY <1>14, <2>1, <2>2
<1>16. c \in Children /\ c.role = "copier" /\ c.out = o /\ c.at = "forked" /\ c.exit = ""
  BY <1>15 DEF Fresh
<1>17. child' = Append(child, c) /\ ext_subprocs' = Append(ext_subprocs, Pid)
  <2>1. child' = Append(child, Started("copier", 0, Len(pipe), Block(0)))
    BY DEF ForkCopier
  <2>2. 0 = i /\ Len(pipe) = o /\ Block(0) = b
    BY <1>10, <1>11, <1>12, <1>13
  <2>3. QED
    BY <1>14, <2>1, <2>2 DEF ForkCopier
<1>18. Grown(c)
  BY <1>2, <1>7, <1>16, <1>17 DEF Grown
<1>19. /\ ScriptOK' /\ Steady({n}) /\ script[1][1] = n /\ script # <<>>
       /\ Len(child') = Len(child) + 1 /\ Pid \notin DOMAIN child /\ child'[Pid] = c
       /\ DOMAIN child' = 1 .. Len(child) + 1 /\ DOMAIN child = 1 .. Len(child) /\ DOMAIN child \subseteq DOMAIN pipe
       /\ \A p \in DOMAIN child : child'[p] = child[p]
       /\ \A p \in DOMAIN child : /\ Taken(p)' = Taken(p) /\ (Making(p) => Making(p)') /\ (Gathering(p) => Gathering(p)')
                                  /\ (Feeds(p) => Feeds(p)')
       /\ (Pending(<<"decode">>)' <=> Pending(<<"decode">>))
  BY <1>2, <1>18, ForkParts
<1>20. child'[pid] = c
  BY <1>5, <1>19
<1>21. Joins(c, pid)
  <2>1. c.role # "decompressor" /\ c.role # "recompressor" /\ c.out = pid
    BY <1>12, <1>16
  <2>2. pid \in DOMAIN pipe'
    <3>1. pid \in 1 .. Len(pipe) /\ DOMAIN pipe = 1 .. Len(pipe)
      BY <1>4, <1>8, <1>10
    <3>2. QED
      BY <1>7, <3>1
  <2>3. Decompressor(pid - 1)
    BY <1>10 DEF Fed, Feeds
  <2>4. QED
    BY <1>16, <2>1, <2>2, <2>3 DEF Joins
<1>22. /\ script' # <<>> => script'[1][1] \notin {"pipes", "recompress"}
       /\ script' # <<>> /\ script'[1][1] = "copier" => script[1] = <<"pipes", script'[1][2]>>
       /\ script' # <<>> /\ script'[1][1] = "read" => script[1] = <<"parent", script'[1][2]>>
       /\ script' # <<>> /\ script'[1][1] = "output_parent" => script[1] = <<"recompress">>
       /\ \A j \in 1 .. Len(script') :
            script'[j][1] \in {"pipes", "copier", "parent"} => file[script'[j][2]] = Opened
  BY <1>2, <1>3, NextSteps
<1>23. \A s : <<"pipes", s>>[1] # "copier" /\ <<"parent", s>>[1] # "copier" /\ <<"recompress">>[1] # "copier"
  OBVIOUS
<1>24. script' # <<>> => script'[1][1] \notin {"pipes", "recompress", "copier", "read", "output_parent"}
  <2>1. script[1][1] = "copier"
    BY <1>1, <1>19
  <2>2. QED
    BY <1>22, <1>23, <2>1
<1>25. ~At("pipes")' /\ ~At("recompress")' /\ ~At("copier")' /\ ~At("read")' /\ ~At("output_parent")'
  <2>1. CASE script' = <<>>
    BY <2>1 DEF At, Running
  <2>2. CASE script' # <<>>
    <3>1. PICK a : a = script'[1]
      OBVIOUS
    <3>2. \A m : At(m)' => m = a[1]
      BY <1>19, <2>2, <3>1, NewHead
    <3>3. a[1] \notin {"pipes", "recompress", "copier", "read", "output_parent"}
      BY <1>24, <2>2, <3>1
    <3>4. QED
      BY <3>2, <3>3
  <2>3. QED
    BY <2>1, <2>2
<1>26. Fed(q)'
  <2>1. Feeds(q) /\ Taken(q) = 0 /\ \A g \in Inputs : file[g].fd # q
    BY <1>10 DEF Fed
  <2>2. Feeds(q)' /\ Taken(q)' = 0
    BY <1>10, <1>19, <2>1
  <2>3. QED
    BY <1>2, <2>1, <2>2 DEF Fed
<1>27. Forking'
  <2>1. Len(pipe') = Len(child') /\ Len(child') = pid /\ Len(child') - 1 = q
    BY <1>4, <1>5, <1>7, <1>8, <1>9, <1>19
  <2>2. \A j \in 1 .. Len(script') :
            script'[j][1] \in {"pipes", "copier", "parent"} => file'[script'[j][2]] = Opened
    BY <1>2, <1>22
  <2>3. Fed(Len(child) - 1)'
    <3>1. Fed(q)' <=> Fed(Len(child) - 1)'
      BY <2>1 DEF Fed, Feeds, Decompressor, Child, Taken
    <3>2. QED
      BY <1>26, <3>1
  <2>4. child'[Len(child')].role = "copier"
    BY <1>16, <1>20, <2>1
  <2>5. ~Decompressor(Len(child))'
    BY <2>4 DEF Decompressor
  <2>6. QED
    BY <1>25, <2>1, <2>2, <2>3, <2>4, <2>5 DEF Forking
<1>28. Writes'
  <2>1. SameRecompressor
    <3>1. \A p : Recompressor(p)' => p \in DOMAIN child
      <4> SUFFICES ASSUME NEW p, Recompressor(p)', p \notin DOMAIN child PROVE FALSE
        OBVIOUS
      <4>1. p = pid
        BY <1>4, <1>5, <1>19 DEF Recompressor, Child
      <4>2. QED
        BY <1>16, <1>20, <4>1 DEF Recompressor
    <3>2. \A p : Recompressor(p)' <=> Recompressor(p)
      BY <1>4, <1>19, <3>1 DEF Recompressor, Child
    <3>3. \A p \in DOMAIN child : 0 \in pipe[p].writers => 0 \in pipe'[p].writers
      BY <1>7, <1>19 DEF Held
    <3>4. QED
      BY <3>2, <3>3 DEF SameRecompressor, Recompressor, Child
  <2>2. SamePlaces
    <3>1. n \notin {"output", "recompress", "output_parent"}
      BY <1>1
    <3>2. QED
      BY <1>19, <3>1, SteadyOne
  <2>3. QED
    BY <1>2, <1>3, <1>19, <2>1, <2>2, WritesKeeps
<1>29. QED
  BY <1>2, <1>5, <1>18, <1>21, <1>25, <1>27, <1>28, ForkKeeps

\* The recompressor of the output.
LEMMA RecompressHead ==
  ASSUME RunInv, At("recompress"), Do(<<>>)
  PROVE  /\ script[1] = <<"recompress">> /\ ~Pending(<<"recompress">>)' /\ ~Pending(<<"output">>)'
         /\ Pending(<<"recompress">>)
         /\ Pending(<<"output_parent">>)' /\ script' # <<>> /\ script'[1] = <<"output_parent">> /\ ScriptOK'
<1>1. ScriptOK /\ Forking
  BY RunParts
<1>2. script # <<>> /\ script[1] \in Steps /\ script[1][1] = "recompress" /\ 1 \in 1 .. Len(script)
  BY <1>1, AtHead
<1>3. script[1] = <<"recompress">>
  BY <1>2, StepFields
<1>4. Turn(script[1]) = 4 /\ script[1][1] # "read"
  BY <1>2, Turns
<1>5. ~Pending(<<"recompress">>)'
  <2>1. PICK x : x = script[1]
    OBVIOUS
  <2>2. x[1] # "read" /\ Turn(x) \notin {1, 7}
    BY <1>4, <2>1
  <2>3. ~Pending(x)'
    BY <1>1, <1>2, <2>1, <2>2, Once
  <2>4. QED
    BY <1>3, <2>1, <2>3
<1>6. ~Pending(<<"output">>)'
  <2>1. PICK x : x = <<"output">>
    OBVIOUS
  <2>2. x \in Steps /\ Turn(x) = 3 /\ x[1] # "read"
    <3>1. x \in Steps /\ Turn(x) = 3
      BY <2>1, StepsMade, TurnValues
    <3>2. x[1] # "read"
      BY <2>1
    <3>3. QED
      BY <3>1, <3>2
  <2>3. ~Pending(x)
    BY <1>1, <1>2, <1>4, <2>2, Passed
  <2>4. Pending(x)' => Pending(x)
    BY <1>1, <1>2, PoppedSteady
  <2>5. QED
    BY <2>1, <2>3, <2>4
<1>7. script' # <<>> /\ script'[1] = <<"output_parent">>
  <2>1. Then(<<"output_parent">>)
    BY <1>1 DEF Forking
  <2>2. QED
    BY <2>1, NextSteps
<1>8. ScriptOK'
  BY <1>1, <1>2, Popped
<1>9. Pending(<<"output_parent">>)'
  <2>1. PICK s \in Seq(Steps) : s = script'
    BY <1>8 DEF ScriptOK
  <2>2. 1 \in 1 .. Len(script')
    BY <1>7, <2>1, Heads
  <2>3. QED
    BY <1>7, <2>2 DEF Pending, Among
<1>10. Pending(<<"recompress">>)
  BY <1>2, <1>3 DEF Pending, Among
<1>11. QED
  BY <1>3, <1>5, <1>6, <1>7, <1>8, <1>9, <1>10

LEMMA NothingTwice == <<>> = <<>> \o <<>>
  OBVIOUS

LEMMA FreshGathering ==
  ASSUME NEW q, child'[q].blk = <<>>, pipe'[q].units = <<>>, file'["output"].data = <<>>, child'[q].exit = ""
  PROVE  Gathering(q)'
<1>1. <<>> = <<>> \o <<>>
  BY NothingTwice
<1>2. child'[q].exit # "0" /\ child'[q].exit # "SIGPIPE"
  OBVIOUS
<1>3. QED
  BY <1>1, <1>2, Zenon DEF Gathering

LEMMA ForkRecompressorKeeps ==
  ASSUME RunInv, ForkRecompressor
  PROVE  RunInv'
<1>1. PICK n \in {"pipes", "copier", "recompress"} : n = "recompress"
  OBVIOUS
<1>2. At(n) /\ Do(<<>>) /\ cmd' = cmd /\ file' = file /\ status' = status
  BY <1>1 DEF ForkRecompressor
<1>3. /\ TypeOK /\ ScriptOK /\ Paired /\ Writes /\ Forking
  BY RunParts
<1>4. pipe \in Seq(Pipes) /\ Len(child) \in Nat /\ Pid = Len(child) + 1 /\ Len(pipe) \in Nat
  BY <1>3, Lengths DEF TypeOK, Pid
<1>5. PICK pid \in Nat \ {0} : pid = Pid
  BY <1>4
<1>6. PICK ps : ps = Append(pipe, NewPipe)
  OBVIOUS
<1>7. /\ ps \in Seq(Pipes) /\ Len(ps) = Len(pipe) + 1 /\ DOMAIN pipe \subseteq DOMAIN ps
      /\ ps[Len(pipe) + 1] = NewPipe /\ \A p \in DOMAIN pipe : ps[p] = pipe[p]
      /\ NewPipe.units = <<>> /\ 0 \in NewPipe.readers /\ 0 \in NewPipe.writers
  BY <1>4, <1>6, NewPipes
<1>8. pipe' = Inherit(ps, pid)
  BY <1>5, <1>6 DEF ForkRecompressor
<1>9. /\ pipe' \in Seq(Pipes) /\ Len(pipe') = Len(ps) /\ DOMAIN pipe' = DOMAIN ps
      /\ DOMAIN pipe \subseteq DOMAIN pipe' /\ \A p \in DOMAIN pipe : Held(pipe'[p], pipe[p])
      /\ \A p \in DOMAIN ps : Held(pipe'[p], ps[p]) /\ (0 \in ps[p].writers => pid \in pipe'[p].writers)
  BY <1>7, <1>8, ForkInherits
<1>10. Len(pipe) = Len(child) /\ ~Decompressor(Len(child))
  <2>1. ~At("copier") /\ At("recompress")
    BY <1>1, <1>2, <1>3, AtHead
  <2>2. QED
    BY <1>3, <2>1 DEF Forking
<1>11. pid = Len(pipe) + 1 /\ pid \in DOMAIN ps /\ ps[pid] = NewPipe
  BY <1>4, <1>5, <1>7, <1>10
<1>12. PICK i \in Nat : i = pid
  OBVIOUS
<1>13. PICK o \in Nat : o = 0
  OBVIOUS
<1>14. PICK b \in Seq(Int) : b = <<>>
  BY NoUnits
<1>15. PICK c : c = Started("recompressor", i, o, b)
  OBVIOUS
<1>16. Fresh(c, "recompressor", i, o, b)
  <2>1. PICK role \in {"decompressor", "copier", "recompressor"} : role = "recompressor"
    OBVIOUS
  <2>2. Fresh(Started(role, i, o, b), role, i, o, b)
    BY StartedChild
  <2>3. QED
    BY <1>15, <2>1, <2>2
<1>17. c \in Children /\ c.role = "recompressor" /\ c.in = i /\ c.blk = b /\ c.at = "forked" /\ c.exit = ""
  BY <1>16 DEF Fresh
<1>18. child' = Append(child, c) /\ ext_subprocs' = Append(ext_subprocs, Pid)
  <2>1. child' = Append(child, Started("recompressor", Len(pipe) + 1, 0, <<>>))
    BY DEF ForkRecompressor
  <2>2. Len(pipe) + 1 = i /\ 0 = o /\ <<>> = b
    BY <1>11, <1>12, <1>13, <1>14
  <2>3. QED
    BY <1>15, <2>1, <2>2 DEF ForkRecompressor
<1>19. Grown(c)
  BY <1>2, <1>9, <1>17, <1>18 DEF Grown
<1>20. /\ ScriptOK' /\ Steady({n}) /\ script[1][1] = n /\ script # <<>>
       /\ Len(child') = Len(child) + 1 /\ Pid \notin DOMAIN child /\ child'[Pid] = c
       /\ DOMAIN child' = 1 .. Len(child) + 1 /\ DOMAIN child = 1 .. Len(child)
  BY <1>2, <1>19, ForkParts
<1>21. child'[pid] = c /\ pid \in DOMAIN child' /\ Len(child') = pid
  BY <1>4, <1>5, <1>20
<1>22. pipe'[pid].units = <<>> /\ 0 \in pipe'[pid].writers
  <2>1. Held(pipe'[pid], NewPipe)
    BY <1>9, <1>11
  <2>2. QED
    BY <1>7, <2>1 DEF Held
<1>23. /\ ~Pending(<<"recompress">>)' /\ ~Pending(<<"output">>)' /\ Pending(<<"recompress">>)
       /\ Pending(<<"output_parent">>)' /\ script' # <<>> /\ script'[1] = <<"output_parent">>
  BY <1>1, <1>2, RecompressHead
<1>24. /\ cmd.tzip /\ file["output"].data = <<>> /\ file["output"].fd <= 0
       /\ \A q \in DOMAIN child : child[q].role # "recompressor"
  BY <1>3, <1>23 DEF Writes, Unopened
<1>25. Gathering(pid)'
  <2>1. c.blk = <<>> /\ c.exit = ""
    BY <1>14, <1>17
  <2>2. child'[pid].blk = <<>> /\ child'[pid].exit = "" /\ file'["output"].data = <<>>
    BY <1>2, <1>21, <1>24, <2>1
  <2>3. QED
    BY <1>22, <2>2, FreshGathering
<1>26. Joins(c, pid)
  <2>1. c.role # "decompressor" /\ c.role # "copier" /\ c.in = pid
    BY <1>12, <1>17
  <2>2. pid \in DOMAIN pipe'
    BY <1>9, <1>11
  <2>3. QED
    BY <1>10, <1>24, <1>25, <2>1, <2>2 DEF Joins
<1>27. \A m : At(m)' => m = "output_parent"
  <2>1. PICK a : a = <<"output_parent">>
    OBVIOUS
  <2>2. a[1] = "output_parent" /\ script'[1] = a
    BY <1>23, <2>1
  <2>3. \A m : At(m)' => m = a[1]
    BY <1>20, <1>23, <2>2, NewHead
  <2>4. QED
    BY <2>2, <2>3
<1>28. ~At("pipes")' /\ ~At("recompress")' /\ ~At("parent")' /\ ~At("copier")' /\ ~At("read")'
  BY <1>27
<1>29. Forking'
  <2>1. Len(pipe') = Len(child') /\ Len(child') = pid
    BY <1>4, <1>7, <1>9, <1>10, <1>20, <1>21
  <2>2. \A j \in 1 .. Len(script') :
            script'[j][1] \in {"pipes", "copier", "parent"} => file'[script'[j][2]] = Opened
    BY <1>2, <1>3, NextSteps
  <2>3. child'[Len(child')].role = "recompressor" /\ Len(child') \in DOMAIN child' /\ 0 \in pipe'[Len(child')].writers
    BY <1>17, <1>21, <1>22
  <2>4. ~Decompressor(Len(child))' /\ Recompressor(Len(child))'
    BY <2>3 DEF Decompressor, Recompressor, Child
  <2>5. QED
    BY <1>28, <2>1, <2>2, <2>3, <2>4 DEF Forking
<1>30. Writes'
  <2>1. \E q \in DOMAIN child' : child'[q].role = "recompressor"
    BY <1>17, <1>21
  <2>2. ~Unopened'
    BY <1>23 DEF Unopened
  <2>3. ~(file["output"].fd > 0)
    <3>1. file["output"].fd \in Int
      BY <1>3, Fields
    <3>2. PICK d \in Int : d = file["output"].fd
      BY <3>1
    <3>3. d <= 0
      BY <1>24, <3>2
    <3>4. ~(d > 0)
      BY <3>3
    <3>5. QED
      BY <3>2, <3>4
  <2>4. QED
    BY <1>2, <1>23, <1>24, <2>1, <2>2, <2>3 DEF Writes
<1>31. QED
  BY <1>2, <1>5, <1>19, <1>26, <1>28, <1>29, <1>30, ForkKeeps

TwoSet(t, s, p, r, a, b) ==
  /\ t \in Seq(Pipes) /\ Len(t) = Len(s) /\ DOMAIN t = DOMAIN s
  /\ t[p] = a /\ t[r] = b /\ \A q \in DOMAIN s : q # p /\ q # r => t[q] = s[q]

LEMMA SetTwo ==
  ASSUME NEW s \in Seq(Pipes), NEW p \in DOMAIN s, NEW r \in DOMAIN s, p # r, NEW a \in Pipes, NEW b \in Pipes
  PROVE  TwoSet([[s EXCEPT ![p] = a] EXCEPT ![r] = b], s, p, r, a, b)
<1>6. PICK t : t = [[s EXCEPT ![p] = a] EXCEPT ![r] = b]
  OBVIOUS
<1>1. PICK u : u = [s EXCEPT ![p] = a]
  OBVIOUS
<1>2. /\ u \in Seq(Pipes) /\ Len(u) = Len(s) /\ DOMAIN u = DOMAIN s
      /\ u[p] = a /\ \A q \in DOMAIN s : q # p => u[q] = s[q]
  BY <1>1, SetElement
<1>3. t = [u EXCEPT ![r] = b] /\ r \in DOMAIN u
  BY <1>1, <1>2, <1>6
<1>4. /\ t \in Seq(Pipes) /\ Len(t) = Len(u) /\ DOMAIN t = DOMAIN u
      /\ t[r] = b /\ \A q \in DOMAIN u : q # r => t[q] = u[q]
  BY <1>2, <1>3, SetElement
<1>5. QED
  BY <1>2, <1>4, <1>6 DEF TwoSet

\* Main keeps of the pipes of a file only the end that it reads from.
LEMMA LoseEnds ==
  ASSUME pipe \in Seq(Pipes), NEW p \in DOMAIN pipe, NEW r \in DOMAIN pipe, p # r,
         pipe' = [pipe EXCEPT ![p].writers = @ \ {0}, ![r].readers = @ \ {0}, ![r].writers = @ \ {0}]
  PROVE  /\ pipe' \in Seq(Pipes) /\ Len(pipe') = Len(pipe) /\ DOMAIN pipe' = DOMAIN pipe
         /\ pipe'[p].units = pipe[p].units /\ pipe'[p].readers = pipe[p].readers
         /\ pipe'[p].writers = pipe[p].writers \ {0}
         /\ pipe'[r].units = pipe[r].units /\ pipe'[r].readers = pipe[r].readers \ {0}
         /\ pipe'[r].writers = pipe[r].writers \ {0}
         /\ \A q \in DOMAIN pipe : q # p /\ q # r => pipe'[q] = pipe[q]
<1>1. PICK a \in Pipes : a = pipe[p]
  OBVIOUS
<1>2. PICK b \in Pipes : b = pipe[r]
  OBVIOUS
<1>3. PICK a1 \in Pipes : a1 = [a EXCEPT !.writers = @ \ {0}]
  BY PipeFields
<1>4. PICK b1 \in Pipes : b1 = [b EXCEPT !.readers = @ \ {0}]
  BY PipeFields
<1>5. PICK b2 \in Pipes : b2 = [b1 EXCEPT !.writers = @ \ {0}]
  BY PipeFields
<1>6. a1.units = a.units /\ a1.readers = a.readers /\ a1.writers = a.writers \ {0}
  BY <1>3, PipeFields
<1>7. b1.units = b.units /\ b1.readers = b.readers \ {0} /\ b1.writers = b.writers
  BY <1>4, PipeFields
<1>8. b2.units = b1.units /\ b2.readers = b1.readers /\ b2.writers = b1.writers \ {0}
  BY <1>5, PipeFields
<1>9. pipe' = [[pipe EXCEPT ![p] = a1] EXCEPT ![r] = b2]
  BY <1>1, <1>2, <1>3, <1>4, <1>5
<1>10. /\ pipe' \in Seq(Pipes) /\ Len(pipe') = Len(pipe) /\ DOMAIN pipe' = DOMAIN pipe
       /\ pipe'[p] = a1 /\ pipe'[r] = b2 /\ \A q \in DOMAIN pipe : q # p /\ q # r => pipe'[q] = pipe[q]
  <2>1. PICK s \in Seq(Pipes) : s = pipe
    OBVIOUS
  <2>2. PICK t : t = pipe'
    OBVIOUS
  <2>3. t = [[s EXCEPT ![p] = a1] EXCEPT ![r] = b2] /\ p \in DOMAIN s /\ r \in DOMAIN s
    BY <1>9, <2>1, <2>2, Zenon
  <2>4. /\ t \in Seq(Pipes) /\ Len(t) = Len(s) /\ DOMAIN t = DOMAIN s
        /\ t[p] = a1 /\ t[r] = b2 /\ \A q \in DOMAIN s : q # p /\ q # r => t[q] = s[q]
    <3>1. TwoSet([[s EXCEPT ![p] = a1] EXCEPT ![r] = b2], s, p, r, a1, b2)
      BY <2>3, SetTwo
    <3>2. TwoSet(t, s, p, r, a1, b2)
      BY <2>3, <3>1, Zenon
    <3>3. QED
      BY <3>2, Zenon DEF TwoSet
  <2>5. QED
    BY <2>1, <2>2, <2>4, Zenon
<1>11. QED
  BY <1>1, <1>2, <1>6, <1>7, <1>8, <1>10, Zenon

\* The parent of a copier and its decompressor reads from their pipe.
LEMMA ParentScript ==
  ASSUME RunInv, At("parent"), Do(<<>>)
  PROVE  /\ ScriptOK' /\ NoForks(script') /\ Steady({"parent"}) /\ script # <<>>
         /\ Subject \in Inputs
         /\ At("read")' => Subject' = Subject /\ From' = file'[Subject].fd
         /\ At("finish")' => \A i \in 1 .. Len(ext_subprocs') : i < Subject' => ext_subprocs'[i] = 0
<1>1. ScriptOK
  BY RunParts
<1>2. script # <<>> /\ script[1] \in Steps /\ script[1][1] = "parent" /\ Subject = script[1][2]
  BY <1>1, AtHead
<1>3. Subject \in Inputs /\ script[1] = <<"parent", Subject>>
  BY <1>2, StepFields
<1>4. ScriptOK' /\ Steady({"parent"})
  BY <1>1, <1>2, Popped, PoppedSteady
<1>5. script' # <<>> =>
        /\ script'[1][1] \notin {"pipes", "recompress"}
        /\ script'[1][1] = "copier" => script[1] = <<"pipes", script'[1][2]>>
        /\ script'[1][1] = "parent" => script[1] = <<"copier", script'[1][2]>>
        /\ script'[1][1] = "read" => script[1] = <<"parent", script'[1][2]>>
        /\ script'[1][1] = "output_parent" => script[1] = <<"recompress">>
  BY NextSteps
<1>6. \A s : <<"pipes", s>>[1] # "parent" /\ <<"copier", s>>[1] # "parent" /\ <<"recompress">>[1] # "parent"
  OBVIOUS
<1>7. script' # <<>> => script'[1][1] \notin ForkNames
  BY <1>2, <1>5, <1>6 DEF ForkNames
<1>8. NoForks(script')
  <2>1. PICK s \in Seq(Steps) : s = script' /\ Chained(s)
    BY <1>4 DEF ScriptOK
  <2>2. CASE s = <<>>
    <3>1. Len(s) = 0
      BY <2>2
    <3>2. \A i : i \notin 1 .. Len(s)
      BY <3>1, ZeroFacts
    <3>3. QED
      BY <2>1, <3>2 DEF NoForks
  <2>3. CASE s # <<>>
    <3>1. s[1][1] \notin ForkNames
      BY <1>7, <2>1, <2>3
    <3>2. NoForks(s)
      BY <2>1, <2>3, <3>1, CalmScript
    <3>3. QED
      BY <2>1, <3>2
  <2>4. QED
    BY <2>2, <2>3
<1>9. At("read")' => Subject' = Subject /\ From' = file'[Subject].fd
  <2> HAVE At("read")'
  <2>1. script' # <<>>
    BY DEF At, Running
  <2>2. PICK a : a = script'[1]
    OBVIOUS
  <2>3. (\A m : At(m)' => m = a[1]) /\ Subject' = a[2] /\ From' = file'[a[2]].fd
    BY <1>4, <2>1, <2>2, NewHead
  <2>4. a[1] = "read"
    BY <2>3
  <2>5. script[1] = <<"parent", a[2]>>
    BY <1>5, <2>1, <2>2, <2>4
  <2>6. <<"parent", a[2]>>[2] = a[2]
    OBVIOUS
  <2>7. a[2] = Subject
    BY <1>2, <2>5, <2>6
  <2>8. QED
    BY <2>3, <2>7
<1>10. QED
  BY <1>1, <1>2, <1>3, <1>4, <1>8, <1>9, FreshFinish

\* The pipe of the decompressor before a copier, and the copier's own.
ParentOf(q) ==
  /\ q \in DOMAIN child /\ q + 1 \in DOMAIN child /\ q # 0 /\ q > 0 /\ q # q + 1 /\ q \in Nat
  /\ child[q].role = "decompressor" /\ child[q + 1].role = "copier"
  /\ Fed(q) /\ Len(child) - 1 = q /\ Len(pipe) - 1 = q /\ Len(pipe) = Len(child)

LEMMA ParentPair ==
  ASSUME RunInv, At("parent")
  PROVE  \E q : ParentOf(q)
<1>1. /\ TypeOK /\ ScriptOK /\ Paired /\ Forking
  BY RunParts
<1>2. Len(child) \in Nat /\ DOMAIN child = 1 .. Len(child)
  BY <1>1, Lengths
<1>3. ~At("copier")
  BY <1>1, AtHead
<1>4. Len(pipe) = Len(child) /\ child[Len(child)].role = "copier" /\ Fed(Len(child) - 1)
  BY <1>1, <1>3 DEF Forking
<1>5. PICK l \in Nat : l = Len(child)
  BY <1>2
<1>6. PICK q : q = l - 1
  OBVIOUS
<1>7. Fed(q)
  BY <1>4, <1>5, <1>6
<1>8. q \in DOMAIN child /\ child[q].role = "decompressor"
  BY <1>7 DEF Fed, Feeds, Decompressor, Child
<1>9. q \in 1 .. l
  BY <1>2, <1>5, <1>8
<1>10. q + 1 = l /\ q # 0 /\ q > 0 /\ q # q + 1 /\ q \in Nat /\ l \in 1 .. l
  BY <1>6, <1>9
<1>11. ParentOf(q)
  <2>1. q + 1 \in DOMAIN child
    BY <1>2, <1>5, <1>10
  <2>2. child[q + 1].role = "copier"
    BY <1>4, <1>5, <1>10
  <2>3. QED
    BY <1>4, <1>5, <1>6, <1>7, <1>8, <1>10, <2>1, <2>2 DEF ParentOf
<1>12. QED
  BY <1>11

LEMMA NoLength == Len(<<>>) = 0
  OBVIOUS

LEMMA ParentKeeps ==
  ASSUME RunInv, At("parent"), Do(<<>>), NEW q, ParentOf(q), NEW f \in Inputs, f = Subject,
         UNCHANGED <<cmd, child, ext_subprocs, status>>, file' \in [Files -> OneFile],
         \A g \in Files : g # f => file'[g] = file[g],
         file'[f].fd = q, file'[f].data = file[f].data, file'[f].eof = file[f].eof,
         Fewer, \A p \in DOMAIN pipe : p # q /\ p # q + 1 => pipe'[p] = pipe[p],
         pipe'[q].readers = pipe[q].readers, pipe'[q].writers = pipe[q].writers \ {0}
  PROVE  RunInv'
<1>1. /\ TypeOK /\ ScriptOK /\ Paired /\ Decompressing /\ Recompressing /\ Waiting /\ Piped /\ InputTrue
      /\ Forking /\ Writes /\ Doing /\ ext_subprocs \in Seq(Nat)
  BY RunParts
<1>2. cmd' = cmd /\ child' = child /\ ext_subprocs' = ext_subprocs
  OBVIOUS
<1>3. /\ ScriptOK' /\ NoForks(script') /\ Steady({"parent"})
      /\ At("read")' => Subject' = Subject /\ From' = file'[Subject].fd
      /\ At("finish")' => \A i \in 1 .. Len(ext_subprocs') : i < Subject' => ext_subprocs'[i] = 0
  BY ParentScript
<1>4. SamePlaces /\ SameWork /\ (Pending(<<"decode">>)' <=> Pending(<<"decode">>))
  <2>1. PICK n : n = "parent"
    OBVIOUS
  <2>2. /\ n \notin {"output", "recompress", "output_parent"} /\ n \notin {"encode", "open", "compare", "verify"}
        /\ n # "decode"
    BY <2>1
  <2>3. Steady({n})
    BY <1>3, <2>1
  <2>4. QED
    BY <2>2, <2>3, SteadyOne
<1>5. /\ q \in DOMAIN child /\ q + 1 \in DOMAIN child /\ q # 0 /\ q > 0
      /\ child[q].role = "decompressor" /\ child[q + 1].role = "copier"
      /\ Feeds(q) /\ Taken(q) = 0 /\ \A g \in Inputs : file[g].fd # q
  BY DEF ParentOf, Fed
<1>6. /\ DOMAIN child \subseteq DOMAIN pipe
      /\ \A p \in DOMAIN child : child[p].role = "recompressor" => p # q /\ p # q + 1
      /\ \A p \in DOMAIN child : child[p].role = "decompressor" => p # q + 1
  <2>1. DOMAIN child \subseteq DOMAIN pipe
    BY <1>1, Lengths DEF Paired
  <2>2. QED
    BY <1>5, <2>1
<1>7. "output" \in Files /\ "input" \in Files /\ "hash" \in Files /\ Inputs \subseteq Files /\ f # "output"
  BY DEF Inputs, Files
<1>8. file[f] = Opened
  <2>1. script[1] \in Steps /\ script[1][1] = "parent" /\ Subject = script[1][2] /\ 1 \in 1 .. Len(script)
    BY <1>1, AtHead
  <2>2. QED
    BY <1>1, <2>1 DEF Forking
<1>9. file[f].data = <<>> /\ file[f].eof = FALSE
  <2>1. Opened.data = <<>> /\ Opened.eof = FALSE
    BY DEF Opened, Closed
  <2>2. QED
    BY <1>8, <2>1
<1>10. file'["output"] = file["output"]
  BY <1>7
<1>11. \A p \in DOMAIN child : child[p].role = "decompressor" /\ p \in pipe[p].writers => p \in pipe'[p].writers
  <2> SUFFICES ASSUME NEW p \in DOMAIN child, child[p].role = "decompressor", p \in pipe[p].writers
               PROVE  p \in pipe'[p].writers
    OBVIOUS
  <2>1. CASE p = q
    BY <1>5, <2>1
  <2>2. CASE p # q
    BY <1>6, <2>2
  <2>3. QED
    BY <2>1, <2>2
<1>12. Paired' /\ Decompressing' /\ Recompressing' /\ \A p \in DOMAIN child : Taken(p)' = Taken(p)
  BY <1>1, <1>2, <1>6, <1>10, <1>11, FewerKeeps
<1>13. \A p : Feeds(p) => p \in DOMAIN child /\ Feeds(p)'
  <2> SUFFICES ASSUME NEW p, Feeds(p) PROVE p \in DOMAIN child /\ Feeds(p)'
    OBVIOUS
  <2>1. p \in DOMAIN child /\ child[p].role = "decompressor" /\ 0 \in pipe[p].readers
    BY DEF Feeds, Decompressor, Child
  <2>2. 0 \in pipe'[p].readers
    <3>1. CASE p = q
      BY <2>1, <3>1
    <3>2. CASE p # q
      BY <1>6, <2>1, <3>2
    <3>3. QED
      BY <3>1, <3>2
  <2>3. QED
    BY <1>2, <2>1, <2>2 DEF Feeds, Decompressor, Child
<1>14. Piped'
  <2>1. SameFeeds(f)
    <3> SUFFICES ASSUME NEW g \in Inputs \ {f}, NEW p, p = file[g].fd, Feeds(p)
                 PROVE  file'[g] = file[g] /\ Feeds(p)' /\ Taken(p)' = Taken(p)
      BY <1>7 DEF SameFeeds
    <3>1. file'[g] = file[g]
      BY <1>7
    <3>2. p \in DOMAIN child /\ Feeds(p)'
      BY <1>13
    <3>3. QED
      BY <1>12, <3>1, <3>2
  <2>2. Feeds(q)' /\ Taken(q)' = 0
    BY <1>5, <1>12, <1>13
  <2>3. Len(file'[f].data) = 0
    <3>1. Len(<<>>) = 0
      BY NoLength
    <3>2. QED
      BY <1>9, <3>1
  <2>4. \A p : p = file'[f].fd /\ p > 0 => Feeds(p)' /\ Len(file'[f].data) = Taken(p)'
    BY <2>2, <2>3
  <2>5. \A g \in Inputs \ {f} : file'[f].fd > 0 => file[g].fd # file'[f].fd
    BY <1>5
  <2>6. QED
    BY <1>1, <2>1, <2>4, <2>5, PipedKeeps
<1>15. InputTrue'
  <2>1. file'["input"].data = file["input"].data /\ file'["input"].eof = file["input"].eof
    BY <1>7
  <2>2. file["input"].fd # 0 => file'["input"].fd # 0
    BY <1>5, <1>7
  <2>3. At("read")' => From' # 0 /\ (Subject' = "input" => ~file'["input"].eof)
    BY <1>3, <1>5, <1>9
  <2>4. QED
    BY <1>1, <1>2, <1>4, <2>1, <2>2, <2>3, InputKeeps DEF SameWork
<1>16. Forking'
  <2>1. PICK n : n = "parent"
    OBVIOUS
  <2>2. At(n) /\ n # "copier"
    BY <2>1
  <2>3. QED
    BY <1>1, <1>2, <1>3, <2>2, CalmForking DEF Fewer
<1>17. Writes'
  <2>1. SameRecompressor
    <3>1. \A p : Recompressor(p) => pipe'[p] = pipe[p]
      BY <1>6 DEF Recompressor, Child
    <3>2. QED
      BY <1>2, <3>1 DEF SameRecompressor, Recompressor, Child
  <2>2. QED
    BY <1>1, <1>2, <1>4, <1>10, <2>1, WritesKeeps
<1>18. Doing'
  BY <1>1, <1>2, <1>3, <1>4, <1>7, <1>10, DoingKeeps DEF SameWork
<1>19. Waiting'
  BY <1>1, <1>2, SameWaiting
<1>20. pipe' \in Seq(Pipes) /\ child' \in Seq(Children) /\ ext_subprocs' \in Seq(Nat)
  BY <1>1, <1>2 DEF TypeOK, Fewer
<1>21. QED
  BY <1>1, <1>2, <1>3, <1>12, <1>14, <1>15, <1>16, <1>17, <1>18, <1>19, <1>20, Together

LEMMA ParentClosesKeeps ==
  ASSUME RunInv, ParentCloses
  PROVE  RunInv'
<1>1. At("parent") /\ Do(<<>>) /\ UNCHANGED <<cmd, child, ext_subprocs, status>>
  BY DEF ParentCloses
<1>2. TypeOK /\ Paired
  BY RunParts
<1>3. PICK f \in Inputs : f = Subject
  BY <1>1, ParentScript
<1>4. PICK q : ParentOf(q)
  BY <1>1, ParentPair
<1>5. Len(pipe) - 1 = q /\ q \in DOMAIN child /\ q + 1 \in DOMAIN child /\ q # q + 1 /\ q \in Nat
  BY <1>4 DEF ParentOf
<1>6. q \in DOMAIN pipe /\ q + 1 \in DOMAIN pipe /\ pipe \in Seq(Pipes)
  BY <1>2, <1>5, Lengths DEF Paired, TypeOK
<1>7. PICK r : r = q + 1
  OBVIOUS
<1>8. /\ pipe' = [pipe EXCEPT ![q].writers = @ \ {0}, ![r].readers = @ \ {0}, ![r].writers = @ \ {0}]
      /\ file' = [file EXCEPT ![f].fd = q]
  BY <1>3, <1>5, <1>7 DEF ParentCloses
<1>9. /\ pipe' \in Seq(Pipes) /\ Len(pipe') = Len(pipe) /\ DOMAIN pipe' = DOMAIN pipe
      /\ pipe'[q].units = pipe[q].units /\ pipe'[q].readers = pipe[q].readers
      /\ pipe'[q].writers = pipe[q].writers \ {0}
      /\ pipe'[r].units = pipe[r].units /\ pipe'[r].readers = pipe[r].readers \ {0}
      /\ pipe'[r].writers = pipe[r].writers \ {0}
      /\ \A p \in DOMAIN pipe : p # q /\ p # r => pipe'[p] = pipe[p]
  BY <1>5, <1>6, <1>7, <1>8, LoseEnds, ZenonT(60)
<1>10. Fewer
  <2> SUFFICES ASSUME NEW p \in DOMAIN pipe
               PROVE  /\ pipe'[p].units = pipe[p].units
                      /\ pipe'[p].readers \subseteq pipe[p].readers /\ pipe'[p].writers \subseteq pipe[p].writers
    BY <1>9 DEF Fewer
  <2>1. CASE p = q
    BY <1>9, <2>1
  <2>2. CASE p = r
    BY <1>9, <2>2
  <2>3. CASE p # q /\ p # r
    BY <1>9, <2>3
  <2>4. QED
    BY <2>1, <2>2, <2>3
<1>11. /\ file' \in [Files -> OneFile] /\ \A g \in Files : g # f => file'[g] = file[g]
       /\ file'[f].fd = q /\ file'[f].data = file[f].data /\ file'[f].eof = file[f].eof
  <2>1. f \in Files /\ q \in Nat \cup {-1}
    BY <1>5 DEF Files, Inputs
  <2>2. QED
    BY <1>2, <1>8, <2>1, SetFd
<1>12. \A p \in DOMAIN pipe : p # q /\ p # q + 1 => pipe'[p] = pipe[p]
  BY <1>7, <1>9
<1>13. pipe'[q].readers = pipe[q].readers /\ pipe'[q].writers = pipe[q].writers \ {0}
  BY <1>9
<1>14. QED
  BY <1>1, <1>3, <1>4, <1>10, <1>11, <1>12, <1>13, ParentKeeps

\* Main keeps the end of the recompressor's pipe that it writes to.
LEMMA OutputScript ==
  ASSUME RunInv, At("output_parent"), Do(<<>>)
  PROVE  /\ ScriptOK' /\ NoForks(script') /\ Steady({"output_parent"}) /\ script # <<>> /\ ~At("read")'
         /\ Pending(<<"output_parent">>) /\ ~Pending(<<"output_parent">>)'
         /\ ~Pending(<<"output">>)' /\ ~Pending(<<"recompress">>)'
         /\ At("finish")' => \A i \in 1 .. Len(ext_subprocs') : i < Subject' => ext_subprocs'[i] = 0
<1>1. ScriptOK
  BY RunParts
<1>2. script # <<>> /\ script[1] \in Steps /\ script[1][1] = "output_parent" /\ 1 \in 1 .. Len(script)
  BY <1>1, AtHead
<1>3. script[1] = <<"output_parent">>
  BY <1>2, StepFields
<1>4. ScriptOK' /\ Steady({"output_parent"})
  BY <1>1, <1>2, Popped, PoppedSteady
<1>5. script' # <<>> =>
        /\ script'[1][1] \notin {"pipes", "recompress"}
        /\ script'[1][1] = "copier" => script[1] = <<"pipes", script'[1][2]>>
        /\ script'[1][1] = "parent" => script[1] = <<"copier", script'[1][2]>>
        /\ script'[1][1] = "read" => script[1] = <<"parent", script'[1][2]>>
        /\ script'[1][1] = "output_parent" => script[1] = <<"recompress">>
  BY NextSteps
<1>6. \A s : /\ <<"pipes", s>>[1] # "output_parent" /\ <<"copier", s>>[1] # "output_parent"
             /\ <<"recompress">>[1] # "output_parent" /\ <<"parent", s>>[1] # "output_parent"
  OBVIOUS
<1>7. script' # <<>> => script'[1][1] \notin ForkNames /\ script'[1][1] # "read"
  BY <1>2, <1>5, <1>6 DEF ForkNames
<1>8. NoForks(script')
  <2>1. PICK s \in Seq(Steps) : s = script' /\ Chained(s)
    BY <1>4 DEF ScriptOK
  <2>2. CASE s = <<>>
    <3>1. Len(s) = 0
      BY <2>2
    <3>2. \A i : i \notin 1 .. Len(s)
      BY <3>1, ZeroFacts
    <3>3. QED
      BY <2>1, <3>2 DEF NoForks
  <2>3. CASE s # <<>>
    <3>1. s[1][1] \notin ForkNames
      BY <1>7, <2>1, <2>3
    <3>2. NoForks(s)
      BY <2>1, <2>3, <3>1, CalmScript
    <3>3. QED
      BY <2>1, <3>2
  <2>4. QED
    BY <2>2, <2>3
<1>9. ~At("read")'
  <2> SUFFICES ASSUME At("read")' PROVE FALSE
    OBVIOUS
  <2>1. script' # <<>>
    BY DEF At, Running
  <2>2. PICK a : a = script'[1]
    OBVIOUS
  <2>3. \A m : At(m)' => m = a[1]
    BY <1>4, <2>1, <2>2, NewHead
  <2>4. QED
    BY <1>7, <2>1, <2>2, <2>3
<1>10. Turn(script[1]) = 5 /\ script[1][1] # "read"
  BY <1>2, Turns
<1>11. Pending(<<"output_parent">>)
  BY <1>2, <1>3 DEF Pending, Among
<1>12. ~Pending(<<"output_parent">>)'
  <2>1. PICK x : x = script[1]
    OBVIOUS
  <2>5. 5 \notin {1, 7}
    OBVIOUS
  <2>2. x[1] # "read" /\ Turn(x) \notin {1, 7}
    BY <1>10, <2>1, <2>5, Zenon
  <2>3. ~Pending(x)'
    BY <1>1, <1>2, <2>1, <2>2, Once
  <2>4. QED
    BY <1>3, <2>1, <2>3
<1>13. ~Pending(<<"output">>)' /\ ~Pending(<<"recompress">>)'
  <2>1. PICK x : x = <<"output">>
    OBVIOUS
  <2>2. PICK y : y = <<"recompress">>
    OBVIOUS
  <2>3. x \in Steps /\ Turn(x) = 3 /\ y \in Steps /\ Turn(y) = 4
    BY <2>1, <2>2, StepsMade, TurnValues
  <2>4. x[1] # "read" /\ y[1] # "read"
    BY <2>1, <2>2
  <2>8. Turn(x) < Turn(script[1]) /\ Turn(y) < Turn(script[1])
    BY <1>10, <2>3
  <2>5. ~Pending(x) /\ ~Pending(y)
    BY <1>1, <1>2, <1>10, <2>3, <2>4, <2>8, Passed, Zenon
  <2>6. (Pending(x)' => Pending(x)) /\ (Pending(y)' => Pending(y))
    BY <1>1, <1>2, PoppedSteady
  <2>7. QED
    BY <2>1, <2>2, <2>5, <2>6
<1>14. QED
  BY <1>1, <1>2, <1>4, <1>8, <1>9, <1>11, <1>12, <1>13, FreshFinish

LEMMA OutputParentKeeps ==
  ASSUME RunInv, OutputParent
  PROVE  RunInv'
<1>1. At("output_parent") /\ Do(<<>>) /\ UNCHANGED <<cmd, child, ext_subprocs, status>>
  BY DEF OutputParent
<1>2. /\ TypeOK /\ ScriptOK /\ Paired /\ Decompressing /\ Recompressing /\ Waiting /\ Piped /\ InputTrue
      /\ Forking /\ Writes /\ Doing /\ ext_subprocs \in Seq(Nat)
  BY RunParts
<1>3. cmd' = cmd /\ child' = child /\ ext_subprocs' = ext_subprocs
  BY <1>1
<1>4. /\ ScriptOK' /\ NoForks(script') /\ Steady({"output_parent"}) /\ script # <<>> /\ ~At("read")'
      /\ Pending(<<"output_parent">>) /\ ~Pending(<<"output_parent">>)'
      /\ ~Pending(<<"output">>)' /\ ~Pending(<<"recompress">>)'
      /\ At("finish")' => \A i \in 1 .. Len(ext_subprocs') : i < Subject' => ext_subprocs'[i] = 0
  BY <1>1, OutputScript
<1>5. SameWork /\ (Pending(<<"decode">>)' <=> Pending(<<"decode">>))
  <2>1. PICK n : n = "output_parent"
    OBVIOUS
  <2>2. n \notin {"encode", "open", "compare", "verify"} /\ n # "decode"
    BY <2>1
  <2>3. Steady({n})
    BY <1>4, <2>1
  <2>4. QED
    BY <2>2, <2>3, SteadyOne
<1>6. ~At("copier")
  <2>1. ScriptOK
    BY <1>2
  <2>2. \A m : At(m) => m = "output_parent"
    BY <1>1, <2>1, AtHead
  <2>3. QED
    BY <2>2
<1>7. PICK q : q = Len(child)
  OBVIOUS
<1>8. Len(pipe) = q /\ Recompressor(q) /\ 0 \in pipe[q].writers
  BY <1>1, <1>2, <1>6, <1>7 DEF Forking
<1>9. /\ q \in DOMAIN child /\ child[q].role = "recompressor" /\ q \in DOMAIN pipe /\ q > 0 /\ q # 0 /\ q \in Nat
      /\ DOMAIN child \subseteq DOMAIN pipe /\ pipe \in Seq(Pipes)
  <2>1. q \in DOMAIN child /\ child[q].role = "recompressor"
    BY <1>8 DEF Recompressor, Child
  <2>2. QED
    BY <1>2, <2>1, Lengths DEF Paired, TypeOK
<1>10. /\ pipe' = [pipe EXCEPT ![q].readers = @ \ {0}]
       /\ file' = [file EXCEPT !["output"].fd = q]
  BY <1>8 DEF OutputParent
<1>11. /\ pipe' \in Seq(Pipes) /\ Len(pipe') = Len(pipe) /\ DOMAIN pipe' = DOMAIN pipe
       /\ pipe'[q].units = pipe[q].units /\ pipe'[q].readers = pipe[q].readers \ {0}
       /\ pipe'[q].writers = pipe[q].writers
       /\ \A p \in DOMAIN pipe : p # q => pipe'[p] = pipe[p]
  BY <1>9, <1>10, LoseEnd
<1>12. Fewer /\ \A p \in DOMAIN pipe : pipe'[p].writers = pipe[p].writers
  <2> SUFFICES ASSUME NEW p \in DOMAIN pipe
               PROVE  /\ pipe'[p].units = pipe[p].units
                      /\ pipe'[p].readers \subseteq pipe[p].readers /\ pipe'[p].writers = pipe[p].writers
    BY <1>11 DEF Fewer
  <2>1. CASE p = q
    BY <1>11, <2>1
  <2>2. CASE p # q
    BY <1>11, <2>2
  <2>3. QED
    BY <2>1, <2>2
<1>13. "output" \in Files /\ "input" \in Files /\ "hash" \in Files /\ Inputs \subseteq Files /\ "output" \notin Inputs
  BY DEF Inputs, Files
<1>14. /\ file' \in [Files -> OneFile] /\ \A g \in Files : g # "output" => file'[g] = file[g]
       /\ file'["output"].fd = q /\ file'["output"].data = file["output"].data
  <2>1. q \in Nat \cup {-1}
    BY <1>9
  <2>2. QED
    BY <1>2, <1>10, <1>13, <2>1, SetFd
<1>15. Paired' /\ Decompressing' /\ Recompressing' /\ \A p \in DOMAIN child : Taken(p)' = Taken(p)
  <2>1. \A p \in DOMAIN child : child[p].role = "decompressor" /\ p \in pipe[p].writers => p \in pipe'[p].writers
    BY <1>9, <1>12
  <2>2. QED
    BY <1>2, <1>3, <1>9, <1>12, <1>14, <2>1, FewerKeeps
<1>16. Piped'
  <2>1. \A p : Feeds(p) => p \in DOMAIN child /\ Feeds(p)'
    <3> SUFFICES ASSUME NEW p, Feeds(p) PROVE p \in DOMAIN child /\ Feeds(p)'
      OBVIOUS
    <3>1. p \in DOMAIN child /\ child[p].role = "decompressor" /\ 0 \in pipe[p].readers
      BY DEF Feeds, Decompressor, Child
    <3>2. p # q
      BY <1>9, <3>1
    <3>3. pipe'[p] = pipe[p]
      BY <1>9, <1>11, <3>1, <3>2
    <3>4. QED
      BY <1>3, <3>1, <3>3 DEF Feeds, Decompressor, Child
  <2>2. \A g \in Inputs : file'[g] = file[g]
    BY <1>13, <1>14
  <2>3. SameFeeds("output")
    BY <1>15, <2>1, <2>2 DEF SameFeeds
  <2>4. QED
    BY <1>2, <1>13, <2>3, PipedKeeps
<1>17. file'["input"] = file["input"] /\ file'["hash"] = file["hash"]
  BY <1>13, <1>14
<1>18. InputTrue'
  BY <1>2, <1>3, <1>4, <1>5, <1>17, InputKeeps DEF SameWork
<1>19. Forking'
  <2>1. PICK n : n = "output_parent"
    OBVIOUS
  <2>2. At(n) /\ n # "copier"
    BY <1>1, <2>1
  <2>3. QED
    BY <1>2, <1>3, <1>4, <1>11, <2>2, CalmForking
<1>20. Writes'
  <2>1. cmd.tzip
    BY <1>2, <1>9 DEF Recompressing
  <2>2. ~Unopened' /\ ~Pending(<<"output_parent">>)' /\ ~Pending(<<"output">>)' /\ ~Pending(<<"recompress">>)'
    BY <1>4 DEF Unopened
  <2>3. Recompressor(q)' /\ 0 \in pipe'[q].writers
    BY <1>3, <1>8, <1>9, <1>12 DEF Recompressor, Child
  <2>4. file'["output"].fd > 0 => Recompressor(file["output"].fd)' /\ 0 \in pipe'[file'["output"].fd].writers
    BY <1>14, <2>3 DEF Recompressor, Child
  <2>5. file'["output"].fd > 0
    BY <1>9, <1>14
  <2>6. \E p \in DOMAIN child' : child'[p].role = "recompressor"
    BY <1>3, <1>9
  <2>7. QED
    BY <1>3, <2>1, <2>2, <2>4, <2>5, <2>6 DEF Writes
<1>21. Doing'
  BY <1>2, <1>3, <1>4, <1>5, <1>14, <1>17, DoingKeeps DEF SameWork
<1>22. Waiting'
  BY <1>2, <1>3, SameWaiting
<1>23. child' \in Seq(Children) /\ ext_subprocs' \in Seq(Nat)
  BY <1>2, <1>3 DEF TypeOK
<1>24. QED
  BY <1>2, <1>3, <1>4, <1>11, <1>14, <1>15, <1>16, <1>18, <1>19, <1>20, <1>21, <1>22, <1>23, Together

\* What is behind a decoder that has come to its windows.
LEMMA DecodeParts ==
  ASSUME RunInv, At("decode")
  PROVE  /\ ScriptOK /\ script # <<>> /\ NoForks(script) /\ Pending(<<"decode">>)
         /\ ~Pending(<<"output">>) /\ ~Pending(<<"recompress">>) /\ ~Pending(<<"output_parent">>) /\ ~Unopened
         /\ \A m : At(m) => m = "decode"
<1>1. ScriptOK
  BY RunParts
<1>2. script # <<>> /\ script[1] \in Steps /\ script[1][1] = "decode" /\ 1 \in 1 .. Len(script)
      /\ \A m : At(m) => m = "decode"
  BY <1>1, AtHead
<1>3. NoForks(script)
  <2>1. script[1][1] \notin ForkNames
    BY <1>2 DEF ForkNames
  <2>2. QED
    BY <1>1, <1>2, <2>1, CalmScript DEF ScriptOK
<1>4. script[1] = <<"decode">>
  BY <1>2, StepFields
<1>5. Pending(<<"decode">>)
  BY <1>2, <1>4 DEF Pending, Among
<1>6. Turn(script[1]) = 6 /\ script[1][1] # "read"
  BY <1>2, Turns
<1>7. ~Pending(<<"output">>) /\ ~Pending(<<"recompress">>) /\ ~Pending(<<"output_parent">>)
  <2>1. PICK x : x = <<"output">>
    OBVIOUS
  <2>2. PICK y : y = <<"recompress">>
    OBVIOUS
  <2>3. PICK z : z = <<"output_parent">>
    OBVIOUS
  <2>4. x \in Steps /\ Turn(x) = 3 /\ y \in Steps /\ Turn(y) = 4 /\ z \in Steps /\ Turn(z) = 5
    BY <2>1, <2>2, <2>3, StepsMade, TurnValues
  <2>5. x[1] # "read" /\ y[1] # "read" /\ z[1] # "read"
    BY <2>1, <2>2, <2>3
  <2>6. Turn(x) < Turn(script[1]) /\ Turn(y) < Turn(script[1]) /\ Turn(z) < Turn(script[1])
    BY <1>6, <2>4
  <2>7. ~Pending(x) /\ ~Pending(y) /\ ~Pending(z)
    BY <1>1, <1>2, <1>6, <2>4, <2>5, <2>6, Passed, Zenon
  <2>8. QED
    BY <2>1, <2>2, <2>3, <2>7
<1>8. ~Unopened
  BY <1>7 DEF Unopened
<1>9. QED
  BY <1>1, <1>2, <1>3, <1>5, <1>7, <1>8

\* What was written, when it has gone to the recompressor or to the file.
Wrote ==
  /\ cmd' = cmd /\ script' = script /\ child' = child /\ ext_subprocs' = ext_subprocs /\ status' = status
  /\ file' \in [Files -> OneFile] /\ \A g \in Files : g # "output" => file'[g] = file[g]
  /\ file'["output"].fd = file["output"].fd
  /\ pipe' \in Seq(Pipes) /\ Len(pipe') = Len(pipe) /\ DOMAIN pipe' = DOMAIN pipe
  /\ \A p \in DOMAIN pipe : p # file["output"].fd => pipe'[p] = pipe[p]

LEMMA WroteKeeps ==
  ASSUME RunInv, At("decode"), Len(file["output"].data) < Size, Wrote,
         file["output"].fd > 0 => /\ pipe'[file["output"].fd].writers = pipe[file["output"].fd].writers
                                  /\ Gathering(file["output"].fd)'
  PROVE  RunInv'
<1>1. /\ TypeOK /\ ScriptOK /\ Paired /\ Decompressing /\ Recompressing /\ Waiting /\ Piped /\ InputTrue
      /\ Forking /\ Writes /\ Doing /\ ext_subprocs \in Seq(Nat)
  BY RunParts
<1>2. cmd' = cmd /\ script' = script /\ child' = child /\ ext_subprocs' = ext_subprocs /\ status' = status
  BY DEF Wrote
<1>3. /\ script # <<>> /\ NoForks(script) /\ Pending(<<"decode">>)
      /\ ~Pending(<<"output">>) /\ ~Pending(<<"recompress">>) /\ ~Pending(<<"output_parent">>) /\ ~Unopened
      /\ \A m : At(m) => m = "decode"
  BY DecodeParts
<1>4. ScriptOK' /\ NoForks(script') /\ SamePlaces /\ SameWork /\ (Pending(<<"decode">>)' <=> Pending(<<"decode">>))
      /\ \A m : At(m)' <=> At(m)
  BY <1>1, <1>2, <1>3 DEF ScriptOK, SamePlaces, SameWork, Pending, At, Running
<1>5. ~At("read")' /\ ~At("finish")'
  <2>1. ~At("read") /\ ~At("finish")
    BY <1>3
  <2>2. QED
    BY <1>4, <2>1
<1>6. PICK d : d = file["output"].fd
  OBVIOUS
<1>7. IF cmd.tzip THEN d > 0 ELSE d = -1
  BY <1>1, <1>3, <1>6 DEF Writes
<1>8. d > 0 => d \in DOMAIN child /\ child[d].role = "recompressor"
  BY <1>1, <1>6 DEF Writes, Recompressor, Child
<1>9. DOMAIN child \subseteq DOMAIN pipe
  BY <1>1, Lengths DEF Paired
<1>10. \A q \in DOMAIN child : child[q].role = "recompressor" => q = d /\ d > 0
  <2> SUFFICES ASSUME NEW q \in DOMAIN child, child[q].role = "recompressor" PROVE q = d /\ d > 0
    OBVIOUS
  <2>1. cmd.tzip
    BY <1>1 DEF Recompressing
  <2>2. d > 0
    BY <1>7, <2>1
  <2>3. QED
    BY <1>1, <1>8, <2>2 DEF Recompressing
<1>11. Paired' /\ Decompressing' /\ Recompressing'
  <2>1. PICK T : T = {d}
    OBVIOUS
  <2>2. \A p \in DOMAIN pipe : p \notin T => pipe'[p] = pipe[p]
    BY <1>6, <2>1 DEF Wrote
  <2>3. \A q \in DOMAIN child : q \in T => child[q].role = "recompressor" /\ d > 0
    <3> SUFFICES ASSUME NEW q \in DOMAIN child, q \in T PROVE child[q].role = "recompressor" /\ d > 0
      OBVIOUS
    <3>1. q = d /\ q > 0
      BY <1>1, <2>1, Lengths
    <3>2. QED
      BY <1>8, <3>1
  <2>4. \A q \in DOMAIN child : q \in T /\ child[q].role = "decompressor" => Making(q)'
    BY <2>3
  <2>5. \A q \in DOMAIN child : q \in T /\ child[q].role = "recompressor" => Gathering(q)'
    <3> SUFFICES ASSUME NEW q \in DOMAIN child, q \in T PROVE Gathering(q)'
      OBVIOUS
    <3>1. d > 0 /\ q = d
      BY <2>1, <2>3
    <3>2. PICK e : e = file["output"].fd /\ e = q
      BY <1>6, <3>1
    <3>3. Gathering(e)'
      <4>1. Gathering(file["output"].fd)'
        BY <1>6, <3>1
      <4>2. file'["output"].fd = file["output"].fd
        BY DEF Wrote
      <4>3. QED
        BY <3>2, <4>1, <4>2 DEF Gathering
    <3>4. QED
      BY <3>2, <3>3
  <2>6. \A q \in DOMAIN child : q \notin T /\ child[q].role = "recompressor" =>
           file'["output"].data = file["output"].data
    BY <1>10, <2>1
  <2>7. Len(pipe') = Len(pipe) /\ DOMAIN pipe' = DOMAIN pipe
    BY DEF Wrote
  <2>8. QED
    BY <1>1, <1>2, <1>9, <2>2, <2>4, <2>5, <2>6, <2>7, PipesMove
<1>12. "output" \in Files /\ "input" \in Files /\ "hash" \in Files /\ Inputs \subseteq Files /\ "output" \notin Inputs
  BY DEF Inputs, Files
<1>13. \A g \in Inputs : file'[g] = file[g]
  BY <1>12 DEF Wrote
<1>14. Piped'
  <2>1. \A p : Feeds(p) => p \in DOMAIN child /\ Feeds(p)' /\ Taken(p)' = Taken(p)
    <3> SUFFICES ASSUME NEW p, Feeds(p) PROVE p \in DOMAIN child /\ Feeds(p)' /\ Taken(p)' = Taken(p)
      OBVIOUS
    <3>1. p \in DOMAIN child /\ child[p].role = "decompressor" /\ p > 0
      BY <1>1, Lengths DEF Feeds, Decompressor, Child
    <3>2. p # d
      BY <1>8, <3>1
    <3>3. pipe'[p] = pipe[p]
      BY <1>6, <1>9, <3>1, <3>2 DEF Wrote
    <3>4. QED
      BY <1>2, <3>1, <3>3 DEF Feeds, Decompressor, Child, Taken
  <2>2. SameFeeds("output")
    BY <1>13, <2>1 DEF SameFeeds
  <2>3. QED
    BY <1>1, <1>12, <2>2, PipedKeeps
<1>15. InputTrue'
  BY <1>1, <1>2, <1>4, <1>5, <1>12, <1>13, InputKeeps DEF SameWork, Inputs
<1>16. Forking'
  <2>1. PICK n : n = "decode"
    OBVIOUS
  <2>2. At(n) /\ n # "copier"
    BY <2>1
  <2>3. Len(pipe') = Len(pipe)
    BY DEF Wrote
  <2>4. QED
    BY <1>1, <1>2, <1>4, <2>2, <2>3, CalmForking
<1>17. Writes'
  <2>1. ~Pending(<<"output">>)' /\ ~Pending(<<"recompress">>)' /\ ~Pending(<<"output_parent">>)' /\ ~Unopened'
    BY <1>3, <1>4 DEF SamePlaces, Unopened
  <2>2. file'["output"].fd = d
    BY <1>6 DEF Wrote
  <2>3. d > 0 => Recompressor(d)' /\ 0 \in pipe'[d].writers
    <3> SUFFICES ASSUME d > 0 PROVE Recompressor(d)' /\ 0 \in pipe'[d].writers
      OBVIOUS
    <3>1. Recompressor(d) /\ 0 \in pipe[d].writers
      BY <1>1, <1>6 DEF Writes
    <3>2. pipe'[d].writers = pipe[d].writers
      BY <1>6
    <3>3. QED
      BY <1>2, <3>1, <3>2 DEF Recompressor, Child
  <2>4. file'["output"].fd > 0 => Recompressor(file["output"].fd)' /\ 0 \in pipe'[file'["output"].fd].writers
    BY <2>2, <2>3 DEF Recompressor, Child
  <2>5. IF cmd'.tzip THEN file'["output"].fd > 0 ELSE file'["output"].fd = -1
    BY <1>2, <1>7, <2>2
  <2>6. cmd'.op = "DECODE" /\ cmd'.tzip => \E p \in DOMAIN child' : child'[p].role = "recompressor"
    BY <1>1, <1>2, <1>3 DEF Writes
  <2>7. QED
    BY <2>1, <2>4, <2>5, <2>6 DEF Writes
<1>18. Doing'
  <2>1. cmd'.op = "DECODE" /\ cmd'.armor => Pending(<<"compare">>)'
    <3>1. file["output"].data # Whole
      <4>1. Len(Whole) = Size /\ Size \in Nat
        BY WholeUnits
      <4>2. QED
        BY <4>1
    <3>2. QED
      BY <1>1, <1>2, <1>4, <3>1 DEF Doing, SameWork
  <2>2. file'["input"] = file["input"] /\ file'["hash"] = file["hash"]
    BY <1>13 DEF Inputs
  <2>3. cmd'.op = "ENCODE" => Pending(<<"encode">>)' \/ (file'["input"].eof /\ ~Pending(<<"open", "input">>)')
    BY <1>1, <1>2, <1>4, <2>2 DEF Doing, SameWork
  <2>4. Wrong' => /\ Pending(<<"verify">>)'
                  /\ \A i \in 1 .. Len(file'["hash"].data) : file'["hash"].data[i] < 0
    <3>1. Wrong' <=> Wrong
      BY <1>2 DEF Wrong
    <3>2. Wrong => Pending(<<"verify">>)' /\ \A i \in 1 .. Len(file["hash"].data) : file["hash"].data[i] < 0
      BY <1>1, <1>4 DEF Doing, SameWork
    <3>3. QED
      BY <2>2, <3>1, <3>2
  <2>5. QED
    BY <1>5, <2>1, <2>3, <2>4 DEF Doing
<1>19. Waiting'
  BY <1>1, <1>2, SameWaiting
<1>20. pipe' \in Seq(Pipes) /\ child' \in Seq(Children) /\ ext_subprocs' \in Seq(Nat) /\ file' \in [Files -> OneFile]
  BY <1>1, <1>2 DEF TypeOK, Wrote
<1>21. QED
  BY <1>1, <1>2, <1>4, <1>11, <1>14, <1>15, <1>16, <1>17, <1>18, <1>19, <1>20, Together

\* What the recompressor has and what is in its pipe, with the next unit.
LEMMA Joined ==
  ASSUME NEW b \in Seq(Int), NEW u \in Seq(Int)
  PROVE  /\ b \o u \in Seq(Int) /\ Len(b \o u) = Len(b) + Len(u)
         /\ \A i \in 1 .. Len(b) : (b \o u)[i] = b[i]
         /\ \A i \in Len(b) + 1 .. Len(b) + Len(u) : (b \o u)[i] = u[i - Len(b)]
  OBVIOUS

LEMMA OneMore ==
  ASSUME NEW b \in Seq(Int), NEW u \in Seq(Int), NEW x \in Int
  PROVE  /\ Append(b \o u, x) = b \o Append(u, x) /\ Append(u, x) \in Seq(Int) /\ b \o u \in Seq(Int)
         /\ Append(b \o u, x) \in Seq(Int)
<1>1. PICK m \in Nat : m = Len(b)
  OBVIOUS
<1>2. PICK n \in Nat : n = Len(u)
  OBVIOUS
<1>11. PICK w : w = b \o u
  OBVIOUS
<1>3. /\ w \in Seq(Int) /\ w = b \o u /\ Len(w) = m + n
      /\ \A i \in 1 .. m : w[i] = b[i]
      /\ \A i \in m + 1 .. m + n : w[i] = u[i - m]
  BY <1>1, <1>2, <1>11, Joined
<1>4. PICK v \in Seq(Int) : v = Append(u, x) /\ Len(v) = n + 1 /\ (\A i \in 1 .. n : v[i] = u[i]) /\ v[n + 1] = x
  <2>1. PICK v : v = Append(u, x)
    OBVIOUS
  <2>2. v \in Seq(Int) /\ Len(v) = n + 1 /\ (\A i \in 1 .. n : v[i] = u[i]) /\ v[n + 1] = x
    BY <1>2, <2>1
  <2>3. QED
    BY <2>1, <2>2
<1>12. PICK s : s = Append(w, x)
  OBVIOUS
<1>13. PICK l \in Nat : l = m + n
  OBVIOUS
<1>5. /\ s \in Seq(Int) /\ s = Append(w, x) /\ Len(s) = l + 1
      /\ (\A i \in 1 .. l : s[i] = w[i]) /\ s[l + 1] = x
  <2>1. Len(w) = l /\ w \in Seq(Int)
    BY <1>3, <1>13
  <2>2. QED
    BY <1>12, <2>1
<1>14. PICK t : t = b \o v
  OBVIOUS
<1>6. /\ t \in Seq(Int) /\ t = b \o v /\ Len(t) = m + (n + 1)
      /\ \A i \in 1 .. m : t[i] = b[i]
      /\ \A i \in m + 1 .. m + (n + 1) : t[i] = v[i - m]
  <2>1. PICK k \in Nat : k = n + 1
    OBVIOUS
  <2>2. Len(v) = k
    BY <1>4, <2>1
  <2>3. /\ t \in Seq(Int) /\ Len(t) = m + k
        /\ \A i \in 1 .. m : t[i] = b[i]
        /\ \A i \in m + 1 .. m + k : t[i] = v[i - m]
    BY <1>1, <1>14, <2>2, Joined
  <2>4. QED
    BY <1>14, <2>1, <2>3
<1>7. Len(s) = l + 1 /\ Len(t) = l + 1 /\ s \in Seq(Int) /\ t \in Seq(Int)
  BY <1>5, <1>6, <1>13
<1>8. \A i \in 1 .. l + 1 : s[i] = t[i]
  <2> SUFFICES ASSUME NEW i \in 1 .. l + 1 PROVE s[i] = t[i]
    OBVIOUS
  <2>1. CASE i \in 1 .. m
    <3>1. i \in 1 .. l
      BY <1>13, <2>1
    <3>2. QED
      BY <1>3, <1>5, <1>6, <2>1, <3>1
  <2>2. CASE i \in m + 1 .. m + n
    <3>1. i \in 1 .. l /\ i \in m + 1 .. m + (n + 1) /\ i - m \in 1 .. n
      BY <1>13, <2>2
    <3>2. s[i] = w[i] /\ w[i] = u[i - m] /\ t[i] = v[i - m] /\ v[i - m] = u[i - m]
      BY <1>3, <1>4, <1>5, <1>6, <2>2, <3>1
    <3>3. QED
      BY <3>2
  <2>3. CASE i = l + 1
    <3>1. i \in m + 1 .. m + (n + 1) /\ i - m = n + 1
      BY <1>13, <2>3
    <3>2. t[i] = v[n + 1]
      BY <1>6, <3>1
    <3>3. QED
      BY <1>4, <1>5, <2>3, <3>2
  <2>4. i \in 1 .. m \/ i \in m + 1 .. m + n \/ i = l + 1
    BY <1>13
  <2>5. QED
    BY <2>1, <2>2, <2>3, <2>4
<1>9. s = t
  BY <1>7, <1>8
<1>10. QED
  BY <1>3, <1>4, <1>5, <1>6, <1>9, Zenon

LEMMA DecodeWriteKeeps ==
  ASSUME RunInv, DecodeWrite
  PROVE  RunInv'
<1>1. /\ At("decode") /\ Next1 <= Size
      /\ cmd' = cmd /\ script' = script /\ child' = child /\ ext_subprocs' = ext_subprocs /\ status' = status
  BY DEF DecodeWrite
<1>2. PICK unit \in Decodable :
        /\ file' = [file EXCEPT !["output"].data = Append(@, unit)]
        /\ IF file["output"].fd = -1 THEN pipe' = pipe
           ELSE /\ CanPut(file["output"].fd)
                /\ pipe' = [pipe EXCEPT ![file["output"].fd].units = Append(@, unit)]
  BY DEF DecodeWrite
<1>3. /\ TypeOK /\ ScriptOK /\ Paired /\ Recompressing /\ Writes
  BY RunParts
<1>4. "output" \in Files /\ "source" \in Files
  BY DEF Files
<1>5. PICK data \in Seq(Int) : data = file["output"].data
  BY <1>3, <1>4, Fields
<1>6. PICK src \in Seq(Int) : src = file["source"].data
  BY <1>3, <1>4, Fields
<1>7. PICK d \in Int : d = file["output"].fd
  BY <1>3, <1>4, Fields
<1>8. Len(data) < Size
  <2>1. Len(data) + 1 <= Size
    BY <1>1, <1>5 DEF Next1
  <2>2. Len(data) \in Nat /\ Size \in Nat
    BY WholeUnits
  <2>3. QED
    BY <2>1, <2>2
<1>9. unit \in Int
  <2>1. unit \in {Len(data) + 1} \cup IF Len(data) + 1 <= Len(src) THEN {src[Len(data) + 1]} ELSE {}
    BY <1>2, <1>5, <1>6 DEF Decodable, Next1
  <2>2. Len(data) \in Nat /\ Len(src) \in Nat
    OBVIOUS
  <2>3. PICK k \in Nat : k = Len(data) + 1 /\ k >= 1
    BY <2>2
  <2>4. k <= Len(src) => src[k] \in Int
    BY <2>2, <2>3
  <2>5. QED
    BY <2>1, <2>3, <2>4
<1>10. PICK x \in Int : x = unit
  BY <1>9
<1>11. PICK new \in Seq(Int) : new = Append(data, x)
  BY AppendTrue
<1>12. file' = [file EXCEPT !["output"].data = new]
  BY <1>2, <1>5, <1>10, <1>11
<1>13. /\ file' \in [Files -> OneFile] /\ \A g \in Files : g # "output" => file'[g] = file[g]
       /\ file'["output"].fd = file["output"].fd /\ file'["output"].data = new
  BY <1>3, <1>4, <1>12, SetData
<1>14. ~Unopened /\ Pending(<<"decode">>) /\ ~Pending(<<"output_parent">>)
  BY <1>1, DecodeParts
<1>15. IF cmd.tzip THEN d > 0 ELSE d = -1
  BY <1>3, <1>7, <1>14 DEF Writes
<1>16. CASE d = -1
  <2>1. pipe' = pipe
    BY <1>2, <1>7, <1>16
  <2>2. Wrote
    BY <1>1, <1>3, <1>13, <2>1 DEF Wrote, TypeOK
  <2>3. ~(d > 0)
    BY <1>16
  <2>4. QED
    BY <1>1, <1>5, <1>7, <1>8, <2>2, <2>3, WroteKeeps
<1>17. CASE d > 0
  <2>1. d # -1
    BY <1>17
  <2>2. d \in DOMAIN child /\ child[d].role = "recompressor" /\ 0 \in pipe[d].writers
    BY <1>3, <1>7, <1>17 DEF Writes, Recompressor, Child
  <2>3. d \in DOMAIN pipe /\ pipe \in Seq(Pipes)
    BY <1>3, <2>2, Lengths DEF Paired, TypeOK
  <2>4. PICK u \in Seq(Int) : u = pipe[d].units
    BY <1>3, <2>3, Fields
  <2>5. PICK b \in Seq(Int) : b = child[d].blk
    BY <1>3, <2>2, Fields
  <2>6. Gathering(d)
    BY <1>3, <2>2 DEF Recompressing
  <2>7. data = b \o u /\ (child[d].exit = "0" => pipe[d].writers = {}) /\ child[d].exit # "SIGPIPE"
    BY <1>5, <2>4, <2>5, <2>6 DEF Gathering
  <2>8. child[d].exit # "0"
    BY <2>2, <2>7
  <2>9. PICK v \in Seq(Int) : v = Append(u, x)
    BY OneMore
  <2>10. new = b \o v
    <3>1. Append(b \o u, x) = b \o Append(u, x)
      BY OneMore, ZenonT(60)
    <3>2. QED
      BY <1>11, <2>7, <2>9, <3>1, Zenon
  <2>11. pipe' = [pipe EXCEPT ![d].units = v]
    BY <1>2, <1>7, <1>10, <2>1, <2>4, <2>9
  <2>12. /\ pipe' \in Seq(Pipes) /\ Len(pipe') = Len(pipe) /\ DOMAIN pipe' = DOMAIN pipe
         /\ pipe'[d].units = v /\ pipe'[d].writers = pipe[d].writers
         /\ \A q \in DOMAIN pipe : q # d => pipe'[q] = pipe[q]
    BY <2>3, <2>11, SetUnits
  <2>13. Wrote
    BY <1>1, <1>7, <1>13, <2>12 DEF Wrote
  <2>14. Gathering(d)'
    <3>1. file'["output"].data = child'[d].blk \o pipe'[d].units
      BY <1>1, <1>13, <2>5, <2>10, <2>12
    <3>2. child'[d].exit # "0" /\ child'[d].exit # "SIGPIPE"
      BY <1>1, <2>7, <2>8
    <3>3. QED
      BY <3>1, <3>2 DEF Gathering
  <2>15. Gathering(file["output"].fd)'
    <3>1. file'["output"].fd = d
      BY <1>7, <1>13
    <3>2. QED
      BY <2>14, <3>1 DEF Gathering
  <2>16. pipe'[file["output"].fd].writers = pipe[file["output"].fd].writers
    BY <1>7, <2>12
  <2>17. Len(file["output"].data) < Size
    BY <1>5, <1>8
  <2>18. QED
    BY <1>1, <2>13, <2>15, <2>16, <2>17, WroteKeeps
<1>18. QED
  BY <1>15, <1>16, <1>17

-----------------------------------------------------------------------------
(* The end of a command *)

LEMMA SameElements ==
  ASSUME NEW s \in Seq(Int), NEW t \in Seq(Int), Len(s) = Len(t), \A i \in 1 .. Len(t) : s[i] = t[i]
  PROVE  s = t
  OBVIOUS

LEMMA NothingMore ==
  ASSUME NEW b \in Seq(Int)
  PROVE  b \o <<>> = b
<1>1. PICK e \in Seq(Int) : e = <<>> /\ Len(e) = 0
  BY NoUnits, NoLength
<1>2. PICK n \in Nat : n = Len(b)
  OBVIOUS
<1>3. PICK t : t = b \o e
  OBVIOUS
<1>4. t \in Seq(Int) /\ Len(t) = n /\ \A i \in 1 .. n : t[i] = b[i]
  BY <1>1, <1>2, <1>3, Joined
<1>5. t = b
  <2>1. PICK u \in Seq(Int) : u = t
    BY <1>4
  <2>2. Len(u) = Len(b) /\ \A i \in 1 .. Len(b) : u[i] = b[i]
    BY <1>2, <1>4, <2>1
  <2>3. u = b
    BY <2>2, SameElements
  <2>4. QED
    BY <2>1, <2>3
<1>6. QED
  BY <1>1, <1>3, <1>5

\* Everything has been waited for, and nothing is left to do.
LEMMA AllDone ==
  ASSUME RunInv, At("finish"), Subject > Len(ext_subprocs)
  PROVE  /\ \A q \in DOMAIN child : child[q].at = "exited" /\ child[q].exit \in {"0", "SIGPIPE"}
         /\ ~Pending(<<"encode">>) /\ ~Pending(<<"compare">>) /\ ~Pending(<<"verify">>) /\ ~Unopened
<1>1. TypeOK /\ ScriptOK /\ Paired /\ Waiting /\ Doing /\ ext_subprocs \in Seq(Nat)
  BY RunParts
<1>2. script # <<>> /\ script[1] \in Steps /\ script[1][1] = "finish" /\ Subject = script[1][2]
  BY <1>1, AtHead
<1>3. PICK k \in Nat : k = Subject
  BY <1>2, StepFields
<1>4. \A i \in 1 .. Len(ext_subprocs) : ext_subprocs[i] = 0
  <2>1. \A i \in 1 .. Len(ext_subprocs) : i < k
    <3>1. Len(ext_subprocs) \in Nat /\ k > Len(ext_subprocs)
      BY <1>1, <1>3
    <3>2. QED
      BY <3>1
  <2>2. \A i \in 1 .. Len(ext_subprocs) : i < Subject => ext_subprocs[i] = 0
    BY <1>1 DEF Doing
  <2>3. QED
    BY <1>3, <2>1, <2>2
<1>5. \A q \in DOMAIN child : child[q].exit \in {"0", "SIGPIPE"}
  <2> TAKE q \in DOMAIN child
  <2>1. q # 0
    BY <1>1, Lengths
  <2>2. QED
    BY <1>1, <1>4, <2>1 DEF Waiting
<1>6. \A q \in DOMAIN child : child[q].at = "exited"
  <2>1. \A q \in DOMAIN child : child[q].exit # ""
    BY <1>5
  <2>2. QED
    BY <1>1, <2>1 DEF Paired
<1>7. Turn(script[1]) = 9 /\ script[1][1] # "read"
  BY <1>2, Turns
<1>8. PICK a : a = <<"encode">>
  OBVIOUS
<1>9. PICK b : b = <<"compare">>
  OBVIOUS
<1>10. PICK c : c = <<"verify">>
  OBVIOUS
<1>11. PICK d : d = <<"output">>
  OBVIOUS
<1>12. PICK e : e = <<"recompress">>
  OBVIOUS
<1>13. /\ a \in Steps /\ b \in Steps /\ c \in Steps /\ d \in Steps /\ e \in Steps
       /\ Turn(a) = 6 /\ Turn(b) = 8 /\ Turn(c) = 2 /\ Turn(d) = 3 /\ Turn(e) = 4
  BY <1>8, <1>9, <1>10, <1>11, <1>12, StepsMade, TurnValues
<1>14. a[1] # "read" /\ b[1] # "read" /\ c[1] # "read" /\ d[1] # "read" /\ e[1] # "read"
  BY <1>8, <1>9, <1>10, <1>11, <1>12
<1>15. \A x \in Steps : x[1] # "read" /\ Turn(x) < 9 => ~Pending(x)
  BY <1>1, <1>2, <1>7, Passed
<1>16. ~Pending(a) /\ ~Pending(b) /\ ~Pending(c) /\ ~Pending(d) /\ ~Pending(e)
  BY <1>13, <1>14, <1>15
<1>17. QED
  BY <1>5, <1>6, <1>8, <1>9, <1>10, <1>11, <1>12, <1>16 DEF Unopened

LEMMA FinishDone ==
  ASSUME RunInv, At("finish"), Subject > Len(ext_subprocs), Exit("0")
  PROVE  (\A q \in DOMAIN child' : child'[q].at = "exited") /\ ExitTrue' /\ ~Wrong /\ cmd' = cmd
<1>1. TypeOK /\ Recompressing /\ InputTrue /\ Writes /\ Doing
  BY RunParts
<1>2. /\ \A q \in DOMAIN child : child[q].at = "exited" /\ child[q].exit \in {"0", "SIGPIPE"}
      /\ ~Pending(<<"encode">>) /\ ~Pending(<<"compare">>) /\ ~Pending(<<"verify">>) /\ ~Unopened
  BY AllDone
<1>3. /\ cmd' = cmd /\ file' = file
      /\ child' = [pid \in DOMAIN child |-> IF pid \in Outstanding THEN Killed(pid) ELSE child[pid]]
  BY DEF Exit
<1>4. DOMAIN child' = DOMAIN child /\ \A q \in DOMAIN child : child'[q] = child[q]
  <2>1. \A q \in DOMAIN child : q \notin Outstanding
    BY <1>2 DEF Outstanding
  <2>2. QED
    BY <1>3, <2>1
<1>5. \A q \in DOMAIN child' : child'[q].at = "exited"
  BY <1>2, <1>4
<1>6. ~Wrong
  BY <1>1, <1>2 DEF Doing
<1>7. cmd.op = "ENCODE" => file["input"].data = Whole
  <2>1. cmd.op = "ENCODE" => file["input"].eof
    BY <1>1, <1>2 DEF Doing
  <2>2. file["input"].eof => file["input"].data = Whole \/ \E q \in DOMAIN child : child[q].exit = "1"
    BY <1>1 DEF InputTrue
  <2>3. \A q \in DOMAIN child : child[q].exit # "1"
    BY <1>2
  <2>4. QED
    BY <2>1, <2>2, <2>3
<1>8. cmd.op = "DECODE" /\ cmd.armor => file["output"].data = Whole
  BY <1>1, <1>2 DEF Doing
<1>9. ASSUME cmd.op = "DECODE", cmd.armor, cmd.tzip
      PROVE  \E q \in DOMAIN child : child[q].role = "recompressor" /\ child[q].exit = "0" /\ child[q].blk = Whole
  <2>1. PICK q \in DOMAIN child : child[q].role = "recompressor"
    BY <1>1, <1>2, <1>9 DEF Writes
  <2>2. Gathering(q)
    BY <1>1, <2>1 DEF Recompressing
  <2>3. child[q].exit = "0"
    <3>1. child[q].exit # "SIGPIPE"
      BY <2>2 DEF Gathering
    <3>2. QED
      BY <1>2, <3>1
  <2>4. PICK b \in Seq(Int) : b = child[q].blk
    BY <1>1, Fields
  <2>5. file["output"].data = b \o <<>>
    BY <2>2, <2>3, <2>4 DEF Gathering
  <2>6. b = Whole
    BY <1>8, <1>9, <2>5, NothingMore
  <2>7. QED
    BY <2>1, <2>3, <2>4, <2>6
<1>10. ExitTrue'
  <2>1. cmd'.op = "ENCODE" => file'["input"].data = Whole
    BY <1>3, <1>7
  <2>2. cmd'.op = "DECODE" /\ cmd'.armor => file'["output"].data = Whole
    BY <1>3, <1>8
  <2>3. cmd'.op = "DECODE" /\ cmd'.armor /\ cmd'.tzip =>
          \E q \in DOMAIN child' : child'[q].role = "recompressor" /\ child'[q].exit = "0" /\ child'[q].blk = Whole
    BY <1>3, <1>4, <1>9
  <2>4. QED
    BY <2>1, <2>2, <2>3 DEF ExitTrue
<1>11. QED
  BY <1>3, <1>5, <1>6, <1>10

\* How a step of main ends: the command goes on, stops without success, or is done.
Stopped == file' = file /\ cmd' = cmd /\ status' \in {"1", "up_to_date", "killed"}
GoesOn  == RunInv' /\ status' = status
Finished == At("finish") /\ Subject > Len(ext_subprocs) /\ Exit("0")
Outcome == GoesOn \/ Stopped \/ Finished

LEMMA ExitStops ==
  ASSUME NEW how \in {"1", "up_to_date"}, Exit(how)
  PROVE  Outcome
<1>1. file' = file /\ cmd' = cmd /\ status' = how
  BY DEF Exit
<1>2. QED
  BY <1>1 DEF Outcome, Stopped

LEMMA OpenFileOutcome ==
  ASSUME RunInv, OpenFile
  PROVE  Outcome
<1>1. RunInv'
  <2>1. CASE Compressed(Subject)
    BY <2>1, OpenCompressed DEF OpenFile
  <2>2. CASE ~Compressed(Subject)
    BY <2>2, OpenPlain DEF OpenFile
  <2>3. QED
    BY <2>1, <2>2
<1>2. QED
  BY <1>1 DEF Outcome, GoesOn, OpenFile

LEMMA ForkOutcome ==
  ASSUME RunInv, ForkDecompressor \/ ForkCopier \/ ForkRecompressor
  PROVE  Outcome
<1>1. RunInv'
  BY ForkDecompressorKeeps, ForkCopierKeeps, ForkRecompressorKeeps
<1>2. QED
  BY <1>1 DEF Outcome, GoesOn, ForkDecompressor, ForkCopier, ForkRecompressor

LEMMA ParentOutcome ==
  ASSUME RunInv, ParentCloses \/ OutputParent \/ CloseFile \/ DecodeWrite
  PROVE  Outcome
<1>1. RunInv'
  BY ParentClosesKeeps, OutputParentKeeps, CloseFileKeeps, DecodeWriteKeeps
<1>2. status' = status
  BY DEF ParentCloses, OutputParent, CloseFile, DecodeWrite
<1>3. QED
  BY <1>1, <1>2 DEF Outcome, GoesOn

LEMMA ReadUnitOutcome ==
  ASSUME RunInv, ReadUnit
  PROVE  Outcome
<1>1. Reading /\ Left > 0 /\ Do(<<<<"read", Subject, Left - 1>>>>) /\ UNCHANGED <<cmd, child, ext_subprocs, status>>
  BY DEF ReadUnit
<1>2. \/ /\ From = -1 /\ pipe' = pipe
         /\ file' = [file EXCEPT ![Subject].data = Append(@, Given(Len(@) + 1))]
      \/ /\ From > 0 /\ CanTake(From)
         /\ file' = [file EXCEPT ![Subject].data = Append(@, Given(Head(pipe[From].units)))]
         /\ pipe' = [pipe EXCEPT ![From].units = Tail(@)]
  BY DEF ReadUnit
<1>3. RunInv'
  BY <1>1, <1>2, ReadFile, ReadPipe
<1>4. QED
  BY <1>1, <1>3 DEF Outcome, GoesOn

LEMMA ReadEndsOutcome ==
  ASSUME RunInv, ReadEnds
  PROVE  Outcome
<1>1. Reading /\ Do(<<>>) /\ UNCHANGED <<cmd, pipe, child, ext_subprocs, status>>
  BY DEF ReadEnds
<1>2. \/ file' = file
      \/ /\ IF From = -1 THEN Len(file[Subject].data) = Size ELSE AtEnd(From)
         /\ file' = [file EXCEPT ![Subject].eof = TRUE]
  BY DEF ReadEnds
<1>3. RunInv'
  BY <1>1, <1>2, ReadStops, ReadEof
<1>4. QED
  BY <1>1, <1>3 DEF Outcome, GoesOn

LEMMA FinishOutcome ==
  ASSUME RunInv, Finish
  PROVE  Outcome
<1>1. At("finish")
  BY DEF Finish
<1>2. CASE Subject > Len(ext_subprocs)
  BY <1>1, <1>2 DEF Finish, Outcome, Finished
<1>3. CASE ~(Subject > Len(ext_subprocs)) /\ ~Normal(ext_subprocs[Subject])
  <2>1. Exit("1")
    BY <1>3 DEF Finish
  <2>2. QED
    BY <2>1, ExitStops
<1>4. CASE ~(Subject > Len(ext_subprocs)) /\ Normal(ext_subprocs[Subject])
  <2>1. Subject <= Len(ext_subprocs)
    <3>1. ScriptOK /\ ext_subprocs \in Seq(Nat)
      BY RunParts
    <3>2. script[1] \in Steps /\ script[1][1] = "finish" /\ Subject = script[1][2]
      BY <1>1, <3>1, AtHead
    <3>3. PICK k \in Nat : k = Subject
      BY <3>2, StepFields
    <3>4. PICK l \in Nat : l = Len(ext_subprocs)
      BY <3>1
    <3>5. k <= l
      BY <1>4, <3>3, <3>4
    <3>6. QED
      BY <3>3, <3>4, <3>5
  <2>2. /\ ext_subprocs' = [ext_subprocs EXCEPT ![Subject] = 0] /\ Do(<<<<"finish", Subject + 1>>>>)
        /\ UNCHANGED <<cmd, file, pipe, child, status>>
    BY <1>4 DEF Finish
  <2>3. RunInv'
    BY <1>1, <1>4, <2>1, <2>2, FinishGoesOn
  <2>4. QED
    BY <2>2, <2>3 DEF Outcome, GoesOn
<1>5. QED
  BY <1>2, <1>3, <1>4

LEMMA ReapOutcome ==
  ASSUME RunInv, Reap
  PROVE  Outcome
<1>1. At("reap")
  BY DEF Reap
<1>2. \/ /\ Normal(Last(ext_subprocs)) /\ Normal(Last(Front(ext_subprocs)))
         /\ ext_subprocs' = Front(Front(ext_subprocs)) /\ Do(<<>>) /\ UNCHANGED <<cmd, file, pipe, child, status>>
      \/ Exit("1")
  BY DEF Reap
<1>3. CASE Exit("1")
  BY <1>3, ExitStops
<1>4. CASE /\ Normal(Last(ext_subprocs)) /\ Normal(Last(Front(ext_subprocs)))
           /\ ext_subprocs' = Front(Front(ext_subprocs)) /\ Do(<<>>) /\ UNCHANGED <<cmd, file, pipe, child, status>>
  BY <1>1, <1>4, ReapGoesOn DEF Outcome, GoesOn
<1>5. QED
  BY <1>2, <1>3, <1>4

LEMMA ArmorOutcome ==
  ASSUME RunInv, Hash \/ Verify \/ Compare
  PROVE  Outcome
<1>1. CASE Hash
  <2>1. RunInv'
    BY <1>1, HashKeeps
  <2>2. status' = status
    BY <1>1 DEF Hash
  <2>3. QED
    BY <2>1, <2>2 DEF Outcome, GoesOn
<1>2. CASE Verify
  <2>1. PICK n \in {"encode", "decode", "verify", "compare"} : n = "verify"
    OBVIOUS
  <2>2. At(n)
    BY <1>2, <2>1 DEF Verify
  <2>3. CASE file["hash"].data = Whole
    <3>1. Do(<<>>) /\ UNCHANGED <<cmd, file, pipe, child, ext_subprocs, status>>
      BY <1>2, <2>3 DEF Verify
    <3>2. n # "encode" /\ n # "compare"
      BY <2>1
    <3>3. RunInv'
      BY <2>2, <2>3, <3>1, <3>2, PopOnly
    <3>4. QED
      BY <3>1, <3>3 DEF Outcome, GoesOn
  <2>4. CASE file["hash"].data # Whole
    <3>1. PICK how \in {"1", "up_to_date"} : how = IF cmd.source = "target" THEN "up_to_date" ELSE "1"
      OBVIOUS
    <3>2. Exit(how)
      BY <1>2, <2>4, <3>1 DEF Verify
    <3>3. QED
      BY <3>2, ExitStops
  <2>5. QED
    BY <2>3, <2>4
<1>3. CASE Compare
  <2>1. PICK n \in {"encode", "decode", "verify", "compare"} : n = "compare"
    OBVIOUS
  <2>2. At(n)
    BY <1>3, <2>1 DEF Compare
  <2>3. CASE file["output"].data = Whole
    <3>1. Do(<<>>) /\ UNCHANGED <<cmd, file, pipe, child, ext_subprocs, status>>
      BY <1>3, <2>3 DEF Compare
    <3>2. n # "encode" /\ n # "verify"
      BY <2>1
    <3>3. RunInv'
      BY <2>2, <2>3, <3>1, <3>2, PopOnly
    <3>4. QED
      BY <3>1, <3>3 DEF Outcome, GoesOn
  <2>4. CASE file["output"].data # Whole
    <3>1. Exit("1")
      BY <1>3, <2>4 DEF Compare
    <3>2. QED
      BY <3>1, ExitStops
  <2>5. QED
    BY <2>3, <2>4
<1>4. QED
  BY <1>1, <1>2, <1>3

LEMMA WindowOutcome ==
  ASSUME RunInv, ReadSource \/ EncodeWindow
  PROVE  Outcome
<1>1. "source" \in Inputs /\ "input" \in Inputs
  BY DEF Inputs
<1>2. CASE ReadSource
  <2>1. PICK n \in {"encode", "decode", "hash"} : At(n)
    BY <1>2 DEF ReadSource
  <2>2. PICK f \in Inputs : f = "source"
    BY <1>1
  <2>3. /\ file[f].fd # 0 /\ f # "input" /\ script' = <<<<"read", f, WindowSize>>>> \o script
        /\ UNCHANGED <<cmd, file, pipe, child, ext_subprocs, status>>
    BY <1>2, <2>2 DEF ReadSource
  <2>4. RunInv'
    BY <2>1, <2>3, PushRead
  <2>5. QED
    BY <2>3, <2>4 DEF Outcome, GoesOn
<1>3. CASE EncodeWindow
  <2>1. PICK n \in {"encode", "decode", "hash"} : n = "encode"
    OBVIOUS
  <2>2. PICK f \in Inputs : f = "input"
    BY <1>1
  <2>3. /\ At(n) /\ ~file[f].eof /\ script' = <<<<"read", f, WindowSize>>>> \o script
        /\ UNCHANGED <<cmd, file, pipe, child, ext_subprocs, status>>
    BY <1>3, <2>1, <2>2 DEF EncodeWindow
  <2>4. file[f].fd # 0
    <3>1. ScriptOK /\ InputTrue
      BY RunParts
    <3>2. script # <<>> /\ script[1] \in Steps /\ script[1][1] = "encode" /\ 1 \in 1 .. Len(script)
      BY <2>1, <2>3, <3>1, AtHead
    <3>3. script[1] = <<"encode">>
      BY <3>2, StepFields
    <3>4. Pending(<<"encode">>)
      BY <3>2, <3>3 DEF Pending, Among
    <3>5. ~Pending(<<"open", "input">>)
      <4>1. PICK x : x = <<"open", "input">>
        OBVIOUS
      <4>2. Turn(script[1]) = 6 /\ script[1][1] # "read"
        BY <3>2, Turns
      <4>3. x \in Steps /\ Turn(x) = 1
        BY <1>1, <4>1, StepsMade, TurnValues
      <4>4. x[1] # "read"
        BY <4>1
      <4>5. Turn(x) < Turn(script[1])
        BY <4>2, <4>3
      <4>6. ~Pending(x)
        BY <3>1, <3>2, <4>2, <4>3, <4>4, <4>5, Passed, Zenon
      <4>7. QED
        BY <4>1, <4>6
    <3>6. QED
      BY <2>2, <3>1, <3>4, <3>5 DEF InputTrue
  <2>5. RunInv'
    BY <2>1, <2>2, <2>3, <2>4, PushRead
  <2>6. QED
    BY <2>3, <2>5 DEF Outcome, GoesOn
<1>4. QED
  BY <1>2, <1>3

LEMMA EndsOutcome ==
  ASSUME RunInv, EncodeEnds \/ DecodeEnds
  PROVE  Outcome
<1>1. Do(<<>>) /\ UNCHANGED <<cmd, file, pipe, child, ext_subprocs, status>>
  BY DEF EncodeEnds, DecodeEnds
<1>2. PICK n \in {"encode", "decode", "verify", "compare"} :
        At(n) /\ ((n = "encode" /\ file["input"].eof) \/ n = "decode")
  BY DEF EncodeEnds, DecodeEnds
<1>3. n # "verify" /\ n # "compare" /\ (n = "encode" => file["input"].eof)
  BY <1>2
<1>4. RunInv'
  BY <1>1, <1>2, <1>3, PopOnly
<1>5. QED
  BY <1>1, <1>4 DEF Outcome, GoesOn

LEMMA OutputOutcome ==
  ASSUME RunInv, OpenOutput
  PROVE  Outcome
<1>1. At("output") /\ OutputOpened /\ UNCHANGED <<cmd, pipe, child, ext_subprocs, status>>
  BY DEF OpenOutput, OutputOpened
<1>2. RunInv'
  <2>1. CASE cmd.tzip
    <3>1. Do(RecompressSteps)
      BY <2>1 DEF OpenOutput, RecompressSteps
    <3>2. QED
      BY <1>1, <2>1, <3>1, OutputCompressed
  <2>2. CASE ~cmd.tzip
    <3>1. Do(<<>>)
      BY <2>2 DEF OpenOutput
    <3>2. QED
      BY <1>1, <2>2, <3>1, OutputPlain
  <2>3. QED
    BY <2>1, <2>2
<1>3. QED
  BY <1>1, <1>2 DEF Outcome, GoesOn

LEMMA BrokenOutcome ==
  ASSUME WriteBroken \/ DecodeFails
  PROVE  Outcome
<1>1. CASE WriteBroken
  BY <1>1 DEF WriteBroken, Outcome, Stopped
<1>2. CASE DecodeFails
  <2>1. Exit("1")
    BY <1>2 DEF DecodeFails
  <2>2. QED
    BY <2>1, ExitStops
<1>3. QED
  BY <1>1, <1>2

LEMMA MainOutcome ==
  ASSUME RunInv, MainStep
  PROVE  Outcome
<1>1. CASE OpenFile
  BY <1>1, OpenFileOutcome
<1>2. CASE ForkDecompressor \/ ForkCopier \/ ForkRecompressor
  BY <1>2, ForkOutcome
<1>3. CASE ParentCloses \/ OutputParent \/ CloseFile \/ DecodeWrite
  BY <1>3, ParentOutcome
<1>4. CASE ReadUnit
  BY <1>4, ReadUnitOutcome
<1>5. CASE ReadEnds
  BY <1>5, ReadEndsOutcome
<1>6. CASE Finish
  BY <1>6, FinishOutcome
<1>7. CASE Reap
  BY <1>7, ReapOutcome
<1>8. CASE Hash \/ Verify \/ Compare
  BY <1>8, ArmorOutcome
<1>9. CASE ReadSource \/ EncodeWindow
  BY <1>9, WindowOutcome
<1>10. CASE EncodeEnds \/ DecodeEnds
  BY <1>10, EndsOutcome
<1>11. CASE OpenOutput
  BY <1>11, OutputOutcome
<1>12. CASE WriteBroken \/ DecodeFails
  BY <1>12, BrokenOutcome
<1>13. QED
  BY <1>1, <1>2, <1>3, <1>4, <1>5, <1>6, <1>7, <1>8, <1>9, <1>10, <1>11, <1>12 DEF MainStep

\* Before the digest of the source is compared main only closes the output.
LEMMA NotYet ==
  ASSUME RunInv, NEW n, At(n), n \in {"output", "output_parent", "decode"}
  PROVE  ~Pending(<<"verify">>)
<1>1. ScriptOK
  BY RunParts
<1>2. script # <<>> /\ script[1] \in Steps /\ script[1][1] = n
  BY <1>1, AtHead
<1>3. Turn(script[1]) \in {3, 5, 6} /\ script[1][1] # "read"
  BY <1>2, Turns
<1>4. PICK x : x = <<"verify">>
  OBVIOUS
<1>5. x \in Steps /\ Turn(x) = 2
  BY <1>4, StepsMade, TurnValues
<1>6. x[1] # "read"
  BY <1>4
<1>7. Turn(x) < Turn(script[1])
  BY <1>3, <1>5
<1>8. ~Pending(x)
  BY <1>1, <1>2, <1>3, <1>5, <1>6, <1>7, Passed, Zenon
<1>9. QED
  BY <1>4, <1>8

\* The other files.
LEMMA OtherFile ==
  ASSUME file \in [Files -> OneFile], NEW f, f # "output", NEW r, file' = [file EXCEPT ![f] = r]
  PROVE  file'["output"] = file["output"]
  BY DEF Files

LEMMA FdClosed ==
  ASSUME file \in [Files -> OneFile], NEW f, file' = [file EXCEPT ![f].fd = 0]
  PROVE  file'["output"].fd = file["output"].fd \/ file'["output"].fd = 0
<1>1. "output" \in Files /\ file["output"] \in OneFile
  BY DEF Files
<1>2. CASE f # "output"
  <2>1. file' = [file EXCEPT ![f] = [file[f] EXCEPT !.fd = 0]]
    OBVIOUS
  <2>2. QED
    BY <1>2, <2>1, OtherFile
<1>3. CASE f = "output"
  <2>1. file'["output"] = [file["output"] EXCEPT !.fd = 0]
    BY <1>1, <1>3
  <2>2. QED
    BY <1>1, <2>1 DEF OneFile
<1>4. QED
  BY <1>2, <1>3

\* An input that is opened or read is not the output.
LEMMA InputSteps ==
  ASSUME RunInv, OpenFile \/ ParentCloses \/ ReadUnit \/ ReadEnds
  PROVE  file'["output"] = file["output"]
<1>1. TypeOK /\ ScriptOK /\ file \in [Files -> OneFile]
  BY RunParts DEF TypeOK, OneFile
<1>2. PICK n \in {"open", "parent", "read"} : At(n)
  BY DEF OpenFile, ParentCloses, ReadUnit, ReadEnds, Reading
<1>3. script[1] \in Steps /\ script[1][1] = n /\ Subject = script[1][2]
  BY <1>1, <1>2, AtHead
<1>4. Subject \in Inputs
  BY <1>2, <1>3, StepFields
<1>5. Subject # "output"
  BY <1>4 DEF Inputs
<1>6. PICK f : f = Subject
  OBVIOUS
<1>7. file' = file \/ \E r : file' = [file EXCEPT ![f] = r]
  <2>1. OpenFile => file' = [file EXCEPT ![f] = [Closed EXCEPT !.fd = -1]]
    BY <1>6 DEF OpenFile
  <2>2. ParentCloses => file' = [file EXCEPT ![f].fd = Len(pipe) - 1]
    BY <1>6 DEF ParentCloses
  <2>3. ReadUnit => \E u : file' = [file EXCEPT ![f].data = Append(@, u)]
    BY <1>6 DEF ReadUnit
  <2>4. ReadEnds => file' = file \/ file' = [file EXCEPT ![f].eof = TRUE]
    BY <1>6 DEF ReadEnds
  <2>5. QED
    BY <2>1, <2>2, <2>3, <2>4
<1>8. QED
  BY <1>1, <1>5, <1>6, <1>7, OtherFile

LEMMA OutputClosed ==
  ASSUME RunInv, MainStep, Pending(<<"verify">>)
  PROVE  file'["output"].fd = file["output"].fd \/ file'["output"].fd = 0
<1>1. file \in [Files -> OneFile]
  BY RunParts DEF TypeOK, OneFile
<1>2. CASE OpenFile \/ ParentCloses \/ ReadUnit \/ ReadEnds
  BY <1>2, InputSteps
<1>3. CASE CloseFile \/ Hash
  <2>1. file' = file \/ \E f : file' = [file EXCEPT ![f].fd = 0]
    BY <1>3 DEF CloseFile, Hash, Close
  <2>2. QED
    BY <1>1, <2>1, FdClosed
<1>4. CASE OpenOutput \/ OutputParent \/ DecodeWrite
  <2>1. \E n \in {"output", "output_parent", "decode"} : At(n)
    BY <1>4 DEF OpenOutput, OutputParent, DecodeWrite
  <2>2. QED
    BY <2>1, NotYet
<1>5. CASE \/ ForkDecompressor \/ ForkCopier \/ Finish \/ Reap \/ Verify \/ Compare \/ ReadSource \/ EncodeWindow
           \/ EncodeEnds \/ ForkRecompressor \/ WriteBroken \/ DecodeFails \/ DecodeEnds
  BY <1>5 DEF ForkDecompressor, ForkCopier, Finish, Reap, Verify, Compare, ReadSource, EncodeWindow,
              EncodeEnds, ForkRecompressor, WriteBroken, DecodeFails, DecodeEnds, Exit
<1>6. QED
  BY <1>2, <1>3, <1>4, <1>5 DEF MainStep

-----------------------------------------------------------------------------
(* Every step *)

LEMMA MainKeeps ==
  ASSUME MainInv, MainStep
  PROVE  MainInv'
<1>1. status = "running"
  BY DEF MainStep, At, Running, OpenFile, ForkDecompressor, ForkCopier, ParentCloses, ReadUnit, ReadEnds, Reading,
         CloseFile, Finish, Hash, Reap, Verify, Compare, ReadSource, EncodeWindow, EncodeEnds, OpenOutput,
         ForkRecompressor, OutputParent, DecodeWrite, WriteBroken, DecodeFails, DecodeEnds
<1>2. RunInv /\ VerifiedFirst
  BY <1>1 DEF MainInv
<1>3. Outcome
  BY <1>2, MainOutcome
<1>4. CASE GoesOn
  <2>1. RunInv' /\ status' = "running" /\ status # "0" /\ status' # "0"
    BY <1>1, <1>4 DEF GoesOn
  <2>2. cmd' = cmd
    BY DEF MainStep, OpenFile, ForkDecompressor, ForkCopier, ParentCloses, ReadUnit, ReadEnds, CloseFile, Finish,
           Hash, Reap, Verify, Compare, ReadSource, EncodeWindow, EncodeEnds, OpenOutput, ForkRecompressor,
           OutputParent, DecodeWrite, WriteBroken, DecodeFails, DecodeEnds, Exit
  <2>3. Wrong' => Wrong /\ Pending(<<"verify">>)
    <3>1. Doing
      BY <1>2, RunParts
    <3>2. Wrong' => Wrong
      BY <2>2 DEF Wrong
    <3>3. QED
      BY <3>1, <3>2 DEF Doing
  <2>4. Wrong' => file'["output"].fd = 0
    <3>1. Wrong => file["output"].fd = 0
      BY <1>2 DEF VerifiedFirst, Wrong
    <3>2. QED
      BY <1>2, <2>3, <3>1, OutputClosed
  <2>5. VerifiedFirst'
    BY <2>1, <2>4 DEF VerifiedFirst, Wrong
  <2>6. QED
    BY <2>1, <2>5 DEF MainInv, ExitTrue
<1>5. CASE Stopped
  <2>1. file' = file /\ cmd' = cmd /\ status' # "running" /\ status' # "0"
    BY <1>5 DEF Stopped
  <2>2. VerifiedFirst'
    BY <1>2, <2>1 DEF VerifiedFirst
  <2>3. QED
    BY <2>1, <2>2 DEF MainInv, ExitTrue
<1>6. CASE Finished
  <2>1. (\A q \in DOMAIN child' : child'[q].at = "exited") /\ ExitTrue' /\ ~Wrong /\ cmd' = cmd
    BY <1>2, <1>6, FinishDone DEF Finished
  <2>2. status' = "0"
    BY <1>6 DEF Finished, Exit
  <2>3. VerifiedFirst'
    BY <2>1 DEF VerifiedFirst, Wrong
  <2>4. QED
    BY <2>1, <2>2, <2>3 DEF MainInv
<1>7. QED
  BY <1>3, <1>4, <1>5, <1>6 DEF Outcome

LEMMA ChildrenKeep ==
  ASSUME MainInv, NEW pid, ChildStep(pid) \/ Failure(pid)
  PROVE  MainInv'
<1>1. UNCHANGED <<cmd, script, file, ext_subprocs, status>>
  BY DEF ChildStep, Failure
<1>2. pid \in DOMAIN child /\ child[pid].at \in {"forked", "running"}
  BY DEF ChildStep, Failure, ChildStarts, CopierWrites, CopierReads, CopierReadFails, CopierExits,
         DecompressorReads, DecompressorWrites, Recompresses, ChildFails, Runs, Child
<1>3. status # "0"
  BY <1>2 DEF MainInv
<1>4. VerifiedFirst'
  BY <1>1 DEF MainInv, VerifiedFirst
<1>5. status = "running" => RunInv'
  BY ChildKeeps DEF MainInv
<1>6. QED
  BY <1>1, <1>3, <1>4, <1>5 DEF MainInv, ExitTrue

LEMMA NextKeeps == MainInv /\ [MainNext]_mainVars => MainInv'
<1> SUFFICES ASSUME MainInv, [MainNext]_mainVars PROVE MainInv'
  OBVIOUS
<1>1. CASE MainStep
  BY <1>1, MainKeeps
<1>2. ASSUME NEW pid, ChildStep(pid) \/ Failure(pid) PROVE MainInv'
  BY <1>2, ChildrenKeep
<1>3. CASE UNCHANGED mainVars
  <2>1. UNCHANGED <<cmd, script, file, pipe, child, ext_subprocs, status>>
    BY <1>3 DEF mainVars
  <2>2. TypeOK' = TypeOK /\ Ordered(script)' = Ordered(script) /\ Chained(script)' = Chained(script)
    BY <2>1 DEF TypeOK
  <2>3. Paired' = Paired
    BY <2>1 DEF Paired, Child, Decompressor
  <2>4. Decompressing' = Decompressing
    BY <2>1 DEF Decompressing, Making, Taken
  <2>5. Recompressing' = Recompressing
    BY <2>1 DEF Recompressing, Gathering
  <2>6. Waiting' = Waiting
    BY <2>1 DEF Waiting
  <2>7. Piped' = Piped
    BY <2>1 DEF Piped, Feeds, Decompressor, Child, Taken
  <2>8. InputTrue' = InputTrue
    BY <2>1 DEF InputTrue, At, Running, From, Subject, Pending
  <2>9. Forking' = Forking
    BY <2>1 DEF Forking, At, Running, Subject, Then, Fed, Feeds, Taken, Decompressor, Recompressor, Child
  <2>10. Writes' = Writes
    BY <2>1 DEF Writes, Unopened, Pending, Recompressor, Child
  <2>11. Doing' = Doing
    BY <2>1 DEF Doing, Wrong, Pending, At, Running, Subject
  <2>12. RunInv' = RunInv
    BY <2>2, <2>3, <2>4, <2>5, <2>6, <2>7, <2>8, <2>9, <2>10, <2>11 DEF RunInv
  <2>13. QED
    BY <2>1, <2>12 DEF MainInv, ExitTrue, VerifiedFirst
<1>4. QED
  BY <1>1, <1>2, <1>3 DEF MainNext

-----------------------------------------------------------------------------
(* The first state *)

\* The steps that a command begins with, and a part of a script made of them, between
\* two turns.
FirstNames == {"open", "hash", "verify", "output", "encode", "decode", "close", "compare", "finish"}
First(a)   == a \in Steps /\ a[1] \in FirstNames /\ (a[1] = "finish" => ~(a[2] > 1))
Part(s, l, h) ==
  /\ s \in Seq(Steps) /\ Ordered(s)
  /\ \A i \in 1 .. Len(s) : First(s[i]) /\ l <= Turn(s[i]) /\ Turn(s[i]) <= h

LEMMA PartScript ==
  ASSUME NEW s, NEW l, NEW h, Part(s, l, h)
  PROVE  s \in Seq(Steps) /\ Ordered(s) /\ Chained(s) /\ Calm(s)
<1>1. Calm(s)
  BY DEF Part, First, FirstNames, Calm, ForkNames
<1>2. Chained(s)
  <2>1. ASSUME NEW i \in 1 .. Len(s) PROVE Linked(s, i)
    <3>1. First(s[i])
      BY DEF Part
    <3>2. QED
      BY <3>1 DEF First, FirstNames, Linked
  <2>2. QED
    BY <2>1 DEF Chained
<1>3. QED
  BY <1>1, <1>2 DEF Part

LEMMA OnePart ==
  ASSUME NEW a, First(a), NEW k \in Nat, Turn(a) = k
  PROVE  Part(<<a>>, k, k)
<1>1. a \in Steps
  BY DEF First
<1>2. PICK s : s = <<a>>
  OBVIOUS
<1>3. s \in Seq(Steps) /\ Ordered(s) /\ \A i \in 1 .. Len(s) : s[i] = a
  BY <1>1, <1>2, OneStep
<1>4. \A i \in 1 .. Len(s) : First(s[i]) /\ k <= Turn(s[i]) /\ Turn(s[i]) <= k
  BY <1>3
<1>5. QED
  BY <1>2, <1>3, <1>4 DEF Part

LEMMA NoPart == \A l, h : Part(<<>>, l, h) /\ \A x : ~Among(x, <<>>)
  BY DEF Part, Ordered, Among

LEMMA JoinParts ==
  ASSUME NEW s, NEW t, NEW l \in Nat, NEW m \in Nat, NEW k \in Nat, NEW h \in Nat,
         Part(s, l, m), Part(t, k, h), m < k \/ (m = k /\ m \in {1, 7}), l <= m, k <= h
  PROVE  /\ Part(s \o t, l, h)
         /\ \A x : Among(x, s \o t) <=> Among(x, s) \/ Among(x, t)
<1>1. s \in Seq(Steps) /\ t \in Seq(Steps) /\ Ordered(s) /\ Ordered(t)
  BY DEF Part
<1>2. PICK v : v = s \o t
  OBVIOUS
<1>3. /\ v \in Seq(Steps) /\ Len(s) \in Nat /\ Len(t) \in Nat /\ Len(v) = Len(s) + Len(t)
      /\ \A i \in 1 .. Len(s) : v[i] = s[i]
      /\ \A i \in Len(s) + 1 .. Len(s) + Len(t) : v[i] = t[i - Len(s)]
  BY <1>1, <1>2
<1>4. PICK p \in Nat, q \in Nat : p = Len(s) /\ q = Len(t)
  BY <1>3
<1>5. Turn(v[1]) \in 1 .. 9 /\ \A i : Turn(s[i]) \in 1 .. 9 /\ Turn(t[i]) \in 1 .. 9
  BY Turns
<1>6. \A i \in 1 .. Len(v) : First(v[i]) /\ l <= Turn(v[i]) /\ Turn(v[i]) <= h
  <2> TAKE i \in 1 .. Len(v)
  <2>1. i \in 1 .. p \/ (i - p \in 1 .. q /\ i \in p + 1 .. p + q)
    BY <1>3, <1>4
  <2>2. CASE i \in 1 .. p
    <3>1. v[i] = s[i] /\ First(s[i]) /\ l <= Turn(s[i]) /\ Turn(s[i]) <= m
      BY <1>3, <1>4, <2>2 DEF Part
    <3>2. QED
      BY <1>5, <3>1
  <2>3. CASE i - p \in 1 .. q /\ i \in p + 1 .. p + q
    <3>1. PICK j \in 1 .. q : j = i - p
      BY <2>3
    <3>2. v[i] = t[j] /\ First(t[j]) /\ k <= Turn(t[j]) /\ Turn(t[j]) <= h
      BY <1>3, <1>4, <2>3, <3>1 DEF Part
    <3>3. QED
      BY <1>5, <3>2, SMTT(60)
  <2>4. QED
    BY <2>1, <2>2, <2>3
<1>7. Ordered(v)
  <2> SUFFICES ASSUME NEW i \in 1 .. Len(v), NEW j \in 1 .. Len(v), i < j PROVE Follows(v[i], v[j])
    BY DEF Ordered
  <2>1. \/ i \in 1 .. p /\ j \in 1 .. p
        \/ i \in 1 .. p /\ j - p \in 1 .. q /\ j \in p + 1 .. p + q
        \/ i - p \in 1 .. q /\ i \in p + 1 .. p + q /\ j - p \in 1 .. q /\ j \in p + 1 .. p + q /\ i - p < j - p
    BY <1>3, <1>4
  <2>2. CASE i \in 1 .. p /\ j \in 1 .. p
    BY <1>1, <1>3, <1>4, <2>2 DEF Ordered
  <2>3. CASE i \in 1 .. p /\ j - p \in 1 .. q /\ j \in p + 1 .. p + q
    <3>1. PICK b \in 1 .. q : b = j - p
      BY <2>3
    <3>2. v[i] = s[i] /\ v[j] = t[b] /\ Turn(s[i]) <= m /\ k <= Turn(t[b]) /\ l <= Turn(s[i]) /\ Turn(t[b]) <= h
      BY <1>3, <1>4, <2>3, <3>1 DEF Part
    <3>3. Turn(s[i]) \in 1 .. 9 /\ Turn(t[b]) \in 1 .. 9
      BY <1>5
    <3>4. QED
      BY <3>2, <3>3, SMTT(60) DEF Follows
  <2>4. CASE i - p \in 1 .. q /\ i \in p + 1 .. p + q /\ j - p \in 1 .. q /\ j \in p + 1 .. p + q /\ i - p < j - p
    <3>1. PICK a \in 1 .. q, b \in 1 .. q : a = i - p /\ b = j - p /\ a < b
      BY <2>4
    <3>2. v[i] = t[a] /\ v[j] = t[b]
      BY <1>3, <1>4, <2>4, <3>1
    <3>3. Follows(t[a], t[b])
      BY <1>1, <1>4, <3>1 DEF Ordered
    <3>4. QED
      BY <3>2, <3>3
  <2>5. QED
    BY <2>1, <2>2, <2>3, <2>4
<1>8. Part(v, l, h)
  BY <1>3, <1>6, <1>7 DEF Part
<1>9. QED
  BY <1>1, <1>2, <1>8, AmongParts

LEMMA SameSteps ==
  ASSUME NEW s \in Seq(Steps), NEW t \in Seq(Steps), Len(s) = Len(t), \A i \in 1 .. Len(t) : s[i] = t[i]
  PROVE  s = t
  OBVIOUS

LEMMA Longer ==
  ASSUME NEW s \in Seq(Steps), NEW a \in Steps, NEW t \in Seq(Steps), Len(t) = Len(s) + 1,
         \A i \in 1 .. Len(s) : t[i] = s[i], t[Len(s) + 1] = a
  PROVE  t = s \o <<a>>
<1>1. PICK v : v = s \o <<a>>
  OBVIOUS
<1>2. /\ v \in Seq(Steps) /\ Len(s) \in Nat /\ Len(v) = Len(s) + 1
      /\ \A i \in 1 .. Len(s) : v[i] = s[i]
      /\ v[Len(s) + 1] = a
  BY <1>1
<1>3. \A i \in 1 .. Len(s) + 1 : i \in 1 .. Len(s) \/ i = Len(s) + 1
  BY <1>2
<1>4. \A i \in 1 .. Len(v) : t[i] = v[i]
  BY <1>2, <1>3
<1>5. t = v
  BY <1>2, <1>4, SameSteps
<1>6. QED
  BY <1>1, <1>5

Splits(a, b, c, d) ==
  /\ <<a, b>> = <<a>> \o <<b>>
  /\ <<a, b, c>> = <<a, b>> \o <<c>>
  /\ <<a, b, c, d>> = <<a, b, c>> \o <<d>>

LEMMA TupleParts ==
  ASSUME NEW a \in Steps, NEW b \in Steps, NEW c \in Steps, NEW d \in Steps
  PROVE  Splits(a, b, c, d)
<1>1. PICK s : s = <<a>>
  OBVIOUS
<1>2. PICK t : t = <<a, b>>
  OBVIOUS
<1>3. PICK u : u = <<a, b, c>>
  OBVIOUS
<1>4. PICK v : v = <<a, b, c, d>>
  OBVIOUS
<1>5. /\ s \in Seq(Steps) /\ Len(s) = 1 /\ s[1] = a
      /\ t \in Seq(Steps) /\ Len(t) = 2 /\ t[1] = a /\ t[2] = b
      /\ u \in Seq(Steps) /\ Len(u) = 3 /\ u[1] = a /\ u[2] = b /\ u[3] = c
      /\ v \in Seq(Steps) /\ Len(v) = 4 /\ v[1] = a /\ v[2] = b /\ v[3] = c /\ v[4] = d
  BY <1>1, <1>2, <1>3, <1>4
<1>6. /\ \A i \in 1 .. 1 : i = 1
      /\ \A i \in 1 .. 2 : i = 1 \/ i = 2
      /\ \A i \in 1 .. 3 : i = 1 \/ i = 2 \/ i = 3
  OBVIOUS
<1>7. t = s \o <<b>>
  <2>1. Len(t) = Len(s) + 1 /\ t[Len(s) + 1] = b /\ \A i \in 1 .. Len(s) : t[i] = s[i]
    BY <1>5, <1>6
  <2>2. QED
    BY <1>5, <2>1, Longer
<1>8. u = t \o <<c>>
  <2>1. Len(u) = Len(t) + 1 /\ u[Len(t) + 1] = c /\ \A i \in 1 .. Len(t) : u[i] = t[i]
    BY <1>5, <1>6
  <2>2. QED
    BY <1>5, <2>1, Longer
<1>9. v = u \o <<d>>
  <2>1. Len(v) = Len(u) + 1 /\ v[Len(u) + 1] = d /\ \A i \in 1 .. Len(u) : v[i] = u[i]
    BY <1>5, <1>6
  <2>2. QED
    BY <1>5, <2>1, Longer
<1>10. QED
  BY <1>1, <1>2, <1>3, <1>4, <1>7, <1>8, <1>9 DEF Splits

Onward(k, m) == k < m \/ (k = m /\ m \in {1, 7})

PartOf(s, l, h, steps) == Part(s, l, h) /\ \A x : Among(x, s) <=> x \in steps

LEMMA TupleIsPart ==
  ASSUME NEW a, NEW b, NEW c, NEW d, First(a), First(b), First(c), First(d),
         NEW ka \in Nat, NEW kb \in Nat, NEW kc \in Nat, NEW kd \in Nat,
         Turn(a) = ka, Turn(b) = kb, Turn(c) = kc, Turn(d) = kd, Onward(ka, kb), Onward(kb, kc), Onward(kc, kd)
  PROVE  /\ PartOf(<<a, b>>, ka, kb, {a, b})
         /\ PartOf(<<a, b, c>>, ka, kc, {a, b, c})
         /\ PartOf(<<a, b, c, d>>, ka, kd, {a, b, c, d})
<1>1. a \in Steps /\ b \in Steps /\ c \in Steps /\ d \in Steps
  BY DEF First
<1>2. Part(<<a>>, ka, ka) /\ Part(<<b>>, kb, kb) /\ Part(<<c>>, kc, kc) /\ Part(<<d>>, kd, kd)
  BY OnePart
<1>3. \A x : /\ Among(x, <<a>>) <=> x = a
             /\ Among(x, <<b>>) <=> x = b
             /\ Among(x, <<c>>) <=> x = c
             /\ Among(x, <<d>>) <=> x = d
  BY <1>1, OneStep
<1>4. Splits(a, b, c, d)
  BY <1>1, TupleParts, Zenon
<1>5. ka <= kb /\ kb <= kc /\ kc <= kd /\ ka <= kc /\ ka <= ka /\ kb <= kb /\ kd <= kd /\ kc <= kc
  BY DEF Onward
<1>6. /\ kb > ka \/ (ka = kb /\ ka \in {1, 7})
      /\ kc > kb \/ (kb = kc /\ kb \in {1, 7})
      /\ kd > kc \/ (kc = kd /\ kc \in {1, 7})
  BY DEF Onward
<1>7. Part(<<a, b>>, ka, kb) /\ \A x : Among(x, <<a, b>>) <=> x = a \/ x = b
  <2>1. PICK s : s = <<a>>
    OBVIOUS
  <2>2. PICK t : t = <<b>>
    OBVIOUS
  <2>3. Part(s \o t, ka, kb) /\ \A x : Among(x, s \o t) <=> Among(x, s) \/ Among(x, t)
    <3>1. Part(s, ka, ka) /\ Part(t, kb, kb)
      BY <1>2, <2>1, <2>2
    <3>2. QED
      BY <1>5, <3>1, JoinParts DEF Onward
  <2>4. QED
    BY <1>3, <1>4, <2>1, <2>2, <2>3 DEF Splits
<1>8. Part(<<a, b, c>>, ka, kc) /\ \A x : Among(x, <<a, b, c>>) <=> x = a \/ x = b \/ x = c
  <2>1. PICK s : s = <<a, b>>
    OBVIOUS
  <2>2. PICK t : t = <<c>>
    OBVIOUS
  <2>3. Part(s \o t, ka, kc) /\ \A x : Among(x, s \o t) <=> Among(x, s) \/ Among(x, t)
    <3>1. Part(s, ka, kb) /\ Part(t, kc, kc)
      BY <1>2, <1>7, <2>1, <2>2
    <3>2. QED
      BY <1>5, <3>1, JoinParts DEF Onward
  <2>4. QED
    BY <1>3, <1>4, <1>7, <2>1, <2>2, <2>3 DEF Splits
<1>9. Part(<<a, b, c, d>>, ka, kd) /\ \A x : Among(x, <<a, b, c, d>>) <=> x = a \/ x = b \/ x = c \/ x = d
  <2>1. PICK s : s = <<a, b, c>>
    OBVIOUS
  <2>2. PICK t : t = <<d>>
    OBVIOUS
  <2>3. Part(s \o t, ka, kd) /\ \A x : Among(x, s \o t) <=> Among(x, s) \/ Among(x, t)
    <3>1. Part(s, ka, kc) /\ Part(t, kd, kd)
      BY <1>2, <1>8, <2>1, <2>2
    <3>2. QED
      BY <1>5, <3>1, JoinParts DEF Onward
  <2>4. QED
    BY <1>3, <1>4, <1>8, <2>1, <2>2, <2>3 DEF Splits
<1>10. QED
  BY <1>7, <1>8, <1>9 DEF PartOf

\* The steps a command begins with, and their turns.
LEMMA FirstSteps ==
  /\ \A f \in Inputs : First(<<"open", f>>) /\ Turn(<<"open", f>>) = 1
  /\ \A f \in Files : First(<<"close", f>>) /\ Turn(<<"close", f>>) = 7
  /\ First(<<"hash">>) /\ Turn(<<"hash">>) = 1
  /\ First(<<"verify">>) /\ Turn(<<"verify">>) = 2
  /\ First(<<"output">>) /\ Turn(<<"output">>) = 3
  /\ First(<<"encode">>) /\ Turn(<<"encode">>) = 6
  /\ First(<<"decode">>) /\ Turn(<<"decode">>) = 6
  /\ First(<<"compare">>) /\ Turn(<<"compare">>) = 8
  /\ First(<<"finish", 1>>) /\ Turn(<<"finish", 1>>) = 9
<1>1. ASSUME NEW a \in Steps, a[1] \in FirstNames, a[1] = "finish" => ~(a[2] > 1) PROVE First(a)
  BY <1>1 DEF First
<1>2. ASSUME NEW f \in Inputs PROVE First(<<"open", f>>) /\ Turn(<<"open", f>>) = 1
  <2>1. PICK a : a = <<"open", f>>
    OBVIOUS
  <2>2. a \in Steps
    BY <2>1, StepsMade
  <2>3. a[1] = "open"
    BY <2>1
  <2>4. a[1] \in FirstNames /\ a[1] # "finish"
    BY <2>3 DEF FirstNames
  <2>5. First(a) /\ Turn(a) = 1
    BY <1>1, <2>2, <2>3, <2>4, Turns
  <2>6. QED
    BY <2>1, <2>5
<1>3. ASSUME NEW f \in Files PROVE First(<<"close", f>>) /\ Turn(<<"close", f>>) = 7
  <2>1. PICK a : a = <<"close", f>>
    OBVIOUS
  <2>2. a \in Steps
    BY <2>1, StepsMade
  <2>3. a[1] = "close"
    BY <2>1
  <2>4. a[1] \in FirstNames /\ a[1] # "finish"
    BY <2>3 DEF FirstNames
  <2>5. First(a) /\ Turn(a) = 7
    BY <1>1, <2>2, <2>3, <2>4, Turns
  <2>6. QED
    BY <2>1, <2>5
<1>4. ASSUME NEW n \in {"hash", "verify", "output", "encode", "decode", "compare"}, <<n>> \in Steps
      PROVE  First(<<n>>)
  <2>1. PICK a : a = <<n>>
    OBVIOUS
  <2>2. a[1] = n
    BY <2>1
  <2>3. a[1] \in FirstNames /\ a[1] # "finish"
    BY <2>2 DEF FirstNames
  <2>4. First(a)
    BY <1>1, <1>4, <2>1, <2>3
  <2>5. QED
    BY <2>1, <2>4
<1>5. /\ First(<<"hash">>) /\ First(<<"verify">>) /\ First(<<"output">>) /\ First(<<"encode">>)
      /\ First(<<"decode">>) /\ First(<<"compare">>)
  <2>1. /\ "hash" \in {"hash", "verify", "output", "encode", "decode", "compare"}
        /\ "verify" \in {"hash", "verify", "output", "encode", "decode", "compare"}
        /\ "output" \in {"hash", "verify", "output", "encode", "decode", "compare"}
        /\ "encode" \in {"hash", "verify", "output", "encode", "decode", "compare"}
        /\ "decode" \in {"hash", "verify", "output", "encode", "decode", "compare"}
        /\ "compare" \in {"hash", "verify", "output", "encode", "decode", "compare"}
    OBVIOUS
  <2>2. QED
    BY <1>4, <2>1, StepsMade
<1>6. Turn(<<"hash">>) = 1
  <2>1. PICK a : a = <<"hash">>
    OBVIOUS
  <2>2. a[1] = "hash"
    BY <2>1
  <2>3. Turn(a) = 1
    BY <2>2, Turns
  <2>4. QED
    BY <2>1, <2>3
<1>7. First(<<"finish", 1>>) /\ Turn(<<"finish", 1>>) = 9
  <2>1. PICK a : a = <<"finish", 1>>
    OBVIOUS
  <2>2. a[1] = "finish" /\ a[2] = 1
    BY <2>1
  <2>3. a \in Steps
    BY <2>1, StepsMade
  <2>4. a[1] \in FirstNames /\ ~(a[2] > 1)
    BY <2>2 DEF FirstNames
  <2>5. First(a) /\ Turn(a) = 9
    BY <1>1, <2>2, <2>3, <2>4, Turns
  <2>6. QED
    BY <2>1, <2>5
<1>8. QED
  BY <1>2, <1>3, <1>5, <1>6, <1>7, TurnValues

\* The script of an encoder, and of a decoder.
LEMMA EncodeBegins ==
  ASSUME NEW c, NEW s, s = EncodeScript(c)
  PROVE  /\ Part(s, 1, 9) /\ Among(<<"encode">>, s) /\ Among(<<"open", "input">>, s)
         /\ ~Among(<<"output">>, s) /\ ~Among(<<"decode">>, s)
<1>1. PICK os : os = <<"open", "source">>
  OBVIOUS
<1>2. PICK oi : oi = <<"open", "input">>
  OBVIOUS
<1>3. PICK oh : oh = <<"open", "hash">>
  OBVIOUS
<1>4. PICK ha : ha = <<"hash">>
  OBVIOUS
<1>5. PICK en : en = <<"encode">>
  OBVIOUS
<1>6. PICK ci : ci = <<"close", "input">>
  OBVIOUS
<1>7. PICK cs : cs = <<"close", "source">>
  OBVIOUS
<1>8. PICK fi : fi = <<"finish", 1>>
  OBVIOUS
<1>9. PICK ou : ou = <<"output">>
  OBVIOUS
<1>10. PICK de : de = <<"decode">>
  OBVIOUS
<1>11. /\ First(os) /\ First(oi) /\ First(oh) /\ First(ha) /\ First(en) /\ First(ci) /\ First(cs) /\ First(fi)
       /\ Turn(os) = 1 /\ Turn(oi) = 1 /\ Turn(oh) = 1 /\ Turn(ha) = 1 /\ Turn(en) = 6 /\ Turn(ci) = 7
       /\ Turn(cs) = 7 /\ Turn(fi) = 9
  <2>1. "source" \in Inputs /\ "input" \in Inputs /\ "hash" \in Inputs /\ "source" \in Files /\ "input" \in Files
    BY DEF Inputs, Files
  <2>2. QED
    BY <1>1, <1>2, <1>3, <1>4, <1>5, <1>6, <1>7, <1>8, <2>1, FirstSteps
<1>12. ou \notin {os, oi, oh, ha, en, ci, cs, fi} /\ de \notin {os, oi, oh, ha, en, ci, cs, fi}
  <2>1. /\ os[1] = "open" /\ oi[1] = "open" /\ oh[1] = "open" /\ ha[1] = "hash" /\ en[1] = "encode" /\ ci[1] = "close"
        /\ cs[1] = "close" /\ fi[1] = "finish" /\ ou[1] = "output" /\ de[1] = "decode"
    BY <1>1, <1>2, <1>3, <1>4, <1>5, <1>6, <1>7, <1>8, <1>9, <1>10
  <2>2. QED
    BY <2>1
<1>13. /\ Onward(1, 1) /\ Onward(6, 7) /\ Onward(7, 7) /\ Onward(7, 9) /\ 1 < 6
       /\ 1 \in Nat /\ 6 \in Nat /\ 7 \in Nat /\ 9 \in Nat /\ 1 <= 1 /\ 6 <= 9
  BY DEF Onward
<1>14. PICK p : p = <<os, oi>>
  OBVIOUS
<1>15. PICK q : q = IF c.armor THEN <<oh, ha, oh, ha>> ELSE <<>>
  OBVIOUS
<1>16. PICK r : r = <<en, ci, cs, fi>>
  OBVIOUS
<1>17. s = (p \o q) \o r
  <2>1. q = IF c.armor THEN <<<<"open", "hash">>, <<"hash">>, <<"open", "hash">>, <<"hash">>>> ELSE <<>>
    BY <1>3, <1>4, <1>15
  <2>2. p = <<<<"open", "source">>, <<"open", "input">>>>
    BY <1>1, <1>2, <1>14
  <2>3. r = <<<<"encode">>, <<"close", "input">>, <<"close", "source">>, <<"finish", 1>>>>
    BY <1>5, <1>6, <1>7, <1>8, <1>16
  <2>4. s = (p \o (IF c.armor THEN <<<<"open", "hash">>, <<"hash">>, <<"open", "hash">>, <<"hash">>>> ELSE <<>>)) \o r
    BY <2>2, <2>3 DEF EncodeScript
  <2>5. QED
    BY <2>1, <2>4
<1>18. Part(p, 1, 1) /\ \A x : Among(x, p) <=> x \in {os, oi}
  <2>1. PartOf(<<os, oi>>, 1, 1, {os, oi})
    BY <1>11, <1>13, TupleIsPart, Zenon
  <2>2. QED
    BY <1>14, <2>1 DEF PartOf
<1>19. Part(q, 1, 1) /\ \A x : Among(x, q) => x \in {oh, ha}
  <2>1. CASE c.armor
    <3>1. PartOf(<<oh, ha, oh, ha>>, 1, 1, {oh, ha, oh, ha})
      BY <1>11, <1>13, TupleIsPart, Zenon
    <3>2. QED
      BY <1>15, <2>1, <3>1 DEF PartOf
  <2>2. CASE ~c.armor
    BY <1>15, <2>2, NoPart
  <2>3. QED
    BY <2>1, <2>2
<1>20. Part(r, 6, 9) /\ \A x : Among(x, r) <=> x \in {en, ci, cs, fi}
  <2>1. PartOf(<<en, ci, cs, fi>>, 6, 9, {en, ci, cs, fi})
    BY <1>11, <1>13, TupleIsPart, Zenon
  <2>2. QED
    BY <1>16, <2>1 DEF PartOf
<1>21. PICK t : t = p \o q
  OBVIOUS
<1>22. Part(t, 1, 1) /\ \A x : Among(x, t) <=> Among(x, p) \/ Among(x, q)
  BY <1>13, <1>18, <1>19, <1>21, JoinParts
<1>23. Part(t \o r, 1, 9) /\ \A x : Among(x, t \o r) <=> Among(x, t) \/ Among(x, r)
  BY <1>13, <1>20, <1>22, JoinParts
<1>24. Part(s, 1, 9) /\ \A x : Among(x, s) <=> Among(x, t) \/ Among(x, r)
  BY <1>17, <1>21, <1>23
<1>25. Among(en, s) /\ Among(oi, s) /\ ~Among(ou, s) /\ ~Among(de, s)
  BY <1>12, <1>18, <1>19, <1>20, <1>22, <1>24
<1>26. QED
  BY <1>2, <1>5, <1>9, <1>10, <1>24, <1>25

LEMMA DecodeBegins ==
  ASSUME NEW c, NEW s, s = DecodeScript(c)
  PROVE  /\ Part(s, 1, 9) /\ Among(<<"output">>, s) /\ ~Among(<<"encode">>, s)
         /\ c.armor => Among(<<"verify">>, s) /\ Among(<<"compare">>, s)
<1>1. PICK os : os = <<"open", "source">>
  OBVIOUS
<1>2. PICK oh : oh = <<"open", "hash">>
  OBVIOUS
<1>3. PICK ha : ha = <<"hash">>
  OBVIOUS
<1>4. PICK ve : ve = <<"verify">>
  OBVIOUS
<1>5. PICK ou : ou = <<"output">>
  OBVIOUS
<1>6. PICK de : de = <<"decode">>
  OBVIOUS
<1>7. PICK cs : cs = <<"close", "source">>
  OBVIOUS
<1>8. PICK co : co = <<"close", "output">>
  OBVIOUS
<1>9. PICK cm : cm = <<"compare">>
  OBVIOUS
<1>10. PICK fi : fi = <<"finish", 1>>
  OBVIOUS
<1>11. PICK en : en = <<"encode">>
  OBVIOUS
<1>12. /\ First(os) /\ First(oh) /\ First(ha) /\ First(ve) /\ First(ou) /\ First(de) /\ First(cs) /\ First(co)
       /\ First(cm) /\ First(fi) /\ Turn(os) = 1 /\ Turn(oh) = 1 /\ Turn(ha) = 1 /\ Turn(ve) = 2 /\ Turn(ou) = 3
       /\ Turn(de) = 6 /\ Turn(cs) = 7 /\ Turn(co) = 7 /\ Turn(cm) = 8 /\ Turn(fi) = 9
  <2>1. "source" \in Inputs /\ "hash" \in Inputs /\ "source" \in Files /\ "output" \in Files
    BY DEF Inputs, Files
  <2>2. QED
    BY <1>1, <1>2, <1>3, <1>4, <1>5, <1>6, <1>7, <1>8, <1>9, <1>10, <2>1, FirstSteps
<1>13. en \notin {os, oh, ha, ve, ou, de, cs, co, cm, fi}
  <2>1. /\ os[1] = "open" /\ oh[1] = "open" /\ ha[1] = "hash" /\ ve[1] = "verify" /\ ou[1] = "output" /\ de[1] = "decode"
        /\ cs[1] = "close" /\ co[1] = "close" /\ cm[1] = "compare" /\ fi[1] = "finish" /\ en[1] = "encode"
    BY <1>1, <1>2, <1>3, <1>4, <1>5, <1>6, <1>7, <1>8, <1>9, <1>10, <1>11
  <2>2. QED
    BY <2>1
<1>14. /\ Onward(1, 1) /\ Onward(1, 2) /\ Onward(2, 3) /\ Onward(3, 6) /\ Onward(6, 7) /\ Onward(7, 7)
       /\ 1 < 2 /\ 2 < 3 /\ 7 < 8 /\ 8 < 9 /\ 1 <= 1 /\ 1 <= 2 /\ 3 <= 7 /\ 1 <= 7 /\ 8 <= 8 /\ 1 <= 8 /\ 9 <= 9
       /\ 1 \in Nat /\ 2 \in Nat /\ 3 \in Nat /\ 6 \in Nat /\ 7 \in Nat /\ 8 \in Nat /\ 9 \in Nat
  BY DEF Onward
<1>15. PICK p : p = <<os>>
  OBVIOUS
<1>16. PICK q : q = IF c.armor THEN <<oh, ha, ve>> ELSE <<>>
  OBVIOUS
<1>17. PICK r : r = <<ou, de, cs, co>>
  OBVIOUS
<1>18. PICK u : u = IF c.armor THEN <<cm>> ELSE <<>>
  OBVIOUS
<1>19. PICK v : v = <<fi>>
  OBVIOUS
<1>20. s = (((p \o q) \o r) \o u) \o v
  <2>1. q = IF c.armor THEN <<<<"open", "hash">>, <<"hash">>, <<"verify">>>> ELSE <<>>
    BY <1>2, <1>3, <1>4, <1>16
  <2>2. p = <<<<"open", "source">>>>
    BY <1>1, <1>15
  <2>3. r = <<<<"output">>, <<"decode">>, <<"close", "source">>, <<"close", "output">>>>
    BY <1>5, <1>6, <1>7, <1>8, <1>17
  <2>4. u = IF c.armor THEN <<<<"compare">>>> ELSE <<>>
    BY <1>9, <1>18
  <2>5. v = <<<<"finish", 1>>>>
    BY <1>10, <1>19
  <2>6. s = (((p \o (IF c.armor THEN <<<<"open", "hash">>, <<"hash">>, <<"verify">>>> ELSE <<>>)) \o r)
              \o (IF c.armor THEN <<<<"compare">>>> ELSE <<>>)) \o v
    BY <2>2, <2>3, <2>5 DEF DecodeScript
  <2>7. QED
    BY <2>1, <2>4, <2>6
<1>21. Part(p, 1, 1) /\ \A x : Among(x, p) <=> x = os
  BY <1>12, <1>14, <1>15, OnePart, OneStep DEF First
<1>22. Part(q, 1, 2) /\ (\A x : Among(x, q) => x \in {oh, ha, ve}) /\ (c.armor => Among(ve, q))
  <2>1. CASE c.armor
    <3>1. PartOf(<<oh, ha, ve>>, 1, 2, {oh, ha, ve})
      BY <1>12, <1>14, TupleIsPart, Zenon
    <3>2. QED
      BY <1>16, <2>1, <3>1 DEF PartOf
  <2>2. CASE ~c.armor
    BY <1>16, <2>2, NoPart
  <2>3. QED
    BY <2>1, <2>2
<1>23. Part(r, 3, 7) /\ \A x : Among(x, r) <=> x \in {ou, de, cs, co}
  <2>1. PartOf(<<ou, de, cs, co>>, 3, 7, {ou, de, cs, co})
    BY <1>12, <1>14, TupleIsPart, Zenon
  <2>2. QED
    BY <1>17, <2>1 DEF PartOf
<1>24. Part(u, 8, 8) /\ (\A x : Among(x, u) => x = cm) /\ (c.armor => Among(cm, u))
  <2>1. CASE c.armor
    <3>1. Part(<<cm>>, 8, 8) /\ \A x : Among(x, <<cm>>) <=> x = cm
      BY <1>12, <1>14, OnePart, OneStep DEF First
    <3>2. QED
      BY <1>18, <2>1, <3>1
  <2>2. CASE ~c.armor
    BY <1>18, <2>2, NoPart
  <2>3. QED
    BY <2>1, <2>2
<1>25. Part(v, 9, 9) /\ \A x : Among(x, v) <=> x = fi
  BY <1>12, <1>14, <1>19, OnePart, OneStep DEF First
<1>26. PICK a : a = p \o q
  OBVIOUS
<1>27. Part(a, 1, 2) /\ \A x : Among(x, a) <=> Among(x, p) \/ Among(x, q)
  BY <1>14, <1>21, <1>22, <1>26, JoinParts
<1>28. PICK b : b = a \o r
  OBVIOUS
<1>29. Part(b, 1, 7) /\ \A x : Among(x, b) <=> Among(x, a) \/ Among(x, r)
  BY <1>14, <1>23, <1>27, <1>28, JoinParts
<1>30. PICK d : d = b \o u
  OBVIOUS
<1>31. Part(d, 1, 8) /\ \A x : Among(x, d) <=> Among(x, b) \/ Among(x, u)
  BY <1>14, <1>24, <1>29, <1>30, JoinParts
<1>32. PICK e : e = d \o v
  OBVIOUS
<1>33. Part(e, 1, 9) /\ \A x : Among(x, e) <=> Among(x, d) \/ Among(x, v)
  BY <1>14, <1>25, <1>31, <1>32, JoinParts
<1>34. s = e
  BY <1>20, <1>26, <1>28, <1>30, <1>32
<1>35. Among(ou, s) /\ ~Among(en, s) /\ (c.armor => Among(ve, s) /\ Among(cm, s))
  BY <1>13, <1>21, <1>22, <1>23, <1>24, <1>25, <1>27, <1>29, <1>31, <1>33, <1>34
<1>36. QED
  BY <1>4, <1>5, <1>9, <1>11, <1>33, <1>34, <1>35

LEMMA InitScript ==
  ASSUME MainInit
  PROVE  /\ ScriptOK /\ Calm(script)
         /\ cmd.op = "ENCODE" => Pending(<<"encode">>) /\ Pending(<<"open", "input">>) /\ ~Pending(<<"decode">>)
         /\ cmd.op = "DECODE" => /\ Pending(<<"output">>) /\ ~Pending(<<"encode">>)
                                 /\ cmd.armor => Pending(<<"verify">>) /\ Pending(<<"compare">>)
         /\ cmd.op = "ENCODE" \/ cmd.op = "DECODE"
<1>1. cmd.op = "ENCODE" \/ cmd.op = "DECODE"
  BY MainAssumption DEF MainInit
<1>2. CASE cmd.op = "ENCODE"
  <2>1. script = EncodeScript(cmd) /\ cmd.op # "DECODE"
    BY <1>2 DEF MainInit
  <2>2. /\ Part(script, 1, 9) /\ Among(<<"encode">>, script) /\ Among(<<"open", "input">>, script)
        /\ ~Among(<<"output">>, script) /\ ~Among(<<"decode">>, script)
    BY <2>1, EncodeBegins, Zenon
  <2>3. script \in Seq(Steps) /\ Ordered(script) /\ Chained(script) /\ Calm(script)
    BY <2>2, PartScript
  <2>4. QED
    BY <1>2, <2>1, <2>2, <2>3, Zenon DEF ScriptOK, Pending
<1>3. CASE cmd.op = "DECODE"
  <2>1. script = DecodeScript(cmd) /\ cmd.op # "ENCODE"
    BY <1>3 DEF MainInit
  <2>2. /\ Part(script, 1, 9) /\ Among(<<"output">>, script) /\ ~Among(<<"encode">>, script)
        /\ cmd.armor => Among(<<"verify">>, script) /\ Among(<<"compare">>, script)
    BY <2>1, DecodeBegins, Zenon
  <2>3. script \in Seq(Steps) /\ Ordered(script) /\ Chained(script) /\ Calm(script)
    BY <2>2, PartScript
  <2>4. QED
    BY <1>3, <2>1, <2>2, <2>3, Zenon DEF ScriptOK, Pending
<1>4. QED
  BY <1>1, <1>2, <1>3, Zenon

LEMMA InitKeeps == MainInit => MainInv
<1> SUFFICES ASSUME MainInit PROVE MainInv
  OBVIOUS
<1>1. /\ ScriptOK /\ Calm(script)
      /\ cmd.op = "ENCODE" => Pending(<<"encode">>) /\ Pending(<<"open", "input">>) /\ ~Pending(<<"decode">>)
      /\ cmd.op = "DECODE" => /\ Pending(<<"output">>) /\ ~Pending(<<"encode">>)
                              /\ cmd.armor => Pending(<<"verify">>) /\ Pending(<<"compare">>)
      /\ cmd.op = "ENCODE" \/ cmd.op = "DECODE"
  BY InitScript
<1>2. /\ cmd \in Commands /\ file = [f \in Files |-> Closed] /\ pipe = <<>> /\ child = <<>> /\ ext_subprocs = <<>>
      /\ status = "running"
  BY DEF MainInit
<1>3. \A n : At(n) => n \notin ForkNames \cup {"read"}
  <2> SUFFICES ASSUME NEW n, At(n) PROVE n \notin ForkNames \cup {"read"}
    OBVIOUS
  <2>1. script[1][1] = n /\ 1 \in 1 .. Len(script)
    BY <1>1, AtHead
  <2>2. QED
    BY <1>1, <2>1 DEF Calm
<1>4. /\ Closed \in [fd : Nat \cup {-1}, data : Seq(Int), eof : BOOLEAN]
      /\ Closed.fd = 0 /\ Closed.data = <<>> /\ Closed.eof = FALSE
  BY NoUnits DEF Closed
<1>5. \A f \in Files : file[f] = Closed
  BY <1>2
<1>6. "input" \in Files /\ "output" \in Files /\ "hash" \in Files /\ "source" \in Files /\ Inputs \subseteq Files
  BY DEF Files, Inputs
<1>7. DOMAIN child = {} /\ Len(child) = 0 /\ Len(pipe) = 0 /\ Len(ext_subprocs) = 0
  BY <1>2
<1>8. TypeOK
  <2>1. file \in [Files -> [fd : Nat \cup {-1}, data : Seq(Int), eof : BOOLEAN]]
    BY <1>2, <1>4
  <2>2. pipe \in Seq(Pipes) /\ child \in Seq(Children) /\ ext_subprocs \in Seq(Nat)
    BY <1>2
  <2>3. QED
    BY <1>1, <1>2, <2>1, <2>2 DEF TypeOK, ScriptOK
<1>9. Paired /\ Decompressing /\ Recompressing /\ Waiting
  BY <1>7 DEF Paired, Decompressing, Recompressing, Waiting
<1>10. \A f \in Files : file[f].fd = 0 /\ file[f].data = <<>> /\ file[f].eof = FALSE
  BY <1>4, <1>5
<1>11. Piped
  <2>1. \A f \in Inputs : ~(file[f].fd > 0)
    BY <1>6, <1>10
  <2>2. QED
    BY <2>1 DEF Piped
<1>12. InputTrue
  <2>1. ~At("read")
    BY <1>3
  <2>2. Pending(<<"encode">>) => Pending(<<"open", "input">>)
    BY <1>1, Zenon
  <2>3. \A i \in 1 .. Len(file["input"].data) : FALSE
    BY <1>6, <1>10, NoLength
  <2>4. file["input"].eof = FALSE
    BY <1>6, <1>10
  <2>5. QED
    BY <2>1, <2>2, <2>3, <2>4 DEF InputTrue
<1>13. Forking
  <2>1. \A i \in 1 .. Len(script) : script[i][1] \notin {"pipes", "copier", "parent"}
    BY <1>1 DEF Calm, ForkNames
  <2>2. ~At("pipes") /\ ~At("recompress") /\ ~At("copier") /\ ~At("parent") /\ ~At("output_parent")
    BY <1>3 DEF ForkNames
  <2>3. Len(pipe) = Len(child) /\ ~Decompressor(Len(child))
    BY <1>7 DEF Decompressor, Child
  <2>4. QED
    BY <2>1, <2>2, <2>3 DEF Forking
<1>14. Writes
  <2>1. \A i \in 1 .. Len(script) : script[i][1] # "recompress"
    BY <1>1 DEF Calm, ForkNames
  <2>2. ~Pending(<<"recompress">>)
    <3>1. PICK x : x = <<"recompress">>
      OBVIOUS
    <3>2. x[1] = "recompress"
      BY <3>1
    <3>3. ~Pending(x)
      BY <2>1, <3>2 DEF Pending, Among
    <3>4. QED
      BY <3>1, <3>3
  <2>3. file["output"].fd = 0 /\ file["output"].data = <<>>
    BY <1>6, <1>10
  <2>4. /\ Pending(<<"decode">>) => Unopened
        /\ cmd.op = "DECODE" => Unopened
    BY <1>1, Zenon DEF Unopened
  <2>5. file["output"].fd <= 0 /\ ~(file["output"].fd > 0)
    BY <2>3
  <2>6. QED
    BY <1>7, <2>2, <2>3, <2>4, <2>5 DEF Writes
<1>15. Doing
  <2>1. \A i \in 1 .. Len(file["hash"].data) : FALSE
    BY <1>6, <1>10, NoLength
  <2>2. \A i \in 1 .. Len(ext_subprocs) : FALSE
    BY <1>7
  <2>3. Wrong => Pending(<<"verify">>)
    BY <1>1, Zenon DEF Wrong
  <2>4. /\ cmd.op = "ENCODE" => Pending(<<"encode">>)
        /\ cmd.op = "DECODE" /\ cmd.armor => Pending(<<"compare">>)
    BY <1>1, Zenon
  <2>5. QED
    BY <2>1, <2>2, <2>3, <2>4 DEF Doing
<1>16. RunInv
  BY <1>1, <1>8, <1>9, <1>11, <1>12, <1>13, <1>14, <1>15 DEF RunInv, ScriptOK
<1>17. ExitTrue /\ VerifiedFirst
  <2>1. status # "0" /\ file["output"].fd = 0
    BY <1>2, <1>6, <1>10
  <2>2. QED
    BY <2>1 DEF ExitTrue, VerifiedFirst
<1>18. QED
  BY <1>2, <1>16, <1>17 DEF MainInv

-----------------------------------------------------------------------------
(* What is true of every command *)

\* The invariant holds in every state that is reached.
LEMMA MainInvariant == MainSpec => []MainInv
  BY InitKeeps, NextKeeps, PTL DEF MainSpec

\* When main_input and main_external_compression_finish return success, an encoder has
\* read all of the target, whatever decompressors, copiers, SIGPIPE and failing programs
\* did, and an armored decoder has written all of it, through the recompressor too.
THEOREM ExitTrueAlways == MainSpec => []ExitTrue
<1>1. MainInv => ExitTrue
  BY DEF MainInv
<1>2. QED
  BY <1>1, MainInvariant, PTL

\* main_input verifies the digest of the source before main_open_output: an armored decoder
\* given another source than that of the delta neither opens the output nor succeeds.
THEOREM VerifiedFirstAlways == MainSpec => []VerifiedFirst
<1>1. MainInv => VerifiedFirst
  BY DEF MainInv
<1>2. QED
  BY <1>1, MainInvariant, PTL
=============================================================================
