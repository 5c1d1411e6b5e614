-------------------------- MODULE EncodeInputProofs --------------------------
(***************************************************************************)
(* The input of the encoder is encoded as it was given, for every window   *)
(* size and length of the input and every way in which the applications    *)
(* cut it into pieces no longer than a window.                             *)
(***************************************************************************)
EXTENDS EncodeInput, Lemmas

\* A sequence of successive bytes.
LEMMA Successive ==
  ASSUME NEW s \in Seq(Nat), NEW k \in Nat, \A i \in 1 .. Len(s) : s[i] = k + i
  PROVE  s = [i \in 1 .. Len(s) |-> k + i]
<1>1. s = [i \in 1 .. Len(s) |-> s[i]]
  OBVIOUS
<1>2. QED
  BY <1>1

\* A piece of the application's buffer.
LEMMA PieceBytes ==
  ASSUME NEW i \in Nat, NEW n \in Nat, base \in Nat
  PROVE  /\ Piece(i, n) \in Seq(Nat) /\ Len(Piece(i, n)) = n
         /\ \A j \in 1 .. n : Piece(i, n)[j] = base + i + j
<1>1. Piece(i, n) = [j \in 1 .. n |-> base + i + j]
  BY DEF Piece
<1>2. \A j \in 1 .. n : base + i + j \in Nat
  OBVIOUS
<1>3. QED
  BY <1>1, <1>2

\* The numbers of a state.
LEMMA StateNumbers ==
  ASSUME TypeOK
  PROVE  /\ WinSize \in Nat \ {0} /\ MaxPiece \in Nat \ {0}
         /\ total \in Nat /\ given \in Nat /\ base \in Nat /\ given <= total /\ base <= given
         /\ next_in \in Nat /\ avail_in \in Nat /\ buf_avail \in Nat /\ buf_leftavail \in Nat
         /\ total_in \in Nat
         /\ buf_leftover # None => buf_leftover \in Nat
  BY EncodeAssumption DEF TypeOK, None

LEMMA InputInit == Init => InputInv
<1> SUFFICES ASSUME Init PROVE InputInv
  OBVIOUS
<1>1. /\ enc_state = "INIT" /\ ret = "RUN" /\ closed = "open" /\ mem = "none" /\ flush = FALSE
      /\ base = 0 /\ given = 0 /\ next_in = 0 /\ avail_in = 0 /\ buf_in = <<>> /\ buf_avail = 0
      /\ buf_leftover = None /\ buf_leftavail = 0 /\ total_in = 0 /\ windows = <<>>
  BY DEF Init
<1>2. style \in AllStyles /\ total \in Nat /\ WinSize \in Nat \ {0}
  BY EncodeAssumption DEF Init
<1>3. TypeOK
  <2>1. buf_in \in Seq(Nat) /\ Len(buf_in) = 0 /\ windows \in Seq(Seq(Nat))
    BY <1>1
  <2>2. given \in 0 .. total /\ base \in 0 .. given /\ Len(buf_in) <= WinSize /\ buf_avail <= Len(buf_in)
    BY <1>1, <1>2, <2>1
  <2>3. flush \in BOOLEAN /\ buf_leftover \in {None} \cup 0 .. given - base
    BY <1>1
  <2>4. QED
    BY <1>1, <1>2, <2>1, <2>2, <2>3 DEF TypeOK
<1>4. Accounted
  <2>1. \A i \in 1 .. 0 : FALSE
    OBVIOUS
  <2>2. QED
    BY <1>1, <1>2, <2>1 DEF Accounted, Given, Windowing
<1>5. Returns /\ WindowTrue /\ NothingLost
  BY <1>1 DEF Returns, Windowing, WindowTrue, NothingLost
<1>6. Flushing
  BY <1>1 DEF Flushing, Given, Windowing
<1>7. Len(windows) = 0
  BY <1>1
<1>8. ShortIsLast /\ FullWindows
  BY <1>1, <1>7 DEF ShortIsLast, Short, FullWindows
<1>9. QED
  BY <1>3, <1>4, <1>5, <1>6, <1>8 DEF InputInv

\* The variables that the input is about.
byteVars == <<style, total, base, given, flush, closed, mem, next_in, avail_in, buf_in, buf_avail,
              buf_leftover, buf_leftavail, total_in, windows>>

\* A step within a window, of the encoder or of the application.
LEMMA WithinWindow ==
  ASSUME InputInv, UNCHANGED byteVars, Windowing, Windowing',
         ret' \in {"RUN", "XD3_WINSTART", "XD3_GETSRCBLK", "XD3_OUTPUT"}, enc_state' \in {"SEARCH", "FLUSH", "POSTOUT"}
  PROVE  InputInv'
<1>1. TypeOK'
  BY DEF InputInv, TypeOK, byteVars
<1>2. Accounted'
  BY DEF InputInv, Accounted, byteVars, Windowing, Given, Leftover
<1>3. Returns'
  BY DEF InputInv, Returns, byteVars, Windowing
<1>4. Flushing'
  BY DEF InputInv, Flushing, byteVars, Windowing, Given
<1>5. ShortIsLast' /\ FullWindows'
  BY DEF InputInv, ShortIsLast, Short, FullWindows, byteVars, Windowing
<1>6. WindowTrue' /\ NothingLost'
  BY DEF InputInv, WindowTrue, NothingLost, byteVars, Windowing, Input, Piece
<1>7. QED
  BY <1>1, <1>2, <1>3, <1>4, <1>5, <1>6 DEF InputInv

\* The first call of the encoder.
LEMMA InitKeeps == InputInv /\ EncodeInit => InputInv'
<1> SUFFICES ASSUME InputInv, EncodeInit PROVE InputInv'
  OBVIOUS
<1>0. UNCHANGED byteVars /\ enc_state = "INIT" /\ ret = "RUN" /\ enc_state' = "INPUT" /\ ret' = "RUN"
  BY DEF EncodeInit, byteVars, outside, appVars, inVars, bufVars, counters, Running, Return
<1> HIDE DEF EncodeInit
<1>1. TypeOK'
  BY <1>0 DEF InputInv, TypeOK, byteVars
<1>2. Given' = Given
  BY <1>0 DEF Given, byteVars
<1>3. Accounted' /\ Flushing'
  BY <1>0, <1>2 DEF InputInv, Accounted, Flushing, byteVars, Windowing, Leftover, Returns
<1>4. Returns'
  BY <1>0 DEF InputInv, Returns, byteVars, Windowing
<1>5. windows = <<>> /\ Len(windows) = 0
  BY <1>0 DEF InputInv, Returns
<1>6. ShortIsLast' /\ FullWindows'
  BY <1>0, <1>5 DEF ShortIsLast, Short, FullWindows, byteVars, Windowing
<1>7. WindowTrue' /\ NothingLost'
  BY <1>0 DEF WindowTrue, NothingLost
<1>8. QED
  BY <1>1, <1>3, <1>4, <1>6, <1>7 DEF InputInv

\* Nothing is taken from an empty buffer.
LEMMA NothingBuffered ==
  ASSUME buf_avail = 0
  PROVE  SubSeq(buf_in, 1, buf_avail) = [i \in 1 .. buf_avail |-> total_in + i]
<1>1. SubSeq(buf_in, 1, 0) = <<>>
  BY SubSeqEmpty
<1>2. <<>> = [i \in 1 .. 0 |-> total_in + i]
  OBVIOUS
<1>3. QED
  BY <1>1, <1>2

\* A call of the encoder before any input was given.
LEMMA NothingYetKeeps == InputInv /\ NothingYet => InputInv'
<1> SUFFICES ASSUME InputInv, NothingYet PROVE InputInv'
  OBVIOUS
<1>0. /\ UNCHANGED byteVars /\ enc_state = "INPUT" /\ ret = "RUN" /\ mem = "none"
      /\ enc_state' = "INPUT" /\ ret' = "XD3_INPUT"
  BY DEF NothingYet, byteVars, outside, appVars, inVars, bufVars, counters, Running, Return
<1> HIDE DEF NothingYet
<1>1. TypeOK'
  BY <1>0 DEF InputInv, TypeOK, byteVars
<1>2. ~Given' /\ ~Given
  BY <1>0 DEF Given, byteVars
<1>3. Accounted' /\ Flushing'
  BY <1>0, <1>2 DEF InputInv, Accounted, Flushing, byteVars, Windowing, Leftover
<1>4. Returns'
  BY <1>0 DEF InputInv, Returns, byteVars, Windowing
<1>5. windows = <<>> /\ Len(windows) = 0
  BY <1>0 DEF InputInv, Accounted
<1>6. ShortIsLast' /\ FullWindows'
  BY <1>0, <1>5 DEF ShortIsLast, Short, FullWindows, byteVars, Windowing
<1>7. given = 0 /\ total_in = 0 /\ buf_avail = 0 /\ buf_leftover = None
  BY <1>0 DEF InputInv, Accounted
<1>8. SubSeq(buf_in, 1, buf_avail) = [i \in 1 .. buf_avail |-> total_in + i]
  BY <1>7, NothingBuffered
<1>9. WindowTrue' /\ NothingLost'
  BY <1>0, <1>7, <1>8 DEF WindowTrue, NothingLost, byteVars
<1>10. QED
  BY <1>1, <1>3, <1>4, <1>6, <1>9 DEF InputInv

\* The call that follows XD3_WINFINISH.
LEMMA FinishedKeeps ==
  ASSUME InputInv, UNCHANGED byteVars, enc_state = "POSTWIN", UNCHANGED enc_state, ret' = "RUN",
         closed = "open"
  PROVE  InputInv'
<1>1. TypeOK'
  BY DEF InputInv, TypeOK, byteVars
<1>2. ~Given' /\ ~Given
  BY DEF Given
<1>3. Accounted' /\ Flushing'
  BY <1>2 DEF InputInv, Accounted, Flushing, byteVars, Windowing, Leftover
<1>4. Returns'
  BY DEF InputInv, Returns, byteVars, Windowing
<1>5. ShortIsLast' /\ FullWindows'
  BY DEF InputInv, ShortIsLast, Short, FullWindows, byteVars, Windowing
<1>6. WindowTrue' /\ NothingLost'
  BY DEF WindowTrue, NothingLost
<1>7. QED
  BY <1>1, <1>3, <1>4, <1>5, <1>6 DEF InputInv


\* A piece that makes a window by itself: it is the window.
LEMMA UseInputKeeps == InputInv /\ UseInput => InputInv'
<1> SUFFICES ASSUME InputInv, UseInput PROVE InputInv'
  OBVIOUS
<1>0. /\ UNCHANGED byteVars /\ enc_state = "INPUT" /\ ret = "RUN" /\ mem # "none"
      /\ enc_state' = "SEARCH" /\ ret' = "XD3_WINSTART"
      /\ buf_leftover = None /\ buf_avail = 0 /\ (avail_in < WinSize => flush)
  BY DEF UseInput, InputReady, Buffering, BeginWindow, byteVars, outside, appVars, bufVars, counters,
         Running, Return
<1> HIDE DEF UseInput
<1>1. TypeOK'
  BY <1>0 DEF InputInv, TypeOK, byteVars
<1>2. ~Given' /\ Given /\ Windowing' /\ ~Windowing
  BY <1>0 DEF Given, Windowing
<1>n. /\ total_in \in Nat /\ avail_in \in Nat /\ base \in Nat /\ given \in Nat /\ WinSize \in Nat
      /\ flush \in BOOLEAN
  BY StateNumbers DEF InputInv, TypeOK
<1>3. /\ mem = "app" /\ next_in = 0 /\ avail_in <= WinSize
      /\ total_in = base /\ total_in + avail_in = given
  BY <1>0, <1>2, <1>n DEF InputInv, Accounted
<1>4. Accounted'
  BY <1>0, <1>2, <1>3, <1>n DEF InputInv, Accounted, byteVars, Leftover
<1>5. Returns'
  BY <1>0, <1>2 DEF InputInv, Returns, byteVars
<1>6. Flushing'
  <2>1. avail_in # WinSize => flush
    BY <1>0, <1>3, <1>n
  <2>2. avail_in # WinSize => given = total
    BY <1>2, <2>1 DEF InputInv, Flushing
  <2>3. avail_in # WinSize => total_in + avail_in = total
    BY <1>3, <2>2
  <2>4. QED
    BY <1>0, <1>2, <2>1, <2>3 DEF InputInv, Flushing, byteVars
<1>7. ~Short /\ windows' = windows
  BY <1>0 DEF InputInv, ShortIsLast, byteVars
<1>8. ShortIsLast' /\ FullWindows'
  <2>1. \A i \in DOMAIN windows : Len(windows[i]) = WinSize
    BY <1>7 DEF Short, InputInv, TypeOK
  <2>2. QED
    BY <1>7, <2>1 DEF ShortIsLast, FullWindows, Short
<1>9. WindowTrue' /\ NothingLost'
  <2>1. Input' = Piece(0, avail_in)'
    BY <1>0, <1>3 DEF Input, byteVars
  <2>2. Piece(0, avail_in)' = [i \in 1 .. avail_in |-> total_in + i]
    BY <1>0, <1>3, <1>n DEF Piece, byteVars
  <2>3. QED
    BY <1>0, <2>1, <2>2 DEF WindowTrue, NothingLost, byteVars
<1>10. QED
  BY <1>1, <1>4, <1>5, <1>6, <1>8, <1>9 DEF InputInv

\* What the encoder holds when it is called for more: the bytes that follow the
\* last window, up to the piece in the application's buffer.
LEMMA HadBytes ==
  ASSUME InputInv, InputReady
  PROVE  /\ Had \in Seq(Nat) /\ Len(Had) \in 0 .. WinSize - 1
         /\ \A i \in 1 .. Len(Had) : Had[i] = total_in + i
         /\ total_in + Len(Had) + avail_in = given
<1>n. /\ total_in \in Nat /\ avail_in \in Nat /\ base \in Nat /\ given \in Nat
      /\ WinSize \in Nat \ {0} /\ buf_avail \in Nat /\ buf_leftavail \in Nat
      /\ buf_leftover # None => buf_leftover \in Nat
  BY StateNumbers DEF InputInv
<1>1. Given
  BY DEF InputReady, Given, Running
<1>2. CASE buf_leftover # None
  <2>1. /\ avail_in = 0 /\ base + buf_leftover = total_in /\ total_in + buf_leftavail = given
        /\ buf_leftavail \in 1 .. WinSize - 1
    BY <1>1, <1>2 DEF InputInv, Accounted
  <2>2. Had = Piece(buf_leftover, buf_leftavail)
    BY <1>2 DEF Had
  <2>3. /\ Had \in Seq(Nat) /\ Len(Had) = buf_leftavail
        /\ \A i \in 1 .. buf_leftavail : Had[i] = base + buf_leftover + i
    BY <1>2, <1>n, <2>2, PieceBytes
  <2>4. QED
    BY <1>n, <2>1, <2>3
<1>3. CASE buf_leftover = None
  <2>1. /\ total_in + buf_avail = base /\ base + avail_in = given /\ buf_avail < WinSize
        /\ \A i \in 1 .. buf_avail : buf_in[i] = total_in + i
    BY <1>1, <1>3 DEF InputInv, Accounted
  <2>2. Had = SubSeq(buf_in, 1, buf_avail)
    BY <1>3 DEF Had
  <2>3. buf_in \in Seq(Nat) /\ buf_avail <= Len(buf_in)
    BY DEF InputInv, TypeOK
  <2>4. /\ Had \in Seq(Nat) /\ Len(Had) = buf_avail
        /\ \A i \in 1 .. buf_avail : Had[i] = buf_in[i]
    BY <1>n, <2>2, <2>3, SubSeqProperties
  <2>5. QED
    BY <1>n, <2>1, <2>4
<1>4. QED
  BY <1>2, <1>3

\* What is put together of it and of that piece.
LEMMA TakenBytes ==
  ASSUME InputInv, InputReady,
         NEW all, all = Had \o SubSeq(Input, 1, Take)
  PROVE  /\ all \in Seq(Nat) /\ Take \in 0 .. avail_in
         /\ Len(all) = Len(Had) + Take /\ Len(all) <= WinSize
         /\ \A i \in 1 .. Len(all) : all[i] = total_in + i
         /\ Take < avail_in =>
              Len(all) = WinSize /\ buf_leftover = None /\ mem = "app" /\ next_in = 0
<1>n. total_in \in Nat /\ avail_in \in Nat /\ base \in Nat /\ WinSize \in Nat \ {0}
  BY StateNumbers DEF InputInv
<1> DEFINE h == Len(Had)
<1>1. /\ Had \in Seq(Nat) /\ h \in 0 .. WinSize - 1
      /\ \A i \in 1 .. h : Had[i] = total_in + i
  BY HadBytes
<1>2. /\ Take \in 0 .. avail_in /\ h + Take <= WinSize
      /\ Take < avail_in => h + Take = WinSize
  <2>1. Take = Smaller(WinSize - h, avail_in)
    BY DEF Take
  <2> HIDE DEF h
  <2>2. QED
    BY <1>n, <1>1, <2>1 DEF Smaller
<1>3. Given
  BY DEF InputReady, Given, Running
<1> DEFINE t == SubSeq(Input, 1, Take)
<1>4. /\ t \in Seq(Nat) /\ Len(t) = Take
      /\ \A i \in 1 .. Take : t[i] = total_in + h + i
  <2>1. CASE buf_leftover # None
    <3>1. avail_in = 0
      BY <1>3, <2>1 DEF InputInv, Accounted
    <3>2. Take = 0
      <4> HIDE DEF h
      <4> QED BY <1>2, <3>1
    <3>3. t = <<>>
      BY <3>2, SubSeqEmpty
    <3> HIDE DEF t
    <3>4. t \in Seq(Nat) /\ Len(t) = 0
      BY <3>3
    <3>5. QED
      BY <3>2, <3>4
  <2>2. CASE buf_leftover = None
    <3>1. /\ mem = "app" /\ next_in = 0 /\ total_in + buf_avail = base
      BY <1>3, <2>2 DEF InputInv, Accounted
    <3>2. h = buf_avail
      <4>1. Had = SubSeq(buf_in, 1, buf_avail)
        BY <2>2 DEF Had
      <4>2. buf_in \in Seq(Nat) /\ buf_avail <= Len(buf_in) /\ buf_avail \in Nat
        BY DEF InputInv, TypeOK
      <4>3. QED
        BY <4>1, <4>2, SubSeqProperties
    <3>3. Input = Piece(0, avail_in)
      BY <3>1 DEF Input
    <3>4. /\ Input \in Seq(Nat) /\ Len(Input) = avail_in
          /\ \A j \in 1 .. avail_in : Input[j] = base + 0 + j
      BY <1>n, <3>3, PieceBytes
    <3>5. /\ t \in Seq(Nat) /\ Len(t) = Take /\ \A i \in 1 .. Take : t[i] = Input[i]
      <4> HIDE DEF h
      <4> QED BY <1>n, <1>2, <3>4, SubSeqProperties
    <3>6. base = total_in + h
      BY <3>1, <3>2
    <3> HIDE DEF t, h
    <3>7. QED
      BY <1>n, <1>2, <3>4, <3>5, <3>6
  <2>3. QED
    BY <2>1, <2>2
<1> HIDE DEF t
<1>5. all = Had \o t
  BY DEF t
<1>6. /\ all \in Seq(Nat) /\ Len(all) = h + Take
      /\ \A i \in 1 .. h + Take : all[i] = IF i <= h THEN Had[i] ELSE t[i - h]
  BY <1>1, <1>4, <1>5, ConcatProperties, SMTT(60)
<1>7. \A i \in 1 .. h + Take : all[i] = total_in + i
  <2> HIDE DEF h
  <2> SUFFICES ASSUME NEW i \in 1 .. h + Take PROVE all[i] = total_in + i
    OBVIOUS
  <2>1. CASE i <= h
    BY <1>1, <1>6, <2>1
  <2>2. CASE ~(i <= h)
    <3>1. i - h \in 1 .. Take /\ total_in + h + (i - h) = total_in + i
      BY <1>n, <1>1, <1>2, <2>2
    <3>2. all[i] = t[i - h] /\ t[i - h] = total_in + h + (i - h)
      BY <1>4, <1>6, <2>2, <3>1
    <3>3. QED
      BY <3>1, <3>2
  <2>3. QED
    BY <2>1, <2>2
<1>8. Take < avail_in => buf_leftover = None /\ mem = "app" /\ next_in = 0
  <2>1. buf_leftover # None => avail_in = 0
    BY <1>3 DEF InputInv, Accounted
  <2>2. buf_leftover = None => mem = "app" /\ next_in = 0
    BY <1>3 DEF InputInv, Accounted
  <2> HIDE DEF h
  <2>3. QED
    BY <1>n, <1>2, <2>1, <2>2
<1>9. QED
  <2>1. Len(all) = h + Take
    BY <1>6
  <2>2. Len(all) = Len(Had) + Take
    BY <1>6
  <2> HIDE DEF h
  <2>3. QED
    BY <1>2, <1>6, <1>7, <1>8, <2>1, <2>2

\* What is taken of the whole of a sequence.
LEMMA WholeSequence ==
  ASSUME NEW s \in Seq(Nat)
  PROVE  SubSeq(s, 1, Len(s)) = s
<1>1. /\ Len(s) \in Nat /\ \A i \in 1 .. Len(s) : s[i] \in Nat
  OBVIOUS
<1>2. /\ SubSeq(s, 1, Len(s)) \in Seq(Nat) /\ Len(SubSeq(s, 1, Len(s))) = Len(s)
      /\ \A i \in 1 .. Len(s) : SubSeq(s, 1, Len(s))[i] = s[i]
  BY <1>1, SubSeqProperties
<1>3. QED
  BY <1>2, SeqEqual

\* Bytes are put together in the encoder's own buffer: they wait there for more,
\* or they are the window.
LEMMA BufferKeeps == InputInv /\ BufferLeftover => InputInv'
<1> SUFFICES ASSUME InputInv, BufferLeftover PROVE InputInv'
  OBVIOUS
<1> DEFINE all == Had \o SubSeq(Input, 1, Take)
           wait == Take = avail_in /\ Len(all) < WinSize /\ ~flush
           h == Len(Had)
<1>0. /\ InputReady /\ Buffering /\ enc_state = "INPUT" /\ ret = "RUN" /\ mem # "none"
      /\ UNCHANGED <<style, total, base, given, flush, closed, total_in, windows>>
      /\ buf_in' = all /\ buf_leftover' = LeftBehind[1] /\ buf_leftavail' = LeftBehind[2]
  BY DEF BufferLeftover, InputReady, Running, outside, appVars, counters
<1>w. wait => /\ enc_state' = "INPUT" /\ ret' = "XD3_INPUT" /\ buf_avail' = Len(all)
              /\ mem' = mem /\ next_in' = next_in /\ avail_in' = avail_in
  BY DEF BufferLeftover, Return, inVars
<1>b. ~wait => /\ enc_state' = "SEARCH" /\ ret' = "XD3_WINSTART" /\ buf_avail' = 0
               /\ mem' = "buf" /\ next_in' = 0 /\ avail_in' = Len(all)
  BY DEF BufferLeftover, Return, BeginWindow
<1> HIDE DEF BufferLeftover
<1>n. /\ total_in \in Nat /\ avail_in \in Nat /\ base \in Nat /\ given \in Nat /\ next_in \in Nat
      /\ WinSize \in Nat \ {0} /\ buf_leftavail \in Nat /\ total \in Nat /\ base <= given
  BY StateNumbers DEF InputInv
<1>f. flush \in BOOLEAN
  BY DEF InputInv, TypeOK
<1>1. /\ all \in Seq(Nat) /\ Take \in 0 .. avail_in /\ Len(all) = h + Take /\ Len(all) <= WinSize
      /\ \A i \in 1 .. Len(all) : all[i] = total_in + i
      /\ Take < avail_in => Len(all) = WinSize /\ buf_leftover = None /\ mem = "app" /\ next_in = 0
  BY <1>0, TakenBytes
<1>2. h \in 0 .. WinSize - 1 /\ total_in + h + avail_in = given
  BY <1>0, HadBytes
<1> DEFINE n == Len(all)
<1>3. n \in Nat /\ n = h + Take /\ n <= WinSize
  <2>1. n \in Nat
    BY <1>1
  <2>2. QED
    BY <1>1, <2>1
<1> HIDE DEF all, h
<1>4. Given
  BY <1>0 DEF Given
<1>5. ASSUME Take < avail_in
      PROVE  /\ ~wait /\ n = WinSize /\ buf_leftover' # None /\ buf_leftavail' \in 1 .. WinSize - 1
             /\ total_in + n + buf_leftavail' = given /\ base + buf_leftover' = total_in + n
             /\ buf_leftover' \in 0 .. given - base
  <2>1. buf_leftover = None /\ mem = "app" /\ next_in = 0 /\ n = WinSize
    BY <1>1, <1>5
  <2>2. base + avail_in = given /\ avail_in <= WinSize
    BY <1>4, <2>1 DEF InputInv, Accounted
  <2>3. buf_leftover' = Take /\ buf_leftavail' = avail_in - Take
    BY <1>0, <1>5, <1>n, <1>1, <2>1 DEF LeftBehind
  <2>4. ~wait
    <3> HIDE DEF n
    <3> QED BY <1>1, <1>5, <1>n
  <2>6. /\ buf_leftover' # None /\ buf_leftavail' \in 1 .. WinSize - 1
        /\ total_in + WinSize + buf_leftavail' = given /\ base + buf_leftover' = total_in + WinSize
        /\ buf_leftover' \in 0 .. given - base
    <3> HIDE DEF n
    <3>1. Take \in Nat /\ None = -1
      BY <1>n, <1>1 DEF None
    <3>2. QED
      BY <1>n, <1>1, <1>2, <1>3, <1>5, <2>1, <2>2, <2>3, <3>1
  <2>7. QED
    BY <2>1, <2>4, <2>6
<1>6. ASSUME ~(Take < avail_in)
      PROVE  /\ Take = avail_in /\ buf_leftover' = None /\ buf_leftavail' = buf_leftavail
             /\ total_in + n = given
  <2>1. Take = avail_in
    <3> HIDE DEF n
    <3> QED BY <1>1, <1>6, <1>n
  <2>2. buf_leftover' = None /\ buf_leftavail' = buf_leftavail
    BY <1>0, <1>6 DEF LeftBehind
  <2>3. total_in + n = given
    <3> HIDE DEF n
    <3> QED BY <1>n, <1>2, <1>3, <2>1
  <2>4. QED
    BY <2>1, <2>2, <2>3
<1>7. TypeOK'
  <2>1. /\ buf_leftover' \in {None} \cup 0 .. given - base /\ buf_leftavail' \in Nat
    BY <1>5, <1>6, <1>n
  <2>2. buf_in' \in Seq(Nat) /\ Len(buf_in') = n /\ buf_avail' \in Nat /\ buf_avail' <= n
    <3>1. buf_in' \in Seq(Nat) /\ Len(buf_in') = n
      BY <1>0, <1>1
    <3>2. buf_avail' = n \/ buf_avail' = 0
      BY <1>w, <1>b
    <3> HIDE DEF n
    <3>3. QED
      BY <1>3, <3>1, <3>2
  <2>3. next_in' \in Nat /\ avail_in' \in Nat
    BY <1>w, <1>b, <1>n, <1>3
  <2>4. /\ enc_state' \in {"INPUT", "SEARCH"} /\ ret' \in {"XD3_INPUT", "XD3_WINSTART"}
        /\ mem' \in {"none", "app", "buf"}
    BY <1>w, <1>b DEF InputInv, TypeOK
  <2>5. Len(buf_in') <= WinSize /\ buf_avail' <= Len(buf_in')
    BY <1>3, <2>2
  <2> HIDE DEF n, wait
  <2>6. QED
    BY <1>0, <2>1, <2>2, <2>3, <2>4, <2>5 DEF InputInv, TypeOK
<1>8. /\ wait => Take = avail_in /\ n < WinSize /\ ~flush
      /\ ~wait /\ n # WinSize => flush /\ Take = avail_in
  <2>1. ~wait => \/ Take # avail_in \/ flush \/ ~(n < WinSize)
    OBVIOUS
  <2>2. Take # avail_in => n = WinSize
    BY <1>5, <1>6
  <2>3. ~(n < WinSize) => n = WinSize
    <3> HIDE DEF n
    <3> QED BY <1>3, <1>n
  <2>4. wait => Take = avail_in /\ n < WinSize /\ ~flush
    OBVIOUS
  <2> HIDE DEF n, wait
  <2>5. QED
    BY <2>1, <2>2, <2>3, <2>4
<1>9. style # "memory"
  BY <1>0, <1>f DEF InputInv, Flushing, Buffering
<1>10. wait \/ ~wait
  OBVIOUS
<1>11. \A i \in 1 .. n : buf_in'[i] = total_in + i
  BY <1>0, <1>1
<1> HIDE DEF n, wait
<1>12. ~Given'
  BY <1>w, <1>b, <1>10 DEF Given
<1>13. Windowing' <=> ~wait
  BY <1>w, <1>b DEF Windowing
<1>14. /\ n = Len(all)
  BY DEF n
<1>15. wait => Take = avail_in /\ buf_leftover' = None /\ total_in + n = given
  BY <1>5, <1>6
<1>16. Accounted'
  <2>1. CASE wait
    <3>1. /\ enc_state' = "INPUT" /\ ret' = "XD3_INPUT" /\ buf_avail' = n /\ mem' = mem
      BY <1>w, <1>14, <2>1
    <3>2. buf_leftover' = None /\ n < WinSize
      BY <1>8, <1>15, <2>1
    <3>3. \A i \in 1 .. buf_avail' : buf_in'[i] = total_in + i
      BY <1>11, <3>1
    <3>4. QED
      BY <1>0, <1>12, <1>13, <2>1, <3>1, <3>2, <3>3 DEF Accounted
  <2>2. CASE ~wait
    <3>1. enc_state' = "SEARCH" /\ buf_avail' = 0 /\ mem' = "buf" /\ avail_in' = n
      BY <1>b, <1>14, <2>2
    <3>2. /\ total_in + n + Leftover' = given
          /\ buf_leftover' # None =>
               base + buf_leftover' = total_in + n /\ buf_leftavail' \in 1 .. WinSize - 1
      <4>1. CASE Take < avail_in
        BY <1>5, <4>1 DEF Leftover
      <4>2. CASE ~(Take < avail_in)
        BY <1>6, <1>n, <1>3, <4>2 DEF Leftover
      <4>3. QED
        BY <4>1, <4>2
    <3>3. buf_avail' < WinSize /\ \A i \in 1 .. buf_avail' : buf_in'[i] = total_in + i
      BY <1>n, <3>1
    <3>4. QED
      BY <1>0, <1>3, <1>12, <3>1, <3>2, <3>3 DEF Accounted
  <2>3. QED
    BY <2>1, <2>2
<1>17. closed = "open"
  BY <1>0 DEF InputInv, Returns
<1>18. Returns'
  BY <1>0, <1>w, <1>b, <1>10, <1>17 DEF Returns, Windowing
<1>19. Flushing'
  <2>1. Windowing' /\ avail_in' # WinSize => flush /\ given = total /\ total_in + avail_in' = given
    <3>1. Windowing' /\ avail_in' # WinSize => avail_in' = n /\ flush /\ Take = avail_in
      BY <1>b, <1>8, <1>13, <1>14
    <3>2. Take = avail_in => ~(Take < avail_in)
      BY <1>n
    <3>3. flush => given = total
      BY <1>9 DEF InputInv, Flushing
    <3>4. QED
      BY <1>6, <3>1, <3>2, <3>3
  <2>2. QED
    BY <1>0, <1>9, <2>1 DEF InputInv, Flushing
<1>20. ~Short
  BY <1>0 DEF InputInv, ShortIsLast
<1>21. ShortIsLast' /\ FullWindows'
  <2>1. \A i \in DOMAIN windows : Len(windows[i]) = WinSize
    BY <1>20 DEF Short, InputInv, TypeOK
  <2>2. QED
    BY <1>0, <1>20, <2>1 DEF ShortIsLast, FullWindows, Short
<1>22. all = [i \in 1 .. n |-> total_in + i] /\ SubSeq(all, 1, n) = all
  BY <1>n, <1>1, <1>14, Successive, WholeSequence
<1>23. WindowTrue'
  <2>1. CASE wait
    BY <1>w, <2>1 DEF WindowTrue
  <2>2. CASE ~wait
    <3>1. mem' = "buf" /\ next_in' = 0 /\ avail_in' = n
      BY <1>b, <1>14, <2>2
    <3>2. Input' = SubSeq(buf_in', next_in' + 1, next_in' + avail_in')
      BY <3>1 DEF Input
    <3>3. next_in' + 1 = 1 /\ next_in' + avail_in' = n
      BY <1>3, <3>1
    <3>4. Input' = [i \in 1 .. avail_in' |-> total_in' + i]
      BY <1>0, <1>22, <3>1, <3>2, <3>3
    <3>5. QED
      BY <3>4 DEF WindowTrue
  <2>3. QED
    BY <2>1, <2>2
<1>24. NothingLost'
  <2>1. CASE wait
    BY <1>0, <1>w, <1>14, <1>15, <1>22, <2>1 DEF NothingLost
  <2>2. CASE ~wait
    BY <1>b, <2>2 DEF NothingLost
  <2>3. QED
    BY <2>1, <2>2
<1>25. QED
  BY <1>7, <1>16, <1>18, <1>19, <1>21, <1>23, <1>24 DEF InputInv

\* The next page is output, or the window ends.
LEMMA PostOutKeeps == InputInv /\ PostOut => InputInv'
<1> SUFFICES ASSUME InputInv, PostOut PROVE InputInv'
  OBVIOUS
<1>0. /\ enc_state = "POSTOUT" /\ ret = "RUN" /\ Windowing
      /\ UNCHANGED <<style, total, base, given, flush, closed, mem, next_in, avail_in>>
      /\ UNCHANGED <<buf_in, buf_avail, buf_leftover, buf_leftavail>>
      /\ \/ /\ enc_state' = "POSTOUT" /\ ret' \in {"RUN", "XD3_OUTPUT"}
            /\ total_in' = total_in /\ windows' = windows
         \/ /\ enc_state' = "POSTWIN" /\ ret' = "XD3_WINFINISH"
            /\ total_in' = total_in + avail_in /\ windows' = Append(windows, Input)
  BY DEF PostOut, Running, Return, outside, appVars, inVars, bufVars, Windowing
<1> HIDE DEF PostOut
<1>1. CASE enc_state' = "POSTOUT"
  BY <1>0, <1>1, WithinWindow DEF byteVars, Windowing
<1>2. CASE enc_state' = "POSTWIN"
  <2>0. ret' = "XD3_WINFINISH" /\ total_in' = total_in + avail_in /\ windows' = Append(windows, Input)
    BY <1>0, <1>2
  <2>n. /\ total_in \in Nat /\ avail_in \in Nat /\ base \in Nat /\ given \in Nat
        /\ WinSize \in Nat \ {0} /\ buf_leftavail \in Nat
    BY StateNumbers DEF InputInv
  <2>1. /\ Input \in Seq(Nat) /\ Len(Input) = avail_in
    <3>1. Input = [i \in 1 .. avail_in |-> total_in + i]
      BY <1>0 DEF InputInv, WindowTrue
    <3>2. \A i \in 1 .. avail_in : total_in + i \in Nat
      BY <2>n
    <3>3. QED
      BY <2>n, <3>1, <3>2
  <2>2. /\ windows \in Seq(Seq(Nat)) /\ windows' \in Seq(Seq(Nat)) /\ Len(windows') = Len(windows) + 1
        /\ \A i \in 1 .. Len(windows) : windows'[i] = windows[i]
        /\ windows'[Len(windows) + 1] = Input
    BY <2>0, <2>1, AppendProperties DEF InputInv, TypeOK
  <2>3. TypeOK'
    <3>1. total_in' \in Nat
      BY <2>0, <2>n
    <3>2. QED
      BY <1>0, <1>2, <2>0, <2>2, <3>1 DEF InputInv, TypeOK
  <2>4. ~Given' /\ ~Windowing'
    BY <1>2, <2>0 DEF Given, Windowing
  <2>5. /\ mem # "none" /\ closed = "open" /\ buf_avail = 0 /\ avail_in <= WinSize
        /\ total_in' + Leftover = given /\ (buf_leftover # None => base + buf_leftover = total_in')
    BY <1>0, <2>0 DEF InputInv, Accounted, Returns
  <2>6. Accounted'
    <3>1. \A i \in 1 .. buf_avail : FALSE
      BY <2>5
    <3>2. Leftover' = Leftover
      BY <1>0 DEF Leftover
    <3>3. buf_leftover # None => buf_leftavail \in 1 .. WinSize - 1
      BY DEF InputInv, Accounted
    <3>4. QED
      BY <1>0, <2>n, <2>4, <2>5, <3>1, <3>2, <3>3 DEF Accounted
  <2>7. Returns' /\ Flushing'
    BY <1>0, <1>2, <2>0, <2>4, <2>5 DEF InputInv, Returns, Flushing
  <2>8. ShortIsLast'
    BY <1>2, <2>4 DEF ShortIsLast
  <2>9. FullWindows'
    <3>1. ASSUME NEW i \in DOMAIN windows', Len(windows'[i]) # WinSize
          PROVE  i = Len(windows') /\ flush' /\ total_in' = total' /\ Len(windows'[i]) < WinSize
      <4>1. i \in 1 .. Len(windows) \/ i = Len(windows) + 1
        BY <2>2
      <4>2. ~Short
        BY <1>0 DEF InputInv, ShortIsLast
      <4>3. i = Len(windows) + 1
        BY <2>2, <3>1, <4>1, <4>2 DEF Short
      <4>4. Len(windows'[i]) = avail_in
        BY <2>1, <2>2, <4>3
      <4>5. flush /\ total_in + avail_in = total
        BY <1>0, <3>1, <4>4 DEF InputInv, Flushing
      <4>6. avail_in < WinSize
        BY <2>n, <2>5, <3>1, <4>4
      <4>7. QED
        BY <1>0, <2>0, <2>2, <4>3, <4>4, <4>5, <4>6
    <3>2. QED
      BY <3>1 DEF FullWindows
  <2>10. WindowTrue' /\ NothingLost'
    BY <1>2, <2>0 DEF WindowTrue, NothingLost
  <2>11. QED
    BY <2>3, <2>6, <2>7, <2>8, <2>9, <2>10 DEF InputInv
<1>3. QED
  BY <1>0, <1>1, <1>2

\* The next window: of what was left over, or of new input.
LEMMA PostWinKeeps == InputInv /\ PostWin => InputInv'
<1> SUFFICES ASSUME InputInv, PostWin PROVE InputInv'
  OBVIOUS
<1>0. /\ enc_state = "POSTWIN" /\ ret = "RUN" /\ enc_state' = "INPUT" /\ avail_in' = 0
      /\ ret' = IF buf_leftover # None THEN "RUN" ELSE "XD3_INPUT"
      /\ UNCHANGED <<style, total, base, given, flush, closed, mem, next_in, total_in, windows>>
      /\ UNCHANGED <<buf_in, buf_avail, buf_leftover, buf_leftavail>>
  BY DEF PostWin, Reset, Running, Return, outside, appVars, bufVars
<1> HIDE DEF PostWin
<1>n. /\ total_in \in Nat /\ given \in Nat /\ total \in Nat /\ given <= total /\ buf_leftavail \in Nat
  BY StateNumbers DEF InputInv
<1>1. TypeOK'
  BY <1>0 DEF InputInv, TypeOK
<1>2. /\ mem # "none" /\ closed = "open" /\ buf_avail = 0
      /\ total_in + Leftover = given /\ (buf_leftover # None => base + buf_leftover = total_in)
      /\ buf_leftover # None => buf_leftavail \in 1 .. WinSize - 1
  BY <1>0 DEF InputInv, Accounted, Returns
<1>3. ~Windowing' /\ (Given' => buf_leftover # None)
  BY <1>0 DEF Given, Windowing
<1>4. Accounted'
  <2>1. buf_leftover # None => Leftover = buf_leftavail
    BY DEF Leftover
  <2>2. buf_avail < WinSize /\ \A i \in 1 .. buf_avail : buf_in[i] = total_in + i
    BY DEF InputInv, Accounted
  <2>3. QED
    BY <1>0, <1>2, <1>3, <2>1, <2>2 DEF Accounted
<1>5. Returns' /\ Flushing'
  BY <1>0, <1>2, <1>3 DEF InputInv, Returns, Flushing
<1>6. Short => buf_leftover = None
  <2>1. SUFFICES ASSUME Short PROVE buf_leftover = None
    OBVIOUS
  <2>2. total_in = total
    BY <2>1 DEF InputInv, FullWindows, Short, TypeOK
  <2>3. QED
    BY <1>n, <1>2, <2>2 DEF Leftover
<1>7. ShortIsLast' /\ FullWindows'
  BY <1>0, <1>3, <1>6 DEF InputInv, ShortIsLast, FullWindows, Short
<1>8. WindowTrue' /\ NothingLost'
  <2>1. SubSeq(buf_in, 1, buf_avail) = [i \in 1 .. buf_avail |-> total_in + i]
    BY <1>2, NothingBuffered
  <2>2. buf_leftover = None => given = total_in + buf_avail
    BY <1>n, <1>2 DEF Leftover
  <2>3. QED
    BY <1>0, <2>1, <2>2 DEF WindowTrue, NothingLost
<1>9. QED
  BY <1>1, <1>4, <1>5, <1>7, <1>8 DEF InputInv

\* A piece that an application may hand over: what the proof needs of it.
LEMMA HandsProperties ==
  ASSUME TypeOK, MaxPiece <= WinSize, NEW n \in 0 .. MaxPiece, NEW f \in BOOLEAN, Hands(n, f)
  PROVE  /\ n \in Nat /\ n <= WinSize /\ given + n <= total
         /\ flush => f
         /\ f => given + n = total \/ style = "memory"
         /\ style = "memory" => f /\ (n = WinSize \/ given + n = total)
         /\ n = 0 => ~flush \/ mem = "none"
<1>n. /\ WinSize \in Nat \ {0} /\ MaxPiece \in Nat /\ total \in Nat /\ given \in Nat /\ given <= total
  BY StateNumbers
<1>1. n \in Nat /\ n <= WinSize
  BY <1>n
<1>2. n <= total - given /\ (flush => f)
  BY DEF Hands, Left
<1>3. Smaller(WinSize, total - given) \in {WinSize, total - given}
  BY DEF Smaller
<1>4. style = "main" => (f => n < WinSize) /\ n = Smaller(WinSize, total - given)
  BY DEF Hands, Left
<1>5. style = "memory" => f /\ n = Smaller(WinSize, total - given)
  BY DEF Hands, Left
<1>6. style = "pieces" => (f => n = total - given)
  BY DEF Hands, Left
<1>7. style = "noflush" => ~f
  BY DEF Hands
<1>8. style \in {"main", "memory", "pieces", "noflush"}
  BY DEF TypeOK, AllStyles
<1>9. n = 0 => ~flush \/ mem = "none"
  BY DEF Hands
<1>10. n = total - given => given + n = total
  BY <1>n
<1>11. style = "main" => (f => n = total - given)
  BY <1>n, <1>1, <1>3, <1>4
<1>12. given + n <= total
  BY <1>n, <1>1, <1>2
<1>13. QED
  BY <1>1, <1>2, <1>3, <1>5, <1>6, <1>7, <1>8, <1>9, <1>10, <1>11, <1>12

\* The application hands over a piece.
LEMMA AvailKeeps ==
  ASSUME InputInv, MaxPiece <= WinSize, NEW n \in 0 .. MaxPiece, NEW f \in BOOLEAN,
         AvailInput(n, f)
  PROVE  InputInv'
<1>0. /\ closed = "open" /\ (ret = "XD3_INPUT" \/ (enc_state = "INIT" /\ mem = "none")) /\ Hands(n, f)
      /\ base' = given /\ given' = given + n /\ flush' = f
      /\ mem' = "app" /\ next_in' = 0 /\ avail_in' = n /\ ret' = "RUN"
      /\ UNCHANGED <<style, total, closed, enc_state, buf_in, buf_avail, buf_leftover, buf_leftavail>>
      /\ UNCHANGED <<total_in, windows>>
  BY DEF AvailInput, Open, stream, appVars, bufVars, counters
<1>n. /\ total_in \in Nat /\ given \in Nat /\ total \in Nat /\ given <= total /\ buf_avail \in Nat
      /\ WinSize \in Nat \ {0}
  BY StateNumbers DEF InputInv
<1>1. /\ n \in Nat /\ n <= WinSize /\ given + n <= total
      /\ flush => f
      /\ f => given + n = total \/ style = "memory"
      /\ style = "memory" => f /\ (n = WinSize \/ given + n = total)
      /\ n = 0 => ~flush \/ mem = "none"
  BY <1>0, HandsProperties DEF InputInv
<1>2. enc_state \in {"INIT", "INPUT"}
  BY <1>0 DEF InputInv, Returns, Windowing, TypeOK
<1>3. given = total_in + buf_avail /\ buf_leftover = None
  <2>1. CASE ret = "XD3_INPUT"
    BY <1>0, <2>1 DEF InputInv, NothingLost
  <2>2. CASE mem = "none"
    BY <1>n, <2>2 DEF InputInv, Accounted
  <2>3. QED
    BY <1>0, <2>1, <2>2
<1> HIDE DEF Hands, AvailInput
<1>4. TypeOK'
  <2>1. given' \in 0 .. total /\ base' \in 0 .. given'
    BY <1>0, <1>1, <1>n
  <2>2. buf_leftover' \in {None} \cup 0 .. given' - base'
    BY <1>0, <1>3
  <2>3. QED
    BY <1>0, <1>1, <2>1, <2>2 DEF InputInv, TypeOK
<1>5. ~Windowing' /\ Given'
  BY <1>0, <1>2 DEF Windowing, Given
<1>6. Accounted'
  <2>1. total_in + buf_avail = base' /\ base' + avail_in' = given'
    BY <1>0, <1>3
  <2>2. buf_avail < WinSize /\ \A i \in 1 .. buf_avail : buf_in[i] = total_in + i
    BY DEF InputInv, Accounted
  <2>3. QED
    BY <1>0, <1>1, <1>2, <1>3, <1>5, <2>1, <2>2 DEF Accounted
<1>7. Returns'
  BY <1>0, <1>2, <1>3, <1>5 DEF InputInv, Returns
<1>8. Flushing'
  <2>1. style = "memory" => buf_leftover = None /\ buf_avail = 0
    BY DEF InputInv, Flushing
  <2>2. QED
    BY <1>0, <1>1, <1>5, <2>1 DEF Flushing
<1>9. ~Short
  <2>1. SUFFICES ASSUME Short PROVE FALSE
    OBVIOUS
  <2>2. flush /\ total_in = total
    BY <2>1 DEF InputInv, FullWindows, Short, TypeOK
  <2>3. n = 0
    BY <1>n, <1>1, <1>3, <2>2
  <2>4. mem = "none"
    BY <1>1, <2>2, <2>3
  <2>5. windows = <<>>
    BY <2>4 DEF InputInv, Accounted
  <2>6. QED
    BY <2>1, <2>5 DEF Short
<1>10. ShortIsLast' /\ FullWindows'
  <2>1. \A i \in DOMAIN windows : Len(windows[i]) = WinSize
    BY <1>9 DEF Short, InputInv, TypeOK
  <2>2. QED
    BY <1>0, <1>9, <2>1 DEF ShortIsLast, FullWindows, Short
<1>11. WindowTrue' /\ NothingLost'
  BY <1>0, <1>2 DEF WindowTrue, NothingLost
<1>12. QED
  BY <1>4, <1>6, <1>7, <1>8, <1>10, <1>11 DEF InputInv

\* The application closes the stream.
LEMMA CloseKeeps == InputInv /\ Close => InputInv'
<1> SUFFICES ASSUME InputInv, Close PROVE InputInv'
  OBVIOUS
<1>0. /\ closed = "open" /\ mem # "none" /\ ret \in {"XD3_INPUT", "XD3_WINFINISH"} /\ ret' = ret
      /\ closed' = CloseStream
      /\ UNCHANGED <<style, total, base, given, flush, mem, next_in, total_in, windows>>
      /\ UNCHANGED <<buf_in, buf_avail, buf_leftover, buf_leftavail>>
      /\ \/ enc_state' = "INPUT" /\ avail_in' = 0
         \/ enc_state' = enc_state /\ avail_in' = avail_in
  BY DEF Close, Open, Reset, stream, appVars, inVars, bufVars, counters
<1> HIDE DEF Close
<1>1. enc_state \in {"INPUT", "POSTWIN"}
  BY <1>0 DEF InputInv, Returns, Windowing, TypeOK
<1>2. closed' \in {"OK", "XD3_INTERNAL"}
  BY <1>0 DEF CloseStream
<1>3. TypeOK'
  BY <1>0, <1>2 DEF InputInv, TypeOK
<1>4. ~Given' /\ ~Windowing' /\ ~Windowing
  BY <1>0, <1>1 DEF Given, Windowing
<1>5. Accounted'
  BY <1>0, <1>1, <1>4 DEF InputInv, Accounted, Leftover
<1>6. Returns' /\ Flushing'
  BY <1>0, <1>1, <1>2, <1>4 DEF InputInv, Returns, Flushing
<1>7. ShortIsLast' /\ FullWindows'
  BY <1>0, <1>4 DEF InputInv, ShortIsLast, FullWindows, Short
<1>8. WindowTrue' /\ NothingLost'
  BY <1>0, <1>1, <1>2 DEF WindowTrue, NothingLost
<1>9. QED
  BY <1>3, <1>5, <1>6, <1>7, <1>8 DEF InputInv

\* Every step of the encoder and of the application keeps it.
LEMMA InputNext ==
  ASSUME MaxPiece <= WinSize, InputInv, [Next]_vars
  PROVE  InputInv'
<1>1. CASE UNCHANGED vars
  <2>1. UNCHANGED <<byteVars, enc_state, ret>>
    BY <1>1 DEF vars, byteVars, appVars, inVars, bufVars, counters
  <2>2. Windowing' = Windowing /\ Given' = Given /\ Leftover' = Leftover /\ Short' = Short
    BY <2>1 DEF byteVars, Windowing, Given, Leftover, Short
  <2>3. TypeOK' /\ Accounted' /\ Returns'
    BY <2>1, <2>2 DEF InputInv, TypeOK, Accounted, Returns, byteVars
  <2>4. Flushing' /\ ShortIsLast' /\ FullWindows'
    BY <2>1, <2>2 DEF InputInv, Flushing, ShortIsLast, FullWindows, byteVars
  <2>5. WindowTrue' /\ NothingLost'
    BY <2>1, <2>2 DEF InputInv, WindowTrue, NothingLost, byteVars, Input, Piece
  <2>6. QED
    BY <2>3, <2>4, <2>5 DEF InputInv
<1>2. CASE Encode
  <2>1. CASE EncodeInit
    BY <2>1, InitKeeps
  <2>2. CASE NothingYet
    BY <2>2, NothingYetKeeps
  <2>3. CASE UseInput
    BY <2>3, UseInputKeeps
  <2>4. CASE BufferLeftover
    BY <2>4, BufferKeeps
  <2>5. CASE SearchGetblk
    <3>1. /\ UNCHANGED byteVars /\ enc_state = "SEARCH" /\ enc_state' = "SEARCH"
          /\ ret' = "XD3_GETSRCBLK"
      BY <2>5 DEF SearchGetblk, Running, Return, byteVars, outside, appVars, inVars, bufVars, counters
    <3>2. QED
      BY <3>1, WithinWindow DEF Windowing
  <2>6. ASSUME NEW n \in [Sects -> Counts], Instructions(n)
        PROVE  InputInv'
    <3>1. UNCHANGED byteVars /\ enc_state = "SEARCH" /\ enc_state' = "FLUSH" /\ ret' = "RUN"
      BY <2>6 DEF Instructions, Running, Return, byteVars, outside, appVars, inVars, bufVars, counters
    <3>2. QED
      BY <3>1, WithinWindow DEF Windowing
  <2>7. ASSUME NEW n \in Counts, FlushHeader(n)
        PROVE  InputInv'
    <3>1. UNCHANGED byteVars /\ enc_state = "FLUSH" /\ enc_state' = "POSTOUT" /\ ret' = "XD3_OUTPUT"
      BY <2>7 DEF FlushHeader, Running, Return, byteVars, outside, appVars, inVars, bufVars
    <3>2. QED
      BY <3>1, WithinWindow DEF Windowing
  <2>8. CASE PostOut
    BY <2>8, PostOutKeeps
  <2>9. CASE PostWin
    BY <2>9, PostWinKeeps
  <2>10. QED
    BY <1>2, <2>1, <2>2, <2>3, <2>4, <2>5, <2>6, <2>7, <2>8, <2>9 DEF Encode
<1>3. CASE Application
  <2>1. ASSUME NEW n \in 0 .. MaxPiece, NEW f \in BOOLEAN, AvailInput(n, f)
        PROVE  InputInv'
    BY <2>1, AvailKeeps
  <2>2. CASE Again
    <3>1. /\ UNCHANGED byteVars /\ closed = "open" /\ enc_state' = enc_state /\ ret' = "RUN"
          /\ ret \in {"XD3_WINSTART", "XD3_GETSRCBLK", "XD3_WINFINISH"}
      BY <2>2 DEF Again, Open, byteVars, outside, stream, appVars, inVars, bufVars, counters
    <3>2. enc_state \in {"SEARCH", "FLUSH", "POSTOUT", "POSTWIN"}
      BY <3>1 DEF InputInv, Returns, TypeOK
    <3>3. QED
      BY <3>1, <3>2, WithinWindow, FinishedKeeps DEF Windowing
  <2>3. CASE ConsumeOutput
    <3>1. /\ UNCHANGED byteVars /\ closed = "open" /\ enc_state' = enc_state /\ ret' = "RUN"
          /\ ret = "XD3_OUTPUT"
      BY <2>3 DEF ConsumeOutput, Open, byteVars, outside, stream, appVars, inVars, bufVars, counters
    <3>2. enc_state \in {"SEARCH", "FLUSH", "POSTOUT"}
      BY <3>1 DEF InputInv, Returns, TypeOK
    <3>3. QED
      BY <3>1, <3>2, WithinWindow DEF Windowing
  <2>4. CASE Close
    BY <2>4, CloseKeeps
  <2>5. QED
    BY <1>3, <2>1, <2>2, <2>3, <2>4 DEF Application
<1>4. QED
  BY <1>1, <1>2, <1>3 DEF Next, Stopped

\* xd3_encode_input encodes the input as it was given, each byte once and in order,
\* in windows that are full but for the last, and nothing that the application may
\* overwrite is still needed when XD3_INPUT is returned: for every window size, every
\* length of the input, every way to cut it into pieces no longer than a window, and
\* wherever the encoder stops to ask for source blocks or to output pages.
THEOREM InputKeptAlways ==
  ASSUME MaxPiece <= WinSize
  PROVE  Spec => []InputKept
<1>1. Init => InputInv
  BY InputInit
<1>2. InputInv /\ [Next]_vars => InputInv'
  BY InputNext
<1>3. InputInv => InputKept
  BY DEF InputInv, InputKept
<1>4. QED
  BY <1>1, <1>2, <1>3, PTL DEF Spec

-----------------------------------------------------------------------------
(* Pages *)

\* The pages that m items take are enough, and all but the last are full.
LEMMA ExtraPages ==
  ASSUME NEW m \in Nat
  PROVE  /\ Extra(m) \in Nat /\ Extra(0) = 0 /\ PageSize \in Nat \ {0}
         /\ m <= (1 + Extra(m)) * PageSize
         /\ \A j \in 1 .. Extra(m) : j * PageSize \in Nat /\ j * PageSize < m
<1>1. PageSize \in Nat \ {0} /\ Extra(0) = 0
  BY EncodeAssumption DEF Extra
<1>2. CASE m = 0
  BY <1>1, <1>2
<1>3. CASE m # 0
  <2>1. PICK q : q = (m - 1) \div PageSize
    OBVIOUS
  <2>2. PICK r : r = (m - 1) % PageSize
    OBVIOUS
  <2>3. m - 1 \in Nat
    BY <1>3
  <2>4. q \in Nat /\ r \in 0 .. PageSize - 1 /\ m - 1 = q * PageSize + r
    BY <1>1, <2>1, <2>2, <2>3, Division
  <2>5. Extra(m) = q
    BY <1>3, <2>1 DEF Extra
  <2>6. q * PageSize \in Nat /\ (q + 1) * PageSize = q * PageSize + PageSize
    BY <1>1, <2>4, BlockStarts
  <2>7. m <= (1 + q) * PageSize
    BY <1>1, <2>4, <2>6
  <2>8. ASSUME NEW j \in 1 .. q
        PROVE  j * PageSize \in Nat /\ j * PageSize < m
    <3>1. j \in Nat /\ j <= q
      BY <2>4
    <3>2. j * PageSize \in Nat /\ j * PageSize <= q * PageSize
      BY <1>1, <2>4, <3>1, BlockStarts
    <3>3. QED
      BY <2>4, <2>6, <3>2
  <2>9. QED
    BY <1>1, <2>4, <2>5, <2>7, <2>8
<1>4. QED
  BY <1>2, <1>3

\* A part of a sequence and the part that follows it.
LEMMA JoinParts ==
  ASSUME NEW S, NEW s \in Seq(S), NEW a \in Nat, NEW b \in Nat, a <= b, b <= Len(s)
  PROVE  /\ SubSeq(s, 1, a) \in Seq(S) /\ SubSeq(s, a + 1, b) \in Seq(S) /\ SubSeq(s, 1, b) \in Seq(S)
         /\ Len(SubSeq(s, a + 1, b)) = b - a
         /\ SubSeq(s, 1, a) \o SubSeq(s, a + 1, b) = SubSeq(s, 1, b)
<1>0. Len(s) \in Nat /\ \A i \in 1 .. Len(s) : s[i] \in S
  OBVIOUS
<1>1. PICK x : x = SubSeq(s, 1, a)
  OBVIOUS
<1>2. PICK y : y = SubSeq(s, a + 1, b)
  OBVIOUS
<1>3. PICK z : z = SubSeq(s, 1, b)
  OBVIOUS
<1>4. x \in Seq(S) /\ Len(x) = a /\ \A i \in 1 .. a : x[i] = s[i]
  BY <1>0, <1>1, SubSeqProperties
<1>5. y \in Seq(S) /\ Len(y) = b - a /\ \A i \in 1 .. b - a : y[i] = s[a + i]
  <2>1. \A i \in a + 1 .. b : s[i] \in S
    BY <1>0
  <2>2. /\ y \in Seq(S) /\ Len(y) = IF a + 1 <= b THEN b - (a + 1) + 1 ELSE 0
        /\ \A i \in 1 .. b - (a + 1) + 1 : y[i] = s[(a + 1) + i - 1]
    BY <1>2, <2>1, SubSeqProperties
  <2>3. QED
    BY <2>2
<1>6. z \in Seq(S) /\ Len(z) = b /\ \A i \in 1 .. b : z[i] = s[i]
  BY <1>0, <1>3, SubSeqProperties
<1>7. PICK w : w = x \o y
  OBVIOUS
<1>8. /\ w \in Seq(S) /\ Len(w) = b
      /\ \A i \in 1 .. b : w[i] = IF i <= a THEN x[i] ELSE y[i - a]
  <2>1. /\ w \in Seq(S) /\ Len(w) = Len(x) + Len(y)
        /\ \A i \in 1 .. Len(x) + Len(y) : w[i] = IF i <= Len(x) THEN x[i] ELSE y[i - Len(x)]
    BY <1>4, <1>5, <1>7, ConcatProperties
  <2>2. Len(x) + Len(y) = b
    BY <1>4, <1>5
  <2>3. QED
    BY <1>4, <2>1, <2>2
<1>9. \A i \in 1 .. b : w[i] = z[i]
  <2> SUFFICES ASSUME NEW i \in 1 .. b PROVE w[i] = z[i]
    OBVIOUS
  <2>1. CASE i <= a
    BY <1>4, <1>6, <1>8, <2>1, SMTT(60)
  <2>2. CASE ~(i <= a)
    <3>1. i - a \in 1 .. b - a /\ a + (i - a) = i
      BY <2>2
    <3>2. QED
      BY <1>5, <1>6, <1>8, <2>2, <3>1
  <2>3. QED
    BY <2>1, <2>2
<1>10. w = z
  BY <1>6, <1>8, <1>9, SeqEqual
<1>11. QED
  BY <1>1, <1>2, <1>3, <1>4, <1>5, <1>6, <1>7, <1>10

LEMMA MadeItems ==
  ASSUME NEW s \in Sects, NEW m \in Nat, current_window \in Nat
  PROVE  Items(s, m) \in Seq(Item) /\ Len(Items(s, m)) = m
<1>1. \A i \in 1 .. m : <<current_window, s, i>> \in Item
  BY DEF Item
<1>2. Items(s, m) = [i \in 1 .. m |-> <<current_window, s, i>>]
  BY DEF Items
<1>3. QED
  BY <1>1, <1>2

\* Page j of the m items of section s: the items that follow those on the pages
\* before it.
Sheet(s, m, j) == SubSeq(Items(s, m), (j - 1) * PageSize + 1, Smaller(j * PageSize, m))
UpTo(s, m, j)  == SubSeq(Items(s, m), 1, Smaller(j * PageSize, m))
SheetTrue(s, m, j) ==
  /\ Items(s, m) \in Seq(Item) /\ Len(Items(s, m)) = m
  /\ Sheet(s, m, j) \in Seq(Item) /\ Len(Sheet(s, m, j)) <= PageSize /\ UpTo(s, m, j) \in Seq(Item)
  /\ j = 1 => UpTo(s, m, j) = Sheet(s, m, j)
  /\ j > 1 => UpTo(s, m, j - 1) \in Seq(Item) /\ UpTo(s, m, j - 1) \o Sheet(s, m, j) = UpTo(s, m, j)
  /\ j = 1 + Extra(m) => UpTo(s, m, j) = Items(s, m)

LEMMA SheetParts ==
  ASSUME current_window \in Nat, NEW s \in Sects, NEW m \in Nat, NEW j \in 1 .. 1 + Extra(m)
  PROVE  SheetTrue(s, m, j)
<1>2. PICK x : x = Items(s, m)
  OBVIOUS
<1>3. x \in Seq(Item) /\ Len(x) = m
  BY <1>2, MadeItems
<1>4. PICK e \in Nat : e = Extra(m)
  BY ExtraPages
<1>6. j \in Nat /\ j >= 1 /\ j <= 1 + e
  BY <1>4
<1>7. PICK a : a = (j - 1) * PageSize
  OBVIOUS
<1>8. PICK c : c = j * PageSize
  OBVIOUS
<1>9. PageSize \in Nat \ {0} /\ a \in Nat /\ c = a + PageSize /\ (j = 1 => a = 0)
  <2>1. PageSize \in Nat \ {0}
    BY ExtraPages
  <2>2. PICK k \in Nat : k = j - 1
    BY <1>6
  <2>3. k + 1 = j /\ (j = 1 => k = 0)
    BY <1>6, <2>2
  <2>4. k * PageSize \in Nat /\ (k + 1) * PageSize = k * PageSize + PageSize /\ 0 * PageSize = 0
    BY <2>1, <2>2, BlockStarts
  <2>5. QED
    BY <1>7, <1>8, <2>1, <2>2, <2>3, <2>4
<1>10. a <= m
  <2>1. CASE j = 1
    BY <1>9, <2>1
  <2>2. CASE j # 1
    <3>1. j - 1 \in 1 .. e
      BY <1>6, <2>2
    <3>2. (j - 1) * PageSize < m
      BY <1>4, <3>1, ExtraPages
    <3>3. QED
      BY <1>7, <1>9, <3>2
  <2>3. QED
    BY <2>1, <2>2
<1>11. PICK b : b = Smaller(c, m)
  OBVIOUS
<1>12. b \in Nat /\ a <= b /\ b <= m /\ b - a <= PageSize /\ (m <= c => b = m)
  BY <1>9, <1>10, <1>11 DEF Smaller
<1>13. PICK d : d = Smaller(a, m)
  OBVIOUS
<1>14. d = a
  BY <1>9, <1>10, <1>13 DEF Smaller
<1>15. Sheet(s, m, j) = SubSeq(x, a + 1, b) /\ UpTo(s, m, j) = SubSeq(x, 1, b)
  BY <1>2, <1>7, <1>8, <1>11 DEF Sheet, UpTo
<1>p. UpTo(s, m, j - 1) = SubSeq(x, 1, a)
  BY <1>2, <1>7, <1>13, <1>14 DEF UpTo
<1>16. /\ SubSeq(x, a + 1, b) \in Seq(Item) /\ SubSeq(x, 1, b) \in Seq(Item) /\ SubSeq(x, 1, a) \in Seq(Item)
       /\ Len(SubSeq(x, a + 1, b)) = b - a
       /\ SubSeq(x, 1, a) \o SubSeq(x, a + 1, b) = SubSeq(x, 1, b)
  BY <1>3, <1>9, <1>12, JoinParts
<1>17. j = 1 + Extra(m) => SubSeq(x, 1, b) = x
  <2> SUFFICES ASSUME j = 1 + Extra(m) PROVE SubSeq(x, 1, b) = x
    OBVIOUS
  <2>1. m <= (1 + e) * PageSize
    BY <1>4, ExtraPages
  <2>2. b = m
    BY <1>4, <1>8, <1>12, <2>1
  <2>3. QED
    BY <1>3, <2>2, SubSeqFull
<1>18. j = 1 => SubSeq(x, 1, b) = SubSeq(x, a + 1, b)
  <2> SUFFICES ASSUME j = 1 PROVE SubSeq(x, 1, b) = SubSeq(x, a + 1, b)
    OBVIOUS
  <2>1. a + 1 = 1
    BY <1>9
  <2>2. QED
    BY <2>1
<1>19. Len(Sheet(s, m, j)) <= PageSize
  BY <1>12, <1>15, <1>16
<1>20. QED
  BY <1>2, <1>3, <1>15, <1>p, <1>16, <1>17, <1>18, <1>19 DEF SheetTrue

\* The parts of four sections in a row.
LEMMA Parts ==
  ASSUME NEW e, DOMAIN e = Sects, \A s \in Sects : e[s] \in Nat
  PROVE  /\ Total4(e) \in Nat /\ Below(e, 0) = 0 /\ Below(e, 1) = e[0] /\ Below(e, 2) = e[0] + e[1]
         /\ Below(e, 3) = e[0] + e[1] + e[2] /\ Total4(e) = e[0] + e[1] + e[2] + e[3]
         /\ \A s \in Sects : Below(e, s) \in Nat /\ Below(e, s) + e[s] <= Total4(e)
         /\ \A s, t \in Sects : \A a \in 1 .. e[s], b \in 1 .. e[t] :
              Below(e, s) + a = Below(e, t) + b => s = t /\ a = b
         /\ \A i \in 1 .. Total4(e) : \E s \in Sects : \E a \in 1 .. e[s] : i = Below(e, s) + a
<1>0. Sects = {0, 1, 2, 3}
  BY DEF Sects
<1>1. e[0] \in Nat /\ e[1] \in Nat /\ e[2] \in Nat /\ e[3] \in Nat
  BY <1>0
<1>2. PICK p \in Nat, q \in Nat, r \in Nat, u \in Nat : p = e[0] /\ q = e[1] /\ r = e[2] /\ u = e[3]
  BY <1>1
<1>3. Total4(e) = p + q + r + u
  BY <1>2 DEF Total4
<1>4. ASSUME NEW s \in Sects
      PROVE  Below(e, s) = (IF 0 < s THEN p ELSE 0) + (IF 1 < s THEN q ELSE 0) + (IF 2 < s THEN r ELSE 0)
                             + (IF 3 < s THEN u ELSE 0)
  <2> DEFINE f == [t \in Sects |-> IF t < s THEN e[t] ELSE 0]
  <2>1. /\ f[0] = IF 0 < s THEN p ELSE 0
        /\ f[1] = IF 1 < s THEN q ELSE 0
        /\ f[2] = IF 2 < s THEN r ELSE 0
        /\ f[3] = IF 3 < s THEN u ELSE 0
    BY <1>0, <1>2
  <2> HIDE DEF f
  <2>2. Total4(f) = f[0] + f[1] + f[2] + f[3]
    BY DEF Total4
  <2>3. Below(e, s) = Total4(f)
    BY DEF Below, f
  <2>4. QED
    BY <2>1, <2>2, <2>3
<1>5. Below(e, 0) = 0
  <2>1. 0 \in Sects /\ ~(0 < 0) /\ ~(1 < 0) /\ ~(2 < 0) /\ ~(3 < 0)
    BY <1>0
  <2>2. QED
    BY <1>4, <2>1
<1>6. Below(e, 1) = p
  <2>1. 1 \in Sects /\ 0 < 1 /\ ~(1 < 1) /\ ~(2 < 1) /\ ~(3 < 1)
    BY <1>0
  <2>2. QED
    BY <1>4, <2>1
<1>7. Below(e, 2) = p + q
  <2>1. 2 \in Sects /\ 0 < 2 /\ 1 < 2 /\ ~(2 < 2) /\ ~(3 < 2)
    BY <1>0
  <2>2. QED
    BY <1>4, <2>1
<1>8. Below(e, 3) = p + q + r
  <2>1. 3 \in Sects /\ 0 < 3 /\ 1 < 3 /\ 2 < 3 /\ ~(3 < 3)
    BY <1>0
  <2>2. QED
    BY <1>4, <2>1
<1>9. \A s \in Sects : \/ s = 0 /\ Below(e, s) = 0 /\ e[s] = p
                       \/ s = 1 /\ Below(e, s) = p /\ e[s] = q
                       \/ s = 2 /\ Below(e, s) = p + q /\ e[s] = r
                       \/ s = 3 /\ Below(e, s) = p + q + r /\ e[s] = u
  BY <1>0, <1>2, <1>5, <1>6, <1>7, <1>8
<1>10. \A s \in Sects : Below(e, s) \in Nat /\ Below(e, s) + e[s] <= Total4(e)
  BY <1>3, <1>9
<1>11. ASSUME NEW s \in Sects, NEW t \in Sects, NEW a \in 1 .. e[s], NEW b \in 1 .. e[t],
              Below(e, s) + a = Below(e, t) + b
       PROVE  s = t /\ a = b
  <2>1. PICK x \in Nat, y \in Nat, v \in Nat, w \in Nat :
          x = Below(e, s) /\ y = Below(e, t) /\ v = e[s] /\ w = e[t]
    BY <1>10
  <2>2. \/ s = 0 /\ x = 0 /\ v = p
        \/ s = 1 /\ x = p /\ v = q
        \/ s = 2 /\ x = p + q /\ v = r
        \/ s = 3 /\ x = p + q + r /\ v = u
    BY <1>9, <2>1
  <2>3. \/ t = 0 /\ y = 0 /\ w = p
        \/ t = 1 /\ y = p /\ w = q
        \/ t = 2 /\ y = p + q /\ w = r
        \/ t = 3 /\ y = p + q + r /\ w = u
    BY <1>9, <2>1
  <2>4. a \in 1 .. v /\ b \in 1 .. w /\ x + a = y + b
    BY <1>11, <2>1
  <2>5. QED
    BY <2>2, <2>3, <2>4
<1>12. ASSUME NEW i \in 1 .. Total4(e)
       PROVE  \E s \in Sects : \E a \in 1 .. e[s] : i = Below(e, s) + a
  <2>1. i \in 1 .. p + q + r + u
    BY <1>3
  <2>2. CASE i <= p
    <3>1. 0 \in Sects /\ i \in 1 .. e[0] /\ i = Below(e, 0) + i
      BY <1>0, <1>2, <1>5, <2>1, <2>2
    <3>2. QED
      BY <3>1
  <2>3. CASE p < i /\ i <= p + q
    <3>1. 1 \in Sects /\ i - p \in 1 .. e[1] /\ i = Below(e, 1) + (i - p)
      BY <1>0, <1>2, <1>6, <2>1, <2>3
    <3>2. QED
      BY <3>1
  <2>4. CASE p + q < i /\ i <= p + q + r
    <3>1. 2 \in Sects /\ i - (p + q) \in 1 .. e[2] /\ i = Below(e, 2) + (i - (p + q))
      BY <1>0, <1>2, <1>7, <2>1, <2>4
    <3>2. QED
      BY <3>1
  <2>5. CASE p + q + r < i
    <3>1. 3 \in Sects /\ i - (p + q + r) \in 1 .. e[3] /\ i = Below(e, 3) + (i - (p + q + r))
      BY <1>0, <1>2, <1>8, <2>1, <2>5
    <3>2. QED
      BY <3>1
  <2>6. QED
    BY <2>1, <2>2, <2>3, <2>4, <2>5
<1>13. QED
  BY <1>2, <1>3, <1>5, <1>6, <1>7, <1>8, <1>10, <1>11, <1>12

\* xd3_alloc_output takes the first of the free pages, then new ones.
Allocated(used, new, fresh, free) ==
  /\ new \in Seq(Nat) /\ Len(new) = used /\ fresh \in Nat /\ Len(page) \in Nat /\ Len(enc_free) \in Nat
  /\ \A i \in 1 .. used : i <= Len(enc_free) => new[i] = enc_free[i]
  /\ \A i \in 1 .. used : i > Len(enc_free) =>
       new[i] = Len(page) + (i - Len(enc_free)) /\ new[i] \in Len(page) + 1 .. Len(page) + fresh
  /\ \A p \in Len(page) + 1 .. Len(page) + fresh :
       \E i \in 1 .. used : i > Len(enc_free) /\ new[i] = p
  /\ free \in Seq(Nat) /\ Len(free) + used = Len(enc_free) + fresh
  /\ \A k \in 1 .. Len(free) : used + k \in 1 .. Len(enc_free) /\ free[k] = enc_free[used + k]

LEMMA AllocPages ==
  ASSUME PageTypes, NEW used \in Nat, NEW new, new = Alloc(used),
         NEW fresh, fresh = used - Smaller(used, Len(enc_free)),
         NEW free, free = SubSeq(enc_free, used + 1, Len(enc_free))
  PROVE  Allocated(used, new, fresh, free)
<1>1. PICK l \in Nat : l = Len(enc_free)
  BY DEF PageTypes
<1>2. PICK n \in Nat : n = Len(page)
  BY DEF PageTypes
<1>3. \A i \in 1 .. l : enc_free[i] \in Nat
  BY <1>1 DEF PageTypes
<1>4. new = [i \in 1 .. used |-> IF i <= l THEN enc_free[i] ELSE n + i - l]
  BY <1>1, <1>2 DEF Alloc
<1>5. fresh = IF used < l THEN 0 ELSE used - l
  BY <1>1 DEF Smaller
<1>6. fresh \in Nat
  BY <1>5
<1>7. \A i \in 1 .. used : new[i] \in Nat
  BY <1>3, <1>4
<1>8. new \in Seq(Nat) /\ Len(new) = used
  BY <1>4, <1>7
<1>9. \A i \in 1 .. used : i <= l => new[i] = enc_free[i]
  BY <1>4
<1>10. \A i \in 1 .. used : i > l => new[i] = n + (i - l) /\ new[i] \in n + 1 .. n + fresh
  BY <1>4, <1>5
<1>11. ASSUME NEW p \in n + 1 .. n + fresh
       PROVE  \E i \in 1 .. used : i > l /\ new[i] = p
  <2>1. (p - n) + l \in 1 .. used /\ (p - n) + l > l /\ n + (((p - n) + l) - l) = p
    BY <1>5
  <2>2. QED
    BY <1>10, <2>1
<1>12. free \in Seq(Nat) /\ Len(free) + used = l + fresh
  <2>1. \A i \in used + 1 .. l : enc_free[i] \in Nat
    BY <1>3
  <2>2. /\ free \in Seq(Nat) /\ Len(free) = IF used + 1 <= l THEN l - (used + 1) + 1 ELSE 0
        /\ \A i \in 1 .. l - (used + 1) + 1 : free[i] = enc_free[(used + 1) + i - 1]
    BY <1>1, <2>1, SubSeqProperties
  <2>3. QED
    BY <1>5, <2>2
<1>13. \A k \in 1 .. Len(free) : used + k \in 1 .. l /\ free[k] = enc_free[used + k]
  <2>1. \A i \in used + 1 .. l : enc_free[i] \in Nat
    BY <1>3
  <2>2. /\ Len(free) = IF used + 1 <= l THEN l - (used + 1) + 1 ELSE 0
        /\ \A i \in 1 .. l - (used + 1) + 1 : free[i] = enc_free[(used + 1) + i - 1]
    BY <1>1, <2>1, SubSeqProperties
  <2> SUFFICES ASSUME NEW k \in 1 .. Len(free) PROVE used + k \in 1 .. l /\ free[k] = enc_free[used + k]
    OBVIOUS
  <2>3. k \in 1 .. l - (used + 1) + 1 /\ (used + 1) + k - 1 = used + k /\ used + k \in 1 .. l
    BY <2>2
  <2>4. QED
    BY <2>2, <2>3
<1>14. QED
  BY <1>1, <1>2, <1>6, <1>8, <1>9, <1>10, <1>11, <1>12, <1>13 DEF Allocated

\* The pages that are allocated are in no section yet, and are not free any more.
NewPagesTrue(used, new, fresh, free) ==
  /\ \A i, j \in 1 .. used : new[i] = new[j] => i = j
  /\ \A s \in Sects : \A i \in 1 .. Len(heads[s]), k \in 1 .. used : heads[s][i] # new[k]
  /\ \A k \in 1 .. used, j \in 1 .. Len(free) : new[k] # free[j]
  /\ \A k \in 1 .. used : new[k] \in 1 .. Len(page) + fresh
  /\ \A i, j \in 1 .. Len(free) : free[i] = free[j] => i = j
  /\ \A s \in Sects : \A i \in 1 .. Len(heads[s]), k \in 1 .. Len(free) : heads[s][i] # free[k]
  /\ \A k \in 1 .. Len(free) : free[k] \in 1 .. Len(page)
  /\ \A p \in 1 .. Len(page) + fresh :
       \/ \E s \in Sects : \E i \in 1 .. Len(heads[s]) : heads[s][i] = p
       \/ \E k \in 1 .. used : new[k] = p
       \/ \E k \in 1 .. Len(free) : free[k] = p

LEMMA NewPages ==
  ASSUME PageTypes, NEW used \in Nat, NEW new, new = Alloc(used),
         NEW fresh, fresh = used - Smaller(used, Len(enc_free)),
         NEW free, free = SubSeq(enc_free, used + 1, Len(enc_free)),
         InOnePlace(heads, enc_free, Len(page))
  PROVE  NewPagesTrue(used, new, fresh, free)
<1>a. Allocated(used, new, fresh, free)
  BY AllocPages
<1>b. Len(free) \in Nat /\ Len(page) \in Nat /\ Len(enc_free) \in Nat
  BY <1>a DEF Allocated
<1>1. PICK l \in Nat, n \in Nat, m \in Nat : l = Len(enc_free) /\ n = Len(page) /\ m = Len(free)
  BY <1>b
<1>2. /\ fresh \in Nat /\ m + used = l + fresh
      /\ \A i \in 1 .. used : i <= l => new[i] = enc_free[i]
      /\ \A i \in 1 .. used : i > l => new[i] = n + (i - l) /\ new[i] \in n + 1 .. n + fresh
      /\ \A p \in n + 1 .. n + fresh : \E i \in 1 .. used : i > l /\ new[i] = p
      /\ \A k \in 1 .. m : used + k \in 1 .. l /\ free[k] = enc_free[used + k]
  BY <1>1, <1>a DEF Allocated
<1>3. /\ \A s \in Sects : \A i \in 1 .. Len(heads[s]) : heads[s][i] \in 1 .. n
      /\ \A i \in 1 .. l : enc_free[i] \in 1 .. n
      /\ \A s \in Sects : \A i \in 1 .. Len(heads[s]), j \in 1 .. l : heads[s][i] # enc_free[j]
      /\ \A i, j \in 1 .. l : enc_free[i] = enc_free[j] => i = j
      /\ \A p \in 1 .. n : \/ \E s \in Sects : \E i \in 1 .. Len(heads[s]) : heads[s][i] = p
                           \/ \E i \in 1 .. l : enc_free[i] = p
  BY <1>1 DEF InOnePlace
<1>f. fresh \in Nat
  BY <1>2
<1>i. \A i, j \in 1 .. l : enc_free[i] = enc_free[j] => i = j
  BY <1>3
<1>4. \A k \in 1 .. used : \/ k \in 1 .. l /\ new[k] = enc_free[k]
                           \/ k > l /\ new[k] = n + (k - l) /\ new[k] \in n + 1 .. n + fresh
  BY <1>2
<1>5. \A k \in 1 .. used : new[k] \in 1 .. n + fresh
  <2> TAKE k \in 1 .. used
  <2>1. CASE k \in 1 .. l /\ new[k] = enc_free[k]
    BY <1>2, <1>3, <2>1
  <2>2. CASE new[k] \in n + 1 .. n + fresh
    BY <2>2
  <2>3. QED
    BY <1>4, <2>1, <2>2
<1>6. ASSUME NEW i \in 1 .. used, NEW j \in 1 .. used, new[i] = new[j]
      PROVE  i = j
  <2>1. CASE i \in 1 .. l /\ new[i] = enc_free[i] /\ j \in 1 .. l /\ new[j] = enc_free[j]
    <3>1. enc_free[i] = enc_free[j]
      BY <1>6, <2>1
    <3>2. QED
      BY <1>i, <2>1, <3>1
  <2>2. CASE i \in 1 .. l /\ new[i] = enc_free[i] /\ new[j] \in n + 1 .. n + fresh
    <3>1. enc_free[i] \in 1 .. n
      BY <1>3, <2>2
    <3>2. QED
      BY <1>6, <2>2, <3>1
  <2>3. CASE j \in 1 .. l /\ new[j] = enc_free[j] /\ new[i] \in n + 1 .. n + fresh
    <3>1. enc_free[j] \in 1 .. n
      BY <1>3, <2>3
    <3>2. QED
      BY <1>6, <2>3, <3>1
  <2>4. CASE i > l /\ new[i] = n + (i - l) /\ j > l /\ new[j] = n + (j - l)
    <3>1. n + (i - l) = n + (j - l)
      BY <1>6, <2>4, Zenon
    <3>2. i \in Nat /\ j \in Nat
      OBVIOUS
    <3>3. QED
      BY <3>1, <3>2
  <2>5. QED
    BY <1>4, <2>1, <2>2, <2>3, <2>4
<1>7. ASSUME NEW s \in Sects, NEW i \in 1 .. Len(heads[s]), NEW k \in 1 .. used
      PROVE  heads[s][i] # new[k]
  <2>1. heads[s][i] \in 1 .. n
    BY <1>3
  <2>2. CASE k \in 1 .. l /\ new[k] = enc_free[k]
    BY <1>3, <2>2
  <2>3. CASE new[k] \in n + 1 .. n + fresh
    BY <2>1, <2>3
  <2>4. QED
    BY <1>4, <2>2, <2>3
<1>8. ASSUME NEW k \in 1 .. used, NEW j \in 1 .. m
      PROVE  new[k] # free[j]
  <2>1. used + j \in 1 .. l /\ free[j] = enc_free[used + j] /\ used + j # k
    <3>1. used + j # k
      OBVIOUS
    <3>2. QED
      BY <1>2, <3>1
  <2>2. free[j] \in 1 .. n
    BY <1>3, <2>1
  <2>3. CASE k \in 1 .. l /\ new[k] = enc_free[k]
    <3>1. PICK d \in 1 .. l : d = used + j
      BY <2>1
    <3>2. d # k /\ free[j] = enc_free[d]
      BY <2>1, <3>1
    <3>3. enc_free[k] # enc_free[d]
      BY <1>i, <2>3, <3>2
    <3>4. QED
      BY <2>3, <3>2, <3>3
  <2>4. CASE new[k] \in n + 1 .. n + fresh
    <3>1. PICK v \in 1 .. n : v = free[j]
      BY <2>2
    <3>2. PICK w \in n + 1 .. n + fresh : w = new[k]
      BY <2>4
    <3>3. v # w
      BY <1>f
    <3>4. QED
      BY <3>1, <3>2, <3>3
  <2>5. QED
    BY <1>4, <2>3, <2>4
<1>9. ASSUME NEW i \in 1 .. m, NEW j \in 1 .. m, free[i] = free[j]
      PROVE  i = j
  <2>1. /\ used + i \in 1 .. l /\ free[i] = enc_free[used + i]
        /\ used + j \in 1 .. l /\ free[j] = enc_free[used + j]
    BY <1>2
  <2>2. used + i = used + j
    BY <1>3, <1>9, <2>1
  <2>3. QED
    BY <2>2
<1>10. \A s \in Sects : \A i \in 1 .. Len(heads[s]), k \in 1 .. m : heads[s][i] # free[k]
  <2> SUFFICES ASSUME NEW s \in Sects, NEW i \in 1 .. Len(heads[s]), NEW k \in 1 .. m
               PROVE  heads[s][i] # free[k]
    OBVIOUS
  <2>1. used + k \in 1 .. l /\ free[k] = enc_free[used + k]
    BY <1>2
  <2>2. heads[s][i] # enc_free[used + k]
    BY <1>3, <2>1, SMTT(60)
  <2>3. QED
    BY <2>1, <2>2
<1>11. \A k \in 1 .. m : free[k] \in 1 .. n
  BY <1>2, <1>3
<1>12. ASSUME NEW p \in 1 .. n + fresh
       PROVE  \/ \E s \in Sects : \E i \in 1 .. Len(heads[s]) : heads[s][i] = p
              \/ \E k \in 1 .. used : new[k] = p
              \/ \E k \in 1 .. m : free[k] = p
  <2>1. CASE p \in n + 1 .. n + fresh
    BY <1>2, <2>1
  <2>2. CASE \E s \in Sects : \E i \in 1 .. Len(heads[s]) : heads[s][i] = p
    BY <2>2
  <2>3. CASE \E i \in 1 .. l : enc_free[i] = p
    <3>1. PICK i \in 1 .. l : enc_free[i] = p
      BY <2>3
    <3>2. CASE i <= used
      <4>1. i \in 1 .. used /\ i <= l
        BY <3>2
      <4>2. new[i] = p
        BY <1>2, <3>1, <4>1
      <4>3. QED
        BY <4>1, <4>2
    <3>3. CASE ~(i <= used)
      <4>1. fresh = 0
        BY <1>1, <3>3 DEF Smaller
      <4>2. i - used \in 1 .. m /\ used + (i - used) = i
        BY <1>2, <3>3, <4>1
      <4>3. free[i - used] = p
        BY <1>2, <3>1, <4>2
      <4>4. QED
        BY <4>2, <4>3
    <3>4. QED
      BY <3>2, <3>3
  <2>4. p \in 1 .. n \/ p \in n + 1 .. n + fresh
    BY <1>2
  <2>5. QED
    BY <1>3, <2>1, <2>2, <2>3, <2>4
<1>13. QED
  BY <1>1, <1>5, <1>6, <1>7, <1>8, <1>9, <1>10, <1>11, <1>12, ZenonT(60) DEF NewPagesTrue

\* Section s goes on with e[s] of the new pages.
Longer(h, e, new) ==
  /\ h \in [Sects -> Seq(Nat)]
  /\ \A s \in Sects : /\ Len(h[s]) = Len(heads[s]) + e[s]
                      /\ \A i \in 1 .. Len(heads[s]) : h[s][i] = heads[s][i]
                      /\ \A a \in 1 .. e[s] : h[s][Len(heads[s]) + a] = new[Below(e, s) + a]

LEMMA LongerLists ==
  ASSUME heads \in [Sects -> Seq(Nat)], NEW e, DOMAIN e = Sects, \A s \in Sects : e[s] \in Nat,
         NEW new \in Seq(Nat), Len(new) = Total4(e),
         NEW h, h = [s \in Sects |-> heads[s] \o SubSeq(new, Below(e, s) + 1, Below(e, s) + e[s])]
  PROVE  Longer(h, e, new)
<1>1. ASSUME NEW s \in Sects
      PROVE  /\ h[s] \in Seq(Nat) /\ Len(h[s]) = Len(heads[s]) + e[s]
             /\ \A i \in 1 .. Len(heads[s]) : h[s][i] = heads[s][i]
             /\ \A a \in 1 .. e[s] : h[s][Len(heads[s]) + a] = new[Below(e, s) + a]
  <2>1. PICK b \in Nat, c \in Nat, t \in Nat : b = Below(e, s) /\ c = e[s] /\ t = Len(new) /\ b + c <= t
    BY Parts
  <2>2. b + c <= t
    BY <2>1
  <2>3. PICK x \in Seq(Nat), l \in Nat : x = heads[s] /\ l = Len(x)
    OBVIOUS
  <2>4. PICK y : y = SubSeq(new, b + 1, b + c)
    OBVIOUS
  <2>5. y \in Seq(Nat) /\ Len(y) = c /\ \A a \in 1 .. c : y[a] = new[b + a]
    <3>1. \A i \in b + 1 .. b + c : new[i] \in Nat
      BY <2>1, <2>2, SMTT(60)
    <3>a. PICK u \in Nat, v \in Nat : u = b + 1 /\ v = b + c
      OBVIOUS
    <3>2. /\ y \in Seq(Nat) /\ Len(y) = IF u <= v THEN v - u + 1 ELSE 0
          /\ \A i \in 1 .. v - u + 1 : y[i] = new[u + i - 1]
      <4>1. y = SubSeq(new, u, v) /\ u \in Int /\ v \in Int /\ \A i \in u .. v : new[i] \in Nat
        BY <2>4, <3>1, <3>a
      <4>2. QED
        BY <4>1, SubSeqProperties
    <3>3. v - u + 1 = c /\ (~(u <= v) => c = 0) /\ \A a \in 1 .. c : u + a - 1 = b + a
      BY <3>a
    <3>4. QED
      BY <3>2, <3>3
  <2>6. PICK z : z = x \o y
    OBVIOUS
  <2>7. /\ z \in Seq(Nat) /\ Len(z) = l + c
        /\ \A i \in 1 .. l + c : z[i] = IF i <= l THEN x[i] ELSE y[i - l]
    <3>1. /\ z \in Seq(Nat) /\ Len(z) = Len(x) + Len(y)
          /\ \A i \in 1 .. Len(x) + Len(y) : z[i] = IF i <= Len(x) THEN x[i] ELSE y[i - Len(x)]
      BY <2>5, <2>6, ConcatProperties
    <3>2. QED
      BY <2>3, <2>5, <3>1
  <2>8. h[s] = z
    BY <2>1, <2>3, <2>4, <2>6
  <2>9. \A i \in 1 .. l : z[i] = x[i]
    BY <2>7
  <2>10. ASSUME NEW a \in 1 .. c
         PROVE  z[l + a] = new[b + a]
    <3>1. l + a \in 1 .. l + c /\ ~(l + a <= l) /\ (l + a) - l = a
      OBVIOUS
    <3>2. QED
      BY <2>5, <2>7, <3>1
  <2>11. QED
    BY <2>1, <2>3, <2>7, <2>8, <2>9, <2>10
<1>2. h \in [Sects -> Seq(Nat)]
  BY <1>1
<1>3. QED
  BY <1>1, <1>2 DEF Longer

\* Each page of a longer list was there before, or is new.
OldNew(h, e, new, s, i) ==
  \/ i \in 1 .. Len(heads[s]) /\ h[s][i] = heads[s][i]
  \/ \E a \in 1 .. e[s] : i = Len(heads[s]) + a /\ h[s][i] = new[Below(e, s) + a]

LEMMA OldOrNew ==
  ASSUME heads \in [Sects -> Seq(Nat)], NEW e, \A s \in Sects : e[s] \in Nat, NEW h, NEW new, Longer(h, e, new),
         NEW s \in Sects, NEW i \in 1 .. Len(h[s])
  PROVE  OldNew(h, e, new, s, i)
<1>1. PICK l \in Nat, c \in Nat : l = Len(heads[s]) /\ c = e[s]
  OBVIOUS
<1>2. /\ Len(h[s]) = l + c /\ \A k \in 1 .. l : h[s][k] = heads[s][k]
      /\ \A a \in 1 .. c : h[s][l + a] = new[Below(e, s) + a]
  BY <1>1 DEF Longer
<1>3. CASE i <= l
  BY <1>1, <1>2, <1>3 DEF OldNew
<1>4. CASE ~(i <= l)
  <2>1. i - l \in 1 .. c /\ l + (i - l) = i
    BY <1>2, <1>4
  <2>2. QED
    BY <1>1, <1>2, <2>1 DEF OldNew
<1>5. QED
  BY <1>3, <1>4

LEMMA EmitLists ==
  ASSUME PageTypes, NEW e, DOMAIN e = Sects, \A s \in Sects : e[s] \in Nat,
         NEW used, used = Total4(e), NEW new, new = Alloc(used),
         NEW fresh, fresh = used - Smaller(used, Len(enc_free)),
         NEW free, free = SubSeq(enc_free, used + 1, Len(enc_free)),
         InOnePlace(heads, enc_free, Len(page)), NEW h, Longer(h, e, new)
  PROVE  InOnePlace(h, free, Len(page) + fresh)
<1>0. used \in Nat /\ heads \in [Sects -> Seq(Nat)]
  BY Parts DEF PageTypes
<1>1. Allocated(used, new, fresh, free)
  BY <1>0, AllocPages
<1>2. PICK n \in Nat, x \in Nat : n = Len(page) /\ x = fresh
  BY <1>1 DEF Allocated
<1>3. /\ \A i, j \in 1 .. used : new[i] = new[j] => i = j
      /\ \A s \in Sects : \A i \in 1 .. Len(heads[s]), k \in 1 .. used : heads[s][i] # new[k]
      /\ \A k \in 1 .. used, j \in 1 .. Len(free) : new[k] # free[j]
      /\ \A k \in 1 .. used : new[k] \in 1 .. n + x
      /\ \A i, j \in 1 .. Len(free) : free[i] = free[j] => i = j
      /\ \A s \in Sects : \A i \in 1 .. Len(heads[s]), k \in 1 .. Len(free) : heads[s][i] # free[k]
      /\ \A k \in 1 .. Len(free) : free[k] \in 1 .. n
      /\ \A p \in 1 .. n + x :
           \/ \E s \in Sects : \E i \in 1 .. Len(heads[s]) : heads[s][i] = p
           \/ \E k \in 1 .. used : new[k] = p
           \/ \E k \in 1 .. Len(free) : free[k] = p
  <2>1. NewPagesTrue(used, new, fresh, free)
    BY <1>0, NewPages
  <2>2. QED
    BY <1>2, <2>1 DEF NewPagesTrue
<1>x. Len(page) = n /\ fresh = x
  BY <1>2
<1>a. \A i, j \in 1 .. used : new[i] = new[j] => i = j
  BY <1>3
<1>b. \A s \in Sects : \A i \in 1 .. Len(heads[s]), k \in 1 .. used : heads[s][i] # new[k]
  BY <1>3
<1>c. \A k \in 1 .. used, j \in 1 .. Len(free) : new[k] # free[j]
  BY <1>3
<1>d. \A k \in 1 .. used : new[k] \in 1 .. n + x
  BY <1>3
<1>e. \A s \in Sects : \A i \in 1 .. Len(heads[s]), k \in 1 .. Len(free) : heads[s][i] # free[k]
  BY <1>3
<1>f. \A k \in 1 .. Len(free) : free[k] \in 1 .. n
  BY <1>3
<1>g. \A i, j \in 1 .. Len(free) : free[i] = free[j] => i = j
  BY <1>3
<1>h. \A p \in 1 .. n + x :
        \/ \E s \in Sects : \E i \in 1 .. Len(heads[s]) : heads[s][i] = p
        \/ \E k \in 1 .. used : new[k] = p
        \/ \E k \in 1 .. Len(free) : free[k] = p
  BY <1>3
<1>4. /\ \A s \in Sects : \A i \in 1 .. Len(heads[s]) : heads[s][i] \in 1 .. n
      /\ \A s, t \in Sects : \A i \in 1 .. Len(heads[s]), j \in 1 .. Len(heads[t]) :
           heads[s][i] = heads[t][j] => s = t /\ i = j
      /\ n = Len(heads[0]) + Len(heads[1]) + Len(heads[2]) + Len(heads[3]) + Len(enc_free)
  BY <1>2 DEF InOnePlace
<1>5. \A s \in Sects : \A a \in 1 .. e[s] : Below(e, s) + a \in 1 .. used
  <2> TAKE s \in Sects
  <2> TAKE a \in 1 .. e[s]
  <2>1. PICK b \in Nat, c \in Nat, t \in Nat : b = Below(e, s) /\ c = e[s] /\ t = Total4(e) /\ b + c <= t
    BY Parts
  <2>2. QED
    BY <2>1, SMTT(60)
<1>6. ASSUME NEW s \in Sects, NEW i \in 1 .. Len(h[s])
      PROVE  h[s][i] \in 1 .. n + x /\ \A j \in 1 .. Len(free) : h[s][i] # free[j]
  <2>1. CASE i \in 1 .. Len(heads[s]) /\ h[s][i] = heads[s][i]
    <3>1. heads[s][i] \in 1 .. n
      BY <1>4, <2>1
    <3>2. heads[s][i] \in 1 .. n + x
      BY <3>1
    <3>3. QED
      BY <1>e, <2>1, <3>2
  <2>2. ASSUME NEW a \in 1 .. e[s], h[s][i] = new[Below(e, s) + a]
        PROVE  h[s][i] \in 1 .. n + x /\ \A j \in 1 .. Len(free) : h[s][i] # free[j]
    <3>1. PICK k \in 1 .. used : k = Below(e, s) + a
      BY <1>5
    <3>2. h[s][i] = new[k]
      BY <2>2, <3>1
    <3>3. QED
      BY <1>c, <1>d, <3>2
  <2>3. OldNew(h, e, new, s, i)
    BY <1>0, OldOrNew
  <2>4. QED
    BY <2>1, <2>2, <2>3 DEF OldNew
<1>7. ASSUME NEW s \in Sects, NEW t \in Sects, NEW i \in 1 .. Len(h[s]), NEW j \in 1 .. Len(h[t]),
             h[s][i] = h[t][j]
      PROVE  s = t /\ i = j
  <2>1. \/ i \in 1 .. Len(heads[s]) /\ h[s][i] = heads[s][i]
        \/ \E a \in 1 .. e[s] : i = Len(heads[s]) + a /\ h[s][i] = new[Below(e, s) + a]
    <3>1. OldNew(h, e, new, s, i)
      BY <1>0, OldOrNew
    <3>2. QED
      BY <3>1 DEF OldNew
  <2>2. \/ j \in 1 .. Len(heads[t]) /\ h[t][j] = heads[t][j]
        \/ \E a \in 1 .. e[t] : j = Len(heads[t]) + a /\ h[t][j] = new[Below(e, t) + a]
    <3>1. OldNew(h, e, new, t, j)
      BY <1>0, OldOrNew
    <3>2. QED
      BY <3>1 DEF OldNew
  <2>3. CASE i \in 1 .. Len(heads[s]) /\ h[s][i] = heads[s][i] /\ j \in 1 .. Len(heads[t]) /\ h[t][j] = heads[t][j]
    <3>1. heads[s][i] = heads[t][j]
      BY <1>7, <2>3
    <3>2. QED
      BY <1>4, <2>3, <3>1
  <2>4. ASSUME i \in 1 .. Len(heads[s]), h[s][i] = heads[s][i],
               NEW a \in 1 .. e[t], h[t][j] = new[Below(e, t) + a]
        PROVE  FALSE
    <3>1. PICK k \in 1 .. used : k = Below(e, t) + a
      BY <1>5
    <3>2. heads[s][i] # new[k]
      BY <1>b, <2>4
    <3>3. QED
      BY <1>7, <2>4, <3>1, <3>2
  <2>5. ASSUME j \in 1 .. Len(heads[t]), h[t][j] = heads[t][j],
               NEW a \in 1 .. e[s], h[s][i] = new[Below(e, s) + a]
        PROVE  FALSE
    <3>1. PICK k \in 1 .. used : k = Below(e, s) + a
      BY <1>5
    <3>2. heads[t][j] # new[k]
      BY <1>b, <2>5
    <3>3. QED
      BY <1>7, <2>5, <3>1, <3>2
  <2>6. ASSUME NEW a \in 1 .. e[s], i = Len(heads[s]) + a, h[s][i] = new[Below(e, s) + a],
               NEW b \in 1 .. e[t], j = Len(heads[t]) + b, h[t][j] = new[Below(e, t) + b]
        PROVE  s = t /\ i = j
    <3>1. PICK k \in 1 .. used : k = Below(e, s) + a
      BY <1>5
    <3>2. PICK m \in 1 .. used : m = Below(e, t) + b
      BY <1>5
    <3>3. new[k] = new[m]
      BY <1>7, <2>6, <3>1, <3>2
    <3>4. k = m
      BY <1>a, <3>3
    <3>5. s = t /\ a = b
      BY <3>1, <3>2, <3>4, Parts, SMTT(60)
    <3>6. QED
      BY <2>6, <3>5
  <2>7. QED
    BY <2>1, <2>2, <2>3, <2>4, <2>5, <2>6
<1>8. ASSUME NEW p \in 1 .. n + x
      PROVE  \/ \E s \in Sects : \E i \in 1 .. Len(h[s]) : h[s][i] = p
             \/ \E i \in 1 .. Len(free) : free[i] = p
  <2>1. ASSUME NEW s \in Sects, NEW i \in 1 .. Len(heads[s]), heads[s][i] = p
        PROVE  \E k \in 1 .. Len(h[s]) : h[s][k] = p
    <3>1. PICK l \in Nat, c \in Nat : l = Len(heads[s]) /\ c = e[s]
      BY <1>0
    <3>2. Len(h[s]) = l + c /\ h[s][i] = heads[s][i]
      BY <3>1 DEF Longer
    <3>3. i \in 1 .. Len(h[s])
      BY <3>1, <3>2
    <3>4. QED
      BY <2>1, <3>2, <3>3
  <2>2. ASSUME NEW k \in 1 .. used, new[k] = p
        PROVE  \E s \in Sects : \E i \in 1 .. Len(h[s]) : h[s][i] = p
    <3>6. PICK s \in Sects : \E a \in 1 .. e[s] : k = Below(e, s) + a
      BY Parts
    <3>1. PICK a \in 1 .. e[s] : k = Below(e, s) + a
      BY <3>6
    <3>2. PICK l \in Nat, c \in Nat : l = Len(heads[s]) /\ c = e[s]
      BY <1>0
    <3>3. Len(h[s]) = l + c /\ h[s][l + a] = new[Below(e, s) + a]
      BY <3>2 DEF Longer
    <3>4. l + a \in 1 .. Len(h[s])
      <4>1. a \in 1 .. c
        BY <3>2
      <4>2. l + a \in 1 .. l + c
        BY <4>1
      <4>3. QED
        BY <3>3, <4>2
    <3>5. QED
      BY <2>2, <3>1, <3>3, <3>4
  <2>3. QED
    BY <1>h, <2>1, <2>2
<1>9. n + x = Len(h[0]) + Len(h[1]) + Len(h[2]) + Len(h[3]) + Len(free)
  <2>1. Sects = {0, 1, 2, 3}
    BY DEF Sects
  <2>2. PICK l0 \in Nat, l1 \in Nat, l2 \in Nat, l3 \in Nat, l4 \in Nat, l5 \in Nat :
          /\ l0 = Len(heads[0]) /\ l1 = Len(heads[1]) /\ l2 = Len(heads[2]) /\ l3 = Len(heads[3])
          /\ l4 = Len(enc_free) /\ l5 = Len(free)
    <3>1. free \in Seq(Nat) /\ enc_free \in Seq(Nat)
      BY <1>1 DEF Allocated, PageTypes
    <3>2. Len(free) \in Nat /\ Len(enc_free) \in Nat
      BY <3>1
    <3>3. Len(heads[0]) \in Nat /\ Len(heads[1]) \in Nat /\ Len(heads[2]) \in Nat /\ Len(heads[3]) \in Nat
      BY <1>0, <2>1, SMTT(60)
    <3>4. QED
      BY <3>2, <3>3
  <2>3. PICK c0 \in Nat, c1 \in Nat, c2 \in Nat, c3 \in Nat : c0 = e[0] /\ c1 = e[1] /\ c2 = e[2] /\ c3 = e[3]
    BY <2>1
  <2>4. Len(h[0]) = l0 + c0 /\ Len(h[1]) = l1 + c1 /\ Len(h[2]) = l2 + c2 /\ Len(h[3]) = l3 + c3
    BY <2>1, <2>2, <2>3 DEF Longer
  <2>5. used = c0 + c1 + c2 + c3
    BY <2>3, Parts
  <2>6. l5 + used = l4 + x
    BY <1>1, <1>2, <2>2 DEF Allocated
  <2>7. n = l0 + l1 + l2 + l3 + l4
    BY <1>4, <2>2
  <2>8. n + x = (l0 + c0) + (l1 + c1) + (l2 + c2) + (l3 + c3) + l5
    BY <2>5, <2>6, <2>7
  <2>9. QED
    BY <2>2, <2>4, <2>8
<1>10. \A i \in 1 .. Len(free) : free[i] \in 1 .. n + x
  <2> TAKE i \in 1 .. Len(free)
  <2>1. PICK v \in 1 .. n : v = free[i]
    BY <1>f
  <2>2. v \in 1 .. n + x
    OBVIOUS
  <2>3. QED
    BY <2>1, <2>2
<1>11. QED
  <2>1. InOnePlace(h, free, n + x)
    <3>1. \A s \in Sects : \A i \in 1 .. Len(h[s]) : h[s][i] \in 1 .. n + x
      BY <1>6
    <3>2. \A s \in Sects : \A i \in 1 .. Len(h[s]), j \in 1 .. Len(free) : h[s][i] # free[j]
      BY <1>6
    <3>3. \A s, t \in Sects : \A i \in 1 .. Len(h[s]), j \in 1 .. Len(h[t]) :
            h[s][i] = h[t][j] => s = t /\ i = j
      BY <1>7
    <3>4. QED
      BY <1>g, <1>8, <1>9, <1>10, <3>1, <3>2, <3>3, Zenon DEF InOnePlace
  <2>2. QED
    BY <1>2, <2>1

\* What xd3_emit_bytes makes: the lists h of the sections, and what is on the pages.
Emitted(n, h) ==
  /\ h \in [Sects -> Seq(Nat)] /\ enc_free' \in Seq(Nat) /\ page' \in Seq(Seq(Item))
  /\ InOnePlace(h, enc_free', Len(page'))
  /\ \A s \in Sects : Len(h[s]) = Len(heads[s]) + Extra(n[s])
  /\ \A s \in Sects : \A j \in 1 .. Len(h[s]) :
       /\ n[s] > 0 => page'[h[s][j]] = Sheet(s, n[s], j)
       /\ n[s] = 0 => j \in 1 .. Len(heads[s]) /\ page'[h[s][j]] = page[heads[s][j]]
  /\ \A p \in 1 .. Len(page') : Len(page'[p]) <= PageSize
  /\ made' = [s \in Sects |-> made[s] + n[s]]

LEMMA EmitPages ==
  ASSUME PageTypes, NEW n \in [Sects -> Nat], NEW h, h = Lists(n), Emit(n, h),
         InOnePlace(heads, enc_free, Len(page)), \A s \in Sects : n[s] > 0 => Len(heads[s]) = 1
  PROVE  Emitted(n, h)
<1> DEFINE all    == Total4([s \in Sects |-> Extra(n[s])])
           filled == {f \in Sects \X (1 .. all + 1) : n[f[1]] > 0 /\ f[2] \in DOMAIN h[f[1]]}
           on(p)  == {f \in filled : h[f[1]][f[2]] = p}
           text(p) == IF on(p) # {} THEN Sheet((CHOOSE f \in on(p) : TRUE)[1], n[(CHOOSE f \in on(p) : TRUE)[1]],
                                               (CHOOSE f \in on(p) : TRUE)[2])
                      ELSE IF p <= Len(page) THEN page[p] ELSE <<>>
<1>0. /\ page' = [p \in 1 .. Len(page) + (all - Smaller(all, Len(enc_free))) |-> text(p)]
      /\ enc_free' = SubSeq(enc_free, all + 1, Len(enc_free))
      /\ made' = [s \in Sects |-> made[s] + n[s]]
  BY DEF Emit, Sheet
<1> HIDE DEF text, on, filled, all
<1>1. PICK e : e = [s \in Sects |-> Extra(n[s])]
  OBVIOUS
<1>2. DOMAIN e = Sects /\ \A s \in Sects : e[s] \in Nat /\ e[s] = Extra(n[s])
  BY <1>1, ExtraPages
<1>3. PICK used \in Nat : used = Total4(e) /\ used = all
  BY <1>1, <1>2, Parts DEF all
<1>4. PICK new : new = Alloc(used)
  OBVIOUS
<1>5. PICK fresh : fresh = used - Smaller(used, Len(enc_free))
  OBVIOUS
<1>6. PICK free : free = SubSeq(enc_free, used + 1, Len(enc_free))
  OBVIOUS
<1>7. Allocated(used, new, fresh, free)
  BY <1>4, <1>5, <1>6, AllocPages
<1>8. PICK t \in Nat, x \in Nat : t = Len(page) /\ x = fresh
  BY <1>7 DEF Allocated
<1>9. Longer(h, e, new)
  <2>1. h = [s \in Sects |-> heads[s] \o SubSeq(new, Below(e, s) + 1, Below(e, s) + e[s])]
    BY <1>1, <1>3, <1>4 DEF Lists
  <2>2. new \in Seq(Nat) /\ Len(new) = Total4(e) /\ heads \in [Sects -> Seq(Nat)]
    BY <1>3, <1>7 DEF Allocated, PageTypes
  <2>3. QED
    BY <1>2, <2>1, <2>2, LongerLists
<1>10. InOnePlace(h, free, t + x)
  BY <1>2, <1>3, <1>4, <1>5, <1>6, <1>8, <1>9, EmitLists
<1>11. /\ h \in [Sects -> Seq(Nat)]
       /\ \A s \in Sects : Len(h[s]) = Len(heads[s]) + e[s]
       /\ \A s \in Sects : \A i \in 1 .. Len(heads[s]) : h[s][i] = heads[s][i]
  BY <1>9 DEF Longer
<1>12. \A s, u \in Sects : \A i \in 1 .. Len(h[s]), j \in 1 .. Len(h[u]) :
         h[s][i] = h[u][j] => s = u /\ i = j
  BY <1>10 DEF InOnePlace
<1>13. \A s \in Sects : \A i \in 1 .. Len(h[s]) : h[s][i] \in 1 .. t + x
  BY <1>10 DEF InOnePlace
<1>14. /\ page' = [p \in 1 .. t + x |-> text(p)]
       /\ enc_free' = free /\ made' = [s \in Sects |-> made[s] + n[s]]
  BY <1>0, <1>3, <1>5, <1>6, <1>8
<1>15. ASSUME NEW p, NEW f \in on(p)
       PROVE  /\ f[1] \in Sects /\ n[f[1]] > 0 /\ f[2] \in 1 .. Len(h[f[1]]) /\ h[f[1]][f[2]] = p
              /\ f[2] \in 1 .. 1 + Extra(n[f[1]])
  <2>1. f \in Sects \X (1 .. all + 1) /\ n[f[1]] > 0 /\ f[2] \in DOMAIN h[f[1]] /\ h[f[1]][f[2]] = p
    BY DEF on, filled
  <2>2. PICK s \in Sects : s = f[1]
    BY <2>1
  <2>3. DOMAIN h[s] = 1 .. Len(h[s]) /\ Len(h[s]) = 1 + Extra(n[s])
    <3>1. n[s] > 0
      BY <2>1, <2>2
    <3>2. Len(heads[s]) = 1 /\ h[s] \in Seq(Nat) /\ Len(h[s]) = Len(heads[s]) + e[s] /\ e[s] = Extra(n[s])
      BY <1>2, <1>11, <3>1
    <3>3. QED
      BY <3>2
  <2>4. QED
    BY <2>1, <2>2, <2>3
<1>16. ASSUME NEW s \in Sects, NEW j \in 1 .. Len(h[s]), n[s] > 0
       PROVE  <<s, j>> \in on(h[s][j])
  <2>1. j \in 1 .. used + 1
    <3>1. PICK c \in Nat, b \in Nat : c = e[s] /\ b = Below(e, s) /\ b + c <= used
      <4>1. Below(e, s) \in Nat /\ Below(e, s) + e[s] <= Total4(e)
        BY <1>2, Parts
      <4>2. QED
        BY <1>2, <1>3, <4>1
    <3>2. Len(h[s]) = 1 + c
      BY <1>11, <1>16, <3>1
    <3>3. QED
      BY <3>1, <3>2
  <2>2. DOMAIN h[s] = 1 .. Len(h[s])
    BY <1>11
  <2>3. <<s, j>> \in filled
    BY <1>3, <1>16, <2>1, <2>2 DEF filled
  <2>4. QED
    BY <2>3 DEF on
<1>17. ASSUME NEW s \in Sects, NEW j \in 1 .. Len(h[s]), n[s] > 0
       PROVE  page'[h[s][j]] = Sheet(s, n[s], j)
  <2>1. PICK p \in 1 .. t + x : p = h[s][j]
    BY <1>13
  <2>2. PICK g : g = CHOOSE f \in on(p) : TRUE
    OBVIOUS
  <2>3. on(p) # {} /\ g \in on(p)
    <3>1. <<s, j>> \in on(p)
      BY <1>16, <1>17, <2>1
    <3>2. QED
      BY <2>2, <3>1
  <2>4. g[1] = s /\ g[2] = j
    <3>1. g[1] \in Sects /\ g[2] \in 1 .. Len(h[g[1]]) /\ h[g[1]][g[2]] = h[s][j]
      BY <1>15, <2>1, <2>3
    <3>2. QED
      BY <1>12, <3>1
  <2>5. text(p) = Sheet(g[1], n[g[1]], g[2])
    BY <2>2, <2>3, Zenon DEF text
  <2>6. QED
    BY <1>14, <2>1, <2>4, <2>5
<1>18. ASSUME NEW s \in Sects, NEW j \in 1 .. Len(h[s]), n[s] = 0
       PROVE  j \in 1 .. Len(heads[s]) /\ page'[h[s][j]] = page[heads[s][j]]
  <2>1. Len(h[s]) = Len(heads[s])
    <3>1. e[s] = 0 /\ Len(heads[s]) \in Nat
      BY <1>2, <1>18, ExtraPages DEF PageTypes
    <3>2. QED
      BY <1>11, <3>1
  <2>2. j \in 1 .. Len(heads[s]) /\ h[s][j] = heads[s][j]
    BY <1>11, <2>1
  <2>3. heads[s][j] \in 1 .. t
    BY <1>8, <2>2 DEF InOnePlace
  <2>4. PICK p \in 1 .. t : p = h[s][j]
    BY <2>2, <2>3
  <2>5. on(p) = {}
    <3> SUFFICES ASSUME NEW f \in on(p) PROVE FALSE
      OBVIOUS
    <3>1. f[1] \in Sects /\ n[f[1]] > 0 /\ f[2] \in 1 .. Len(h[f[1]]) /\ h[f[1]][f[2]] = h[s][j]
      BY <1>15, <2>4
    <3>2. f[1] = s
      BY <1>12, <3>1
    <3>3. QED
      BY <1>18, <3>1, <3>2
  <2>6. text(p) = page[p]
    BY <1>8, <2>5 DEF text
  <2>7. p \in 1 .. t + x
    OBVIOUS
  <2>8. QED
    BY <1>14, <2>2, <2>4, <2>6, <2>7
<1>19. ASSUME NEW p \in 1 .. t + x
       PROVE  text(p) \in Seq(Item) /\ Len(text(p)) <= PageSize
  <2>1. CASE on(p) # {}
    <3>1. PICK g : g = CHOOSE f \in on(p) : TRUE
      OBVIOUS
    <3>2. g \in on(p)
      BY <2>1, <3>1
    <3>3. g[1] \in Sects /\ g[2] \in 1 .. 1 + Extra(n[g[1]])
      BY <1>15, <3>2
    <3>4. text(p) = Sheet(g[1], n[g[1]], g[2])
      BY <2>1, <3>1, Zenon DEF text
    <3>5. SheetTrue(g[1], n[g[1]], g[2])
      <4>1. n[g[1]] \in Nat /\ current_window \in Nat
        BY <3>3 DEF PageTypes
      <4> QED BY <3>3, <4>1, SheetParts
    <3>6. QED
      BY <3>4, <3>5 DEF SheetTrue
  <2>2. CASE on(p) = {} /\ p <= t
    <3>1. text(p) = page[p]
      BY <1>8, <2>2 DEF text
    <3>2. p \in 1 .. t
      BY <2>2
    <3>3. QED
      BY <1>8, <3>1, <3>2 DEF PageTypes
  <2>3. CASE on(p) = {} /\ ~(p <= t)
    <3>1. text(p) = <<>>
      BY <1>8, <2>3 DEF text
    <3>2. <<>> \in Seq(Item) /\ Len(<<>>) = 0
      OBVIOUS
    <3>3. 0 <= PageSize
      BY ExtraPages
    <3>4. QED
      BY <3>1, <3>2, <3>3
  <2>4. QED
    BY <2>1, <2>2, <2>3
<1>20. page' \in Seq(Seq(Item)) /\ Len(page') = t + x /\ \A p \in 1 .. t + x : Len(page'[p]) <= PageSize
  <2>1. \A p \in 1 .. t + x : page'[p] = text(p)
    BY <1>14
  <2>2. page' \in [1 .. t + x -> Seq(Item)]
    BY <1>14, <1>19
  <2>3. QED
    BY <1>19, <2>1, <2>2
<1>21. enc_free' \in Seq(Nat)
  BY <1>7, <1>14 DEF Allocated
<1>22. \A s \in Sects : Len(h[s]) = Len(heads[s]) + Extra(n[s])
  BY <1>2, <1>11
<1>23. QED
  BY <1>10, <1>11, <1>14, <1>17, <1>18, <1>20, <1>21, <1>22 DEF Emitted

\* Four lists in a row.
Chained(h, e, c) ==
  /\ c \in Seq(Nat) /\ Len(c) = Total4(e)
  /\ \A s \in Sects : \A j \in 1 .. e[s] : c[Below(e, s) + j] = h[s][j]

LEMMA FourLists ==
  ASSUME NEW h \in [Sects -> Seq(Nat)], NEW e, DOMAIN e = Sects, \A s \in Sects : e[s] = Len(h[s])
  PROVE  Chained(h, e, h[0] \o h[1] \o h[2] \o h[3])
<1>0. Sects = {0, 1, 2, 3}
  BY DEF Sects
<1>1. PICK a \in Seq(Nat), b \in Seq(Nat), d \in Seq(Nat), f \in Seq(Nat) :
        a = h[0] /\ b = h[1] /\ d = h[2] /\ f = h[3]
  BY <1>0
<1>2. PICK p \in Nat, q \in Nat, r \in Nat, u \in Nat :
        p = Len(a) /\ q = Len(b) /\ r = Len(d) /\ u = Len(f)
  OBVIOUS
<1>3. e[0] = p /\ e[1] = q /\ e[2] = r /\ e[3] = u
  BY <1>0, <1>1, <1>2
<1>4. PICK x : x = a \o b
  OBVIOUS
<1>5. x \in Seq(Nat) /\ Len(x) = p + q /\ \A i \in 1 .. p + q : x[i] = IF i <= p THEN a[i] ELSE b[i - p]
  BY <1>2, <1>4, ConcatProperties
<1>6. PICK y : y = x \o d
  OBVIOUS
<1>7. /\ y \in Seq(Nat) /\ Len(y) = p + q + r
      /\ \A i \in 1 .. p + q + r : y[i] = IF i <= p + q THEN x[i] ELSE d[i - (p + q)]
  <2>1. PICK k \in Nat : k = p + q
    OBVIOUS
  <2>2. Len(x) = k
    BY <1>5, <2>1
  <2>3. /\ y \in Seq(Nat) /\ Len(y) = Len(x) + Len(d)
        /\ \A i \in 1 .. Len(x) + Len(d) : y[i] = IF i <= Len(x) THEN x[i] ELSE d[i - Len(x)]
    <3>1. x \in Seq(Nat)
      BY <1>5
    <3>2. QED
      BY <1>6, <3>1, ConcatProperties
  <2>4. y \in Seq(Nat) /\ Len(y) = k + r /\ \A i \in 1 .. k + r : y[i] = IF i <= k THEN x[i] ELSE d[i - k]
    BY <1>2, <2>2, <2>3
  <2>5. QED
    BY <2>1, <2>4
<1>8. PICK z : z = y \o f
  OBVIOUS
<1>9. /\ z \in Seq(Nat) /\ Len(z) = p + q + r + u
      /\ \A i \in 1 .. p + q + r + u : z[i] = IF i <= p + q + r THEN y[i] ELSE f[i - (p + q + r)]
  <2>1. PICK k \in Nat : k = p + q + r
    OBVIOUS
  <2>2. Len(y) = k
    BY <1>7, <2>1
  <2>3. /\ z \in Seq(Nat) /\ Len(z) = Len(y) + Len(f)
        /\ \A i \in 1 .. Len(y) + Len(f) : z[i] = IF i <= Len(y) THEN y[i] ELSE f[i - Len(y)]
    <3>1. y \in Seq(Nat)
      BY <1>7
    <3>2. QED
      BY <1>8, <3>1, ConcatProperties
  <2>4. z \in Seq(Nat) /\ Len(z) = k + u /\ \A i \in 1 .. k + u : z[i] = IF i <= k THEN y[i] ELSE f[i - k]
    BY <1>2, <2>2, <2>3
  <2>5. QED
    BY <2>1, <2>4
<1>10. /\ Total4(e) = p + q + r + u
       /\ Below(e, 0) = 0 /\ Below(e, 1) = p /\ Below(e, 2) = p + q /\ Below(e, 3) = p + q + r
  <2>1. \A s \in Sects : e[s] \in Nat
    BY <1>0, <1>3
  <2>2. QED
    BY <1>3, <2>1, Parts
<1>11. \A j \in 1 .. p : z[j] = a[j]
  BY <1>5, <1>7, <1>9, SMTT(60)
<1>12. \A j \in 1 .. q : z[p + j] = b[j]
  <2> TAKE j \in 1 .. q
  <2>1. p + j \in 1 .. p + q /\ ~(p + j <= p) /\ (p + j) - p = j
    OBVIOUS
  <2>2. x[p + j] = b[j]
    BY <1>5, <2>1
  <2>3. QED
    BY <1>7, <1>9, <2>1, <2>2
<1>13. \A j \in 1 .. r : z[p + q + j] = d[j]
  <2> TAKE j \in 1 .. r
  <2>1. p + q + j \in 1 .. p + q + r /\ ~(p + q + j <= p + q) /\ (p + q + j) - (p + q) = j
    OBVIOUS
  <2>2. y[p + q + j] = d[j]
    BY <1>7, <2>1
  <2>3. QED
    BY <1>9, <2>1, <2>2
<1>14. \A j \in 1 .. u : z[p + q + r + j] = f[j]
  <2> TAKE j \in 1 .. u
  <2>1. p + q + r + j \in 1 .. p + q + r + u /\ ~(p + q + r + j <= p + q + r)
        /\ (p + q + r + j) - (p + q + r) = j
    OBVIOUS
  <2>2. QED
    BY <1>9, <2>1
<1>15. ASSUME NEW s \in Sects, NEW j \in 1 .. e[s]
       PROVE  z[Below(e, s) + j] = h[s][j]
  <2>1. CASE s = 0
    BY <1>1, <1>3, <1>10, <1>11, <2>1
  <2>2. CASE s = 1
    BY <1>1, <1>3, <1>10, <1>12, <2>2
  <2>3. CASE s = 2
    BY <1>1, <1>3, <1>10, <1>13, <2>3
  <2>4. CASE s = 3
    BY <1>1, <1>3, <1>10, <1>14, <2>4
  <2>5. QED
    BY <1>0, <2>1, <2>2, <2>3, <2>4
<1>16. z = h[0] \o h[1] \o h[2] \o h[3]
  BY <1>1, <1>4, <1>6, <1>8
<1>17. QED
  BY <1>9, <1>10, <1>15, <1>16 DEF Chained

\* Pages that are in one place of four lists are in one place of the chain of them.
InChain(c) == [s \in Sects |-> IF s = 0 THEN c ELSE <<>>]

LEMMA ChainInOnePlace ==
  ASSUME NEW h \in [Sects -> Seq(Nat)], NEW e, DOMAIN e = Sects, \A s \in Sects : e[s] = Len(h[s]),
         NEW c, Chained(h, e, c), NEW f \in Seq(Nat), NEW n \in Nat, InOnePlace(h, f, n)
  PROVE  InOnePlace(InChain(c), f, n)
<1>0. Sects = {0, 1, 2, 3}
  BY DEF Sects
<1>1. PICK g : g = InChain(c)
  OBVIOUS
<1>2. PICK t \in Nat : t = Total4(e)
  BY Parts
<1>3. c \in Seq(Nat) /\ Len(c) = t /\ \A s \in Sects : \A j \in 1 .. e[s] : c[Below(e, s) + j] = h[s][j]
  BY <1>2 DEF Chained
<1>4. /\ g[0] = c /\ Len(g[0]) = t
      /\ g[1] = <<>> /\ g[2] = <<>> /\ g[3] = <<>>
      /\ \A s \in Sects : \A i \in 1 .. Len(g[s]) : s = 0
  <2>1. g[0] = c /\ \A s \in Sects : s # 0 => g[s] = <<>>
    BY <1>0, <1>1 DEF InChain
  <2>2. \A s \in Sects : \A i \in 1 .. Len(g[s]) : s = 0
    BY <2>1
  <2>3. QED
    BY <1>0, <1>3, <2>1, <2>2
<1>5. \A s \in Sects : e[s] \in Nat
  OBVIOUS
<1>6. \A i \in 1 .. t : \E s \in Sects : \E a \in 1 .. e[s] : i = Below(e, s) + a
  BY <1>2, <1>5, Parts
<1>x. \A s \in Sects : Len(h[s]) = e[s]
  OBVIOUS
<1>7. \A s \in Sects : \A i \in 1 .. e[s] : h[s][i] \in 1 .. n
  BY <1>x DEF InOnePlace
<1>a. \A s, u \in Sects : \A i \in 1 .. e[s], j \in 1 .. e[u] : h[s][i] = h[u][j] => s = u /\ i = j
  BY <1>x DEF InOnePlace
<1>b. \A s \in Sects : \A i \in 1 .. e[s], j \in 1 .. Len(f) : h[s][i] # f[j]
  BY <1>x DEF InOnePlace
<1>c. \A p \in 1 .. n : \/ \E s \in Sects : \E i \in 1 .. e[s] : h[s][i] = p
                       \/ \E i \in 1 .. Len(f) : f[i] = p
  <2> TAKE p \in 1 .. n
  <2>1. ASSUME NEW s \in Sects, NEW i \in 1 .. Len(h[s]), h[s][i] = p
        PROVE  \E k \in 1 .. e[s] : h[s][k] = p
    BY <1>x, <2>1
  <2>2. \/ \E s \in Sects : \E i \in 1 .. Len(h[s]) : h[s][i] = p
        \/ \E i \in 1 .. Len(f) : f[i] = p
    BY DEF InOnePlace
  <2>3. QED
    BY <2>1, <2>2
<1>d. n = Len(h[0]) + Len(h[1]) + Len(h[2]) + Len(h[3]) + Len(f)
  BY DEF InOnePlace
<1>f. \A i \in 1 .. Len(f) : f[i] \in 1 .. n
  BY DEF InOnePlace
<1>g. \A i, j \in 1 .. Len(f) : f[i] = f[j] => i = j
  BY DEF InOnePlace
<1>8. \A i \in 1 .. t : c[i] \in 1 .. n /\ \A j \in 1 .. Len(f) : c[i] # f[j]
  <2> TAKE i \in 1 .. t
  <2>1. PICK s \in Sects : \E a \in 1 .. e[s] : i = Below(e, s) + a
    BY <1>6
  <2>2. PICK a \in 1 .. e[s] : i = Below(e, s) + a
    BY <2>1
  <2>3. c[i] = h[s][a]
    BY <1>3, <2>2
  <2>4. h[s][a] \in 1 .. n
    BY <1>7
  <2>5. \A j \in 1 .. Len(f) : h[s][a] # f[j]
    BY <1>b
  <2>6. QED
    BY <2>3, <2>4, <2>5
<1>9. \A i, k \in 1 .. t : c[i] = c[k] => i = k
  <2> SUFFICES ASSUME NEW i \in 1 .. t, NEW k \in 1 .. t, c[i] = c[k] PROVE i = k
    OBVIOUS
  <2>1. PICK s \in Sects : \E a \in 1 .. e[s] : i = Below(e, s) + a
    BY <1>6
  <2>2. PICK a \in 1 .. e[s] : i = Below(e, s) + a
    BY <2>1
  <2>3. PICK u \in Sects : \E a2 \in 1 .. e[u] : k = Below(e, u) + a2
    BY <1>6
  <2>4. PICK b \in 1 .. e[u] : k = Below(e, u) + b
    BY <2>3
  <2>5. h[s][a] = h[u][b]
    BY <1>3, <2>2, <2>4
  <2>6. s = u /\ a = b
    BY <1>a, <2>5
  <2>7. QED
    BY <2>2, <2>4, <2>6
<1>10. \A p \in 1 .. n : \/ \E i \in 1 .. t : c[i] = p
                         \/ \E i \in 1 .. Len(f) : f[i] = p
  <2> TAKE p \in 1 .. n
  <2>1. ASSUME NEW s \in Sects, NEW i \in 1 .. e[s], h[s][i] = p
        PROVE  \E k \in 1 .. t : c[k] = p
    <3>1. PICK b \in Nat, d \in Nat : b = Below(e, s) /\ d = e[s] /\ b + d <= t
      <4>1. Below(e, s) \in Nat /\ Below(e, s) + e[s] <= Total4(e)
        BY <1>5, Parts
      <4>2. QED
        BY <1>2, <1>5, <4>1
    <3>2. b + i \in 1 .. t
      <4>1. i \in 1 .. d
        BY <3>1
      <4>2. QED
        BY <3>1, <4>1
    <3>x. c[b + i] = p
      BY <1>3, <2>1, <3>1
    <3>3. QED
      BY <3>2, <3>x
  <2>2. QED
    BY <1>c, <2>1
<1>11. n = Len(g[0]) + Len(g[1]) + Len(g[2]) + Len(g[3]) + Len(f)
  <2>1. PICK p \in Nat, q \in Nat, r \in Nat, u \in Nat : p = e[0] /\ q = e[1] /\ r = e[2] /\ u = e[3]
    BY <1>0, <1>5
  <2>x. t = p + q + r + u
    BY <1>2, <1>5, <2>1, Parts
  <2>2. Len(h[0]) = p /\ Len(h[1]) = q /\ Len(h[2]) = r /\ Len(h[3]) = u
    BY <1>0, <2>1
  <2>3. Len(g[0]) = t /\ Len(g[1]) = 0 /\ Len(g[2]) = 0 /\ Len(g[3]) = 0
    BY <1>4
  <2>4. QED
    BY <1>d, <2>x, <2>2, <2>3
<1>12. \A s \in Sects : \A i \in 1 .. Len(g[s]) : g[s][i] \in 1 .. n
  BY <1>4, <1>8
<1>13. \A s, u \in Sects : \A i \in 1 .. Len(g[s]), j \in 1 .. Len(g[u]) :
         g[s][i] = g[u][j] => s = u /\ i = j
  BY <1>4, <1>9
<1>14. \A s \in Sects : \A i \in 1 .. Len(g[s]), j \in 1 .. Len(f) : g[s][i] # f[j]
  BY <1>4, <1>8, SMTT(60)
<1>15. \A p \in 1 .. n : \/ \E s \in Sects : \E i \in 1 .. Len(g[s]) : g[s][i] = p
                         \/ \E i \in 1 .. Len(f) : f[i] = p
  <2>1. 0 \in Sects
    BY <1>0
  <2>2. QED
    BY <1>4, <1>10, <2>1
<1>16. InOnePlace(g, f, n)
  BY <1>f, <1>g, <1>11, <1>12, <1>13, <1>14, <1>15, Zenon DEF InOnePlace
<1>17. QED
  BY <1>1, <1>16

\* The same of one chain.
OneChain(c, f, n) ==
  /\ \A i \in 1 .. Len(c) : c[i] \in 1 .. n
  /\ \A i \in 1 .. Len(f) : f[i] \in 1 .. n
  /\ \A i, j \in 1 .. Len(c) : c[i] = c[j] => i = j
  /\ \A i \in 1 .. Len(c), j \in 1 .. Len(f) : c[i] # f[j]
  /\ \A i, j \in 1 .. Len(f) : f[i] = f[j] => i = j
  /\ \A p \in 1 .. n : \/ \E i \in 1 .. Len(c) : c[i] = p
                       \/ \E i \in 1 .. Len(f) : f[i] = p
  /\ n = Len(c) + Len(f)

LEMMA ChainAlone ==
  ASSUME NEW c \in Seq(Nat), NEW f \in Seq(Nat), NEW n \in Nat, InOnePlace(InChain(c), f, n)
  PROVE  OneChain(c, f, n)
<1>0. Sects = {0, 1, 2, 3}
  BY DEF Sects
<1>1. PICK g : g = InChain(c)
  OBVIOUS
<1>2. g[0] = c /\ \A s \in Sects : s # 0 => g[s] = <<>>
  BY <1>0, <1>1 DEF InChain
<1>3. \A s \in Sects : \A i \in 1 .. Len(g[s]) : s = 0 /\ g[s] = c
  BY <1>2
<1>4. InOnePlace(g, f, n)
  BY <1>1
<1>5. \A i \in 1 .. Len(c) : c[i] \in 1 .. n
  BY <1>0, <1>2, <1>4 DEF InOnePlace
<1>6. \A i, j \in 1 .. Len(c) : c[i] = c[j] => i = j
  BY <1>0, <1>2, <1>4 DEF InOnePlace
<1>7. \A i \in 1 .. Len(c), j \in 1 .. Len(f) : c[i] # f[j]
  BY <1>0, <1>2, <1>4 DEF InOnePlace
<1>8. \A p \in 1 .. n : \/ \E i \in 1 .. Len(c) : c[i] = p
                        \/ \E i \in 1 .. Len(f) : f[i] = p
  <2> TAKE p \in 1 .. n
  <2>1. \/ \E s \in Sects : \E i \in 1 .. Len(g[s]) : g[s][i] = p
        \/ \E i \in 1 .. Len(f) : f[i] = p
    BY <1>4 DEF InOnePlace
  <2>2. ASSUME NEW s \in Sects, NEW i \in 1 .. Len(g[s]), g[s][i] = p
        PROVE  \E k \in 1 .. Len(c) : c[k] = p
    BY <1>3, <2>2
  <2>3. QED
    BY <2>1, <2>2
<1>9. n = Len(c) + Len(f)
  <2>1. n = Len(g[0]) + Len(g[1]) + Len(g[2]) + Len(g[3]) + Len(f)
    BY <1>4 DEF InOnePlace
  <2>2. Len(g[1]) = 0 /\ Len(g[2]) = 0 /\ Len(g[3]) = 0 /\ Len(g[0]) = Len(c)
    BY <1>0, <1>2
  <2>3. QED
    BY <2>1, <2>2
<1>10. /\ \A i \in 1 .. Len(f) : f[i] \in 1 .. n
       /\ \A i, j \in 1 .. Len(f) : f[i] = f[j] => i = j
  BY DEF InOnePlace
<1>11. QED
  BY <1>5, <1>6, <1>7, <1>8, <1>9, <1>10, Zenon DEF OneChain

\* A chain is cut: its first four pages become sections, and the rest of them come
\* first among the free pages, in reverse.
Cut(c, f, h, g) ==
  /\ h = [s \in Sects |-> <<c[s + 1]>>]
  /\ g = Reverse(SubSeq(c, 5, Len(c))) \o f

Freed(c, f, g) ==
  /\ g \in Seq(Nat) /\ Len(g) = Len(c) - 4 + Len(f)
  /\ \A k \in 1 .. Len(c) - 4 : g[k] = c[Len(c) + 1 - k]
  /\ \A k \in 1 .. Len(f) : g[Len(c) - 4 + k] = f[k]

LEMMA FreedPages ==
  ASSUME NEW c \in Seq(Nat), NEW f \in Seq(Nat), Len(c) >= 4,
         NEW g, g = Reverse(SubSeq(c, 5, Len(c))) \o f
  PROVE  Freed(c, f, g)
<1>1. PICK l \in Nat, m \in Nat : l = Len(c) /\ m = l - 4
  OBVIOUS
<1>2. PICK r : r = SubSeq(c, 5, l)
  OBVIOUS
<1>3. r \in Seq(Nat) /\ Len(r) = m /\ \A i \in 1 .. m : r[i] = c[4 + i]
  <2>1. \A i \in 5 .. l : c[i] \in Nat
    BY <1>1
  <2>2. /\ r \in Seq(Nat) /\ Len(r) = IF 5 <= l THEN l - 5 + 1 ELSE 0
        /\ \A i \in 1 .. l - 5 + 1 : r[i] = c[5 + i - 1]
    BY <1>1, <1>2, <2>1, SubSeqProperties
  <2>3. Len(r) = m /\ l - 5 + 1 = m
    BY <1>1, <2>2, SMTT(60)
  <2>4. \A i \in 1 .. m : 5 + i - 1 = 4 + i
    OBVIOUS
  <2>5. \A i \in 1 .. m : r[i] = c[5 + i - 1]
    BY <2>2, <2>3
  <2>6. QED
    BY <2>2, <2>3, <2>4, <2>5
<1>4. PICK q : q = Reverse(r)
  OBVIOUS
<1>5. q = [i \in 1 .. m |-> r[(m - i) + 1]]
  BY <1>3, <1>4 DEF Reverse
<1>6. \A i \in 1 .. m : q[i] = c[l + 1 - i] /\ q[i] \in Nat
  <2> TAKE i \in 1 .. m
  <2>1. (m - i) + 1 \in 1 .. m /\ 4 + ((m - i) + 1) = l + 1 - i /\ l + 1 - i \in 1 .. l
    BY <1>1
  <2>2. q[i] = r[(m - i) + 1]
    BY <1>5
  <2>3. r[(m - i) + 1] = c[4 + ((m - i) + 1)]
    BY <1>3, <2>1
  <2>4. c[l + 1 - i] \in Nat
    BY <1>1, <2>1, SMTT(60)
  <2>5. QED
    BY <2>1, <2>2, <2>3, <2>4
<1>7. q \in Seq(Nat) /\ Len(q) = m
  BY <1>5, <1>6
<1>8. PICK k \in Nat : k = Len(f)
  OBVIOUS
<1>w. PICK w : w = q \o f
  OBVIOUS
<1>9. g = w
  BY <1>1, <1>2, <1>4, <1>w
<1>10. g \in Seq(Nat) /\ Len(g) = m + k /\ \A i \in 1 .. m + k : g[i] = IF i <= m THEN q[i] ELSE f[i - m]
  <2>1. /\ w \in Seq(Nat) /\ Len(w) = Len(q) + Len(f)
        /\ \A i \in 1 .. Len(q) + Len(f) : w[i] = IF i <= Len(q) THEN q[i] ELSE f[i - Len(q)]
    <3>1. q \in Seq(Nat)
      BY <1>7
    <3>2. QED
      BY <1>w, <3>1, ConcatProperties
  <2>2. QED
    BY <1>7, <1>8, <1>9, <2>1
<1>11. \A i \in 1 .. m : g[i] = c[l + 1 - i]
  BY <1>6, <1>10
<1>12. \A i \in 1 .. k : g[m + i] = f[i]
  <2> TAKE i \in 1 .. k
  <2>1. m + i \in 1 .. m + k /\ ~(m + i <= m) /\ (m + i) - m = i
    OBVIOUS
  <2>2. QED
    BY <1>10, <2>1
<1>13. QED
  BY <1>1, <1>8, <1>10, <1>11, <1>12 DEF Freed

LEMMA CutChain ==
  ASSUME NEW c \in Seq(Nat), NEW f \in Seq(Nat), NEW n \in Nat, OneChain(c, f, n), Len(c) >= 4,
         NEW h, NEW g, Cut(c, f, h, g)
  PROVE  /\ h \in [Sects -> Seq(Nat)] /\ g \in Seq(Nat) /\ InOnePlace(h, g, n)
         /\ \A s \in Sects : Len(h[s]) = 1
<1>0. Sects = {0, 1, 2, 3}
  BY DEF Sects
<1>a. PICK l \in Nat, k \in Nat : l = Len(c) /\ k = Len(f)
  OBVIOUS
<1>1. PICK m \in Nat : l = Len(c) /\ m = l - 4 /\ k = Len(f)
  BY <1>a
<1>b. /\ g \in Seq(Nat) /\ Len(g) = Len(c) - 4 + Len(f)
      /\ \A i \in 1 .. Len(c) - 4 : g[i] = c[Len(c) + 1 - i]
      /\ \A i \in 1 .. Len(f) : g[Len(c) - 4 + i] = f[i]
  <2>1. g = Reverse(SubSeq(c, 5, Len(c))) \o f
    BY DEF Cut
  <2>2. Freed(c, f, g)
    BY <2>1, FreedPages
  <2>3. QED
    BY <2>2 DEF Freed
<1>2. g \in Seq(Nat) /\ Len(g) = m + k
  BY <1>1, <1>b
<1>3. \A i \in 1 .. m : g[i] = c[l + 1 - i]
  BY <1>1, <1>b
<1>4. \A i \in 1 .. k : g[m + i] = f[i]
  BY <1>1, <1>b
<1>5. \A i \in 1 .. l : c[i] \in 1 .. n
  BY <1>1 DEF OneChain
<1>6. \A i \in 1 .. k : f[i] \in 1 .. n
  BY <1>1 DEF OneChain
<1>7. \A i, j \in 1 .. l : c[i] = c[j] => i = j
  BY <1>1 DEF OneChain
<1>8. \A i \in 1 .. l, j \in 1 .. k : c[i] # f[j]
  BY <1>1 DEF OneChain
<1>9. \A i, j \in 1 .. k : f[i] = f[j] => i = j
  BY <1>1 DEF OneChain
<1>10. \A p \in 1 .. n : \/ \E i \in 1 .. l : c[i] = p
                         \/ \E i \in 1 .. k : f[i] = p
  BY <1>1 DEF OneChain
<1>11. n = l + k
  BY <1>1 DEF OneChain
<1>12. \A s \in Sects : s + 1 \in 1 .. l /\ s + 1 <= 4 /\ s \in Nat
  BY <1>0, <1>1
<1>13. \A s \in Sects : h[s] = <<c[s + 1]>>
  BY DEF Cut
<1>14. \A s \in Sects : h[s] \in Seq(Nat) /\ Len(h[s]) = 1 /\ h[s][1] = c[s + 1]
  <2> TAKE s \in Sects
  <2>1. PICK v \in Nat : v = c[s + 1]
    BY <1>1, <1>12
  <2>2. h[s] = <<v>>
    BY <1>13, <2>1
  <2>3. QED
    BY <2>1, <2>2
<1>15. \A s \in Sects : \A i \in 1 .. Len(h[s]) : i = 1 /\ h[s][i] = c[s + 1]
  <2> TAKE s \in Sects
  <2>1. Len(h[s]) = 1 /\ h[s][1] = c[s + 1]
    BY <1>14
  <2>2. \A i \in 1 .. 1 : i = 1
    OBVIOUS
  <2>3. QED
    BY <2>1, <2>2
\* An element of g was freed now, or was free.
<1>16. \A i \in 1 .. m + k : \/ i <= m /\ l + 1 - i \in 5 .. l /\ g[i] = c[l + 1 - i]
                             \/ i > m /\ i - m \in 1 .. k /\ g[i] = f[i - m]
  <2> TAKE i \in 1 .. m + k
  <2>1. CASE i <= m
    <3>1. i \in 1 .. m /\ l + 1 - i \in 5 .. l
      BY <1>1, <2>1
    <3>2. QED
      BY <1>3, <2>1, <3>1
  <2>2. CASE ~(i <= m)
    <3>1. i > m /\ i - m \in 1 .. k /\ m + (i - m) = i
      BY <2>2
    <3>2. QED
      BY <1>4, <3>1
  <2>3. QED
    BY <2>1, <2>2
<1>17. \A s \in Sects : \A i \in 1 .. Len(h[s]) : h[s][i] \in 1 .. n
  BY <1>5, <1>12, <1>15
<1>18. \A i \in 1 .. m + k : g[i] \in 1 .. n
  <2> TAKE i \in 1 .. m + k
  <2>1. CASE l + 1 - i \in 5 .. l /\ g[i] = c[l + 1 - i]
    <3>1. l + 1 - i \in 1 .. l
      BY <2>1
    <3>2. QED
      BY <1>5, <2>1, <3>1
  <2>2. CASE i - m \in 1 .. k /\ g[i] = f[i - m]
    BY <1>6, <2>2
  <2>3. QED
    BY <1>16, <2>1, <2>2
<1>19. ASSUME NEW s \in Sects, NEW t \in Sects, NEW i \in 1 .. Len(h[s]), NEW j \in 1 .. Len(h[t]),
              h[s][i] = h[t][j]
       PROVE  s = t /\ i = j
  <2>1. c[s + 1] = c[t + 1] /\ i = 1 /\ j = 1
    BY <1>15, <1>19
  <2>2. s + 1 = t + 1
    BY <1>7, <1>12, <2>1
  <2>3. QED
    BY <1>12, <2>1, <2>2
<1>20. ASSUME NEW s \in Sects, NEW i \in 1 .. Len(h[s]), NEW j \in 1 .. m + k
       PROVE  h[s][i] # g[j]
  <2>1. h[s][i] = c[s + 1] /\ s + 1 \in 1 .. l /\ s + 1 <= 4
    BY <1>12, <1>15
  <2>2. CASE l + 1 - j \in 5 .. l /\ g[j] = c[l + 1 - j]
    <3>1. l + 1 - j \in 1 .. l /\ l + 1 - j # s + 1
      BY <2>1, <2>2, SMTT(60)
    <3>2. QED
      BY <1>7, <2>1, <2>2, <3>1
  <2>3. CASE j - m \in 1 .. k /\ g[j] = f[j - m]
    BY <1>8, <2>1, <2>3
  <2>4. QED
    BY <1>16, <2>2, <2>3
<1>21. ASSUME NEW i \in 1 .. m + k, NEW j \in 1 .. m + k, g[i] = g[j]
       PROVE  i = j
  <2>1. CASE l + 1 - i \in 5 .. l /\ g[i] = c[l + 1 - i] /\ l + 1 - j \in 5 .. l /\ g[j] = c[l + 1 - j]
    <3>1. PICK v \in 5 .. l : v = l + 1 - i
      BY <2>1
    <3>2. PICK w \in 5 .. l : w = l + 1 - j
      BY <2>1
    <3>3. v \in 1 .. l /\ w \in 1 .. l
      OBVIOUS
    <3>4. v = w
      BY <1>7, <1>21, <2>1, <3>1, <3>2, <3>3
    <3>5. QED
      BY <3>1, <3>2, <3>4
  <2>2. CASE l + 1 - i \in 5 .. l /\ g[i] = c[l + 1 - i] /\ j - m \in 1 .. k /\ g[j] = f[j - m]
    <3>1. l + 1 - i \in 1 .. l
      BY <2>2
    <3>2. QED
      BY <1>8, <1>21, <2>2, <3>1
  <2>3. CASE l + 1 - j \in 5 .. l /\ g[j] = c[l + 1 - j] /\ i - m \in 1 .. k /\ g[i] = f[i - m]
    <3>1. l + 1 - j \in 1 .. l
      BY <2>3
    <3>2. QED
      BY <1>8, <1>21, <2>3, <3>1
  <2>4. CASE i - m \in 1 .. k /\ g[i] = f[i - m] /\ j - m \in 1 .. k /\ g[j] = f[j - m]
    <3>1. i - m = j - m
      BY <1>9, <1>21, <2>4
    <3>2. QED
      BY <3>1
  <2>5. QED
    BY <1>16, <2>1, <2>2, <2>3, <2>4
<1>22. ASSUME NEW p \in 1 .. n
       PROVE  \/ \E s \in Sects : \E i \in 1 .. Len(h[s]) : h[s][i] = p
              \/ \E i \in 1 .. m + k : g[i] = p
  <2>1. ASSUME NEW i \in 1 .. l, c[i] = p, i <= 4
        PROVE  \E s \in Sects : \E j \in 1 .. Len(h[s]) : h[s][j] = p
    <3>1. PICK s \in Sects : i = s + 1
      <4>1. i - 1 \in Sects /\ i = (i - 1) + 1
        BY <2>1 DEF Sects
      <4>2. QED
        BY <4>1
    <3>2. 1 \in 1 .. Len(h[s]) /\ h[s][1] = p
      BY <1>14, <2>1, <3>1
    <3>3. QED
      BY <3>2
  <2>2. ASSUME NEW i \in 1 .. l, c[i] = p, ~(i <= 4)
        PROVE  \E j \in 1 .. m + k : g[j] = p
    <3>1. l + 1 - i \in 1 .. m /\ l + 1 - i \in 1 .. m + k /\ l + 1 - (l + 1 - i) = i
      BY <1>1, <2>2
    <3>2. g[l + 1 - i] = p
      BY <1>3, <2>2, <3>1
    <3>3. QED
      BY <3>1, <3>2
  <2>3. ASSUME NEW i \in 1 .. k, f[i] = p
        PROVE  \E j \in 1 .. m + k : g[j] = p
    <3>1. m + i \in 1 .. m + k /\ g[m + i] = p
      BY <1>4, <2>3
    <3>2. QED
      BY <3>1
  <2>4. QED
    BY <1>10, <2>1, <2>2, <2>3
<1>23. n = Len(h[0]) + Len(h[1]) + Len(h[2]) + Len(h[3]) + Len(g)
  <2>1. Len(h[0]) = 1 /\ Len(h[1]) = 1 /\ Len(h[2]) = 1 /\ Len(h[3]) = 1
    BY <1>0, <1>14
  <2>2. QED
    BY <1>1, <1>2, <1>11, <2>1
<1>24. h \in [Sects -> Seq(Nat)]
  BY <1>14 DEF Cut
<1>25. \A s, t \in Sects : \A i \in 1 .. Len(h[s]), j \in 1 .. Len(h[t]) :
         h[s][i] = h[t][j] => s = t /\ i = j
  BY <1>19
<1>26. InOnePlace(h, g, n)
  <2>1. Len(g) = m + k
    BY <1>2
  <2>2. \A i \in 1 .. Len(g) : g[i] \in 1 .. n
    BY <1>18, <2>1
  <2>3. \A s \in Sects : \A i \in 1 .. Len(h[s]), j \in 1 .. Len(g) : h[s][i] # g[j]
    BY <1>20, <2>1
  <2>4. \A i, j \in 1 .. Len(g) : g[i] = g[j] => i = j
    BY <1>21, <2>1
  <2>5. \A p \in 1 .. n : \/ \E s \in Sects : \E i \in 1 .. Len(h[s]) : h[s][i] = p
                          \/ \E i \in 1 .. Len(g) : g[i] = p
    BY <1>22, <2>1
  <2>6. QED
    BY <1>17, <1>23, <1>25, <2>2, <2>3, <2>4, <2>5, Zenon DEF InOnePlace
<1>27. QED
  BY <1>2, <1>14, <1>24, <1>26

\* What follows from the pages alone.
SamePages == UNCHANGED <<heads, chain, page, enc_free, made, current_window>>
PagesSame ==
  /\ OnePlace' = OnePlace /\ Sizes' = Sizes /\ AllMade' = AllMade /\ Total4(Sizes)' = Total4(Sizes)
  /\ \A s, j : PageOf(s, j)' = PageOf(s, j)
  /\ \A s : Made(s)' = Made(s) /\ Earlier(s)' = Earlier(s) /\ Below(Sizes, s)' = Below(Sizes, s)

LEMMA PagesStay ==
  ASSUME SamePages
  PROVE  PagesSame
<1>1. OnePlace' = OnePlace
  BY DEF SamePages, OnePlace, Held
<1>2. Sizes' = Sizes
  BY DEF SamePages, Sizes
<1>3. \A s : Made(s)' = Made(s)
  BY DEF SamePages, Made, Items
<1>4. AllMade' = AllMade /\ \A s : Earlier(s)' = Earlier(s)
  BY <1>3 DEF AllMade, Earlier
<1>5. \A s, j : PageOf(s, j)' = PageOf(s, j)
  BY <1>3 DEF PageOf, SamePages
<1>6. Total4(Sizes)' = Total4(Sizes) /\ \A s : Below(Sizes, s)' = Below(Sizes, s)
  BY <1>2 DEF Total4, Below
<1>7. QED
  BY <1>1, <1>2, <1>3, <1>4, <1>5, <1>6 DEF PagesSame

LEMMA SizesAre ==
  ASSUME PageTypes
  PROVE  /\ DOMAIN Sizes = Sects
         /\ \A s \in Sects : Sizes[s] \in Nat \ {0} /\ Sizes[s] = 1 + Extra(made[s]) /\ made[s] \in Nat
<1>1. \A s \in Sects : made[s] \in Nat
  BY DEF PageTypes
<1>2. \A s \in Sects : Extra(made[s]) \in Nat
  BY <1>1, ExtraPages
<1>3. QED
  BY <1>1, <1>2 DEF Sizes

\* A step that changes no page, and does not begin or end the output.
LEMMA QuietStep ==
  ASSUME OutputInv, SamePages, UNCHANGED <<enc_current, output, avail_out>>, Stages',
         \/ enc_state' = enc_state
         \/ {enc_state, enc_state'} \subseteq {"INPUT", "SEARCH"},
         ret # "XD3_OUTPUT", ret' # "XD3_OUTPUT"
  PROVE  OutputInv'
<1>1. PagesSame
  BY PagesStay
<1>2. PageTypes'
  BY DEF OutputInv, PageTypes, SamePages
<1>3. OnePlace'
  BY <1>1 DEF OutputInv, PagesSame
<1>4. PagesTrue'
  BY <1>1 DEF OutputInv, PagesSame, SamePages, PagesTrue
<1>5. OutputTrue'
  BY <1>1 DEF OutputInv, PagesSame, SamePages, OutputTrue
<1>6. QED
  BY <1>2, <1>3, <1>4, <1>5 DEF OutputInv

LEMMA QuietEncode ==
  ASSUME OutputInv, NothingYet \/ UseInput \/ BufferLeftover \/ SearchGetblk
  PROVE  OutputInv'
<1>1. SamePages /\ UNCHANGED <<enc_current, output, avail_out>>
  BY DEF SamePages, NothingYet, UseInput, BufferLeftover, SearchGetblk, pageVars, counters
<1>2. /\ ret = "RUN" /\ enc_state \in {"INPUT", "SEARCH"} /\ enc_state' \in {"INPUT", "SEARCH"}
      /\ ret' # "XD3_OUTPUT" /\ ret' # "XD3_WINFINISH" /\ (ret' = "XD3_INPUT" => enc_state' = "INPUT")
  BY DEF NothingYet, UseInput, BufferLeftover, SearchGetblk, Running, InputReady, Return, BeginWindow
<1>3. Stages'
  BY <1>1, <1>2 DEF OutputInv, Stages, SamePages
<1>4. QED
  BY <1>1, <1>2, <1>3, QuietStep

LEMMA QuietApplication ==
  ASSUME OutputInv, Again \/ \E n \in 0 .. MaxPiece, f \in BOOLEAN : AvailInput(n, f)
  PROVE  OutputInv'
<1>1. SamePages /\ UNCHANGED <<enc_state, enc_current, output, avail_out>>
  BY DEF SamePages, Again, AvailInput, stream, counters
<1>2. ret # "XD3_OUTPUT" /\ ret' = "RUN"
  BY DEF Again, AvailInput, OutputInv, Stages
<1>3. Stages'
  BY <1>1, <1>2 DEF OutputInv, Stages, SamePages
<1>4. QED
  BY <1>1, <1>2, <1>3, QuietStep

LEMMA ConsumeKeeps ==
  ASSUME OutputInv, ConsumeOutput
  PROVE  OutputInv'
<1>1. SamePages /\ UNCHANGED <<enc_state, enc_current>>
  BY DEF SamePages, ConsumeOutput, stream, counters
<1>2. PagesSame
  BY <1>1, PagesStay
<1>3. /\ ret = "XD3_OUTPUT" /\ ret' = "RUN" /\ enc_state = "POSTOUT"
      /\ output' = output \o avail_out /\ avail_out' = <<>>
      /\ output \in Seq(Item) /\ avail_out \in Seq(Item)
  BY DEF ConsumeOutput, OutputInv, Stages, PageTypes
<1>4. output' \in Seq(Item) /\ avail_out' \in Seq(Item)
  BY <1>3, ConcatProperties
<1>5. output' \o avail_out' = output \o avail_out
  BY <1>3, <1>4, ConcatEmptySeq
<1>6. PageTypes'
  BY <1>1, <1>4 DEF OutputInv, PageTypes, SamePages
<1>7. Stages'
  BY <1>1, <1>3 DEF OutputInv, Stages, SamePages
<1>8. OnePlace' /\ PagesTrue'
  BY <1>1, <1>2 DEF OutputInv, PagesSame, SamePages, PagesTrue
<1>9. OutputTrue'
  BY <1>1, <1>2, <1>3, <1>5 DEF OutputInv, PagesSame, SamePages, OutputTrue
<1>10. QED
  BY <1>6, <1>7, <1>8, <1>9 DEF OutputInv

\* What there is to output before a section and with it.
LEMMA EarlierParts ==
  ASSUME PageTypes
  PROVE  /\ \A s \in Sects : Earlier(s) \in Seq(Item) /\ Made(s) \in Seq(Item) /\ Len(Made(s)) = made[s]
         /\ \A s \in Sects : s # 3 => s + 1 \in Sects /\ Earlier(s) \o Made(s) = Earlier(s + 1)
         /\ Earlier(0) = <<>> /\ Earlier(3) \o Made(3) = AllMade
<1>0. Sects = {0, 1, 2, 3}
  BY DEF Sects
<1>1. \A s \in Sects : Made(s) \in Seq(Item) /\ Len(Made(s)) = made[s]
  BY MadeItems DEF PageTypes, Made
<1>2. /\ Earlier(0) = <<>> /\ Earlier(1) = Made(0) /\ Earlier(2) = Made(0) \o Made(1)
      /\ Earlier(3) = Earlier(2) \o Made(2)
  BY DEF Earlier
<1>3. Made(0) \in Seq(Item) /\ Made(1) \in Seq(Item) /\ Made(2) \in Seq(Item)
  BY <1>0, <1>1
<1>4. Earlier(0) \in Seq(Item) /\ Earlier(1) \in Seq(Item)
  <2>1. <<>> \in Seq(Item)
    OBVIOUS
  <2>2. QED
    BY <1>2, <1>3, <2>1
<1>5. Earlier(2) \in Seq(Item)
  BY <1>2, <1>3, ConcatProperties
<1>6. Earlier(3) \in Seq(Item)
  <2>1. Earlier(2) \o Made(2) \in Seq(Item)
    BY <1>3, <1>5, ConcatProperties
  <2>2. QED
    BY <1>2, <2>1
<1>7. Earlier(0) \o Made(0) = Earlier(1)
  BY <1>2, <1>3, ConcatEmptySeq
<1>8. Earlier(1) \o Made(1) = Earlier(2) /\ Earlier(2) \o Made(2) = Earlier(3)
  BY <1>2
<1>9. Earlier(3) \o Made(3) = AllMade
  BY <1>2 DEF AllMade
<1>10. \A s \in Sects : s # 3 => s + 1 \in Sects /\ Earlier(s) \o Made(s) = Earlier(s + 1)
  <2> SUFFICES ASSUME NEW s \in Sects, s # 3
               PROVE  s + 1 \in Sects /\ Earlier(s) \o Made(s) = Earlier(s + 1)
    OBVIOUS
  <2>1. CASE s = 0
    <3>1. s + 1 = 1
      BY <2>1
    <3>2. QED
      BY <1>0, <1>7, <2>1, <3>1
  <2>2. CASE s = 1
    <3>1. s + 1 = 2
      BY <2>2
    <3>2. QED
      BY <1>0, <1>8, <2>2, <3>1
  <2>3. CASE s = 2
    <3>1. s + 1 = 3
      BY <2>3
    <3>2. QED
      BY <1>0, <1>8, <2>3, <3>1
  <2>4. QED
    BY <1>0, <2>1, <2>2, <2>3
<1>11. QED
  BY <1>0, <1>1, <1>2, <1>4, <1>5, <1>6, <1>9, <1>10

\* When nothing is made, one empty page of each section holds all of it.
NothingMade == made' = [s \in Sects |-> 0] /\ AllMade' = <<>> /\ \A s \in Sects : Sizes'[s] = 1 /\ PageOf(s, 1)' = <<>>

LEMMA EmptyPages ==
  ASSUME made' = [s \in Sects |-> 0]
  PROVE  NothingMade
<1>0. Sects = {0, 1, 2, 3}
  BY DEF Sects
<1>1. ASSUME NEW s \in Sects
      PROVE  Made(s)' = <<>>
  <2>1. made'[s] = 0
    OBVIOUS
  <2>2. Made(s)' = [i \in 1 .. 0 |-> <<current_window', s, i>>]
    BY <2>1 DEF Made, Items
  <2>3. 1 .. 0 = {}
    OBVIOUS
  <2>4. QED
    BY <2>2, <2>3
<1>2. ASSUME NEW s \in Sects
      PROVE  Sizes'[s] = 1
  <2>1. made'[s] = 0
    OBVIOUS
  <2>2. Extra(made'[s]) = 0
    BY <2>1, ExtraPages
  <2>3. QED
    BY <2>2 DEF Sizes
<1>3. ASSUME NEW s \in Sects
      PROVE  PageOf(s, 1)' = <<>>
  <2>1. PageOf(s, 1)' = SubSeq(Made(s)', (1 - 1) * PageSize + 1, Smaller(1 * PageSize, made'[s]))
    BY DEF PageOf
  <2>2. PageSize \in Nat \ {0}
    BY ExtraPages
  <2>3. (1 - 1) * PageSize + 1 = 1 /\ Smaller(1 * PageSize, made'[s]) = 0
    BY <2>2 DEF Smaller
  <2>4. PageOf(s, 1)' = SubSeq(Made(s)', 1, 0)
    BY <2>1, <2>3
  <2>5. QED
    BY <2>4, SubSeqEmpty
<1>4. AllMade' = <<>>
  <2>1. Made(0)' = <<>> /\ Made(1)' = <<>> /\ Made(2)' = <<>> /\ Made(3)' = <<>>
    BY <1>0, <1>1
  <2>2. AllMade' = <<>> \o <<>> \o <<>> \o <<>>
    BY <2>1 DEF AllMade
  <2>3. <<>> \o <<>> = <<>>
    OBVIOUS
  <2>4. QED
    BY <2>2, <2>3
<1>5. QED
  BY <1>2, <1>3, <1>4 DEF NothingMade

\* A window begins with one empty page for each section.
LEMMA FreshPages ==
  ASSUME made' = [s \in Sects |-> 0], enc_state' = "INPUT",
         \A s \in Sects : Len(heads'[s]) = 1 /\ heads'[s][1] \in 1 .. Len(page'),
         \A p \in 1 .. Len(page') : page'[p] = <<>>
  PROVE  PagesTrue'
<1>1. NothingMade
  BY EmptyPages
<1>2. \A s \in Sects : /\ Len(heads'[s]) = Sizes'[s]
                       /\ \A j \in 1 .. Sizes'[s] : page'[heads'[s][j]] = PageOf(s, j)'
  <2> TAKE s \in Sects
  <2>1. Sizes'[s] = 1 /\ Len(heads'[s]) = 1 /\ page'[heads'[s][1]] = PageOf(s, 1)'
    BY <1>1 DEF NothingMade
  <2>2. \A j \in 1 .. 1 : j = 1
    OBVIOUS
  <2>3. QED
    BY <2>1, <2>2
<1>3. QED
  BY <1>2 DEF PagesTrue

LEMMA PagesInit ==
  ASSUME OutputInv, EncodeInit
  PROVE  OutputInv'
<1>0. Sects = {0, 1, 2, 3}
  BY DEF Sects
<1>1. /\ ret' = "RUN" /\ enc_state = "INIT" /\ enc_state' = "INPUT"
      /\ page' = [i \in 1 .. 4 |-> <<>>] /\ heads' = [s \in Sects |-> <<s + 1>>]
      /\ chain' = chain /\ enc_free' = enc_free /\ made' = made /\ output' = output /\ avail_out' = avail_out
      /\ enc_current' = enc_current /\ current_window' = current_window
  BY DEF EncodeInit, Running, Return, counters
<1>2. chain = <<>> /\ enc_free = <<>> /\ made = [s \in Sects |-> 0] /\ output = <<>> /\ avail_out = <<>>
  BY <1>1 DEF OutputInv, Stages, OutputTrue
<1>3. \A s \in Sects : heads'[s] = <<s + 1>> /\ heads'[s] \in Seq(Nat) /\ Len(heads'[s]) = 1 /\ heads'[s][1] = s + 1
                       /\ s \in Nat /\ s + 1 \in 1 .. 4
  <2> TAKE s \in Sects
  <2>1. s \in Nat /\ s + 1 \in 1 .. 4
    BY <1>0
  <2>2. PICK v \in Nat : v = s + 1
    BY <2>1
  <2>3. heads'[s] = <<v>>
    BY <1>1, <2>2
  <2>4. QED
    BY <2>1, <2>2, <2>3
<1>4. \A s \in Sects : \A i \in 1 .. Len(heads'[s]) : i = 1 /\ heads'[s][i] = s + 1
  <2> TAKE s \in Sects
  <2>1. Len(heads'[s]) = 1 /\ heads'[s][1] = s + 1
    BY <1>3
  <2>2. \A i \in 1 .. 1 : i = 1
    OBVIOUS
  <2>3. QED
    BY <2>1, <2>2
<1>5. page' \in Seq(Seq(Item)) /\ Len(page') = 4 /\ \A p \in 1 .. 4 : page'[p] = <<>>
  <2>1. <<>> \in Seq(Item)
    OBVIOUS
  <2>2. page' \in [1 .. 4 -> Seq(Item)]
    BY <1>1, <2>1
  <2>3. QED
    BY <1>1, <2>2
<1>6. InOnePlace(heads', <<>>, 4)
  <2>1. \A s \in Sects : \A i \in 1 .. Len(heads'[s]) : heads'[s][i] \in 1 .. 4
    BY <1>3, <1>4
  <2>2. \A i \in 1 .. Len(<<>>) : <<>>[i] \in 1 .. 4
    OBVIOUS
  <2>3. \A s, t \in Sects : \A i \in 1 .. Len(heads'[s]), j \in 1 .. Len(heads'[t]) :
          heads'[s][i] = heads'[t][j] => s = t /\ i = j
    <3> SUFFICES ASSUME NEW s \in Sects, NEW t \in Sects, NEW i \in 1 .. Len(heads'[s]),
                        NEW j \in 1 .. Len(heads'[t]), heads'[s][i] = heads'[t][j]
                 PROVE  s = t /\ i = j
      OBVIOUS
    <3>1. i = 1 /\ j = 1 /\ s + 1 = t + 1
      BY <1>4
    <3>2. QED
      BY <1>3, <3>1
  <2>4. \A s \in Sects : \A i \in 1 .. Len(heads'[s]), j \in 1 .. Len(<<>>) : heads'[s][i] # <<>>[j]
    OBVIOUS
  <2>5. \A i, j \in 1 .. Len(<<>>) : <<>>[i] = <<>>[j] => i = j
    OBVIOUS
  <2>6. ASSUME NEW p \in 1 .. 4
        PROVE  \E s \in Sects : \E i \in 1 .. Len(heads'[s]) : heads'[s][i] = p
    <3>1. p - 1 \in Sects /\ (p - 1) + 1 = p
      BY DEF Sects
    <3>2. Len(heads'[p - 1]) = 1 /\ heads'[p - 1][1] = p
      BY <1>3, <3>1
    <3>3. 1 \in 1 .. Len(heads'[p - 1])
      BY <3>2
    <3>4. QED
      BY <3>1, <3>2, <3>3
  <2>7. 4 = Len(heads'[0]) + Len(heads'[1]) + Len(heads'[2]) + Len(heads'[3]) + Len(<<>>)
    <3>1. Len(heads'[0]) = 1 /\ Len(heads'[1]) = 1 /\ Len(heads'[2]) = 1 /\ Len(heads'[3]) = 1
      BY <1>0, <1>3
    <3>2. QED
      BY <3>1
  <2>8. QED
    BY <2>1, <2>2, <2>3, <2>4, <2>5, <2>6, <2>7, Zenon DEF InOnePlace
<1>7. OnePlace'
  <2>1. Held' = heads'
    BY <1>1, <1>2 DEF Held
  <2>2. QED
    BY <1>1, <1>2, <1>5, <1>6, <2>1 DEF OnePlace
<1>8. PageTypes'
  <2>1. heads' \in [Sects -> Seq(Nat)]
    BY <1>1, <1>3
  <2>2. \A s \in Sects : \A i \in 1 .. Len(heads'[s]) : heads'[s][i] \in 1 .. Len(page')
    BY <1>3, <1>4, <1>5
  <2>3. \A p \in 1 .. Len(page') : Len(page'[p]) <= PageSize
    <3>1. Len(<<>>) = 0 /\ 0 <= PageSize
      BY ExtraPages
    <3>2. QED
      BY <1>5, <3>1
  <2>4. /\ chain' \in Seq(Nat) /\ enc_free' \in Seq(Nat) /\ made' \in [Sects -> Nat]
        /\ output' \in Seq(Item) /\ avail_out' \in Seq(Item)
        /\ current_window' \in Nat /\ enc_current' \in Nat
    BY <1>1 DEF OutputInv, PageTypes
  <2>5. QED
    BY <1>5, <2>1, <2>2, <2>3, <2>4 DEF PageTypes
<1>9. Stages'
  BY <1>1, <1>2 DEF Stages
<1>10. PagesTrue'
  BY <1>1, <1>2, <1>3, <1>5, FreshPages
<1>11. OutputTrue'
  BY <1>1, <1>2 DEF OutputTrue
<1>12. QED
  BY <1>7, <1>8, <1>9, <1>10, <1>11 DEF OutputInv

LEMMA ResetKeeps ==
  ASSUME OutputInv, Reset, enc_state = "POSTWIN", enc_state' = "INPUT", avail_out' = avail_out,
         ret' # "XD3_OUTPUT"
  PROVE  OutputInv'
<1>0. Sects = {0, 1, 2, 3}
  BY DEF Sects
<1>1. /\ heads' = [s \in Sects |-> <<chain[s + 1]>>] /\ page' = [p \in DOMAIN page |-> <<>>]
      /\ enc_free' = Reverse(SubSeq(chain, 5, Len(chain))) \o enc_free
      /\ chain' = <<>> /\ enc_current' = 0 /\ made' = [s \in Sects |-> 0] /\ output' = <<>>
      /\ current_window' = current_window + 1
  BY DEF Reset
<1>2. chain # <<>> /\ avail_out = <<>> /\ Len(chain) = Total4(Sizes)
  BY DEF OutputInv, Stages, OutputTrue, PagesTrue
<1>3. chain \in Seq(Nat) /\ enc_free \in Seq(Nat) /\ page \in Seq(Seq(Item)) /\ current_window \in Nat
  BY DEF OutputInv, PageTypes
<1>4. Len(chain) >= 4
  <2>1. DOMAIN Sizes = Sects /\ \A s \in Sects : Sizes[s] \in Nat \ {0}
    BY SizesAre DEF OutputInv
  <2>2. PICK a \in Nat \ {0}, b \in Nat \ {0}, c \in Nat \ {0}, d \in Nat \ {0} :
          a = Sizes[0] /\ b = Sizes[1] /\ c = Sizes[2] /\ d = Sizes[3]
    BY <1>0, <2>1
  <2>3. Total4(Sizes) = a + b + c + d
    BY <2>2 DEF Total4
  <2>4. QED
    BY <1>2, <2>3
<1>5. PICK n \in Nat : n = Len(page)
  BY <1>3
<1>6. InOnePlace(InChain(chain), enc_free, n)
  BY <1>2, <1>5 DEF OutputInv, OnePlace, Held, InChain
<1>7. OneChain(chain, enc_free, n)
  BY <1>3, <1>6, ChainAlone
<1>8. Cut(chain, enc_free, heads', enc_free')
  BY <1>1 DEF Cut
<1>9. /\ heads' \in [Sects -> Seq(Nat)] /\ enc_free' \in Seq(Nat) /\ InOnePlace(heads', enc_free', n)
      /\ \A s \in Sects : Len(heads'[s]) = 1
  BY <1>3, <1>4, <1>7, <1>8, CutChain
<1>10. page' \in Seq(Seq(Item)) /\ Len(page') = n /\ \A p \in 1 .. n : page'[p] = <<>>
  <2>1. <<>> \in Seq(Item) /\ DOMAIN page = 1 .. n
    BY <1>3, <1>5
  <2>2. page' \in [1 .. n -> Seq(Item)]
    BY <1>1, <2>1
  <2>3. QED
    BY <1>1, <2>1, <2>2
<1>11. \A s \in Sects : \A i \in 1 .. Len(heads'[s]) : heads'[s][i] \in 1 .. Len(page')
  <2>1. \A s \in Sects : \A i \in 1 .. Len(heads'[s]) : heads'[s][i] \in 1 .. n
    BY <1>9 DEF InOnePlace
  <2>2. QED
    BY <1>10, <2>1
<1>12. OnePlace'
  <2>1. Held' = heads'
    BY <1>1 DEF Held
  <2>2. QED
    BY <1>9, <1>10, <2>1 DEF OnePlace
<1>13. PageTypes'
  <2>1. \A p \in 1 .. Len(page') : Len(page'[p]) <= PageSize
    <3>1. Len(<<>>) = 0 /\ 0 <= PageSize
      BY ExtraPages
    <3>2. QED
      BY <1>10, <3>1
  <2>2. chain' \in Seq(Nat) /\ output' \in Seq(Item) /\ avail_out' \in Seq(Item)
    BY <1>1, <1>2
  <2>3. made' \in [Sects -> Nat] /\ current_window' \in Nat /\ enc_current' \in Nat
    BY <1>1, <1>3
  <2>4. QED
    BY <1>9, <1>10, <1>11, <2>1, <2>2, <2>3 DEF PageTypes
<1>14. Stages'
  BY <1>1 DEF Stages
<1>15. PagesTrue'
  <2>1. \A s \in Sects : Len(heads'[s]) = 1 /\ heads'[s][1] \in 1 .. Len(page')
    <3> TAKE s \in Sects
    <3>1. Len(heads'[s]) = 1
      BY <1>9
    <3>2. 1 \in 1 .. Len(heads'[s])
      BY <3>1
    <3>3. QED
      BY <1>11, <3>1, <3>2
  <2>2. QED
    BY <1>1, <1>10, <2>1, FreshPages
<1>16. OutputTrue'
  BY <1>1, <1>2 DEF OutputTrue
<1>17. QED
  BY <1>12, <1>13, <1>14, <1>15, <1>16 DEF OutputInv

LEMMA PostWinPages ==
  ASSUME OutputInv, PostWin
  PROVE  OutputInv'
<1>1. /\ enc_state = "POSTWIN" /\ Reset /\ enc_state' = "INPUT" /\ avail_out' = avail_out
      /\ ret' # "XD3_OUTPUT"
  BY DEF PostWin, Running, Return
<1>2. QED
  BY <1>1, ResetKeeps

LEMMA ClosePages ==
  ASSUME OutputInv, Close
  PROVE  OutputInv'
<1>1. ret' = ret /\ ret # "XD3_OUTPUT"
  BY DEF Close
<1>2. CASE enc_state = "POSTWIN" /\ buf_leftover = None
  <2>1. Reset /\ enc_state' = "INPUT" /\ avail_out' = avail_out
    BY <1>2 DEF Close
  <2>2. QED
    BY <1>1, <1>2, <2>1, ResetKeeps
<1>3. CASE ~(enc_state = "POSTWIN" /\ buf_leftover = None)
  <2>1. SamePages /\ UNCHANGED <<enc_state, enc_current, output, avail_out>>
    BY <1>3 DEF Close, SamePages, stream, counters
  <2>2. Stages'
    BY <1>1, <2>1 DEF OutputInv, Stages, SamePages
  <2>3. QED
    BY <1>1, <2>1, <2>2, QuietStep
<1>4. QED
  BY <1>2, <1>3

\* Which page of which section is the next one in the chain.
LEMMA NextPage ==
  ASSUME PageTypes, NEW s \in Sects, NEW j \in 1 .. Sizes[s], NEW k, k = Below(Sizes, s) + j
  PROVE  /\ k \in Nat
         /\ j < Sizes[s] => j + 1 \in 1 .. Sizes[s] /\ k + 1 = Below(Sizes, s) + (j + 1) /\ k + 1 <= Total4(Sizes)
         /\ j = Sizes[s] /\ s # 3 =>
              /\ s + 1 \in Sects /\ 1 \in 1 .. Sizes[s + 1] /\ k + 1 = Below(Sizes, s + 1) + 1
              /\ k + 1 <= Total4(Sizes)
         /\ j = Sizes[s] /\ s = 3 => ~(k + 1 <= Total4(Sizes))
<1>0. Sects = {0, 1, 2, 3}
  BY DEF Sects
<1>1. DOMAIN Sizes = Sects /\ \A t \in Sects : Sizes[t] \in Nat \ {0}
  BY SizesAre
<1>2. PICK a \in Nat \ {0}, b \in Nat \ {0}, c \in Nat \ {0}, d \in Nat \ {0} :
        a = Sizes[0] /\ b = Sizes[1] /\ c = Sizes[2] /\ d = Sizes[3]
  BY <1>0, <1>1
<1>3. /\ Below(Sizes, 0) = 0 /\ Below(Sizes, 1) = a /\ Below(Sizes, 2) = a + b
      /\ Below(Sizes, 3) = a + b + c /\ Total4(Sizes) = a + b + c + d
  <2>1. \A t \in Sects : Sizes[t] \in Nat
    BY <1>1
  <2>2. QED
    BY <1>1, <1>2, <2>1, Parts
<1>4. CASE s = 0
  <2>1. s + 1 = 1
    BY <1>4
  <2>2. QED
    BY <1>0, <1>2, <1>3, <1>4, <2>1
<1>5. CASE s = 1
  <2>1. s + 1 = 2
    BY <1>5
  <2>2. QED
    BY <1>0, <1>2, <1>3, <1>5, <2>1
<1>6. CASE s = 2
  <2>1. s + 1 = 3
    BY <1>6
  <2>2. QED
    BY <1>0, <1>2, <1>3, <1>6, <2>1
<1>7. CASE s = 3
  BY <1>0, <1>2, <1>3, <1>7
<1>8. QED
  BY <1>0, <1>4, <1>5, <1>6, <1>7

\* The page that comes next is output.
LEMMA NextOutput ==
  ASSUME PageTypes, Stages, OnePlace, PagesTrue, enc_state = "POSTOUT", SamePages, PagesSame,
         NEW s \in Sects, NEW j \in 1 .. Sizes[s],
         NEW k, k + 1 = Below(Sizes, s) + j, enc_current' = k + 1, avail_out' \in Seq(Item), output' = output,
         ret' = IF avail_out' = <<>> THEN "RUN" ELSE "XD3_OUTPUT", enc_state' = "POSTOUT",
         output' \o avail_out' = Earlier(s) \o UpTo(s, made[s], j)
  PROVE  OutputInv'
<1>1. enc_current' \in Nat
  <2>1. Below(Sizes, s) \in Nat /\ Sizes[s] \in Nat
    BY SizesAre, Parts
  <2>2. QED
    BY <2>1
<1>2. PageTypes'
  BY <1>1 DEF PageTypes, SamePages
<1>3. Stages'
  BY DEF Stages, SamePages
<1>4. OnePlace' /\ PagesTrue'
  BY DEF PagesSame, SamePages, PagesTrue
<1>5. OutputTrue'
  <2>1. UpTo(s, made[s], j) = SubSeq(Made(s), 1, Smaller(j * PageSize, made[s]))
    BY DEF UpTo, Made
  <2>2. /\ Sizes' = Sizes /\ Below(Sizes, s)' = Below(Sizes, s) /\ Earlier(s)' = Earlier(s) /\ Made(s)' = Made(s)
        /\ made' = made
    BY DEF PagesSame, SamePages
  <2>3. enc_current' = Below(Sizes, s)' + j
    BY <2>2
  <2>4. output' \o avail_out' = Earlier(s)' \o SubSeq(Made(s)', 1, Smaller(j * PageSize, made'[s]))
    BY <2>1, <2>2
  <2>5. \E t \in Sects : \E i \in 1 .. Sizes'[t] :
          /\ enc_current' = Below(Sizes, t)' + i
          /\ output' \o avail_out' = Earlier(t)' \o SubSeq(Made(t)', 1, Smaller(i * PageSize, made'[t]))
    BY <2>2, <2>3, <2>4
  <2>6. QED
    BY <2>5 DEF OutputTrue
<1>6. QED
  BY <1>2, <1>3, <1>4, <1>5 DEF OutputInv

LEMMA PostOutPages ==
  ASSUME OutputInv, PostOut
  PROVE  OutputInv'
<1>0. Sects = {0, 1, 2, 3}
  BY DEF Sects
<1>1. /\ ret = "RUN" /\ enc_state = "POSTOUT" /\ output' = output
      /\ SamePages
  BY DEF PostOut, Running, SamePages
<1>2. PagesSame
  BY <1>1, PagesStay
<1>3. PageTypes /\ Stages /\ OnePlace /\ PagesTrue /\ OutputTrue
  BY DEF OutputInv
<1>4. avail_out = <<>> /\ output \in Seq(Item)
  BY <1>1, <1>3 DEF OutputTrue, PageTypes
<1>5. output \o avail_out = output
  BY <1>4, ConcatEmptySeq
<1>6. PICK s \in Sects : \E j \in 1 .. Sizes[s] :
         /\ enc_current = Below(Sizes, s) + j
         /\ output = Earlier(s) \o SubSeq(Made(s), 1, Smaller(j * PageSize, made[s]))
  BY <1>1, <1>3, <1>5 DEF OutputTrue
<1>7. PICK j \in 1 .. Sizes[s] :
         /\ enc_current = Below(Sizes, s) + j
         /\ output = Earlier(s) \o SubSeq(Made(s), 1, Smaller(j * PageSize, made[s]))
  BY <1>6
<1>8. Len(chain) = Total4(Sizes)
      /\ \A t \in Sects : \A i \in 1 .. Sizes[t] : page[chain[Below(Sizes, t) + i]] = PageOf(t, i)
  BY <1>1, <1>3 DEF PagesTrue
<1>9. PICK k : k = enc_current
  OBVIOUS
<1>n. k = Below(Sizes, s) + j
  BY <1>7, <1>9
<1>10. \A t \in Sects : Sizes[t] = 1 + Extra(made[t]) /\ made[t] \in Nat /\ Sizes[t] \in Nat \ {0}
  BY <1>3, SizesAre
<1>c. current_window \in Nat
  BY <1>3 DEF PageTypes
\* What was output ends with page j of section s.
<1>11. SheetTrue(s, made[s], j)
  BY <1>10, <1>c, SheetParts
<1>12. /\ Made(s) = Items(s, made[s])
       /\ output = Earlier(s) \o UpTo(s, made[s], j)
  BY <1>7 DEF Made, UpTo
<1>13. Earlier(s) \in Seq(Item) /\ UpTo(s, made[s], j) \in Seq(Item)
  BY <1>3, <1>11, EarlierParts DEF SheetTrue
<1>14. CASE j < Sizes[s]
  <2>1. j + 1 \in 1 .. Sizes[s] /\ k + 1 = Below(Sizes, s) + (j + 1) /\ k + 1 <= Len(chain)
    BY <1>3, <1>8, <1>14, <1>n, NextPage
  <2>2. /\ enc_current' = k + 1 /\ avail_out' = page[chain[k + 1]]
        /\ ret' = (IF avail_out' = <<>> THEN "RUN" ELSE "XD3_OUTPUT") /\ enc_state' = "POSTOUT"
    BY <1>9, <2>1 DEF PostOut, Return
  <2>3. avail_out' = Sheet(s, made[s], j + 1)
    <3>1. page[chain[k + 1]] = PageOf(s, j + 1)
      BY <1>8, <2>1
    <3>2. PageOf(s, j + 1) = Sheet(s, made[s], j + 1)
      BY DEF PageOf, Made, Sheet
    <3>3. QED
      BY <2>2, <3>1, <3>2
  <2>4. SheetTrue(s, made[s], j + 1)
    <3>1. PICK i \in 1 .. 1 + Extra(made[s]) : i = j + 1
      BY <1>10, <2>1
    <3>2. SheetTrue(s, made[s], i)
      BY <1>10, <1>c, SheetParts
    <3>3. QED
      BY <3>1, <3>2
  <2>5. /\ avail_out' \in Seq(Item)
        /\ UpTo(s, made[s], j) \o avail_out' = UpTo(s, made[s], j + 1)
    <3>1. j + 1 > 1 /\ (j + 1) - 1 = j
      OBVIOUS
    <3>2. UpTo(s, made[s], (j + 1) - 1) \o Sheet(s, made[s], j + 1) = UpTo(s, made[s], j + 1)
      BY <2>4, <3>1 DEF SheetTrue
    <3>3. QED
      BY <2>3, <2>4, <3>1, <3>2 DEF SheetTrue
  <2>6. output' \o avail_out' = Earlier(s) \o UpTo(s, made[s], j + 1)
    <3>1. (Earlier(s) \o UpTo(s, made[s], j)) \o avail_out' = Earlier(s) \o (UpTo(s, made[s], j) \o avail_out')
      <4>1. PICK a \in Seq(Item), b \in Seq(Item), d \in Seq(Item) :
              a = Earlier(s) /\ b = UpTo(s, made[s], j) /\ d = avail_out'
        BY <1>13, <2>5
      <4>2. (a \o b) \o d = a \o (b \o d)
        BY ConcatAssociative
      <4>3. QED
        BY <4>1, <4>2
    <3>2. QED
      BY <1>1, <1>12, <2>5, <3>1
  <2>7. QED
    BY <1>1, <1>2, <1>3, <2>1, <2>2, <2>5, <2>6, NextOutput
<1>15. CASE j = Sizes[s] /\ s # 3
  <2>0. PICK t \in Sects : t = s + 1 /\ 1 \in 1 .. Sizes[t] /\ k + 1 = Below(Sizes, t) + 1 /\ k + 1 <= Len(chain)
    BY <1>3, <1>8, <1>15, <1>n, NextPage
  <2>2. /\ enc_current' = k + 1 /\ avail_out' = page[chain[k + 1]]
        /\ ret' = (IF avail_out' = <<>> THEN "RUN" ELSE "XD3_OUTPUT") /\ enc_state' = "POSTOUT"
    BY <1>9, <2>0 DEF PostOut, Return
  <2>3. avail_out' = Sheet(t, made[t], 1)
    <3>1. page[chain[k + 1]] = PageOf(t, 1)
      BY <1>8, <2>0
    <3>2. PageOf(t, 1) = Sheet(t, made[t], 1)
      BY DEF PageOf, Made, Sheet
    <3>3. QED
      BY <2>2, <3>1, <3>2
  <2>4. SheetTrue(t, made[t], 1)
    <3>1. 1 \in 1 .. 1 + Extra(made[t])
      BY <1>10, <2>0
    <3>2. QED
      BY <1>10, <1>c, <3>1, SheetParts
  <2>5. avail_out' \in Seq(Item) /\ avail_out' = UpTo(t, made[t], 1)
    BY <2>3, <2>4 DEF SheetTrue
  <2>6. output' \o avail_out' = Earlier(t) \o UpTo(t, made[t], 1)
    <3>1. UpTo(s, made[s], j) = Made(s)
      BY <1>10, <1>11, <1>12, <1>15 DEF SheetTrue
    <3>2. output = Earlier(t)
      BY <1>3, <1>12, <1>15, <2>0, <3>1, EarlierParts
    <3>3. QED
      BY <1>1, <2>5, <3>2
  <2>7. QED
    BY <1>1, <1>2, <1>3, <2>0, <2>2, <2>5, <2>6, NextOutput
<1>16. CASE j = Sizes[s] /\ s = 3
  <2>1. ~(k + 1 <= Len(chain))
    BY <1>3, <1>8, <1>16, <1>n, NextPage
  <2>2. /\ ret' = "XD3_WINFINISH" /\ enc_state' = "POSTWIN" /\ avail_out' = avail_out /\ enc_current' = enc_current
    BY <1>9, <2>1 DEF PostOut, Return
  <2>3. output = AllMade
    <3>1. UpTo(s, made[s], j) = Made(s)
      BY <1>10, <1>11, <1>12, <1>16 DEF SheetTrue
    <3>2. QED
      BY <1>3, <1>12, <1>16, <3>1, EarlierParts
  <2>4. PageTypes'
    BY <1>1, <1>3, <2>2 DEF PageTypes, SamePages
  <2>5. Stages'
    BY <1>1, <1>3, <2>2 DEF Stages, SamePages
  <2>6. OnePlace' /\ PagesTrue'
    BY <1>1, <1>2, <1>3, <2>2 DEF PagesSame, SamePages, PagesTrue
  <2>7. OutputTrue'
    BY <1>1, <1>2, <1>4, <2>2, <2>3 DEF PagesSame, OutputTrue
  <2>8. QED
    BY <2>4, <2>5, <2>6, <2>7 DEF OutputInv
<1>17. j < Sizes[s] \/ j = Sizes[s]
  BY <1>10
<1>18. QED
  BY <1>14, <1>15, <1>16, <1>17

\* The first page of each section is empty, and what is made goes on from there.
LEMMA InstructionsPages ==
  ASSUME OutputInv, NEW n \in [Sects -> Counts], Instructions(n)
  PROVE  OutputInv'
<1>1. /\ ret = "RUN" /\ enc_state = "SEARCH" /\ n[0] = 0 /\ ret' = "RUN" /\ enc_state' = "FLUSH"
      /\ heads' = Lists(n) /\ Emit(n, heads')
      /\ UNCHANGED <<chain, enc_current, avail_out, output, current_window>>
  BY DEF Instructions, Running, Return, counters
<1>2. PageTypes /\ Stages /\ OnePlace /\ PagesTrue /\ OutputTrue
  BY DEF OutputInv
<1>3. n \in [Sects -> Nat]
  BY EncodeAssumption
<1>4. made = [s \in Sects |-> 0] /\ chain = <<>> /\ output = <<>> /\ avail_out = <<>>
  BY <1>1, <1>2 DEF Stages, OutputTrue
<1>5. \A s \in Sects : /\ Sizes[s] = 1 /\ Len(heads[s]) = 1
                       /\ page[heads[s][1]] = Sheet(s, 0, 1)
  <2> TAKE s \in Sects
  <2>1. made[s] = 0 /\ Sizes[s] = 1
    BY <1>2, <1>4, SizesAre, ExtraPages
  <2>2. Len(heads[s]) = 1 /\ page[heads[s][1]] = PageOf(s, 1)
    <3>1. Len(heads[s]) = Sizes[s] /\ \A j \in 1 .. Sizes[s] : page[heads[s][j]] = PageOf(s, j)
      BY <1>1, <1>2 DEF PagesTrue
    <3>2. 1 \in 1 .. Sizes[s]
      BY <2>1
    <3>3. QED
      BY <2>1, <3>1, <3>2
  <2>3. PageOf(s, 1) = Sheet(s, 0, 1)
    BY <2>1 DEF PageOf, Made, Sheet
  <2>4. QED
    BY <2>1, <2>2, <2>3
<1>6. InOnePlace(heads, enc_free, Len(page))
  BY <1>2, <1>4 DEF OnePlace, Held
<1>7. Emitted(n, heads')
  BY <1>1, <1>2, <1>3, <1>5, <1>6, EmitPages
<1>8. made' = n
  <2>1. made' = [s \in Sects |-> made[s] + n[s]]
    BY <1>7 DEF Emitted
  <2>2. \A s \in Sects : made[s] + n[s] = n[s]
    BY <1>3, <1>4
  <2>3. QED
    BY <1>3, <2>1, <2>2
<1>9. \A s \in Sects : Sizes'[s] = 1 + Extra(n[s]) /\ Extra(n[s]) \in Nat
  BY <1>3, <1>8, ExtraPages DEF Sizes
<1>10. \A s \in Sects : Len(heads'[s]) = Sizes'[s]
  <2> TAKE s \in Sects
  <2>1. Len(heads'[s]) = Len(heads[s]) + Extra(n[s])
    BY <1>7 DEF Emitted
  <2>2. Len(heads[s]) = 1 /\ Sizes'[s] = 1 + Extra(n[s])
    BY <1>5, <1>9
  <2>3. QED
    BY <2>1, <2>2
<1>11. ASSUME NEW s \in Sects, NEW j \in 1 .. Sizes'[s]
       PROVE  page'[heads'[s][j]] = PageOf(s, j)'
  <2>1. PageOf(s, j)' = Sheet(s, n[s], j)
    BY <1>1, <1>8 DEF PageOf, Made, Sheet, Items
  <2>2. j \in 1 .. Len(heads'[s])
    BY <1>10
  <2>3. CASE n[s] > 0
    BY <1>7, <2>1, <2>2, <2>3 DEF Emitted
  <2>4. CASE n[s] = 0
    <3>1. j \in 1 .. Len(heads[s]) /\ page'[heads'[s][j]] = page[heads[s][j]]
      BY <1>7, <2>2, <2>4 DEF Emitted
    <3>2. j = 1
      BY <1>5, <3>1
    <3>3. QED
      BY <1>5, <2>1, <2>4, <3>1, <3>2
  <2>5. QED
    BY <1>3, <2>3, <2>4
<1>12. PagesTrue'
  BY <1>1, <1>10, <1>11 DEF PagesTrue
<1>13. OnePlace'
  <2>1. Held' = heads'
    BY <1>1, <1>4 DEF Held
  <2>2. InOnePlace(heads', enc_free', Len(page'))
    BY <1>7 DEF Emitted
  <2>3. QED
    BY <2>1, <2>2 DEF OnePlace
<1>14. PageTypes'
  <2>1. heads' \in [Sects -> Seq(Nat)] /\ enc_free' \in Seq(Nat) /\ page' \in Seq(Seq(Item))
    BY <1>7 DEF Emitted
  <2>2. \A p \in 1 .. Len(page') : Len(page'[p]) <= PageSize
    BY <1>7 DEF Emitted
  <2>3. \A s \in Sects : \A i \in 1 .. Len(heads'[s]) : heads'[s][i] \in 1 .. Len(page')
    BY <1>7 DEF Emitted, InOnePlace
  <2>4. QED
    BY <1>1, <1>2, <1>3, <1>8, <2>1, <2>2, <2>3 DEF PageTypes
<1>15. Stages'
  BY <1>1, <1>2, <1>4, <1>8 DEF Stages
<1>16. OutputTrue'
  BY <1>1, <1>4 DEF OutputTrue
<1>17. QED
  BY <1>12, <1>13, <1>14, <1>15, <1>16 DEF OutputInv

\* The header is written, and the pages are chained in the order of the sections.
LEMMA FlushPages ==
  ASSUME OutputInv, NEW n \in Counts, FlushHeader(n)
  PROVE  OutputInv'
<1>0. Sects = {0, 1, 2, 3}
  BY DEF Sects
<1>1. PICK m : m = [s \in Sects |-> IF s = 0 THEN n ELSE 0]
  OBVIOUS
<1>2. PICK l : l = Lists(m)
  OBVIOUS
<1>3. /\ Emit(m, l) /\ chain' = l[0] \o l[1] \o l[2] \o l[3]
      /\ heads' = [s \in Sects |-> IF s = 0 THEN l[0] ELSE <<>>]
      /\ enc_current' = 1 /\ avail_out' = page'[chain'[1]]
  BY <1>1, <1>2 DEF FlushHeader
<1>4. /\ ret = "RUN" /\ enc_state = "FLUSH" /\ n > 0 /\ ret' = "XD3_OUTPUT" /\ enc_state' = "POSTOUT"
      /\ output' = output /\ current_window' = current_window
  BY DEF FlushHeader, Running, Return
<1>5. PageTypes /\ Stages /\ OnePlace /\ PagesTrue /\ OutputTrue
  BY DEF OutputInv
<1>6. n \in Nat /\ m \in [Sects -> Nat] /\ m[0] = n /\ \A s \in Sects : s # 0 => m[s] = 0
  BY <1>0, <1>1, EncodeAssumption
<1>7. made[0] = 0 /\ chain = <<>> /\ output = <<>>
  BY <1>4, <1>5 DEF Stages, OutputTrue
<1>8. \A s \in Sects : /\ Len(heads[s]) = Sizes[s] /\ Sizes[s] = 1 + Extra(made[s]) /\ Sizes[s] \in Nat
                       /\ \A j \in 1 .. Sizes[s] : page[heads[s][j]] = PageOf(s, j)
  BY <1>4, <1>5, SizesAre DEF PagesTrue
<1>9. Len(heads[0]) = 1
  <2>1. Extra(made[0]) = 0
    BY <1>7, ExtraPages
  <2>2. Len(heads[0]) = 1 + Extra(made[0])
    BY <1>0, <1>8
  <2>3. QED
    BY <2>1, <2>2
<1>10. InOnePlace(heads, enc_free, Len(page))
  BY <1>5, <1>7 DEF OnePlace, Held
<1>11. Emitted(m, l)
  <2>1. \A s \in Sects : m[s] > 0 => Len(heads[s]) = 1
    BY <1>6, <1>9
  <2>2. QED
    BY <1>2, <1>3, <1>5, <1>6, <1>10, <2>1, EmitPages
<1>12. /\ l \in [Sects -> Seq(Nat)] /\ enc_free' \in Seq(Nat) /\ page' \in Seq(Seq(Item))
       /\ InOnePlace(l, enc_free', Len(page'))
  BY <1>11 DEF Emitted
<1>13. made' \in [Sects -> Nat] /\ made'[0] = n /\ \A s \in Sects : s # 0 => made'[s] = made[s]
  <2>1. made' = [s \in Sects |-> made[s] + m[s]]
    BY <1>11 DEF Emitted
  <2>2. \A s \in Sects : made[s] \in Nat /\ m[s] \in Nat
    BY <1>5, <1>6 DEF PageTypes
  <2>3. QED
    BY <1>0, <1>6, <1>7, <2>1, <2>2
<1>14. \A s \in Sects : Sizes'[s] = 1 + Extra(made'[s])
  BY DEF Sizes
<1>15. \A s \in Sects : Len(l[s]) = Sizes'[s] /\ (s # 0 => Sizes'[s] = Sizes[s])
  <2> TAKE s \in Sects
  <2>1. Len(l[s]) = Len(heads[s]) + Extra(m[s])
    BY <1>11 DEF Emitted
  <2>2. CASE s = 0
    <3>1. Extra(n) \in Nat
      BY <1>6, ExtraPages
    <3>2. QED
      BY <1>6, <1>9, <1>13, <1>14, <2>1, <2>2, <3>1
  <2>3. CASE s # 0
    <3>1. Extra(m[s]) = 0
      BY <1>6, <2>3, ExtraPages
    <3>2. QED
      BY <1>8, <1>13, <1>14, <2>1, <2>3, <3>1
  <2>4. QED
    BY <2>2, <2>3
<1>16. PICK e : e = Sizes'
  OBVIOUS
<1>17. DOMAIN e = Sects /\ \A s \in Sects : e[s] = Len(l[s]) /\ e[s] \in Nat
  BY <1>12, <1>15, <1>16 DEF Sizes
<1>18. Chained(l, e, chain')
  BY <1>3, <1>12, <1>17, FourLists
<1>19. chain' \in Seq(Nat) /\ Len(chain') = Total4(e)
       /\ \A s \in Sects : \A j \in 1 .. e[s] : chain'[Below(e, s) + j] = l[s][j]
  BY <1>18 DEF Chained
<1>20. ASSUME NEW s \in Sects, NEW j \in 1 .. e[s]
       PROVE  page'[l[s][j]] = PageOf(s, j)'
  <2>1. j \in 1 .. Len(l[s])
    BY <1>17
  <2>2. CASE s = 0
    <3>1. page'[l[s][j]] = Sheet(s, n, j)
      BY <1>4, <1>6, <1>11, <2>1, <2>2 DEF Emitted
    <3>2. PageOf(s, j)' = Sheet(s, n, j)
      BY <1>4, <1>13, <2>2 DEF PageOf, Made, Sheet, Items
    <3>3. QED
      BY <3>1, <3>2
  <2>3. CASE s # 0
    <3>1. j \in 1 .. Len(heads[s]) /\ page'[l[s][j]] = page[heads[s][j]]
      BY <1>6, <1>11, <2>1, <2>3 DEF Emitted
    <3>2. page[heads[s][j]] = PageOf(s, j)
      BY <1>8, <3>1
    <3>3. PageOf(s, j)' = PageOf(s, j)
      BY <1>4, <1>13, <2>3 DEF PageOf, Made, Items
    <3>4. QED
      BY <3>1, <3>2, <3>3
  <2>4. QED
    BY <2>2, <2>3
<1>21. PagesTrue'
  <2>1. Len(chain') = Total4(Sizes')
    BY <1>16, <1>19
  <2>2. \A s \in Sects : \A j \in 1 .. Sizes'[s] : page'[chain'[Below(Sizes', s) + j]] = PageOf(s, j)'
    BY <1>16, <1>19, <1>20
  <2>3. QED
    BY <1>4, <2>1, <2>2 DEF PagesTrue
<1>22. 1 \in 1 .. e[0] /\ 0 \in Sects /\ Below(e, 0) = 0
  <2>1. e[0] = 1 + Extra(n) /\ Extra(n) \in Nat
    BY <1>0, <1>6, <1>13, <1>14, <1>16, ExtraPages
  <2>2. 0 \in Sects /\ \A s \in Sects : e[s] \in Nat
    BY <1>0, <1>17
  <2>3. Below(e, 0) = 0
    BY <1>17, <2>2, Parts
  <2>4. QED
    BY <2>1, <2>2, <2>3
<1>23. chain' # <<>>
  <2>1. Below(e, 0) + e[0] <= Total4(e)
    BY <1>17, <1>22, Parts
  <2>2. Len(chain') # 0
    <3>1. PICK a \in Nat, t \in Nat : a = e[0] /\ t = Len(chain')
      BY <1>17, <1>19, <1>22
    <3>2. a >= 1 /\ 0 + a <= t
      BY <1>19, <1>22, <2>1, <3>1
    <3>3. QED
      BY <3>1, <3>2
  <2>3. QED
    BY <2>2
<1>24. OnePlace'
  <2>1. Held' = InChain(chain')
    BY <1>23 DEF Held, InChain
  <2>2. PICK t \in Nat : t = Len(page')
    BY <1>12
  <2>3. InOnePlace(l, enc_free', t)
    BY <1>12, <2>2
  <2>4. InOnePlace(InChain(chain'), enc_free', t)
    BY <1>12, <1>17, <1>18, <2>3, ChainInOnePlace
  <2>5. QED
    BY <2>1, <2>2, <2>4 DEF OnePlace
<1>25. avail_out' = UpTo(0, n, 1) /\ avail_out' \in Seq(Item)
  <2>1. chain'[1] = l[0][1]
    <3>1. Below(e, 0) + 1 = 1
      BY <1>22
    <3>2. QED
      BY <1>19, <1>22, <3>1
  <2>2. avail_out' = Sheet(0, n, 1)
    <3>1. page'[l[0][1]] = PageOf(0, 1)'
      BY <1>20, <1>22
    <3>2. PageOf(0, 1)' = Sheet(0, n, 1)
      BY <1>4, <1>13 DEF PageOf, Made, Sheet, Items
    <3>3. QED
      BY <1>3, <2>1, <3>1, <3>2
  <2>3. SheetTrue(0, n, 1)
    <3>1. 1 \in 1 .. 1 + Extra(n) /\ current_window \in Nat
      BY <1>0, <1>5, <1>13, <1>14, <1>16, <1>22 DEF PageTypes
    <3>2. QED
      BY <1>6, <1>22, <3>1, SheetParts
  <2>4. QED
    BY <2>2, <2>3 DEF SheetTrue
<1>26. OutputTrue'
  <2>1. output' \o avail_out' = avail_out'
    BY <1>4, <1>7, <1>25, ConcatEmptySeq
  <2>2. Earlier(0)' \o SubSeq(Made(0)', 1, Smaller(1 * PageSize, made'[0])) = avail_out'
    <3>1. SubSeq(Made(0)', 1, Smaller(1 * PageSize, made'[0])) = avail_out'
      BY <1>4, <1>13, <1>25 DEF UpTo, Made, Items
    <3>2. Earlier(0)' = <<>>
      BY DEF Earlier
    <3>3. QED
      BY <1>25, <3>1, <3>2, ConcatEmptySeq
  <2>3. 1 \in 1 .. Sizes'[0] /\ enc_current' = Below(Sizes', 0) + 1
    BY <1>3, <1>16, <1>22
  <2>4. \E s \in Sects : \E j \in 1 .. Sizes'[s] :
          /\ enc_current' = Below(Sizes', s) + j
          /\ output' \o avail_out' = Earlier(s)' \o SubSeq(Made(s)', 1, Smaller(j * PageSize, made'[s]))
    BY <1>22, <2>1, <2>2, <2>3
  <2>5. QED
    BY <1>4, <2>4 DEF OutputTrue
<1>27. PageTypes'
  <2>1. heads' \in [Sects -> Seq(Nat)]
    BY <1>0, <1>3, <1>12
  <2>2. \A s \in Sects : \A i \in 1 .. Len(heads'[s]) : heads'[s][i] \in 1 .. Len(page')
    <3> TAKE s \in Sects
    <3>1. CASE s = 0
      <4>1. heads'[s] = l[0]
        BY <1>3, <3>1
      <4>2. \A i \in 1 .. Len(l[0]) : l[0][i] \in 1 .. Len(page')
        BY <1>12, <1>22 DEF InOnePlace
      <4>3. QED
        BY <4>1, <4>2
    <3>2. CASE s # 0
      BY <1>3, <3>2
    <3>3. QED
      BY <3>1, <3>2
  <2>3. \A p \in 1 .. Len(page') : Len(page'[p]) <= PageSize
    BY <1>11 DEF Emitted
  <2>4. output' \in Seq(Item) /\ current_window' \in Nat /\ enc_current' \in Nat
    BY <1>3, <1>4, <1>5 DEF PageTypes
  <2>5. QED
    BY <1>12, <1>13, <1>19, <1>25, <2>1, <2>2, <2>3, <2>4 DEF PageTypes
<1>28. Stages'
  BY <1>4, <1>23 DEF Stages
<1>29. QED
  BY <1>21, <1>24, <1>26, <1>27, <1>28 DEF OutputInv

LEMMA OutputNext ==
  ASSUME OutputInv, [Next]_vars
  PROVE  OutputInv'
<1>1. CASE Encode
  <2>1. CASE EncodeInit
    BY <2>1, PagesInit
  <2>2. CASE NothingYet \/ UseInput \/ BufferLeftover \/ SearchGetblk
    BY <2>2, QuietEncode
  <2>3. CASE \E n \in [Sects -> Counts] : Instructions(n)
    BY <2>3, InstructionsPages
  <2>4. CASE \E n \in Counts : FlushHeader(n)
    BY <2>4, FlushPages
  <2>5. CASE PostOut
    BY <2>5, PostOutPages
  <2>6. CASE PostWin
    BY <2>6, PostWinPages
  <2>7. QED
    BY <1>1, <2>1, <2>2, <2>3, <2>4, <2>5, <2>6 DEF Encode
<1>2. CASE Application
  <2>1. CASE Again \/ \E n \in 0 .. MaxPiece, f \in BOOLEAN : AvailInput(n, f)
    BY <2>1, QuietApplication
  <2>2. CASE ConsumeOutput
    BY <2>2, ConsumeKeeps
  <2>3. CASE Close
    BY <2>3, ClosePages
  <2>4. QED
    BY <1>2, <2>1, <2>2, <2>3 DEF Application
<1>3. CASE UNCHANGED vars
  <2>1. SamePages /\ UNCHANGED <<enc_state, ret, enc_current, output, avail_out>>
    BY <1>3 DEF vars, SamePages, pageVars, counters
  <2>2. PagesSame
    BY <2>1, PagesStay
  <2>3. PageTypes'
    BY <2>1 DEF OutputInv, PageTypes, SamePages
  <2>4. Stages'
    BY <2>1 DEF OutputInv, Stages, SamePages
  <2>5. OnePlace' /\ PagesTrue'
    BY <2>1, <2>2 DEF OutputInv, PagesSame, SamePages, PagesTrue
  <2>6. OutputTrue'
    BY <2>1, <2>2 DEF OutputInv, PagesSame, SamePages, OutputTrue
  <2>7. QED
    BY <2>3, <2>4, <2>5, <2>6 DEF OutputInv
<1>4. QED
  BY <1>1, <1>2, <1>3 DEF Next, Stopped

LEMMA OutputInit == Init => OutputInv
<1> SUFFICES ASSUME Init PROVE OutputInv
  OBVIOUS
<1>0. Sects = {0, 1, 2, 3}
  BY DEF Sects
<1>1. /\ enc_state = "INIT" /\ ret = "RUN" /\ heads = [s \in Sects |-> <<>>] /\ chain = <<>> /\ enc_current = 0
      /\ avail_out = <<>> /\ page = <<>> /\ enc_free = <<>> /\ made = [s \in Sects |-> 0] /\ output = <<>>
      /\ current_window = 0
  BY DEF Init
<1>2. PageTypes
  BY <1>1 DEF PageTypes
<1>3. Stages /\ PagesTrue /\ OutputTrue
  BY <1>1 DEF Stages, PagesTrue, OutputTrue
<1>4. OnePlace
  <2>1. Held = heads
    BY <1>1 DEF Held
  <2>2. InOnePlace(heads, <<>>, 0)
    <3>1. \A s \in Sects : heads[s] = <<>> /\ Len(heads[s]) = 0
      BY <1>1
    <3>2. 1 .. 0 = {} /\ Len(<<>>) = 0
      OBVIOUS
    <3>3. 0 = Len(heads[0]) + Len(heads[1]) + Len(heads[2]) + Len(heads[3]) + Len(<<>>)
      <4>1. Len(heads[0]) = 0 /\ Len(heads[1]) = 0 /\ Len(heads[2]) = 0 /\ Len(heads[3]) = 0
        BY <1>0, <3>1
      <4>2. QED
        BY <3>2, <4>1
    <3>4. QED
      BY <3>1, <3>2, <3>3 DEF InOnePlace
  <2>3. QED
    BY <1>1, <2>1, <2>2 DEF OnePlace
<1>5. QED
  BY <1>2, <1>3, <1>4 DEF OutputInv

\* Pages in one place are all there, and each only once.
LEMMA AllPages ==
  ASSUME NEW c \in Seq(Nat), NEW f \in Seq(Nat), NEW n \in Nat, OneChain(c, f, n)
  PROVE  Len(c \o f) = n /\ Range(c \o f) = 1 .. n
<1>1. Len(c \o f) = n
  <2>1. Len(c \o f) = Len(c) + Len(f)
    BY ConcatProperties
  <2>2. QED
    BY <2>1 DEF OneChain
<1>2. Range(c \o f) = Range(c) \cup Range(f)
  BY RangeConcatenation
<1>3. Range(c) = {c[i] : i \in 1 .. Len(c)} /\ Range(f) = {f[i] : i \in 1 .. Len(f)}
  BY RangeEquality
<1>4. \A p \in Range(c \o f) : p \in 1 .. n
  BY <1>2, <1>3 DEF OneChain
<1>5. \A p \in 1 .. n : p \in Range(c \o f)
  <2> TAKE p \in 1 .. n
  <2>1. \/ \E i \in 1 .. Len(c) : c[i] = p
        \/ \E i \in 1 .. Len(f) : f[i] = p
    BY DEF OneChain
  <2>2. QED
    BY <1>2, <1>3, <2>1
<1>6. QED
  BY <1>1, <1>4, <1>5

LEMMA OutputHolds == OutputInv => OutputInOrder
<1> SUFFICES ASSUME OutputInv PROVE OutputInOrder
  OBVIOUS
<1>0. Sects = {0, 1, 2, 3}
  BY DEF Sects
<1>1. PageTypes /\ Stages /\ OnePlace /\ PagesTrue /\ OutputTrue
  BY DEF OutputInv
<1>2. ret = "XD3_WINFINISH" => output = AllMade
  <2> SUFFICES ASSUME ret = "XD3_WINFINISH" PROVE output = AllMade
    OBVIOUS
  <2>1. CASE enc_state = "POSTWIN"
    BY <1>1, <2>1 DEF OutputTrue
  <2>2. CASE enc_state = "INPUT"
    <3>1. output = <<>> /\ made = [s \in Sects |-> 0]
      BY <1>1, <2>2 DEF OutputTrue, Stages
    <3>2. \A s \in Sects : Made(s) = <<>>
      <4> TAKE s \in Sects
      <4>1. Made(s) = [i \in 1 .. 0 |-> <<current_window, s, i>>]
        BY <3>1 DEF Made, Items
      <4>2. 1 .. 0 = {}
        OBVIOUS
      <4>3. QED
        BY <4>1, <4>2
    <3>3. AllMade = <<>> \o <<>> \o <<>> \o <<>>
      BY <1>0, <3>2 DEF AllMade
    <3>4. <<>> \o <<>> = <<>>
      OBVIOUS
    <3>5. QED
      BY <3>1, <3>3, <3>4
  <2>3. QED
    BY <1>1, <2>1, <2>2 DEF Stages
<1>3. PagesFit
  <2>1. DOMAIN page = 1 .. Len(page)
    BY <1>1 DEF PageTypes
  <2>2. ASSUME NEW s \in Sects
        PROVE  Range(heads[s]) \subseteq DOMAIN page
    <3>1. heads[s] \in Seq(Nat)
      BY <1>1 DEF PageTypes
    <3>2. Range(heads[s]) = {heads[s][i] : i \in 1 .. Len(heads[s])}
      BY <3>1, RangeEquality
    <3>3. QED
      BY <1>1, <2>1, <3>2 DEF PageTypes
  <2>3. QED
    BY <1>1, <2>1, <2>2 DEF PagesFit, PageTypes
<1>4. PagesConserved
  <2> SUFFICES ASSUME enc_state # "INIT" PROVE PagesConserved
    BY DEF PagesConserved
  <2>1. PICK c : c = IF chain # <<>> THEN chain ELSE heads[0] \o heads[1] \o heads[2] \o heads[3]
    OBVIOUS
  <2>2. PICK n \in Nat : n = Len(page) /\ DOMAIN page = 1 .. n
    BY <1>1 DEF PageTypes
  <2>3. enc_free \in Seq(Nat) /\ InOnePlace(Held, enc_free, n)
    BY <1>1, <2>2 DEF PageTypes, OnePlace
  <2>4. c \in Seq(Nat) /\ InOnePlace(InChain(c), enc_free, n)
    <3>1. CASE chain # <<>>
      <4>1. c = chain /\ Held = InChain(c)
        BY <2>1, <3>1 DEF Held, InChain
      <4>2. QED
        BY <1>1, <2>3, <4>1 DEF PageTypes
    <3>2. CASE chain = <<>>
      <4>1. c = heads[0] \o heads[1] \o heads[2] \o heads[3] /\ Held = heads /\ heads \in [Sects -> Seq(Nat)]
        BY <1>1, <2>1, <3>2 DEF Held, PageTypes
      <4>2. PICK e : e = [s \in Sects |-> Len(heads[s])]
        OBVIOUS
      <4>3. DOMAIN e = Sects /\ \A s \in Sects : e[s] = Len(heads[s])
        BY <4>2
      <4>4. Chained(heads, e, c)
        BY <4>1, <4>3, FourLists
      <4>5. InOnePlace(heads, enc_free, n)
        BY <2>3, <4>1
      <4>6. InOnePlace(InChain(c), enc_free, n)
        <5>1. enc_free \in Seq(Nat) /\ heads \in [Sects -> Seq(Nat)]
          BY <2>3, <4>1
        <5>2. QED
          BY <4>3, <4>4, <4>5, <5>1, ChainInOnePlace, ZenonT(60)
      <4>7. QED
        BY <4>4, <4>6 DEF Chained
    <3>3. QED
      BY <3>1, <3>2
  <2>5. OneChain(c, enc_free, n)
    BY <2>3, <2>4, ChainAlone
  <2>6. Len(c \o enc_free) = n /\ Range(c \o enc_free) = 1 .. n
    BY <2>3, <2>4, <2>5, AllPages
  <2>7. QED
    BY <2>1, <2>2, <2>6 DEF PagesConserved
<1>5. QED
  BY <1>2, <1>3, <1>4 DEF OutputInOrder

\* The application receives what was made in a window, section after section and
\* each whole, and no page is lost or given away twice, whatever is made and
\* however many pages it takes: the encoder's lists, from allocation in
\* xd3_emit_bytes to the chain of ENC_FLUSH and the cut of xd3_encode_reset.
THEOREM OutputInOrderAlways == Spec => []OutputInOrder
<1>1. Init => OutputInv
  BY OutputInit
<1>2. OutputInv /\ [Next]_vars => OutputInv'
  BY OutputNext
<1>3. OutputInv => OutputInOrder
  BY OutputHolds
<1>4. QED
  BY <1>1, <1>2, <1>3, PTL DEF Spec
=============================================================================
