----------------------------- MODULE EncodeInput -----------------------------
(***************************************************************************)
(* xd3_encode_input: how the encoder cuts its input into windows and hands *)
(* out the pages of output, and the applications that drive it.  An        *)
(* application gives the input in pieces, always in the same buffer, which *)
(* it may overwrite after XD3_INPUT was returned.                          *)
(*                                                                         *)
(* A byte of input is its position.  String matching is abstracted to how  *)
(* often it asks for a source block and how much output it makes in each   *)
(* section; Iopt and SourceCache model what lies behind.                   *)
(***************************************************************************)
EXTENDS Integers, Sequences, SequencesExt, FiniteSets

CONSTANTS
  WinSize,    \* winsize
  MaxPiece,   \* largest piece of input
  Totals,     \* lengths of the input
  Styles,     \* subset of AllStyles: how the application uses the stream
  MaxGets,    \* bound: source blocks asked for in a window
  PageSize,   \* items of output on a page (XD3_ALLOCSIZE)
  Counts      \* items of output that a section may have

\* main: main_input, which reads winsize bytes at a time and sets XD3_FLUSH when
\* a read is short.  memory: xd3_process_stream, XD3_FLUSH from the start.
\* pieces: pieces of any length, XD3_FLUSH with the last one or after it.
\* noflush: an application that never sets XD3_FLUSH.
AllStyles == {"main", "memory", "pieces", "noflush"}

ASSUME EncodeAssumption ==
  /\ {WinSize, MaxPiece, PageSize} \subseteq Nat \ {0}
  /\ Totals \subseteq Nat /\ Styles \subseteq AllStyles
  /\ MaxGets \in Nat /\ Counts \subseteq Nat

Sects == 0 .. 3   \* header, data, instructions, addresses: ENC_SECTS

VARIABLES
  style, total,               \* the application, and the length of its input
  base, given,                \* its buffer holds bytes base + 1 .. given
  flush,                      \* XD3_FLUSH
  enc_state, ret, closed,
  mem, next_in, avail_in,     \* the input: bytes of "app" or "buf" from next_in on
  buf_in, buf_avail,
  buf_leftover, buf_leftavail,\* offset in the application's buffer, or none
  gets,                       \* source blocks asked for in this window
  heads,                      \* pages of each section, or of all of them in heads[0]
  chain, enc_current,         \* pages being output, and the index of the current one
  avail_out,                  \* output that was not consumed
  page,                       \* items on each page that was ever allocated
  enc_free,                   \* pages that are free
  made,                       \* items made in this window, as emitted
  output,                     \* items of this window that were consumed
  current_window, total_in,
  windows                     \* windows finished, as sequences of bytes

appVars  == <<style, total>>
inVars   == <<mem, next_in, avail_in>>
bufVars  == <<buf_in, buf_avail, buf_leftover, buf_leftavail>>
pageVars == <<heads, chain, enc_current, avail_out, page, enc_free, made, output>>
counters == <<current_window, total_in, windows>>
vars == <<appVars, base, given, flush, enc_state, ret, closed, inVars, bufVars, gets,
          pageVars, counters>>

None == -1
Smaller(a, b) == IF a < b THEN a ELSE b
Total4(f) == f[0] + f[1] + f[2] + f[3]
Below(f, s) == Total4([t \in Sects |-> IF t < s THEN f[t] ELSE 0])

\* n bytes from offset i of a buffer, as it is now.
Piece(i, n) == [j \in 1 .. n |-> base + i + j]
Input ==
  IF mem = "app" THEN Piece(next_in, avail_in) ELSE SubSeq(buf_in, next_in + 1, next_in + avail_in)

Running(s) == ret = "RUN" /\ enc_state = s
Return(r, s) == ret' = r /\ enc_state' = s

-----------------------------------------------------------------------------
(* Pages *)

Items(s, n) == [i \in 1 .. n |-> <<current_window, s, i>>]

\* Pages that n items take beyond the first.
Extra(n) == IF n = 0 THEN 0 ELSE (n - 1) \div PageSize

\* xd3_alloc_output, k times: free pages first, then new ones.
Alloc(k) == [i \in 1 .. k |-> IF i <= Len(enc_free) THEN enc_free[i]
                               ELSE Len(page) + i - Len(enc_free)]

\* xd3_emit_bytes: n[s] items are written to section s, which has one page,
\* still empty, on to other pages as they fill up.  The list of each section,
\* and every page, afterwards.
Lists(n) ==
  LET extra == [s \in Sects |-> Extra(n[s])]
      new   == Alloc(Total4(extra))
  IN  [s \in Sects |-> heads[s] \o SubSeq(new, Below(extra, s) + 1, Below(extra, s) + extra[s])]

Emit(n, lists) ==
  LET used   == Total4([s \in Sects |-> Extra(n[s])])
      fresh  == used - Smaller(used, Len(enc_free))
      filled == {f \in Sects \X (1 .. used + 1) : n[f[1]] > 0 /\ f[2] \in DOMAIN lists[f[1]]}
      on(p)  == {f \in filled : lists[f[1]][f[2]] = p}
      items(f) == SubSeq(Items(f[1], n[f[1]]), (f[2] - 1) * PageSize + 1,
                         Smaller(f[2] * PageSize, n[f[1]]))
  IN  /\ page' = [p \in 1 .. Len(page) + fresh |->
                    IF on(p) # {} THEN items(CHOOSE f \in on(p) : TRUE)
                    ELSE IF p <= Len(page) THEN page[p] ELSE <<>>]
      /\ enc_free' = SubSeq(enc_free, used + 1, Len(enc_free))
      /\ made' = [s \in Sects |-> made[s] + n[s]]

-----------------------------------------------------------------------------
(* ENC_INIT, ENC_INPUT *)

outside == <<appVars, base, given, flush, closed>>

EncodeInit ==
  /\ Running("INIT")
  /\ page' = [i \in 1 .. 4 |-> <<>>]
  /\ heads' = [s \in Sects |-> <<s + 1>>]
  /\ Return("RUN", "INPUT")
  /\ UNCHANGED <<outside, inVars, bufVars, gets, chain, enc_current, avail_out, enc_free,
                 made, output, counters>>

\* xd3_avail_input was never called.
NothingYet ==
  /\ Running("INPUT") /\ mem = "none"
  /\ Return("XD3_INPUT", "INPUT")
  /\ UNCHANGED <<outside, inVars, bufVars, gets, pageVars, counters>>

Buffering == buf_leftover # None \/ buf_avail # 0 \/ (avail_in < WinSize /\ ~flush)

\* A window starts with the bytes that are at next_in.
BeginWindow(m, from, n) ==
  /\ mem' = m /\ next_in' = from /\ avail_in' = n
  /\ gets' = 0
  /\ Return("XD3_WINSTART", "SEARCH")

InputReady == Running("INPUT") /\ mem # "none"

UseInput ==
  /\ InputReady /\ ~Buffering
  /\ BeginWindow(mem, next_in, avail_in)
  /\ UNCHANGED <<outside, bufVars, pageVars, counters>>

\* First what was left over from the last piece, then as much of this one as
\* makes a window; the rest of it is left over.
Had == IF buf_leftover # None THEN Piece(buf_leftover, buf_leftavail)
       ELSE SubSeq(buf_in, 1, buf_avail)

Take == Smaller(WinSize - Len(Had), avail_in)

LeftBehindMutantDrop == <<None, buf_leftavail>>

LeftBehind ==
  IF Take < avail_in THEN <<next_in + Take, avail_in - Take>> ELSE <<None, buf_leftavail>>

\* xd3_encode_buffer_leftover
BufferLeftover ==
  /\ InputReady /\ Buffering
  /\ LET all == Had \o SubSeq(Input, 1, Take)
     IN  /\ buf_in' = all
         /\ buf_leftover' = LeftBehind[1] /\ buf_leftavail' = LeftBehind[2]
         /\ IF Take = avail_in /\ Len(all) < WinSize /\ ~flush
              THEN /\ buf_avail' = Len(all)
                   /\ Return("XD3_INPUT", "INPUT")
                   /\ UNCHANGED <<inVars, gets>>
              ELSE buf_avail' = 0 /\ BeginWindow("buf", 0, Len(all))
  /\ UNCHANGED <<outside, pageVars, counters>>

-----------------------------------------------------------------------------
(* ENC_SEARCH, ENC_INSTR, ENC_FLUSH *)

\* Matching is reentrant; it asks for a source block.
SearchGetblk ==
  /\ Running("SEARCH") /\ avail_in > 0 /\ gets < MaxGets
  /\ gets' = gets + 1
  /\ Return("XD3_GETSRCBLK", "SEARCH")
  /\ UNCHANGED <<outside, inVars, bufVars, pageVars, counters>>

\* Matching ends, with n[s] items in each section.  A window without input
\* has no instructions.
Instructions(n) ==
  /\ Running("SEARCH")
  /\ n[0] = 0
  /\ avail_in = 0 <=> \A s \in Sects : n[s] = 0
  /\ LET lists == Lists(n) IN heads' = lists /\ Emit(n, lists)
  /\ Return("RUN", "FLUSH")
  /\ UNCHANGED <<outside, inVars, bufVars, gets, chain, enc_current, avail_out, output, counters>>

\* The window header is written last; then the sections are chained together
\* and the first page is output.
FlushHeader(n) ==
  /\ Running("FLUSH") /\ n > 0
  /\ LET items == [s \in Sects |-> IF s = 0 THEN n ELSE 0]
         lists == Lists(items)
     IN  /\ Emit(items, lists)
         /\ chain' = lists[0] \o lists[1] \o lists[2] \o lists[3]
         /\ heads' = [s \in Sects |-> IF s = 0 THEN lists[0] ELSE <<>>]
         /\ enc_current' = 1
         /\ avail_out' = page'[chain'[1]]
  /\ Return("XD3_OUTPUT", "POSTOUT")
  /\ UNCHANGED <<outside, inVars, bufVars, gets, output, current_window, total_in, windows>>

-----------------------------------------------------------------------------
(* ENC_POSTOUT, ENC_POSTWIN *)

PostOutMutantSame ==
  /\ Running("POSTOUT")
  /\ LET next == enc_current + 1
     IN  IF next <= Len(chain)
           THEN /\ enc_current' = enc_current
                /\ avail_out' = page[chain[next]]
                /\ Return(IF avail_out' = <<>> THEN "RUN" ELSE "XD3_OUTPUT", "POSTOUT")
                /\ UNCHANGED <<total_in, windows>>
           ELSE /\ total_in' = total_in + avail_in
                /\ windows' = Append(windows, Input)
                /\ Return("XD3_WINFINISH", "POSTWIN")
                /\ UNCHANGED <<enc_current, avail_out>>
  /\ UNCHANGED <<outside, inVars, bufVars, gets, heads, chain, page, enc_free, made, output,
                 current_window>>

\* One page at a time; an empty one is not output.
PostOut ==
  /\ Running("POSTOUT")
  /\ LET next == enc_current + 1
     IN  IF next <= Len(chain)
           THEN /\ enc_current' = next
                /\ avail_out' = page[chain[next]]
                /\ Return(IF avail_out' = <<>> THEN "RUN" ELSE "XD3_OUTPUT", "POSTOUT")
                /\ UNCHANGED <<total_in, windows>>
           ELSE /\ total_in' = total_in + avail_in
                /\ windows' = Append(windows, Input)
                /\ Return("XD3_WINFINISH", "POSTWIN")
                /\ UNCHANGED <<enc_current, avail_out>>
  /\ UNCHANGED <<outside, inVars, bufVars, gets, heads, chain, page, enc_free, made, output,
                 current_window>>

ResetMutantLeak ==
  /\ avail_in' = 0 /\ gets' = 0
  /\ heads' = [s \in Sects |-> <<chain[s + 1]>>]
  /\ page' = [p \in DOMAIN page |-> <<>>]
  /\ enc_free' = Reverse(SubSeq(chain, 6, Len(chain))) \o enc_free
  /\ chain' = <<>> /\ enc_current' = 0
  /\ made' = [s \in Sects |-> 0] /\ output' = <<>>
  /\ current_window' = current_window + 1

\* xd3_encode_reset: the first pages of the chain become the sections of the
\* next window, whichever section they were in, and the rest are freed.
Reset ==
  /\ avail_in' = 0 /\ gets' = 0
  /\ heads' = [s \in Sects |-> <<chain[s + 1]>>]
  /\ page' = [p \in DOMAIN page |-> <<>>]
  /\ enc_free' = Reverse(SubSeq(chain, 5, Len(chain))) \o enc_free
  /\ chain' = <<>> /\ enc_current' = 0
  /\ made' = [s \in Sects |-> 0] /\ output' = <<>>
  /\ current_window' = current_window + 1

\* Input that was left over is encoded next.
PostWin ==
  /\ Running("POSTWIN")
  /\ Reset
  /\ Return(IF buf_leftover # None THEN "RUN" ELSE "XD3_INPUT", "INPUT")
  /\ UNCHANGED <<outside, mem, next_in, bufVars, avail_out, total_in, windows>>

Encode ==
  \/ EncodeInit \/ NothingYet \/ UseInput \/ BufferLeftover
  \/ SearchGetblk
  \/ \E n \in [Sects -> Counts] : Instructions(n)
  \/ \E n \in Counts : FlushHeader(n)
  \/ PostOut \/ PostWin

-----------------------------------------------------------------------------
(* The application *)

Open == closed = "open"
stream == <<enc_state, bufVars, gets, heads, chain, enc_current, page, enc_free, made, counters>>

\* The lengths that a style may hand over next, and whether it sets XD3_FLUSH.
Left == total - given
Hands(n, f) ==
  /\ n <= Left
  /\ flush => f
  /\ CASE style = "main"    -> n = Smaller(WinSize, Left) /\ (f <=> n < WinSize)
       [] style = "memory"  -> n = Smaller(WinSize, Left) /\ f
       [] style = "pieces"  -> n <= MaxPiece /\ (f => n = Left)
       [] style = "noflush" -> n \in 1 .. MaxPiece /\ ~f
  /\ n = 0 => \/ style = "pieces" /\ f /\ ~flush
              \/ style \in {"main", "memory"} /\ mem = "none"

\* xd3_avail_input.  xd3_process_stream calls it before the first
\* xd3_encode_input; so does main_input.
AvailInput(n, f) ==
  /\ Open
  /\ ret = "XD3_INPUT" \/ (enc_state = "INIT" /\ mem = "none")
  /\ Hands(n, f)
  /\ base' = given /\ given' = given + n /\ flush' = f
  /\ mem' = "app" /\ next_in' = 0 /\ avail_in' = n
  /\ ret' = "RUN"
  /\ UNCHANGED <<appVars, closed, stream, avail_out, output>>

\* The call for a notification or a source block is repeated.
Again ==
  /\ Open /\ ret \in {"XD3_WINSTART", "XD3_GETSRCBLK", "XD3_WINFINISH"}
  /\ ret' = "RUN"
  /\ UNCHANGED <<outside, stream, inVars, avail_out, output>>

ConsumeOutput ==
  /\ Open /\ ret = "XD3_OUTPUT"
  /\ output' = output \o avail_out /\ avail_out' = <<>>
  /\ ret' = "RUN"
  /\ UNCHANGED <<outside, stream, inVars>>

\* xd3_close_stream
CloseStream ==
  CASE enc_state = "INIT"    -> "OK"
    [] buf_leftover # None   -> "XD3_INTERNAL"
    [] enc_state = "POSTWIN" -> "OK"
    [] OTHER -> IF enc_state = "INPUT" /\ avail_in = 0 THEN "OK" ELSE "XD3_INTERNAL"

\* At the end of the input, when the encoder has no more work; an application
\* that knows its last window may also close at XD3_WINFINISH, and then closing
\* resets the encoder.  main_input also breaks off when it reads nothing after a
\* window.
Close ==
  /\ Open /\ given = total /\ mem # "none"
  /\ \/ ret = "XD3_INPUT" /\ (flush \/ style = "noflush" \/ (style = "main" /\ current_window > 0))
     \/ ret = "XD3_WINFINISH" /\ flush /\ style = "pieces"
  /\ closed' = CloseStream
  /\ IF enc_state = "POSTWIN" /\ buf_leftover = None
       THEN /\ Reset /\ enc_state' = "INPUT"
            /\ UNCHANGED <<mem, next_in, bufVars, avail_out, total_in, windows>>
       ELSE UNCHANGED <<stream, inVars, avail_out, output>>
  /\ UNCHANGED <<appVars, base, given, flush, ret>>

Application ==
  \/ \E n \in 0 .. MaxPiece, f \in BOOLEAN : AvailInput(n, f)
  \/ Again \/ ConsumeOutput \/ Close

Stopped == ~Open /\ UNCHANGED vars

Init ==
  /\ style \in Styles /\ total \in Totals
  /\ base = 0 /\ given = 0 /\ flush = FALSE
  /\ enc_state = "INIT" /\ ret = "RUN" /\ closed = "open"
  /\ mem = "none" /\ next_in = 0 /\ avail_in = 0
  /\ buf_in = <<>> /\ buf_avail = 0 /\ buf_leftover = None /\ buf_leftavail = 0
  /\ gets = 0
  /\ heads = [s \in Sects |-> <<>>] /\ chain = <<>> /\ enc_current = 0 /\ avail_out = <<>>
  /\ page = <<>> /\ enc_free = <<>> /\ made = [s \in Sects |-> 0] /\ output = <<>>
  /\ current_window = 0 /\ total_in = 0 /\ windows = <<>>

Next == Encode \/ Application \/ Stopped

Spec == Init /\ [][Next]_vars

\* The call returns, and the application goes on until it closes the stream.
FairSpec == Spec /\ WF_vars(Encode) /\ WF_vars(Application)

-----------------------------------------------------------------------------
(* Properties *)

\* Types, and the sizes of the buffers.
TypeOK ==
  /\ style \in AllStyles /\ total \in Nat /\ given \in 0 .. total /\ base \in 0 .. given
  /\ flush \in BOOLEAN
  /\ enc_state \in {"INIT", "INPUT", "SEARCH", "FLUSH", "POSTOUT", "POSTWIN"}
  /\ ret \in {"RUN", "XD3_INPUT", "XD3_WINSTART", "XD3_GETSRCBLK", "XD3_OUTPUT", "XD3_WINFINISH"}
  /\ closed \in {"open", "OK", "XD3_INTERNAL"} /\ mem \in {"none", "app", "buf"}
  /\ next_in \in Nat /\ avail_in \in Nat /\ buf_avail \in Nat /\ buf_leftavail \in Nat
  /\ total_in \in Nat /\ windows \in Seq(Seq(Nat))
  /\ buf_in \in Seq(Nat) /\ Len(buf_in) <= WinSize /\ buf_avail <= Len(buf_in)
  /\ buf_leftover \in {None} \cup 0 .. given - base

\* From the start of a window to its end, whatever the application does while
\* it looks for source blocks or consumes output, the encoder sees the bytes
\* that follow those of the windows before, none missing and none repeated.
WindowTrue ==
  enc_state \in {"SEARCH", "FLUSH", "POSTOUT"} =>
    Input = [i \in 1 .. avail_in |-> total_in + i]

\* When XD3_INPUT is returned the application may overwrite its buffer: all that
\* it gave is encoded or in the encoder's own buffer.
NothingLost ==
  (ret = "XD3_INPUT" /\ closed = "open") =>
    /\ given = total_in + buf_avail /\ buf_leftover = None
    /\ SubSeq(buf_in, 1, buf_avail) = [i \in 1 .. buf_avail |-> total_in + i]

\* "the library will create a window-sized buffer and accumulate input until a
\* full-sized window can be encoded": only flushing makes a smaller window, and
\* only the last one.
FullWindows ==
  \A i \in DOMAIN windows :
    Len(windows[i]) # WinSize =>
      i = Len(windows) /\ flush /\ total_in = total /\ Len(windows[i]) < WinSize

\* The input is encoded as it was given, in full windows, and is the encoder's own
\* whenever the application may overwrite it.
InputKept == TypeOK /\ WindowTrue /\ NothingLost /\ FullWindows

\* What keeps InputKept: where the bytes that were given are, by what the encoder
\* does next.  A piece that was given follows what is buffered; what was left over
\* follows the window.
Windowing == enc_state \in {"SEARCH", "FLUSH", "POSTOUT"}
Leftover  == IF buf_leftover = None THEN 0 ELSE buf_leftavail
Given     == enc_state \in {"INIT", "INPUT"} /\ ret = "RUN" /\ mem # "none"

Accounted ==
  /\ mem = "none" => given = 0 /\ total_in = 0 /\ buf_avail = 0 /\ buf_leftover = None
  /\ mem = "none" => enc_state \in {"INIT", "INPUT"} /\ ret \in {"RUN", "XD3_INPUT"} /\ windows = <<>>
  /\ Given /\ buf_leftover = None =>
       /\ mem = "app" /\ next_in = 0 /\ avail_in <= WinSize
       /\ total_in + buf_avail = base /\ base + avail_in = given
  /\ Given /\ buf_leftover # None =>
       avail_in = 0 /\ base + buf_leftover = total_in /\ total_in + buf_leftavail = given
  /\ Windowing =>
       /\ avail_in <= WinSize /\ total_in + avail_in + Leftover = given
       /\ buf_leftover # None => base + buf_leftover = total_in + avail_in
  /\ enc_state = "POSTWIN" =>
       /\ total_in + Leftover = given
       /\ buf_leftover # None => base + buf_leftover = total_in
  /\ Windowing \/ enc_state = "POSTWIN" \/ buf_leftover # None => buf_avail = 0
  /\ buf_leftover # None => buf_leftavail \in 1 .. WinSize - 1
  /\ buf_avail < WinSize /\ \A i \in 1 .. buf_avail : buf_in[i] = total_in + i

\* What is returned in each state of the encoder.
Returns ==
  /\ enc_state = "INIT" =>
       ret = "RUN" /\ mem # "buf" /\ buf_leftover = None /\ buf_avail = 0 /\ windows = <<>>
  /\ enc_state = "INPUT" /\ closed = "open" => ret \in {"RUN", "XD3_INPUT"}
  /\ Windowing => ret \notin {"XD3_INPUT", "XD3_WINFINISH"}
  /\ enc_state = "POSTWIN" => ret \in {"RUN", "XD3_WINFINISH"}
  /\ closed # "open" => enc_state \in {"INPUT", "POSTWIN"} /\ ret # "RUN"

\* XD3_FLUSH comes with the last of the input, or each call gives a whole window.
Flushing ==
  /\ flush => given = total \/ style = "memory"
  /\ style = "memory" => buf_leftover = None /\ buf_avail = 0 /\ (mem # "none" => flush)
  /\ style = "memory" /\ Given => avail_in = WinSize \/ given = total
  /\ Windowing /\ avail_in # WinSize => flush /\ total_in + avail_in = total

\* After a small window nothing more is encoded.
Short == \E i \in 1 .. Len(windows) : Len(windows[i]) # WinSize
ShortIsLast == Short => ~Windowing /\ (enc_state = "INPUT" => ret # "RUN")

InputInv ==
  TypeOK /\ Accounted /\ Returns /\ Flushing /\ ShortIsLast /\ WindowTrue /\ NothingLost /\ FullWindows

\* XD3_ASSERT(stream->buf_leftavail < stream->winsize) of
\* xd3_encode_buffer_leftover.  It does not hold when a piece larger than a window
\* follows a shorter one, MaxPiece > WinSize (README, section 5).
LeftoverFits == buf_leftover # None => buf_leftavail < WinSize

\* A page takes no more than its size, and the sections are lists of pages.
PagesFit ==
  /\ \A p \in DOMAIN page : Len(page[p]) <= PageSize
  /\ \A s \in Sects : Range(heads[s]) \subseteq DOMAIN page

\* No page is lost or in two lists, though the lists of four sections are
\* chained into one and cut again at other places.
PagesConserved ==
  enc_state # "INIT" =>
    LET lists == (IF chain # <<>> THEN chain ELSE heads[0] \o heads[1] \o heads[2] \o heads[3])
                   \o enc_free
    IN  Len(lists) = Len(page) /\ Range(lists) = DOMAIN page

\* What is made in a window, in the order in which it is to be output.
Made(s) == Items(s, made[s])
AllMade == Made(0) \o Made(1) \o Made(2) \o Made(3)

\* The application receives the window header, the data, the instructions and
\* the addresses, each whole, in this order, and no page is lost on the way.
OutputInOrder ==
  /\ ret = "XD3_WINFINISH" => output = AllMade
  /\ PagesFit /\ PagesConserved

\* What keeps OutputInOrder.  Each of the pages 1 .. n is in one list, of a
\* section or the free one, and at one place there.
InOnePlace(h, f, n) ==
  /\ \A s \in Sects : \A i \in 1 .. Len(h[s]) : h[s][i] \in 1 .. n
  /\ \A i \in 1 .. Len(f) : f[i] \in 1 .. n
  /\ \A s, t \in Sects : \A i \in 1 .. Len(h[s]), j \in 1 .. Len(h[t]) :
       h[s][i] = h[t][j] => s = t /\ i = j
  /\ \A s \in Sects : \A i \in 1 .. Len(h[s]), j \in 1 .. Len(f) : h[s][i] # f[j]
  /\ \A i, j \in 1 .. Len(f) : f[i] = f[j] => i = j
  /\ \A p \in 1 .. n : \/ \E s \in Sects : \E i \in 1 .. Len(h[s]) : h[s][i] = p
                       \/ \E i \in 1 .. Len(f) : f[i] = p
  /\ n = Len(h[0]) + Len(h[1]) + Len(h[2]) + Len(h[3]) + Len(f)

Held == IF chain = <<>> THEN heads ELSE [s \in Sects |-> IF s = 0 THEN chain ELSE <<>>]
OnePlace == InOnePlace(Held, enc_free, Len(page))

\* Page j of section s, and the pages that the section has.
PageOf(s, j) == SubSeq(Made(s), (j - 1) * PageSize + 1, Smaller(j * PageSize, made[s]))
Sizes == [s \in Sects |-> 1 + Extra(made[s])]

\* The pages of each section hold what was made for it, also in the chain.
PagesTrue ==
  /\ enc_state \in {"INPUT", "SEARCH", "FLUSH"} =>
       \A s \in Sects : /\ Len(heads[s]) = Sizes[s]
                        /\ \A j \in 1 .. Sizes[s] : page[heads[s][j]] = PageOf(s, j)
  /\ enc_state \in {"POSTOUT", "POSTWIN"} =>
       /\ Len(chain) = Total4(Sizes)
       /\ \A s \in Sects : \A j \in 1 .. Sizes[s] : page[chain[Below(Sizes, s) + j]] = PageOf(s, j)

\* What was output, with the page that is being output, are the pages up to it.
Earlier(s) == IF s = 0 THEN <<>> ELSE IF s = 1 THEN Made(0)
              ELSE IF s = 2 THEN Made(0) \o Made(1) ELSE Made(0) \o Made(1) \o Made(2)
OutputTrue ==
  /\ enc_state \in {"INIT", "INPUT", "SEARCH", "FLUSH"} => output = <<>> /\ avail_out = <<>>
  /\ enc_state = "POSTOUT" =>
       \E s \in Sects : \E j \in 1 .. Sizes[s] :
         /\ enc_current = Below(Sizes, s) + j
         /\ output \o avail_out = Earlier(s) \o SubSeq(Made(s), 1, Smaller(j * PageSize, made[s]))
  /\ enc_state = "POSTWIN" => output = AllMade /\ avail_out = <<>>
  /\ ret # "XD3_OUTPUT" => avail_out = <<>>

\* When each list is in use.
Stages ==
  /\ enc_state \in {"INIT", "INPUT", "SEARCH", "FLUSH", "POSTOUT", "POSTWIN"}
  /\ enc_state = "INIT" => page = <<>> /\ heads = [s \in Sects |-> <<>>] /\ enc_free = <<>>
  /\ enc_state \in {"INIT", "INPUT", "SEARCH"} => made = [s \in Sects |-> 0]
  /\ enc_state = "FLUSH" => made[0] = 0
  /\ chain # <<>> <=> enc_state \in {"POSTOUT", "POSTWIN"}
  /\ ret = "XD3_INPUT" => enc_state = "INPUT"
  /\ ret = "XD3_OUTPUT" => enc_state = "POSTOUT"
  /\ ret = "XD3_WINFINISH" => enc_state \in {"POSTWIN", "INPUT"}

Item == Nat \X Sects \X Nat
PageTypes ==
  /\ heads \in [Sects -> Seq(Nat)] /\ chain \in Seq(Nat) /\ enc_free \in Seq(Nat)
  /\ page \in Seq(Seq(Item)) /\ made \in [Sects -> Nat]
  /\ output \in Seq(Item) /\ avail_out \in Seq(Item)
  /\ current_window \in Nat /\ enc_current \in Nat
  /\ \A s \in Sects : \A i \in 1 .. Len(heads[s]) : heads[s][i] \in 1 .. Len(page)
  /\ \A p \in 1 .. Len(page) : Len(page[p]) <= PageSize

OutputInv == PageTypes /\ Stages /\ OnePlace /\ PagesTrue /\ OutputTrue

\* To an application that set XD3_FLUSH, or that gives whole windows only, closing
\* the stream tells whether all of its input is encoded.
ClosedWhole == closed # "open" => (closed = "OK" <=> total_in = total)

\* xd3_close_stream checks that "the encoder is flushed".  It does not hold of the
\* style "noflush" (README, section 5).
ClosedIsFlushed == closed = "OK" => total_in = total

\* Encoding ends, and closing tells whether all of the input is encoded.
Ended == <>(closed # "open" /\ ClosedWhole)
=============================================================================
