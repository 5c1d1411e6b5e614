----------------------------- MODULE DecodeInput -----------------------------
(***************************************************************************)
(* xd3_decode_input and the application that drives it (the loop of        *)
(* main_input, or any other that follows xdelta3.h).  The application      *)
(* hands the delta over in pieces of any size, always in the same buffer,  *)
(* so that a new piece overwrites the one before; it answers               *)
(* XD3_GETSRCBLK, consumes output and closes the stream at the end of the  *)
(* file, which may be truncated.                                           *)
(*                                                                         *)
(* One action is one state of the decoder, or one turn of a loop inside a  *)
(* state; ret = "RUN" while a call of xd3_decode_input is under way.       *)
(* Secondary compression of sections, VCD_TARGET and code tables in the    *)
(* delta are outside the model, as the deltas of Vcdiff use none of them.  *)
(***************************************************************************)
EXTENDS Vcdiff, FiniteSets

CONSTANTS
  MaxPiece,   \* largest piece of input
  BlkSize,    \* source->blksize
  SourceLen,  \* length of the source the deltas were made from
  ShortLen,   \* length of a source that is too short
  Modes,      \* subset of AllModes: what the stream was configured for
  MaySkip,    \* the application may set XD3_SKIP_WINDOW
  Truncated   \* the modes in which the file may end anywhere

\* decode; nover: XD3_ADLER32_NOVER; header: XD3_JUST_HDR; headers:
\* XD3_SKIP_WINDOW; sections: XD3_SKIP_EMIT
AllModes == {"decode", "nover", "header", "headers", "sections"}

ASSUME DecodeAssumption ==
  /\ {MaxPiece, BlkSize} \subseteq Nat \ {0}
  /\ SourceLen \in Nat /\ ShortLen \in 0 .. SourceLen
  /\ Modes \subseteq AllModes /\ Truncated \subseteq Modes /\ MaySkip \in BOOLEAN

VARIABLES
  delta, source, mode,   \* the delta, the source and the flags
  length,                \* bytes of the file that the application can read
  base,                  \* file offset of the first byte of the piece
  next_in, avail_in,     \* next_in: an offset in the piece
  ret, closed,           \* last result; result of xd3_close_stream, or "open"
  skip,                  \* XD3_SKIP_WINDOW
  dec_state,
  part,                  \* dec_32part and dec_64part
  got,                   \* dec_magicbytes, dec_appheadbytes, dec_cksumbytes
  field,                 \* value of each field that was decoded
  sect,                  \* data_sect, inst_sect and addr_sect
  dec_winbytes, dec_position, dec_winstart, dec_window_count, current_window,
  current,               \* dec_current1 and dec_current2
  out,                   \* next_out[0 .. avail_out)
  getblkno, curblkno,    \* source block requested and present
  done                   \* windows the application consumed

scenario == <<delta, source, mode, length>>
input    == <<base, next_in, avail_in>>
parsed   == <<part, got, field, dec_winstart, current_window>>
progress == <<sect, dec_winbytes, dec_position, current, out>>
app      == <<closed, skip, done>>
vars == <<scenario, input, ret, app, dec_state, parsed, progress, dec_window_count,
          getblkno, curblkno>>

Smaller(a, b) == IF a < b THEN a ELSE b

\* The byte at offset i of the application's buffer, as it is now.
InPiece(i) == delta.file[base + i + 1]
total_in   == base + next_in

Consume(n) ==
  /\ next_in' = next_in + n /\ avail_in' = avail_in - n
  /\ UNCHANGED base

-----------------------------------------------------------------------------
(* The fields of the file and window headers *)

ByteFields == {"HDRIND", "SECONDID", "WININD", "DELIND"}
SizeFields == {"APPLEN", "CPYLEN", "CPYOFF", "ENCLEN", "TGTLEN", "DATALEN", "INSTLEN", "ADDRLEN"}
RunFields  == {"VCHEAD", "APPDAT", "CKSUM"}
Fields     == ByteFields \cup SizeFields \cup RunFields

After ==
  [VCHEAD |-> "HDRIND", HDRIND |-> "SECONDID", SECONDID |-> "APPLEN", APPLEN |-> "APPDAT",
   APPDAT |-> "WININD", WININD |-> "CPYLEN", CPYLEN |-> "CPYOFF", CPYOFF |-> "ENCLEN",
   ENCLEN |-> "TGTLEN", TGTLEN |-> "DELIND", DELIND |-> "DATALEN", DATALEN |-> "INSTLEN",
   INSTLEN |-> "ADDRLEN", ADDRLEN |-> "CKSUM", CKSUM |-> "DATA"]

Present(f) ==
  CASE f = "SECONDID"            -> Has(field["HDRIND"], VCD_SECONDARY)
    [] f \in {"APPLEN", "APPDAT"} -> Has(field["HDRIND"], VCD_APPHEADER)
    [] f \in {"CPYLEN", "CPYOFF"} -> Has(field["WININD"], VCD_SOURCE)
    [] f = "CKSUM"               -> Has(field["WININD"], VCD_ADLER32)
    [] OTHER                     -> TRUE

RunLen(f) == IF f = "APPDAT" THEN field["APPLEN"] ELSE 4

\* The redundant length of the delta encoding is checked.
EnclenOk ==
  field["ENCLEN"] = 1 + Len(Digits(field["TGTLEN"])) + Len(Digits(field["DATALEN"]))
                      + Len(Digits(field["INSTLEN"])) + Len(Digits(field["ADDRLEN"]))
                      + field["DATALEN"] + field["INSTLEN"] + field["ADDRLEN"]
                      + (IF Present("CKSUM") THEN 4 ELSE 0)

\* The decoder leaves the state of field f; after the last one it returns, to
\* give the application a chance to inspect the header or skip the window.
Leave(f) ==
  /\ dec_state' = After[f]
  /\ ret' = IF f # "CKSUM" THEN "RUN"
            ELSE IF ~EnclenOk THEN "XD3_INVALID_INPUT"
            ELSE IF current_window = 0 THEN "XD3_GOTHEADER" ELSE "XD3_WINSTART"

StartWindowMutantSkip ==
  /\ dec_winstart' = IF skip THEN dec_winstart ELSE dec_winstart + field["TGTLEN"]
  /\ current_window' = dec_window_count
  /\ got' = [got EXCEPT !["CKSUM"] = 0]

\* A window starts: what DEC_WININD and xd3_decode_init_window reset.  The
\* length of the previous window is added here and not before.
StartWindow ==
  /\ dec_winstart' = dec_winstart + field["TGTLEN"]
  /\ current_window' = dec_window_count
  /\ got' = [got EXCEPT !["CKSUM"] = 0]

Store(f, v) ==
  field' = [g \in Fields |-> IF g = f THEN v
                             ELSE IF f = "WININD" /\ g \in {"CPYLEN", "CPYOFF"} THEN 0
                             ELSE field[g]]

Reading(kinds) == ret = "RUN" /\ dec_state \in kinds
Input(f)       == Reading({f}) /\ Present(f) /\ avail_in > 0

\* dec_position is set once the length of the source segment is known.
Position(f, v) ==
  dec_position' = IF f = "CPYLEN" THEN v ELSE dec_position

frame == <<scenario, app, sect, dec_winbytes, current, out, dec_window_count,
           getblkno, curblkno>>

Absent(f) ==
  /\ Reading({f}) /\ ~Present(f)
  /\ Leave(f)
  /\ Position(f, field["CPYLEN"])
  /\ UNCHANGED <<frame, input, parsed>>

ReadByte(f) ==
  /\ Input(f)
  /\ Consume(1)
  /\ Store(f, InPiece(next_in).n)
  /\ Leave(f)
  /\ IF f = "WININD" THEN StartWindow ELSE UNCHANGED <<dec_winstart, current_window, got>>
  /\ UNCHANGED <<frame, part, dec_position>>

\* One byte of a variable-length integer; what was read so far survives the
\* return for more input.
ReadSize(f) ==
  /\ Input(f)
  /\ Consume(1)
  /\ LET n    == InPiece(next_in).n
         last == n < Base
         v    == part * Base + (IF last THEN n ELSE n - Base)
     IN  /\ part' = IF last THEN 0 ELSE v
         /\ IF last THEN Store(f, v) /\ Leave(f) /\ Position(f, v)
            ELSE UNCHANGED <<field, dec_state, ret, dec_position>>
  /\ UNCHANGED <<frame, got, dec_winstart, current_window>>

\* xd3_decode_bytes takes what there is.
ReadRun(f) ==
  /\ Input(f) /\ got[f] < RunLen(f)
  /\ LET take == Smaller(RunLen(f) - got[f], avail_in)
     IN  /\ Consume(take)
         /\ got' = [got EXCEPT ![f] = @ + take]
         /\ Store(f, InPiece(next_in).n)
  /\ UNCHANGED <<frame, ret, dec_state, part, dec_winstart, current_window, dec_position>>

EndRun(f) ==
  /\ Reading({f}) /\ Present(f) /\ got[f] = RunLen(f)
  /\ Leave(f)
  /\ UNCHANGED <<frame, input, parsed, dec_position>>

\* Every read of a header field returns XD3_INPUT when nothing is left.
NeedInput ==
  /\ Reading(Fields) /\ Present(dec_state) /\ avail_in = 0
  /\ dec_state \in RunFields => got[dec_state] < RunLen(dec_state)
  /\ ret' = "XD3_INPUT"
  /\ UNCHANGED <<frame, dec_state, input, parsed, dec_position>>

ReadField ==
  \/ NeedInput
  \/ \E f \in Fields     : Absent(f)
  \/ \E f \in ByteFields : ReadByte(f)
  \/ \E f \in SizeFields : ReadSize(f)
  \/ \E f \in RunFields  : ReadRun(f) \/ EndRun(f)

-----------------------------------------------------------------------------
(* The sections.  A section that is there entirely is used where it lies,  *)
(* in the application's buffer: [zero |-> TRUE, off |-> its offset there]. *)
(* Otherwise it is collected in copied.                                    *)

NoSection == [pos |-> 0, zero |-> FALSE, off |-> 0, copied |-> <<>>, buf |-> 0, max |-> 0]
Sections  == {"DATA", "INST", "ADDR"}
LenField  == [DATA |-> "DATALEN", INST |-> "INSTLEN", ADDR |-> "ADDRLEN"]
NextState == [DATA |-> "INST", INST |-> "ADDR", ADDR |-> "EMIT"]

SectSize(s) == field[LenField[s]]
Needed      == field["DATALEN"] + field["INSTLEN"] + field["ADDRLEN"]
StillNeeded == Needed - dec_winbytes
Copying     == avail_in < StillNeeded

InSections == ret = "RUN" /\ dec_state \in Sections
rest == <<scenario, app, parsed, getblkno, curblkno, dec_window_count>>

\* Byte i of a section, i < max, as memory is now.
At(s, i) == IF sect[s].zero THEN InPiece(sect[s].off + i) ELSE sect[s].copied[i + 1]

FinishWindow ==
  /\ dec_winbytes' = 0
  /\ dec_state' = "FINISH" /\ ret' = "XD3_OUTPUT"

JustHeader ==
  /\ InSections /\ mode = "header"
  /\ FinishWindow
  /\ sect' = [s \in Sections |-> [sect[s] EXCEPT !.pos = 0]]
  /\ UNCHANGED <<rest, input, dec_position, current, out>>

SkipSections ==
  /\ InSections /\ mode # "header" /\ skip
  /\ Consume(Smaller(StillNeeded, avail_in))
  /\ IF Copying
       THEN /\ dec_winbytes' = dec_winbytes + avail_in
            /\ ret' = "XD3_INPUT" /\ UNCHANGED <<dec_state, sect>>
       ELSE FinishWindow /\ sect' = [s \in Sections |-> [sect[s] EXCEPT !.pos = 0]]
  /\ UNCHANGED <<rest, dec_position, current, out>>

\* xd3_decode_section: the section after more input, and how much was taken.
Take(s) ==
  IF sect[s].pos = SectSize(s) THEN 0
  ELSE IF ~Copying /\ sect[s].pos = 0 THEN SectSize(s)
  ELSE Smaller(SectSize(s) - sect[s].pos, avail_in)

TakenMutantZero(s) ==
  LET t == sect[s]
      more == [i \in 1 .. Take(s) |-> InPiece(next_in + i - 1)]
  IN  IF t.pos = 0 /\ Take(s) > 0
        THEN [t EXCEPT !.zero = Take(s) = SectSize(s), !.off = next_in, !.pos = Take(s),
                       !.copied = IF Take(s) = SectSize(s) THEN <<>> ELSE more]
        ELSE [t EXCEPT !.copied = @ \o more, !.pos = @ + Take(s)]

Taken(s) ==
  LET t == sect[s]
      more == [i \in 1 .. Take(s) |-> InPiece(next_in + i - 1)]
  IN  IF Take(s) = 0 THEN t
      ELSE IF ~Copying /\ t.pos = 0
        THEN [t EXCEPT !.zero = TRUE, !.off = next_in, !.copied = <<>>, !.pos = Take(s)]
      ELSE [t EXCEPT !.zero = FALSE, !.pos = @ + Take(s),
                     !.copied = IF t.pos = 0 THEN more ELSE @ \o more]

ReadSection(s) ==
  /\ InSections /\ dec_state = s
  /\ mode # "header" /\ ~skip
  /\ Consume(Take(s))
  /\ LET whole == Taken(s).pos = SectSize(s)
     IN  /\ sect' = [sect EXCEPT ![s] =
              IF whole THEN [Taken(s) EXCEPT !.pos = 0, !.buf = 0, !.max = SectSize(s)]
              ELSE Taken(s)]
         /\ IF whole /\ s = "ADDR" /\ mode = "sections" THEN FinishWindow
            ELSE /\ dec_winbytes' = dec_winbytes + Take(s)
                 /\ dec_state' = IF whole THEN NextState[s] ELSE s
                 /\ ret' = IF whole THEN "RUN" ELSE "XD3_INPUT"
  /\ UNCHANGED <<rest, dec_position, current, out>>

ReadSections == JustHeader \/ SkipSections \/ \E s \in Sections : ReadSection(s)

-----------------------------------------------------------------------------
(* Emission *)

Emitting == ret = "RUN" /\ dec_state = "EMIT"
still == <<scenario, app, input, parsed, dec_window_count>>

NeedsSource == Has(field["WININD"], VCD_SOURCE)
SrcLen == IF source = "short" THEN ShortLen ELSE SourceLen
BytesOn(blkno) == Smaller(BlkSize, IF blkno * BlkSize > SrcLen THEN 0 ELSE SrcLen - blkno * BlkSize)

Fail == ret' = "XD3_INVALID_INPUT"

NoSource ==
  /\ Emitting /\ NeedsSource /\ source = "none"
  /\ Fail
  /\ UNCHANGED <<still, progress, dec_state, getblkno, curblkno>>

Ready == Emitting /\ (NeedsSource => source # "none")
Idle  == current = NoOp

\* Where parsing stands: cursors of the two sections, position, and success.
\* xd3_read_size returns the value and how many bytes it took; 0 if the
\* section ends first.
ReadLen(s, i) ==
  LET ends == {j \in i .. sect[s].max - 1 : At(s, j).n < Base}
  IN  IF ends = {} THEN 0 ELSE (CHOOSE j \in ends : \A k \in ends : j <= k) - i + 1

ReadVal(s, i) ==
  FoldLeft(LAMBDA v, j : v * Base + (At(s, j).n % Base), 0, [j \in 1 .. ReadLen(s, i) |-> i + j - 1])

\* xd3_decode_parse_halfinst
Parse(p, h) ==
  IF h.type = "NOOP" THEN [p EXCEPT !.done = Append(@, h)]
  ELSE
    LET sized == h.size # 0
        isz   == IF sized THEN 0 ELSE ReadLen("INST", p.inst)
        size  == IF sized THEN h.size ELSE ReadVal("INST", p.inst)
        copy  == h.type = "CPY"
        asz   == IF copy THEN ReadLen("ADDR", p.addr) ELSE 0
        addr  == IF copy THEN ReadVal("ADDR", p.addr) ELSE 0
    IN  [inst |-> p.inst + isz, addr |-> p.addr + asz, position |-> p.position + size,
         done |-> Append(p.done, [type |-> h.type, size |-> size, addr |-> addr, coded |-> FALSE]),
         ok   |-> /\ p.ok
                  /\ ~sized => isz > 0
                  /\ copy => /\ asz > 0
                             /\ addr < p.position
                             /\ addr < field["CPYLEN"] => addr + size <= field["CPYLEN"]
                  /\ p.position + size <= field["CPYLEN"] + field["TGTLEN"]]

\* xd3_decode_instruction: an opcode, and both its halves.
Instruction ==
  /\ Ready /\ Idle /\ sect["INST"].buf < sect["INST"].max
  /\ LET op == At("INST", sect["INST"].buf).op
         p  == Parse(Parse([inst |-> sect["INST"].buf + 1, addr |-> sect["ADDR"].buf,
                            position |-> dec_position, done |-> <<>>, ok |-> TRUE], op[1]), op[2])
     IN  IF p.ok
           THEN /\ sect' = [sect EXCEPT !["INST"].buf = p.inst, !["ADDR"].buf = p.addr]
                /\ dec_position' = p.position
                /\ current' = p.done
                /\ UNCHANGED ret
           ELSE Fail /\ UNCHANGED <<sect, dec_position, current>>
  /\ UNCHANGED <<still, dec_state, dec_winbytes, out, getblkno, curblkno>>

\* The half-instruction that is carried out: the first that is not done.
Half    == IF current[1].type # "NOOP" THEN 1 ELSE 2
hinst       == current[Half]
Carry   == Ready /\ ~Idle
Carried   == current' = [current EXCEPT ![Half] = NOOP]
DataLeft == sect["DATA"].max - sect["DATA"].buf

\* RUN takes one byte of data, ADD one for each byte.
OutputData ==
  /\ Carry /\ hinst.type \in {"RUN", "ADD"}
  /\ LET used == IF hinst.type = "RUN" THEN 1 ELSE hinst.size
         from(i) == At("DATA", sect["DATA"].buf + (IF hinst.type = "RUN" THEN 0 ELSE i - 1)).at
     IN  IF used > DataLeft
           THEN Fail /\ UNCHANGED <<out, sect, current>>
           ELSE /\ out' = out \o [i \in 1 .. hinst.size |-> from(i)]
                /\ sect' = [sect EXCEPT !["DATA"].buf = @ + used]
                /\ Carried /\ UNCHANGED ret
  /\ UNCHANGED <<still, dec_state, dec_winbytes, dec_position, getblkno, curblkno>>

\* The copy may overlap the bytes it writes: one byte at a time.
OutputTarget ==
  /\ Carry /\ hinst.type = "CPY" /\ hinst.addr >= field["CPYLEN"]
  /\ out' = FoldLeft(LAMBDA o, i : Append(o, o[hinst.addr - field["CPYLEN"] + i]),
                     out, [i \in 1 .. hinst.size |-> i])
  /\ Carried
  /\ UNCHANGED <<still, ret, dec_state, dec_winbytes, dec_position, sect, getblkno, curblkno>>

FromSource == Carry /\ hinst.type = "CPY" /\ hinst.addr < field["CPYLEN"]

\* cpyoff_blocks and cpyoff_blkoff are computed from dec_cpyoff on each entry.
Block  == (field["CPYOFF"] + hinst.addr) \div BlkSize
BlkOff == (field["CPYOFF"] + hinst.addr) % BlkSize

GetBlockMutantAgain ==
  /\ FromSource
  /\ getblkno' = Block
  /\ ret' = "XD3_GETSRCBLK"
  /\ UNCHANGED <<still, dec_state, progress, curblkno>>

GetBlock ==
  /\ FromSource /\ curblkno # Block
  /\ getblkno' = Block
  /\ ret' = "XD3_GETSRCBLK"
  /\ UNCHANGED <<still, dec_state, progress, curblkno>>

OutputSourceMutantAddr ==
  /\ FromSource /\ curblkno = Block
  /\ LET take == Smaller(hinst.size, BlkSize - BlkOff)
     IN  IF BytesOn(Block) # BlkSize /\ BlkOff + hinst.size > BytesOn(Block)
           THEN Fail /\ UNCHANGED <<out, current>>
           ELSE /\ out' = out \o [i \in 1 .. take |->
                                   SourceByte(source, Block * BlkSize + BlkOff + i - 1)]
                /\ IF take = hinst.size THEN Carried
                   ELSE current' = [current EXCEPT ![Half].size = @ - take]
                /\ UNCHANGED ret
  /\ UNCHANGED <<still, dec_state, dec_winbytes, dec_position, sect, getblkno, curblkno>>

\* As much as the block has; the rest of the instruction stays.  A short
\* source has the same bytes as the right one, as far as it goes.
OutputSource ==
  /\ FromSource /\ curblkno = Block
  /\ LET take == Smaller(hinst.size, BlkSize - BlkOff)
     IN  IF BytesOn(Block) # BlkSize /\ BlkOff + hinst.size > BytesOn(Block)
           THEN Fail /\ UNCHANGED <<out, current>>
           ELSE /\ out' = out \o [i \in 1 .. take |->
                                   SourceByte(source, Block * BlkSize + BlkOff + i - 1)]
                /\ IF take = hinst.size THEN Carried
                   ELSE current' = [current EXCEPT ![Half].size = @ - take, ![Half].addr = @ + take]
                /\ UNCHANGED ret
  /\ UNCHANGED <<still, dec_state, dec_winbytes, dec_position, sect, getblkno, curblkno>>

\* The Adler-32 that was sent is that of window field["CKSUM"]; windows that
\* differ have different checksums.
ChecksumOk ==
  (Has(field["WININD"], VCD_ADLER32) /\ mode # "nover") =>
    out = delta.target[field["CKSUM"]]["right"]

EndEmit ==
  /\ Ready /\ Idle /\ sect["INST"].buf = sect["INST"].max
  /\ IF /\ Len(out) = field["TGTLEN"]
        /\ \A s \in {"DATA", "ADDR"} : sect[s].buf = sect[s].max
        /\ ChecksumOk
       THEN FinishWindow
       ELSE Fail /\ UNCHANGED <<dec_winbytes, dec_state>>
  /\ UNCHANGED <<still, dec_position, sect, current, out, getblkno, curblkno>>

Emit == NoSource \/ Instruction \/ OutputData \/ OutputTarget \/ GetBlock \/ OutputSource \/ EndEmit

Finish ==
  /\ ret = "RUN" /\ dec_state = "FINISH"
  /\ dec_window_count' = dec_window_count + 1
  /\ dec_state' = "WININD" /\ ret' = "XD3_WINFINISH"
  /\ UNCHANGED <<scenario, app, input, parsed, progress, getblkno, curblkno>>

DecodeInput == ReadSections \/ ReadField \/ Emit \/ Finish

-----------------------------------------------------------------------------
(* The application *)

Open == closed = "open"
quiet == <<scenario, dec_state, parsed, progress, dec_window_count, getblkno>>

\* xd3_avail_input
AvailInput(n) ==
  /\ Open /\ ret = "XD3_INPUT" /\ total_in + n <= length
  /\ base' = total_in /\ next_in' = 0 /\ avail_in' = n
  /\ ret' = "RUN"
  /\ UNCHANGED <<quiet, closed, skip, done, curblkno>>

\* xd3_close_stream, at the end of the file.
CloseStream == IF dec_state \in {"VCHEAD", "WININD"} THEN "OK" ELSE "XD3_INVALID_INPUT"

Close ==
  /\ Open /\ ret = "XD3_INPUT" /\ total_in = length
  /\ closed' = CloseStream
  /\ UNCHANGED <<quiet, input, ret, skip, done, curblkno>>

\* The flag may be changed before each window.
Inspect(s) ==
  /\ Open /\ ret \in {"XD3_GOTHEADER", "XD3_WINSTART"}
  /\ s # skip => MaySkip /\ mode \in {"decode", "nover"}
  /\ skip' = s /\ ret' = "RUN"
  /\ UNCHANGED <<quiet, input, closed, done, curblkno>>

SupplyBlock ==
  /\ Open /\ ret = "XD3_GETSRCBLK"
  /\ curblkno' = getblkno /\ ret' = "RUN"
  /\ UNCHANGED <<quiet, input, app>>

\* xd3_consume_output.  After the header that XD3_JUST_HDR asks for, main_input
\* aborts the stream.
ConsumeOutput ==
  /\ Open /\ ret = "XD3_OUTPUT"
  /\ done' = Append(done, out)
  /\ out' = <<>>
  /\ IF mode = "header" THEN closed' = "OK" /\ UNCHANGED ret
     ELSE ret' = "RUN" /\ UNCHANGED closed
  /\ UNCHANGED <<scenario, dec_state, parsed, sect, dec_winbytes, dec_position, current,
                 dec_window_count, getblkno, input, skip, curblkno>>

NextWindow ==
  /\ Open /\ ret = "XD3_WINFINISH"
  /\ ret' = "RUN"
  /\ UNCHANGED <<quiet, input, app, curblkno>>

Application ==
  \/ \E n \in 1 .. MaxPiece : AvailInput(n)
  \/ Close
  \/ \E s \in BOOLEAN : Inspect(s)
  \/ SupplyBlock \/ ConsumeOutput \/ NextWindow

Stopped == (closed # "open" \/ ret = "XD3_INVALID_INPUT") /\ UNCHANGED vars

Init ==
  /\ delta \in {Delta(Deltas[i]) : i \in DOMAIN Deltas}
  /\ source \in Sources /\ mode \in Modes
  /\ length \in IF mode \in Truncated THEN 0 .. Len(delta.file) ELSE {Len(delta.file)}
  /\ base = 0 /\ next_in = 0 /\ avail_in = 0
  /\ ret = "RUN" /\ closed = "open" /\ skip = (mode = "headers")
  /\ dec_state = "VCHEAD" /\ part = 0
  /\ got = [f \in RunFields |-> 0] /\ field = [f \in Fields |-> 0]
  /\ sect = [s \in Sections |-> NoSection]
  /\ dec_winbytes = 0 /\ dec_position = 0 /\ dec_winstart = 0
  /\ dec_window_count = 0 /\ current_window = 0
  /\ current = NoOp /\ out = <<>>
  /\ getblkno = 0 /\ curblkno = -1
  /\ done = <<>>

Next == DecodeInput \/ Application \/ Stopped

Spec == Init /\ [][Next]_vars

\* The call returns, and the application goes on until it closes the stream.
FairSpec == Spec /\ WF_vars(DecodeInput) /\ WF_vars(Application)

-----------------------------------------------------------------------------
(* Properties *)

\* Windows that have been handed over entirely.
Whole(n) == {k \in DOMAIN delta.windows : delta.ends[k] <= n}

\* Types, and the bounds of cursors in the piece of input and in the sections.
TypeOK ==
  /\ source \in Sources /\ mode \in AllModes
  /\ {base, next_in, avail_in, part, dec_winbytes, dec_position, dec_winstart,
      dec_window_count, current_window, getblkno} \subseteq Nat
  /\ total_in + avail_in <= length
  /\ closed \in {"open", "OK", "XD3_INVALID_INPUT"} /\ skip \in BOOLEAN
  /\ dec_state \in Fields \cup Sections \cup {"EMIT", "FINISH"}
  /\ got \in [RunFields -> Nat] /\ field \in [Fields -> Nat]
  /\ \A s \in Sections : sect[s].buf <= sect[s].max /\ sect[s].pos <= SectSize(s)
  /\ Len(current) = 2 /\ Len(done) <= Len(delta.windows)

\* However the file is cut into pieces, every byte is taken for what it was
\* written as: in the state of a field the next byte belongs to that field.
Aligned ==
  (dec_state \in Fields /\ total_in < Len(delta.file) /\ Present(dec_state)
   /\ (dec_state \in RunFields => got[dec_state] < RunLen(dec_state))) =>
     delta.file[total_in + 1].at[1] = dec_state

\* From the end of the headers to the end of the window, also while the
\* application looks for a source block, the sections hold the window's bytes,
\* whether they lie in the application's buffer or were collected.
SectionsHold ==
  (dec_state = "EMIT" \/ (mode = "sections" /\ ret = "XD3_OUTPUT")) =>
    LET k == current_window + 1
        bytes(s) == [i \in 1 .. sect[s].max |-> At(s, i - 1)]
    IN  bytes("DATA") \o bytes("INST") \o bytes("ADDR")
          = SubSeq(delta.file, delta.ends[k] - Needed + 1, delta.ends[k])

\* What is read is what was written, however it is cut and wherever it lies.
InputRead == TypeOK /\ Aligned /\ SectionsHold

\* "the input will be consumed entirely before XD3_INPUT is returned", and no
\* more input is asked for than a window takes: when XD3_INPUT is returned, every
\* window that was handed over entirely has been output.
Prompt ==
  ret = "XD3_INPUT" => avail_in = 0 /\ Len(done) = Cardinality(Whole(total_in))

\* dec_winstart, which the application may read when a window starts, is the
\* position of the window in the target, whichever windows were skipped.
WinStartTrue ==
  ret \in {"XD3_GOTHEADER", "XD3_WINSTART"} =>
    /\ current_window = Len(done)
    /\ dec_winstart = Total(TgtLen, SubSeq(delta.windows, 1, current_window))

\* A file that was cut inside a window or after the start of its header is not
\* taken for a complete one; one that ends with a window is.
CloseTells ==
  (closed # "open" /\ mode # "header" /\ length >= 4) =>
    (closed = "OK" <=> \E k \in DOMAIN delta.ends : length = delta.ends[k])

\* What the application concludes from the results of the decoder is so.
ResultsTrue == Prompt /\ WinStartTrue /\ CloseTells

\* xd3_close_stream checks "that the stream is in a proper state to be closed:
\* this means ... the decoder is at a window boundary".  It does not hold of a
\* file that ends inside the magic bytes (README, section 5).
ClosedAtBoundary ==
  closed = "OK" => length = 0 \/ mode = "header" \/ \E k \in DOMAIN delta.ends : length = delta.ends[k]

\* Decoding implements the window-at-a-time decoder.
Abstract == INSTANCE WindowDecoder WITH
  failed <- ret = "XD3_INVALID_INPUT", verify <- mode # "nover",
  MaySkip <- MaySkip \/ Modes \cap {"header", "headers", "sections"} # {}

ImplementsWindows == Abstract!Spec

\* Decoding ends: the stream is closed, or an error was returned.
Ended == <>(closed # "open" \/ ret = "XD3_INVALID_INPUT")
=============================================================================
