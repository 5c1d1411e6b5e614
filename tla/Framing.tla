------------------------------- MODULE Framing -------------------------------
(***************************************************************************)
(* What stands around the sections of a delta: the header of the file and  *)
(* of each window, as xd3_emit_hdr writes it and xd3_decode_input reads    *)
(* it, byte by byte, with the integers of Varint.  A field says nothing of *)
(* itself: which ones are there follows from indicator bits and from the   *)
(* window's number, and the length of the encoding is computed twice.      *)
(* Bytes of sections and of the application header are all 0; a section    *)
(* that was compressed begins with the size it had.                        *)
(*                                                                         *)
(* A delta may have been through the command recode (main_recode_func),    *)
(* which reads each window, decompresses its sections and writes it again  *)
(* with another compressor, another application header, or without         *)
(* checksums.                                                              *)
(***************************************************************************)
EXTENDS Varint, FiniteSets, TLC

CONSTANTS
  SecIds,    \* IDs of the secondary compressors
  AppHeaders,\* lengths of application headers
  Windows,   \* what windows may be: a set of records
  PackedSizes,\* sizes of compressed sections
  Recodings, \* what the command recode is told; NoRecode if it is not run
  Leftover,  \* [srclen, srcbase] that memory which is no more in use may hold
  MaxWindows \* bound: windows of a delta

\* checksum: not -n; sec: -S; app: -A with a header, or -2 to keep the one there is.
NoRecode == [on |-> FALSE, checksum |-> TRUE, sec |-> -1, app |-> -2]

ASSUME FramingAssumption ==
  /\ \A rc \in Recodings : {rc.on, rc.checksum} \subseteq BOOLEAN /\ rc.sec \in SecIds \cup {-1}
                            /\ rc.app \in AppHeaders \cup {-1, -2}
  /\ \A l \in Leftover : {l.srclen, l.srcbase} \subseteq 0 .. Limit - 1
  /\ SecIds \subseteq Byte /\ AppHeaders \cup PackedSizes \subseteq Nat /\ MaxWindows \in Nat
  /\ Radix >= 4   \* three indicator bits
  /\ \A w \in Windows :
       /\ w.adler32 \in BOOLEAN
       /\ \A f \in {"srclen", "srcbase", "tgt"} : w[f] \in 0 .. Limit - 1
       /\ w.made \in [{"DATA", "INST", "ADDR"} -> 0 .. Limit - 1]  \* sizes of its sections

Magic == <<3, 2, 1, 0>>  \* VCDIFF_MAGIC1-3 and VCDIFF_VERSION

\* VCD_SECONDARY and VCD_APPHEADER; VCD_SOURCE and VCD_ADLER32.
Flag(bit, set) == IF set THEN bit ELSE 0
Bit(byte, bit) == (byte \div bit) % 2 = 1

Zeros(n) == [i \in 1 .. n |-> 0]
FilledWith(byte, n) == [i \in 1 .. n |-> byte]

SectionNames == {"DATA", "INST", "ADDR"}
CompBit == [DATA |-> 1, INST |-> 2, ADDR |-> 4]  \* VCD_DATACOMP, VCD_INSTCOMP, VCD_ADDRCOMP
Joined(sects) == sects.DATA \o sects.INST \o sects.ADDR

-----------------------------------------------------------------------------
(* xd3_emit_hdr.  File is [sec, app]: -1 for none.  A window that is        *)
(* written also has packed: the sizes its sections have when compressed,    *)
(* or -1 for one that is left as it is.                                     *)

\* xd3_encode_secondary: what comes out begins with the size, and is sent if it is
\* shorter.
Packings(made, file) ==
  {packed \in [SectionNames -> PackedSizes \cup {-1}] :
     \A s \in SectionNames : packed[s] # -1 =>
       file.sec # -1 /\ Sizeof(made[s]) < packed[s] /\ packed[s] < made[s]}

SentSize(win, s) == IF win.packed[s] = -1 THEN win.made[s] ELSE win.packed[s]
Section(win, s) ==
  IF win.packed[s] = -1 THEN Zeros(win.made[s])
  ELSE Emit(win.made[s]) \o Zeros(win.packed[s] - Sizeof(win.made[s]))

FileHeader(file) ==
  Magic
  \o <<Flag(1, file.sec # -1) + Flag(4, file.app # -1)>>
  \o (IF file.sec # -1 THEN <<file.sec>> ELSE <<>>)
  \o (IF file.app # -1 THEN Emit(file.app) \o Zeros(file.app) ELSE <<>>)

SectionLengths(win) == SentSize(win, "DATA") + SentSize(win, "INST") + SentSize(win, "ADDR")
SizesOfLengths(win) ==
  Sizeof(win.tgt) + Sizeof(SentSize(win, "DATA")) + Sizeof(SentSize(win, "INST")) + Sizeof(SentSize(win, "ADDR"))

EncLenMutantNoSum(win) == 1 + SizesOfLengths(win) + SectionLengths(win)
EncLen(win) == 1 + SizesOfLengths(win) + SectionLengths(win) + (IF win.adler32 THEN 4 ELSE 0)

\* The copy window of length 0 is none (xd3_encoder_used_source).
WindowHeader(win) ==
  LET DelBit(s) == Flag(CompBit[s], win.packed[s] # -1)
  IN  <<Flag(1, win.srclen # 0) + Flag(4, win.adler32)>>
      \o (IF win.srclen # 0 THEN Emit(win.srclen) \o Emit(win.srcbase) ELSE <<>>)
      \o Emit(EncLen(win)) \o Emit(win.tgt)
      \o <<DelBit("DATA") + DelBit("INST") + DelBit("ADDR")>>
      \o Joined([s \in SectionNames |-> Emit(SentSize(win, s))])
      \o (IF win.adler32 THEN FilledWith(1, 4) ELSE <<>>)

EmitHdr(file, win, current_window) ==
  (IF current_window = 0 THEN FileHeader(file) ELSE <<>>) \o WindowHeader(win)

-----------------------------------------------------------------------------
VARIABLES
  file,     \* the encoder's configuration
  recode,   \* one of Recodings
  recoder,  \* recode_stream: whether src was set and XD3_ADLER32_RECODE is on
  wins,     \* the windows the encoder has written
  written,  \* the windows as they were written last
  wire,     \* what was written and not read
  state,    \* dec_state
  fields,   \* the decoder's fields of this window and of the file
  count,    \* bytes that are left of a field of several bytes
  found     \* history: the windows the decoder has been through

writtenVars == <<file, recode, recoder, wins, written>>
framingVars == <<writtenVars, wire, state, fields, count, found, part, val, status, taken>>

NoFields ==
  [HDRIND |-> 0, SECONDID |-> -1, APPLEN |-> -1, WININD |-> 0, CPYLEN |-> 0, CPYOFF |-> 0,
   ENCLEN |-> 0, TGTLEN |-> 0, DELIND |-> 0, DATALEN |-> 0, INSTLEN |-> 0, ADDRLEN |-> 0]

FramingInit ==
  /\ file \in [sec : SecIds \cup {-1}, app : AppHeaders \cup {-1}]
  /\ recode \in Recodings /\ recoder = [src |-> FALSE, adler32 |-> FALSE]
  /\ wins = <<>> /\ written = <<>> /\ wire = <<>> /\ found = <<>>
  /\ state = "VCHEAD" /\ count = 4 /\ fields = NoFields
  /\ part = 0 /\ val = -1 /\ status = "INPUT" /\ taken = <<>>

\* The compressor is another one; the application header is replaced or kept.
FileWritten ==
  IF ~recode.on THEN file
  ELSE [sec |-> recode.sec, app |-> IF recode.app = -2 THEN file.app ELSE recode.app]

\* main_recode_func.  The sections are copied as the decoder has decompressed them.
\* recode_stream->src stays set, after the window it was set for, to a variable of a
\* call that has returned; and the flag for the checksum stays on.
Recoded(win, leftover) ==
  LET stale == win.srclen = 0 /\ recoder.src
  IN  [win EXCEPT !.srclen = IF stale THEN leftover.srclen ELSE @,
                  !.srcbase = IF stale THEN leftover.srcbase ELSE @,
                  !.adler32 = (@ /\ recode.checksum) \/ recoder.adler32]

AllRead == wire = <<>> /\ status # "OK" /\ state # "SECTIONS"

\* xd3_emit_hdr compresses the sections, of a window that is recoded once more.
EmitWindow ==
  /\ Len(wins) < MaxWindows /\ AllRead
  /\ \E win \in Windows, leftover \in Leftover :
       LET out == IF recode.on THEN Recoded(win, leftover) ELSE win
       IN  \E packed \in Packings(out.made, FileWritten) :
             LET new == out @@ [packed |-> packed]
             IN  /\ recoder' = [src |-> recode.on /\ (recoder.src \/ win.srclen # 0),
                                adler32 |-> recode.on /\ out.adler32]
                 /\ wins' = Append(wins, win)
                 /\ written' = Append(written, new)
                 /\ wire' = EmitHdr(FileWritten, new, Len(wins))
                              \o Joined([s \in SectionNames |-> Section(new, s)])
  /\ UNCHANGED <<file, recode, state, fields, count, found, part, val, status, taken>>

(* The decoder: a byte per step.  Where each state leads when its field is  *)
(* complete, what is read in it and whether its field is there at all.      *)

Sizes == {"APPLEN", "CPYLEN", "CPYOFF", "ENCLEN", "TGTLEN", "DATALEN", "INSTLEN", "ADDRLEN"}
Bytes == {"HDRIND", "SECONDID", "WININD", "DELIND"}

Following ==
  [VCHEAD |-> "HDRIND", HDRIND |-> "SECONDID", SECONDID |-> "APPLEN", APPLEN |-> "APPDAT",
   APPDAT |-> "WININD", WININD |-> "CPYLEN", CPYLEN |-> "CPYOFF", CPYOFF |-> "ENCLEN",
   ENCLEN |-> "TGTLEN", TGTLEN |-> "DELIND", DELIND |-> "DATALEN", DATALEN |-> "INSTLEN",
   INSTLEN |-> "ADDRLEN", ADDRLEN |-> "CKSUM", CKSUM |-> "SECTIONS"]

Present(st, f) ==
  CASE st = "SECONDID"           -> Bit(f.HDRIND, 1)
    [] st = "APPLEN"             -> Bit(f.HDRIND, 4)
    [] st = "APPDAT"             -> f.APPLEN > 0
    [] st \in {"CPYLEN", "CPYOFF"} -> Bit(f.WININD, 1)
    [] st = "CKSUM"              -> Bit(f.WININD, 4)
    [] OTHER                     -> TRUE

\* The cases fall through to the first field that is there.
FallThrough(st, f) ==
  LET next[n \in 0 .. 3] == IF n = 0 THEN Following[st]
                            ELSE IF Present(next[n - 1], f) THEN next[n - 1]
                            ELSE Following[next[n - 1]]
  IN  next[3]

\* The checks of xd3_decode_input, at the end of the field st.
Refused(st, f) ==
  CASE st = "HDRIND" -> Bit(f.HDRIND, 2)   \* VCD_CODETABLE
    [] st = "SECONDID" -> f.SECONDID \notin SecIds
    [] st = "WININD" -> Bit(f.WININD, 2)   \* VCD_TARGET
    [] st = "CPYOFF" -> f.CPYOFF + f.CPYLEN >= Limit
    [] st = "TGTLEN" -> f.CPYLEN + f.TGTLEN >= Limit
    [] st = "DELIND" -> f.DELIND # 0 /\ f.SECONDID = -1
    [] OTHER -> FALSE

LengthOf(st, f) ==
  CASE st = "APPDAT" -> f.APPLEN [] st = "CKSUM" -> 4 [] OTHER -> 0

\* enclen_check, from what was read.
EncLenCheck(f) ==
  1 + (Sizeof(f.TGTLEN) + Sizeof(f.DATALEN) + Sizeof(f.INSTLEN) + Sizeof(f.ADDRLEN))
    + f.DATALEN + f.INSTLEN + f.ADDRLEN + Flag(4, Bit(f.WININD, 4))

\* A field is complete: the next state, or XD3_INVALID_INPUT; after the checksum,
\* present or not, the length of the encoding is checked.
Complete(f) ==
  LET st == FallThrough(state, f)
      ok == ~Refused(state, f) /\ (st = "SECTIONS" => f.ENCLEN = EncLenCheck(f))
  IN  /\ state' = IF ok THEN st ELSE "INVALID"
      /\ count' = LengthOf(st, f)

\* A new window has no source until its fields say so (xd3_decode_init_window).
InitWindow(f) == [f EXCEPT !.CPYLEN = 0, !.CPYOFF = 0]

ReadByte ==
  /\ state \in Bytes
  /\ LET f == [IF state = "WININD" THEN InitWindow(fields) ELSE fields EXCEPT ![state] = Head(wire)]
     IN  /\ fields' = f
         /\ Complete(f)
  /\ UNCHANGED <<part, val, status, taken>>

\* SIZE_CASE: a byte of an integer.
ReadSize ==
  /\ state \in Sizes
  /\ DecodeByte(Head(wire))
  /\ IF status' = "OK"
       THEN LET f == [fields EXCEPT ![state] = val']
            IN  fields' = f /\ Complete(f)
       ELSE state' = (IF status' = "INVALID" THEN "INVALID" ELSE state) /\ UNCHANGED <<fields, count>>

\* The next integer begins.
NextSize ==
  /\ status = "OK" /\ status' = "INPUT" /\ taken' = <<>>
  /\ UNCHANGED <<writtenVars, wire, state, fields, count, found, part, val>>

\* xd3_decode_bytes: the magic, the application header, the checksum.
ReadBytes ==
  /\ state \in {"VCHEAD", "APPDAT", "CKSUM"}
  /\ state = "VCHEAD" => Head(wire) = Magic[5 - count]
  /\ IF count > 1 THEN count' = count - 1 /\ UNCHANGED state ELSE Complete(fields)
  /\ UNCHANGED <<fields, part, val, status, taken>>

DecodeHeader ==
  /\ wire # <<>> /\ status # "OK"
  /\ wire' = Tail(wire)
  /\ UNCHANGED <<writtenVars, found>>
  /\ ReadByte \/ ReadSize \/ ReadBytes

\* xd3_decode_sections, all of whose input is there.
Sections(f) ==
  LET inst == f.DATALEN + f.INSTLEN
  IN  [DATA |-> SubSeq(wire, 1, f.DATALEN),
       INST |-> SubSeq(wire, f.DATALEN + 1, inst),
       ADDR |-> SubSeq(wire, inst + 1, inst + f.ADDRLEN)]

\* xd3_decode_secondary: dec_size is the size of the section from here on.
DecodeSecondary(bytes, compressed) == IF compressed THEN Read(bytes).val ELSE Len(bytes)

\* The window as the decoder, or main_recode_func, finds it.
Window(f) ==
  LET Compressed(s) == Bit(f.DELIND, CompBit[s])
  IN  [adler32 |-> Bit(f.WININD, 4), srclen |-> f.CPYLEN, srcbase |-> f.CPYOFF, tgt |-> f.TGTLEN,
       made |-> [s \in SectionNames |-> DecodeSecondary(Sections(f)[s], Compressed(s))],
       packed |-> [s \in SectionNames |-> IF Compressed(s) THEN Len(Sections(f)[s]) ELSE -1]]

\* The sections are read and decompressed; then the next window.
ReadSections ==
  /\ state = "SECTIONS" /\ status # "OK"
  /\ LET win == Window(fields)
         length == fields.DATALEN + fields.INSTLEN + fields.ADDRLEN
     IN  /\ Len(wire) >= length
         /\ wire' = SubSeq(wire, length + 1, Len(wire))
         /\ IF \E s \in SectionNames : win.packed[s] # -1 /\ win.made[s] <= 0
              THEN state' = "INVALID" /\ UNCHANGED found
              ELSE state' = "WININD" /\ found' = Append(found, win)
  /\ UNCHANGED <<writtenVars, fields, count, part, val, status, taken>>

FramingNext == EmitWindow \/ NextSize \/ DecodeHeader \/ ReadSections

-----------------------------------------------------------------------------
\* The decoder finds the windows, the compressor and the application header that were
\* written, and refuses nothing: both sides compute the same length of the
\* encoding, no indicator makes one side skip a field, and sections have the size they
\* had before they were compressed, or decompressed and compressed again by recode.
HeadersRead ==
  /\ state # "INVALID"
  /\ AllRead => found = written
  /\ found # <<>> => fields.SECONDID = FileWritten.sec /\ fields.APPLEN = FileWritten.app
  /\ \A i \in DOMAIN found : found[i].tgt = wins[i].tgt /\ found[i].made = wins[i].made

\* "with and without a source file (recode does not change)": a window has the source
\* window that it had before main_recode_func.
RecodeKeepsSource ==
  \A i \in DOMAIN found : found[i].srclen = wins[i].srclen /\ found[i].srcbase = wins[i].srcbase

\* "Recode can't generate an adler32 checksum, it can only preserve it or remove it":
\* after main_recode_func a window has a checksum if it had one and -n was not given.
RecodeKeepsChecksum ==
  \A i \in DOMAIN found : found[i].adler32 = (wins[i].adler32 /\ recode.checksum)
==============================================================================
