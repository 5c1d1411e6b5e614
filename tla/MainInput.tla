----------------------------- MODULE MainInput -----------------------------
(***************************************************************************)
(* One command of xdelta3, encode or decode, with the processes that       *)
(* main_input_decompress_setup and main_recompress_output start: for every *)
(* compressed file a decompressor and a copier that feeds it, for an       *)
(* output that is to be compressed a recompressor, joined by pipes that    *)
(* hold little.  fork gives a child every descriptor of its parent, so a   *)
(* pipe has an end, and a writer its SIGPIPE, only when the last process   *)
(* that holds the other end has closed it.                                 *)
(*                                                                         *)
(* A file is the sequence of its units 1 .. Size, compressed or not; a     *)
(* unit 0 is data that is not the file's.  Encoding and decoding are       *)
(* abstract: what matters is which units main has read and written.        *)
(***************************************************************************)
EXTENDS Integers, Sequences, FiniteSets, SequencesExt

CONSTANTS
  Size,         \* the units of a file
  CheckSize,    \* XD3_ALLOCSIZE: the first read, and the copier's buffer
  WindowSize,   \* the units of a window and of a source block
  PipeSize,     \* the units that a pipe holds
  MaxChildren,  \* bound: the children that one command starts
  MAX_SUBPROCS, \* the length of ext_subprocs
  Commands,     \* the command lines: records, see MainAssumption
  MaxReadErrors \* bound: the reads of a copier that fail

ASSUME MainAssumption ==
  /\ {Size, CheckSize, WindowSize, PipeSize, MaxChildren, MAX_SUBPROCS} \subseteq Nat \ {0}
  /\ MaxReadErrors \in Nat
  \* szip, tzip: the source and the target are compressed.  armor: no option -a
  \* and, for a decoder, a delta with digests.  source: what the decoder is given,
  \* the "right" source, the "target" itself or something else.  failing: the
  \* programs that are run, and a read of a copier, may fail.
  /\ Commands \subseteq [op : {"ENCODE", "DECODE"}, szip : BOOLEAN, tzip : BOOLEAN, armor : BOOLEAN,
                         source : {"right", "target", "other"}, failing : BOOLEAN]

VARIABLES
  cmd,          \* the command
  script,       \* what main has still to do, a sequence of steps
  file,         \* "source", "input", "hash" and "output" of main
  pipe,         \* the pipes: units, and the processes that hold their ends
  child,        \* the children, by process id; main is process 0
  ext_subprocs, \* the children to wait for, 0 for one that was
  status        \* "running", or how main ended

mainVars == <<cmd, script, file, pipe, child, ext_subprocs, status>>

Whole    == [i \in 1 .. Size |-> i]
Block(n) == SubSeq(Whole, n + 1, Min({n + CheckSize, Size}))
Files == {"source", "input", "hash", "output"}

\* fd: 0 closed, -1 a file, or a pipe.  data: the units read or written.
Closed == [fd |-> 0, data |-> <<>>, eof |-> FALSE]

\* Opening an input, or the hash of one, and all that follows.
EncodeScript(c) ==
  <<<<"open", "source">>, <<"open", "input">>>>
    \o (IF c.armor THEN <<<<"open", "hash">>, <<"hash">>, <<"open", "hash">>, <<"hash">>>> ELSE <<>>)
    \o <<<<"encode">>, <<"close", "input">>, <<"close", "source">>, <<"finish", 1>>>>

DecodeScript(c) ==
  <<<<"open", "source">>>>
    \o (IF c.armor THEN <<<<"open", "hash">>, <<"hash">>, <<"verify">>>> ELSE <<>>)
    \o <<<<"output">>, <<"decode">>, <<"close", "source">>, <<"close", "output">>>>
    \o (IF c.armor THEN <<<<"compare">>>> ELSE <<>>)
    \o <<<<"finish", 1>>>>

MainInit ==
  /\ cmd \in Commands
  /\ script = IF cmd.op = "ENCODE" THEN EncodeScript(cmd) ELSE DecodeScript(cmd)
  /\ file = [f \in Files |-> Closed]
  /\ pipe = <<>> /\ child = <<>> /\ ext_subprocs = <<>>
  /\ status = "running"

-----------------------------------------------------------------------------
(* Pipes *)

\* fork: the child holds whatever main holds.
Inherit(pipes, pid) ==
  [p \in DOMAIN pipes |->
     [pipes[p] EXCEPT !.readers = @ \cup (IF 0 \in @ THEN {pid} ELSE {}),
                      !.writers = @ \cup (IF 0 \in @ THEN {pid} ELSE {})]]

\* What a process leaves behind when it exits or is killed.
Released(pipes, pids) ==
  [p \in DOMAIN pipes |->
     [pipes[p] EXCEPT !.readers = @ \ pids, !.writers = @ \ pids]]

NewPipe == [units |-> <<>>, readers |-> {0}, writers |-> {0}]

CanPut(p)  == Len(pipe[p].units) < PipeSize /\ pipe[p].readers # {}
Broken(p)  == pipe[p].readers = {}
CanTake(p) == pipe[p].units # <<>>
AtEnd(p)   == pipe[p].units = <<>> /\ pipe[p].writers = {}

Running   == status = "running" /\ script # <<>>
At(step)  == Running /\ Head(script)[1] = step
Subject   == Head(script)[2]
Do(steps) == script' = steps \o Tail(script)

-----------------------------------------------------------------------------
(* Opening and reading *)

\* Is the file that is opened compressed?  The digest of an armored command is
\* taken first of the target and then of the source, or of the source alone.
HashedFile   == IF cmd.op = "ENCODE" /\ Len(SelectSeq(script, LAMBDA s : s[1] = "hash")) = 2
                THEN "input" ELSE "source"
Compressed(f) ==
  CASE f = "source" -> cmd.szip
    [] f = "input"  -> cmd.tzip
    [] f = "hash"   -> IF HashedFile = "input" THEN cmd.tzip ELSE cmd.szip

\* main_file_open and the first read, main_secondary_decompress_check: the magic
\* number tells a compressed file.
OpenFile ==
  /\ At("open")
  /\ IF Compressed(Subject)
     THEN Do(<<<<"pipes", Subject>>, <<"copier", Subject>>, <<"parent", Subject>>,
               <<"read", Subject, WindowSize>>>>)
          /\ file' = [file EXCEPT ![Subject] = [Closed EXCEPT !.fd = -1]]
     ELSE Do(<<<<"read", Subject, WindowSize>>>>)
          /\ file' = [file EXCEPT ![Subject] = [Closed EXCEPT !.fd = -1]]
  /\ UNCHANGED <<cmd, pipe, child, ext_subprocs, status>>

Pid     == Len(child) + 1
Started(role, in, out, buf) ==
  [role |-> role, in |-> in, out |-> out, blk |-> buf, buf |-> buf, pos |-> Len(buf),
   drain |-> FALSE, errors |-> 0, at |-> "forked", exit |-> ""]

\* A child that was forked: the pipes it reads from and writes to, the copier's
\* buffer and what of it is still to be written, or the unit that another child
\* holds, and how many units of the file it has had.
\*
\* The two pipes and the decompressor.
ForkDecompressor ==
  /\ At("pipes") /\ Len(child) < MaxChildren
  /\ pipe' = Inherit(pipe \o <<NewPipe, NewPipe>>, Pid)
  /\ child' = Append(child, Started("decompressor", Len(pipe) + 2, Len(pipe) + 1, <<>>))
  /\ ext_subprocs' = Append(ext_subprocs, Pid)
  /\ Do(<<>>)
  /\ UNCHANGED <<cmd, file, status>>

\* The copier; it has the first units of the file.
ForkCopier ==
  /\ At("copier") /\ Len(child) < MaxChildren
  /\ pipe' = Inherit(pipe, Pid)
  /\ child' = Append(child, Started("copier", 0, Len(pipe),
                                    Block(0)))
  /\ ext_subprocs' = Append(ext_subprocs, Pid)
  /\ Do(<<>>)
  /\ UNCHANGED <<cmd, file, status>>

\* The parent keeps the end it reads from, in the place of the file.
ParentCloses ==
  /\ At("parent")
  /\ \E out \in {Len(pipe) - 1} :
       /\ pipe' = [pipe EXCEPT ![out].writers = @ \ {0},
                               ![out + 1].readers = @ \ {0}, ![out + 1].writers = @ \ {0}]
       /\ file' = [file EXCEPT ![Subject].fd = out]
  /\ Do(<<>>)
  /\ UNCHANGED <<cmd, child, ext_subprocs, status>>

\* main_file_read of one window, unit by unit.
Reading == At("read")
Left    == Head(script)[3]
From    == file[Subject].fd

\* The units of the source that a decoder was given.
Given(n) == IF Subject = "input" \/ cmd.op = "ENCODE" \/ cmd.source = "right" THEN n ELSE -n

ReadUnit ==
  /\ Reading /\ Left > 0
  /\ \/ /\ From = -1 /\ Len(file[Subject].data) < Size
        /\ file' = [file EXCEPT ![Subject].data = Append(@, Given(Len(@) + 1))]
        /\ pipe' = pipe
     \/ /\ From > 0
        /\ CanTake(From)
        /\ file' = [file EXCEPT ![Subject].data = Append(@, Given(Head(pipe[From].units)))]
        /\ pipe' = [pipe EXCEPT ![From].units = Tail(@)]
  /\ Do(<<<<"read", Subject, Left - 1>>>>)
  /\ UNCHANGED <<cmd, child, ext_subprocs, status>>

\* A short read is the end of the file.
ReadEnds ==
  /\ Reading
  /\ \/ Left = 0 /\ file' = file
     \/ /\ Left > 0
        /\ IF From = -1 THEN Len(file[Subject].data) = Size ELSE AtEnd(From)
        /\ file' = [file EXCEPT ![Subject].eof = TRUE]
  /\ Do(<<>>)
  /\ UNCHANGED <<cmd, pipe, child, ext_subprocs, status>>

Close(f) ==
  /\ file' = [file EXCEPT ![f].fd = 0]
  /\ pipe' = IF file[f].fd <= 0 THEN pipe
             ELSE IF f = "output" THEN [pipe EXCEPT ![file[f].fd].writers = @ \ {0}]
             ELSE [pipe EXCEPT ![file[f].fd].readers = @ \ {0}]

CloseFile ==
  /\ At("close")
  /\ Close(Subject) /\ Do(<<>>)
  /\ UNCHANGED <<cmd, child, ext_subprocs, status>>

-----------------------------------------------------------------------------
(* The end of a command *)

\* main_external_compression_cleanup: who was not waited for gets SIGTERM.  One
\* that was waited for and failed is still listed, and gone.
Outstanding == {pid \in DOMAIN child : child[pid].at # "exited"
                                        /\ \E i \in DOMAIN ext_subprocs : ext_subprocs[i] = pid}
Killed(pid) == [child[pid] EXCEPT !.at = "exited", !.exit = "SIGTERM"]

\* xd3_main_cmdline after main_input: the children are killed, and the descriptors
\* are closed.
Exit(how) ==
  /\ status' = how
  /\ child' = [pid \in DOMAIN child |-> IF pid \in Outstanding THEN Killed(pid) ELSE child[pid]]
  /\ pipe' = Released(pipe, Outstanding \cup {0})
  /\ script' = <<>>
  /\ UNCHANGED <<cmd, file, ext_subprocs>>

\* main_waitpid_check: SIGPIPE is normal, any other failure is an error.
NormalMutantAny(pid) == child[pid].at = "exited"
Normal(pid) == child[pid].exit \in {"0", "SIGPIPE"}

\* main_external_compression_finish
Finish ==
  /\ At("finish")
  /\ IF Subject > Len(ext_subprocs) THEN Exit("0")
     ELSE /\ child[ext_subprocs[Subject]].at = "exited"
          /\ IF ~Normal(ext_subprocs[Subject]) THEN Exit("1")
             ELSE /\ ext_subprocs' = [ext_subprocs EXCEPT ![Subject] = 0]
                  /\ Do(<<<<"finish", Subject + 1>>>>)
                  /\ UNCHANGED <<cmd, file, pipe, child, status>>

-----------------------------------------------------------------------------
(* Armor *)

\* main_armor_hash_file reads the whole file, closes it and waits for the
\* children of this pass, the last first.
Hash ==
  /\ At("hash")
  /\ \/ /\ ~file["hash"].eof /\ file["hash"].fd # 0
        /\ script' = <<<<"read", "hash", WindowSize>>>> \o script
        /\ UNCHANGED <<cmd, file, pipe, child, ext_subprocs, status>>
     \/ /\ file["hash"].eof /\ file["hash"].fd # 0
        /\ Close("hash")
        /\ script' = (IF file["hash"].fd > 0 THEN <<<<"reap">>>> ELSE <<>>) \o Tail(script)
        /\ UNCHANGED <<cmd, child, ext_subprocs, status>>

Reap ==
  /\ At("reap")
  /\ \E pids \in {{Last(ext_subprocs), Last(Front(ext_subprocs))}} :
       /\ \A pid \in pids : child[pid].at = "exited"
       /\ IF \A pid \in pids : Normal(pid)
          THEN /\ ext_subprocs' = Front(Front(ext_subprocs))
               /\ Do(<<>>)
               /\ UNCHANGED <<cmd, file, pipe, child, status>>
          ELSE Exit("1")

\* The digest of the source against the one in the delta, before anything is
\* applied.
VerifyMutantLate == At("verify") /\ Do(<<>>) /\ UNCHANGED <<cmd, file, pipe, child, ext_subprocs, status>>
Verify ==
  /\ At("verify")
  /\ IF file["hash"].data = Whole
     THEN Do(<<>>) /\ UNCHANGED <<cmd, file, pipe, child, ext_subprocs, status>>
     ELSE Exit(IF cmd.source = "target" THEN "up_to_date" ELSE "1")

\* The digest of what was written.
Compare ==
  /\ At("compare")
  /\ IF file["output"].data = Whole
     THEN Do(<<>>) /\ UNCHANGED <<cmd, file, pipe, child, ext_subprocs, status>>
     ELSE Exit("1")

-----------------------------------------------------------------------------
(* Encoding and decoding *)

\* A block of the source, when the encoder or the decoder asks for one.
ReadSource ==
  /\ At("encode") \/ At("decode")
  /\ file["source"].fd # 0 /\ ~file["source"].eof
  /\ script' = <<<<"read", "source", WindowSize>>>> \o script
  /\ UNCHANGED <<cmd, file, pipe, child, ext_subprocs, status>>

\* The loop of main_input: the next window, until a short read.
EncodeWindow ==
  /\ At("encode") /\ ~file["input"].eof
  /\ script' = <<<<"read", "input", WindowSize>>>> \o script
  /\ UNCHANGED <<cmd, file, pipe, child, ext_subprocs, status>>

EncodeEnds ==
  /\ At("encode") /\ file["input"].eof
  /\ Do(<<>>)
  /\ UNCHANGED <<cmd, file, pipe, child, ext_subprocs, status>>

\* main_open_output, and main_recompress_output when the header of the delta
\* says that the target was compressed.
OpenOutput ==
  /\ At("output")
  /\ file' = [file EXCEPT !["output"].fd = -1]
  /\ Do(IF cmd.tzip THEN <<<<"recompress">>, <<"output_parent">>>> ELSE <<>>)
  /\ UNCHANGED <<cmd, pipe, child, ext_subprocs, status>>

ForkRecompressor ==
  /\ At("recompress") /\ Len(child) < MaxChildren
  /\ pipe' = Inherit(Append(pipe, NewPipe), Pid)
  /\ child' = Append(child, Started("recompressor", Len(pipe) + 1, 0, <<>>))
  /\ ext_subprocs' = Append(ext_subprocs, Pid)
  /\ Do(<<>>)
  /\ UNCHANGED <<cmd, file, status>>

OutputParent ==
  /\ At("output_parent")
  /\ pipe' = [pipe EXCEPT ![Len(pipe)].readers = @ \ {0}]
  /\ file' = [file EXCEPT !["output"].fd = Len(pipe)]
  /\ Do(<<>>)
  /\ UNCHANGED <<cmd, child, ext_subprocs, status>>

\* The next unit of the target is in the delta or copied from the source.
Next1      == Len(file["output"].data) + 1
Decodable  == {Next1} \cup IF Next1 <= Len(file["source"].data) THEN {file["source"].data[Next1]} ELSE {}

\* main_write_output; without a reader SIGPIPE ends the command.
DecodeWrite ==
  /\ At("decode") /\ Next1 <= Size
  /\ \E unit \in Decodable :
       /\ file' = [file EXCEPT !["output"].data = Append(@, unit)]
       /\ IF file["output"].fd = -1 THEN pipe' = pipe
          ELSE /\ CanPut(file["output"].fd)
               /\ pipe' = [pipe EXCEPT ![file["output"].fd].units = Append(@, unit)]
  /\ UNCHANGED <<cmd, script, child, ext_subprocs, status>>

WriteBroken ==
  /\ At("decode") /\ Next1 <= Size
  /\ file["output"].fd > 0 /\ Broken(file["output"].fd)
  /\ status' = "killed" /\ script' = <<>>
  /\ pipe' = Released(pipe, {0})
  /\ UNCHANGED <<cmd, file, child, ext_subprocs>>

\* The decoder finds the source too short, or the checksum of a window wrong.
DecodeFails ==
  /\ At("decode")
  /\ \/ file["source"].eof /\ Len(file["source"].data) < Size
     \/ \E i \in DOMAIN file["output"].data : file["output"].data[i] < 0
  /\ Exit("1")

DecodeEnds ==
  /\ At("decode") /\ Next1 > Size
  /\ Do(<<>>)
  /\ UNCHANGED <<cmd, file, pipe, child, ext_subprocs, status>>

MainStep ==
  \/ OpenFile \/ ForkDecompressor \/ ForkCopier \/ ParentCloses \/ ReadUnit \/ ReadEnds \/ CloseFile
  \/ Finish \/ Hash \/ Reap \/ Verify \/ Compare \/ ReadSource \/ EncodeWindow \/ EncodeEnds
  \/ OpenOutput \/ ForkRecompressor \/ OutputParent \/ DecodeWrite \/ WriteBroken \/ DecodeFails
  \/ DecodeEnds

-----------------------------------------------------------------------------
(* The children *)

Child(pid) == pid \in DOMAIN child
Runs(pid)  == Child(pid) /\ child[pid].at = "running"

Exits(pid, how) ==
  /\ child' = [child EXCEPT ![pid] = [@ EXCEPT !.at = "exited", !.exit = how]]
  /\ pipe' = Released(pipe, {pid})

\* A child closes the ends that are not its own.
Kept(pid, c, p) ==
  CASE c.role = "decompressor" ->
             [pipe[p] EXCEPT !.readers = IF p = c.out THEN @ \ {pid} ELSE @,
                             !.writers = IF p = c.in THEN @ \ {pid} ELSE @]
        [] c.role = "copier" ->
             [pipe[p] EXCEPT !.readers = IF p \in {c.out, c.out - 1} THEN @ \ {pid} ELSE @,
                             !.writers = IF p = c.out - 1 THEN @ \ {pid} ELSE @]
        [] c.role = "recompressor" ->
             [pipe[p] EXCEPT !.writers = IF p = c.in THEN @ \ {pid} ELSE @]

ChildStarts(pid) ==
  /\ Child(pid) /\ child[pid].at = "forked"
  /\ child' = [child EXCEPT ![pid].at = "running"]
  /\ pipe' = [p \in DOMAIN pipe |-> Kept(pid, child[pid], p)]

\* main_pipe_copier: write the buffer; EPIPE drops it and makes the loop read on.
CopierWrites(pid) ==
  /\ Runs(pid) /\ child[pid].role = "copier" /\ child[pid].buf # <<>>
  /\ \/ /\ CanPut(child[pid].out)
        /\ pipe' = [pipe EXCEPT ![child[pid].out].units = Append(@, Head(child[pid].buf))]
        /\ child' = [child EXCEPT ![pid].buf = Tail(@)]
     \/ /\ Broken(child[pid].out)
        /\ child' = [child EXCEPT ![pid] = [@ EXCEPT !.buf = <<>>, !.drain = TRUE]]
        /\ pipe' = pipe

CopierDone(pid) == Len(child[pid].blk) < CheckSize /\ ~child[pid].drain

CopierReadsMutantDrain(pid) ==
  /\ Runs(pid) /\ child[pid].role = "copier" /\ child[pid].buf = <<>> /\ ~CopierDone(pid)
  /\ \E blk \in {Block(child[pid].pos)} :
       child' = [child EXCEPT ![pid] = [@ EXCEPT !.blk = blk, !.buf = blk, !.pos = child[pid].pos + Len(blk)]]
  /\ pipe' = pipe
CopierReads(pid) ==
  /\ Runs(pid) /\ child[pid].role = "copier" /\ child[pid].buf = <<>> /\ ~CopierDone(pid)
  /\ \E blk \in {Block(child[pid].pos)} :
       child' = [child EXCEPT ![pid] = [@ EXCEPT !.blk = blk, !.buf = blk, !.drain = FALSE,
                                                 !.pos = child[pid].pos + Len(blk)]]
  /\ pipe' = pipe

\* main_file_read returns the positive errno and sets no nread; the test is for
\* a negative one, so the loop goes on with the buffer it has.
CopierReadFails(pid) ==
  /\ cmd.failing
  /\ Runs(pid) /\ child[pid].role = "copier" /\ child[pid].buf = <<>> /\ ~CopierDone(pid)
  /\ child[pid].errors < MaxReadErrors
  /\ child' = [child EXCEPT ![pid] = [@ EXCEPT !.buf = child[pid].blk, !.drain = FALSE, !.errors = child[pid].errors + 1]]
  /\ pipe' = pipe

CopierExits(pid) ==
  /\ Runs(pid) /\ child[pid].role = "copier" /\ child[pid].buf = <<>> /\ CopierDone(pid)
  /\ Exits(pid, "0")

\* The decompressor makes a unit of every unit and finds one that is not the
\* next, or an early end, wrong.
DecompressorReads(pid) ==
  /\ Runs(pid) /\ child[pid].role = "decompressor" /\ child[pid].buf = <<>>
  /\ \/ /\ CanTake(child[pid].in)
        /\ IF Head(pipe[child[pid].in].units) = child[pid].pos + 1
           THEN /\ child' = [child EXCEPT ![pid] = [@ EXCEPT !.buf = <<child[pid].pos + 1>>,
                                                            !.pos = child[pid].pos + 1]]
                /\ pipe' = [pipe EXCEPT ![child[pid].in].units = Tail(@)]
           ELSE Exits(pid, "1")
     \/ /\ AtEnd(child[pid].in)
        /\ Exits(pid, IF child[pid].pos = Size THEN "0" ELSE "1")

DecompressorWrites(pid) ==
  /\ Runs(pid) /\ child[pid].role = "decompressor" /\ child[pid].buf # <<>>
  /\ \/ /\ CanPut(child[pid].out)
        /\ pipe' = [pipe EXCEPT ![child[pid].out].units = Append(@, Head(child[pid].buf))]
        /\ child' = [child EXCEPT ![pid].buf = <<>>]
     \/ Broken(child[pid].out) /\ Exits(pid, "SIGPIPE")

\* The recompressor has what it read in blk.
Recompresses(pid) ==
  /\ Runs(pid) /\ child[pid].role = "recompressor"
  /\ \/ /\ CanTake(child[pid].in)
        /\ child' = [child EXCEPT ![pid].blk = Append(@, Head(pipe[child[pid].in].units))]
        /\ pipe' = [pipe EXCEPT ![child[pid].in].units = Tail(@)]
     \/ AtEnd(child[pid].in) /\ Exits(pid, "0")

\* A program cannot be run, or ends with an error.
ChildFails(pid) ==
  /\ cmd.failing /\ Runs(pid) /\ child[pid].role # "copier"
  /\ Exits(pid, "1")

ChildStep(pid) ==
  /\ \/ ChildStarts(pid) \/ CopierWrites(pid) \/ CopierReads(pid) \/ CopierReadFails(pid)
     \/ CopierExits(pid) \/ DecompressorReads(pid) \/ DecompressorWrites(pid) \/ Recompresses(pid)
  /\ UNCHANGED <<cmd, script, file, ext_subprocs, status>>

Failure(pid) == ChildFails(pid) /\ UNCHANGED <<cmd, script, file, ext_subprocs, status>>

MainNext == MainStep \/ \E pid \in 1 .. MaxChildren : ChildStep(pid) \/ Failure(pid)
MainSpec == MainInit /\ [][MainNext]_mainVars

-----------------------------------------------------------------------------
(* Properties *)

\* A command that ends with success has done its work, whatever the children
\* did: the encoder has read all of the target, and with armor the decoder has
\* written it, and the recompressor has all of it.
ExitTrue ==
  status = "0" =>
    /\ cmd.op = "ENCODE" => file["input"].data = Whole
    /\ cmd.op = "DECODE" /\ cmd.armor =>
         /\ file["output"].data = Whole
         /\ cmd.tzip => \E pid \in DOMAIN child : child[pid].role = "recompressor"
                                                /\ child[pid].exit = "0" /\ child[pid].blk = Whole

\* Armor verifies "the source up front, before applying anything": with a source
\* that is not the one of the delta the output is not even opened.
VerifiedFirst ==
  cmd.op = "DECODE" /\ cmd.armor /\ cmd.source # "right" => file["output"].fd = 0 /\ status # "0"

\* The children are as many as ext_subprocs has room for: MAX_SUBPROCS is "max(source
\* + copier + output, source + copier + input + copier)".
SubprocsFit == Len(ext_subprocs) <= MAX_SUBPROCS

Ended == status # "running" /\ \A pid \in DOMAIN child : child[pid].at = "exited"

\* Nobody waits for ever: main and all of its children end, also when main does
\* not read the source to its end and when a program fails.
Finishes == <>Ended
-----------------------------------------------------------------------------
(* What keeps ExitTrue and VerifiedFirst.  The script: steps that can follow one *)
(* another, and the steps of opening a file, which come one after the other.    *)

Inputs == {"source", "input", "hash"}
Steps  ==
  ({"open", "pipes", "copier", "parent"} \X Inputs) \cup ({"close"} \X Files)
    \cup ({"read"} \X Inputs \X Nat) \cup ({"finish"} \X (Nat \ {0}))
    \cup {<<"hash">>, <<"reap">>, <<"verify">>, <<"output">>, <<"recompress">>, <<"output_parent">>,
          <<"encode">>, <<"decode">>, <<"compare">>}

Turn(step) ==
  CASE step[1] = "verify" -> 2
    [] step[1] = "output" -> 3
    [] step[1] = "recompress" -> 4
    [] step[1] = "output_parent" -> 5
    [] step[1] \in {"encode", "decode"} -> 6
    [] step[1] = "close" -> 7
    [] step[1] = "compare" -> 8
    [] step[1] = "finish" -> 9
    [] OTHER -> 1

Follows(a, b) ==
  \/ "read" \in {a[1], b[1]}
  \/ Turn(a) < Turn(b)
  \/ Turn(a) = Turn(b) /\ Turn(a) \in {1, 7}

Ordered(steps) == \A i, j \in 1 .. Len(steps) : i < j => Follows(steps[i], steps[j])

Linked(steps, i) ==
  /\ steps[i][1] \notin {"pipes", "recompress"}
  /\ steps[i][1] = "copier" => steps[i - 1] = <<"pipes", steps[i][2]>>
  /\ steps[i][1] = "parent" => steps[i - 1] = <<"copier", steps[i][2]>>
  /\ steps[i][1] = "read" => steps[i - 1] = <<"parent", steps[i][2]>>
  /\ steps[i][1] = "output_parent" => steps[i - 1] = <<"recompress">>
  /\ ~(steps[i][1] = "finish" /\ steps[i][2] > 1)
Chained(steps) == \A i \in 1 .. Len(steps) : i # 1 => Linked(steps, i)

Among(step, steps) == \E i \in 1 .. Len(steps) : steps[i] = step
Pending(step) == Among(step, script)

Pipes == [units : Seq(Int), readers : SUBSET Nat, writers : SUBSET Nat]
Children ==
  [role : {"decompressor", "copier", "recompressor"}, in : Nat, out : Nat, blk : Seq(Int), buf : Seq(Int),
   pos : Nat, drain : BOOLEAN, errors : Nat, at : {"forked", "running", "exited"}, exit : {"", "0", "1", "SIGPIPE"}]

TypeOK ==
  /\ cmd \in Commands /\ script \in Seq(Steps)
  /\ file \in [Files -> [fd : Nat \cup {-1}, data : Seq(Int), eof : BOOLEAN]]
  /\ pipe \in Seq(Pipes) /\ child \in Seq(Children) /\ ext_subprocs \in Seq(Nat)

\* A child and the pipe of the same number belong together: a decompressor writes to
\* it, the copier after it to the next one, from which the decompressor reads; a
\* recompressor reads from it.
Decompressor(pid) == Child(pid) /\ child[pid].role = "decompressor"
Recompressor(pid) == Child(pid) /\ child[pid].role = "recompressor"

Paired ==
  /\ Len(child) <= Len(pipe)
  /\ \A pid \in DOMAIN child :
       /\ child[pid].role = "decompressor" =>
            /\ child[pid].out = pid /\ child[pid].in = pid + 1 /\ pid + 1 \in DOMAIN pipe
            /\ Child(pid + 1) => child[pid + 1].role = "copier"
       /\ child[pid].role = "copier" => child[pid].out = pid /\ Decompressor(pid - 1)
       /\ child[pid].role = "recompressor" => child[pid].in = pid
       /\ child[pid].at = "exited" <=> child[pid].exit # ""

\* The units of a file that were taken from a decompressor's pipe: those it has made
\* and neither holds nor has left in the pipe.
Taken(pid) == child[pid].pos - Len(child[pid].buf) - Len(pipe[pid].units)

\* It makes the units of its file in order, holds its pipe until it exits, ends well
\* with the last, and of SIGPIPE only when nobody is there to read.
Making(pid) ==
  /\ Taken(pid) >= 0 /\ Len(child[pid].buf) <= 1
  /\ \A i \in 1 .. Len(pipe[pid].units) : pipe[pid].units[i] = Taken(pid) + i
  /\ \A i \in 1 .. Len(child[pid].buf) : child[pid].buf[i] = child[pid].pos - Len(child[pid].buf) + i
  /\ child[pid].at # "exited" => pid \in pipe[pid].writers
  /\ child[pid].exit = "0" => child[pid].pos = Size /\ child[pid].buf = <<>>
  /\ child[pid].exit = "SIGPIPE" => pipe[pid].readers = {}
Decompressing == \A pid \in DOMAIN child : child[pid].role = "decompressor" => Making(pid)

\* There is one recompressor, and the output is what it has and what is in its pipe;
\* it ends well when that is nothing and nobody is there to write.
Gathering(pid) ==
  /\ file["output"].data = child[pid].blk \o pipe[pid].units
  /\ child[pid].exit = "0" => pipe[pid].units = <<>> /\ pipe[pid].writers = {}
  /\ child[pid].exit # "SIGPIPE"
Recompressing ==
  \A pid \in DOMAIN child : child[pid].role = "recompressor" =>
    /\ cmd.tzip /\ Gathering(pid)
    /\ \A other \in DOMAIN child : child[other].role = "recompressor" => other = pid

\* Every child is waited for, or has been and ended well.
Waiting ==
  \A pid \in DOMAIN child :
    child[pid].exit \in {"0", "SIGPIPE"} \/ \E i \in 1 .. Len(ext_subprocs) : ext_subprocs[i] = pid

\* The pipe that main reads in the place of a file, and what it has read of the target.
Feeds(pid) == Decompressor(pid) /\ 0 \in pipe[pid].readers
Piped ==
  \A f \in Inputs :
    /\ file[f].fd > 0 => Feeds(file[f].fd) /\ Len(file[f].data) = Taken(file[f].fd)
    /\ \A g \in Inputs \ {f} : file[f].fd > 0 => file[g].fd # file[f].fd
InputTrue ==
  /\ \A i \in 1 .. Len(file["input"].data) : file["input"].data[i] = i
  /\ file["input"].eof => file["input"].data = Whole \/ \E pid \in DOMAIN child : child[pid].exit = "1"
  /\ At("read") => From # 0 /\ (Subject = "input" => ~file["input"].eof)
  /\ Pending(<<"encode">>) => Pending(<<"open", "input">>) \/ file["input"].fd # 0

\* Between the forks, and before main has closed what is not its own.
Opened    == [Closed EXCEPT !.fd = -1]
Fed(pid)  == Feeds(pid) /\ Taken(pid) = 0 /\ \A g \in Inputs : file[g].fd # pid
Then(step) == Len(script) > 1 /\ script[2] = step
Forking ==
  /\ \A i \in 1 .. Len(script) : script[i][1] \in {"pipes", "copier", "parent"} => file[script[i][2]] = Opened
  /\ At("pipes") => Then(<<"copier", Subject>>)
  /\ At("recompress") => Then(<<"output_parent">>)
  /\ IF At("copier") THEN Len(pipe) = Len(child) + 1 /\ Fed(Len(child))
     ELSE Len(pipe) = Len(child) /\ ~Decompressor(Len(child))
  /\ At("parent") => child[Len(child)].role = "copier" /\ Fed(Len(child) - 1)
  /\ At("output_parent") => Recompressor(Len(child)) /\ 0 \in pipe[Len(child)].writers

\* The output is opened, and its recompressor started, before anything is decoded.
Unopened == Pending(<<"output">>) \/ Pending(<<"recompress">>)
Writes   ==
  /\ Pending(<<"output">>) => file["output"].fd = 0
  /\ Pending(<<"recompress">>) => cmd.tzip
  /\ Unopened => \A pid \in DOMAIN child : child[pid].role # "recompressor"
  /\ Unopened \/ Pending(<<"output_parent">>) => file["output"].data = <<>> /\ file["output"].fd <= 0
  /\ file["output"].fd > 0 => Recompressor(file["output"].fd) /\ 0 \in pipe[file["output"].fd].writers
  /\ Pending(<<"decode">>) /\ ~Unopened /\ ~Pending(<<"output_parent">>) =>
       IF cmd.tzip THEN file["output"].fd > 0 ELSE file["output"].fd = -1
  /\ cmd.op = "DECODE" /\ cmd.tzip => Unopened \/ \E pid \in DOMAIN child : child[pid].role = "recompressor"

\* What is still to be done before the command may end with success.
Wrong == cmd.op = "DECODE" /\ cmd.armor /\ cmd.source # "right"
Doing ==
  /\ cmd.op = "ENCODE" => Pending(<<"encode">>) \/ (file["input"].eof /\ ~Pending(<<"open", "input">>))
  /\ cmd.op = "DECODE" /\ cmd.armor => Pending(<<"compare">>) \/ file["output"].data = Whole
  /\ Wrong => /\ Pending(<<"verify">>)
              /\ \A i \in 1 .. Len(file["hash"].data) : file["hash"].data[i] < 0
  /\ At("finish") => \A i \in 1 .. Len(ext_subprocs) : i < Subject => ext_subprocs[i] = 0

RunInv ==
  /\ TypeOK /\ Ordered(script) /\ Chained(script) /\ Paired /\ Decompressing /\ Recompressing
  /\ Waiting /\ Piped /\ InputTrue /\ Forking /\ Writes /\ Doing

MainInv ==
  /\ status = "running" => RunInv
  /\ status = "0" => \A pid \in DOMAIN child : child[pid].at = "exited"
  /\ ExitTrue /\ VerifiedFirst
=============================================================================
