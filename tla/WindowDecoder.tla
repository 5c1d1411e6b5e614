---------------------------- MODULE WindowDecoder ----------------------------
(***************************************************************************)
(* What decoding promises, a window at a time: the application receives    *)
(* the windows of the delta in order, each whole and equal to the target   *)
(* window that the delta was made from, or decoding ends with an error.    *)
(***************************************************************************)
EXTENDS Vcdiff

CONSTANT MaySkip   \* the application may set XD3_SKIP_WINDOW

VARIABLES
  delta, source,   \* what is decoded, and against which source
  verify,          \* checksums are verified
  done,            \* windows received
  failed           \* an error was returned

vars == <<delta, source, verify, done, failed>>

Number  == Len(done) + 1
W       == delta.windows[Number]

Init ==
  /\ delta \in {Delta(Deltas[i]) : i \in DOMAIN Deltas}
  /\ source \in Sources /\ verify \in BOOLEAN
  /\ done = <<>> /\ failed = FALSE

More == ~failed /\ Number <= Len(delta.windows)

\* A copy from the source that the given source cannot satisfy.
NeedsSource == W.cpylen > 0

\* A window that would come out wrong is never produced if it is checked.
Produce ==
  /\ More
  /\ source \in {"right", "other", "short"} \/ ~NeedsSource
  /\ LET made == delta.target[Number][IF source = "other" THEN "other" ELSE "right"]
     IN  /\ verify /\ W.adler => made = delta.target[Number]["right"]
         /\ done' = Append(done, made)
  /\ UNCHANGED <<delta, source, verify, failed>>

\* An empty window is received in place of one that is skipped.
Skip ==
  /\ More /\ MaySkip
  /\ done' = Append(done, <<>>)
  /\ UNCHANGED <<delta, source, verify, failed>>

\* With the right source nothing goes wrong.
Fail ==
  /\ More
  /\ NeedsSource /\ source # "right"
  /\ failed' = TRUE
  /\ UNCHANGED <<delta, source, verify, done>>

Next == Produce \/ Skip \/ Fail

Spec == Init /\ [][Next]_vars
==============================================================================
