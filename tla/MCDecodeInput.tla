---------------------------- MODULE MCDecodeInput ----------------------------
(* Deltas for model checking DecodeInput. *)
EXTENDS DecodeInput

\* Copies that cross source blocks, an overlapping copy in the target, a run
\* and an ADD with lengths of one and of two bytes, in double and in single
\* instructions; then a window without source and without checksum.
TwoWindows ==
  [secondary |-> FALSE, appheader |-> -1, windows |-> <<
    [cpylen |-> 9, cpyoff |-> 1, adler |-> TRUE, insts |-> <<
      <<Add(1, FALSE), Cpy(6, 1, FALSE)>>,
      <<Run(3), NOOP>>,
      <<Cpy(4, 18, TRUE), NOOP>>,
      <<Cpy(9, 0, TRUE), NOOP>> >>],
    [cpylen |-> 0, cpyoff |-> 0, adler |-> FALSE, insts |-> <<
      <<Add(2, FALSE), NOOP>>, <<Run(9), NOOP>> >>] >>]

\* An empty target, with every optional part of the header.
Empty ==
  [secondary |-> TRUE, appheader |-> 2, windows |-> <<
    [cpylen |-> 0, cpyoff |-> 0, adler |-> TRUE, insts |-> <<>>] >>]

\* A source segment that ends with the source, unchecked; one that no
\* instruction uses; and a checked copy.  The application header is empty.
Sourced ==
  [secondary |-> FALSE, appheader |-> 0, windows |-> <<
    [cpylen |-> 5, cpyoff |-> 7, adler |-> FALSE, insts |-> << <<Cpy(5, 0, FALSE), NOOP>> >>],
    [cpylen |-> 1, cpyoff |-> 0, adler |-> TRUE,  insts |-> << <<Add(1, FALSE), NOOP>> >>],
    [cpylen |-> 2, cpyoff |-> 3, adler |-> TRUE,  insts |-> << <<Cpy(2, 0, FALSE), NOOP>> >>] >>]

MCDeltas == <<TwoWindows, Empty, Sourced>>
==============================================================================
