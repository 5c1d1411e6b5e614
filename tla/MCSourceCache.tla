---------------------------- MODULE MCSourceCache ----------------------------
(* Sources for model checking SourceCache. *)
EXTENDS SourceCache

Source(kinds, sizes, slots, past_end, seek_errors) ==
  [kind : kinds, size : sizes, slots : {slots}, past_end : {past_end}, seek_errors : {seek_errors}]

\* Lengths around a block and around the window of four blocks, the length
\* of a window and a half; an application that answers XD3_GETSRCBLK; a file in
\* which a seek fails; a device with two buffers, which is read far ahead and back;
\* and sources that end before the block that is wanted.
MCSources ==
  Source({"file", "pipe", "device"}, {0, 3, 7, 8, 9, 12}, 4, FALSE, FALSE) \cup
  Source({"app"}, {2, 3, 7}, 4, FALSE, FALSE) \cup
  Source({"file"}, {4, 9}, 2, FALSE, TRUE) \cup
  Source({"device"}, {9, 12}, 2, FALSE, FALSE) \cup
  Source({"file", "pipe"}, {4, 9}, 2, TRUE, FALSE) \cup
  Source({"file"}, {9}, 2, TRUE, TRUE)

\* Seekable, but of a length that cannot be told.
UnsizedDevices == Source({"device"}, {9}, 4, FALSE, FALSE)

\* A pipe that ends in the middle of a block.
ShortPipes == Source({"pipe"}, {9}, 4, TRUE, FALSE)
==============================================================================
