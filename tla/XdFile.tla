------------------------------- MODULE XdFile -------------------------------
(***************************************************************************)
(* The file handles of xdelta 1 (src/xdelta1/xdmain.c).  A file that is    *)
(* read for matching is mapped page by page: the handle keeps the pages    *)
(* it has mapped on a list ordered by use, counts their users and frees    *)
(* the page at the tail when it may map no more.  It takes the digest of   *)
(* the file on the way, from the pages that happen to be mapped in order.  *)
(* A file that is written is a stream whose length and digest start again  *)
(* with the first write after a close.                                     *)
(*                                                                         *)
(* A digest is the sequence of the bytes that went into it.  The list is   *)
(* kept as the code keeps it: "prev" leads to the page used before, and    *)
(* the tail, the page used longest ago, has none.                          *)
(***************************************************************************)
EXTENDS Integers, Sequences, SequencesExt

CONSTANTS PageSize,        \* XD_PAGE_SIZE
          MaxMappedPages,  \* max_mapped_pages
          LastPage         \* bound: the highest page of a file, and one more

ASSUME FileAssumptions ==
  PageSize \in Nat \ {0} /\ MaxMappedPages \in Nat \ {0} /\ LastPage \in Nat

Null == -1
PageNumbers == 0..LastPage

\* open_read_seek_handle (seek) and open_read_noseek_handle: the handle of a
\* file that is matched.
ReadHandle(data, seek) ==
  [data |-> data, seek |-> seek, head |-> Null, tail |-> Null, count |-> 0,
   next |-> [p \in PageNumbers |-> Null], prev |-> [p \in PageNumbers |-> Null],
   buffer |-> [p \in PageNumbers |-> FALSE], refs |-> [p \in PageNumbers |-> 0],
   md5_page |-> 0, hashed |-> <<>>, status |-> "ok"]

PagesOf(h) == Len(h.data) \div PageSize

OnPage(h, p) ==
  IF p > PagesOf(h) THEN -1
  ELSE IF p = PagesOf(h) THEN Len(h.data) % PageSize
  ELSE PageSize

OfPage(h, p) ==
  SubSeq(h.data, p * PageSize + 1, p * PageSize + OnPage(h, p))

Fails(h, how) == [h EXCEPT !.status = how]

(***************************************************************************)
(* The list of pages.                                                      *)
(***************************************************************************)

PullLruMutantTail(h, p) ==
  LET n == h.next[p] IN
  LET v == h.prev[p] IN
  [h EXCEPT !.next = [q \in PageNumbers |-> IF q = p THEN Null
                                            ELSE IF q = v THEN n ELSE @[q]],
            !.prev = [q \in PageNumbers |-> IF q = p THEN Null
                                            ELSE IF q = n THEN v ELSE @[q]],
            !.head = IF n = Null THEN v ELSE @]

PullLru(h, p) ==
  LET n == h.next[p] IN
  LET v == h.prev[p] IN
  [h EXCEPT !.next = [q \in PageNumbers |-> IF q = p THEN Null
                                            ELSE IF q = v THEN n ELSE @[q]],
            !.prev = [q \in PageNumbers |-> IF q = p THEN Null
                                            ELSE IF q = n THEN v ELSE @[q]],
            !.head = IF n = Null THEN v ELSE @,
            !.tail = IF v = Null THEN n ELSE @]

\* The search begins at the tail and goes to "prev", which the tail does not
\* have: it looks at one page only.
ReallyFreeOnePage(h) ==
  LET t == h.tail IN
  IF t = Null THEN h
  ELSE IF h.refs[t] > 0 THEN h
  ELSE IF ~h.buffer[t] THEN Fails(h, "abort")
  ELSE [PullLru(h, t) EXCEPT !.count = @ - 1, !.buffer[t] = FALSE]

MakeLruRoom(h) ==
  LET freed == IF h.count = MaxMappedPages THEN ReallyFreeOnePage(h) ELSE h IN
  IF freed.count < MaxMappedPages THEN freed ELSE Fails(freed, "abort")

PushHead(h, p) ==
  [h EXCEPT !.next = [q \in PageNumbers |-> IF q = p THEN Null
                                            ELSE IF q = h.head THEN p ELSE @[q]],
            !.prev[p] = h.head,
            !.head = p,
            !.tail = IF @ = Null THEN p ELSE @]

\* The page becomes the last of the list: the first to be freed.
PushTail(h, p) ==
  [h EXCEPT !.next[p] = h.tail,
            !.prev = [q \in PageNumbers |-> IF q = p THEN Null
                                            ELSE IF q = h.tail THEN p ELSE @[q]],
            !.tail = p]

(***************************************************************************)
(* Mapping and unmapping.                                                  *)
(***************************************************************************)

\* A page that is mapped for the first time in its turn goes into the digest.
Hashed(h, p, verify) ==
  IF p # h.md5_page THEN h
  ELSE [h EXCEPT !.md5_page = @ + 1,
                 !.hashed = IF verify THEN @ \o OfPage(h, p) ELSE @]

Mapped(h, p, verify) ==
  LET room == MakeLruRoom(h) IN
  IF room.status # "ok" THEN room
  ELSE Hashed([room EXCEPT !.count = @ + 1, !.buffer[p] = TRUE], p, verify)

MapPage(h, p, verify) ==
  LET listed == PushHead(IF h.buffer[p] THEN PullLru(h, p) ELSE h, p) IN
  IF OnPage(h, p) < 0 THEN Fails(listed, "failed")
  ELSE LET there == IF h.buffer[p] THEN listed ELSE Mapped(listed, p, verify) IN
       IF there.status # "ok" THEN there ELSE [there EXCEPT !.refs[p] = @ + 1]

UnmapPage(h, p) ==
  IF h.refs[p] = 0 \/ ~h.buffer[p] THEN Fails(h, "abort")
  ELSE LET left == [h EXCEPT !.refs[p] = @ - 1] IN
       IF left.refs[p] > 0 \/ h.seek THEN left
       ELSE ReallyFreeOnePage(PushTail(PullLru(left, p), p))

\* One turn of the loop of xd_handle_checksum_md5, which maps what the digest
\* still lacks.  A page that was mapped out of turn is added here.
Digested(h) == h.md5_page > PagesOf(h)

DigestPage(h, verify) ==
  LET p == h.md5_page IN
  LET there == MapPage(h, p, verify) IN
  IF there.status # "ok" THEN there
  ELSE UnmapPage(IF there.md5_page # p THEN there
                 ELSE [there EXCEPT !.md5_page = @ + 1, !.hashed = @ \o OfPage(h, p)], p)

(***************************************************************************)
(* The handle of a file that is written.  "writes" bounds the writes that  *)
(* succeed: the disk is full after them.                                   *)
(***************************************************************************)

WriteHandle(writes) ==
  [bytes |-> <<>>, reset |-> FALSE, hashed |-> <<>>, md5 |-> <<>>,
   file |-> <<>>, writes |-> writes, status |-> "ok"]

\* The length and the digest are those of the writes since the last close.
Since(o) == IF o.reset THEN <<>> ELSE o.bytes

HandleWrite(o, bytes, verify) ==
  IF o.writes = 0 THEN Fails(o, "failed")
  ELSE [o EXCEPT !.bytes = Since(o) \o bytes,
                 !.reset = FALSE,
                 !.hashed = IF verify THEN @ \o bytes ELSE @,
                 !.file = @ \o bytes,
                 !.writes = @ - 1]

HandleClose(o) ==
  [o EXCEPT !.bytes = Since(o), !.reset = TRUE, !.md5 = o.hashed, !.hashed = <<>>]

(***************************************************************************)
(* What a handle keeps.                                                    *)
(***************************************************************************)

Listed(h) == {p \in PageNumbers : h.buffer[p]}

\* The pages in the order of the list, from the head.
Order(h) ==
  LET walk[n \in 0..Cardinality(Listed(h))] ==
        IF n = 0 THEN <<>>
        ELSE LET so_far == walk[n - 1] IN
             LET p == IF so_far = <<>> THEN h.head ELSE h.prev[so_far[Len(so_far)]] IN
             IF p \in Listed(h) THEN Append(so_far, p) ELSE so_far
  IN walk[Cardinality(Listed(h))]

\* The list holds the mapped pages, each once, the same in both directions,
\* and no more of them than the handle may map.
ListSound(h) ==
  LET order == Order(h) IN
  /\ h.count = Cardinality(Listed(h)) /\ h.count <= MaxMappedPages
  /\ ToSet(order) = Listed(h)
  /\ h.head = (IF order = <<>> THEN Null ELSE order[1])
  /\ h.tail = (IF order = <<>> THEN Null ELSE order[Len(order)])
  /\ \A i \in 1..Len(order) :
       /\ h.next[order[i]] = (IF i = 1 THEN Null ELSE order[i - 1])
       /\ h.prev[order[i]] = (IF i = Len(order) THEN Null ELSE order[i + 1])
  /\ \A p \in PageNumbers : h.refs[p] > 0 => h.buffer[p]
=============================================================================
