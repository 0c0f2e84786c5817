----------------------------- MODULE AddressSpace -----------------------------
(***************************************************************************)
(* The address space of a process, page by page, and what the calls that   *)
(* mem-map-viewer traces (src/mem-map-viewer/src/tracer.cpp) do to it.     *)
(* External: this is the kernel's side, as far as tracer.cpp and           *)
(* vma_model.cpp rely on it.                                               *)
(*                                                                         *)
(* An address is the number of a page; lengths are whole pages.  Address 0 *)
(* is never mapped.  A mapping is its kind, which stands for source and    *)
(* label, and whether it is writable; other permissions and file offsets   *)
(* are left out.                                                           *)
(***************************************************************************)
EXTENDS Integers

CONSTANTS
  MaxPage,   \* pages are 1 .. MaxPage
  HeapStart  \* the break of a new image

ASSUME AddressAssumption ==
  /\ MaxPage \in Nat
  /\ HeapStart \in 1 .. MaxPage

Page == 1 .. MaxPage
Address == 1 .. MaxPage + 1

Kind == {"file", "anon", "heap"}
Content == [kind : Kind, write : BOOLEAN]
Unmapped == [kind |-> "none", write |-> FALSE]
FilePage == [kind |-> "file", write |-> FALSE]
AnonPage == [kind |-> "anon", write |-> TRUE]
HeapPage == [kind |-> "heap", write |-> TRUE]
PageTable == [Page -> Content \cup {Unmapped}]

\* What execve maps: a file below the break, nothing above.
Image == [p \in Page |-> IF p < HeapStart THEN FilePage ELSE Unmapped]

PagesIn(begin, end) == {p \in Page : begin <= p /\ p < end}
AllMapped(pages, begin, end) == \A p \in PagesIn(begin, end) : pages[p] # Unmapped
NoneMapped(pages, begin, end) == \A p \in PagesIn(begin, end) : pages[p] = Unmapped

-----------------------------------------------------------------------------
(* Calls.  mremap moves [begin, end) to [to, to_end) and leaves the old range *)
(* mapped if `keep' (MREMAP_DONTUNMAP).  brk has the new break in `to', and   *)
(* between `begin' and `end' what it maps or unmaps.                          *)

CallNames == {"mmap", "munmap", "mprotect", "mremap", "brk", "exec"}

Call == [name : CallNames, begin : Address, end : Address,
         to : Address \cup {0}, to_end : Address \cup {0}, keep : BOOLEAN,
         content : Content \cup {Unmapped}]

NoCall == [name |-> "none", begin |-> 0, end |-> 0, to |-> 0, to_end |-> 0,
           keep |-> FALSE, content |-> Unmapped]

OnRange(name, begin, end) ==
  [NoCall EXCEPT !.name = name, !.begin = begin, !.end = end]

Exec == OnRange("exec", 1, MaxPage + 1)

Footprint(c) == PagesIn(c.begin, c.end) \cup PagesIn(c.to, c.to_end)

\* The range [begin, end) after it was moved to [to, to_end): a page of the new
\* range has what its old page had, or, where the mapping grew, what the first
\* page had.
Remapped(pages, c) ==
  LET old(p) == IF p - c.to < c.end - c.begin THEN p - c.to + c.begin ELSE c.begin
      left(p) == p \in PagesIn(c.begin, c.end) /\ ~c.keep
  IN  [p \in Page |-> IF p \in PagesIn(c.to, c.to_end) /\ pages[old(p)] # Unmapped
                      THEN pages[old(p)]
                      ELSE IF left(p) THEN Unmapped ELSE pages[p]]

\* The heap is what lies between its start and the break.
HeapUpTo(pages, break) ==
  [p \in Page |-> IF p \in PagesIn(HeapStart, break) THEN HeapPage
                  ELSE IF pages[p].kind = "heap" THEN Unmapped ELSE pages[p]]

\* What a successful call makes of an address space.
After(pages, c) ==
  CASE c.name = "mmap" ->
         [p \in Page |-> IF p \in PagesIn(c.begin, c.end) THEN c.content ELSE pages[p]]
    [] c.name = "munmap" ->
         [p \in Page |-> IF p \in PagesIn(c.begin, c.end) THEN Unmapped ELSE pages[p]]
    [] c.name = "mprotect" ->
         [p \in Page |-> IF p \in PagesIn(c.begin, c.end) /\ pages[p] # Unmapped
                         THEN [pages[p] EXCEPT !.write = c.content.write] ELSE pages[p]]
    [] c.name = "mremap" -> Remapped(pages, c)
    [] c.name = "brk" -> HeapUpTo(pages, c.to)
    [] c.name = "exec" -> Image
    [] OTHER -> pages

-----------------------------------------------------------------------------
(* The calls that succeed on `pages' (mprotect and mremap need every page of  *)
(* the range mapped; a partial mprotect, which changes the pages before the   *)
(* first hole and fails, is left out).                                        *)

Ranges == {r \in Address \X Address : r[1] < r[2]}

MmapCalls ==
  {[OnRange("mmap", r[1], r[2]) EXCEPT !.content = c] : r \in Ranges, c \in {AnonPage, FilePage}}

MunmapCalls == {OnRange("munmap", r[1], r[2]) : r \in Ranges}

MprotectCalls(pages) ==
  {[OnRange("mprotect", r[1], r[2]) EXCEPT !.content = c] :
     r \in {x \in Ranges : AllMapped(pages, x[1], x[2])},
     c \in {AnonPage, [AnonPage EXCEPT !.write = FALSE]}}

\* In place (only the tail is cut off or added) or to a range that does not
\* overlap; growing needs one mapping, MREMAP_DONTUNMAP an anonymous one.
MremapCalls(pages) ==
  LET Same(r) == \A p, q \in PagesIn(r[1], r[2]) : pages[p] = pages[q]
      InPlace(r, n) == r[1] = n[1] /\ r[2] # n[2] /\ NoneMapped(pages, r[2], n[2])
      Apart(r, n) == r[2] <= n[1] \/ n[2] <= r[1]
      Possible(r, n, keep) ==
        /\ AllMapped(pages, r[1], r[2])
        /\ (InPlace(r, n) /\ ~keep) \/ Apart(r, n)
        /\ n[2] - n[1] > r[2] - r[1] => Same(r)
        /\ keep => /\ n[2] - n[1] = r[2] - r[1]
                   /\ \A p \in PagesIn(r[1], r[2]) : pages[p].kind = "anon"
  IN  {[OnRange("mremap", x[1][1], x[1][2]) EXCEPT !.to = x[2][1], !.to_end = x[2][2],
                                                   !.keep = x[3]] :
         x \in {y \in Ranges \X Ranges \X BOOLEAN : Possible(y[1], y[2], y[3])}}

\* brk(0), and a move of a break that the program has asked for before.
BrkQuery(break) == [OnRange("brk", break, break) EXCEPT !.to = break]

BrkCalls(pages, break) ==
  {[OnRange("brk", IF break < b THEN break ELSE b, IF break < b THEN b ELSE break)
      EXCEPT !.to = b] :
     b \in {x \in HeapStart .. MaxPage + 1 : x # break /\ NoneMapped(pages, break, x)}}

Grows(c) == c.name = "mremap" /\ c.to_end - c.to > c.end - c.begin
=============================================================================
