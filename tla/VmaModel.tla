------------------------------- MODULE VmaModel -------------------------------
(***************************************************************************)
(* mem-map-viewer's model of an address space (vma_model.cpp): a list of   *)
(* regions and the start of the heap, as operators on the value of a       *)
(* VmaModel object, [regions, heap_base].                                  *)
(*                                                                         *)
(* The list is sorted by `begin' after every operation; it is a set here.  *)
(* A region's `content' stands for kind, permissions, source and label, of *)
(* which same_mapping_identity compares all but the offset.                *)
(***************************************************************************)
EXTENDS AddressSpace

Extent(r) == r.begin .. r.end - 1
Overlaps(r, begin, end) == r.begin < end /\ begin < r.end
SameIdentity(q, r) == q.content = r.content /\ q.provenance = r.provenance

\* Fault: regions that touch are merged whatever they are.
Touching(q, r) == q.end = r.begin
Joins(q, r) == q.end = r.begin /\ SameIdentity(q, r)

\* A chain of regions each of which joins the next becomes one region, with the
\* fields of the first and the end of the last.
SortAndMerge(R) ==
  LET heads == {r \in R : \A q \in R : ~Joins(q, r)}
      InChain(h, r) ==
        /\ h.begin <= r.begin
        /\ \A g \in heads : h.begin < g.begin => r.begin < g.begin
      IsLast(h, r) == InChain(h, r) /\ \A s \in R : InChain(h, s) => s.begin <= r.begin
  IN  {[x[1] EXCEPT !.end = x[2].end] : x \in {y \in heads \X R : IsLast(y[1], y[2])}}

\* What is left of a region when the pages in T are taken out of it.
Pieces(r, T) ==
  {[r EXCEPT !.begin = x[1], !.end = x[2]] :
     x \in {y \in Extent(r) \X (r.begin + 1 .. r.end) :
              /\ y[1] < y[2]
              /\ (y[1] .. y[2] - 1) \cap T = {}
              /\ y[1] = r.begin \/ y[1] - 1 \in T
              /\ y[2] = r.end \/ y[2] \in T}}

Cut(R, T) == UNION {Pieces(r, T) : r \in R}

Clip(r, begin, end) ==
  [r EXCEPT !.begin = IF r.begin < begin THEN begin ELSE r.begin,
            !.end = IF end < r.end THEN end ELSE r.end]

Clipped(R, begin, end) == {Clip(r, begin, end) : r \in {q \in R : Overlaps(q, begin, end)}}

UnmapRange(R, begin, end) ==
  IF begin >= end THEN R ELSE SortAndMerge(Cut(R, begin .. end - 1))

\* Fault: a region is added over what was there.
MapOver(R, r) == SortAndMerge(R \cup {r})

\* That unmap_range has merged what it left makes no difference to the merge
\* that follows, here and in RemapRange.
MapRegion(R, r) ==
  IF r.begin >= r.end THEN R ELSE SortAndMerge(Cut(R, Extent(r)) \cup {r})

ProtectRange(R, begin, end, write) ==
  IF begin >= end THEN R
  ELSE SortAndMerge(Cut(R, begin .. end - 1)
                    \cup {[r EXCEPT !.content.write = write, !.provenance = "event"] :
                            r \in Clipped(R, begin, end)})

\* A piece of the old range in the new one, whose end it must not pass.
Shifted(r, begin, to, to_end) ==
  LET first == r.begin - begin + to
      last == first + (r.end - r.begin)
  IN  [r EXCEPT !.begin = first, !.end = IF last < to_end THEN last ELSE to_end]

\* Where the new range is longer than the old one nothing is mapped.
Moved(R, begin, end, to, to_end) ==
  {Shifted(r, begin, to, to_end) :
     r \in {q \in Clipped(R, begin, end) : q.begin - begin < to_end - to}}

\* The pieces are mapped one by one; they are apart from each other.
RemapRange(R, begin, end, to, to_end, keep) ==
  LET kept == IF keep THEN R ELSE Cut(R, begin .. end - 1)
      moved == Moved(R, begin, end, to, to_end)
  IN  SortAndMerge(Cut(kept, UNION {Extent(r) : r \in moved}) \cup moved)

-----------------------------------------------------------------------------
Heaps(R) == {r \in R : r.content.kind = "heap"}
FirstHeap(R) == CHOOSE r \in Heaps(R) : \A q \in Heaps(R) : r.begin <= q.begin

ApplyBrk(m, break) ==
  IF Heaps(m.regions) # {}
  THEN LET heap == FirstHeap(m.regions)
           grown == IF break > heap.begin THEN [heap EXCEPT !.end = break] ELSE heap
       IN  [m EXCEPT !.regions = SortAndMerge((@ \ {heap}) \cup {grown})]
  ELSE IF m.heap_base = 0 THEN [m EXCEPT !.heap_base = break]
  ELSE IF break > m.heap_base
  THEN [m EXCEPT !.regions =
          MapRegion(@, [begin |-> m.heap_base, end |-> break, content |-> HeapPage,
                        provenance |-> "inferred"])]
  ELSE m

\* The constructor: regions read from /proc/<pid>/maps.
Seeded(pages) ==
  LET regions == {[begin |-> p, end |-> p + 1, content |-> pages[p], provenance |-> "seed"] :
                    p \in {q \in Page : pages[q] # Unmapped}}
  IN  [regions |-> SortAndMerge(regions),
       heap_base |-> IF Heaps(regions) # {} THEN FirstHeap(regions).begin ELSE 0]

\* VmaModel::apply, of the event of a successful call.
Applied(m, c) ==
  CASE c.name = "mmap" ->
         [m EXCEPT !.regions = MapRegion(@, [begin |-> c.begin, end |-> c.end,
                                             content |-> c.content, provenance |-> "event"])]
    [] c.name = "munmap" -> [m EXCEPT !.regions = UnmapRange(@, c.begin, c.end)]
    [] c.name = "mprotect" ->
         [m EXCEPT !.regions = ProtectRange(@, c.begin, c.end, c.content.write)]
    [] c.name = "mremap" ->
         [m EXCEPT !.regions = RemapRange(@, c.begin, c.end, c.to, c.to_end, c.keep)]
    [] c.name = "brk" -> ApplyBrk(m, c.to)
    [] c.name = "exec" -> [regions |-> {}, heap_base |-> 0]

\* The page map that a list of regions describes.
PagesOf(R) ==
  [p \in Page |-> IF \E r \in R : p \in Extent(r)
                  THEN (CHOOSE r \in R : p \in Extent(r)).content ELSE Unmapped]
=============================================================================
