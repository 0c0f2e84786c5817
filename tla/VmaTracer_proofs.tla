--------------------------- MODULE VmaTracer_proofs ---------------------------
(***************************************************************************)
(* The regions of mem-map-viewer's model never overlap, whatever calls the *)
(* traced threads make, in whatever order they are applied, as long as the *)
(* break is not moved.  And the list of regions implements the page map:   *)
(* every operation of VmaModel does to the pages what the call does to     *)
(* them.  From there to the tracer: it implements PageMap, and its model   *)
(* agrees with the kernel, for every set of threads and every size of the  *)
(* address space.                                                          *)
(***************************************************************************)
EXTENDS VmaTracer, TLAPS, WellFoundedInduction

(* A record with the fields of a region, whatever their values.            *)
IsRegion(r) ==
  /\ r = [f \in {"begin", "end", "content", "provenance"} |-> r[f]]
  /\ r.begin \in Int
  /\ r.end \in Int
  /\ r.begin < r.end

Before(q, r) == q.end <= r.begin

Apart(R) ==
  /\ \A r \in R : IsRegion(r)
  /\ \A q, r \in R : q = r \/ Before(q, r) \/ Before(r, q)

(* A region whose bounds are replaced has these bounds.                     *)
LEMMA BoundsReplaced ==
  ASSUME NEW r, IsRegion(r), NEW b \in Int, NEW e \in Int, b < e,
         NEW x, x = [r EXCEPT !.begin = b, !.end = e]
  PROVE  IsRegion(x) /\ x.begin = b /\ x.end = e
BY DEF IsRegion

(* A region whose end is replaced keeps its begin.                          *)
LEMMA EndReplaced ==
  ASSUME NEW r, IsRegion(r), NEW e \in Int, r.begin < e,
         NEW x, x = [r EXCEPT !.end = e]
  PROVE  IsRegion(x) /\ x.begin = r.begin /\ x.end = e
BY DEF IsRegion

(* A region whose permissions change keeps its bounds.                      *)
LEMMA RegionProtected ==
  ASSUME NEW r, IsRegion(r), NEW w,
         NEW x, x = [r EXCEPT !.content.write = w, !.provenance = "event"]
  PROVE  IsRegion(x) /\ x.begin = r.begin /\ x.end = r.end
BY DEF IsRegion

(* Two sets of regions that are apart, and apart from each other, are apart *)
(* together.                                                                *)
LEMMA UnionApart ==
  ASSUME NEW A, NEW B, Apart(A), Apart(B),
         \A a \in A, b \in B : Before(a, b) \/ Before(b, a)
  PROVE  Apart(A \cup B)
BY DEF Apart

(* Regions that avoid every page of another region are before or after it.  *)
LEMMA AvoidsIsApart ==
  ASSUME NEW q, NEW r, IsRegion(q), IsRegion(r), Extent(q) \cap Extent(r) = {}
  PROVE  Before(q, r) \/ Before(r, q)
<1>1. q.begin \in Extent(q) /\ r.begin \in Extent(r)
  BY DEF Extent, IsRegion
<1>2. CASE q.begin <= r.begin
  <2>1. r.begin \notin Extent(q)
    BY <1>1
  <2> QED
    BY <2>1, <1>2 DEF Extent, IsRegion, Before
<1>3. CASE r.begin <= q.begin
  <2>1. q.begin \notin Extent(r)
    BY <1>1
  <2> QED
    BY <2>1, <1>3 DEF Extent, IsRegion, Before
<1>4. q.begin \in Int /\ r.begin \in Int
  BY DEF IsRegion
<1> QED
  BY <1>2, <1>3, <1>4

(* Regions that are before or after each other share no page.               *)
LEMMA ApartIsDisjoint ==
  ASSUME NEW q, NEW r, IsRegion(q), IsRegion(r), Before(q, r) \/ Before(r, q)
  PROVE  Extent(q) \cap Extent(r) = {}
BY DEF Extent, IsRegion, Before

-----------------------------------------------------------------------------
(* Merging regions that are apart leaves regions that are apart: a chain     *)
(* ends before the next one begins.                                          *)
LEMMA MergeApart ==
  ASSUME NEW R, Apart(R)
  PROVE  Apart(SortAndMerge(R))
<1> DEFINE heads == {r \in R : \A q \in R : ~Joins(q, r)}
           InChain(h, r) ==
             /\ h.begin <= r.begin
             /\ \A g \in heads : h.begin < g.begin => r.begin < g.begin
           IsLast(h, r) == InChain(h, r) /\ \A s \in R : InChain(h, s) => s.begin <= r.begin
           Made(x, h, r) == x = [h EXCEPT !.end = r.end]
<1>1. \A x \in SortAndMerge(R) : \E h \in heads, r \in R : IsLast(h, r) /\ Made(x, h, r)
  BY DEF SortAndMerge
<1>2. \A h, r \in R : h.begin = r.begin => h = r
  BY DEF Apart, IsRegion, Before
<1>3. ASSUME NEW x, NEW h \in heads, NEW r \in R, IsLast(h, r), Made(x, h, r)
      PROVE  IsRegion(x) /\ x.begin = h.begin /\ x.end = r.end
  <2>1. IsRegion(h) /\ IsRegion(r) /\ h.begin < r.end
    BY <1>3 DEF Apart, IsRegion
  <2>2. r.end \in Int
    BY <2>1 DEF IsRegion
  <2> QED
    BY <2>1, <2>2, <1>3, EndReplaced
<1>4. ASSUME NEW h \in heads, NEW r \in R, NEW g \in heads, IsLast(h, r), h.begin < g.begin
      PROVE  r.end <= g.begin
  <2>1. r.begin < g.begin
    BY <1>4
  <2>2. r # g /\ ~Before(g, r)
    BY <2>1 DEF Apart, IsRegion, Before
  <2> QED
    BY <2>2 DEF Apart, Before
<1>5. ASSUME NEW x \in SortAndMerge(R), NEW y \in SortAndMerge(R)
      PROVE  IsRegion(x) /\ (x = y \/ Before(x, y) \/ Before(y, x))
  <2>1. PICK h \in heads, r \in R : IsLast(h, r) /\ Made(x, h, r)
    BY <1>1
  <2>2. PICK g \in heads, s \in R : IsLast(g, s) /\ Made(y, g, s)
    BY <1>1
  <2>3. IsRegion(x) /\ x.begin = h.begin /\ x.end = r.end
    BY <2>1, <1>3
  <2>4. IsRegion(y) /\ y.begin = g.begin /\ y.end = s.end
    BY <2>2, <1>3
  <2>5. CASE h.begin < g.begin
    BY <2>5, <2>1, <2>3, <2>4, <1>4 DEF Before
  <2>6. CASE g.begin < h.begin
    BY <2>6, <2>2, <2>3, <2>4, <1>4 DEF Before
  <2>7. CASE h.begin = g.begin
    <3>1. h = g
      BY <2>7, <1>2
    <3>2. r.begin = s.begin
      <4>1. r.begin \in Int /\ s.begin \in Int
        BY DEF Apart, IsRegion
      <4> QED
        BY <3>1, <2>1, <2>2, <4>1
    <3>3. r = s
      BY <3>2, <1>2
    <3> QED
      BY <3>1, <3>3, <2>1, <2>2, <2>3
  <2>8. h.begin \in Int /\ g.begin \in Int
    BY DEF Apart, IsRegion
  <2> QED
    BY <2>3, <2>5, <2>6, <2>7, <2>8
<1> QED
  BY <1>5 DEF Apart

(* Taking pages out of regions that are apart leaves regions that are apart  *)
(* and have none of these pages.                                             *)
LEMMA CutApart ==
  ASSUME NEW R, NEW T, Apart(R)
  PROVE  /\ Apart(Cut(R, T))
         /\ \A x \in Cut(R, T) : Extent(x) \cap T = {}
<1> DEFINE Fits(r, b, e) ==
             /\ b \in r.begin .. r.end - 1
             /\ e \in r.begin + 1 .. r.end
             /\ b < e
             /\ (b .. e - 1) \cap T = {}
             /\ b = r.begin \/ b - 1 \in T
             /\ e = r.end \/ e \in T
<1>1. \A x \in Cut(R, T) : \E r \in R : x \in Pieces(r, T)
  BY DEF Cut
<1>2. ASSUME NEW r \in R, NEW x \in Pieces(r, T)
      PROVE  /\ IsRegion(x)
             /\ Fits(r, x.begin, x.end)
             /\ r.begin <= x.begin /\ x.end <= r.end
             /\ x = [r EXCEPT !.begin = x.begin, !.end = x.end]
  <2>1. PICK b \in Extent(r), e \in r.begin + 1 .. r.end :
          Fits(r, b, e) /\ x = [r EXCEPT !.begin = b, !.end = e]
    BY <1>2 DEF Pieces, Extent
  <2>2. IsRegion(r) /\ b \in Int /\ e \in Int /\ b < e
    BY <2>1 DEF Apart, IsRegion, Extent
  <2>3. IsRegion(x) /\ x.begin = b /\ x.end = e
    <3>1. x = [r EXCEPT !.begin = b, !.end = e]
      BY <2>1
    <3> QED
      BY <3>1, <2>2 DEF IsRegion
  <2> QED
    BY <2>1, <2>3, <2>2
<1>3. ASSUME NEW r \in R, NEW b \in Int, NEW e \in Int, NEW c \in Int, NEW d \in Int,
             Fits(r, b, e), Fits(r, c, d), b < c
      PROVE  e <= c
  <2>1. r.begin \in Int /\ r.end \in Int
    BY DEF Apart, IsRegion
  <2>2. c - 1 \in T
    BY <1>3, <2>1
  <2>3. c - 1 \notin b .. e - 1
    BY <1>3, <2>2
  <2> QED
    BY <2>1, <2>3, <1>3
<1>4. ASSUME NEW r \in R, NEW b \in Int, NEW e \in Int, NEW d \in Int,
             Fits(r, b, e), Fits(r, b, d), e < d
      PROVE  FALSE
  <2>1. r.begin \in Int /\ r.end \in Int
    BY DEF Apart, IsRegion
  <2>2. e \in T /\ e \in b .. d - 1
    BY <1>4, <2>1
  <2> QED
    BY <1>4, <2>2
<1>5. ASSUME NEW r \in R, NEW x \in Pieces(r, T)
      PROVE  Extent(x) \cap T = {}
  BY <1>5, <1>2 DEF Extent
<1> HIDE DEF Fits
<1>6. ASSUME NEW x \in Cut(R, T), NEW y \in Cut(R, T)
      PROVE  /\ IsRegion(x)
             /\ Extent(x) \cap T = {}
             /\ x = y \/ Before(x, y) \/ Before(y, x)
  <2>1. PICK r \in R : x \in Pieces(r, T)
    BY <1>1
  <2>2. PICK s \in R : y \in Pieces(s, T)
    BY <1>1
  <2>3. /\ IsRegion(x) /\ Fits(r, x.begin, x.end)
        /\ r.begin <= x.begin /\ x.end <= r.end
    BY <2>1, <1>2
  <2>4. /\ IsRegion(y) /\ Fits(s, y.begin, y.end)
        /\ s.begin <= y.begin /\ y.end <= s.end
    BY <2>2, <1>2
  <2>5. x.begin \in Int /\ x.end \in Int /\ y.begin \in Int /\ y.end \in Int
    BY <2>3, <2>4 DEF IsRegion
  <2>6. /\ x = [r EXCEPT !.begin = x.begin, !.end = x.end]
        /\ y = [s EXCEPT !.begin = y.begin, !.end = y.end]
    BY <2>1, <2>2, <1>2
  <2>7. ASSUME r # s
        PROVE  Before(x, y) \/ Before(y, x)
    <3>1. Before(r, s) \/ Before(s, r)
      BY <2>7 DEF Apart
    <3>2. r.begin \in Int /\ r.end \in Int /\ s.begin \in Int /\ s.end \in Int
      BY DEF Apart, IsRegion
    <3> QED
      BY <3>1, <3>2, <2>3, <2>4, <2>5 DEF Before
  <2>8. ASSUME r = s
        PROVE  x = y \/ Before(x, y) \/ Before(y, x)
    <3>1. CASE x.begin # y.begin
      BY <3>1, <2>3, <2>4, <2>5, <2>8, <1>3 DEF Before
    <3>2. CASE x.begin = y.begin
      <4>1. x.end = y.end
        BY <3>2, <2>3, <2>4, <2>5, <2>8, <1>4
      <4> QED
        BY <4>1, <3>2, <2>6, <2>8
    <3> QED
      BY <3>1, <3>2
  <2> QED
    BY <2>1, <2>3, <2>7, <2>8, <1>5
<1> QED
  BY <1>6 DEF Apart

(* Clipping regions that are apart to a range leaves regions that are apart  *)
(* and in the range.                                                         *)
LEMMA ClippedApart ==
  ASSUME NEW R, Apart(R), NEW b \in Int, NEW e \in Int, b < e
  PROVE  /\ Apart(Clipped(R, b, e))
         /\ \A x \in Clipped(R, b, e) : b <= x.begin /\ x.end <= e
<1>1. \A x \in Clipped(R, b, e) : \E r \in R : Overlaps(r, b, e) /\ x = Clip(r, b, e)
  BY DEF Clipped
<1>2. ASSUME NEW r \in R, Overlaps(r, b, e), NEW x, x = Clip(r, b, e)
      PROVE  /\ IsRegion(x)
             /\ r.begin <= x.begin /\ x.end <= r.end
             /\ b <= x.begin /\ x.end <= e
  <2> DEFINE first == IF r.begin < b THEN b ELSE r.begin
             last == IF e < r.end THEN e ELSE r.end
  <2>1. IsRegion(r) /\ r.begin \in Int /\ r.end \in Int /\ r.begin < r.end
    BY DEF Apart, IsRegion
  <2>2. /\ first \in Int /\ last \in Int /\ first < last
        /\ r.begin <= first /\ last <= r.end /\ b <= first /\ last <= e
    BY <2>1, <1>2 DEF Overlaps
  <2>3. x = [r EXCEPT !.begin = first, !.end = last]
    BY <1>2 DEF Clip
  <2> HIDE DEF first, last
  <2>4. IsRegion(x) /\ x.begin = first /\ x.end = last
    BY <2>1, <2>2, <2>3 DEF IsRegion
  <2> QED
    BY <2>2, <2>4
<1>3. ASSUME NEW x \in Clipped(R, b, e), NEW y \in Clipped(R, b, e)
      PROVE  /\ IsRegion(x) /\ b <= x.begin /\ x.end <= e
             /\ x = y \/ Before(x, y) \/ Before(y, x)
  <2>1. PICK r \in R : Overlaps(r, b, e) /\ x = Clip(r, b, e)
    BY <1>1
  <2>2. PICK s \in R : Overlaps(s, b, e) /\ y = Clip(s, b, e)
    BY <1>1
  <2>3. IsRegion(x) /\ r.begin <= x.begin /\ x.end <= r.end /\ b <= x.begin /\ x.end <= e
    BY <2>1, <1>2
  <2>4. IsRegion(y) /\ s.begin <= y.begin /\ y.end <= s.end
    BY <2>2, <1>2
  <2>5. r = s => x = y
    BY <2>1, <2>2
  <2>6. r = s \/ Before(r, s) \/ Before(s, r)
    BY DEF Apart
  <2>7. /\ r.begin \in Int /\ r.end \in Int /\ s.begin \in Int /\ s.end \in Int
        /\ x.begin \in Int /\ x.end \in Int /\ y.begin \in Int /\ y.end \in Int
    BY <2>3, <2>4 DEF Apart, IsRegion
  <2>8. x = y \/ Before(x, y) \/ Before(y, x)
    BY <2>3, <2>4, <2>5, <2>6, <2>7 DEF Before
  <2> QED
    BY <2>3, <2>8
<1> QED
  BY <1>3 DEF Apart

(* Shifting regions that are apart, and cutting off what does not fit, keeps *)
(* them apart.                                                               *)
LEMMA MovedApart ==
  ASSUME NEW R, Apart(R), NEW b \in Int, NEW e \in Int, b < e,
         NEW to \in Int, NEW to_end \in Int
  PROVE  Apart(Moved(R, b, e, to, to_end))
<1> DEFINE C == Clipped(R, b, e)
           Fits(r) == r.begin - b < to_end - to
<1>1. \A x \in Moved(R, b, e, to, to_end) :
        \E r \in C : Fits(r) /\ x = Shifted(r, b, to, to_end)
  BY DEF Moved
<1>2. Apart(C)
  BY ClippedApart
<1> HIDE DEF C
<1>3. ASSUME NEW r \in C, Fits(r), NEW x, x = Shifted(r, b, to, to_end)
      PROVE  /\ IsRegion(x)
             /\ x.begin = r.begin - b + to
             /\ x.end <= r.end - b + to
  <2> DEFINE first == r.begin - b + to
             end == first + (r.end - r.begin)
             last == IF end < to_end THEN end ELSE to_end
  <2>1. IsRegion(r) /\ r.begin \in Int /\ r.end \in Int /\ r.begin < r.end
    BY <1>2 DEF Apart, IsRegion
  <2>2. /\ first \in Int /\ last \in Int /\ first < last
        /\ last <= r.end - b + to
    BY <2>1, <1>3
  <2>3. x = [r EXCEPT !.begin = first, !.end = last]
    BY <1>3 DEF Shifted
  <2>4. first = r.begin - b + to
    OBVIOUS
  <2> HIDE DEF first, last
  <2>5. IsRegion(x) /\ x.begin = first /\ x.end = last
    BY <2>1, <2>2, <2>3 DEF IsRegion
  <2> QED
    BY <2>2, <2>4, <2>5
<1>4. ASSUME NEW x \in Moved(R, b, e, to, to_end), NEW y \in Moved(R, b, e, to, to_end)
      PROVE  IsRegion(x) /\ (x = y \/ Before(x, y) \/ Before(y, x))
  <2>1. PICK r \in C : Fits(r) /\ x = Shifted(r, b, to, to_end)
    BY <1>1
  <2>2. PICK s \in C : Fits(s) /\ y = Shifted(s, b, to, to_end)
    BY <1>1
  <2> HIDE DEF Fits
  <2>3. IsRegion(x) /\ x.begin = r.begin - b + to /\ x.end <= r.end - b + to
    BY <2>1, <1>3
  <2>4. IsRegion(y) /\ y.begin = s.begin - b + to /\ y.end <= s.end - b + to
    BY <2>2, <1>3
  <2>5. r = s => x = y
    BY <2>1, <2>2
  <2>6. r = s \/ Before(r, s) \/ Before(s, r)
    BY <1>2 DEF Apart
  <2>7. /\ r.begin \in Int /\ r.end \in Int /\ s.begin \in Int /\ s.end \in Int
        /\ x.begin \in Int /\ x.end \in Int /\ y.begin \in Int /\ y.end \in Int
    BY <1>2, <2>3, <2>4 DEF Apart, IsRegion
  <2>8. x = y \/ Before(x, y) \/ Before(y, x)
    BY <2>3, <2>4, <2>5, <2>6, <2>7 DEF Before
  <2> QED
    BY <2>3, <2>8
<1> QED
  BY <1>4 DEF Apart

-----------------------------------------------------------------------------
(* The operations of the model.                                              *)

(* unmap_range                                                               *)
LEMMA UnmapApart ==
  ASSUME NEW R, Apart(R), NEW b, NEW e
  PROVE  Apart(UnmapRange(R, b, e))
BY CutApart, MergeApart DEF UnmapRange

(* Regions with pages taken out, and regions on these pages.                 *)
LEMMA ReplacedApart ==
  ASSUME NEW R, Apart(R), NEW N, Apart(N), NEW T, \A r \in N : Extent(r) \subseteq T
  PROVE  Apart(SortAndMerge(Cut(R, T) \cup N))
<1>1. Apart(Cut(R, T)) /\ \A x \in Cut(R, T) : Extent(x) \cap T = {}
  BY CutApart
<1>2. ASSUME NEW x \in Cut(R, T), NEW r \in N
      PROVE  Before(x, r) \/ Before(r, x)
  <2>1. IsRegion(x) /\ IsRegion(r)
    BY <1>1 DEF Apart
  <2>2. Extent(x) \cap Extent(r) = {}
    BY <1>1
  <2> QED
    BY <2>1, <2>2, AvoidsIsApart
<1>3. Apart(Cut(R, T) \cup N)
  BY <1>1, <1>2, UnionApart
<1> QED
  BY <1>3, MergeApart

(* map_region                                                                *)
LEMMA MapApart ==
  ASSUME NEW R, Apart(R), NEW b \in Int, NEW e \in Int, NEW c, NEW p
  PROVE  Apart(MapRegion(R, [begin |-> b, end |-> e, content |-> c, provenance |-> p]))
<1> DEFINE r == [begin |-> b, end |-> e, content |-> c, provenance |-> p]
<1>1. CASE b >= e
  BY <1>1 DEF MapRegion
<1>2. CASE ~(b >= e)
  <2>1. IsRegion(r)
    BY <1>2 DEF IsRegion
  <2>2. r.begin = b /\ r.end = e
    OBVIOUS
  <2> HIDE DEF r
  <2>3. Apart({r})
    BY <2>1 DEF Apart
  <2>4. Apart(SortAndMerge(Cut(R, Extent(r)) \cup {r}))
    BY <2>3, ReplacedApart
  <2>5. MapRegion(R, r) = SortAndMerge(Cut(R, Extent(r)) \cup {r})
    BY <1>2, <2>2 DEF MapRegion
  <2>6. Apart(MapRegion(R, r))
    BY <2>4, <2>5
  <2> QED
    BY <2>6 DEF r
<1> QED
  BY <1>1, <1>2

(* protect_range                                                             *)
LEMMA ProtectApart ==
  ASSUME NEW R, Apart(R), NEW b \in Int, NEW e \in Int, NEW w
  PROVE  Apart(ProtectRange(R, b, e, w))
<1> DEFINE Changed(r) == [r EXCEPT !.content.write = w, !.provenance = "event"]
           N == {Changed(r) : r \in Clipped(R, b, e)}
<1>1. CASE b >= e
  BY <1>1 DEF ProtectRange
<1>2. CASE ~(b >= e)
  <2>1. /\ Apart(Clipped(R, b, e))
        /\ \A x \in Clipped(R, b, e) : b <= x.begin /\ x.end <= e
    BY <1>2, ClippedApart
  <2>2. ASSUME NEW r \in Clipped(R, b, e), NEW x, x = Changed(r)
        PROVE  IsRegion(x) /\ x.begin = r.begin /\ x.end = r.end
    BY <2>1, <2>2, RegionProtected DEF Apart
  <2> HIDE DEF Changed
  <2>3. Apart(N)
    BY <2>1, <2>2 DEF Apart, Before
  <2>4. ASSUME NEW x \in N
        PROVE  Extent(x) \subseteq b .. e - 1
    <3>1. IsRegion(x) /\ b <= x.begin /\ x.end <= e
      BY <2>1, <2>2
    <3> QED
      BY <3>1 DEF Extent, IsRegion
  <2>5. Apart(SortAndMerge(Cut(R, b .. e - 1) \cup N))
    BY <2>3, <2>4, ReplacedApart
  <2>6. ProtectRange(R, b, e, w) = SortAndMerge(Cut(R, b .. e - 1) \cup N)
    BY <1>2 DEF ProtectRange, Changed
  <2> QED
    BY <2>5, <2>6
<1> QED
  BY <1>1, <1>2

(* remap_range                                                               *)
LEMMA RemapApart ==
  ASSUME NEW R, Apart(R), NEW b \in Int, NEW e \in Int, b < e,
         NEW to \in Int, NEW to_end \in Int, NEW keep
  PROVE  Apart(RemapRange(R, b, e, to, to_end, keep))
<1> DEFINE kept == IF keep THEN R ELSE Cut(R, b .. e - 1)
           moved == Moved(R, b, e, to, to_end)
           T == UNION {Extent(r) : r \in moved}
<1>1. Apart(kept)
  BY CutApart
<1>2. Apart(moved)
  BY MovedApart
<1>3. RemapRange(R, b, e, to, to_end, keep) = SortAndMerge(Cut(kept, T) \cup moved)
  BY DEF RemapRange
<1> HIDE DEF kept, moved
<1>4. \A r \in moved : Extent(r) \subseteq T
  OBVIOUS
<1> HIDE DEF T
<1> QED
  BY <1>1, <1>2, <1>3, <1>4, ReplacedApart

(* The constructor.                                                          *)
LEMMA SeededApart ==
  ASSUME NEW pg
  PROVE  Apart(Seeded(pg).regions)
<1> DEFINE regions == {[begin |-> p, end |-> p + 1, content |-> pg[p], provenance |-> "seed"] :
                         p \in {q \in Page : pg[q] # Unmapped}}
<1>1. Page \subseteq Int
  BY AddressAssumption DEF Page
<1>2. Apart(regions)
  BY <1>1 DEF Apart, IsRegion, Before
<1>3. Seeded(pg).regions = SortAndMerge(regions)
  BY DEF Seeded
<1> QED
  BY <1>2, <1>3, MergeApart

-----------------------------------------------------------------------------
(* The trace loop.                                                           *)

(* Calls with a range, other than brk, and what a thread may hold of them.   *)
RangedCall == {c \in Call : c.begin < c.end /\ c.name # "brk"}
Held == RangedCall \cup {NoCall}

CallsRanged ==
  thread \in [Tid -> [at : {"user", "entry", "kernel", "exit", "exec", "dead", "reaped"},
                      call : Held]]
ModelApart ==
  /\ model = [regions |-> model.regions, heap_base |-> model.heap_base]
  /\ Apart(model.regions)
NoOverlapInv == CallsRanged /\ ModelApart

(* A call on a range, and one with permissions.                              *)
LEMMA OnRangeRanged ==
  ASSUME NEW r \in Ranges, NEW n \in CallNames, n # "brk"
  PROVE  /\ OnRange(n, r[1], r[2]) \in RangedCall
         /\ \A c \in Content : [OnRange(n, r[1], r[2]) EXCEPT !.content = c] \in RangedCall
<1>1. r[1] \in Address /\ r[2] \in Address /\ r[1] < r[2]
  BY DEF Ranges
<1> QED
  BY <1>1 DEF OnRange, NoCall, RangedCall, Call

(* Every call that the program makes without moving its break has a range.   *)
LEMMA PossibleRanged ==
  ASSUME "brk" \notin Uses, NEW t \in Tid, NEW c \in Possible(t)
  PROVE  c \in RangedCall
<1>1. AnonPage \in Content /\ FilePage \in Content /\ [AnonPage EXCEPT !.write = FALSE] \in Content
  BY DEF AnonPage, FilePage, Content, Kind
<1>2. c.name \in Uses
  BY DEF Possible
<1>3. CASE c \in MmapCalls
  BY <1>3, <1>1, OnRangeRanged DEF MmapCalls, CallNames
<1>4. CASE c \in MunmapCalls
  BY <1>4, OnRangeRanged DEF MunmapCalls, CallNames
<1>5. CASE c \in MprotectCalls(pages)
  <2>1. PICK r \in Ranges, w \in {AnonPage, [AnonPage EXCEPT !.write = FALSE]} :
          c = [OnRange("mprotect", r[1], r[2]) EXCEPT !.content = w]
    BY <1>5 DEF MprotectCalls
  <2> QED
    BY <2>1, <1>1, OnRangeRanged DEF CallNames
<1>6. CASE c \in MremapCalls(pages)
  <2>1. PICK x \in Ranges \X Ranges \X BOOLEAN :
          c = [OnRange("mremap", x[1][1], x[1][2]) EXCEPT !.to = x[2][1], !.to_end = x[2][2],
                                                          !.keep = x[3]]
    BY <1>6, ZenonT(30) DEF MremapCalls
  <2>2. x[1] \in Ranges /\ x[2] \in Ranges /\ x[3] \in BOOLEAN
    OBVIOUS
  <2>3. OnRange("mremap", x[1][1], x[1][2]) \in RangedCall
    BY <2>2, OnRangeRanged DEF CallNames
  <2>4. x[2][1] \in Address /\ x[2][2] \in Address
    BY <2>2 DEF Ranges
  <2> QED
    BY <2>1, <2>2, <2>3, <2>4 DEF RangedCall, Call
<1>7. CASE c = BrkQuery(HeapStart) \/ c = BrkQuery(break) \/ c \in BrkCalls(pages, break)
  <2>1. c.name = "brk"
    BY <1>7 DEF BrkQuery, BrkCalls, OnRange, NoCall
  <2> QED
    BY <2>1, <1>2
<1>8. \/ c \in MmapCalls \/ c \in MunmapCalls \/ c \in MprotectCalls(pages)
      \/ c \in MremapCalls(pages)
      \/ c = BrkQuery(HeapStart) \/ c = BrkQuery(break) \/ c \in BrkCalls(pages, break)
  BY DEF Possible
<1> QED
  BY <1>3, <1>4, <1>5, <1>6, <1>7, <1>8

(* VmaModel::apply keeps regions apart.                                      *)
LEMMA AppliedApart ==
  ASSUME NEW m, m = [regions |-> m.regions, heap_base |-> m.heap_base], Apart(m.regions),
         NEW c \in RangedCall
  PROVE  LET n == Applied(m, c)
         IN  n = [regions |-> n.regions, heap_base |-> n.heap_base] /\ Apart(n.regions)
<1>1. /\ c.name \in {"mmap", "munmap", "mprotect", "mremap", "exec"}
      /\ c.begin \in Int /\ c.end \in Int /\ c.to \in Int /\ c.to_end \in Int
      /\ c.begin < c.end
  BY AddressAssumption DEF RangedCall, Call, CallNames, Address
<1>2. CASE c.name = "mmap"
  BY <1>1, <1>2, MapApart DEF Applied
<1>3. CASE c.name = "munmap"
  BY <1>1, <1>3, UnmapApart DEF Applied
<1>4. CASE c.name = "mprotect"
  BY <1>1, <1>4, ProtectApart DEF Applied
<1>5. CASE c.name = "mremap"
  BY <1>1, <1>5, RemapApart DEF Applied
<1>6. CASE c.name = "exec"
  BY <1>6 DEF Applied, Apart
<1> QED
  BY <1>1, <1>2, <1>3, <1>4, <1>5, <1>6

(* The model that a constructor makes has its two fields.                    *)
LEMMA SeededShape ==
  ASSUME NEW pg
  PROVE  Seeded(pg) = [regions |-> Seeded(pg).regions, heap_base |-> Seeded(pg).heap_base]
BY DEF Seeded

(* A fresh model of one program image has nothing that overlaps.            *)
LEMMA NoOverlapInit == Init => NoOverlapInv
<1> SUFFICES ASSUME Init PROVE NoOverlapInv
  OBVIOUS
<1>1. CallsRanged
  BY DEF Init, CallsRanged, Held
<1>2. ModelApart
  BY SeededApart, SeededShape DEF Init, ModelApart
<1> QED
  BY <1>1, <1>2 DEF NoOverlapInv

(* What the threads hold.                                                    *)
LEMMA CallsRangedNext ==
  ASSUME "brk" \notin Uses, CallsRanged, [Next]_vars
  PROVE  CallsRanged'
<1>1. NoCall \in Held /\ (\A c \in RangedCall : c \in Held)
  BY DEF Held
<1>2. child \in Tid
  BY TracerAssumption
<1>3. ASSUME NEW t \in Tid, Enter(t)
      PROVE  CallsRanged'
  BY <1>3 DEF Enter, CallsRanged
<1>4. ASSUME NEW t \in Tid, Execute(t)
      PROVE  CallsRanged'
  <2>1. PICK c \in Possible(t) : thread' = [thread EXCEPT ![t] = [at |-> "exit", call |-> c]]
    BY <1>4 DEF Execute
  <2>2. c \in Held
    BY <1>1, PossibleRanged
  <2> QED
    BY <2>1, <2>2 DEF CallsRanged
<1>5. ASSUME NEW t \in Tid, ExecuteFails(t) \/ ExitThread(t) \/ HandleDeath(t)
      PROVE  CallsRanged'
  BY <1>5 DEF ExecuteFails, ExitThread, HandleDeath, CallsRanged
<1>6. ASSUME ExecuteExec
      PROVE  CallsRanged'
  <2>1. Exec \in RangedCall
    <3>1. <<1, MaxPage + 1>> \in Ranges
      BY AddressAssumption DEF Ranges, Address
    <3> QED
      BY <3>1, OnRangeRanged DEF Exec, CallNames
  <2> QED
    BY <1>1, <1>6, <2>1 DEF ExecuteExec, CallsRanged
<1>7. ASSUME Die
      PROVE  CallsRanged'
  BY <1>1, <1>7 DEF Die, CallsRanged
<1>8. ASSUME NEW t \in Tid, HandleEntry(t) \/ HandleExit(t) \/ HandleExec(t)
      PROVE  CallsRanged'
  BY <1>1, <1>8 DEF HandleEntry, HandleExit, HandleExec, Resume, CallsRanged
<1>9. ASSUME NEW t \in Tid, HandlerThrows(t)
      PROVE  CallsRanged'
  BY <1>1, <1>9 DEF HandlerThrows, CallsRanged
<1>10. CASE UNCHANGED thread
  BY <1>10 DEF CallsRanged
<1>11. \A t \in Tid : Wait(t) => UNCHANGED thread
  BY DEF Wait
<1>12. Ended \/ UNCHANGED vars => UNCHANGED thread
  BY DEF Ended, vars
<1> QED
  BY <1>3, <1>4, <1>5, <1>6, <1>7, <1>8, <1>9, <1>10, <1>11, <1>12 DEF Next, Target, Tracer

(* What the model holds.                                                     *)
LEMMA ModelApartNext ==
  ASSUME CallsRanged, ModelApart, [Next]_vars
  PROVE  ModelApart'
<1>1. ASSUME NEW t \in Tid, HandleExit(t)
      PROVE  ModelApart'
  <2>1. thread[t].call \in Held
    BY DEF CallsRanged
  <2>2. CASE model' = model
    BY <2>2 DEF ModelApart
  <2>3. CASE thread[t].call # NoCall /\ model' = Applied(model, thread[t].call)
    <3>1. thread[t].call \in RangedCall
      BY <2>1, <2>3 DEF Held
    <3> QED
      BY <2>3, <3>1, AppliedApart DEF ModelApart
  <2> QED
    BY <1>1, <2>2, <2>3 DEF HandleExit
<1>2. ASSUME NEW t \in Tid, HandleExec(t)
      PROVE  ModelApart'
  <2>1. model' = Seeded(pages)
    BY <1>2 DEF HandleExec, Reseeded
  <2> QED
    BY <2>1, SeededApart, SeededShape DEF ModelApart
<1>3. CASE UNCHANGED model
  BY <1>3 DEF ModelApart
<1>4. \A t \in Tid : Enter(t) \/ Execute(t) \/ ExecuteFails(t) \/ ExitThread(t) => UNCHANGED model
  BY DEF Enter, Execute, ExecuteFails, ExitThread, tracer
<1>5. ExecuteExec \/ Die \/ Ended \/ UNCHANGED vars => UNCHANGED model
  BY DEF ExecuteExec, Die, Ended, vars, tracer
<1>6. \A t \in Tid : Wait(t) \/ HandleDeath(t) \/ HandleEntry(t) \/ HandlerThrows(t) => UNCHANGED model
  BY DEF Wait, HandleDeath, HandleEntry, HandlerThrows
<1> QED
  BY <1>1, <1>2, <1>3, <1>4, <1>5, <1>6 DEF Next, Target, Tracer

(* No two regions of the model overlap, for every set of threads, every size *)
(* of the address space and every number of calls, if the program does not   *)
(* move its break (apply_brk does not look at what lies beyond the heap).    *)
THEOREM NoOverlap ==
  ASSUME "brk" \notin Uses
  PROVE  Spec => []Disjoint
<1>1. NoOverlapInv => Disjoint
  BY ApartIsDisjoint DEF NoOverlapInv, ModelApart, Apart, Disjoint
<1>2. NoOverlapInv /\ [Next]_vars => NoOverlapInv'
  BY CallsRangedNext, ModelApartNext DEF NoOverlapInv
<1> QED
  BY <1>1, <1>2, NoOverlapInit, PTL DEF Spec
-----------------------------------------------------------------------------
(* Least and greatest elements, from the well-foundedness of the naturals.  *)

(* The order of the naturals as a relation.                                 *)
Less == {ss \in Nat \X Nat : ss[1] < ss[2]}

(* The library's order on the naturals, without its operator parameter.     *)
LEMMA LessOnNat == OpToRel(<, Nat) = Less
BY DEF OpToRel, Less

(* A set of integers with a lower bound has a least element.                *)
LEMMA LeastElement ==
  ASSUME NEW S, S # {}, S \subseteq Int, NEW m \in Int, \A x \in S : m <= x
  PROVE  \E x \in S : \A y \in S : x <= y
<1> DEFINE T == {n \in Nat : n + m \in S}
<1>1. IsWellFoundedOn(Less, Nat)
  BY NatLessThanWellFounded, LessOnNat
<1>2. T \subseteq Nat /\ T # {}
  <2>1. PICK x \in S : TRUE
    OBVIOUS
  <2>2. x - m \in T
    BY <2>1
  <2> QED BY <2>2
<1>3. PICK x \in T : \A y \in T : ~(<<y, x>> \in Less)
  BY <1>1, <1>2, WFMin
<1>4. \A y \in T : x <= y
  <2> HIDE DEF T
  <2>1. \A y \in T : ~(y < x)
    BY <1>2, <1>3 DEF Less
  <2> QED BY <1>2, <2>1
<1>5. \A y \in S : x + m <= y
  <2> SUFFICES ASSUME NEW y \in S PROVE x + m <= y
    OBVIOUS
  <2>1. y - m \in T
    OBVIOUS
  <2> QED BY <1>4, <2>1
<1> QED BY <1>5

(* A set of integers with an upper bound has a greatest element.            *)
LEMMA GreatestElement ==
  ASSUME NEW S, S # {}, S \subseteq Int, NEW m \in Int, \A x \in S : x <= m
  PROVE  \E x \in S : \A y \in S : y <= x
<1> DEFINE T == {-x : x \in S}
<1>1. T # {} /\ T \subseteq Int /\ -m \in Int /\ \A x \in T : -m <= x
  <2>1. T # {}
    OBVIOUS
  <2>2. ASSUME NEW t \in T PROVE t \in Int /\ -m <= t
    <3>1. PICK x \in S : t = -x
      OBVIOUS
    <3> QED BY <3>1
  <2> QED BY <2>1, <2>2
<1>2. PICK t \in T : \A y \in T : t <= y
  <2> HIDE DEF T
  <2> QED BY <1>1, LeastElement
<1>3. PICK x \in S : t = -x
  OBVIOUS
<1>4. ASSUME NEW y \in S PROVE y <= x
  <2>1. -y \in T
    OBVIOUS
  <2> HIDE DEF T
  <2> QED BY <1>2, <1>3, <2>1
<1> QED BY <1>4

-----------------------------------------------------------------------------
(* Which page has what, in a list of regions.                               *)

(* Page p lies in a region with content c.                                  *)
Has(R, p, c) == \E r \in R : p \in Extent(r) /\ r.content = c

(* The regions lie in the address space and have contents.                  *)
Inside(R) == \A r \in R : 0 <= r.begin /\ r.end <= MaxPage + 1 /\ r.content \in Content

(* The lists of regions that the model keeps.                               *)
Proper(R) == Apart(R) /\ Inside(R)

(* Two regions of a list that share a page are one.                         *)
LEMMA OneRegion ==
  ASSUME NEW R, Apart(R), NEW q \in R, NEW r \in R, NEW p,
         p \in Extent(q), p \in Extent(r)
  PROVE  q = r
BY DEF Apart, IsRegion, Before, Extent

(* A list that has pages only where a proper list may have them is proper.  *)
LEMMA ProperByPages ==
  ASSUME NEW R, Apart(R),
         \A p \in Int : \A c : Has(R, p, c) => 0 <= p /\ p <= MaxPage /\ c \in Content
  PROVE  Proper(R)
<1>1. ASSUME NEW r \in R
      PROVE  0 <= r.begin /\ r.end <= MaxPage + 1 /\ r.content \in Content
  <2>1. r.begin \in Int /\ r.end \in Int /\ r.begin < r.end
    BY DEF Apart, IsRegion
  <2>2. Has(R, r.begin, r.content) /\ Has(R, r.end - 1, r.content)
    BY <2>1 DEF Has, Extent
  <2> QED BY <2>1, <2>2, AddressAssumption
<1> QED BY <1>1 DEF Proper, Inside

(* The page map of a list, by its regions.                                  *)
LEMMA PageOf ==
  ASSUME NEW R, Proper(R), NEW p \in Page
  PROVE  /\ \A c : PagesOf(R)[p] = c /\ c # Unmapped <=> Has(R, p, c)
         /\ PagesOf(R)[p] = Unmapped <=> \A c : ~Has(R, p, c)
         /\ PagesOf(R)[p] \in Content \cup {Unmapped}
<1>1. Unmapped \notin Content
  BY DEF Unmapped, Content, Kind
<1>2. CASE \E r \in R : p \in Extent(r)
  <2> DEFINE r == CHOOSE r \in R : p \in Extent(r)
  <2>1. r \in R /\ p \in Extent(r) /\ PagesOf(R)[p] = r.content
    BY <1>2 DEF PagesOf
  <2> HIDE DEF r
  <2>2. r.content \in Content
    BY <2>1 DEF Proper, Inside
  <2>3. \A c : Has(R, p, c) <=> c = r.content
    BY <2>1, OneRegion DEF Has, Proper
  <2> QED BY <1>1, <2>1, <2>2, <2>3
<1>3. CASE ~(\E r \in R : p \in Extent(r))
  <2>1. PagesOf(R)[p] = Unmapped /\ \A c : ~Has(R, p, c)
    BY <1>3 DEF PagesOf, Has
  <2> QED BY <2>1
<1> QED BY <1>2, <1>3

-----------------------------------------------------------------------------
(* Merging changes no page: the chain of a head is contiguous and of one    *)
(* content, and every region is in the chain of some head.                  *)

(* The regions that join no region before them, the chain that each begins, *)
(* and the last region of a chain.                                          *)
Heads(R) == {r \in R : \A q \in R : ~Joins(q, r)}
InChain(R, h, r) ==
  /\ h.begin <= r.begin
  /\ \A g \in Heads(R) : h.begin < g.begin => r.begin < g.begin
IsLast(R, h, r) == InChain(R, h, r) /\ \A s \in R : InChain(R, h, s) => s.begin <= r.begin

(* sort_and_merge makes one region of each chain: the head's, up to where  *)
(* the last of the chain ends.                                              *)
LEMMA MergedOf ==
  ASSUME NEW R
  PROVE  SortAndMerge(R) =
           {[x[1] EXCEPT !.end = x[2].end] : x \in {y \in Heads(R) \X R : IsLast(R, y[1], y[2])}}
BY DEF SortAndMerge, Heads, InChain, IsLast

(* Every region is in the chain of some head.                               *)
LEMMA HasHead ==
  ASSUME NEW R, Proper(R), NEW r \in R
  PROVE  \E h \in Heads(R) : InChain(R, h, r)
<1>0. \A q \in R : q.begin \in Int /\ q.end \in Int /\ q.begin < q.end /\ 0 <= q.begin
  BY DEF Proper, Apart, IsRegion, Inside
<1>1. \E m \in Heads(R) : m.begin <= r.begin
  <2> DEFINE B == {q.begin : q \in R}
  <2>1. B # {} /\ B \subseteq Int /\ \A x \in B : 0 <= x
    BY <1>0
  <2>2. \A q \in R : q.begin \in B
    OBVIOUS
  <2>3. \A x \in B : \E q \in R : x = q.begin
    OBVIOUS
  <2> HIDE DEF B
  <2>4. PICK x \in B : \A y \in B : x <= y
    <3>1. 0 \in Int
      OBVIOUS
    <3> QED BY <2>1, <3>1, LeastElement
  <2>5. PICK m \in R : x = m.begin
    BY <2>3
  <2>6. \A q \in R : ~Joins(q, m)
    BY <1>0, <2>2, <2>4, <2>5 DEF Joins
  <2> QED BY <2>2, <2>4, <2>5, <2>6 DEF Heads
<1>2. \A g \in Heads(R) : g \in R
  BY DEF Heads
<1> DEFINE G == {g.begin : g \in {h \in Heads(R) : h.begin <= r.begin}}
<1>3. G # {} /\ G \subseteq Int /\ \A x \in G : x <= r.begin
  BY <1>0, <1>1, <1>2
<1>4. \A g \in Heads(R) : g.begin <= r.begin => g.begin \in G
  OBVIOUS
<1>5. \A x \in G : \E h \in Heads(R) : x = h.begin /\ h.begin <= r.begin
  OBVIOUS
<1> HIDE DEF G
<1>6. PICK x \in G : \A y \in G : y <= x
  BY <1>0, <1>3, GreatestElement
<1>7. PICK h \in Heads(R) : x = h.begin /\ h.begin <= r.begin
  BY <1>5
<1>8. \A g \in Heads(R) : h.begin < g.begin => r.begin < g.begin
  BY <1>0, <1>2, <1>4, <1>6, <1>7
<1> QED BY <1>7, <1>8 DEF InChain

(* The chain of every head has a last region.                               *)
LEMMA HasLast ==
  ASSUME NEW R, Proper(R), NEW h \in Heads(R)
  PROVE  \E s \in R : IsLast(R, h, s)
<1>0. /\ \A q \in R : q.begin \in Int /\ q.end \in Int /\ q.begin < q.end /\ q.end <= MaxPage + 1
      /\ MaxPage \in Int
  BY AddressAssumption DEF Proper, Apart, IsRegion, Inside
<1>1. h \in R /\ InChain(R, h, h)
  BY <1>0 DEF Heads, InChain
<1> DEFINE B == {s.begin : s \in {q \in R : InChain(R, h, q)}}
<1>2. B # {} /\ B \subseteq Int /\ \A x \in B : x <= MaxPage
  BY <1>0, <1>1
<1>3. \A s \in R : InChain(R, h, s) => s.begin \in B
  OBVIOUS
<1>4. \A x \in B : \E s \in R : InChain(R, h, s) /\ x = s.begin
  OBVIOUS
<1> HIDE DEF B
<1>5. PICK x \in B : \A y \in B : y <= x
  BY <1>0, <1>2, GreatestElement
<1>6. PICK s \in R : InChain(R, h, s) /\ x = s.begin
  BY <1>4
<1> QED BY <1>3, <1>5, <1>6 DEF IsLast

(* A chain has no gap, and its regions are alike.                           *)
LEMMA ChainAlike ==
  ASSUME NEW R, Proper(R), NEW h \in Heads(R), NEW r \in R, InChain(R, h, r),
         NEW p \in Int, h.begin <= p, p < r.end
  PROVE  \E q \in R : p \in Extent(q) /\ InChain(R, h, q) /\ SameIdentity(h, q)
<1> DEFINE Good(x) == \E q \in R : x \in Extent(q) /\ InChain(R, h, q) /\ SameIdentity(h, q)
           B == {x \in Int : h.begin <= x /\ x < r.end /\ ~Good(x)}
<1>0. /\ \A q \in R : q.begin \in Int /\ q.end \in Int /\ q.begin < q.end
      /\ h \in R
  BY DEF Proper, Apart, IsRegion, Heads
<1>1. B = {}
  <2> SUFFICES ASSUME B # {} PROVE FALSE
    OBVIOUS
  <2>1. PICK x \in B : \A y \in B : x <= y
    <3>1. B \subseteq Int /\ h.begin \in Int /\ \A y \in B : h.begin <= y
      BY <1>0
    <3> HIDE DEF B
    <3> QED BY <3>1, LeastElement
  <2>2. x \in Int /\ h.begin <= x /\ x < r.end /\ ~Good(x)
    BY <2>1
  <2>3. x # h.begin
    <3>1. h.begin \in Extent(h) /\ InChain(R, h, h) /\ SameIdentity(h, h)
      BY <1>0 DEF Extent, InChain, SameIdentity
    <3> QED BY <1>0, <2>2, <3>1
  <2>4. PICK q \in R : x - 1 \in Extent(q) /\ InChain(R, h, q) /\ SameIdentity(h, q)
    <3>1. x - 1 \notin B
      BY <2>1, <2>2
    <3>2. x - 1 \in Int /\ h.begin <= x - 1 /\ x - 1 < r.end
      BY <1>0, <2>2, <2>3
    <3> QED BY <3>1, <3>2
  <2>5. x \notin Extent(q)
    BY <2>2, <2>4
  <2>6. q.end = x /\ q.begin < x
    BY <1>0, <2>2, <2>4, <2>5 DEF Extent
  <2> HIDE DEF B, Good
  <2>7. x <= r.begin
    <3> SUFFICES ASSUME r.begin < x PROVE FALSE
      BY <1>0, <2>2
    <3>1. x - 1 \in Extent(r) /\ x \in Extent(r)
      BY <1>0, <2>2 DEF Extent
    <3> QED BY <2>4, <2>5, <3>1, OneRegion DEF Proper
  <2> DEFINE N == {s.begin : s \in {t \in R : x <= t.begin /\ t.begin <= r.begin}}
  <2>8. N # {} /\ N \subseteq Int /\ \A y \in N : x <= y
    <3>1. r.begin \in N
      BY <1>0, <2>7
    <3>2. \A y \in N : y \in Int /\ x <= y
      BY <1>0
    <3> QED BY <3>1, <3>2
  <2>9. \A t \in R : x <= t.begin /\ t.begin <= r.begin => t.begin \in N
    OBVIOUS
  <2>10. \A y \in N : \E s \in R : x <= s.begin /\ s.begin <= r.begin /\ y = s.begin
    OBVIOUS
  <2> HIDE DEF N
  <2>11. PICK y \in N : \A z \in N : y <= z
    BY <2>2, <2>8, LeastElement
  <2>12. PICK s \in R : x <= s.begin /\ s.begin <= r.begin /\ y = s.begin
    BY <2>10
  <2>13. InChain(R, h, s)
    BY <1>0, <2>2, <2>12 DEF InChain, Heads
  <2>14. s \notin Heads(R)
    BY <1>0, <2>2, <2>3, <2>12, <2>13 DEF InChain
  <2>15. PICK t \in R : t.end = s.begin /\ SameIdentity(t, s)
    BY <2>14 DEF Heads, Joins
  <2>16. t.begin < x
    BY <1>0, <2>2, <2>9, <2>11, <2>12, <2>15
  <2>17. x - 1 \in Extent(t)
    BY <1>0, <2>2, <2>12, <2>15, <2>16 DEF Extent
  <2>18. t = q
    BY <2>4, <2>17, OneRegion DEF Proper
  <2>19. x \in Extent(s) /\ SameIdentity(h, s)
    BY <1>0, <2>4, <2>6, <2>15, <2>18 DEF Extent, SameIdentity
  <2> QED BY <2>2, <2>13, <2>19 DEF Good
<1> QED BY <1>1

(* sort_and_merge changes no page.                                          *)
LEMMA MergePages ==
  ASSUME NEW R, Proper(R)
  PROVE  /\ \A p \in Int : \A c : Has(SortAndMerge(R), p, c) <=> Has(R, p, c)
         /\ Proper(SortAndMerge(R))
<1>0. \A q \in R : IsRegion(q) /\ q.begin \in Int /\ q.end \in Int /\ q.begin < q.end
  BY DEF Proper, Apart, IsRegion
<1>1. \A h \in Heads(R) : h \in R
  BY DEF Heads
<1>2. ASSUME NEW h \in Heads(R), NEW s \in R, IsLast(R, h, s), NEW x, x = [h EXCEPT !.end = s.end]
      PROVE  x.begin = h.begin /\ x.end = s.end /\ x.content = h.content
  BY <1>0, <1>1, <1>2 DEF IsRegion
<1>3. ASSUME NEW p \in Int, NEW c, Has(SortAndMerge(R), p, c) PROVE Has(R, p, c)
  <2>1. PICK x \in SortAndMerge(R) : p \in Extent(x) /\ x.content = c
    BY <1>3 DEF Has
  <2>2. PICK h \in Heads(R), s \in R : IsLast(R, h, s) /\ x = [h EXCEPT !.end = s.end]
    BY MergedOf
  <2>3. h.begin <= p /\ p < s.end /\ h.content = c
    BY <1>0, <1>1, <1>2, <2>1, <2>2 DEF Extent
  <2>4. PICK q \in R : p \in Extent(q) /\ SameIdentity(h, q)
    BY <2>2, <2>3, ChainAlike DEF IsLast
  <2> QED BY <2>3, <2>4 DEF Has, SameIdentity
<1>4. ASSUME NEW p \in Int, NEW c, Has(R, p, c) PROVE Has(SortAndMerge(R), p, c)
  <2>1. PICK r \in R : p \in Extent(r) /\ r.content = c
    BY <1>4 DEF Has
  <2>2. PICK h \in Heads(R) : InChain(R, h, r)
    BY HasHead
  <2>3. PICK s \in R : IsLast(R, h, s)
    BY HasLast
  <2>4. r.begin <= s.begin /\ h.begin <= r.begin
    BY <2>2, <2>3 DEF IsLast, InChain
  <2>5. r.end <= s.end
    BY <1>0, <2>4 DEF Proper, Apart, Before
  <2>6. h.content = c
    <3>1. PICK q \in R : r.begin \in Extent(q) /\ SameIdentity(h, q)
      BY <1>0, <1>1, <2>2, <2>4, ChainAlike
    <3>2. r.begin \in Extent(r)
      BY <1>0 DEF Extent
    <3>3. q = r
      BY <3>1, <3>2, OneRegion DEF Proper
    <3> QED BY <2>1, <3>1, <3>3 DEF SameIdentity
  <2> DEFINE x == [h EXCEPT !.end = s.end]
  <2>7. x \in SortAndMerge(R)
    <3>1. <<h, s>> \in {y \in Heads(R) \X R : IsLast(R, y[1], y[2])}
      BY <2>3
    <3> QED BY <3>1, MergedOf
  <2>8. x.begin = h.begin /\ x.end = s.end /\ x.content = h.content
    BY <1>2, <2>3
  <2> HIDE DEF x
  <2>9. p \in Extent(x)
    BY <1>0, <1>1, <2>1, <2>4, <2>5, <2>8 DEF Extent
  <2> QED BY <2>6, <2>7, <2>8, <2>9 DEF Has
<1>5. \A p \in Int : \A c : Has(SortAndMerge(R), p, c) <=> Has(R, p, c)
  BY <1>3, <1>4
<1>6. \A p \in Int : \A c : Has(R, p, c) => 0 <= p /\ p <= MaxPage /\ c \in Content
  BY <1>0, AddressAssumption DEF Has, Extent, Proper, Inside
<1>7. Proper(SortAndMerge(R))
  BY <1>5, <1>6, MergeApart, ProperByPages DEF Proper
<1> QED BY <1>5, <1>7

-----------------------------------------------------------------------------
(* Cutting, clipping and moving regions, page by page.                      *)

(* Taking out the pages of T leaves every other page in its region's piece. *)
LEMMA CutPages ==
  ASSUME NEW R, Apart(R), NEW T, NEW p \in Int, NEW c
  PROVE  Has(Cut(R, T), p, c) <=> p \notin T /\ Has(R, p, c)
<1>0. \A q \in R : IsRegion(q) /\ q.begin \in Int /\ q.end \in Int /\ q.begin < q.end
  BY DEF Apart, IsRegion
<1>1. ASSUME Has(Cut(R, T), p, c) PROVE p \notin T /\ Has(R, p, c)
  <2>0. PICK r \in R : \E x \in Pieces(r, T) : p \in Extent(x) /\ x.content = c
    BY <1>1 DEF Has, Cut
  <2>1. PICK x \in Pieces(r, T) : p \in Extent(x) /\ x.content = c
    BY <2>0
  <2>2. PICK b \in Extent(r), e \in r.begin + 1 .. r.end :
          (b .. e - 1) \cap T = {} /\ b < e /\ x = [r EXCEPT !.begin = b, !.end = e]
    BY <2>1 DEF Pieces
  <2>3. x.begin = b /\ x.end = e /\ x.content = r.content
    BY <1>0, <2>2 DEF IsRegion
  <2>4. p \in b .. e - 1 /\ b \in Int /\ e \in Int /\ r.begin <= b /\ e <= r.end
    BY <1>0, <2>1, <2>2, <2>3 DEF Extent
  <2>5. p \notin T /\ p \in Extent(r)
    BY <1>0, <2>2, <2>4 DEF Extent
  <2> QED BY <2>1, <2>3, <2>5 DEF Has
<1>2. ASSUME p \notin T, Has(R, p, c) PROVE Has(Cut(R, T), p, c)
  <2>1. PICK r \in R : p \in Extent(r) /\ r.content = c
    BY <1>2 DEF Has
  <2>2. r.begin <= p /\ p < r.end
    BY <1>0, <2>1 DEF Extent
  <2> DEFINE B == {b \in Int : r.begin <= b /\ b <= p /\ (b .. p) \cap T = {}}
             E == {e \in Int : p < e /\ e <= r.end /\ (p .. e - 1) \cap T = {}}
  <2>3. p \in B /\ p + 1 \in E
    BY <1>0, <1>2, <2>2
  <2>4. \A b \in Int : b \in B <=> r.begin <= b /\ b <= p /\ (b .. p) \cap T = {}
    OBVIOUS
  <2>5. \A e \in Int : e \in E <=> p < e /\ e <= r.end /\ (p .. e - 1) \cap T = {}
    OBVIOUS
  <2>6. /\ B \subseteq Int /\ \A b \in B : r.begin <= b
        /\ E \subseteq Int /\ \A e \in E : e <= r.end
    OBVIOUS
  <2> HIDE DEF B, E
  <2>7. PICK b \in B : \A y \in B : b <= y
    BY <1>0, <2>3, <2>6, LeastElement
  <2>8. PICK e \in E : \A y \in E : y <= e
    BY <1>0, <2>3, <2>6, GreatestElement
  <2>9. /\ b \in Int /\ r.begin <= b /\ b <= p /\ (b .. p) \cap T = {}
        /\ e \in Int /\ p < e /\ e <= r.end /\ (p .. e - 1) \cap T = {}
    BY <2>4, <2>5, <2>6
  <2>10. (b .. e - 1) \cap T = {}
    <3>1. \A y \in b .. e - 1 : y \in b .. p \/ y \in p .. e - 1
      BY <2>9
    <3> QED BY <2>9, <3>1
  <2>11. b = r.begin \/ b - 1 \in T
    <3> SUFFICES ASSUME b # r.begin, b - 1 \notin T PROVE FALSE
      OBVIOUS
    <3>1. \A y \in b - 1 .. p : y = b - 1 \/ y \in b .. p
      BY <2>9
    <3>2. b - 1 \in B
      BY <1>0, <2>4, <2>9, <3>1
    <3> QED BY <2>7, <2>9, <3>2
  <2>12. e = r.end \/ e \in T
    <3> SUFFICES ASSUME e # r.end, e \notin T PROVE FALSE
      OBVIOUS
    <3>1. \A y \in p .. e : y = e \/ y \in p .. e - 1
      BY <2>9
    <3>2. e + 1 \in E
      <4>1. e + 1 \in Int /\ p < e + 1 /\ e + 1 <= r.end /\ e + 1 - 1 = e
        BY <1>0, <2>9
      <4> QED BY <2>5, <2>9, <3>1, <4>1
    <3> QED BY <2>8, <2>9, <3>2
  <2> DEFINE x == [r EXCEPT !.begin = b, !.end = e]
  <2>13. x \in Pieces(r, T)
    <3>1. b \in Extent(r) /\ e \in r.begin + 1 .. r.end /\ b < e
      BY <1>0, <2>9 DEF Extent
    <3>2. <<b, e>> \in Extent(r) \X (r.begin + 1 .. r.end)
      BY <3>1
    <3> DEFINE Z == {y \in Extent(r) \X (r.begin + 1 .. r.end) :
                      /\ y[1] < y[2]
                      /\ (y[1] .. y[2] - 1) \cap T = {}
                      /\ y[1] = r.begin \/ y[1] - 1 \in T
                      /\ y[2] = r.end \/ y[2] \in T}
    <3>3. PICK z : z = <<b, e>>
      OBVIOUS
    <3>4. z \in Z /\ x = [r EXCEPT !.begin = z[1], !.end = z[2]]
      BY <2>10, <2>11, <2>12, <3>1, <3>2, <3>3
    <3>5. Pieces(r, T) = {[r EXCEPT !.begin = y[1], !.end = y[2]] : y \in Z}
      BY DEF Pieces
    <3> HIDE DEF Z
    <3> QED BY <3>4, <3>5
  <2>14. x.begin = b /\ x.end = e /\ x.content = r.content
    BY <1>0 DEF IsRegion
  <2> HIDE DEF x
  <2>15. p \in Extent(x)
    BY <2>9, <2>14 DEF Extent
  <2> QED BY <2>1, <2>13, <2>14, <2>15 DEF Has, Cut
<1> QED BY <1>1, <1>2

(* The regions of a range.                                                  *)
LEMMA ClippedPages ==
  ASSUME NEW R, Apart(R), NEW b \in Int, NEW e \in Int, NEW p \in Int, NEW c
  PROVE  Has(Clipped(R, b, e), p, c) <=> b <= p /\ p < e /\ Has(R, p, c)
<1>0. \A q \in R : IsRegion(q) /\ q.begin \in Int /\ q.end \in Int /\ q.begin < q.end
  BY DEF Apart, IsRegion
<1>1. ASSUME NEW r \in R
      PROVE  p \in Extent(Clip(r, b, e)) <=> p \in Extent(r) /\ b <= p /\ p < e
  <2> DEFINE x == Clip(r, b, e)
  <2>1. /\ x.begin = IF r.begin < b THEN b ELSE r.begin
        /\ x.end = IF e < r.end THEN e ELSE r.end
    BY <1>0 DEF Clip, IsRegion
  <2> HIDE DEF x
  <2> QED BY <1>0, <2>1 DEF Extent, x
<1>2. \A r \in R : Clip(r, b, e).content = r.content
  BY <1>0 DEF Clip, IsRegion
<1>3. \A r \in R : p \in Extent(r) /\ b <= p /\ p < e => Overlaps(r, b, e)
  BY <1>0 DEF Extent, Overlaps
<1> QED BY <1>1, <1>2, <1>3 DEF Has, Clipped

(* A range that is moved to another, as far as it fits.                     *)
LEMMA MovedPages ==
  ASSUME NEW R, Apart(R), NEW b \in Int, NEW e \in Int, b < e,
         NEW to \in Int, NEW to_end \in Int, NEW p \in Int, NEW c
  PROVE  Has(Moved(R, b, e, to, to_end), p, c) <=>
           to <= p /\ p < to_end /\ p - to + b < e /\ Has(R, p - to + b, c)
<1> DEFINE C == Clipped(R, b, e)
<1>1. Apart(C) /\ \A r \in C : b <= r.begin
  BY ClippedApart
<1>2. Has(C, p - to + b, c) <=> b <= p - to + b /\ p - to + b < e /\ Has(R, p - to + b, c)
  BY ClippedPages
<1>3. Moved(R, b, e, to, to_end) =
        {Shifted(r, b, to, to_end) : r \in {q \in C : q.begin - b < to_end - to}}
  BY DEF Moved
<1> HIDE DEF C
<1>4. ASSUME NEW r \in C
      PROVE  /\ Shifted(r, b, to, to_end).content = r.content
             /\ p \in Extent(Shifted(r, b, to, to_end)) <=> p - to + b \in Extent(r) /\ p < to_end
             /\ p - to + b \in Extent(r) /\ p < to_end => r.begin - b < to_end - to
  <2>1. IsRegion(r) /\ r.begin \in Int /\ r.end \in Int
    BY <1>1 DEF Apart, IsRegion
  <2> DEFINE x == Shifted(r, b, to, to_end)
             first == r.begin - b + to
             last == first + (r.end - r.begin)
  <2>2. x.begin = first /\ x.end = (IF last < to_end THEN last ELSE to_end) /\ x.content = r.content
    BY <2>1 DEF Shifted, IsRegion
  <2> HIDE DEF x
  <2>3. p \in Extent(x) <=> p - to + b \in Extent(r) /\ p < to_end
    BY <2>1, <2>2 DEF Extent
  <2>4. p - to + b \in Extent(r) /\ p < to_end => r.begin - b < to_end - to
    BY <2>1 DEF Extent
  <2> QED BY <2>2, <2>3, <2>4 DEF x
<1>5. Has(Moved(R, b, e, to, to_end), p, c) <=> p < to_end /\ Has(C, p - to + b, c)
  BY <1>3, <1>4 DEF Has
<1> QED BY <1>2, <1>5

-----------------------------------------------------------------------------
(* The operations of the model, page by page.                               *)

(* The pages that a proper list has.                                        *)
LEMMA HasBounds ==
  ASSUME NEW R, Proper(R), NEW p, NEW c, Has(R, p, c)
  PROVE  p \in Int /\ 0 <= p /\ p <= MaxPage /\ c \in Content
<1>1. PICK r \in R : p \in Extent(r) /\ r.content = c
  BY DEF Has
<1>2. r.begin \in Int /\ r.end \in Int /\ 0 <= r.begin /\ r.end <= MaxPage + 1
  BY DEF Proper, Apart, IsRegion, Inside
<1> QED BY <1>1, <1>2, AddressAssumption DEF Extent, Proper, Inside

(* New regions in the place of what was there.                              *)
LEMMA ReplacedPages ==
  ASSUME NEW R, Proper(R), NEW N, Proper(N), NEW T,
         \A p \in Int : \A c : Has(N, p, c) => p \in T
  PROVE  /\ Proper(SortAndMerge(Cut(R, T) \cup N))
         /\ \A p \in Int : \A c : Has(SortAndMerge(Cut(R, T) \cup N), p, c) <=>
                                Has(N, p, c) \/ (p \notin T /\ Has(R, p, c))
<1> DEFINE M == Cut(R, T) \cup N
<1>0. /\ \A q \in R : q.begin \in Int /\ q.end \in Int
      /\ \A q \in N : q.begin \in Int /\ q.end \in Int
      /\ Apart(R) /\ Apart(N)
  BY DEF Proper, Apart, IsRegion
<1>1. \A p \in Int : \A c : Has(M, p, c) <=> Has(N, p, c) \/ (p \notin T /\ Has(R, p, c))
  <2>1. \A p \in Int : \A c : Has(M, p, c) <=> Has(N, p, c) \/ Has(Cut(R, T), p, c)
    BY DEF Has
  <2> HIDE DEF M
  <2> QED BY <1>0, <2>1, CutPages
<1>2. Apart(M)
  <2>1. Apart(Cut(R, T)) /\ \A x \in Cut(R, T) : Extent(x) \cap T = {}
    BY <1>0, CutApart
  <2>2. ASSUME NEW x \in Cut(R, T), NEW r \in N PROVE Before(x, r) \/ Before(r, x)
    <3>1. IsRegion(x) /\ IsRegion(r)
      BY <1>0, <2>1 DEF Apart
    <3>2. \A p \in Extent(r) : p \in Int /\ p \in T
      BY <1>0 DEF Extent, Has
    <3>3. Extent(x) \cap Extent(r) = {}
      BY <2>1, <3>2
    <3> QED BY <3>1, <3>3, AvoidsIsApart
  <2> QED BY <1>0, <2>1, <2>2, UnionApart
<1>3. \A p \in Int : \A c : Has(R, p, c) \/ Has(N, p, c) => 0 <= p /\ p <= MaxPage /\ c \in Content
  BY HasBounds
<1>4. Proper(M)
  <2> HIDE DEF M
  <2> QED BY <1>1, <1>2, <1>3, ProperByPages
<1> HIDE DEF M
<1>5. /\ \A p \in Int : \A c : Has(SortAndMerge(M), p, c) <=> Has(M, p, c)
      /\ Proper(SortAndMerge(M))
  BY <1>4, MergePages
<1>6. \A p \in Int : \A c : Has(SortAndMerge(M), p, c) <=>
                          Has(N, p, c) \/ (p \notin T /\ Has(R, p, c))
  BY <1>1, <1>5
<1> QED BY <1>5, <1>6 DEF M

(* Cutting leaves a proper list.                                            *)
LEMMA CutProper ==
  ASSUME NEW R, Proper(R), NEW T
  PROVE  Proper(Cut(R, T)) /\ \A p \in Int : \A c : Has(Cut(R, T), p, c) <=> p \notin T /\ Has(R, p, c)
<1>1. Apart(R) /\ \A p \in Int : \A c : Has(R, p, c) => 0 <= p /\ p <= MaxPage /\ c \in Content
  BY HasBounds DEF Proper
<1>2. \A p \in Int : \A c : Has(Cut(R, T), p, c) <=> p \notin T /\ Has(R, p, c)
  BY <1>1, CutPages
<1>3. Apart(Cut(R, T))
  BY <1>1, CutApart
<1> QED BY <1>1, <1>2, <1>3, ProperByPages

(* unmap_range                                                              *)
LEMMA UnmapPages ==
  ASSUME NEW R, Proper(R), NEW b \in Int, NEW e \in Int, b < e
  PROVE  /\ Proper(UnmapRange(R, b, e))
         /\ \A p \in Int : \A c : Has(UnmapRange(R, b, e), p, c) <=> p \notin b .. e - 1 /\ Has(R, p, c)
<1>1. UnmapRange(R, b, e) = SortAndMerge(Cut(R, b .. e - 1))
  BY DEF UnmapRange
<1> QED BY <1>1, CutProper, MergePages

(* map_region                                                               *)
LEMMA MapPages ==
  ASSUME NEW R, Proper(R), NEW b \in Int, NEW e \in Int, b < e, 0 <= b, e <= MaxPage + 1,
         NEW d \in Content, NEW v,
         NEW S, S = MapRegion(R, [begin |-> b, end |-> e, content |-> d, provenance |-> v])
  PROVE  /\ Proper(S)
         /\ \A p \in Int : \A c : Has(S, p, c) <=>
              IF p \in b .. e - 1 THEN c = d ELSE Has(R, p, c)
<1>0. PICK r : r = [begin |-> b, end |-> e, content |-> d, provenance |-> v]
  OBVIOUS
<1>1. IsRegion(r) /\ r.begin = b /\ r.end = e /\ r.content = d
  BY <1>0 DEF IsRegion
<1>2. S = SortAndMerge(Cut(R, b .. e - 1) \cup {r})
  <2>1. S = MapRegion(R, r)
    BY <1>0
  <2>2. ~(r.begin >= r.end) /\ Extent(r) = b .. e - 1
    BY <1>1 DEF Extent
  <2> QED BY <2>1, <2>2 DEF MapRegion
<1>3. Proper({r})
  BY <1>1 DEF Proper, Apart, Inside
<1>4. \A p \in Int : \A c : Has({r}, p, c) <=> p \in b .. e - 1 /\ c = d
  BY <1>1 DEF Has, Extent
<1>5. \A p \in Int : \A c : Has({r}, p, c) => p \in b .. e - 1
  BY <1>4
<1>6. /\ Proper(S)
      /\ \A p \in Int : \A c : Has(S, p, c) <=>
           Has({r}, p, c) \/ (p \notin b .. e - 1 /\ Has(R, p, c))
  <2> DEFINE T == b .. e - 1
             N == {r}
  <2>1. Proper(N) /\ \A p \in Int : \A c : Has(N, p, c) => p \in T
    BY <1>3, <1>5
  <2>2. S = SortAndMerge(Cut(R, T) \cup N)
    BY <1>2
  <2> HIDE DEF T, N
  <2>3. /\ Proper(SortAndMerge(Cut(R, T) \cup N))
        /\ \A p \in Int : \A c : Has(SortAndMerge(Cut(R, T) \cup N), p, c) <=>
                               Has(N, p, c) \/ (p \notin T /\ Has(R, p, c))
    BY <2>1, ReplacedPages
  <2>4. /\ Proper(S)
        /\ \A p \in Int : \A c : Has(S, p, c) <=> Has(N, p, c) \/ (p \notin T /\ Has(R, p, c))
    BY <2>2, <2>3
  <2> QED BY <2>4 DEF T, N
<1>7. ASSUME NEW p \in Int, NEW c
      PROVE  Has(S, p, c) <=> IF p \in b .. e - 1 THEN c = d ELSE Has(R, p, c)
  <2>1. Has(S, p, c) <=> (p \in b .. e - 1 /\ c = d) \/ (p \notin b .. e - 1 /\ Has(R, p, c))
    BY <1>4, <1>6
  <2> QED BY <2>1
<1> QED BY <1>6, <1>7

(* protect_range                                                            *)
LEMMA ProtectPages ==
  ASSUME NEW R, Proper(R), NEW b \in Int, NEW e \in Int, b < e, NEW w \in BOOLEAN
  PROVE  /\ Proper(ProtectRange(R, b, e, w))
         /\ \A p \in Int : \A c : Has(ProtectRange(R, b, e, w), p, c) <=>
              IF p \in b .. e - 1 THEN \E d : Has(R, p, d) /\ c = [d EXCEPT !.write = w]
              ELSE Has(R, p, c)
<1> DEFINE Changed(r) == [r EXCEPT !.content.write = w, !.provenance = "event"]
           C == Clipped(R, b, e)
           N == {Changed(r) : r \in C}
           T == b .. e - 1
<1>0. Apart(R) /\ \A q \in R : q.content \in Content
  BY DEF Proper, Inside
<1>1. Apart(C) /\ \A p \in Int : \A c : Has(C, p, c) <=> p \in T /\ Has(R, p, c)
  <2>1. Apart(C) /\ \A p \in Int : \A c : Has(C, p, c) <=> b <= p /\ p < e /\ Has(R, p, c)
    BY <1>0, ClippedApart, ClippedPages
  <2>2. \A p \in Int : p \in T <=> b <= p /\ p < e
    OBVIOUS
  <2> HIDE DEF T, C
  <2> QED BY <2>1, <2>2
<1>2. ProtectRange(R, b, e, w) = SortAndMerge(Cut(R, T) \cup N)
  <2>1. ~(b >= e)
    OBVIOUS
  <2> QED BY <2>1 DEF ProtectRange
<1>a. \A r \in C : \E q \in R : r = Clip(q, b, e)
  BY DEF Clipped
<1>b. \A x \in N : \E r \in C : x = Changed(r)
  OBVIOUS
<1>c. \A r \in C : Changed(r) \in N
  OBVIOUS
<1> HIDE DEF C, N
<1>3. ASSUME NEW r \in C
      PROVE  /\ IsRegion(Changed(r)) /\ Changed(r).begin = r.begin /\ Changed(r).end = r.end
             /\ IsRegion(r) /\ r.content \in Content
             /\ Changed(r).content = [r.content EXCEPT !.write = w]
             /\ Changed(r).content \in Content
  <2>1. IsRegion(r)
    BY <1>1 DEF Apart
  <2>2. PICK q \in R : r = Clip(q, b, e)
    BY <1>a
  <2>3. r.content = q.content
    BY <1>0, <2>2 DEF Clip, Apart, IsRegion
  <2>4. IsRegion(Changed(r)) /\ Changed(r).begin = r.begin /\ Changed(r).end = r.end
    BY <2>1, RegionProtected
  <2>5. Changed(r).content = [r.content EXCEPT !.write = w]
    BY <2>1 DEF IsRegion
  <2>6. [r.content EXCEPT !.write = w] \in Content
    BY <1>0, <2>3 DEF Content
  <2> QED BY <1>0, <2>1, <2>3, <2>4, <2>5, <2>6
<1> HIDE DEF Changed, T
<1>4. Apart(N)
  <2>1. ASSUME NEW x \in N, NEW y \in N
        PROVE  IsRegion(x) /\ (x = y \/ Before(x, y) \/ Before(y, x))
    <3>1. PICK r \in C : x = Changed(r)
      BY <1>b
    <3>2. PICK s \in C : y = Changed(s)
      BY <1>b
    <3>3. r = s \/ Before(r, s) \/ Before(s, r)
      BY <1>1 DEF Apart
    <3> QED BY <1>3, <3>1, <3>2, <3>3 DEF Before
  <2> QED BY <2>1 DEF Apart
<1>5. \A p \in Int : \A c : Has(N, p, c) <=> \E d : Has(C, p, d) /\ c = [d EXCEPT !.write = w]
  <2>1. ASSUME NEW p \in Int, NEW c, Has(N, p, c)
        PROVE  \E d : Has(C, p, d) /\ c = [d EXCEPT !.write = w]
    <3>1. PICK x \in N : p \in Extent(x) /\ x.content = c
      BY <2>1 DEF Has
    <3>2. PICK r \in C : x = Changed(r)
      BY <1>b
    <3>3. p \in Extent(r) /\ c = [r.content EXCEPT !.write = w]
      BY <1>3, <3>1, <3>2 DEF Extent
    <3> QED BY <3>3 DEF Has
  <2>2. ASSUME NEW p \in Int, NEW c, NEW d, Has(C, p, d), c = [d EXCEPT !.write = w]
        PROVE  Has(N, p, c)
    <3>1. PICK r \in C : p \in Extent(r) /\ r.content = d
      BY <2>2 DEF Has
    <3>2. p \in Extent(Changed(r)) /\ Changed(r).content = c
      BY <1>3, <2>2, <3>1 DEF Extent
    <3> QED BY <1>c, <3>2 DEF Has
  <2> QED BY <2>1, <2>2
<1>6. \A p \in Int : \A c : Has(R, p, c) => 0 <= p /\ p <= MaxPage /\ c \in Content
  BY HasBounds
<1>7. Proper(N)
  <2>1. \A d \in Content : [d EXCEPT !.write = w] \in Content
    BY DEF Content
  <2>2. ASSUME NEW p \in Int, NEW c, Has(N, p, c) PROVE 0 <= p /\ p <= MaxPage /\ c \in Content
    BY <1>1, <1>5, <1>6, <2>1, <2>2
  <2> QED BY <1>4, <2>2, ProperByPages
<1>8. \A p \in Int : \A c : Has(N, p, c) => p \in T
  BY <1>1, <1>5
<1>9. /\ Proper(SortAndMerge(Cut(R, T) \cup N))
      /\ \A p \in Int : \A c : Has(SortAndMerge(Cut(R, T) \cup N), p, c) <=>
                             Has(N, p, c) \/ (p \notin T /\ Has(R, p, c))
  BY <1>7, <1>8, ReplacedPages
<1>10. ASSUME NEW p \in Int, NEW c
       PROVE  Has(ProtectRange(R, b, e, w), p, c) <=>
                IF p \in T THEN \E d : Has(R, p, d) /\ c = [d EXCEPT !.write = w]
                ELSE Has(R, p, c)
  <2>1. CASE p \in T
    <3>1. Has(N, p, c) <=> \E d : Has(R, p, d) /\ c = [d EXCEPT !.write = w]
      BY <1>1, <1>5, <2>1
    <3> QED BY <1>2, <1>9, <2>1, <3>1
  <2>2. CASE p \notin T
    BY <1>2, <1>8, <1>9, <2>2
  <2> QED BY <2>1, <2>2
<1> QED BY <1>2, <1>9, <1>10 DEF T

(* The page that moves to page p has content c.                             *)
Carries(R, b, e, to, to_end, p, c) ==
  to <= p /\ p < to_end /\ p - to + b < e /\ Has(R, p - to + b, c)

(* remap_range                                                              *)
LEMMA RemapPages ==
  ASSUME NEW R, Proper(R), NEW b \in Int, NEW e \in Int, b < e,
         NEW to \in Int, NEW to_end \in Int, 0 <= to, to_end <= MaxPage + 1, NEW keep \in BOOLEAN
  PROVE  /\ Proper(RemapRange(R, b, e, to, to_end, keep))
         /\ \A p \in Int : \A c : Has(RemapRange(R, b, e, to, to_end, keep), p, c) <=>
              \/ Carries(R, b, e, to, to_end, p, c)
              \/ (\A d : ~Carries(R, b, e, to, to_end, p, d)) /\ (keep \/ p \notin b .. e - 1) /\ Has(R, p, c)
<1> DEFINE kept == IF keep THEN R ELSE Cut(R, b .. e - 1)
           moved == Moved(R, b, e, to, to_end)
           T == UNION {Extent(r) : r \in moved}
           S == RemapRange(R, b, e, to, to_end, keep)
<1>0. Apart(R) /\ MaxPage \in Int
  BY AddressAssumption DEF Proper
<1>1. Proper(kept) /\ \A p \in Int : \A c : Has(kept, p, c) <=>
                        (keep \/ p \notin b .. e - 1) /\ Has(R, p, c)
  BY CutProper
<1>2. Apart(moved) /\ \A p \in Int : \A c : Has(moved, p, c) <=> Carries(R, b, e, to, to_end, p, c)
  BY <1>0, MovedApart, MovedPages DEF Carries
<1>3. S = SortAndMerge(Cut(kept, T) \cup moved)
  BY DEF RemapRange
<1>4. \A p : p \in T <=> \E r \in moved : p \in Extent(r)
  OBVIOUS
<1> HIDE DEF kept, moved, T, S
<1>5. \A p \in Int : p \in T <=> \E c : Has(moved, p, c)
  BY <1>4 DEF Has
<1>6. Proper(moved)
  <2>1. ASSUME NEW p \in Int, NEW c, Has(moved, p, c)
        PROVE  0 <= p /\ p <= MaxPage /\ c \in Content
    <3>1. to <= p /\ p < to_end /\ Has(R, p - to + b, c)
      BY <1>2, <2>1 DEF Carries
    <3> QED BY <1>0, <3>1, HasBounds
  <2> QED BY <1>2, <2>1, ProperByPages
<1>7. /\ Proper(S)
      /\ \A p \in Int : \A c : Has(S, p, c) <=> Has(moved, p, c) \/ (p \notin T /\ Has(kept, p, c))
  BY <1>1, <1>3, <1>5, <1>6, ReplacedPages
<1>8. ASSUME NEW p \in Int, NEW c
      PROVE  Has(S, p, c) <=>
               \/ Carries(R, b, e, to, to_end, p, c)
               \/ (\A d : ~Carries(R, b, e, to, to_end, p, d)) /\ (keep \/ p \notin b .. e - 1) /\ Has(R, p, c)
  BY <1>1, <1>2, <1>5, <1>7
<1> QED BY <1>7, <1>8 DEF S

(* A list describes the page map that has the same pages.                   *)
LEMMA EqualPages ==
  ASSUME NEW R, Proper(R), NEW pg \in PageTable,
         \A p \in Page : \A c : Has(R, p, c) <=> c # Unmapped /\ pg[p] = c
  PROVE  PagesOf(R) = pg
<1>1. \A p \in Page : PagesOf(R)[p] = pg[p]
  BY PageOf
<1> QED BY <1>1 DEF PagesOf, PageTable

(* The page map of a proper list is a page map.                             *)
LEMMA PagesTyped ==
  ASSUME NEW R, Proper(R)
  PROVE  PagesOf(R) \in PageTable
<1>1. \A p \in Page : PagesOf(R)[p] \in Content \cup {Unmapped}
  BY PageOf
<1> DEFINE f == PagesOf(R)
<1>2. f = [p \in Page |-> f[p]]
  BY DEF PagesOf
<1> HIDE DEF f
<1>3. \A p \in Page : f[p] \in Content \cup {Unmapped}
  BY <1>1 DEF f
<1> QED BY <1>2, <1>3 DEF PageTable, f

(* The constructor.                                                         *)
LEMMA SeededPages ==
  ASSUME NEW pg \in PageTable
  PROVE  Proper(Seeded(pg).regions) /\ PagesOf(Seeded(pg).regions) = pg
<1> DEFINE N == {[begin |-> p, end |-> p + 1, content |-> pg[p], provenance |-> "seed"] :
                   p \in {q \in Page : pg[q] # Unmapped}}
<1>1. Page \subseteq Int /\ \A p \in Page : 0 <= p /\ p <= MaxPage
  BY AddressAssumption DEF Page
<1>2. Apart(N)
  <2>1. ASSUME NEW p \in Page, NEW q \in Page,
               NEW x, x = [begin |-> p, end |-> p + 1, content |-> pg[p], provenance |-> "seed"],
               NEW y, y = [begin |-> q, end |-> q + 1, content |-> pg[q], provenance |-> "seed"]
        PROVE  IsRegion(x) /\ (x = y \/ Before(x, y) \/ Before(y, x))
    BY <1>1, <2>1 DEF IsRegion, Before
  <2> QED BY <2>1 DEF Apart
<1>3. Seeded(pg).regions = SortAndMerge(N)
  BY DEF Seeded
<1>4. \A r \in N : \E p \in Page : /\ pg[p] # Unmapped
                                   /\ r.begin = p /\ r.end = p + 1 /\ r.content = pg[p]
  OBVIOUS
<1>5. ASSUME NEW p \in Page, pg[p] # Unmapped
      PROVE  \E r \in N : r.begin = p /\ r.end = p + 1 /\ r.content = pg[p]
  <2>1. PICK r : r = [begin |-> p, end |-> p + 1, content |-> pg[p], provenance |-> "seed"]
    OBVIOUS
  <2>2. r \in N
    BY <1>5, <2>1
  <2>3. r.begin = p /\ r.end = p + 1 /\ r.content = pg[p]
    BY <2>1
  <2> HIDE DEF N
  <2> QED BY <2>2, <2>3
<1> HIDE DEF N
<1>6. ASSUME NEW p \in Int, NEW c
      PROVE  Has(N, p, c) <=> p \in Page /\ c # Unmapped /\ pg[p] = c
  <2>1. ASSUME Has(N, p, c) PROVE p \in Page /\ c # Unmapped /\ pg[p] = c
    <3>1. PICK r \in N : p \in Extent(r) /\ r.content = c
      BY <2>1 DEF Has
    <3>2. PICK q \in Page : pg[q] # Unmapped /\ r.begin = q /\ r.end = q + 1 /\ r.content = pg[q]
      BY <1>4
    <3>3. p = q
      BY <1>1, <3>1, <3>2 DEF Extent
    <3> QED BY <3>1, <3>2, <3>3
  <2>2. ASSUME p \in Page, c # Unmapped, pg[p] = c PROVE Has(N, p, c)
    <3>1. PICK r \in N : r.begin = p /\ r.end = p + 1 /\ r.content = pg[p]
      BY <1>5, <2>2
    <3>2. p \in Extent(r)
      BY <3>1 DEF Extent
    <3> QED BY <2>2, <3>1, <3>2 DEF Has
  <2> QED BY <2>1, <2>2
<1>7. Proper(N)
  BY <1>1, <1>2, <1>6, ProperByPages DEF PageTable
<1>8. Proper(SortAndMerge(N)) /\ \A p \in Int : \A c : Has(SortAndMerge(N), p, c) <=> Has(N, p, c)
  BY <1>7, MergePages
<1>9. \A p \in Page : \A c : Has(SortAndMerge(N), p, c) <=> c # Unmapped /\ pg[p] = c
  BY <1>1, <1>6, <1>8
<1> QED BY <1>3, <1>8, <1>9, EqualPages

-----------------------------------------------------------------------------
(* VmaModel::apply, page by page.                                           *)

(* The calls of a program that does not move its break and does not grow a  *)
(* mapping.                                                                 *)
PlainCall == {c \in RangedCall : /\ c.name # "exec"
                                 /\ c.name = "mmap" => c.content \in Content
                                 /\ ~Grows(c)}

(* The ranges of a plain call, and its permissions.                         *)
LEMMA PlainBounds ==
  ASSUME NEW c \in PlainCall
  PROVE  /\ c.name \in {"mmap", "munmap", "mprotect", "mremap"}
         /\ c.begin \in Int /\ c.end \in Int /\ 1 <= c.begin /\ c.begin < c.end
         /\ c.end <= MaxPage + 1
         /\ c.to \in Int /\ c.to_end \in Int /\ 0 <= c.to /\ c.to_end <= MaxPage + 1
         /\ c.keep \in BOOLEAN /\ c.content.write \in BOOLEAN
         /\ c.name = "mremap" => c.to_end - c.to <= c.end - c.begin
         /\ c.name = "mmap" => c.content \in Content
<1>1. /\ c.name \in CallNames /\ c.begin \in Address /\ c.end \in Address
      /\ c.to \in Address \cup {0} /\ c.to_end \in Address \cup {0} /\ c.keep \in BOOLEAN
      /\ c.content \in Content \cup {Unmapped}
      /\ c.begin < c.end /\ c.name # "brk" /\ c.name # "exec"
      /\ c.name = "mmap" => c.content \in Content
      /\ ~Grows(c)
  BY DEF PlainCall, RangedCall, Call
<1>2. /\ c.name \in {"mmap", "munmap", "mprotect", "mremap"}
      /\ c.keep \in BOOLEAN /\ c.content.write \in BOOLEAN
      /\ c.name = "mmap" => c.content \in Content
  <2>1. \A d \in Content : d.write \in BOOLEAN
    BY DEF Content
  <2>2. Unmapped.write \in BOOLEAN
    BY DEF Unmapped
  <2>3. c.content.write \in BOOLEAN
    BY <1>1, <2>1, <2>2
  <2> QED BY <1>1, <2>3 DEF CallNames
<1>3. /\ c.begin \in Int /\ c.end \in Int /\ 1 <= c.begin /\ c.begin < c.end
      /\ c.end <= MaxPage + 1
      /\ c.to \in Int /\ c.to_end \in Int /\ 0 <= c.to /\ c.to_end <= MaxPage + 1
  BY <1>1, AddressAssumption DEF Address
<1>4. c.name = "mremap" => c.to_end - c.to <= c.end - c.begin
  BY <1>1, <1>3 DEF Grows
<1> QED BY <1>2, <1>3, <1>4

(* A plain call makes a page map of a page map.                             *)
LEMMA AfterTyped ==
  ASSUME NEW pg \in PageTable, NEW c \in PlainCall
  PROVE  After(pg, c) \in PageTable
<1>1. Unmapped \in Content \cup {Unmapped}
  OBVIOUS
<1>2. \A p \in Page : pg[p] \in Content \cup {Unmapped}
  BY DEF PageTable
<1>3. CASE c.name = "mmap"
  BY <1>2, <1>3, PlainBounds DEF After, PageTable
<1>4. CASE c.name = "munmap"
  BY <1>1, <1>2, <1>4 DEF After, PageTable
<1>5. CASE c.name = "mprotect"
  <2>1. ASSUME NEW d \in Content PROVE [d EXCEPT !.write = c.content.write] \in Content
    BY PlainBounds DEF Content
  <2>2. \A p \in Page : pg[p] # Unmapped => [pg[p] EXCEPT !.write = c.content.write] \in Content
    BY <1>2, <2>1
  <2>3. After(pg, c) = [p \in Page |-> IF p \in PagesIn(c.begin, c.end) /\ pg[p] # Unmapped
                                       THEN [pg[p] EXCEPT !.write = c.content.write] ELSE pg[p]]
    BY <1>5 DEF After
  <2> QED BY <1>2, <2>2, <2>3 DEF PageTable
<1>6. CASE c.name = "mremap"
  <2>1. \A p \in PagesIn(c.to, c.to_end) : p \in Int /\ p - c.to + c.begin \in Page
                                           /\ p - c.to < c.end - c.begin
    BY <1>6, PlainBounds, AddressAssumption DEF PagesIn, Page
  <2>2. After(pg, c) =
          [p \in Page |-> IF p \in PagesIn(c.to, c.to_end) /\ pg[p - c.to + c.begin] # Unmapped
                          THEN pg[p - c.to + c.begin]
                          ELSE IF p \in PagesIn(c.begin, c.end) /\ ~c.keep
                               THEN Unmapped ELSE pg[p]]
    BY <1>6, <2>1 DEF After, Remapped
  <2> QED BY <1>1, <1>2, <2>1, <2>2 DEF PageTable
<1> QED BY <1>3, <1>4, <1>5, <1>6, PlainBounds

(* Where the pages of an mremap come from.                                  *)
LEMMA RemapAfter ==
  ASSUME NEW pg \in PageTable, NEW c \in PlainCall, c.name = "mremap", NEW p \in Page
  PROVE  /\ p \in PagesIn(c.to, c.to_end) =>
              p - c.to + c.begin \in Page /\ p - c.to < c.end - c.begin
         /\ After(pg, c)[p] =
              IF p \in PagesIn(c.to, c.to_end) /\ pg[p - c.to + c.begin] # Unmapped
              THEN pg[p - c.to + c.begin]
              ELSE IF p \in PagesIn(c.begin, c.end) /\ ~c.keep THEN Unmapped ELSE pg[p]
<1>1. p \in PagesIn(c.to, c.to_end) =>
        p - c.to + c.begin \in Page /\ p - c.to < c.end - c.begin
  BY PlainBounds, AddressAssumption DEF PagesIn, Page
<1> QED BY <1>1 DEF After, Remapped

(* apply does to the pages of the model what the call did to the pages of   *)
(* the process.                                                             *)
LEMMA AppliedPages ==
  ASSUME NEW m, m = [regions |-> m.regions, heap_base |-> m.heap_base], Proper(m.regions),
         NEW c \in PlainCall
  PROVE  /\ Proper(Applied(m, c).regions)
         /\ PagesOf(Applied(m, c).regions) = After(PagesOf(m.regions), c)
<1> DEFINE R == m.regions
           S == Applied(m, c).regions
           pg == PagesOf(R)
<1>0. /\ pg \in PageTable /\ After(pg, c) \in PageTable
      /\ Page \subseteq Int /\ Unmapped \notin Content
  <2>1. pg \in PageTable
    BY PagesTyped
  <2>2. Page \subseteq Int
    BY AddressAssumption DEF Page
  <2>3. Unmapped \notin Content
    BY DEF Unmapped, Content, Kind
  <2> HIDE DEF pg
  <2> QED BY <2>1, <2>2, <2>3, AfterTyped
<1>1. \A p \in Page : \A d : Has(R, p, d) <=> d # Unmapped /\ pg[p] = d
  BY PageOf
<1>2. \A p \in Page : p \in c.begin .. c.end - 1 <=> p \in PagesIn(c.begin, c.end)
  BY <1>0, PlainBounds DEF PagesIn
<1>3. c.begin \in Int /\ c.end \in Int /\ c.begin < c.end
  BY PlainBounds
<1>4. CASE c.name = "mmap"
  <2>1. S = MapRegion(R, [begin |-> c.begin, end |-> c.end, content |-> c.content,
                          provenance |-> "event"])
    BY <1>4 DEF Applied
  <2>2. c.content \in Content /\ 0 <= c.begin /\ c.end <= MaxPage + 1
    BY <1>4, PlainBounds
  <2> HIDE DEF R, S, pg
  <2>3. /\ Proper(S)
        /\ \A p \in Int : \A d : Has(S, p, d) <=>
             IF p \in c.begin .. c.end - 1 THEN d = c.content ELSE Has(R, p, d)
    BY <1>3, <2>1, <2>2, MapPages DEF R
  <2>4. \A p \in Page : After(pg, c)[p] = IF p \in PagesIn(c.begin, c.end)
                                         THEN c.content ELSE pg[p]
    BY <1>4 DEF After
  <2>5. \A p \in Page : \A d : Has(S, p, d) <=> d # Unmapped /\ After(pg, c)[p] = d
    BY <1>0, <1>1, <1>2, <2>2, <2>3, <2>4
  <2>6. PagesOf(S) = After(pg, c)
    BY <1>0, <2>3, <2>5, EqualPages
  <2> QED BY <2>3, <2>6 DEF S, pg, R
<1>5. CASE c.name = "munmap"
  <2>1. S = UnmapRange(R, c.begin, c.end)
    BY <1>5 DEF Applied
  <2> HIDE DEF R, S, pg
  <2>2. /\ Proper(S)
        /\ \A p \in Int : \A d : Has(S, p, d) <=> p \notin c.begin .. c.end - 1 /\ Has(R, p, d)
    BY <1>3, <2>1, UnmapPages DEF R
  <2>3. \A p \in Page : After(pg, c)[p] = IF p \in PagesIn(c.begin, c.end)
                                         THEN Unmapped ELSE pg[p]
    BY <1>5 DEF After
  <2>4. \A p \in Page : \A d : Has(S, p, d) <=> d # Unmapped /\ After(pg, c)[p] = d
    BY <1>0, <1>1, <1>2, <2>2, <2>3
  <2>5. PagesOf(S) = After(pg, c)
    BY <1>0, <2>2, <2>4, EqualPages
  <2> QED BY <2>2, <2>5 DEF S, pg, R
<1>6. CASE c.name = "mprotect"
  <2> DEFINE Changed(d) == [d EXCEPT !.write = c.content.write]
  <2>1. S = ProtectRange(R, c.begin, c.end, c.content.write)
    BY <1>6 DEF Applied
  <2>a. \A d \in Content : Changed(d) # Unmapped
    BY DEF Content, Kind, Unmapped
  <2>b. c.content.write \in BOOLEAN
    BY PlainBounds
  <2> HIDE DEF R, S, pg
  <2>2. /\ Proper(S)
        /\ \A p \in Int : \A d : Has(S, p, d) <=>
             IF p \in c.begin .. c.end - 1 THEN \E x : Has(R, p, x) /\ d = Changed(x)
             ELSE Has(R, p, d)
    BY <1>3, <2>1, <2>b, ProtectPages DEF R
  <2>3. \A p \in Page : After(pg, c)[p] =
                          IF p \in PagesIn(c.begin, c.end) /\ pg[p] # Unmapped
                          THEN Changed(pg[p]) ELSE pg[p]
    BY <1>6 DEF After
  <2>4. \A p \in Page : pg[p] \in Content \cup {Unmapped}
    BY <1>0 DEF PageTable
  <2> HIDE DEF Changed
  <2>5. ASSUME NEW p \in Page, NEW d
        PROVE  Has(S, p, d) <=> d # Unmapped /\ After(pg, c)[p] = d
    <3>1. CASE p \in PagesIn(c.begin, c.end)
      <4>1. Has(S, p, d) <=> \E x : Has(R, p, x) /\ d = Changed(x)
        BY <1>0, <1>2, <2>2, <3>1
      <4>2. (\E x : Has(R, p, x) /\ d = Changed(x)) <=> pg[p] # Unmapped /\ d = Changed(pg[p])
        BY <1>1
      <4> QED BY <2>3, <2>4, <2>a, <3>1, <4>1, <4>2
    <3>2. CASE p \notin PagesIn(c.begin, c.end)
      BY <1>0, <1>1, <1>2, <2>2, <2>3, <3>2
    <3> QED BY <3>1, <3>2
  <2>6. PagesOf(S) = After(pg, c)
    BY <1>0, <2>2, <2>5, EqualPages
  <2> QED BY <2>2, <2>6 DEF S, pg, R
<1>7. CASE c.name = "mremap"
  <2> DEFINE In(p, d) == Carries(R, c.begin, c.end, c.to, c.to_end, p, d)
  <2>1. S = RemapRange(R, c.begin, c.end, c.to, c.to_end, c.keep)
    BY <1>7 DEF Applied
  <2>a. c.to \in Int /\ c.to_end \in Int /\ 0 <= c.to /\ c.to_end <= MaxPage + 1 /\ c.keep \in BOOLEAN
    BY PlainBounds
  <2> HIDE DEF R, S, pg
  <2>2. /\ Proper(S)
        /\ \A p \in Int : \A d : Has(S, p, d) <=>
             \/ In(p, d)
             \/ (\A x : ~In(p, x)) /\ (c.keep \/ p \notin c.begin .. c.end - 1) /\ Has(R, p, d)
    BY <1>3, <2>1, <2>a, RemapPages DEF R
  <2>3. ASSUME NEW p \in Page, NEW d
        PROVE  In(p, d) <=> /\ p \in PagesIn(c.to, c.to_end)
                            /\ d # Unmapped /\ pg[p - c.to + c.begin] = d
    <3>1. In(p, d) <=> /\ p \in PagesIn(c.to, c.to_end)
                       /\ p - c.to + c.begin < c.end
                       /\ Has(R, p - c.to + c.begin, d)
      BY DEF Carries, PagesIn
    <3>2. p \in PagesIn(c.to, c.to_end) =>
            p - c.to + c.begin \in Page /\ p - c.to + c.begin < c.end
      BY <1>0, <1>3, <1>7, <2>a, RemapAfter
    <3> QED BY <1>1, <3>1, <3>2
  <2> HIDE DEF In
  <2>4. ASSUME NEW p \in Page, NEW d
        PROVE  Has(S, p, d) <=> d # Unmapped /\ After(pg, c)[p] = d
    <3>1. After(pg, c)[p] =
            IF p \in PagesIn(c.to, c.to_end) /\ pg[p - c.to + c.begin] # Unmapped
            THEN pg[p - c.to + c.begin]
            ELSE IF p \in PagesIn(c.begin, c.end) /\ ~c.keep THEN Unmapped ELSE pg[p]
      BY <1>0, <1>7, RemapAfter
    <3>2. Has(S, p, d) <=>
             \/ In(p, d)
             \/ (\A x : ~In(p, x)) /\ (c.keep \/ p \notin PagesIn(c.begin, c.end)) /\ Has(R, p, d)
      BY <1>0, <1>2, <2>2
    <3>3. CASE p \in PagesIn(c.to, c.to_end) /\ pg[p - c.to + c.begin] # Unmapped
      BY <2>3, <3>1, <3>2, <3>3
    <3>4. CASE ~(p \in PagesIn(c.to, c.to_end) /\ pg[p - c.to + c.begin] # Unmapped)
      <4>1. \A x : ~In(p, x)
        BY <2>3, <3>4
      <4> QED BY <1>1, <3>1, <3>2, <3>4, <4>1
    <3> QED BY <3>3, <3>4
  <2>5. PagesOf(S) = After(pg, c)
    BY <1>0, <2>2, <2>4, EqualPages
  <2> QED BY <2>2, <2>5 DEF S, pg, R
<1> QED BY <1>4, <1>5, <1>6, <1>7, PlainBounds

(* A call changes no page outside its ranges.                               *)
LEMMA AfterOutside ==
  ASSUME NEW pg \in PageTable, NEW c \in PlainCall, NEW p \in Page, p \notin Footprint(c)
  PROVE  After(pg, c)[p] = pg[p]
<1>1. p \notin PagesIn(c.begin, c.end) /\ p \notin PagesIn(c.to, c.to_end)
  BY DEF Footprint
<1>2. CASE c.name # "mremap"
  BY <1>1, <1>2, PlainBounds DEF After
<1>3. CASE c.name = "mremap"
  BY <1>1, <1>3, RemapAfter
<1> QED BY <1>2, <1>3

(* What a call makes of a page depends on this page, and, for an mremap, on *)
(* the page that moves there.                                               *)
LEMMA AfterLocal ==
  ASSUME NEW pg \in PageTable, NEW qg \in PageTable, NEW c \in PlainCall, NEW p \in Page,
         pg[p] = qg[p],
         \A q \in Footprint(c) :
           c.name = "mremap" /\ p \in PagesIn(c.to, c.to_end) => pg[q] = qg[q]
  PROVE  After(pg, c)[p] = After(qg, c)[p]
<1>1. CASE c.name # "mremap"
  BY <1>1, PlainBounds DEF After
<1>2. CASE c.name = "mremap"
  <2>1. CASE p \in PagesIn(c.to, c.to_end)
    <3>1. p - c.to + c.begin \in PagesIn(c.begin, c.end)
      <4>1. /\ p - c.to + c.begin \in Page /\ p - c.to < c.end - c.begin
            /\ c.to <= p /\ p \in Int /\ c.begin \in Int /\ c.end \in Int /\ c.to \in Int
        BY <1>2, <2>1, RemapAfter, PlainBounds, AddressAssumption DEF PagesIn, Page
      <4> QED BY <4>1 DEF PagesIn
    <3>2. pg[p - c.to + c.begin] = qg[p - c.to + c.begin]
      BY <1>2, <2>1, <3>1 DEF Footprint
    <3> QED BY <1>2, <3>2, RemapAfter
  <2>2. CASE p \notin PagesIn(c.to, c.to_end)
    BY <1>2, <2>2, RemapAfter
  <2> QED BY <2>1, <2>2
<1> QED BY <1>1, <1>2

-----------------------------------------------------------------------------
(* The trace loop.                                                          *)

(* What a program does for which the promise is kept: it does not move its  *)
(* break and grows no mapping, and no process that it forked is traced.     *)
PlainProgram == "brk" \notin Uses /\ ~Growing /\ Forked = {}

(* Every call that such a program makes is plain.                           *)
LEMMA PossiblePlain ==
  ASSUME PlainProgram, NEW t \in Tid, NEW c \in Possible(t)
  PROVE  c \in PlainCall
<1>1. c \in RangedCall
  BY PossibleRanged DEF PlainProgram
<1>2. \/ c \in MmapCalls \/ c \in MunmapCalls \/ c \in MprotectCalls(pages)
      \/ c \in MremapCalls(pages)
      \/ c = BrkQuery(HeapStart) \/ c = BrkQuery(break) \/ c \in BrkCalls(pages, break)
  BY DEF Possible
<1>3. CASE c \in MmapCalls
  <2>1. PICK r \in Ranges, d \in {AnonPage, FilePage} : c = [OnRange("mmap", r[1], r[2]) EXCEPT !.content = d]
    BY <1>3 DEF MmapCalls
  <2>2. c.name = "mmap" /\ c.content = d
    BY <2>1 DEF OnRange, NoCall
  <2>3. AnonPage \in Content /\ FilePage \in Content
    BY DEF AnonPage, FilePage, Content, Kind
  <2> QED BY <1>1, <2>2, <2>3 DEF PlainCall, Grows
<1>4. CASE c \in MunmapCalls
  <2>1. c.name = "munmap"
    BY <1>4 DEF MunmapCalls, OnRange, NoCall
  <2> QED BY <1>1, <2>1 DEF PlainCall, Grows
<1>5. CASE c \in MprotectCalls(pages)
  <2>1. PICK r \in Ranges, d \in {AnonPage, [AnonPage EXCEPT !.write = FALSE]} :
          c = [OnRange("mprotect", r[1], r[2]) EXCEPT !.content = d]
    BY <1>5 DEF MprotectCalls
  <2>2. c.name = "mprotect"
    BY <2>1 DEF OnRange, NoCall
  <2> QED BY <1>1, <2>2 DEF PlainCall, Grows
<1>6. ASSUME c \in MremapCalls(pages) PROVE c.name = "mremap"
  <2>1. PICK x \in Ranges \X Ranges \X BOOLEAN :
          c = [OnRange("mremap", x[1][1], x[1][2]) EXCEPT !.to = x[2][1], !.to_end = x[2][2],
                                                          !.keep = x[3]]
    BY <1>6, ZenonT(30) DEF MremapCalls
  <2> QED BY <2>1 DEF OnRange, NoCall
<1>7. ASSUME c = BrkQuery(HeapStart) \/ c = BrkQuery(break) \/ c \in BrkCalls(pages, break)
      PROVE  FALSE
  <2>1. c.name = "brk"
    BY <1>7 DEF BrkQuery, BrkCalls, OnRange, NoCall
  <2> QED BY <1>1, <2>1 DEF RangedCall
<1>8. CASE c \in MremapCalls(pages)
  <2>1. ~Grows(c)
    <3>1. \/ c \in {d \in MmapCalls \cup MunmapCalls \cup MprotectCalls(pages)
                       \cup MremapCalls(pages) : Growing \/ ~Grows(d)}
          \/ c.name = "brk"
      BY DEF Possible, BrkQuery, BrkCalls, OnRange, NoCall
    <3> QED BY <1>1, <3>1 DEF PlainProgram, RangedCall
  <2> QED BY <1>1, <1>6, <1>8, <2>1 DEF PlainCall
<1> QED BY <1>2, <1>3, <1>4, <1>5, <1>7, <1>8

(* What a thread's place says of the call that it holds.                    *)
CallAtPlace(t) ==
  LET c == thread[t].call
  IN  /\ c \in PlainCall \cup {NoCall, Exec}
      /\ c \in PlainCall => thread[t].at = "exit" /\ t \in pending
      /\ c = Exec <=> thread[t].at = "exec"
      /\ thread[t].at = "kernel" => t \in pending
      /\ thread[t].at = "exec" => t = child

(* A served execve is alone: the other threads are gone.                    *)
ExecAlone ==
  thread[child].at = "exec" =>
    /\ pages = Image
    /\ \A t \in Tid \ {child} : thread[t].at \in {"dead", "reaped"}

(* The tracer's model is a proper list of regions.                          *)
ModelProper ==
  /\ model = [regions |-> model.regions, heap_base |-> model.heap_base]
  /\ Proper(model.regions)

(* The inductive invariant of the calls that are served.                    *)
ServeInv ==
  /\ CallsRanged
  /\ \A t \in Tid : CallAtPlace(t)
  /\ ExecAlone
  /\ pages \in PageTable
  /\ ModelProper

(* The two calls that are not plain.                                        *)
LEMMA NotPlain == NoCall \notin PlainCall /\ Exec \notin PlainCall /\ NoCall # Exec
<1>1. NoCall.name = "none" /\ Exec.name = "exec"
  BY DEF NoCall, Exec, OnRange
<1>2. \A c \in PlainCall : c.name # "none" /\ c.name # "exec"
  BY PlainBounds
<1> QED BY <1>1, <1>2

(* The image of an execve is a page map.                                    *)
LEMMA ImageTyped == Image \in PageTable
BY DEF Image, PageTable, FilePage, Content, Kind

(* Before the first stop nothing is under way.                              *)
LEMMA ServeInit == Init => ServeInv
<1> SUFFICES ASSUME Init PROVE ServeInv
  OBVIOUS
<1>1. CallsRanged
  BY NoOverlapInit DEF NoOverlapInv
<1>2. \A t \in Tid : CallAtPlace(t)
  BY NotPlain DEF Init, CallAtPlace
<1>3. ExecAlone
  BY TracerAssumption DEF Init, ExecAlone
<1>4. pages \in PageTable
  BY ImageTyped DEF Init
<1>5. ModelProper
  BY ImageTyped, SeededPages, SeededShape DEF Init, ModelProper
<1> QED BY <1>1, <1>2, <1>3, <1>4, <1>5 DEF ServeInv

(* When one thread moves, the others are where they were.                   *)
LEMMA OneThread ==
  ASSUME ServeInv, NEW t \in Tid, NEW v, thread' = [thread EXCEPT ![t] = v],
         \A u \in Tid \ {t} : u \in pending => u \in pending'
  PROVE  /\ thread'[t] = v
         /\ \A u \in Tid \ {t} : thread'[u] = thread[u] /\ CallAtPlace(u)'
<1>1. DOMAIN thread = Tid
  BY DEF ServeInv, CallsRanged
<1>2. thread'[t] = v /\ \A u \in Tid \ {t} : thread'[u] = thread[u]
  BY <1>1
<1>3. \A u \in Tid \ {t} : CallAtPlace(u)'
  BY <1>2 DEF ServeInv, CallAtPlace
<1> QED BY <1>2, <1>3

(* When a thread that is not stopped by an execve moves to a place that is  *)
(* not such a stop, no execve is served.                                    *)
LEMMA NotExec ==
  ASSUME ServeInv, NEW t \in Tid, NEW v, thread' = [thread EXCEPT ![t] = v],
         v.at # "exec",
         thread[t].at \in {"user", "entry", "kernel", "exit"} \/ v.at \in {"dead", "reaped"},
         UNCHANGED pages
  PROVE  ExecAlone'
<1>1. DOMAIN thread = Tid /\ child \in Tid
  BY TracerAssumption DEF ServeInv, CallsRanged
<1>2. thread'[t] = v /\ \A u \in Tid \ {t} : thread'[u] = thread[u]
  BY <1>1
<1>3. SUFFICES ASSUME thread'[child].at = "exec" PROVE ExecAlone'
  BY DEF ExecAlone
<1>4. child # t /\ thread[child].at = "exec"
  BY <1>1, <1>2, <1>3
<1>5. pages = Image /\ \A u \in Tid \ {child} : thread[u].at \in {"dead", "reaped"}
  BY <1>4 DEF ServeInv, ExecAlone
<1> QED BY <1>2, <1>4, <1>5 DEF ExecAlone

(* A thread without a call is sent to another place.                        *)
Sent(t, at) ==
  /\ thread' = [thread EXCEPT ![t] = [at |-> at, call |-> NoCall]]
  /\ pending \ {t} \subseteq pending'
  /\ at # "exec"
  /\ at = "kernel" => t \in pending'
  /\ thread[t].at \in {"user", "entry", "kernel", "exit"} \/ at \in {"dead", "reaped"}
  /\ pages' = pages

(* What the threads hold, and which entries are pending.                    *)
LEMMA ServeCalls ==
  ASSUME PlainProgram, ServeInv, [Next]_vars
  PROVE  /\ \A t \in Tid : CallAtPlace(t)'
         /\ ExecAlone'
<1> DEFINE Goal == (\A t \in Tid : CallAtPlace(t)') /\ ExecAlone'
<1>0. /\ child \in Tid /\ DOMAIN thread = Tid
      /\ \A u \in Tid : /\ CallAtPlace(u)
                        /\ thread[u] = [at |-> thread[u].at, call |-> thread[u].call]
  BY TracerAssumption DEF ServeInv, CallsRanged
<1>1. ASSUME NEW t \in Tid, NEW at, Sent(t, at)
      PROVE  Goal
  <2> DEFINE v == [at |-> at, call |-> NoCall]
  <2>0. v.at = at /\ v.call = NoCall /\ thread' = [thread EXCEPT ![t] = v]
       /\ \A u \in Tid \ {t} : u \in pending => u \in pending'
    BY <1>1 DEF Sent
  <2> HIDE DEF v
  <2>1. thread'[t] = v /\ \A u \in Tid \ {t} : CallAtPlace(u)'
    BY <1>1, <2>0, OneThread
  <2>2. CallAtPlace(t)'
    BY <1>1, <2>0, <2>1, NotPlain DEF CallAtPlace, Sent
  <2>3. ExecAlone'
    BY <1>1, <2>0, NotExec DEF Sent
  <2> QED BY <2>1, <2>2, <2>3
<1>2. ASSUME NEW t \in Tid, NEW at, thread' = [thread EXCEPT ![t].at = at],
             thread[t].at \in {"user", "entry", "kernel", "dead"}
      PROVE  thread' = [thread EXCEPT ![t] = [at |-> at, call |-> NoCall]]
  <2>1. thread[t].call = NoCall
    BY <1>0, <1>2 DEF CallAtPlace
  <2>2. PICK r : r = thread[t]
    OBVIOUS
  <2>3. r = [at |-> r.at, call |-> NoCall]
    BY <1>0, <2>1, <2>2
  <2>4. [r EXCEPT !.at = at] = [at |-> at, call |-> NoCall]
    BY <2>3
  <2> QED BY <1>2, <2>2, <2>4
<1> HIDE DEF Goal
<1>3. ASSUME NEW t \in Tid, Enter(t) PROVE Goal
  <2>1. thread' = [thread EXCEPT ![t] = [at |-> "entry", call |-> NoCall]]
    BY <1>2, <1>3 DEF Enter
  <2>2. thread[t].at = "user" /\ pending' = pending /\ pages' = pages
    BY <1>3 DEF Enter, tracer
  <2>3. Sent(t, "entry")
    BY <2>1, <2>2 DEF Sent
  <2> QED BY <1>1, <2>3
<1>4. ASSUME NEW t \in Tid, Execute(t) PROVE Goal
  <2>1. PICK c \in Possible(t) : thread' = [thread EXCEPT ![t] = [at |-> "exit", call |-> c]]
    BY <1>4 DEF Execute
  <2>2. c \in PlainCall /\ thread[t].at = "kernel" /\ pending' = pending
    BY <1>4, PossiblePlain DEF Execute, tracer
  <2>3. /\ thread'[t] = [at |-> "exit", call |-> c]
        /\ \A u \in Tid \ {t} : thread'[u] = thread[u] /\ CallAtPlace(u)'
    BY <2>1, <2>2, OneThread
  <2>4. CallAtPlace(t)'
    BY <1>0, <2>2, <2>3, NotPlain DEF CallAtPlace
  <2>5. thread[child].at # "exec" /\ thread'[child].at # "exec"
    <3>1. thread[child].at # "exec"
      BY <1>0, <2>2 DEF ServeInv, ExecAlone
    <3> QED BY <1>0, <2>3, <3>1
  <2> QED BY <2>3, <2>4, <2>5 DEF Goal, ExecAlone
<1>5. ASSUME NEW t \in Tid, ExecuteFails(t) PROVE Goal
  <2>1. thread' = [thread EXCEPT ![t] = [at |-> "exit", call |-> NoCall]]
    BY <1>2, <1>5 DEF ExecuteFails
  <2>2. thread[t].at = "kernel" /\ pending' = pending /\ pages' = pages
    BY <1>5 DEF ExecuteFails, kernel, tracer
  <2>3. Sent(t, "exit")
    BY <2>1, <2>2 DEF Sent
  <2> QED BY <1>1, <2>3
<1>6. ASSUME NEW t \in Tid, ExitThread(t) PROVE Goal
  <2>1. thread' = [thread EXCEPT ![t] = [at |-> "dead", call |-> NoCall]]
    BY <1>2, <1>6 DEF ExitThread
  <2>2. pending' = pending /\ pages' = pages
    BY <1>6 DEF ExitThread, kernel, tracer
  <2>3. Sent(t, "dead")
    BY <2>1, <2>2 DEF Sent
  <2> QED BY <1>1, <2>3
<1>7. CASE ExecuteExec
  <2>1. /\ thread' = [t \in Tid |->
              IF t = child THEN [at |-> "exec", call |-> Exec]
              ELSE IF thread[t].at = "reaped" THEN thread[t]
              ELSE [at |-> "dead", call |-> NoCall]]
        /\ pages' = Image /\ pending' = pending
    BY <1>7 DEF ExecuteExec, PlainProgram, tracer
  <2>2. ASSUME NEW t \in Tid \ {child}
        PROVE  thread'[t].at \in {"dead", "reaped"} /\ thread'[t].call = NoCall
    BY <1>0, <2>1, NotPlain DEF CallAtPlace
  <2>3. thread'[child].at = "exec" /\ thread'[child].call = Exec
    BY <1>0, <2>1
  <2>4. \A t \in Tid : CallAtPlace(t)'
    BY <2>2, <2>3, NotPlain DEF CallAtPlace
  <2> QED BY <2>1, <2>2, <2>4 DEF Goal, ExecAlone
<1>8. ASSUME NEW t \in Tid, HandleDeath(t) PROVE Goal
  <2>1. thread' = [thread EXCEPT ![t] = [at |-> "reaped", call |-> NoCall]]
    BY <1>2, <1>8 DEF HandleDeath
  <2>2. pending \ {t} \subseteq pending' /\ pages' = pages
    BY <1>8 DEF HandleDeath, kernel
  <2>3. Sent(t, "reaped")
    BY <2>1, <2>2 DEF Sent
  <2> QED BY <1>1, <2>3
<1>9. ASSUME NEW t \in Tid, HandleEntry(t) PROVE Goal
  <2>1. /\ thread' = [thread EXCEPT ![t] = [at |-> "kernel", call |-> NoCall]]
        /\ pending' = pending \cup {t} /\ thread[t].at = "entry" /\ pages' = pages
    BY <1>9 DEF HandleEntry, Serving, Resume, kernel
  <2>2. Sent(t, "kernel")
    BY <2>1 DEF Sent
  <2> QED BY <1>1, <2>2
<1>10. ASSUME NEW t \in Tid, HandleExit(t) PROVE Goal
  <2>1. /\ thread' = [thread EXCEPT ![t] = [at |-> "user", call |-> NoCall]]
        /\ pending' = pending \ {t} /\ thread[t].at = "exit" /\ pages' = pages
    BY <1>10 DEF HandleExit, Serving, Resume, kernel
  <2>2. Sent(t, "user")
    BY <2>1 DEF Sent
  <2> QED BY <1>1, <2>2
<1>11. ASSUME NEW t \in Tid, HandleExec(t) PROVE Goal
  <2>1. /\ thread' = [thread EXCEPT ![t] = [at |-> IF Seccomp THEN "user" ELSE "exit",
                                           call |-> NoCall]]
        /\ pending' = pending \ {t} /\ thread[t].at = "exec"
    BY <1>11 DEF HandleExec, Serving, Resume
  <2>2. \A u \in Tid \ {t} : thread'[u] = thread[u] /\ CallAtPlace(u)'
    BY <2>1, OneThread
  <2>3. thread'[t].at \in {"user", "exit"} /\ thread'[t].call = NoCall
    BY <1>0, <2>1
  <2>4. CallAtPlace(t)'
    BY <2>3, NotPlain DEF CallAtPlace
  <2>5. t = child
    BY <1>0, <2>1 DEF CallAtPlace
  <2> QED BY <2>2, <2>3, <2>4, <2>5 DEF Goal, ExecAlone
<1>12. CASE Die \/ \E t \in Tid : HandlerThrows(t)
  <2> DEFINE Killed == /\ \A t \in Tid : \/ thread'[t] = thread[t] /\ thread[t].at = "reaped"
                                         \/ /\ thread'[t].at \in {"dead", "reaped"}
                                            /\ thread'[t].call = NoCall
                       /\ pending' = pending
  <2>a. ASSUME Die PROVE Killed
    <3>1. /\ thread' = [t \in Tid |-> IF t \in Forked \/ thread[t].at = "reaped" THEN thread[t]
                                      ELSE [at |-> "dead", call |-> NoCall]]
          /\ pending' = pending /\ Forked = {}
      BY <2>a DEF Die, PlainProgram, tracer
    <3> QED BY <3>1
  <2>b. ASSUME \E t \in Tid : HandlerThrows(t) PROVE Killed
    <3>1. /\ thread' = [u \in Tid |-> IF u \in Forked THEN thread[u]
                                      ELSE [at |-> "reaped", call |-> NoCall]]
          /\ pending' = pending /\ Forked = {}
      BY <2>b DEF HandlerThrows, PlainProgram
    <3> QED BY <3>1
  <2>1. Killed
    BY <1>12, <2>a, <2>b
  <2>2. \A t \in Tid : CallAtPlace(t)'
    BY <1>0, <2>1, NotPlain DEF CallAtPlace
  <2>3. thread'[child].at # "exec"
    BY <1>0, <2>1
  <2> QED BY <2>2, <2>3 DEF Goal, ExecAlone
<1>13. CASE UNCHANGED <<thread, pending, pages>>
  BY <1>0, <1>13 DEF Goal, ServeInv, CallAtPlace, ExecAlone
<1>14. (\E t \in Tid : Wait(t)) \/ Ended \/ UNCHANGED vars => UNCHANGED <<thread, pending, pages>>
  BY DEF Wait, Ended, vars, kernel, tracer
<1>15. CASE Target
  BY <1>3, <1>4, <1>5, <1>6, <1>7, <1>12, <1>15 DEF Target, Goal
<1>16. CASE Tracer
  BY <1>8, <1>9, <1>10, <1>11, <1>12, <1>13, <1>14, <1>16 DEF Tracer, Goal
<1> QED BY <1>13, <1>14, <1>15, <1>16 DEF Next, Goal

(* What the model says of the pages.                                        *)
Known == PagesOf(model.regions)

(* The exit stop of an executed call applies this call, whatever the list   *)
(* of regions looks like.                                                   *)
LEMMA ExitApplies ==
  ASSUME ServeInv, NEW t \in Tid, HandleExit(t)
  PROVE  /\ ModelProper'
         /\ \/ thread[t].call = NoCall /\ model' = model
            \/ thread[t].call \in PlainCall /\ Known' = After(Known, thread[t].call)
<1> DEFINE c == thread[t].call
<1>1. c \in PlainCall \cup {NoCall} /\ (c \in PlainCall => t \in pending)
  BY DEF ServeInv, CallAtPlace, HandleExit, Serving
<1>2. model' = IF t \in pending /\ c # NoCall THEN Applied(model, c) ELSE model
  BY DEF HandleExit
<1>3. ModelProper /\ model = [regions |-> model.regions, heap_base |-> model.heap_base]
      /\ Proper(model.regions) /\ Apart(model.regions)
  BY DEF ServeInv, ModelProper, Proper
<1> HIDE DEF c
<1>4. CASE c = NoCall
  BY <1>2, <1>3, <1>4 DEF c, ModelProper
<1>5. CASE c \in PlainCall
  <2>1. c \in RangedCall /\ model' = Applied(model, c)
    BY <1>1, <1>2, <1>5, NotPlain DEF PlainCall
  <2>2. model' = [regions |-> model'.regions, heap_base |-> model'.heap_base]
    BY <1>3, <2>1, AppliedApart
  <2>3. Proper(model'.regions) /\ PagesOf(model'.regions) = After(Known, c)
    BY <1>3, <1>5, <2>1, AppliedPages DEF Known
  <2> QED BY <1>5, <2>2, <2>3 DEF c, ModelProper, Known
<1> QED BY <1>1, <1>4, <1>5

(* The stop of an execve replaces the model by the new image.               *)
LEMMA ExecReplaces ==
  ASSUME ServeInv, NEW t \in Tid, HandleExec(t)
  PROVE  /\ ModelProper'
         /\ Known' = Image /\ pages = Image
         /\ t = child /\ thread[t].call = Exec
<1>1. t = child /\ thread[t].call = Exec /\ pages = Image /\ pages \in PageTable
  BY DEF ServeInv, CallAtPlace, ExecAlone, HandleExec, Serving
<1>2. model' = Seeded(pages)
  BY DEF HandleExec, Reseeded
<1>3. model' = [regions |-> model'.regions, heap_base |-> model'.heap_base]
  BY <1>2, SeededShape
<1>4. Proper(model'.regions) /\ PagesOf(model'.regions) = pages
  BY <1>1, <1>2, SeededPages
<1> QED BY <1>1, <1>3, <1>4 DEF ModelProper, Known

(* Nothing else touches the model.                                          *)
LEMMA ModelKept ==
  ASSUME [Next]_vars, \A t \in Tid : ~HandleExit(t) /\ ~HandleExec(t)
  PROVE  UNCHANGED model
<1>1. \A t \in Tid : Enter(t) \/ Execute(t) \/ ExecuteFails(t) \/ ExitThread(t) => UNCHANGED model
  BY DEF Enter, Execute, ExecuteFails, ExitThread, tracer
<1>2. ExecuteExec \/ Die \/ Ended \/ UNCHANGED vars => UNCHANGED model
  BY DEF ExecuteExec, Die, Ended, vars, tracer
<1>3. \A t \in Tid : Wait(t) \/ HandleDeath(t) \/ HandleEntry(t) \/ HandlerThrows(t) => UNCHANGED model
  BY DEF Wait, HandleDeath, HandleEntry, HandlerThrows
<1> QED BY <1>1, <1>2, <1>3 DEF Next, Target, Tracer

(* What the kernel executes makes a page map of a page map.                 *)
LEMMA PagesTypedNext ==
  ASSUME PlainProgram, ServeInv, [Next]_vars
  PROVE  pages' \in PageTable
<1>0. pages \in PageTable
  BY DEF ServeInv
<1>1. ASSUME NEW t \in Tid, Execute(t) PROVE pages' \in PageTable
  <2>1. PICK c \in Possible(t) : pages' = After(pages, c)
    BY <1>1 DEF Execute, PlainProgram
  <2> QED BY <1>0, <2>1, PossiblePlain, AfterTyped
<1>2. ExecuteExec => pages' \in PageTable
  BY ImageTyped DEF ExecuteExec
<1>3. \A t \in Tid : Enter(t) \/ ExecuteFails(t) \/ ExitThread(t) => UNCHANGED pages
  BY DEF Enter, ExecuteFails, ExitThread, kernel
<1>4. Die \/ Ended \/ UNCHANGED vars => UNCHANGED pages
  BY DEF Die, Ended, vars, kernel
<1>5. \A t \in Tid : Wait(t) \/ HandleDeath(t) \/ HandleEntry(t) \/ HandleExit(t)
                     \/ HandleExec(t) \/ HandlerThrows(t) => UNCHANGED pages
  BY DEF Wait, HandleDeath, HandleEntry, HandleExit, HandleExec, HandlerThrows, kernel
<1> QED BY <1>0, <1>1, <1>2, <1>3, <1>4, <1>5 DEF Next, Target, Tracer

(* The invariant of the served stops is inductive.                          *)
LEMMA ServeNext ==
  ASSUME PlainProgram, ServeInv, [Next]_vars
  PROVE  ServeInv'
<1>1. CallsRanged'
  BY CallsRangedNext DEF ServeInv, PlainProgram
<1>2. (\A t \in Tid : CallAtPlace(t)') /\ ExecAlone'
  BY ServeCalls
<1>3. pages' \in PageTable
  BY PagesTypedNext
<1>4. ModelProper'
  <2>1. CASE \E t \in Tid : HandleExit(t)
    BY <2>1, ExitApplies
  <2>2. CASE \E t \in Tid : HandleExec(t)
    BY <2>2, ExecReplaces
  <2>3. CASE \A t \in Tid : ~HandleExit(t) /\ ~HandleExec(t)
    BY <2>3, ModelKept DEF ServeInv, ModelProper
  <2> QED BY <2>1, <2>2, <2>3
<1> QED BY <1>1, <1>2, <1>3, <1>4 DEF ServeInv

-----------------------------------------------------------------------------
(* The tracer implements the page map.                                      *)

(* What the threads have executed and the tracer has not applied.           *)
Executed == [t \in Tid |-> thread[t].call]

(* The page map's constants are the tracer's.                               *)
LEMMA SameNames ==
  /\ Promise!NoCall = NoCall /\ Promise!Exec = Exec /\ Promise!Image = Image
  /\ Promise!Call = Call
<1>1. Promise!Unmapped = Unmapped /\ Promise!FilePage = FilePage /\ Promise!Page = Page
      /\ Promise!Content = Content /\ Promise!Address = Address
  BY DEF Promise!Unmapped, Unmapped, Promise!FilePage, FilePage, Promise!Page, Page,
         Promise!Content, Content, Promise!Kind, Kind, Promise!Address, Address
<1>2. Promise!NoCall = NoCall
  BY <1>1 DEF Promise!NoCall, NoCall
<1>3. Promise!Exec = Exec
  BY <1>2 DEF Promise!Exec, Exec, Promise!OnRange, OnRange
<1>4. Promise!Image = Image
  BY <1>1 DEF Promise!Image, Image
<1>5. Promise!Call = Call
  BY <1>1 DEF Promise!Call, Call, Promise!CallNames, CallNames
<1> QED BY <1>2, <1>3, <1>4, <1>5

(* The page map applies calls as the kernel does.                           *)
LEMMA SameAfter ==
  ASSUME NEW pg, NEW c
  PROVE  Promise!After(pg, c) = After(pg, c)
<1>1. Promise!Unmapped = Unmapped /\ Promise!Image = Image /\ Promise!HeapPage = HeapPage
      /\ Promise!Page = Page
  BY SameNames DEF Promise!Unmapped, Unmapped, Promise!HeapPage, HeapPage, Promise!Page, Page
<1>2. \A b, e : Promise!PagesIn(b, e) = PagesIn(b, e)
  BY <1>1 DEF Promise!PagesIn, PagesIn
<1>3. Promise!Remapped(pg, c) = Remapped(pg, c)
  BY <1>1, <1>2 DEF Promise!Remapped, Remapped
<1>4. \A b : Promise!HeapUpTo(pg, b) = HeapUpTo(pg, b)
  BY <1>1, <1>2 DEF Promise!HeapUpTo, HeapUpTo
<1> QED BY <1>1, <1>2, <1>3, <1>4 DEF Promise!After, After

(* The calls after a step of one thread.                                    *)
LEMMA ExecutedOne ==
  ASSUME NEW t \in Tid, DOMAIN thread = Tid, NEW at, NEW c,
         thread' = [thread EXCEPT ![t] = [at |-> at, call |-> c]]
  PROVE  Executed' = [Executed EXCEPT ![t] = c]
<1>1. \A u \in Tid : thread'[u].call = IF u = t THEN c ELSE thread[u].call
  OBVIOUS
<1> QED BY <1>1 DEF Executed

(* A step that leaves the calls alone.                                      *)
LEMMA ExecutedKept ==
  ASSUME NEW t \in Tid, ServeInv, NEW at,
         \/ thread' = [thread EXCEPT ![t].at = at]
         \/ thread[t].call = NoCall /\ thread' = [thread EXCEPT ![t] = [at |-> at, call |-> NoCall]]
  PROVE  UNCHANGED Executed
<1>1. DOMAIN thread = Tid /\ \A u \in Tid : thread[u] = [at |-> thread[u].at, call |-> thread[u].call]
  BY DEF ServeInv, CallsRanged
<1>2. \A u \in Tid : thread'[u].call = thread[u].call
  BY <1>1
<1> QED BY <1>2 DEF Executed

(* Every step of the tracer and of the program is a step of the page map.   *)
LEMMA PromiseStep ==
  ASSUME PlainProgram, ServeInv, [Next]_vars
  PROVE  [Promise!Next]_<<Known, Executed>>
<1>0. /\ child \in Tid /\ DOMAIN thread = Tid
      /\ \A u \in Tid : CallAtPlace(u)
  BY TracerAssumption DEF ServeInv, CallsRanged
<1>a. ASSUME NEW t \in Tid PROVE Executed[t] = thread[t].call
  BY DEF Executed
<1>b. UNCHANGED model => UNCHANGED Known
  BY DEF Known
<1> DEFINE Step == [Promise!Next]_<<Known, Executed>>
<1>c. UNCHANGED <<Known, Executed>> => Step
  OBVIOUS
<1>d. \A t \in Tid : Promise!Execute(t) \/ Promise!ExecuteExec(t) \/ Promise!Apply(t) => Step
  BY DEF Promise!Next
<1>e. Promise!Forget => Step
  BY DEF Promise!Next
<1> HIDE DEF Step
<1>1. ASSUME NEW t \in Tid, Enter(t) \/ ExecuteFails(t) \/ ExitThread(t) \/ HandleDeath(t)
             \/ HandleEntry(t) \/ Wait(t)
      PROVE  Step
  <2>1. UNCHANGED model
    BY <1>1 DEF Enter, ExecuteFails, ExitThread, HandleDeath, HandleEntry, Wait, tracer
  <2>2. \/ UNCHANGED thread
        \/ \E at : thread' = [thread EXCEPT ![t].at = at]
        \/ /\ thread[t].at = "entry"
           /\ \E at : thread' = [thread EXCEPT ![t] = [at |-> at, call |-> NoCall]]
    BY <1>1 DEF Enter, ExecuteFails, ExitThread, HandleDeath, HandleEntry, Wait, Serving, Resume
  <2>3. thread[t].at = "entry" => thread[t].call = NoCall
    BY <1>0 DEF CallAtPlace
  <2>4. UNCHANGED thread => UNCHANGED Executed
    BY DEF Executed
  <2>5. UNCHANGED Executed
    BY <2>2, <2>3, <2>4, ExecutedKept
  <2> QED BY <1>b, <1>c, <2>1, <2>5
<1>2. ASSUME NEW t \in Tid, Execute(t) PROVE Step
  <2>1. PICK c \in Possible(t) : thread' = [thread EXCEPT ![t] = [at |-> "exit", call |-> c]]
    BY <1>2 DEF Execute
  <2>2. c \in Call
    BY PossiblePlain DEF PlainCall, RangedCall
  <2>3. Executed' = [Executed EXCEPT ![t] = c]
    BY <1>0, <2>1, ExecutedOne
  <2>4. Executed[t] = NoCall
    BY <1>0, <1>2, <1>a, NotPlain DEF Execute, CallAtPlace
  <2>5. Executed'[t] = c
    BY <2>3 DEF Executed
  <2>6. UNCHANGED Known
    BY <1>2, <1>b DEF Execute, tracer
  <2>7. Promise!Execute(t)
    BY <2>2, <2>3, <2>4, <2>5, <2>6, SameNames DEF Promise!Execute, Known, Executed
  <2> QED BY <1>d, <2>7
<1>3. CASE ExecuteExec
  <2>1. thread' = [t \in Tid |->
          IF t = child THEN [at |-> "exec", call |-> Exec]
          ELSE IF thread[t].at = "reaped" THEN thread[t] ELSE [at |-> "dead", call |-> NoCall]]
    BY <1>3 DEF ExecuteExec, PlainProgram
  <2>2. \A t \in Tid : thread[t].at \in {"kernel", "reaped"} => thread[t].call = NoCall
    BY <1>0 DEF CallAtPlace
  <2>3. Executed[child] = NoCall
    BY <1>0, <1>3, <1>a, <2>2 DEF ExecuteExec
  <2>4. \A t \in Tid : thread'[t].call = IF t = child THEN Exec ELSE NoCall
    BY <2>1, <2>2
  <2>5. Executed' = [t \in Tid |-> IF t = child THEN Exec ELSE NoCall]
    BY <2>4 DEF Executed
  <2>6. UNCHANGED Known
    BY <1>3, <1>b DEF ExecuteExec, tracer
  <2>7. Promise!ExecuteExec(child)
    BY <2>3, <2>5, <2>6, SameNames DEF Promise!ExecuteExec, Known, Executed
  <2> QED BY <1>0, <1>d, <2>7 DEF Step
<1>4. ASSUME NEW t \in Tid, HandleExit(t) PROVE Step
  <2>1. thread' = [thread EXCEPT ![t] = [at |-> "user", call |-> NoCall]]
    BY <1>4 DEF HandleExit, Resume
  <2>2. CASE thread[t].call = NoCall /\ model' = model
    BY <1>b, <1>c, <2>1, <2>2, ExecutedKept
  <2>3. CASE thread[t].call \in PlainCall /\ Known' = After(Known, thread[t].call)
    <3>1. Executed' = [Executed EXCEPT ![t] = NoCall]
      BY <1>0, <2>1, ExecutedOne
    <3>2. Executed[t] # NoCall /\ Executed[t] = thread[t].call
      BY <1>a, <2>3, NotPlain
    <3>3. Promise!Apply(t)
      BY <2>3, <3>1, <3>2, SameNames, SameAfter DEF Promise!Apply, Known, Executed
    <3> QED BY <1>d, <3>3
  <2> QED BY <1>4, <2>2, <2>3, ExitApplies
<1>5. ASSUME NEW t \in Tid, HandleExec(t) PROVE Step
  <2>1. PICK at : thread' = [thread EXCEPT ![t] = [at |-> at, call |-> NoCall]]
    BY <1>5 DEF HandleExec, Resume
  <2>2. Known' = Image /\ thread[t].call = Exec
    BY <1>5, ExecReplaces
  <2>3. Executed' = [Executed EXCEPT ![t] = NoCall]
    BY <1>0, <2>1, ExecutedOne
  <2>4. Executed[t] = Exec /\ Executed[t] # NoCall
    BY <1>a, <2>2, NotPlain
  <2>5. After(Known, Exec) = Image
    BY DEF After, Exec, OnRange, NoCall
  <2>6. Promise!Apply(t)
    BY <2>2, <2>3, <2>4, <2>5, SameNames, SameAfter DEF Promise!Apply, Known, Executed
  <2> QED BY <1>d, <2>6
<1>6. ASSUME Die \/ \E t \in Tid : HandlerThrows(t) PROVE Step
  <2>1. \A t \in Tid : thread'[t].call = NoCall
    <3>1. \A t \in Tid : thread[t].at = "reaped" => thread[t].call = NoCall
      BY <1>0 DEF CallAtPlace
    <3>2. ASSUME Die PROVE \A t \in Tid : thread'[t].call = NoCall
      BY <3>1, <3>2 DEF Die, PlainProgram
    <3>3. ASSUME NEW t \in Tid, HandlerThrows(t) PROVE \A u \in Tid : thread'[u].call = NoCall
      BY <3>3 DEF HandlerThrows, PlainProgram
    <3> QED BY <1>6, <3>2, <3>3
  <2>2. Executed' = [t \in Tid |-> NoCall]
    BY <2>1 DEF Executed
  <2>3. UNCHANGED Known
    BY <1>6, <1>b DEF Die, HandlerThrows, tracer
  <2>4. Promise!Forget
    BY <2>2, <2>3, SameNames DEF Promise!Forget, Known, Executed
  <2> QED BY <1>e, <2>4
<1>7. ASSUME Ended \/ UNCHANGED vars PROVE Step
  <2>1. UNCHANGED <<model, thread>>
    BY <1>7 DEF Ended, vars, tracer
  <2> QED BY <1>c, <2>1 DEF Known, Executed
<1>8. Step
  BY <1>1, <1>2, <1>3, <1>4, <1>5, <1>6, <1>7 DEF Next, Target, Tracer, Step
<1> QED BY <1>8 DEF Step

(* Every served exit stop applies one call exactly, and nothing else changes *)
(* what the model says: the tracer, with its list of regions that it splits, *)
(* clips, moves and merges, implements a map from pages to contents.         *)
THEOREM ImplementsPages ==
  ASSUME PlainProgram
  PROVE  Spec => ImplementsPageMap
<1>1. Init => Promise!Init
  <2> SUFFICES ASSUME Init PROVE Promise!Init
    OBVIOUS
  <2>1. PagesOf(model.regions) = Image
    BY ImageTyped, SeededPages DEF Init
  <2>2. [t \in Tid |-> thread[t].call] = [t \in Tid |-> NoCall]
    BY DEF Init
  <2> QED BY <2>1, <2>2, SameNames DEF Promise!Init
<1>2. ServeInv /\ [Next]_vars => ServeInv'
  BY ServeNext
<1>3. ServeInv /\ [Next]_vars =>
        [Promise!Next]_<<PagesOf(model.regions), [t \in Tid |-> thread[t].call]>>
  BY PromiseStep DEF Known, Executed
<1> QED BY <1>1, <1>2, <1>3, ServeInit, PTL DEF Spec, ImplementsPageMap, Promise!Spec

-----------------------------------------------------------------------------
(* The model agrees with the kernel.                                        *)

(* The calls under way are for different pages, but for pages that count as *)
(* unsure; and what they carry off an unsure page makes unsure.             *)
WaysApart ==
  /\ \A t, u \in Tid : t = u \/ UnderWay(t) \cap UnderWay(u) \subseteq unsure
  /\ \A t \in Tid : Spoilt(thread[t].call, unsure) \subseteq unsure

(* A sure page for which no call is under way is known; one for which a     *)
(* call is under way will be known when this call is applied.               *)
PagesKnown ==
  \A p \in Page : p \in unsure
    \/ /\ (\A t \in Tid : p \notin UnderWay(t)) => Known[p] = pages[p]
       /\ \A t \in Tid : p \in UnderWay(t) => After(Known, thread[t].call)[p] = pages[p]

(* The inductive invariant of the pages that the model knows.               *)
AgreeInv == ServeInv /\ WaysApart /\ PagesKnown

(* A thread without a call has no page under way and spoils none.           *)
LEMMA NoFootprint ==
  Footprint(NoCall) = {} /\ \A S : Spoilt(NoCall, S) = {}
<1>1. NoCall.begin = 0 /\ NoCall.end = 0 /\ NoCall.to = 0 /\ NoCall.to_end = 0 /\ NoCall.name = "none"
  BY DEF NoCall
<1>2. PagesIn(0, 0) = {}
  BY AddressAssumption DEF PagesIn, Page
<1> QED BY <1>1, <1>2 DEF Footprint, Spoilt

(* An execve is under way for every page, and spoils none.                  *)
LEMMA ExecFootprint ==
  /\ Footprint(Exec) = Page
  /\ \A S : Spoilt(Exec, S) = {}
  /\ \A pg : After(pg, Exec) = Image
<1>1. Exec.begin = 1 /\ Exec.end = MaxPage + 1 /\ Exec.to = 0 /\ Exec.to_end = 0 /\ Exec.name = "exec"
  BY DEF Exec, OnRange, NoCall
<1>2. PagesIn(0, 0) = {} /\ PagesIn(1, MaxPage + 1) = Page
  BY AddressAssumption DEF PagesIn, Page
<1> QED BY <1>1, <1>2 DEF Footprint, Spoilt, After

(* Footprints are pages.                                                    *)
LEMMA FootprintPages ==
  ASSUME NEW c
  PROVE  Footprint(c) \subseteq Page /\ PagesIn(c.to, c.to_end) \subseteq Footprint(c)
BY DEF Footprint, PagesIn

(* The model starts from the image that the kernel mapped.                  *)
LEMMA AgreeInit == Init => AgreeInv
<1> SUFFICES ASSUME Init PROVE AgreeInv
  OBVIOUS
<1>1. \A t \in Tid : thread[t].call = NoCall
  BY DEF Init
<1>2. WaysApart
  BY <1>1, NoFootprint DEF WaysApart, UnderWay
<1>3. PagesKnown
  <2>1. Known = Image /\ pages = Image
    BY ImageTyped, SeededPages DEF Init, Known
  <2> QED BY <1>1, <2>1, NoFootprint DEF PagesKnown, UnderWay
<1> QED BY <1>2, <1>3, ServeInit DEF AgreeInv

(* The kernel executes a call: what it makes unsure covers every page where *)
(* another call is under way, and every page that moves from one of these.  *)
LEMMA ExecuteAgrees ==
  ASSUME PlainProgram, AgreeInv, NEW t \in Tid, Execute(t)
  PROVE  WaysApart' /\ PagesKnown'
<1>0. /\ DOMAIN thread = Tid /\ pages \in PageTable /\ Known \in PageTable
      /\ thread[t].call = NoCall
      /\ \A u \in Tid : thread[u].call \in PlainCall \cup {NoCall, Exec}
      /\ UNCHANGED Known
  <2>1. DOMAIN thread = Tid /\ pages \in PageTable
    BY DEF AgreeInv, ServeInv, CallsRanged
  <2>2. Known \in PageTable
    BY PagesTyped DEF AgreeInv, ServeInv, ModelProper, Known
  <2>3. \A u \in Tid : CallAtPlace(u)
    BY DEF AgreeInv, ServeInv
  <2>4. thread[t].call = NoCall
    BY <2>3 DEF CallAtPlace, Execute
  <2>5. UNCHANGED Known
    BY DEF Execute, tracer, Known
  <2> QED BY <2>1, <2>2, <2>3, <2>4, <2>5 DEF CallAtPlace
<1>1. PICK c \in Possible(t) :
        LET met == Footprint(c) \cap UNION {UnderWay(u) : u \in Threads \ {t}}
            S == unsure \cup met
            spoilt == Spoilt(c, S) \cup UNION {Spoilt(thread[u].call, S) : u \in Threads \ {t}}
        IN  /\ thread' = [thread EXCEPT ![t] = [at |-> "exit", call |-> c]]
            /\ pages' = After(pages, c)
            /\ unsure' = S \cup spoilt
  BY DEF Execute, PlainProgram
<1>2. c \in PlainCall
  BY PossiblePlain
<1> DEFINE S == unsure \cup (Footprint(c) \cap UNION {UnderWay(u) : u \in Tid \ {t}})
<1>3. /\ \A u \in Tid \ {t} : Footprint(c) \cap UnderWay(u) \subseteq S
      /\ unsure \subseteq S
      /\ S \subseteq unsure'
      /\ Spoilt(c, S) \subseteq unsure'
      /\ \A u \in Tid \ {t} : Spoilt(thread[u].call, S) \subseteq unsure'
      /\ \A x \in unsure' : x \in S \/ x \in Spoilt(c, S)
                            \/ \E u \in Tid \ {t} : x \in Spoilt(thread[u].call, S)
  <2>1. Threads = Tid
    BY DEF Threads, PlainProgram
  <2>2. unsure' = S \cup (Spoilt(c, S) \cup UNION {Spoilt(thread[u].call, S) : u \in Tid \ {t}})
    BY <1>1, <2>1
  <2>3. /\ \A u \in Tid \ {t} : Footprint(c) \cap UnderWay(u) \subseteq S
        /\ unsure \subseteq S
    OBVIOUS
  <2> HIDE DEF S
  <2> QED BY <2>2, <2>3
<1>4. pages' = After(pages, c)
  BY <1>1
<1>5. /\ thread'[t].call = c
      /\ \A u \in Tid \ {t} : thread'[u].call = thread[u].call
  BY <1>0, <1>1
<1>6. /\ UnderWay(t)' = Footprint(c)
      /\ \A u \in Tid \ {t} : UnderWay(u)' = UnderWay(u)
  BY <1>5 DEF UnderWay
<1> HIDE DEF S
<1>7. \A u, v \in Tid : u = v \/ UnderWay(u)' \cap UnderWay(v)' \subseteq S
  BY <1>3, <1>6 DEF AgreeInv, WaysApart
<1>8. \A d, U : Spoilt(d, U) = IF d.name = "mremap" /\ Footprint(d) \cap U # {}
                               THEN PagesIn(d.to, d.to_end) ELSE {}
  BY DEF Spoilt
<1>9. \A u \in Tid : Spoilt(thread'[u].call, S) \subseteq unsure'
  BY <1>3, <1>5
<1>10. \A x \in unsure' : x \in S \/ \E u \in Tid : x \in Spoilt(thread'[u].call, S)
  BY <1>3, <1>5
<1>11. ASSUME NEW u \in Tid PROVE Spoilt(thread'[u].call, unsure') \subseteq unsure'
  <2>1. SUFFICES ASSUME thread'[u].call.name = "mremap",
                        NEW x \in Footprint(thread'[u].call), x \in unsure'
                 PROVE  PagesIn(thread'[u].call.to, thread'[u].call.to_end) \subseteq unsure'
    BY <1>8
  <2>2. CASE x \in S
    BY <1>8, <1>9, <2>1, <2>2
  <2>3. ASSUME NEW v \in Tid, x \in Spoilt(thread'[v].call, S)
        PROVE  PagesIn(thread'[u].call.to, thread'[u].call.to_end) \subseteq unsure'
    <3>1. CASE u = v
      BY <1>8, <1>9, <2>1, <2>3, <3>1
    <3>2. CASE u # v
      <4>1. x \in PagesIn(thread'[v].call.to, thread'[v].call.to_end)
        BY <1>8, <2>3
      <4>2. x \in UnderWay(v)' /\ x \in UnderWay(u)'
        BY <2>1, <4>1, FootprintPages DEF UnderWay
      <4>3. x \in S
        BY <1>7, <3>2, <4>2
      <4> QED BY <2>2, <4>3
    <3> QED BY <3>1, <3>2
  <2> QED BY <1>10, <2>1, <2>2, <2>3
<1>12. WaysApart'
  BY <1>3, <1>7, <1>11 DEF WaysApart
<1>13. ASSUME NEW p \in Page, p \notin unsure'
       PROVE  /\ (\A u \in Tid : p \notin UnderWay(u)') => Known[p] = pages'[p]
              /\ \A u \in Tid : p \in UnderWay(u)' => After(Known, thread'[u].call)[p] = pages'[p]
  <2>0. p \notin unsure /\ p \notin S
    BY <1>3, <1>13
  <2>a. UnderWay(t) = {}
    BY <1>0, NoFootprint DEF UnderWay
  <2>b. \A q \in Page : q \in S \/ q \notin Footprint(c) \/ Known[q] = pages[q]
    <3> SUFFICES ASSUME NEW q \in Page, q \notin S, q \in Footprint(c) PROVE Known[q] = pages[q]
      OBVIOUS
    <3>1. \A u \in Tid : q \notin UnderWay(u)
      BY <1>3, <2>a
    <3> QED BY <1>3, <3>1 DEF AgreeInv, PagesKnown
  <2>1. CASE p \in Footprint(c)
    <3>1. \A u \in Tid \ {t} : p \notin UnderWay(u)'
      BY <1>3, <1>6, <2>0, <2>1
    <3>2. Known[p] = pages[p]
      BY <2>0, <2>1, <2>b
    <3>3. \A q \in Footprint(c) : c.name = "mremap" /\ p \in PagesIn(c.to, c.to_end) => Known[q] = pages[q]
      <4> SUFFICES ASSUME NEW q \in Footprint(c), c.name = "mremap", p \in PagesIn(c.to, c.to_end)
                   PROVE  Known[q] = pages[q]
        OBVIOUS
      <4>1. q \notin S
        BY <1>3, <1>8, <1>13
      <4> QED BY <2>b, <4>1, FootprintPages
    <3>4. After(Known, c)[p] = After(pages, c)[p]
      BY <1>0, <1>2, <3>2, <3>3, AfterLocal
    <3> QED BY <1>4, <1>5, <1>6, <2>1, <3>1, <3>4
  <2>2. CASE p \notin Footprint(c)
    <3>1. pages'[p] = pages[p]
      BY <1>0, <1>2, <1>4, <2>2, AfterOutside
    <3>2. ASSUME \A u \in Tid : p \notin UnderWay(u)' PROVE Known[p] = pages'[p]
      <4>1. \A u \in Tid : p \notin UnderWay(u)
        BY <1>6, <2>a, <3>2
      <4> QED BY <2>0, <3>1, <4>1 DEF AgreeInv, PagesKnown
    <3>3. ASSUME NEW u \in Tid, p \in UnderWay(u)' PROVE After(Known, thread'[u].call)[p] = pages'[p]
      <4>1. u # t /\ p \in UnderWay(u) /\ thread'[u].call = thread[u].call
        BY <1>5, <1>6, <2>2, <3>3
      <4> QED BY <2>0, <3>1, <4>1 DEF AgreeInv, PagesKnown
    <3> QED BY <3>2, <3>3
  <2> QED BY <2>1, <2>2
<1>14. PagesKnown'
  BY <1>0, <1>13 DEF PagesKnown
<1> QED BY <1>12, <1>14

(* The tracer applies a call: a page that another call will change is sure  *)
(* only if neither it nor the page that moves there is of this call.        *)
LEMMA ExitAgrees ==
  ASSUME AgreeInv, NEW t \in Tid, HandleExit(t)
  PROVE  WaysApart' /\ PagesKnown'
<1>0. /\ Known \in PageTable /\ pages' = pages /\ unsure' = unsure
      /\ thread[t].at = "exit"
      /\ \A u \in Tid : CallAtPlace(u)
  <2>1. Known \in PageTable
    BY PagesTyped DEF AgreeInv, ServeInv, ModelProper, Known
  <2> QED BY <2>1 DEF AgreeInv, ServeInv, HandleExit, Serving, kernel
<1>1. \A u \in Tid : thread'[u].call = IF u = t THEN NoCall ELSE thread[u].call
  BY DEF AgreeInv, ServeInv, CallsRanged, HandleExit, Resume
<1>2. UnderWay(t)' = {} /\ \A u \in Tid \ {t} : UnderWay(u)' = UnderWay(u)
  BY <1>1, NoFootprint DEF UnderWay
<1>3. WaysApart'
  BY <1>0, <1>1, <1>2, NoFootprint DEF AgreeInv, WaysApart
<1> DEFINE c == thread[t].call
<1>4. CASE c = NoCall /\ model' = model
  <2>1. \A u \in Tid : thread'[u].call = thread[u].call /\ UnderWay(u)' = UnderWay(u)
    BY <1>1, <1>4 DEF UnderWay
  <2>2. Known' = Known
    BY <1>4 DEF Known
  <2> QED BY <1>0, <1>3, <2>1, <2>2 DEF AgreeInv, PagesKnown
<1>5. CASE c \in PlainCall /\ Known' = After(Known, c)
  <2>0. Known' \in PageTable
    BY <1>0, <1>5, AfterTyped
  <2>1. ASSUME NEW p \in Page, p \notin unsure
        PROVE  /\ (\A u \in Tid : p \notin UnderWay(u)') => Known'[p] = pages[p]
               /\ \A u \in Tid : p \in UnderWay(u)' => After(Known', thread'[u].call)[p] = pages[p]
    <3>1. ASSUME \A u \in Tid : p \notin UnderWay(u)' PROVE Known'[p] = pages[p]
      <4>1. CASE p \in UnderWay(t)
        BY <1>5, <2>1, <4>1 DEF AgreeInv, PagesKnown
      <4>2. CASE p \notin UnderWay(t)
        <5>1. Known[p] = pages[p]
          BY <1>2, <2>1, <3>1, <4>2 DEF AgreeInv, PagesKnown
        <5> QED BY <1>0, <1>5, <4>2, <5>1, AfterOutside DEF UnderWay
      <4> QED BY <4>1, <4>2
    <3>2. ASSUME NEW u \in Tid, p \in UnderWay(u)'
          PROVE  After(Known', thread'[u].call)[p] = pages[p]
      <4> DEFINE d == thread[u].call
      <4>1. u # t /\ p \in UnderWay(u) /\ thread'[u].call = d
        BY <1>1, <1>2, <3>2
      <4>2. After(Known, d)[p] = pages[p]
        BY <2>1, <4>1 DEF AgreeInv, PagesKnown
      <4>3. ASSUME NEW q \in UnderWay(u), q \notin unsure PROVE Known'[q] = Known[q]
        <5>1. q \notin Footprint(c)
          BY <4>1, <4>3 DEF AgreeInv, WaysApart, UnderWay
        <5> QED BY <1>0, <1>5, <5>1, AfterOutside, FootprintPages DEF UnderWay
      <4>4. CASE d = Exec
        BY <4>1, <4>2, <4>4, ExecFootprint
      <4>5. CASE d = NoCall
        BY <4>1, <4>5, NoFootprint DEF UnderWay
      <4>6. CASE d \in PlainCall
        <5>1. Known'[p] = Known[p]
          BY <2>1, <4>1, <4>3
        <5>2. ASSUME NEW q \in Footprint(d), d.name = "mremap", p \in PagesIn(d.to, d.to_end)
              PROVE  Known'[q] = Known[q]
          <6>1. q \notin unsure
            <7>1. Spoilt(d, unsure) \subseteq unsure
              BY DEF AgreeInv, WaysApart
            <7> QED BY <2>1, <5>2, <7>1 DEF Spoilt
          <6> QED BY <4>3, <6>1 DEF UnderWay
        <5>3. After(Known', d)[p] = After(Known, d)[p]
          BY <1>0, <2>0, <4>6, <5>1, <5>2, AfterLocal
        <5> QED BY <4>1, <4>2, <5>3
      <4>7. d \in PlainCall \cup {NoCall, Exec}
        BY <1>0 DEF CallAtPlace
      <4> QED BY <4>4, <4>5, <4>6, <4>7
    <3> QED BY <3>1, <3>2
  <2>2. PagesKnown'
    BY <1>0, <2>1 DEF PagesKnown
  <2> QED BY <1>3, <2>2
<1> QED BY <1>4, <1>5, ExitApplies DEF AgreeInv

(* An execve is executed, or its stop is served: nothing else is under way. *)
LEMMA ExecAgrees ==
  ASSUME PlainProgram, AgreeInv, ExecuteExec \/ \E t \in Tid : HandleExec(t)
  PROVE  WaysApart' /\ PagesKnown'
<1>0. /\ DOMAIN thread = Tid /\ child \in Tid
      /\ \A t \in Tid : CallAtPlace(t)
      /\ ExecAlone
  BY TracerAssumption DEF AgreeInv, ServeInv, CallsRanged
<1>1. CASE ExecuteExec
  <2>1. thread' = [t \in Tid |->
          IF t = child THEN [at |-> "exec", call |-> Exec]
          ELSE IF thread[t].at = "reaped" THEN thread[t] ELSE [at |-> "dead", call |-> NoCall]]
    BY <1>1 DEF ExecuteExec, PlainProgram
  <2>2. \A t \in Tid : thread[t].at = "reaped" => thread[t].call = NoCall
    BY <1>0 DEF CallAtPlace
  <2>3. \A t \in Tid : thread'[t].call = IF t = child THEN Exec ELSE NoCall
    BY <2>1, <2>2
  <2>4. \A t \in Tid : UnderWay(t)' = IF t = child THEN Page ELSE {}
    BY <2>3, NoFootprint, ExecFootprint DEF UnderWay
  <2>5. pages' = Image /\ unsure' = {}
    BY <1>1 DEF ExecuteExec
  <2>6. WaysApart'
    BY <2>3, <2>4, <2>5, NoFootprint, ExecFootprint DEF WaysApart
  <2>7. PagesKnown'
    BY <1>0, <2>3, <2>4, <2>5, ExecFootprint DEF PagesKnown
  <2> QED BY <2>6, <2>7
<1>2. ASSUME NEW t \in Tid, HandleExec(t) PROVE WaysApart' /\ PagesKnown'
  <2>1. Known' = Image /\ pages = Image /\ t = child
    BY <1>2, ExecReplaces DEF AgreeInv
  <2>2. pages' = pages /\ unsure' = unsure /\ thread[child].at = "exec"
    BY <1>2, <2>1 DEF HandleExec, Serving, kernel
  <2>3. \A u \in Tid \ {child} : thread[u].call = NoCall
    BY <1>0, <2>2 DEF ExecAlone, CallAtPlace
  <2>4. \A u \in Tid : thread'[u].call = NoCall
    BY <1>0, <1>2, <2>1, <2>3 DEF HandleExec, Resume
  <2>5. WaysApart'
    BY <2>4, NoFootprint DEF WaysApart, UnderWay
  <2>6. PagesKnown'
    BY <2>1, <2>2, <2>4, NoFootprint DEF PagesKnown, UnderWay
  <2> QED BY <2>5, <2>6
<1> QED BY <1>1, <1>2

(* The process dies: what was under way is never reported.                  *)
LEMMA DeathAgrees ==
  ASSUME PlainProgram, AgreeInv, Die \/ \E t \in Tid : HandlerThrows(t)
  PROVE  WaysApart' /\ PagesKnown'
<1>0. DOMAIN thread = Tid /\ \A t \in Tid : CallAtPlace(t)
  BY DEF AgreeInv, ServeInv, CallsRanged
<1>1. unsure' = unsure \cup UNION {UnderWay(t) : t \in Tid}
  BY DEF Die, HandlerThrows, Unreported, Threads, PlainProgram
<1>2. UNCHANGED pages /\ UNCHANGED Known
  BY DEF Die, HandlerThrows, tracer, Known
<1>3. \A t \in Tid : thread'[t].call = NoCall
  <2>1. \A t \in Tid : thread[t].at = "reaped" => thread[t].call = NoCall
    BY <1>0 DEF CallAtPlace
  <2>2. ASSUME Die PROVE \A t \in Tid : thread'[t].call = NoCall
    BY <2>1, <2>2 DEF Die, PlainProgram
  <2>3. ASSUME NEW t \in Tid, HandlerThrows(t) PROVE \A u \in Tid : thread'[u].call = NoCall
    BY <2>3 DEF HandlerThrows, PlainProgram
  <2> QED BY <2>2, <2>3
<1>4. WaysApart'
  BY <1>3, NoFootprint DEF WaysApart, UnderWay
<1>5. ASSUME NEW p \in Page, p \notin unsure' PROVE Known[p] = pages[p]
  <2>1. p \notin unsure /\ \A t \in Tid : p \notin UnderWay(t)
    BY <1>1, <1>5
  <2> QED BY <2>1 DEF AgreeInv, PagesKnown
<1>6. PagesKnown'
  BY <1>2, <1>3, <1>5, NoFootprint DEF PagesKnown, UnderWay
<1> QED BY <1>4, <1>6

(* A step that moves a thread and leaves its call alone changes nothing.    *)
LEMMA QuietAgrees ==
  ASSUME AgreeInv, UNCHANGED <<pages, unsure, model>>,
         \A t \in Tid : thread'[t].call = thread[t].call
  PROVE  WaysApart' /\ PagesKnown'
<1>1. UNCHANGED Known /\ \A t \in Tid : UnderWay(t)' = UnderWay(t)
  BY DEF Known, UnderWay
<1>2. pages' = pages /\ unsure' = unsure
  OBVIOUS
<1>3. WaysApart'
  BY <1>1, <1>2 DEF AgreeInv, WaysApart
<1>4. PagesKnown'
  BY <1>1, <1>2 DEF AgreeInv, PagesKnown
<1> QED BY <1>3, <1>4

(* The invariant is inductive.                                             *)
LEMMA AgreeNext ==
  ASSUME PlainProgram, AgreeInv, [Next]_vars
  PROVE  AgreeInv'
<1>0. /\ DOMAIN thread = Tid
      /\ \A u \in Tid : /\ CallAtPlace(u)
                        /\ thread[u] = [at |-> thread[u].at, call |-> thread[u].call]
  BY DEF AgreeInv, ServeInv, CallsRanged
<1> DEFINE Goal == WaysApart' /\ PagesKnown'
<1>1. ASSUME NEW t \in Tid, Enter(t) \/ ExecuteFails(t) \/ ExitThread(t) \/ HandleDeath(t)
             \/ HandleEntry(t) \/ Wait(t)
      PROVE  Goal
  <2>1. UNCHANGED <<pages, unsure, model>>
    BY <1>1 DEF Enter, ExecuteFails, ExitThread, HandleDeath, HandleEntry, Wait, tracer, kernel
  <2>2. \/ UNCHANGED thread
        \/ \E at : thread' = [thread EXCEPT ![t].at = at]
        \/ /\ thread[t].at = "entry"
           /\ \E at : thread' = [thread EXCEPT ![t] = [at |-> at, call |-> NoCall]]
    BY <1>1 DEF Enter, ExecuteFails, ExitThread, HandleDeath, HandleEntry, Wait, Serving, Resume
  <2>3. thread[t].at = "entry" => thread[t].call = NoCall
    BY <1>0 DEF CallAtPlace
  <2>4. \A u \in Tid : thread'[u].call = thread[u].call
    BY <1>0, <2>2, <2>3
  <2> QED BY <2>1, <2>4, QuietAgrees
<1>2. ASSUME Ended \/ UNCHANGED vars PROVE Goal
  <2>1. UNCHANGED <<pages, unsure, model>> /\ thread' = thread
    BY <1>2 DEF Ended, vars, tracer, kernel
  <2> QED BY <2>1, QuietAgrees
<1>3. \A t \in Tid : Execute(t) \/ HandleExit(t) => Goal
  BY ExecuteAgrees, ExitAgrees
<1>4. ExecuteExec \/ Die \/ (\E t \in Tid : HandleExec(t) \/ HandlerThrows(t)) => Goal
  BY ExecAgrees, DeathAgrees
<1> HIDE DEF Goal
<1>5. Goal
  BY <1>1, <1>2, <1>3, <1>4 DEF Next, Target, Tracer
<1> QED BY <1>5, ServeNext DEF Goal, AgreeInv

(* The model agrees with the kernel on every page, but for pages of calls   *)
(* that are executed and not yet applied, and for pages that calls of two   *)
(* threads were under way for at once or that a death left unreported.      *)
THEOREM AgreesWithKernel ==
  ASSUME PlainProgram
  PROVE  Spec => []Agrees
<1>1. AgreeInv => Agrees
  <2> SUFFICES ASSUME AgreeInv, PlainProgram PROVE Agrees
    OBVIOUS
  <2>1. Threads = Tid
    BY DEF Threads, PlainProgram
  <2> QED BY <2>1 DEF AgreeInv, PagesKnown, Agrees, Known
<1>2. AgreeInv /\ [Next]_vars => AgreeInv'
  BY AgreeNext
<1> QED BY <1>1, <1>2, AgreeInit, PTL DEF Spec
=============================================================================
