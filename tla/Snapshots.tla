------------------------------ MODULE Snapshots ------------------------------
(***************************************************************************)
(* What mem-map-viewer computes from the memory map of a process, without  *)
(* state of its own: reading /proc/<pid>/maps and smaps (proc_seed.cpp),   *)
(* names and lookups (util.cpp), summaries and differences (diff.cpp), the *)
(* growth report (growth_detector.cpp), reconciliation (reconcile.cpp),    *)
(* residency (residency.cpp) and the insights (correlate.cpp, with         *)
(* limits.cpp and cgroup_observer.cpp).                                    *)
(*                                                                         *)
(* Addresses and sizes count pages, rss and pss count kB of which a page   *)
(* has PageKb.  A line of maps is a record of its columns; `name' is its   *)
(* last column without " (deleted)".  Reports are sets: the order of their *)
(* rows, wording and suggestions are left out.  Ratios are compared by     *)
(* cross multiplication.                                                   *)
(***************************************************************************)
EXTENDS Integers, FiniteSets, Sequences, SequencesExt, FiniteSetsExt, Functions

CONSTANTS
  PageKb,      \* kB of a page
  Libraries,   \* names with ".so" in them, or under /lib or /usr/lib
  LargePages   \* kLargeMappingBytes, in pages

ASSUME SnapshotsAssumption == PageKb \in Nat \ {0} /\ LargePages \in Nat

NoName == ""
Brackets == {"[heap]", "[stack]", "[stack:7]", "[vdso]", "[vvar]", "[vsyscall]", "[anon:pool]"}

-----------------------------------------------------------------------------
(* Reading a process.                                                      *)

\* classify_region.  The label of a region with a path is the path.
Kind(line) ==
  CASE line.name = "[heap]" -> "heap"
    [] line.name = "[stack]" -> "stack"
    [] line.name = "[stack:7]" -> "thread_stack"
    [] line.name \in {"[vdso]", "[vvar]", "[vsyscall]"} -> line.name
    [] line.name \in Brackets \ {"[heap]", "[stack]", "[stack:7]", "[vdso]", "[vvar]", "[vsyscall]"}
         -> "anonymous"
    [] line.name = NoName -> "anonymous"
    [] OTHER -> IF "x" \in line.perms /\ line.offset = 0 THEN "text"
                ELSE IF line.name \in Libraries THEN "library"
                ELSE "file"

\* parse_maps_line: a line whose range is empty is no region.
ParseMapsLine(line) ==
  [begin |-> line.begin, end |-> line.end, perms |-> line.perms, kind |-> Kind(line),
   path |-> IF line.name \in Brackets THEN NoName ELSE line.name, label |-> line.name,
   inode |-> line.inode, deleted |-> line.deleted, rss |-> 0, pss |-> 0, probe |-> "none"]

ReadMaps(lines) ==
  LET valid(line) == line.begin < line.end
      kept == SelectSeq(lines, valid)
  IN  [i \in DOMAIN kept |-> ParseMapsLine(kept[i])]

\* A region takes the values of the first smaps header with its bounds; it keeps
\* zeros when smaps, read after maps, has no such header.
ReadSmaps(regions, lines) ==
  [i \in DOMAIN regions |->
     LET r == regions[i]
         same == {line \in ToSet(lines) : line.begin = r.begin /\ line.end = r.end}
     IN  IF same = {} THEN r
         ELSE LET line == CHOOSE l \in same : TRUE IN [r EXCEPT !.rss = line.rss, !.pss = line.pss]]

\* process_vm_readv reads sixteen bytes of a readable region: `mapped' are the
\* pages that are there when it does.
Probed(regions, mapped) ==
  [i \in DOMAIN regions |->
     [regions[i] EXCEPT !.probe =
        IF "r" \in regions[i].perms /\ regions[i].begin \in mapped THEN "readable" ELSE "attempted"]]

RegionSize(r) == IF r.end > r.begin THEN r.end - r.begin ELSE 0

\* (A line of maps with an inode has a name; where there is none, "inode" stands
\* for the number that the key is made of.)
SourceKey(r) ==
  IF r.path # NoName THEN r.path
  ELSE IF r.label # NoName THEN r.label
  ELSE IF r.inode # 0 THEN "inode"
  ELSE "[anon]"

RegionKey(r) == <<r.kind, SourceKey(r)>>

\* RegionIndex: sorted by begin, then end; the last region that does not begin
\* after the address is the one, if it reaches that far.
IndexOf(regions) ==
  SetToSortSeq({r \in ToSet(regions) : r.begin < r.end},
    LAMBDA a, b : a.begin < b.begin \/ (a.begin = b.begin /\ a.end < b.end))

FindRegion(index, address) ==
  LET upTo == {i \in DOMAIN index : index[i].begin <= address}
  IN  IF upTo = {} \/ address >= index[Max(upTo)].end THEN {} ELSE {index[Max(upTo)]}

RegionForAddr(regions, address) ==
  LET found == FindRegion(IndexOf(regions), address)
  IN  IF found = {} THEN <<"[unknown]">> ELSE RegionKey(CHOOSE r \in found : TRUE)

-----------------------------------------------------------------------------
(* Sums per name, and their differences.                                   *)

SumOver(regions, Value(_)) == FoldSeq(LAMBDA r, sum : Value(r) + sum, 0, regions)
Size(regions) == SumOver(regions, RegionSize)
Rss(regions) == SumOver(regions, LAMBDA r : r.rss)

Keys(regions) == {RegionKey(r) : r \in ToSet(regions)}

Bucket(regions, key) ==
  LET named(r) == RegionKey(r) = key
      own == SelectSeq(regions, named)
  IN  [size |-> Size(own), rss |-> Rss(own), pss |-> SumOver(own, LAMBDA r : r.pss),
       count |-> Len(own)]

SummarizeSnapshot(regions) == [key \in Keys(regions) |-> Bucket(regions, key)]

\* Fault: names that are gone are not compared.
KeysAfter(before, after) == Keys(after)

KeysOfBoth(before, after) == Keys(before) \cup Keys(after)

\* The names of either snapshot with a difference in some sum.
DiffSnapshots(before, after) ==
  LET delta(key) == LET a == Bucket(before, key)
                        b == Bucket(after, key)
                    IN  [field \in DOMAIN a |-> b[field] - a[field]]
      changed == {key \in KeysOfBoth(before, after) : Range(delta(key)) # {0}}
  IN  [key \in changed |-> delta(key)]

-----------------------------------------------------------------------------
(* Growth: a line fitted to the totals of the samples.                     *)

\* The least-squares line through the points (i, y[i]), as fractions: the slope
\* is `rise' / `run', and 1 - `residual' / `total' the share it explains.
TrendFor(y) ==
  LET n == Len(y)
      x(i) == i - 1
      sum(Value(_)) == MapThenSumSet(Value, DOMAIN y)
      fromMeanX(i) == n * x(i) - sum(x)
      fromMeanY(i) == n * y[i] - sum(LAMBDA j : y[j])
      run == sum(LAMBDA i : fromMeanX(i) * fromMeanX(i))
      rise == sum(LAMBDA i : fromMeanX(i) * fromMeanY(i))
      off(i) == run * fromMeanY(i) - rise * fromMeanX(i)
  IN  IF n < 2 THEN [rise |-> 0, run |-> 1, residual |-> 1, total |-> 1]
      ELSE [rise |-> rise, run |-> run,
            residual |-> sum(LAMBDA i : off(i) * off(i)),
            total |-> sum(LAMBDA i : run * fromMeanY(i) * run * fromMeanY(i))]

NeverFalls(y) == \A i \in 2..Len(y) : y[i] >= y[i - 1]

CheckGrowth(snapshots) ==
  LET sizes == [i \in DOMAIN snapshots |-> Size(snapshots[i])]
      rsss == [i \in DOMAIN snapshots |-> Rss(snapshots[i])]
  IN  [size |-> sizes, rss |-> rsss,
       monotonicSize |-> NeverFalls(sizes), monotonicRss |-> NeverFalls(rsss),
       sizeTrend |-> TrendFor(sizes), rssTrend |-> TrendFor(rsss),
       buckets |-> DiffSnapshots(snapshots[1], snapshots[Len(snapshots)])]

-----------------------------------------------------------------------------
(* Reconciliation: a snapshot against the next one, by exact bounds.       *)

Bounds(r) == <<r.begin, r.end>>
IndexRegions(regions) == {r \in ToSet(regions) : r.end > r.begin}
At(index, bounds) == CHOOSE r \in index : Bounds(r) = bounds
SameMetadata(a, b) == a.kind = b.kind /\ a.perms = b.perms /\ SourceKey(a) = SourceKey(b)

Reconcile(observed, truth) ==
  LET seen == IndexRegions(observed)
      real == IndexRegions(truth)
      seenBounds == {Bounds(r) : r \in seen}
      realBounds == {Bounds(r) : r \in real}
  IN  [missing |-> realBounds \ seenBounds,
       extra |-> seenBounds \ realBounds,
       metadata |-> {b \in seenBounds \cap realBounds : ~SameMetadata(At(seen, b), At(real, b))}]

-----------------------------------------------------------------------------
(* Residency.                                                              *)

\* Of another process: its rss, rounded up to pages.
ApproximateFromSmaps(r) ==
  [region |-> r, total |-> RegionSize(r),
   resident |-> Min({RegionSize(r), (r.rss + PageKb - 1) \div PageKb}), exact |-> FALSE]

\* Of mem-map-viewer itself: what mincore says of its pages, unless the region
\* cannot be read or is gone, when the entry counts no resident page.
SampleSelfRegion(r, mapped, inCore) ==
  LET pages == r.begin..(r.end - 1)
      failed == [region |-> r, total |-> 0, resident |-> 0, exact |-> FALSE]
  IN  IF "r" \notin r.perms \/ RegionSize(r) = 0 THEN failed
      ELSE IF ~(pages \subseteq mapped) THEN [failed EXCEPT !.total = RegionSize(r)]
      ELSE [region |-> r, total |-> RegionSize(r), resident |-> Cardinality(pages \cap inCore),
            exact |-> TRUE]

SampleResidency(regions, self, mapped, inCore) ==
  [i \in DOMAIN regions |->
     IF self THEN SampleSelfRegion(regions[i], mapped, inCore) ELSE ApproximateFromSmaps(regions[i])]

-----------------------------------------------------------------------------
(* Limits and control groups.                                              *)

\* read_resource_limits stops at the first prlimit that fails; `soft' is -1 for
\* RLIM_INFINITY.
LimitNames == <<"address_space", "data", "stack", "memlock", "rss">>

ReadResourceLimits(soft, failing) ==
  [available |-> failing \notin DOMAIN LimitNames,
   limits |-> [name \in {LimitNames[i] : i \in {j \in DOMAIN LimitNames : j < failing}} |-> soft[name]]]

\* read_cgroup_memory_health.  `max' is -1 for "max", and 0 for what is no number;
\* `some' and `full' are the avg10 of memory.pressure in percent, 0 without it.
\* The risk is in thousandths.
ComputeRisk(current, max, full, kills) ==
  IF max <= 0 THEN 0
  ELSE Min({1000, ((600 * Min({current, max})) \div max) + 4 * Min({100, full})
                  + (IF kills > 0 THEN 300 ELSE 0)})

ReadCgroupMemoryHealth(current, max, some, full, kills) ==
  [hasLimit |-> max > 0, max |-> max, current |-> current, some |-> some, full |-> full,
   kills |-> kills, risk |-> ComputeRisk(current, max, full, kills)]

-----------------------------------------------------------------------------
(* Insights.                                                               *)

Insight(type, key) == [type |-> type, key |-> key]

ResidencyInsights(entries) ==
  LET large == {e \in ToSet(entries) : RegionSize(e.region) >= LargePages}
      waste(e) == e.total = 0 \/ 100 * e.resident < 10 * e.total
  IN  {Insight("waste", RegionKey(e.region)) : e \in {f \in large : waste(f)}}
      \cup {Insight("resident-anon", RegionKey(e.region)) :
              e \in {f \in large : ~waste(f) /\ 100 * f.resident > 80 * f.total
                                   /\ f.region.kind = "anonymous"}}

\* The first of the hotspots, which are sorted by their samples; `hotspots' is empty
\* when nothing could be sampled.
PerfInsights(hotspots) ==
  LET all == MapThenSumSet(LAMBDA k : hotspots[k], DOMAIN hotspots)
      top == CHOOSE k \in DOMAIN hotspots :
               \A other \in DOMAIN hotspots : hotspots[other] <= hotspots[k]
  IN  IF all = 0 \/ 100 * hotspots[top] < 20 * all THEN {} ELSE {Insight("hotspot", top)}

CgroupInsights(h) ==
  IF ~h.hasLimit /\ h.full < 1 /\ h.some < 10 /\ h.kills = 0 THEN {}
  ELSE IF \/ h.risk >= 700
          \/ h.hasLimit /\ 100 * h.current >= 85 * h.max
          \/ h.full >= 1 \/ h.some >= 10 \/ h.kills > 0
    THEN {Insight("pressure", <<"cgroup">>)}
    ELSE {}

StackSize(regions) ==
  SumOver(regions, LAMBDA r : IF r.kind \in {"stack", "thread_stack"} THEN RegionSize(r) ELSE 0)

LimitInsights(regions, report) ==
  LET near(name, used) == /\ report.available
                          /\ report.limits[name] > 0
                          /\ 100 * used >= 80 * report.limits[name]
  IN  {i \in {Insight("address-limit", <<"RLIMIT_AS">>)} : near("address_space", Size(regions))}
      \cup {i \in {Insight("stack-limit", <<"RLIMIT_STACK">>)} : near("stack", StackSize(regions))}
=============================================================================
