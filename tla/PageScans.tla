------------------------------ MODULE PageScans ------------------------------
(***************************************************************************)
(* The commands of mem-map-viewer on a range of pages of a running         *)
(* process: --pages (pagemap.cpp), --page-flags (page_flags.cpp), --numa   *)
(* (numa.cpp) and --clear-soft-dirty (clear_refs.cpp).  The entries are    *)
(* read page by page while the process goes on.                            *)
(*                                                                         *)
(* An address counts units of which a page has PageUnits; MaxAddr stands   *)
(* for 2^64 - 1.  A page has marks: that it is in memory, in swap or       *)
(* written to, each flag of its frame, and the node its frame is on.       *)
(* `always' and `ever' give the marks that a page had all through the scan *)
(* and those that it had at some time in it.                               *)
(*                                                                         *)
(* Bound: MaxChanges changes by the process and clears by the tool.        *)
(***************************************************************************)
EXTENDS Integers, FiniteSets, Sequences, FiniteSetsExt

CONSTANTS
  PageUnits, MaxAddr,  \* see above
  MaxPagesPerScan,     \* kMaxPagesPerScan
  Frame,               \* page frames, with numbers above 0
  FrameFlags,          \* frame -> the flags that kpageflags has for it
  Node,                \* frame -> its NUMA node
  MaxChanges

ASSUME PageScansAssumption ==
  /\ PageUnits \in Nat \ {0} /\ MaxAddr \in Nat /\ (MaxAddr + 1) % PageUnits = 0
  /\ Frame \subseteq Nat \ {0}

VARIABLES
  page,    \* virtual page -> its frame and its soft-dirty bit; frame 0 is none
  swapped, \* the pages that are in swap
  scan,    \* the scan that is under way, or the report
  always, ever,  \* see above
  changes

pageVars == <<page, swapped, scan, always, ever, changes>>

Pages == 0..(MaxAddr \div PageUnits)
Present(p) == page[p].frame # 0

InMemory == <<"page", "present">>
InSwap == <<"page", "swapped">>
SoftDirty == <<"page", "dirty">>
Visible == <<"page", "visible">>
Flag(f) == <<"flag", f>>
OnNode(n) == <<"node", n>>

When(cond, mark) == IF cond THEN {mark} ELSE {}
FlagMarks(frame) == {Flag(f) : f \in FrameFlags[frame]}

Marks(pages, out, p) ==
  When(p \in out, InSwap) \cup When(pages[p].dirty, SoftDirty)
    \cup (IF pages[p].frame = 0 THEN {}
          ELSE {InMemory, OnNode(Node[pages[p].frame])} \cup FlagMarks(pages[p].frame))

Observed(pages, out) == [p \in Pages |-> Marks(pages, out, p)]

-----------------------------------------------------------------------------
(* The process.                                                            *)

\* Every change is seen by the scan that is under way.
Changed(new, out) ==
  /\ changes < MaxChanges /\ changes' = changes + 1
  /\ page' = new /\ swapped' = out
  /\ always' = [p \in Pages |-> always[p] \cap Observed(new, out)[p]]
  /\ ever' = [p \in Pages |-> ever[p] \cup Observed(new, out)[p]]

FreeFrames == Frame \ {page[p].frame : p \in Pages}

Write(p) ==
  /\ IF Present(p) THEN Changed([page EXCEPT ![p].dirty = TRUE], swapped)
     ELSE \E f \in FreeFrames : Changed([page EXCEPT ![p] = [frame |-> f, dirty |-> TRUE]], swapped \ {p})
  /\ UNCHANGED scan

\* The page goes to swap, with its soft-dirty bit; or it is unmapped.
SwapOut(p) ==
  Present(p) /\ Changed([page EXCEPT ![p].frame = 0], swapped \cup {p}) /\ UNCHANGED scan

Unmap(p) ==
  Present(p) /\ Changed([page EXCEPT ![p] = [frame |-> 0, dirty |-> FALSE]], swapped \ {p})
  /\ UNCHANGED scan

\* The kernel moves the page to another frame.
Migrate(p) ==
  /\ Present(p)
  /\ \E f \in FreeFrames : Changed([page EXCEPT ![p].frame = f], swapped)
  /\ UNCHANGED scan

-----------------------------------------------------------------------------
(* The tool.                                                               *)

\* round_down and round_up, which saturates.
RoundDown(value) == (value \div PageUnits) * PageUnits

\* Fault: a multiple of the page size is rounded up as well.
RoundPast(value) ==
  IF MaxAddr - value < PageUnits - (value % PageUnits) THEN MaxAddr
  ELSE value + (PageUnits - (value % PageUnits))

RoundUp(value) ==
  LET rem == value % PageUnits
  IN  IF rem = 0 THEN value
      ELSE IF MaxAddr - value < PageUnits - rem THEN MaxAddr
      ELSE value + (PageUnits - rem)

\* A report without counts.
Report(kind, begin, length, frames, total, state) ==
  [kind |-> kind, begin |-> begin, length |-> length, frames |-> frames,
   first |-> RoundDown(begin) \div PageUnits, total |-> total,
   read |-> 0, pfn |-> 0, counts |-> <<>>, moved |-> 0, state |-> state]

\* What a scan of [begin, begin + length) reads, or why it reads nothing.
Planned(kind, begin, length, frames) ==
  LET total == (RoundUp(begin + length) - RoundDown(begin)) \div PageUnits
      report(pages, state) == Report(kind, begin, length, frames, pages, state)
  IN  IF length = 0 \/ MaxAddr - begin < length THEN report(0, "invalid")
      ELSE IF total = 0 THEN report(total, "empty")
      ELSE IF total > MaxPagesPerScan THEN report(total, "oversized")
      ELSE report(total, "reading")

Idle == scan.state \notin {"reading", "frame"}

\* The kernel shows the numbers of the frames to a privileged reader, and hides them from others.
StartScan(kind, begin, length, frames) ==
  /\ scan.state = "none"
  /\ scan' = Planned(kind, begin, length, frames)
  /\ always' = Observed(page, swapped) /\ ever' = Observed(page, swapped)
  /\ UNCHANGED <<page, swapped, changes>>

\* An open or a read fails: the counts so far stay in a report without result.
ScanFails ==
  /\ ~Idle
  /\ scan' = [scan EXCEPT !.state = "failed"]
  /\ UNCHANGED <<page, swapped, always, ever, changes>>

If(cond) == IF cond THEN 1 ELSE 0
Shown == scan.frames = "shown"
Pfn(p) == IF Shown THEN page[p].frame ELSE 0

\* A counter for each mark that was met: ++counts[mark].
Tally(counts, mark) == IF mark \in DOMAIN counts THEN counts[mark] ELSE 0
Counted(counts, marks) ==
  [m \in DOMAIN counts \cup marks |-> Tally(counts, m) + If(m \in marks)]

\* The page is read: its marks are counted.
Read1(s, marks) ==
  [s EXCEPT !.read = @ + 1, !.pfn = 0, !.counts = Counted(@, marks),
            !.state = IF s.read + 1 = s.total THEN "available" ELSE "reading"]

Reading(kind) == scan.state = "reading" /\ scan.kind = kind
Next1 == scan.first + scan.read
ReadOnly == UNCHANGED <<page, swapped, always, ever, changes>>

\* count_entry.  The bits of the frame number of a swapped page hold its place in
\* swap, so that it counts as visible.
EntryMarks(p) ==
  When(Present(p), InMemory) \cup When(p \in swapped, InSwap) \cup When(page[p].dirty, SoftDirty)
    \cup When(Pfn(p) # 0 \/ (Shown /\ p \in swapped), Visible)

ReadPagemap ==
  /\ Reading("pages")
  /\ scan' = Read1(scan, EntryMarks(Next1))
  /\ ReadOnly

\* --page-flags reads the entry of a page, and the flags of its frame afterwards.
ReadEntry ==
  /\ Reading("page_flags")
  /\ scan' = IF Pfn(Next1) = 0 THEN Read1(scan, When(Present(Next1), InMemory))
             ELSE [scan EXCEPT !.counts = Counted(@, {InMemory}), !.pfn = Pfn(Next1), !.state = "frame"]
  /\ ReadOnly

\* If the page has lost that frame since, they are the flags of whoever has it now,
\* or had it last: `moved' counts these pages.
ReadFrame ==
  /\ scan.state = "frame"
  /\ IF page[Next1].frame = scan.pfn
       THEN scan' = Read1(scan, {Visible} \cup FlagMarks(scan.pfn))
       ELSE \E other \in Frame :
              scan' = [Read1(scan, {Visible} \cup FlagMarks(other)) EXCEPT !.moved = @ + 1]
  /\ ReadOnly

\* move_pages answers for all pages in one call, in which the kernel goes from page
\* to page: a node, or why there is none.
ReadLocation ==
  /\ Reading("numa")
  /\ scan' = Read1(scan, IF Present(Next1) THEN {InMemory, OnNode(Node[page[Next1].frame])} ELSE {})
  /\ ReadOnly

\* A write of "4" to clear_refs.
ClearSoftDirty ==
  /\ Idle /\ scan.state = "none"
  /\ Changed([p \in Pages |-> [page[p] EXCEPT !.dirty = FALSE]], swapped)
  /\ UNCHANGED scan

-----------------------------------------------------------------------------

PageInit ==
  /\ page = [p \in Pages |-> [frame |-> 0, dirty |-> FALSE]]
  /\ swapped = {} /\ changes = 0
  /\ scan = Report("none", 0, 0, "hidden", 0, "none")
  /\ always = Observed(page, swapped) /\ ever = Observed(page, swapped)

Process == \E p \in Pages : Write(p) \/ SwapOut(p) \/ Unmap(p) \/ Migrate(p)
Scanning == ScanFails \/ ReadPagemap \/ ReadEntry \/ ReadFrame \/ ReadLocation

-----------------------------------------------------------------------------

\* The pages that the range touches.  A range that ends in the last page of all is
\* cut off by the saturation of round_up.
Asked(s) == {p \in Pages : p * PageUnits < s.begin + s.length /\ s.begin < (p + 1) * PageUnits}

\* The pages with a mark all through the scan, or at some time in it.
With(marks, mark) == {p \in Pages : mark \in marks[p]}
NodeMarks(counts) == {m \in DOMAIN counts : m[1] = "node"}

\* A finished scan has read every page of its range and no other, once; and the
\* pages it counts in memory, in swap, soft-dirty, on each node and with each flag
\* are no fewer than those that were so all through the scan and no more than those
\* that were so at some time, however the process changes its pages in between
\* (sample_pagemap, sample_page_flags, sample_numa).  A flag may be off by the pages
\* that lost their frame between the two reads; none is counted for a reader to whom
\* the kernel hides the frames.  "Visible" counts what count_entry counts: with
\* --pages the pages in swap as well as those in memory.
ScanTrue ==
  scan.state = "available" =>
    LET asked == scan.first..(scan.first + scan.total - 1)
        count(mark) == Tally(scan.counts, mark)
        near(mark, off) == /\ Cardinality(With(always, mark) \cap asked) <= count(mark) + off
                           /\ count(mark) <= Cardinality(With(ever, mark) \cap asked) + off
        visible(pages) == count(Visible) = IF Shown THEN pages ELSE 0
    IN  /\ scan.read = scan.total
        /\ scan.begin + scan.length <= MaxAddr - PageUnits + 1 => asked = Asked(scan)
        /\ near(InMemory, 0)
        /\ scan.kind = "pages" =>
             /\ near(InSwap, 0) /\ near(SoftDirty, 0)
             /\ count(InMemory) + count(InSwap) <= scan.total
             /\ visible(count(InMemory) + count(InSwap))
        /\ scan.kind = "page_flags" =>
             /\ visible(count(InMemory))
             /\ \A f \in UNION {FrameFlags[frame] : frame \in Frame} :
                  IF Shown THEN near(Flag(f), scan.moved) ELSE count(Flag(f)) = 0
        /\ scan.kind = "numa" =>
             /\ \A n \in {Node[frame] : frame \in Frame} : near(OnNode(n), 0)
             /\ MapThenSumSet(LAMBDA m : scan.counts[m], NodeMarks(scan.counts)) = count(InMemory)
=============================================================================
