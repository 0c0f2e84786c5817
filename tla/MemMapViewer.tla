----------------------------- MODULE MemMapViewer -----------------------------
(***************************************************************************)
(* The command line of mem-map-viewer and what each command does (main.cpp *)
(* and read_proc_snapshot of proc_seed.cpp): which commands are accepted,  *)
(* which one is run, and how those on a process combine snapshots of it    *)
(* that are read one after the other while it changes.  The commands with  *)
(* behaviour of their own are in PageScans, PerfSampler and UffdTracer;    *)
(* --trace is VmaTracer.                                                   *)
(*                                                                         *)
(* A command is the set of its options and the value of --growth-check.    *)
(*                                                                         *)
(* Bounds: MaxMoves changes of the process's maps; Rounds of --watch.      *)
(***************************************************************************)
EXTENDS PageScans, PerfSampler, UffdTracer

CONSTANTS
  Commands,   \* the command lines to try
  Layouts,    \* what /proc/<pid>/maps and smaps may say
  First,      \* what they say at first
  SoftLimits, \* what prlimit may say
  Groups,     \* what the files of a control group may say
  MaxMoves, Rounds

ASSUME MemMapViewerAssumption == First \in Layouts /\ MaxMoves \in Nat /\ Rounds \in Nat

VARIABLES
  command, branch,  \* the command line; what main has chosen to do
  lines,            \* the maps of the process, or Gone
  stage,            \* where the reading of a snapshot is
  snapshot,         \* the snapshot being read
  samples,          \* those read before it in this round
  report,           \* what is printed
  rounds, moves

mainVars == <<command, branch, lines, stage, snapshot, samples, report, rounds, moves>>
vars == <<mainVars, pageVars, perfVars, uffdVars>>

UNCHANGED_Tools == UNCHANGED <<pageVars, perfVars, uffdVars>>

-----------------------------------------------------------------------------
(* parse_args.                                                             *)

Count(words) == Cardinality(words)
PageModes == {"--pages", "--numa", "--page-flags"}
NeedPid == {"--residency", "--perf-sample", "--clear-soft-dirty", "--limits", "--reconcile",
            "--growth-check"} \cup PageModes

\* With --insights a control group may come beside the process.
Primary(w) ==
  (w \cap {"--pid", "--trace", "--diff", "--uffd-demo", "--cgroup"})
    \ (IF {"--insights", "--pid", "--cgroup"} \subseteq w THEN {"--cgroup"} ELSE {})

\* Fault: a command without any target is accepted.
AtMostOnePrimary(w) == Count(Primary(w)) <= 1

OnePrimary(w) == Count(Primary(w)) = 1

Valid(c) ==
  LET w == c.words
      has(option) == option \in w
      none(options) == w \cap options = {}
  IN  /\ OnePrimary(w)
      /\ ~(has("--events") /\ has("--snapshot"))
      /\ has("--psi") => has("--cgroup")
      /\ has("--insights") => none({"--trace", "--diff", "--uffd-demo"})
      /\ ~has("--pid") => none(NeedPid)
      /\ Count(w \cap PageModes) <= 1
      /\ has("--range") <=> ~none(PageModes)
      /\ has("--clear-soft-dirty") => none(PageModes)
      /\ has("--limits") => none(PageModes \cup {"--clear-soft-dirty", "--reconcile"})
      /\ has("--reconcile") => none(PageModes \cup {"--clear-soft-dirty", "--residency",
                                                    "--perf-sample", "--insights", "--growth-check"})
      /\ has("--growth-check") => c.growth > 1

\* main: the first that applies.
Dispatch(w) ==
  CASE "--diff" \in w -> "diff"
    [] "--diff" \notin w /\ "--uffd-demo" \in w -> "uffd"
    [] w \cap {"--diff", "--uffd-demo"} = {} ->
         IF "--cgroup" \in w /\ ~({"--insights", "--pid"} \subseteq w) THEN "cgroup"
         ELSE IF "--trace" \in w THEN "trace"
         ELSE IF "--pages" \in w THEN "pages"
         ELSE IF "--numa" \in w THEN "numa"
         ELSE IF "--page-flags" \in w THEN "page_flags"
         ELSE IF "--clear-soft-dirty" \in w THEN "clear"
         ELSE IF "--limits" \in w /\ "--insights" \notin w THEN "limits"
         ELSE "process"

ParseArgs ==
  /\ branch = "parse"
  /\ branch' = IF Valid(command) THEN Dispatch(command.words) ELSE "error"
  /\ UNCHANGED <<command, lines, stage, snapshot, samples, report, rounds, moves>>
  /\ UNCHANGED_Tools

Has(option) == option \in command.words
Done(what) == report' = what /\ branch' = "exit"
Keep == UNCHANGED <<command, lines, stage, snapshot, samples, rounds, moves>>

-----------------------------------------------------------------------------
(* The process, and reading it.                                            *)

\* A process that lives has some line.
Gone == <<>>

\* It maps and unmaps, or ends.  What it does while nothing reads it is left out.
Move ==
  /\ branch = "process" /\ stage \in {"maps", "smaps", "probe"} /\ moves < MaxMoves
  /\ lines # Gone
  /\ \E to \in Layouts \cup {Gone} : lines' = to
  /\ moves' = moves + 1
  /\ UNCHANGED <<command, branch, stage, snapshot, samples, report, rounds>> /\ UNCHANGED_Tools

WithSmaps == Has("--with-smaps") \/ Has("--insights") \/ Has("--growth-check")
Needed == IF Has("--growth-check") THEN 1 + command.growth ELSE IF Has("--reconcile") THEN 2 ELSE 1

\* Where read_proc_snapshot goes on, and main when it returns.
After(done) ==
  IF done = "maps" /\ WithSmaps THEN "smaps"
  ELSE IF done \in {"maps", "smaps"} /\ Has("--probe-memory") THEN "probe"
  ELSE IF Len(samples) + 1 < Needed THEN "again"
  ELSE IF Has("--perf-sample") /\ ~Has("--growth-check") THEN "perf" ELSE "use"

GoOn(done, read) ==
  LET next == After(done)
  IN  /\ snapshot' = read
      /\ samples' = IF next \in {"again", "perf", "use"} THEN Append(samples, read) ELSE samples
      /\ stage' = IF next = "again" THEN "maps" ELSE next
      /\ UNCHANGED <<command, branch, lines, report, rounds, moves>> /\ UNCHANGED_Tools

Mapped(ls) == UNION {l.begin..(l.end - 1) : l \in ToSet(ls)}

TakeMaps ==
  /\ branch = "process" /\ stage = "maps"
  /\ IF lines = Gone
       THEN branch' = "error" /\ UNCHANGED <<command, lines, stage, snapshot, samples, report, rounds, moves>>
            /\ UNCHANGED_Tools
       ELSE GoOn("maps", ReadMaps(lines))

\* Without smaps every rss stays zero.
TakeSmaps ==
  /\ branch = "process" /\ stage = "smaps"
  /\ GoOn("smaps", IF lines = Gone THEN snapshot ELSE ReadSmaps(snapshot, lines))

TakeProbe ==
  /\ branch = "process" /\ stage = "probe"
  /\ GoOn("probe", Probed(snapshot, IF lines = Gone THEN {} ELSE Mapped(lines)))

-----------------------------------------------------------------------------
(* What the commands do with their snapshots.                              *)

Perf ==
  \/ /\ branch = "process" /\ stage = "perf" /\ perf.state = "none"
     /\ \E event \in {"cpu-clock", "dtlb-miss"} : OpenSampler(event, snapshot)
     /\ UNCHANGED mainVars
  \/ Sampling /\ UNCHANGED mainVars
  \/ /\ stage = "perf" /\ perf.state \in {"available", "error"}
     /\ stage' = "use"
     /\ UNCHANGED <<command, branch, lines, snapshot, samples, report, rounds, moves>>
     /\ UNCHANGED perfVars

PerfStep == branch = "process" /\ Perf /\ UNCHANGED <<pageVars, uffdVars>>

\* The files of a control group, read one after the other: whatever they say.
Health(group) ==
  ReadCgroupMemoryHealth(group.current, group.max, group.some, group.full, group.kills)

Insights(group, limits) ==
  ResidencyInsights(SampleResidency(snapshot, FALSE, {}, {}))
    \cup (IF Has("--perf-sample") THEN PerfInsights(perf.hotspots) ELSE {})
    \cup (IF Has("--cgroup") THEN CgroupInsights(Health(group)) ELSE {})
    \cup (IF Has("--limits") THEN LimitInsights(snapshot, limits) ELSE {})

\* The report of one round, of mem-map-viewer itself where --pid is its own; a growth check is not repeated.
UseSnapshots ==
  /\ branch = "process" /\ stage = "use"
  /\ \E group \in Groups, soft \in SoftLimits, failing \in 1..6, self \in BOOLEAN :
       LET limits == ReadResourceLimits(soft, failing)
       IN  /\ self => Has("--residency")
           /\ ~(Has("--insights") /\ Has("--cgroup")) => group = CHOOSE g \in Groups : TRUE
           /\ ~(Has("--insights") /\ Has("--limits")) => failing = 6 /\ soft = CHOOSE s \in SoftLimits : TRUE
           /\ report' =
                IF Has("--growth-check") THEN [tool |-> "growth", is |-> CheckGrowth(Tail(samples))]
                ELSE IF Has("--insights")
                  THEN [tool |-> "insights", is |-> Insights(group, limits), health |-> Health(group)]
                ELSE IF Has("--reconcile")
                  THEN [tool |-> "reconcile", is |-> Reconcile(samples[1], samples[2])]
                ELSE IF Has("--perf-sample") THEN [tool |-> "perf", is |-> perf]
                ELSE IF Has("--residency")
                  THEN [tool |-> "residency",
                        is |-> SampleResidency(snapshot, self, Mapped(lines), Mapped(lines) \ {0})]
                ELSE [tool |-> "snapshot", is |-> SummarizeSnapshot(snapshot)]
  /\ IF Has("--watch") /\ ~Has("--growth-check") /\ rounds < Rounds
       THEN stage' = "sleep" /\ UNCHANGED branch
       ELSE branch' = "exit" /\ UNCHANGED stage
  /\ rounds' = rounds + 1
  /\ UNCHANGED <<command, lines, snapshot, samples, moves>> /\ UNCHANGED_Tools

\* --watch: after the interval the round begins anew.
Watch ==
  /\ branch = "process" /\ stage = "sleep"
  /\ stage' = "maps" /\ samples' = <<>> /\ snapshot' = <<>>
  /\ PerfReset
  /\ UNCHANGED <<command, branch, lines, report, rounds, moves>> /\ UNCHANGED <<pageVars, uffdVars>>

-----------------------------------------------------------------------------
(* The other commands.                                                     *)

Diff ==
  /\ branch = "diff"
  /\ \E before, after \in Layouts :
       LET a == ReadSmaps(ReadMaps(before), before)
           b == ReadSmaps(ReadMaps(after), after)
       IN  Done([tool |-> "diff", is |-> DiffSnapshots(a, b), from |-> a, to |-> b])
  /\ Keep /\ UNCHANGED_Tools

\* With --watch the group is read again after each interval.
Cgroup ==
  /\ branch = "cgroup"
  /\ \E group \in Groups :
       LET health == Health(group)
       IN  report' = IF Has("--insights")
                       THEN [tool |-> "insights", is |-> CgroupInsights(health), health |-> health]
                       ELSE [tool |-> "cgroup", is |-> health]
  /\ branch' = IF Has("--watch") /\ rounds < Rounds THEN branch ELSE "exit"
  /\ rounds' = rounds + 1
  /\ UNCHANGED <<command, lines, stage, snapshot, samples, moves>> /\ UNCHANGED_Tools

Limits ==
  /\ branch = "limits"
  /\ \E soft \in SoftLimits, failing \in 1..6 :
       Done([tool |-> "limits", is |-> ReadResourceLimits(soft, failing)])
  /\ Keep /\ UNCHANGED_Tools

Clear ==
  /\ branch = "clear"
  /\ \/ ClearSoftDirty /\ Done([tool |-> "clear", is |-> TRUE])
     \/ Done([tool |-> "clear", is |-> FALSE]) /\ UNCHANGED pageVars
  /\ Keep /\ UNCHANGED <<perfVars, uffdVars>>

Scan ==
  /\ branch \in {"pages", "numa", "page_flags"}
  /\ \/ \E begin \in 0..MaxAddr, length \in 1..(MaxAddr + 1), frames \in {"shown", "hidden"} :
          StartScan(branch, begin, length, frames)
     \/ Scanning
     \/ Process
     \/ ClearSoftDirty  \* by another command, before the scan
  /\ UNCHANGED <<mainVars, perfVars, uffdVars>>

Demo ==
  /\ branch = "uffd"
  /\ \/ \E mode \in {"missing", "wp"}, length \in Lengths : MapDemo(mode, length)
     \/ DemoMain
     \/ Handler \/ PollFails
  /\ UNCHANGED <<mainVars, pageVars, perfVars>>

-----------------------------------------------------------------------------

Init ==
  /\ command \in Commands /\ branch = "parse"
  /\ lines = First
  /\ stage = "maps" /\ snapshot = <<>> /\ samples = <<>>
  /\ report = [tool |-> "none"] /\ rounds = 0 /\ moves = 0
  /\ PageInit /\ PerfInit /\ UffdInit

Next ==
  \/ ParseArgs \/ Diff \/ Cgroup \/ Limits \/ Clear \/ Scan \/ Demo
  \/ Move \/ TakeMaps \/ TakeSmaps \/ TakeProbe \/ PerfStep \/ UseSnapshots \/ Watch

Spec == Init /\ [][Next]_vars /\ UffdFairness

-----------------------------------------------------------------------------

\* An accepted command is the one that is run, and has what it needs: nothing but
\* the commands on a process looks at a process, each of those is given its range,
\* and a command that changes or compares the process is never dropped for another
\* (parse_args and main).  A growth check, --limits beside it and --events may
\* be dropped without a message.
CommandServed ==
  LET w == command.words
  IN  branch \notin {"parse", "error", "exit"} =>
        /\ branch \in {"diff", "uffd", "cgroup", "trace"} \/ "--pid" \in w
        /\ branch \in {"pages", "numa", "page_flags"} => "--range" \in w
        /\ \A pair \in {<<"--diff", "diff">>, <<"--uffd-demo", "uffd">>, <<"--trace", "trace">>,
                        <<"--pages", "pages">>, <<"--numa", "numa">>, <<"--page-flags", "page_flags">>,
                        <<"--clear-soft-dirty", "clear">>} :
             pair[1] \in w <=> branch = pair[2]
        /\ "--reconcile" \in w => branch = "process"

\* A reconciliation names exactly the bounds that differ.
ReconcileTrue ==
  report.tool = "reconcile" =>
    LET observed == {Bounds(r) : r \in ToSet(samples[1])}
        truth == {Bounds(r) : r \in ToSet(samples[2])}
    IN  /\ truth = (observed \ report.is.extra) \cup report.is.missing
        /\ moves = 0 => UNION Range(report.is) = {}

\* The parts of a growth report agree with each other: the buckets add up to the
\* difference of the totals, totals that never fall have no falling line through
\* them, and the line leaves no more unexplained than there is.
GrowthTrue ==
  report.tool = "growth" =>
    LET g == report.is
        n == Len(g.size)
        whole(field) == MapThenSumSet(LAMBDA k : g.buckets[k][field], DOMAIN g.buckets)
        sound(y, monotonic, trend) ==
          /\ monotonic => trend.rise >= 0
          /\ monotonic /\ y[1] < y[n] => trend.rise > 0
          /\ trend.run > 0 /\ 0 <= trend.residual /\ trend.residual <= trend.total
    IN  /\ whole("size") = g.size[n] - g.size[1]
        /\ whole("rss") = g.rss[n] - g.rss[1]
        /\ sound(g.size, g.monotonicSize, g.sizeTrend)
        /\ sound(g.rss, g.monotonicRss, g.rssTrend)

\* A difference is what leads from the one summary to the other.
DiffTrue ==
  report.tool = "diff" =>
    \A key \in Keys(report.from) \cup Keys(report.to) :
      LET count(regs) == Bucket(regs, key).count
          size(regs) == Bucket(regs, key).size
      IN  IF key \in DOMAIN report.is
            THEN /\ count(report.from) + report.is[key].count = count(report.to)
                 /\ size(report.from) + report.is[key].size = size(report.to)
            ELSE count(report.from) = count(report.to) /\ size(report.from) = size(report.to)

\* Insights do not contradict each other, and residency stays within its region.
InsightsTrue ==
  /\ report.tool = "insights" =>
       LET keys(type) == {i.key : i \in {j \in report.is : j.type = type}}
       IN  /\ Cardinality({i \in report.is : i.type = "hotspot"}) <= 1
           /\ report.health.risk \in 0..1000
           /\ report.health.risk > 0 => report.health.hasLimit
           /\ keys("pressure") # {} => Has("--cgroup")
           /\ Has("--cgroup") /\ report.health.kills > 0 => keys("pressure") # {}
  /\ report.tool = "residency" =>
       \A i \in DOMAIN report.is : report.is[i].resident <= report.is[i].total

\* The index finds the region of an address, and only that.
IndexTrue ==
  \A a \in Address :
    FindRegion(IndexOf(snapshot), a) = {r \in ToSet(snapshot) : r.begin <= a /\ a < r.end}

\* What is printed about a process agrees with the snapshots it was computed from,
\* which were read at different times while the process changed.
ReportsTrue == ReconcileTrue /\ GrowthTrue /\ DiffTrue /\ InsightsTrue /\ IndexTrue
=============================================================================
