--------------------------- MODULE MCMemMapViewer ---------------------------
(* An instance of MemMapViewer. *)
EXTENDS MemMapViewer, TLC

Line(begin, end, perms, name, rss) ==
  [begin |-> begin, end |-> end, perms |-> perms, name |-> name, offset |-> 0, inode |-> 0,
   deleted |-> FALSE, rss |-> rss, pss |-> rss]

Code == Line(0, 1, {"r", "x"}, "/lib/c.so", 4)
Stack == Line(5, 6, {"r", "w"}, "[stack]", 4)
Heap(end, rss) == Line(1, end, {"r", "w"}, "[heap]", rss)

\* The heap grows, a mapping comes and goes, becomes another file, or loses its pages.
FirstLayout == <<Code, Heap(2, 4), Stack>>

SomeLayouts ==
  {FirstLayout,
   <<Code, Heap(3, 6), Line(3, 5, {"r", "w"}, NoName, 8), Stack>>,
   <<Line(0, 1, {"r", "x"}, "/bin/b", 4), Heap(3, 0), Line(3, 5, {}, "[anon:pool]", 0),
     [Line(6, 7, {"r"}, "/data", 4) EXCEPT !.deleted = TRUE, !.inode = 3]>>}

Words == {"--pid", "--trace", "--diff", "--cgroup", "--uffd-demo", "--insights", "--perf-sample",
          "--pages", "--numa", "--page-flags", "--clear-soft-dirty", "--limits", "--reconcile",
          "--range", "--growth-check"}

Command(words, growth) == [words |-> words, growth |-> growth]

\* Every small set of options, and some larger ones.
SomeCommands ==
  {Command(w, 2) : w \in UNION {kSubset(n, Words) : n \in 0..3}}
  \cup {Command(w, 3) : w \in {{"--pid", "--growth-check", "--probe-memory"},
          {"--pid", "--growth-check", "--limits", "--insights"}}}
  \cup {Command(w, 1) : w \in {{"--pid", "--growth-check"},
          {"--pid", "--residency", "--watch", "--with-smaps", "--probe-memory"},
          {"--pid", "--reconcile", "--residency"}, {"--pid", "--cgroup", "--psi"},
          {"--cgroup", "--psi", "--watch"},
          {"--events", "--snapshot", "--trace"}, {"--psi", "--pid"},
          {"--pid", "--insights", "--cgroup", "--limits"},
          {"--pid", "--pages", "--numa", "--range"}, {"--pid", "--pages", "--range", "--limits"},
          {"--pid", "--pages", "--range", "--clear-soft-dirty"}}}

SomeLimits ==
  {[n \in {"address_space", "data", "stack", "memlock", "rss"} |-> soft] : soft \in {-1, 0, 6}}

SomeGroups ==
  {[current |-> c, max |-> m, some |-> p[1], full |-> p[2], kills |-> k] :
     c \in {1, 9}, m \in {-1, 10}, p \in {<<0, 0>>, <<60, 50>>}, k \in {0, 1}}

SomeFlags == (1 :> {"lru"} @@ 2 :> {"lru", "dirty"})
SomeNodes == (1 :> 0 @@ 2 :> 1)
=============================================================================
