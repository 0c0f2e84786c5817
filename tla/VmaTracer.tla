------------------------------ MODULE VmaTracer ------------------------------
(***************************************************************************)
(* mem-map-viewer --trace (tracer.cpp): a ptrace loop that applies every   *)
(* memory call of the traced threads to one model of the child's address   *)
(* space.                                                                  *)
(*                                                                         *)
(* A call stops its thread when it enters, is executed by the kernel, and  *)
(* stops the thread again when it leaves; the loop serves one stop at a    *)
(* time.  `waited' is the thread whose stop waitpid has returned and the   *)
(* loop has not served yet: meanwhile other threads run.  Arguments are    *)
(* chosen when the kernel executes the call; the copy that `pending' keeps *)
(* of them is not looked at before.  PTRACE_GET_SYSCALL_INFO is there, so  *)
(* `entering' is not needed.  Only the child itself execs.                 *)
(*                                                                         *)
(* Bound: MaxCalls calls of all threads together.                          *)
(***************************************************************************)
EXTENDS VmaModel, FiniteSets

CONSTANTS
  Tid,           \* the traced threads
  child,         \* the program started by trace_program
  Forked,        \* threads that are not the child's but of a process it forked
  Uses,          \* the calls that the program makes
  Growing,       \* does mremap grow mappings?
  Seccomp,       \* TraceMode::SeccompFilter, else TraceMode::SyscallStops
  MaxCalls

ASSUME TracerAssumption ==
  /\ IsFiniteSet(Tid)
  /\ child \in Tid
  /\ Forked \subseteq Tid \ {child}
  /\ Uses \subseteq CallNames
  /\ Growing \in BOOLEAN
  /\ Seccomp \in BOOLEAN
  /\ MaxCalls \in Nat

VARIABLES
  pages,    \* the child's address space
  break,    \* its program break, as the program knows it; 0: not asked yet
  thread,   \* the threads: where they are, and the call they have executed
  calls,    \* calls so far
  model,    \* VmaModel model
  pending,  \* threads with an entry in `pending'
  waited,   \* the thread whose stop is being served, or "none"
  ended,    \* "no", "done" (a snapshot is returned), "aborted" (an exception)
  unsure    \* history: pages that calls of two threads were under way for at once,
            \* or a call that was never reported

kernel == <<pages, break, calls, unsure>>
tracer == <<model, pending, waited, ended>>
vars == <<kernel, thread, tracer>>

Threads == Tid \ Forked
Stopped(t) == thread[t].at \in {"entry", "exit", "exec"}
Gone(t) == thread[t].at \in {"dead", "reaped"}

\* Executed by the kernel, and not applied to the model yet.
UnderWay(t) == Footprint(thread[t].call)

Init ==
  /\ pages = Image
  /\ break = 0
  /\ thread = [t \in Tid |-> [at |-> "user", call |-> NoCall]]
  /\ calls = 0
  /\ model = Seeded(Image)
  /\ pending = {}
  /\ waited = "none"
  /\ ended = "no"
  /\ unsure = {}

-----------------------------------------------------------------------------
(* The traced program.                                                      *)

Enter(t) ==
  /\ ended = "no"
  /\ thread[t].at = "user"
  /\ calls < MaxCalls
  /\ calls' = calls + 1
  /\ thread' = [thread EXCEPT ![t].at = "entry"]
  /\ UNCHANGED <<pages, break, unsure, tracer>>

\* The calls thread t may make now.  The heap is used the way malloc does: the
\* break is asked for first and then moved by one thread at a time, the heap is
\* not given back entirely, and it is neither cut into nor built next to calls
\* under way.
Possible(t) ==
  LET others == UNION {UnderWay(u) : u \in Threads \ {t}}
      moving == \E u \in Threads : thread[u].call.name = "brk"
      heap == {p \in Page : pages[p].kind = "heap"}
              \cup UNION {UnderWay(u) : u \in {v \in Threads : thread[v].call.name = "brk"}}
      brks == IF moving THEN {}
              ELSE IF break = 0 THEN {BrkQuery(HeapStart)}
              ELSE {BrkQuery(break)}
                   \cup {c \in BrkCalls(pages, break) :
                           c.to > HeapStart /\ Footprint(c) \cap others = {}}
      ranged == {c \in MmapCalls \cup MunmapCalls \cup MprotectCalls(pages)
                       \cup MremapCalls(pages) :
                   Footprint(c) \cap heap = {} /\ (Growing \/ ~Grows(c))}
  IN  {c \in ranged \cup brks : c.name \in Uses}

\* Where an mremap carries pages of S.
Spoilt(c, S) ==
  IF c.name = "mremap" /\ Footprint(c) \cap S # {} THEN PagesIn(c.to, c.to_end) ELSE {}

\* The kernel executes the call and stops the thread on its way out.
Execute(t) ==
  /\ thread[t].at = "kernel"
  /\ \E c \in Possible(t) :
       LET met == Footprint(c) \cap UNION {UnderWay(u) : u \in Threads \ {t}}
           S == unsure \cup met
           spoilt == Spoilt(c, S) \cup UNION {Spoilt(thread[u].call, S) : u \in Threads \ {t}}
       IN  /\ thread' = [thread EXCEPT ![t] = [at |-> "exit", call |-> c]]
           /\ IF t \in Forked THEN UNCHANGED <<pages, break, unsure>>
              ELSE /\ pages' = After(pages, c)
                   /\ break' = IF c.name = "brk" THEN c.to ELSE break
                   /\ unsure' = S \cup spoilt
  /\ UNCHANGED <<calls, tracer>>

ExecuteFails(t) ==
  /\ thread[t].at = "kernel"
  /\ thread' = [thread EXCEPT ![t].at = "exit"]
  /\ UNCHANGED <<kernel, tracer>>

\* execve by the child: its other threads are killed, wherever they are.
ExecuteExec ==
  /\ thread[child].at = "kernel"
  /\ "exec" \in Uses
  /\ pages' = Image
  /\ break' = 0
  /\ unsure' = {}
  /\ thread' = [t \in Tid |->
       IF t = child THEN [at |-> "exec", call |-> Exec]
       ELSE IF t \in Forked \/ thread[t].at = "reaped" THEN thread[t]
       ELSE [at |-> "dead", call |-> NoCall]]
  /\ UNCHANGED <<calls, tracer>>

\* A thread other than the first ends.
ExitThread(t) ==
  /\ t # child
  /\ thread[t].at = "user"
  /\ thread' = [thread EXCEPT ![t].at = "dead"]
  /\ UNCHANGED <<kernel, tracer>>

\* The process dies before the calls under way are reported.
Unreported == unsure \cup UNION {UnderWay(t) : t \in Threads}

\* exit_group, or a signal that kills the process.
Die ==
  /\ ended = "no"
  /\ ~Gone(child)
  /\ thread' = [t \in Tid |-> IF t \in Forked \/ thread[t].at = "reaped" THEN thread[t]
                              ELSE [at |-> "dead", call |-> NoCall]]
  /\ unsure' = Unreported
  /\ UNCHANGED <<pages, break, calls, tracer>>

-----------------------------------------------------------------------------
(* The trace loop.                                                          *)

Serving(t, at) ==
  /\ ended = "no"
  /\ waited = t
  /\ thread[t].at = at

\* waitpid returns a stop ...
Wait(t) ==
  /\ ended = "no"
  /\ waited = "none"
  /\ Stopped(t)
  /\ waited' = t
  /\ UNCHANGED <<kernel, thread, model, pending, ended>>

\* ... or a death; the child's ends the loop.  A thread that a signal has killed
\* keeps its entry in `pending'.
AfterDeath(t) == IF t = child THEN "done" ELSE "no"

HandleDeath(t) ==
  /\ ended = "no"
  /\ waited = "none"
  /\ thread[t].at = "dead"
  /\ t = child => \A u \in Threads \ {child} : thread[u].at = "reaped"
  /\ thread' = [thread EXCEPT ![t].at = "reaped"]
  /\ \E signalled \in BOOLEAN : pending' = IF signalled THEN pending ELSE pending \ {t}
  /\ ended' = AfterDeath(t)
  /\ UNCHANGED <<kernel, model, waited>>

\* Resumes the thread; with TraceMode::SyscallStops the exit of an execve stops
\* it once more.
Resume(t, at) ==
  /\ thread' = [thread EXCEPT ![t] = [at |-> at, call |-> NoCall]]
  /\ waited' = "none"

HandleEntry(t) ==
  /\ Serving(t, "entry")
  /\ pending' = pending \cup {t}
  /\ Resume(t, "kernel")
  /\ UNCHANGED <<kernel, model, ended>>

HandleExit(t) ==
  /\ Serving(t, "exit")
  /\ model' = IF t \in pending /\ thread[t].call # NoCall
              THEN Applied(model, thread[t].call) ELSE model
  /\ pending' = pending \ {t}
  /\ Resume(t, "user")
  /\ UNCHANGED <<kernel, ended>>

\* Fault: the model goes on from the regions it had.
NotReseeded == model

\* reseed_after_exec: the model is read from /proc/<pid>/maps again.
Reseeded == Seeded(pages)

HandleExec(t) ==
  /\ Serving(t, "exec")
  /\ model' = Reseeded
  /\ pending' = pending \ {t}
  /\ Resume(t, IF Seccomp THEN "user" ELSE "exit")
  /\ UNCHANGED <<kernel, ended>>

\* The thread was killed while it was stopped: it cannot be resumed, and
\* resume_tracee throws.  TraceeGuard kills the child.
HandlerThrows(t) ==
  /\ Serving(t, "dead")
  /\ ended' = "aborted"
  /\ waited' = "none"
  /\ thread' = [u \in Tid |-> IF u \in Forked THEN thread[u]
                              ELSE [at |-> "reaped", call |-> NoCall]]
  /\ unsure' = Unreported
  /\ UNCHANGED <<pages, break, calls, model, pending>>

Ended ==
  /\ ended # "no"
  /\ UNCHANGED vars

-----------------------------------------------------------------------------
Target ==
  \/ \E t \in Tid : Enter(t) \/ Execute(t) \/ ExecuteFails(t) \/ ExitThread(t)
  \/ ExecuteExec
  \/ Die

Tracer ==
  \E t \in Tid :
    \/ Wait(t) \/ HandleDeath(t)
    \/ HandleEntry(t) \/ HandleExit(t) \/ HandleExec(t) \/ HandlerThrows(t)

Next == Target \/ Tracer \/ Ended

Spec == Init /\ [][Next]_vars

-----------------------------------------------------------------------------
(* Properties.                                                              *)

\* No two regions of the model overlap, through any sequence of splits, merges
\* and moves (vma_model.cpp; the lookups of RegionIndex rely on it).
Disjoint ==
  \A q, r \in model.regions : q # r => Extent(q) \cap Extent(r) = {}

\* What the model says of a page is what the kernel has there, unless a call that
\* touches the page is executed and not applied yet, or calls of two threads for
\* the page were under way at once: those are applied in the order of their exit
\* stops, which need not be the order the kernel executed them in.
Agrees ==
  \A p \in Page :
    \/ PagesOf(model.regions)[p] = pages[p]
    \/ p \in unsure
    \/ \E t \in Threads : p \in UnderWay(t)

\* The list of regions implements the page map: every served exit stop applies one
\* call exactly, whatever regions it has to split, clip, move or merge.
Promise == INSTANCE PageMap WITH
  pages <- PagesOf(model.regions),
  calls <- [t \in Tid |-> thread[t].call]
ImplementsPageMap == Promise!Spec
=============================================================================
