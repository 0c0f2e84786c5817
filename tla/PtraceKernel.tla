----------------------------- MODULE PtraceKernel -----------------------------
(***************************************************************************)
(* The part of Linux that mini-strace relies on: tasks that make system    *)
(* calls, stop for their tracer, fork, exec, get signals and die.  It is   *)
(* external to the repository; what it offers is read off the requests and *)
(* the wait statuses that src/mini-strace/src/trace_loop.cpp uses.         *)
(*                                                                         *)
(* The tracees are launched with --follow-fork, so every task is traced    *)
(* from its first instruction on and is born with a pending SIGSTOP.       *)
(* Without the option, children are never traced and the program looks     *)
(* like one that makes no fork or clone call.                              *)
(*                                                                         *)
(* Bounds: MaxCalls calls before exit_group and MaxSignals signals, per    *)
(* task.  A stop for SIGSTOP or SIGTRAP is a "sigstop", one for another    *)
(* signal is a "signal".                                                   *)
(***************************************************************************)
EXTENDS Integers, FiniteSets

CONSTANTS
  Tid,         \* the thread ids the kernel may hand out
  Primary,     \* the launched process
  Names,       \* the calls the program makes
  BpfFilter,   \* calls the installed seccomp program traces; {}: none installed
  MaxCalls,
  MaxSignals,
  ThreadExec,  \* may a thread that does not lead its group call execve?
  Kills        \* may a process be killed with SIGKILL?

CallNames == {"io", "fork", "clone", "exec", "exit", "exit_group"}

ASSUME KernelAssumption ==
  /\ Primary \in Tid
  /\ Names \subseteq CallNames
  /\ BpfFilter \subseteq CallNames
  /\ MaxCalls \in Nat
  /\ MaxSignals \in Nat
  /\ ThreadExec \in BOOLEAN
  /\ Kills \in BOOLEAN

VARIABLES
  task,      \* the kernel's record of every task
  news,      \* tasks with a stop or a death that waitpid has not returned yet
  ran,       \* history: calls whose body the kernel executed
  finished   \* history: calls that returned to user mode

kernel == <<task, news, ran, finished>>

\* The identity of a call: the n-th call that task `by' made.
Call == [by : Tid, n : Nat, name : CallNames \cup {"none"}]
NoCall(t) == [by |-> t, n |-> 0, name |-> "none"]

Modes == {"none", "running", "stopped", "zombie", "reaped", "free"}
Places == {"born", "user", "sys", "forked", "leaving"}
Stops == {"none", "entry", "exit", "seccomp", "fork", "clone", "exec", "sigstop",
          "signal", "exited", "killed", "exitkill"}

Task == [mode : Modes, at : Places, stop : Stops, call : Call, n : Nat,
         watch : {"syscall", "cont"}, tgid : Tid, child : Tid, skip : BOOLEAN,
         raised : Nat, traps : Nat, got : Nat]

Alive(t) == task[t].mode \in {"running", "stopped"}
RunningAt(t, place) == task[t].mode = "running" /\ task[t].at = place
Group(g) == {u \in Tid : task[u].mode # "none" /\ task[u].tgid = g}

Fresh(t, g, place, w) ==
  [mode |-> "running", at |-> place, stop |-> "none", call |-> NoCall(t), n |-> 0,
   watch |-> w, tgid |-> g, child |-> t, skip |-> FALSE,
   raised |-> 0, traps |-> 0, got |-> 0]

\* How the tracer resumes a tracee outside a filtered call: PTRACE_CONT when a
\* seccomp program picks the calls to report, PTRACE_SYSCALL otherwise.
PlainWatch == IF BpfFilter = {} THEN "syscall" ELSE "cont"

KernelInit ==
  /\ task = [t \in Tid |-> IF t = Primary THEN Fresh(t, t, "user", PlainWatch)
                           ELSE [Fresh(t, t, "born", PlainWatch) EXCEPT !.mode = "none"]]
  /\ news = {}
  /\ ran = {}
  /\ finished = {}

\* Task t goes on as record r, and stops there for reason s unless s is "none".
GoOn(t, r, s) ==
  /\ task' = [task EXCEPT ![t] = IF s = "none" THEN r
                                 ELSE [r EXCEPT !.mode = "stopped", !.stop = s]]
  /\ news' = IF s = "none" THEN news ELSE news \cup {t}

\* The state after the tasks of D died with the given wait status.
Dead(D, fate) ==
  [u \in Tid |-> IF u \in D THEN [task[u] EXCEPT !.mode = "zombie", !.stop = fate]
                 ELSE task[u]]

EntryStop(t, c) ==
  IF task[t].watch = "syscall" THEN "entry"
  ELSE IF c \in BpfFilter THEN "seccomp" ELSE "none"

EnterCall(t, c) ==
  /\ RunningAt(t, "user")
  /\ task[t].n < MaxCalls \/ c = "exit_group"
  /\ LET id == [by |-> t, n |-> task[t].n + 1, name |-> c]
     IN  GoOn(t, [task[t] EXCEPT !.at = "sys", !.call = id, !.n = @ + 1, !.skip = FALSE],
              EntryStop(t, c))
  /\ UNCHANGED <<ran, finished>>

\* The tracer set orig_rax to -1: the body is not executed.
SkipCall(t) ==
  /\ RunningAt(t, "sys")
  /\ task[t].skip
  /\ GoOn(t, [task[t] EXCEPT !.at = "leaving"], "none")
  /\ UNCHANGED <<ran, finished>>

Runs(t, c) ==
  /\ RunningAt(t, "sys")
  /\ ~task[t].skip
  /\ task[t].call.name = c
  /\ ran' = ran \cup {task[t].call}
  /\ UNCHANGED finished

RunIo(t) ==
  /\ Runs(t, "io")
  /\ GoOn(t, [task[t] EXCEPT !.at = "leaving"], "none")

\* copy_process: the child may be scheduled before its parent reports the event.
RunFork(t, c, ch) ==
  /\ Runs(t, c)
  /\ task[ch].mode = "none"
  /\ task' = [task EXCEPT
       ![t] = [@ EXCEPT !.at = "forked", !.child = ch],
       ![ch] = Fresh(ch, IF c = "clone" THEN task[t].tgid ELSE ch, "born", PlainWatch)]
  /\ UNCHANGED news

RaiseFork(t) ==
  /\ RunningAt(t, "forked")
  /\ GoOn(t, [task[t] EXCEPT !.at = "leaving"],
          IF task[t].call.name = "clone" THEN "clone" ELSE "fork")
  /\ UNCHANGED <<ran, finished>>

\* The SIGSTOP a traced child is born with.
FirstStop(t) ==
  /\ RunningAt(t, "born")
  /\ GoOn(t, [task[t] EXCEPT !.at = "user"], "sigstop")
  /\ UNCHANGED <<ran, finished>>

\* execve kills the other threads of the group.
RunExec(t) ==
  /\ Runs(t, "exec")
  /\ task[t].tgid = t
  /\ LET others == {u \in Group(t) \ {t} : Alive(u)}
     IN  /\ task' = [Dead(others, "exited") EXCEPT
                       ![t] = [@ EXCEPT !.at = "leaving", !.mode = "stopped", !.stop = "exec"]]
         /\ news' = news \cup others \cup {t}

\* execve by another thread: it takes over the leader's tid, and its own tid is
\* gone without a wait status.  The bounds are used up: what the new image does
\* is no different from what it does after an exec by the leader.
RunThreadExec(t) ==
  /\ ThreadExec
  /\ Runs(t, "exec")
  /\ task[t].tgid # t
  /\ LET g == task[t].tgid
         others == {u \in Group(g) \ {t, g} : Alive(u)}
     IN  /\ task' = [Dead(others, "exited") EXCEPT
                       ![g] = [task[t] EXCEPT !.at = "leaving", !.mode = "stopped",
                               !.stop = "exec", !.n = MaxCalls,
                               !.raised = MaxSignals, !.traps = 0, !.got = MaxSignals],
                       ![t] = [@ EXCEPT !.mode = "reaped"]]
         /\ news' = (news \cup others \cup {g}) \ {t}

\* exit: this thread only.
RunExit(t) ==
  /\ Runs(t, "exit")
  /\ task' = Dead({t}, "exited")
  /\ news' = news \cup {t}

RunExitGroup(t) ==
  /\ Runs(t, "exit_group")
  /\ LET dying == {u \in Group(task[t].tgid) : Alive(u)}
     IN  /\ task' = Dead(dying, "exited")
         /\ news' = news \cup dying

LeaveCall(t) ==
  /\ RunningAt(t, "leaving")
  /\ GoOn(t, [task[t] EXCEPT !.at = "user"],
          IF task[t].watch = "syscall" THEN "exit" ELSE "none")
  /\ finished' = finished \cup {task[t].call}
  /\ UNCHANGED ran

\* A signal other than SIGKILL reaches a task in user mode: SIGSTOP and SIGTRAP, or
\* another.
RaiseSignal(t) ==
  /\ RunningAt(t, "user")
  /\ task[t].raised + task[t].traps < MaxSignals
  /\ \/ GoOn(t, [task[t] EXCEPT !.raised = @ + 1], "signal")
     \/ GoOn(t, [task[t] EXCEPT !.traps = @ + 1], "sigstop")
  /\ UNCHANGED <<ran, finished>>

\* SIGKILL ends the process in whatever state its threads are.
Kill(g) ==
  /\ Kills
  /\ LET dying == {u \in Group(g) : Alive(u)}
     IN  /\ dying # {}
         /\ task' = Dead(dying, "killed")
         /\ news' = news \cup dying
  /\ UNCHANGED <<ran, finished>>

\* The kernel holds back a leader's death until its other threads are reaped.
Waitable(t) ==
  /\ t \in news
  /\ task[t].mode = "zombie" /\ task[t].tgid = t =>
       \A u \in Group(t) \ {t} : task[u].mode = "reaped"

Step(t) ==
  \/ \E c \in Names : EnterCall(t, c)
  \/ SkipCall(t)
  \/ RunIo(t)
  \/ \E c \in {"fork", "clone"}, ch \in Tid : RunFork(t, c, ch)
  \/ RaiseFork(t)
  \/ FirstStop(t)
  \/ RunExec(t)
  \/ RunThreadExec(t)
  \/ RunExit(t)
  \/ RunExitGroup(t)
  \/ LeaveCall(t)
  \/ RaiseSignal(t)
  \/ Kill(t)

=============================================================================
