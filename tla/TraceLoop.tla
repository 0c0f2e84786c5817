------------------------------ MODULE TraceLoop ------------------------------
(***************************************************************************)
(* mini-strace's event loop (src/mini-strace/src/trace_loop.cpp): one      *)
(* process that waits for any tracee, classifies the stop, pairs syscall   *)
(* entries with exits per tid and resumes the tracee.                      *)
(*                                                                         *)
(* One iteration is two steps, Wait (waitpid) and a handler, so that the   *)
(* tracees run, die and stop in between.  The calls a handler makes on its *)
(* tracee are one step: only SIGKILL changes a stopped tracee, and a kill  *)
(* just before the handler takes the same error path as one inside it.     *)
(*                                                                         *)
(* Abstracted: arguments, return values, times and text.  An event keeps   *)
(* the identity of the call whose entry stop it was built at and, once     *)
(* complete, of the call whose exit stop completed it.                     *)
(***************************************************************************)
EXTENDS PtraceKernel

CONSTANTS
  SyscallInfo,  \* does the kernel offer PTRACE_GET_SYSCALL_INFO?
  Filters,      \* options.filters; {}: everything is shown
  SeccompBpf,   \* options.seccomp_bpf
  Rules,        \* options.injections, as records [name, when]
  MaxEvents,    \* options.max_events; 0: no limit
  Signals,      \* options.signals
  Lifecycle     \* options.lifecycle

ASSUME OptionsAssumption ==
  /\ SyscallInfo \in BOOLEAN
  /\ Filters \subseteq CallNames
  /\ SeccompBpf \in BOOLEAN
  /\ SeccompBpf => Filters # {}
  /\ BpfFilter = (IF SeccompBpf THEN Filters ELSE {})
  /\ Rules \subseteq [name : CallNames, when : Nat]
  /\ MaxEvents \in Nat
  /\ Signals \in BOOLEAN
  /\ Lifecycle \in BOOLEAN

VARIABLES
  phase,      \* "loop", "done" (event_loop returned), "gone" (mini-strace exited)
  cur,        \* what waitpid returned, or NoStop
  tasks,      \* session.tasks
  pending,    \* session.threads[tid].pending; NoEvent: inactive
  tgids,      \* session.task_tgids; a missing key reads as the tid itself
  sequence,   \* session.sequence
  seen,       \* session.injection_seen
  emitted,    \* result.events
  result,     \* the primary's exit status in the TraceResult
  events,     \* history: the completed events handed to emit_event
  execs,      \* history: the calls for which state.on_exec() ran
  announced,  \* history: the tids ever put into session.tasks
  swallowed   \* history: tids resumed out of a stop that waitpid never returned

session == <<tasks, pending, tgids, sequence, seen, emitted, result>>
history == <<events, execs, announced, swallowed>>
vars == <<kernel, phase, cur, session, history>>

NoStop == [tid |-> Primary, stop |-> "none"]
NoEvent == [seq |-> 0, tid |-> Primary, pid |-> Primary, call |-> NoCall(Primary),
            injected |-> FALSE]
Event == [seq : Nat, tid : Tid, pid : Tid, call : Call, injected : BOOLEAN]
Completed == [entry : Event, exit : Call, shown : BOOLEAN]

Init ==
  /\ KernelInit
  /\ phase = "loop"
  /\ cur = NoStop
  /\ tasks = {Primary}
  /\ pending = [t \in Tid |-> NoEvent]
  /\ tgids = [t \in Tid |-> t]
  /\ sequence = 0
  /\ seen = [c \in CallNames |-> 0]
  /\ emitted = 0
  /\ result = "none"
  /\ events = {}
  /\ execs = {}
  /\ announced = {Primary}
  /\ swallowed = {}

-----------------------------------------------------------------------------
(* Requests to the kernel.  Each fails with ESRCH unless the task is in a   *)
(* ptrace stop.                                                             *)

Stopped(t) == task[t].mode = "stopped"

\* resume_tracee applied to the tasks T, with ESRCH ignored; `cancel' is the
\* set of tasks whose registers were rewritten to skip the current call, `d'
\* those resumed with their signal; in a stop for none the signal is ignored.
ResumeAll(T, w, cancel, d) ==
  /\ task' = [u \in Tid |->
       IF u \in T /\ Stopped(u)
       THEN [task[u] EXCEPT !.mode = "running", !.stop = "none", !.watch = w,
             !.skip = @ \/ u \in cancel,
             !.got = IF u \in d /\ task[u].stop \in {"signal", "sigstop"} THEN @ + 1 ELSE @]
       ELSE task[u]]
  /\ news' = {u \in news : ~(u \in T /\ Stopped(u))}
  /\ UNCHANGED <<ran, finished>>

Resume(t, w) == ResumeAll({t}, w, {}, {})

\* read_syscall_info: the kind of stop, or "fail".
InfoKind(t) ==
  IF ~SyscallInfo \/ ~Stopped(t) THEN "fail"
  ELSE IF task[t].stop \in {"entry", "exit", "seccomp"} THEN task[t].stop ELSE "none"

-----------------------------------------------------------------------------
LimitReached == MaxEvents # 0 /\ emitted >= MaxEvents

LoopHead == phase = "loop" /\ cur = NoStop

\* waitpid(-1, &status, __WALL): any tracee with news may be the one returned.
Wait(t) ==
  /\ LoopHead
  /\ tasks # {}
  /\ ~LimitReached
  /\ Waitable(t)
  /\ cur' = [tid |-> t, stop |-> task[t].stop]
  /\ news' = news \ {t}
  /\ task' = IF task[t].mode = "zombie" THEN [task EXCEPT ![t].mode = "reaped"] ELSE task
  /\ UNCHANGED <<ran, finished, phase, session, history>>

\* Fault: ECHILD is retried like EINTR.
LoopEndsWhenEmpty ==
  /\ LoopHead
  /\ tasks = {}
  /\ phase' = "done"
  /\ UNCHANGED <<kernel, cur, session, history>>

\* The loop condition fails, or waitpid fails with ECHILD.
LoopEnds ==
  /\ LoopHead
  /\ \/ tasks = {}
     \/ tasks # {} /\ ~LimitReached /\ \A t \in Tid : task[t].mode \in {"none", "reaped"}
  /\ phase' = "done"
  /\ UNCHANGED <<kernel, cur, session, history>>

\* detach_remaining: PTRACE_DETACH needs a stopped tracee, its errors are ignored; a
\* signal that the tracee is stopped for is not passed on.
Detach ==
  /\ LoopHead
  /\ tasks # {}
  /\ LimitReached
  /\ task' = [t \in Tid |-> IF t \in tasks /\ Stopped(t)
                            THEN [task[t] EXCEPT !.mode = "free", !.stop = "none"]
                            ELSE task[t]]
  /\ news' = {t \in news : ~(t \in tasks /\ Stopped(t))}
  /\ phase' = "done"
  /\ UNCHANGED <<ran, finished, cur, session, history>>

\* main returns; PTRACE_O_EXITKILL, set for a launched tracee and inherited by
\* its children, kills what is still attached.
TracerExit ==
  /\ phase = "done"
  /\ task' = Dead({t \in Tid : Alive(t)}, "exitkill")
  /\ phase' = "gone"
  /\ UNCHANGED <<news, ran, finished, cur, session, history>>

-----------------------------------------------------------------------------
Handling(stops) == phase = "loop" /\ cur # NoStop /\ cur.stop \in stops
Handled == cur' = NoStop /\ UNCHANGED phase

\* Fault: the end of the primary ends the loop.
ErasePrimaryEndsAll(t) == IF t = Primary THEN {} ELSE tasks \ {t}

\* session.tasks.erase(tid)
EraseTask(t) == tasks \ {t}

\* WIFEXITED and WIFSIGNALED: emit_exit_event / emit_signaled_event, then erase.
HandleDeath ==
  /\ Handling({"exited", "killed"})
  /\ sequence' = IF Lifecycle THEN sequence + 1 ELSE sequence
  /\ emitted' = IF Lifecycle THEN emitted + 1 ELSE emitted
  /\ result' = IF cur.tid = Primary THEN cur.stop ELSE result
  /\ tasks' = EraseTask(cur.tid)
  /\ pending' = [pending EXCEPT ![cur.tid] = NoEvent]
  /\ tgids' = [tgids EXCEPT ![cur.tid] = cur.tid]
  /\ Handled
  /\ UNCHANGED <<kernel, seen, history>>

\* matching_injection: the counter of a name moves once per entry, and only if
\* some rule names it.
Ruled(c) == \E r \in Rules : r.name = c
Injects(c) == \E r \in Rules : r.name = c /\ r.when \in {0, seen[c] + 1}

EntryEvent(t) ==
  [seq |-> sequence + 1, tid |-> t, pid |-> tgids[t], call |-> task[t].call,
   injected |-> Injects(task[t].call.name)]

\* Fault: only the events that will be shown are numbered.
SequenceOfShown(c) == IF c \in Filters THEN sequence + 1 ELSE sequence

\* make_entry_event: ++session.sequence, whatever the call.
SequenceAfter(c) == sequence + 1

\* Fault: the registers are not written back.
CancelForgotten(t) == {}

\* apply_entry_injection: orig_rax = -1.
Cancelled(t) == IF Injects(task[t].call.name) THEN {t} ELSE {}

\* begin_syscall_from_info and begin_syscall_from_regs, then resume.
BeginSyscall(t, w) ==
  LET c == task[t].call.name
  IN  /\ sequence' = SequenceAfter(c)
      /\ seen' = IF Ruled(c) THEN [seen EXCEPT ![c] = @ + 1] ELSE seen
      /\ pending' = [pending EXCEPT ![t] = EntryEvent(t)]
      /\ ResumeAll({t}, w, Cancelled(t), {})
      /\ Handled
      /\ UNCHANGED <<tasks, tgids, emitted, result, history>>

PassesFilter(c) == Filters = {} \/ c \in Filters

\* complete_syscall_from_info and complete_syscall_from_regs, then resume: an
\* exit without a pending entry is dropped.
CompleteSyscall(t) ==
  LET done == [entry |-> pending[t], exit |-> task[t].call,
               shown |-> PassesFilter(pending[t].call.name)]
      active == pending[t] # NoEvent
  IN  /\ pending' = [pending EXCEPT ![t] = NoEvent]
      /\ events' = IF active THEN events \cup {done} ELSE events
      /\ emitted' = IF active /\ done.shown THEN emitted + 1 ELSE emitted
      /\ Resume(t, PlainWatch)
      /\ Handled
      /\ UNCHANGED <<tasks, tgids, sequence, seen, result, execs, announced, swallowed>>

\* Fault: entry and exit are told apart by alternation alone.
IsEntryByParity(t) == pending[t] = NoEvent

\* handle_syscall_stop: without syscall info, a stop is an entry exactly when
\* no entry is pending for the tid.
IsEntry(t) ==
  \/ InfoKind(t) = "entry"
  \/ InfoKind(t) \notin {"entry", "exit"} /\ pending[t] = NoEvent

HandleEntry ==
  /\ Handling({"entry", "exit"})
  /\ Stopped(cur.tid)
  /\ IsEntry(cur.tid)
  /\ BeginSyscall(cur.tid, PlainWatch)

HandleExit ==
  /\ Handling({"entry", "exit"})
  /\ Stopped(cur.tid)
  /\ ~IsEntry(cur.tid)
  /\ CompleteSyscall(cur.tid)

HandleSeccomp ==
  /\ Handling({"seccomp"})
  /\ Stopped(cur.tid)
  /\ BeginSyscall(cur.tid, "syscall")

\* PTRACE_GETREGS failed: the exception is logged, the tracee resumed.
HandlerFails ==
  /\ Handling({"entry", "exit", "seccomp"})
  /\ ~Stopped(cur.tid)
  /\ Resume(cur.tid, PlainWatch)
  /\ Handled
  /\ UNCHANGED <<session, history>>

\* Fault: the -1 of read_task_tgid is not checked.
ChildTgidUnchecked(t, ch) ==
  IF cur.stop = "fork" THEN ch
  ELSE IF task[ch].mode # "reaped" THEN task[ch].tgid ELSE -1

\* PTRACE_EVENT_FORK / CLONE: /proc/<child>/status is there until the child is
\* reaped; then the parent's group stands in.
ChildTgid(t, ch) ==
  IF cur.stop = "fork" THEN ch
  ELSE IF task[ch].mode # "reaped" THEN task[ch].tgid ELSE tgids[t]

\* Fault: the parent's own stop is forgotten.
ForkResumesChild(t, ch) == {ch}

\* resume_tracee(child) in the handler, resume_tracee(tid) after it.
ForkResumes(t, ch) == {ch, t}

HandleFork ==
  LET t == cur.tid
      ch == task[t].child
  IN  /\ Handling({"fork", "clone"})
      /\ Stopped(t)
      /\ tasks' = tasks \cup {ch}
      /\ announced' = announced \cup {ch}
      /\ tgids' = [tgids EXCEPT ![ch] = ChildTgid(t, ch)]
      /\ swallowed' = IF Stopped(ch) /\ ch \in news THEN swallowed \cup {ch} ELSE swallowed
      /\ ResumeAll(ForkResumes(t, ch), PlainWatch, {}, {})
      /\ Handled
      /\ UNCHANGED <<pending, sequence, seen, emitted, result, events, execs>>

\* PTRACE_GETEVENTMSG failed: the child is not recorded.
HandleForkFails ==
  /\ Handling({"fork", "clone"})
  /\ ~Stopped(cur.tid)
  /\ Handled
  /\ UNCHANGED <<kernel, session, history>>

\* Fault: an exec drops the pending entry with the old image.
PendingClearedByExec(t) == [pending EXCEPT ![t] = NoEvent]

\* The pending execve entry is kept: its exit stop is still to come.
PendingAfterExec(t) == pending

\* Fault: only the launched process is known to the state tracker.
OnExecOfPrimary(t) == IF t = Primary THEN execs \cup {task[t].call} ELSE execs

\* session.state.on_exec()
OnExec(t) == execs \cup {task[t].call}

\* PTRACE_EVENT_EXEC.
HandleExec ==
  /\ Handling({"exec"})
  /\ execs' = OnExec(cur.tid)
  /\ pending' = PendingAfterExec(cur.tid)
  /\ Resume(cur.tid, PlainWatch)
  /\ Handled
  /\ UNCHANGED <<tasks, tgids, sequence, seen, emitted, result, events, announced, swallowed>>

\* Fault: every signal is delivered, that of a breakpoint too.
DeliverAll(t) == {t}

\* deliver = sig == SIGSTOP || sig == SIGTRAP ? 0 : sig
Deliver(t) == IF cur.stop = "signal" THEN {t} ELSE {}

HandleSignal ==
  /\ Handling({"sigstop", "signal"})
  /\ sequence' = IF Signals THEN sequence + 1 ELSE sequence
  /\ emitted' = IF Signals THEN emitted + 1 ELSE emitted
  /\ ResumeAll({cur.tid}, PlainWatch, {}, Deliver(cur.tid))
  /\ Handled
  /\ UNCHANGED <<tasks, pending, tgids, seen, result, history>>

-----------------------------------------------------------------------------
Handle ==
  \/ HandleDeath
  \/ HandleEntry
  \/ HandleExit
  \/ HandleSeccomp
  \/ HandlerFails
  \/ HandleFork
  \/ HandleForkFails
  \/ HandleExec
  \/ HandleSignal

Tracer ==
  \/ \E t \in Tid : Wait(t)
  \/ Handle
  \/ LoopEnds
  \/ Detach
  \/ TracerExit

\* The tracees run as long as they have a tracer.
Tracees ==
  /\ phase # "gone"
  /\ \E t \in Tid : Step(t)
  /\ UNCHANGED <<phase, cur, session, history>>

\* mini-strace has exited.
Exited == phase = "gone" /\ UNCHANGED vars

Next == Tracer \/ Tracees \/ Exited

\* mini-strace is one thread that never gives up its loop; nothing is assumed
\* of the tracees.
Spec == Init /\ [][Next]_vars /\ WF_vars(Tracer)

-----------------------------------------------------------------------------
(* Every session and kernel variable holds a value of its type.             *)
TypeOK ==
  /\ task \in [Tid -> Task]
  /\ news \subseteq Tid
  /\ ran \subseteq Call
  /\ finished \subseteq Call
  /\ phase \in {"loop", "done", "gone"}
  /\ cur \in [tid : Tid, stop : Stops]
  /\ tasks \subseteq Tid
  /\ pending \in [Tid -> Event]
  /\ tgids \in [Tid -> Tid]
  /\ sequence \in Nat
  /\ seen \in [CallNames -> Nat]
  /\ emitted \in Nat
  /\ result \in {"none", "exited", "killed"}
  /\ events \subseteq Completed
  /\ execs \subseteq Call
  /\ announced \subseteq Tid
  /\ swallowed \subseteq Tid

(* Pairing (README.md:71, "by tid, threads and follow-fork do not cross"):  *)
(* an event is completed with the exit of the very call whose entry began   *)
(* it, and belongs to the thread that made that call.                       *)
PairedByThread ==
  \A e \in events : e.entry.call = e.exit /\ e.entry.tid = e.exit.by

(* The "seq" of the output identifies an event: no two events, completed or *)
(* pending, of whatever threads, share one.                                 *)
UniqueSequence ==
  /\ \A e, f \in events : e.entry.seq = f.entry.seq => e = f
  /\ \A e \in events, t \in Tid :
       pending[t] # NoEvent => pending[t].seq # e.entry.seq
  /\ \A t, u \in Tid :
       pending[t] # NoEvent /\ pending[t].seq = pending[u].seq => t = u

(* A call that returned to user mode has been completed as an event, unless *)
(* its exit stop is still to be handled, its thread died there, or one of   *)
(* the thread's stops was swallowed by its parent's fork event.             *)
CallsReported ==
  \A c \in finished :
    \/ \E e \in events : e.exit = c
    \/ \E t \in Tid : task[t].call = c /\ (task[t].stop = "exit" \/ ~Alive(t))
    \/ c.by \in swallowed

(* StateTracker::on_exec has run for every execve that replaced an image    *)
(* and returned, with the same exceptions.                                  *)
ExecsTracked ==
  \A c \in finished \cap ran : c.name = "exec" => c \in execs \/ c.by \in swallowed

(* A call is shown as injected exactly when the kernel did not execute it   *)
(* (injection.cpp: orig_rax = -1 at the entry, the error at the exit).      *)
InjectedNotExecuted ==
  \A e \in events : e.entry.injected <=> e.exit \notin ran

(* Signals go through the tracer: a tracee gets each one that is neither    *)
(* SIGSTOP nor SIGTRAP, once, or is still stopped for it, and never one of  *)
(* those two.  Detaching loses the one the tracee is stopped for, and no    *)
(* other.                                                                   *)
SignalsDelivered ==
  \A t \in Tid \ swallowed :
    /\ Alive(t) =>
         task[t].raised = task[t].got + (IF task[t].stop = "signal" THEN 1 ELSE 0)
    /\ task[t].mode = "free" => task[t].raised \in {task[t].got, task[t].got + 1}

(* Without an event limit the loop ends only when every task it ever put in *)
(* session.tasks is dead, and the exit code it reports is the primary's.    *)
FollowedToEnd ==
  phase = "done" /\ ~LimitReached =>
    /\ \A t \in announced : ~Alive(t)
    /\ result = task[Primary].stop

(* A tracee never stays stopped: whatever its stop, and whoever resumes it, *)
(* it runs on or dies.                                                      *)
StopsServed == \A t \in Tid : Stopped(t) ~> ~Stopped(t)

(* When the last tracee is dead mini-strace terminates, also when           *)
(* session.tasks still holds tids that are no longer there.                 *)
Terminates == (\A t \in Tid : ~Alive(t)) ~> (phase = "gone")

(* With --seccomp-bpf a call of the filter set is reported like without it. *)
FilteredReported ==
  \A c \in finished : c.name \in Filters =>
    \/ \E e \in events : e.exit = c
    \/ \E t \in Tid : task[t].call = c /\ (task[t].stop = "exit" \/ ~Alive(t))
    \/ c.by \in swallowed
=============================================================================
