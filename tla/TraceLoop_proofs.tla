--------------------------- MODULE TraceLoop_proofs ---------------------------
(***************************************************************************)
(* What holds of the event loop for every set of tids, every option and    *)
(* every bound: the type invariant, the uniqueness of sequence numbers,    *)
(* that the loop serves the stop it waited for, and what follows from it   *)
(* for signals, events, injections, execs and the end of the session.      *)
(***************************************************************************)
EXTENDS TraceLoop, TLAPS

(* The kernel's half of TypeOK.                                             *)
KernelOK ==
  /\ task \in [Tid -> Task]
  /\ news \subseteq Tid
  /\ ran \subseteq Call
  /\ finished \subseteq Call

(* The tracer's half of TypeOK.                                             *)
TracerOK ==
  /\ phase \in {"loop", "done", "gone"}
  /\ cur \in [tid : Tid, stop : Stops]
  /\ tasks \subseteq Tid
  /\ pending \in [Tid -> Event]
  /\ tgids \in [Tid -> Tid]
  /\ sequence \in Nat
  /\ seen \in [CallNames -> Nat]
  /\ emitted \in Nat
  /\ result \in {"none", "exited", "killed"}
  /\ events \subseteq Completed
  /\ execs \subseteq Call
  /\ announced \subseteq Tid
  /\ swallowed \subseteq Tid

(* TypeOK is the conjunction of its two halves.                             *)
LEMMA TypeOKSplit == TypeOK <=> KernelOK /\ TracerOK
BY DEF TypeOK, KernelOK, TracerOK

-----------------------------------------------------------------------------
(* The kernel's operators on task records preserve their type.              *)

(* The record of a task that was just born is a task record.                *)
LEMMA FreshType ==
  ASSUME NEW t \in Tid, NEW g \in Tid, NEW pl \in Places, NEW w \in {"syscall", "cont"}
  PROVE  Fresh(t, g, pl, w) \in Task
BY DEF Fresh, Task, Modes, Places, Stops, Call, NoCall

(* A task record that stops or dies stays one.                              *)
LEMMA TaskStopType ==
  ASSUME NEW r \in Task, NEW m \in Modes, NEW s \in Stops
  PROVE  [r EXCEPT !.mode = m, !.stop = s] \in Task
BY DEF Task

(* A task record that the tracer resumes stays one.                         *)
LEMMA TaskResumeType ==
  ASSUME NEW r \in Task, NEW w \in {"syscall", "cont"}, NEW k \in BOOLEAN, NEW g \in Nat
  PROVE  [r EXCEPT !.mode = "running", !.stop = "none", !.watch = w, !.skip = k, !.got = g]
           \in Task
BY DEF Task, Modes, Stops

(* A task record that enters a call stays one.                              *)
LEMMA TaskEntryType ==
  ASSUME NEW r \in Task, NEW pl \in Places, NEW c \in Call, NEW n \in Nat, NEW k \in BOOLEAN
  PROVE  [r EXCEPT !.at = pl, !.call = c, !.n = n, !.skip = k] \in Task
BY DEF Task

(* A task record that execs, its own or a thread's that takes over, is one. *)
LEMMA TaskExecType ==
  ASSUME NEW r \in Task, NEW pl \in Places, NEW m \in Modes, NEW s \in Stops,
         NEW n \in Nat, NEW k \in Nat, NEW l \in Nat
  PROVE  /\ [r EXCEPT !.at = pl, !.mode = m, !.stop = s] \in Task
         /\ [r EXCEPT !.at = pl, !.mode = m, !.stop = s, !.n = n, !.raised = k,
                     !.traps = 0, !.got = l] \in Task
BY DEF Task

(* A task that goes on, stopped or not, keeps the kernel's types.           *)
LEMMA GoOnType ==
  ASSUME KernelOK, NEW t \in Tid, NEW r \in Task, NEW s \in Stops, GoOn(t, r, s)
  PROVE  task' \in [Tid -> Task] /\ news' \subseteq Tid
<1>1. [r EXCEPT !.mode = "stopped", !.stop = s] \in Task
  BY DEF Task, Modes, Stops
<1>2. task' \in [Tid -> Task]
  BY <1>1 DEF GoOn, KernelOK
<1>3. news' \subseteq Tid
  BY DEF GoOn, KernelOK
<1> QED BY <1>2, <1>3

(* The table after some tasks died is a table of task records.              *)
LEMMA DeadType ==
  ASSUME KernelOK, NEW D, NEW fate \in Stops
  PROVE  Dead(D, fate) \in [Tid -> Task]
<1>1. \A u \in Tid : [task[u] EXCEPT !.mode = "zombie", !.stop = fate] \in Task
  <2> TAKE u \in Tid
  <2>1. task[u] \in Task /\ "zombie" \in Modes
    BY DEF KernelOK, Modes
  <2> QED BY <2>1, TaskStopType
<1> QED BY <1>1 DEF Dead, KernelOK

(* The tracer's resume requests keep the kernel's types.                    *)
LEMMA ResumeAllType ==
  ASSUME KernelOK, NEW T, NEW w \in {"syscall", "cont"}, NEW cancel, NEW d,
         ResumeAll(T, w, cancel, d)
  PROVE  KernelOK'
<1>1. \A u \in Tid :
        [task[u] EXCEPT !.mode = "running", !.stop = "none", !.watch = w,
           !.skip = @ \/ u \in cancel,
           !.got = IF u \in d /\ task[u].stop \in {"signal", "sigstop"} THEN @ + 1 ELSE @]
          \in Task
  <2> TAKE u \in Tid
  <2> DEFINE k == task[u].skip \/ u \in cancel
             g == IF u \in d /\ task[u].stop \in {"signal", "sigstop"}
                  THEN task[u].got + 1 ELSE task[u].got
  <2>1. task[u] \in Task
    BY DEF KernelOK
  <2>2. g \in Nat
    BY <2>1 DEF Task
  <2>3. k \in BOOLEAN
    OBVIOUS
  <2>4. [task[u] EXCEPT !.mode = "running", !.stop = "none", !.watch = w,
           !.skip = k, !.got = g] \in Task
    <3> HIDE DEF k, g
    <3> QED BY <2>1, <2>2, <2>3, TaskResumeType
  <2> QED BY <2>4
<1>2. task' \in [Tid -> Task]
  BY <1>1 DEF ResumeAll, KernelOK
<1> QED BY <1>2 DEF ResumeAll, KernelOK

-----------------------------------------------------------------------------
(* Every step of a tracee preserves the kernel's types.                     *)
LEMMA StepType ==
  ASSUME KernelOK, NEW t \in Tid, Step(t)
  PROVE  KernelOK'
<1>0. task[t] \in Task /\ task[t].call \in Call /\ task[t].tgid \in Tid
  BY DEF KernelOK, Task
<1>1. ASSUME NEW c \in Names, EnterCall(t, c) PROVE KernelOK'
  <2> DEFINE id == [by |-> t, n |-> task[t].n + 1, name |-> c]
             r == [task[t] EXCEPT !.at = "sys", !.call = id, !.n = @ + 1, !.skip = FALSE]
  <2>1. r \in Task
    <3>1. id \in Call
      BY <1>0, KernelAssumption DEF Call, Task, CallNames
    <3>2. task[t].n + 1 \in Nat /\ "sys" \in Places
      BY <1>0 DEF Task, Places
    <3> HIDE DEF id
    <3> QED BY <1>0, <3>1, <3>2, TaskEntryType
  <2>2. EntryStop(t, c) \in Stops
    BY DEF EntryStop, Stops
  <2>3. GoOn(t, r, EntryStop(t, c)) /\ UNCHANGED <<ran, finished>>
    BY <1>1 DEF EnterCall
  <2>4. task' \in [Tid -> Task] /\ news' \subseteq Tid
    BY <2>1, <2>2, <2>3, GoOnType
  <2> QED BY <2>3, <2>4 DEF KernelOK
<1>2. ASSUME SkipCall(t) \/ RaiseFork(t) \/ FirstStop(t) \/ RaiseSignal(t) \/ LeaveCall(t)
               \/ RunIo(t)
      PROVE  KernelOK'
  <2>1. PICK r \in Task, s \in Stops : GoOn(t, r, s)
    <3>1. \A pl \in Places : [task[t] EXCEPT !.at = pl] \in Task
      BY <1>0 DEF Task
    <3>2. /\ [task[t] EXCEPT !.raised = @ + 1] \in Task
          /\ [task[t] EXCEPT !.traps = @ + 1] \in Task
      BY <1>0 DEF Task
    <3>3. CASE SkipCall(t)
      BY <3>1, <3>3 DEF SkipCall, Places, Stops
    <3>4. CASE RaiseFork(t)
      BY <3>1, <3>4 DEF RaiseFork, Places, Stops
    <3>5. CASE FirstStop(t)
      BY <3>1, <3>5 DEF FirstStop, Places, Stops
    <3>6. CASE RaiseSignal(t)
      BY <3>2, <3>6 DEF RaiseSignal, Stops
    <3>7. CASE LeaveCall(t)
      BY <3>1, <3>7 DEF LeaveCall, Places, Stops
    <3>8. CASE RunIo(t)
      BY <3>1, <3>8 DEF RunIo, Places, Stops
    <3> QED BY <1>2, <3>3, <3>4, <3>5, <3>6, <3>7, <3>8
  <2>2. task' \in [Tid -> Task] /\ news' \subseteq Tid
    BY <2>1, GoOnType
  <2>3. ran' \subseteq Call /\ finished' \subseteq Call
    BY <1>0, <1>2
    DEF SkipCall, RaiseFork, FirstStop, RaiseSignal, LeaveCall, RunIo, Runs, KernelOK
  <2> QED BY <2>2, <2>3 DEF KernelOK
<1>3. ASSUME NEW c \in {"fork", "clone"}, NEW ch \in Tid, RunFork(t, c, ch) PROVE KernelOK'
  <2>1. [task[t] EXCEPT !.at = "forked", !.child = ch] \in Task
    BY <1>0 DEF Task, Places
  <2>2. Fresh(ch, IF c = "clone" THEN task[t].tgid ELSE ch, "born", PlainWatch) \in Task
    BY <1>0, FreshType DEF PlainWatch, Places
  <2>3. task' \in [Tid -> Task]
    BY <1>3, <2>1, <2>2 DEF RunFork, KernelOK
  <2> QED BY <1>0, <1>3, <2>3 DEF RunFork, Runs, KernelOK
<1>4. ASSUME RunExec(t) PROVE KernelOK'
  <2> DEFINE others == {u \in Group(t) \ {t} : Alive(u)}
  <2>1. others \subseteq Tid
    BY DEF Group
  <2>2. Dead(others, "exited") \in [Tid -> Task]
    BY DeadType DEF Stops
  <2>3. \A r \in Task : [r EXCEPT !.at = "leaving", !.mode = "stopped", !.stop = "exec"] \in Task
    BY TaskExecType DEF Places, Modes, Stops
  <2>4. task' = [Dead(others, "exited") EXCEPT
                   ![t] = [@ EXCEPT !.at = "leaving", !.mode = "stopped", !.stop = "exec"]]
    BY <1>4 DEF RunExec
  <2>5. task' \in [Tid -> Task]
    <3> HIDE DEF others
    <3> QED BY <2>2, <2>3, <2>4
  <2>6. news' \subseteq Tid
    BY <1>4, <2>1 DEF RunExec, KernelOK
  <2> QED BY <1>0, <1>4, <2>5, <2>6 DEF RunExec, Runs, KernelOK
<1>5. ASSUME RunThreadExec(t) PROVE KernelOK'
  <2> DEFINE g == task[t].tgid
             others == {u \in Group(g) \ {t, g} : Alive(u)}
             new == [task[t] EXCEPT !.at = "leaving", !.mode = "stopped", !.stop = "exec",
                                    !.n = MaxCalls, !.raised = MaxSignals,
                                    !.traps = 0, !.got = MaxSignals]
  <2>1. others \subseteq Tid
    BY DEF Group
  <2>2. Dead(others, "exited") \in [Tid -> Task]
    BY DeadType DEF Stops
  <2>3. new \in Task
    <3>1. "leaving" \in Places /\ "stopped" \in Modes /\ "exec" \in Stops
      BY DEF Places, Modes, Stops
    <3>2. task[t] \in Task /\ MaxCalls \in Nat /\ MaxSignals \in Nat
      BY <1>0, KernelAssumption
    <3> QED BY <3>1, <3>2, TaskExecType
  <2>4. \A r \in Task : [r EXCEPT !.mode = "reaped"] \in Task
    BY DEF Task, Modes
  <2>5. task' = [Dead(others, "exited") EXCEPT ![g] = new, ![t] = [@ EXCEPT !.mode = "reaped"]]
    BY <1>5 DEF RunThreadExec
  <2>6. task' \in [Tid -> Task]
    <3> HIDE DEF others, new
    <3> QED BY <1>0, <2>2, <2>3, <2>4, <2>5
  <2>7. news' \subseteq Tid
    BY <1>0, <1>5, <2>1 DEF RunThreadExec, KernelOK
  <2> QED BY <1>0, <1>5, <2>6, <2>7 DEF RunThreadExec, Runs, KernelOK
<1>6. ASSUME NEW D \in SUBSET Tid, NEW fate \in Stops,
             task' = Dead(D, fate), news' = news \cup D
      PROVE  task' \in [Tid -> Task] /\ news' \subseteq Tid
  BY <1>6, DeadType DEF KernelOK
<1>7. ASSUME RunExit(t) PROVE KernelOK'
  <2>1. task' \in [Tid -> Task] /\ news' \subseteq Tid
    BY <1>6, <1>7 DEF RunExit, Stops
  <2> QED BY <1>0, <1>7, <2>1 DEF RunExit, Runs, KernelOK
<1>8. ASSUME RunExitGroup(t) PROVE KernelOK'
  <2> DEFINE dying == {u \in Group(task[t].tgid) : Alive(u)}
  <2>1. dying \in SUBSET Tid
    BY DEF Group
  <2>2. task' \in [Tid -> Task] /\ news' \subseteq Tid
    BY <1>6, <1>8, <2>1 DEF RunExitGroup, Stops
  <2> QED BY <1>0, <1>8, <2>2 DEF RunExitGroup, Runs, KernelOK
<1>9. ASSUME Kill(t) PROVE KernelOK'
  <2> DEFINE dying == {u \in Group(t) : Alive(u)}
  <2>1. dying \in SUBSET Tid
    BY DEF Group
  <2>2. task' \in [Tid -> Task] /\ news' \subseteq Tid
    BY <1>6, <1>9, <2>1 DEF Kill, Stops
  <2> QED BY <1>9, <2>2 DEF Kill, KernelOK
<1> QED
  BY <1>1, <1>2, <1>3, <1>4, <1>5, <1>7, <1>8, <1>9 DEF Step

-----------------------------------------------------------------------------
(* The way tracees are resumed is one the kernel knows.                     *)
LEMMA PlainWatchType == PlainWatch \in {"syscall", "cont"}
BY DEF PlainWatch

(* The inactive pending entry has the type of events.                       *)
LEMMA NoEventType == NoEvent \in Event
BY KernelAssumption DEF NoEvent, Event, NoCall, Call

(* What attach and launch set up has the right types.                       *)
LEMMA InitType == Init => TypeOK
<1> SUFFICES ASSUME Init PROVE TypeOK
  OBVIOUS
<1>1. task \in [Tid -> Task]
  <2>1. \A t \in Tid : Fresh(t, t, "user", PlainWatch) \in Task
                       /\ Fresh(t, t, "born", PlainWatch) \in Task
    BY FreshType, PlainWatchType DEF Places
  <2>2. \A r \in Task : [r EXCEPT !.mode = "none"] \in Task
    BY DEF Task, Modes
  <2> QED BY <2>1, <2>2 DEF Init, KernelInit
<1>2. cur \in [tid : Tid, stop : Stops]
  BY KernelAssumption DEF Init, NoStop, Stops
<1>3. pending \in [Tid -> Event]
  BY NoEventType DEF Init
<1> QED BY <1>1, <1>2, <1>3, KernelAssumption DEF Init, KernelInit, TypeOK

(* An entry event has the type of events.                                   *)
LEMMA EntryEventType ==
  ASSUME KernelOK, TracerOK, NEW t \in Tid
  PROVE  EntryEvent(t) \in Event
<1>1. task[t].call \in Call /\ tgids[t] \in Tid /\ sequence + 1 \in Nat
  BY DEF KernelOK, TracerOK, Task
<1>2. Injects(task[t].call.name) \in BOOLEAN
  BY DEF Injects
<1> QED BY <1>1, <1>2 DEF EntryEvent, Event

(* begin_syscall keeps every type.                                          *)
LEMMA BeginType ==
  ASSUME KernelOK, TracerOK, NEW t \in Tid, NEW w \in {"syscall", "cont"},
         BeginSyscall(t, w), cur' = NoStop, phase' = phase
  PROVE  TypeOK'
<1>1. KernelOK'
  BY ResumeAllType DEF BeginSyscall
<1>2. cur' \in [tid : Tid, stop : Stops]
  BY KernelAssumption DEF NoStop, Stops
<1>3. pending' \in [Tid -> Event]
  BY EntryEventType DEF BeginSyscall, TracerOK
<1>4. seen' \in [CallNames -> Nat]
  <2> DEFINE c == task[t].call.name
  <2>1. seen \in [CallNames -> Nat]
    BY DEF TracerOK
  <2>2. c \in CallNames => seen[c] + 1 \in Nat
    BY <2>1
  <2>3. seen' = [seen EXCEPT ![c] = seen[c] + 1] \/ seen' = seen
    BY DEF BeginSyscall
  <2> HIDE DEF c
  <2> QED BY <2>1, <2>2, <2>3
<1>5. sequence' \in Nat
  BY DEF BeginSyscall, SequenceAfter, TracerOK
<1>6. TracerOK'
  <2>1. UNCHANGED <<tasks, tgids, emitted, result, events, execs, announced, swallowed>>
    BY DEF BeginSyscall, history
  <2> QED BY <1>2, <1>3, <1>4, <1>5, <2>1 DEF TracerOK
<1> QED BY <1>1, <1>6 DEF TypeOK, KernelOK, TracerOK

(* Every step of the tracer preserves TypeOK.                               *)
LEMMA TracerType ==
  ASSUME TypeOK, Tracer
  PROVE  TypeOK'
<1>0. KernelOK /\ TracerOK
  BY TypeOKSplit
<1>1. cur.tid \in Tid /\ cur.stop \in Stops
  BY <1>0 DEF TracerOK
<1>2. NoStop \in [tid : Tid, stop : Stops]
  BY KernelAssumption DEF NoStop, Stops
<1>3. ASSUME NEW t \in Tid, Wait(t) PROVE TypeOK'
  <2>1. task[t] \in Task /\ task[t].stop \in Stops
    BY <1>0 DEF KernelOK, Task
  <2>2. [task[t] EXCEPT !.mode = "reaped"] \in Task
    BY <2>1 DEF Task, Modes
  <2>3. task' \in [Tid -> Task] /\ news' \subseteq Tid
    BY <1>0, <1>3, <2>2 DEF Wait, KernelOK
  <2>4. cur' \in [tid : Tid, stop : Stops]
    BY <1>3, <2>1 DEF Wait
  <2> QED BY <1>3, <2>3, <2>4 DEF Wait, TypeOK, session, history
<1>4. ASSUME LoopEnds PROVE TypeOK'
  BY <1>4 DEF LoopEnds, TypeOK, kernel, session, history
<1>5. ASSUME Detach PROVE TypeOK'
  <2>1. \A r \in Task : [r EXCEPT !.mode = "free", !.stop = "none"] \in Task
    BY TaskStopType DEF Modes, Stops
  <2>2. task' \in [Tid -> Task] /\ news' \subseteq Tid
    BY <1>0, <1>5, <2>1 DEF Detach, KernelOK
  <2> QED BY <1>5, <2>2 DEF Detach, TypeOK, session, history
<1>6. ASSUME TracerExit PROVE TypeOK'
  <2>1. task' \in [Tid -> Task]
    BY <1>0, <1>6, DeadType DEF TracerExit, Stops
  <2> QED BY <1>6, <2>1 DEF TracerExit, TypeOK, session, history
<1>7. ASSUME HandleDeath PROVE TypeOK'
  <2>1. cur.tid \in Tid /\ cur.stop \in {"exited", "killed"} /\ tasks \ {cur.tid} \subseteq Tid
    BY <1>0, <1>1, <1>7 DEF HandleDeath, Handling, TracerOK
  <2>2. pending' \in [Tid -> Event] /\ tgids' \in [Tid -> Tid]
    BY <1>0, <1>7, <2>1, NoEventType DEF HandleDeath, TracerOK
  <2>3. sequence' \in Nat /\ emitted' \in Nat /\ result' \in {"none", "exited", "killed"}
    BY <1>0, <1>7, <2>1 DEF HandleDeath, TracerOK
  <2>4. TracerOK'
    BY <1>0, <1>2, <1>7, <2>1, <2>2, <2>3
    DEF HandleDeath, Handled, EraseTask, TracerOK, history
  <2>5. KernelOK'
    BY <1>0, <1>7 DEF HandleDeath, KernelOK, kernel
  <2> QED BY <2>4, <2>5 DEF TypeOK, KernelOK, TracerOK
<1>8. ASSUME HandleEntry PROVE TypeOK'
  BY <1>0, <1>1, <1>8, BeginType, PlainWatchType
  DEF HandleEntry, BeginSyscall, Handled
<1>9. ASSUME HandleSeccomp PROVE TypeOK'
  BY <1>0, <1>1, <1>9, BeginType DEF HandleSeccomp, BeginSyscall, Handled
<1>10. ASSUME HandleExit PROVE TypeOK'
  <2> DEFINE t == cur.tid
             done == [entry |-> pending[t], exit |-> task[t].call,
                      shown |-> PassesFilter(pending[t].call.name)]
  <2>1. KernelOK'
    BY <1>0, <1>10, ResumeAllType, PlainWatchType DEF HandleExit, CompleteSyscall, Resume
  <2>2. done \in Completed
    <3>1. pending[t] \in Event /\ task[t].call \in Call
      BY <1>0, <1>1 DEF KernelOK, TracerOK, Task
    <3>2. PassesFilter(pending[t].call.name) \in BOOLEAN
      BY DEF PassesFilter
    <3> QED BY <3>1, <3>2 DEF Completed
  <2>3. events' \subseteq Completed /\ emitted' \in Nat
    BY <1>0, <1>10, <2>2 DEF HandleExit, CompleteSyscall, TracerOK
  <2>4. pending' \in [Tid -> Event]
    BY <1>0, <1>10, NoEventType DEF HandleExit, CompleteSyscall, TracerOK
  <2>5. TracerOK'
    BY <1>0, <1>2, <1>10, <2>3, <2>4 DEF HandleExit, CompleteSyscall, Handled, TracerOK
  <2> QED BY <2>1, <2>5 DEF TypeOK, KernelOK, TracerOK
<1>11. ASSUME HandlerFails PROVE TypeOK'
  <2>1. KernelOK'
    BY <1>0, <1>11, ResumeAllType, PlainWatchType DEF HandlerFails, Resume
  <2> QED BY <1>2, <1>11, <2>1 DEF HandlerFails, Handled, TypeOK, KernelOK, session, history
<1>12. ASSUME HandleFork PROVE TypeOK'
  <2> DEFINE t == cur.tid
             ch == task[t].child
  <2>1. KernelOK'
    BY <1>0, <1>12, ResumeAllType, PlainWatchType DEF HandleFork
  <2>2. ch \in Tid
    BY <1>0, <1>1 DEF KernelOK, Task
  <2>3. ChildTgid(t, ch) \in Tid
    BY <1>0, <1>1, <2>2 DEF ChildTgid, KernelOK, TracerOK, Task
  <2>4. tgids' \in [Tid -> Tid]
    BY <1>0, <1>12, <2>3 DEF HandleFork, TracerOK
  <2>5. TracerOK'
    BY <1>0, <1>2, <1>12, <2>2, <2>4 DEF HandleFork, Handled, TracerOK
  <2> QED BY <2>1, <2>5 DEF TypeOK, KernelOK, TracerOK
<1>13. ASSUME HandleForkFails PROVE TypeOK'
  BY <1>2, <1>13 DEF HandleForkFails, Handled, TypeOK, kernel, session, history
<1>14. ASSUME HandleExec PROVE TypeOK'
  <2>1. KernelOK'
    BY <1>0, <1>14, ResumeAllType, PlainWatchType DEF HandleExec, Resume
  <2>2. task[cur.tid].call \in Call
    BY <1>0, <1>1 DEF KernelOK, Task
  <2>3. TracerOK'
    BY <1>0, <1>2, <1>14, <2>2
    DEF HandleExec, OnExec, PendingAfterExec, Handled, TracerOK
  <2> QED BY <2>1, <2>3 DEF TypeOK, KernelOK, TracerOK
<1>15. ASSUME HandleSignal PROVE TypeOK'
  <2>1. KernelOK'
    BY <1>0, <1>15, ResumeAllType, PlainWatchType DEF HandleSignal
  <2>2. TracerOK'
    BY <1>0, <1>2, <1>15 DEF HandleSignal, Handled, TracerOK, history
  <2> QED BY <2>1, <2>2 DEF TypeOK, KernelOK, TracerOK
<1> QED
  BY <1>3, <1>4, <1>5, <1>6, <1>7, <1>8, <1>9, <1>10, <1>11, <1>12, <1>13, <1>14, <1>15
  DEF Tracer, Handle

(* The type invariant: session and kernel variables keep their types through *)
(* every handler of event_loop and every step of the tracees.                *)
THEOREM TypeCorrect == Spec => []TypeOK
<1>1. Init => TypeOK
  BY InitType
<1>2. TypeOK /\ [Next]_vars => TypeOK'
  <2> SUFFICES ASSUME TypeOK, [Next]_vars PROVE TypeOK'
    OBVIOUS
  <2>1. CASE Tracer
    BY <2>1, TracerType
  <2>2. CASE Tracees
    <3>1. PICK t \in Tid : Step(t)
      BY <2>2 DEF Tracees
    <3>2. KernelOK'
      BY <3>1, StepType, TypeOKSplit
    <3> QED BY <2>2, <3>2 DEF Tracees, TypeOK, KernelOK, session, history
  <2>3. CASE Exited \/ UNCHANGED vars
    BY <2>3 DEF Exited, vars, TypeOK, kernel, session, history
  <2> QED BY <2>1, <2>2, <2>3 DEF Next
<1> QED BY <1>1, <1>2, PTL DEF Spec

-----------------------------------------------------------------------------
(* The strengthening of UniqueSequence that every step preserves: all the   *)
(* numbers in use are at most session.sequence, so the next one is new.     *)
SequenceInv ==
  /\ \A t \in Tid : pending[t].seq <= sequence
  /\ \A t \in Tid : pending[t] # NoEvent => pending[t].seq > 0
  /\ \A e \in events : e.entry.seq <= sequence
  /\ UniqueSequence

(* The inactive pending entry carries number 0, which no event gets.        *)
LEMMA NoEventSeq == NoEvent.seq = 0
BY DEF NoEvent

(* begin_syscall gives its event a number that is not in use.               *)
LEMMA BeginUnique ==
  ASSUME TypeOK, SequenceInv, NEW t \in Tid, NEW w, BeginSyscall(t, w)
  PROVE  SequenceInv'
<1>1. /\ sequence' = sequence + 1
      /\ events' = events
      /\ pending' = [pending EXCEPT ![t] = EntryEvent(t)]
  BY DEF BeginSyscall, SequenceAfter, history
<1>2. EntryEvent(t).seq = sequence + 1
  BY DEF EntryEvent
<1>3. /\ sequence \in Nat
      /\ pending \in [Tid -> Event]
      /\ \A u \in Tid : pending[u].seq \in Nat
      /\ \A e \in events : e.entry.seq \in Nat
  BY DEF TypeOK, Event, Completed
<1>4. \A u \in Tid : pending'[u] = IF u = t THEN EntryEvent(t) ELSE pending[u]
  BY <1>1, <1>3
<1> HIDE DEF BeginSyscall
<1>5. /\ \A u \in Tid : pending'[u].seq <= sequence'
      /\ \A e \in events' : e.entry.seq <= sequence'
  BY <1>1, <1>2, <1>3, <1>4 DEF SequenceInv
<1>6. \A u \in Tid : pending'[u] # NoEvent => pending'[u].seq > 0
  BY <1>2, <1>3, <1>4 DEF SequenceInv
<1>7. \A e, f \in events' : e.entry.seq = f.entry.seq => e = f
  BY <1>1 DEF SequenceInv, UniqueSequence
<1>8. \A e \in events', u \in Tid : pending'[u] # NoEvent => pending'[u].seq # e.entry.seq
  BY <1>1, <1>2, <1>3, <1>4 DEF SequenceInv, UniqueSequence
<1>9. \A u, v \in Tid :
        pending'[u] # NoEvent /\ pending'[u].seq = pending'[v].seq => u = v
  <2> SUFFICES ASSUME NEW u \in Tid, NEW v \in Tid,
                      pending'[u] # NoEvent, pending'[u].seq = pending'[v].seq
               PROVE  u = v
    OBVIOUS
  <2>1. CASE u = t \/ v = t
    BY <2>1, <1>2, <1>3, <1>4 DEF SequenceInv
  <2>2. CASE u # t /\ v # t
    BY <2>2, <1>4 DEF SequenceInv, UniqueSequence
  <2> QED BY <2>1, <2>2
<1> QED BY <1>5, <1>6, <1>7, <1>8, <1>9 DEF SequenceInv, UniqueSequence

(* complete_syscall moves a number from the pending entry to the event.     *)
LEMMA CompleteUnique ==
  ASSUME TypeOK, SequenceInv, NEW t \in Tid, CompleteSyscall(t)
  PROVE  SequenceInv'
<1> DEFINE done == [entry |-> pending[t], exit |-> task[t].call,
                    shown |-> PassesFilter(pending[t].call.name)]
<1>1. /\ sequence' = sequence
      /\ pending' = [pending EXCEPT ![t] = NoEvent]
      /\ \/ events' = events
         \/ pending[t] # NoEvent /\ events' = events \cup {done}
  BY DEF CompleteSyscall
<1>2. /\ sequence \in Nat
      /\ pending \in [Tid -> Event]
      /\ \A u \in Tid : pending[u].seq \in Nat
  BY DEF TypeOK, Event
<1>3. \A u \in Tid : pending'[u] = IF u = t THEN NoEvent ELSE pending[u]
  BY <1>1, <1>2
<1>4. done.entry = pending[t]
  OBVIOUS
<1>5. \A e \in events' : e \in events \/ (pending[t] # NoEvent /\ e = done)
  BY <1>1
<1> HIDE DEF done
<1>6. \A u \in Tid : pending'[u].seq <= sequence'
                     /\ (pending'[u] # NoEvent => pending'[u].seq > 0)
  BY <1>1, <1>2, <1>3, NoEventSeq DEF SequenceInv
<1>7. \A e \in events' : e.entry.seq <= sequence'
  BY <1>1, <1>4, <1>5 DEF SequenceInv
<1>8. \A e, f \in events' : e.entry.seq = f.entry.seq => e = f
  BY <1>4, <1>5 DEF SequenceInv, UniqueSequence
<1>9. \A e \in events', u \in Tid : pending'[u] # NoEvent => pending'[u].seq # e.entry.seq
  BY <1>3, <1>4, <1>5 DEF SequenceInv, UniqueSequence
<1>10. \A u, v \in Tid :
         pending'[u] # NoEvent /\ pending'[u].seq = pending'[v].seq => u = v
  BY <1>2, <1>3, NoEventSeq DEF SequenceInv, UniqueSequence
<1> QED BY <1>6, <1>7, <1>8, <1>9, <1>10 DEF SequenceInv, UniqueSequence

(* The steps that neither begin nor complete a call may number a signal or   *)
(* an exit line, and may forget the pending entry of a dead tid.             *)
LEMMA OtherUnique ==
  ASSUME TypeOK, SequenceInv, events' = events,
         sequence' = sequence \/ sequence' = sequence + 1,
         pending' = pending \/ \E t \in Tid : pending' = [pending EXCEPT ![t] = NoEvent]
  PROVE  SequenceInv'
<1>1. /\ sequence \in Nat
      /\ pending \in [Tid -> Event]
      /\ \A u \in Tid : pending[u].seq \in Nat
      /\ \A e \in events : e.entry.seq \in Nat
  BY DEF TypeOK, Event, Completed
<1>2. \A u \in Tid : pending'[u] \in {pending[u], NoEvent}
  BY <1>1
<1>3. /\ \A u \in Tid : pending'[u].seq <= sequence'
      /\ \A u \in Tid : pending'[u] # NoEvent => pending'[u].seq > 0
      /\ \A e \in events' : e.entry.seq <= sequence'
  BY <1>1, <1>2, NoEventSeq DEF SequenceInv
<1>4. \A e \in events', u \in Tid : pending'[u] # NoEvent => pending'[u].seq # e.entry.seq
  BY <1>2 DEF SequenceInv, UniqueSequence
<1>5. \A u, v \in Tid :
        pending'[u] # NoEvent /\ pending'[u].seq = pending'[v].seq => u = v
  BY <1>2, NoEventSeq DEF SequenceInv, UniqueSequence
<1> QED BY <1>3, <1>4, <1>5 DEF SequenceInv, UniqueSequence

(* No two events that --json prints, whatever their threads, carry the same *)
(* "seq": make_entry_event draws it from one counter that never moves back. *)
THEOREM SequenceUnique == Spec => []UniqueSequence
<1>1. Init => SequenceInv
  BY NoEventSeq DEF Init, SequenceInv, UniqueSequence
<1>2. TypeOK /\ SequenceInv /\ [Next]_vars => SequenceInv'
  <2> SUFFICES ASSUME TypeOK, SequenceInv, [Next]_vars PROVE SequenceInv'
    OBVIOUS
  <2>1. cur.tid \in Tid
    BY DEF TypeOK
  <2>2. CASE HandleEntry
    BY <2>1, <2>2, BeginUnique DEF HandleEntry
  <2>3. CASE HandleSeccomp
    BY <2>1, <2>3, BeginUnique DEF HandleSeccomp
  <2>4. CASE HandleExit
    BY <2>1, <2>4, CompleteUnique DEF HandleExit
  <2>5. CASE HandleDeath
    BY <2>1, <2>5, OtherUnique DEF HandleDeath, history
  <2>6. CASE HandleSignal
    BY <2>6, OtherUnique DEF HandleSignal, history
  <2>7. CASE HandlerFails \/ HandleFork \/ HandleForkFails \/ HandleExec
    BY <2>7, OtherUnique
    DEF HandlerFails, HandleFork, HandleForkFails, HandleExec, PendingAfterExec, session, history
  <2>8. CASE LoopEnds \/ Detach \/ TracerExit \/ \E t \in Tid : Wait(t)
    BY <2>8, OtherUnique DEF LoopEnds, Detach, TracerExit, Wait, session, history
  <2>9. CASE Tracees \/ Exited \/ UNCHANGED vars
    BY <2>9, OtherUnique DEF Tracees, Exited, vars, session, history
  <2> QED
    BY <2>2, <2>3, <2>4, <2>5, <2>6, <2>7, <2>8, <2>9 DEF Next, Tracer, Handle
<1>3. SequenceInv => UniqueSequence
  BY DEF SequenceInv
<1> QED BY <1>1, <1>2, <1>3, TypeCorrect, PTL DEF Spec

-----------------------------------------------------------------------------
(* The stop that waitpid returned still stands when its handler runs.       *)

(* The stops of a traced task, and the ends of one.                         *)
TraceStops == {"entry", "exit", "seccomp", "fork", "clone", "exec", "sigstop", "signal"}
Fates == {"exited", "killed"}

(* A task has a reason to be stopped exactly when it is.                    *)
StopOfMode ==
  \A t \in Tid :
    /\ task[t].mode \in {"none", "running", "free"} => task[t].stop = "none"
    /\ task[t].mode = "stopped" => task[t].stop \in TraceStops

(* waitpid is still to return a stop, or it is the one being handled.       *)
StopsKnown ==
  \A t \in Tid : /\ Stopped(t) => t \in news \/ (cur # NoStop /\ cur.tid = t)
                 /\ t \in news => task[t].mode \in {"stopped", "zombie", "reaped"}

(* Nothing but its handler resumes the tracee, and only the exec of another *)
(* thread replaces the stop that is handled.                                *)
CurStands ==
  cur # NoStop =>
    /\ task[cur.tid].mode \in {"stopped", "zombie", "reaped"}
    /\ Stopped(cur.tid) => task[cur.tid].stop \in {cur.stop, "exec"}

(* A death that waitpid returned is final.                                  *)
CurDead == cur.stop \in Fates => task[cur.tid].mode = "reaped"

(* The leader of a live thread has not been waited for.                     *)
LeaderLast ==
  \A t \in Tid : Alive(t) =>
    /\ task[task[t].tgid].tgid = task[t].tgid
    /\ task[task[t].tgid].mode \notin {"none", "reaped"}

(* The inductive invariant of the stops and signals.                        *)
StopInv ==
  /\ StopOfMode
  /\ StopsKnown
  /\ CurStands
  /\ CurDead
  /\ LeaderLast
  /\ SignalsDelivered

(* What a step of task t that neither forks nor execs nor ends it leaves.   *)
Goes(t) ==
  \E r \in Task, s \in TraceStops \cup {"none"} :
    /\ GoOn(t, r, s)
    /\ r.mode = "running" /\ r.stop = "none"
    /\ r.tgid = task[t].tgid /\ r.got = task[t].got
    /\ r.raised = task[t].raised + (IF s = "signal" THEN 1 ELSE 0)

(* Dying changes nothing of a task's record but its mode and its stop.      *)
LEMMA DeadFields ==
  ASSUME KernelOK, NEW D, NEW fate, NEW u \in Tid
  PROVE  LET d == Dead(D, fate)
         IN  /\ u \notin D => d[u] = task[u]
             /\ u \in D => d[u].mode = "zombie" /\ d[u].stop = fate
             /\ d[u].at = task[u].at /\ d[u].call = task[u].call /\ d[u].n = task[u].n
             /\ d[u].watch = task[u].watch /\ d[u].tgid = task[u].tgid
             /\ d[u].child = task[u].child /\ d[u].skip = task[u].skip
             /\ d[u].raised = task[u].raised /\ d[u].got = task[u].got
<1>1. task[u] \in Task
  BY DEF KernelOK
<1>2. Dead(D, fate)[u] = IF u \in D THEN [task[u] EXCEPT !.mode = "zombie", !.stop = fate]
                         ELSE task[u]
  BY DEF Dead
<1>3. CASE u \in D
  BY <1>1, <1>2, <1>3 DEF Task
<1>4. CASE u \notin D
  BY <1>2, <1>4
<1> QED BY <1>3, <1>4

(* Every step of a tracee that neither forks nor execs nor ends it is of    *)
(* that shape.                                                              *)
LEMMA RunningGoes ==
  ASSUME KernelOK, StopOfMode, NEW t \in Tid,
         \/ \E c \in Names : EnterCall(t, c)
         \/ SkipCall(t) \/ RunIo(t) \/ RaiseFork(t) \/ FirstStop(t) \/ LeaveCall(t)
         \/ RaiseSignal(t)
  PROVE  Goes(t) /\ task[t].mode = "running"
<1>0. /\ task[t] \in Task /\ task[t].raised \in Nat
      /\ task[t].mode = "running" => task[t].stop = "none"
  BY DEF KernelOK, Task, StopOfMode
<1>1. ASSUME NEW c \in Names, EnterCall(t, c) PROVE Goes(t) /\ task[t].mode = "running"
  <2> DEFINE id == [by |-> t, n |-> task[t].n + 1, name |-> c]
             r == [task[t] EXCEPT !.at = "sys", !.call = id, !.n = @ + 1, !.skip = FALSE]
  <2>1. r \in Task
    <3>1. id \in Call
      BY <1>0, KernelAssumption DEF Call, Task, CallNames
    <3>2. task[t].n + 1 \in Nat /\ "sys" \in Places
      BY <1>0 DEF Task, Places
    <3> HIDE DEF id
    <3> QED BY <1>0, <3>1, <3>2, TaskEntryType
  <2>2. EntryStop(t, c) \in {"entry", "seccomp", "none"}
    BY DEF EntryStop
  <2>3. GoOn(t, r, EntryStop(t, c)) /\ task[t].mode = "running"
    BY <1>1 DEF EnterCall, RunningAt
  <2>4. /\ r.mode = "running" /\ r.stop = "none"
        /\ r.tgid = task[t].tgid /\ r.got = task[t].got /\ r.raised = task[t].raised
    BY <1>0, <2>3 DEF Task
  <2> HIDE DEF r
  <2> QED BY <1>0, <2>1, <2>2, <2>3, <2>4 DEF Goes, TraceStops
<1>2. CASE SkipCall(t) \/ RaiseFork(t) \/ FirstStop(t) \/ LeaveCall(t) \/ RunIo(t)
  <2>1. PICK pl \in Places, s \in (TraceStops \ {"signal"}) \cup {"none"} :
          GoOn(t, [task[t] EXCEPT !.at = pl], s)
    BY <1>2 DEF SkipCall, RaiseFork, FirstStop, LeaveCall, RunIo, Places, TraceStops
  <2>2. task[t].mode = "running"
    BY <1>2 DEF SkipCall, RaiseFork, FirstStop, LeaveCall, RunIo, Runs, RunningAt
  <2> DEFINE r == [task[t] EXCEPT !.at = pl]
  <2>3. /\ r \in Task /\ r.mode = "running" /\ r.stop = "none"
        /\ r.tgid = task[t].tgid /\ r.got = task[t].got /\ r.raised = task[t].raised
    BY <1>0, <2>2 DEF Task
  <2>4. GoOn(t, r, s)
    BY <2>1
  <2> HIDE DEF r
  <2> QED BY <1>0, <2>2, <2>3, <2>4 DEF Goes, TraceStops
<1>3. CASE RaiseSignal(t)
  <2> DEFINE r == [task[t] EXCEPT !.raised = @ + 1]
             q == [task[t] EXCEPT !.traps = @ + 1]
  <2>1. task[t].mode = "running" /\ (GoOn(t, r, "signal") \/ GoOn(t, q, "sigstop"))
    BY <1>3 DEF RaiseSignal, RunningAt
  <2>2. /\ r \in Task /\ r.mode = "running" /\ r.stop = "none"
        /\ r.tgid = task[t].tgid /\ r.got = task[t].got /\ r.raised = task[t].raised + 1
    BY <1>0, <2>1 DEF Task
  <2>3. /\ q \in Task /\ q.mode = "running" /\ q.stop = "none"
        /\ q.tgid = task[t].tgid /\ q.got = task[t].got /\ q.raised = task[t].raised
    BY <1>0, <2>1 DEF Task
  <2> HIDE DEF r, q
  <2> QED BY <1>0, <2>1, <2>2, <2>3 DEF Goes, TraceStops
<1> QED BY <1>1, <1>2, <1>3

(* A step of that shape keeps the invariant: a stop it makes is news.       *)
LEMMA GoesStops ==
  ASSUME KernelOK, StopInv, cur.tid \in Tid, NEW t \in Tid, task[t].mode = "running",
         Goes(t), UNCHANGED <<cur, swallowed>>
  PROVE  StopInv'
<1>0. PICK r \in Task, s \in TraceStops \cup {"none"} :
        /\ GoOn(t, r, s)
        /\ r.mode = "running" /\ r.stop = "none"
        /\ r.tgid = task[t].tgid /\ r.got = task[t].got
        /\ r.raised = task[t].raised + (IF s = "signal" THEN 1 ELSE 0)
  BY DEF Goes
<1>1. /\ task'[t].mode = IF s = "none" THEN "running" ELSE "stopped"
      /\ task'[t].stop = s
      /\ task'[t].tgid = task[t].tgid /\ task'[t].got = task[t].got
      /\ task'[t].raised = task[t].raised + (IF s = "signal" THEN 1 ELSE 0)
      /\ \A u \in Tid \ {t} : task'[u] = task[u]
      /\ news' = IF s = "none" THEN news ELSE news \cup {t}
  BY <1>0 DEF GoOn, KernelOK, Task
<1>2. /\ \A u \in Tid : task[u].tgid \in Tid /\ task'[u].tgid = task[u].tgid
      /\ \A u \in Tid : task[u].raised \in Nat /\ task[u].got \in Nat
  BY <1>1 DEF KernelOK, Task
<1>3. StopOfMode'
  BY <1>1 DEF StopInv, StopOfMode, TraceStops
<1>4. StopsKnown'
  BY <1>1 DEF StopInv, StopsKnown, Stopped
<1>5. CurStands' /\ CurDead'
  BY <1>1 DEF StopInv, CurStands, CurDead, Stopped
<1>6. LeaderLast'
  BY <1>1, <1>2 DEF StopInv, LeaderLast, Alive
<1>7. SignalsDelivered'
  <2> SUFFICES ASSUME NEW u \in Tid, Alive(u)', u \notin swallowed
               PROVE  task'[u].raised = task'[u].got + (IF task'[u].stop = "signal" THEN 1 ELSE 0)
    BY <1>1 DEF StopInv, SignalsDelivered, Alive
  <2>1. Alive(u) /\ (u = t => task[u].stop = "none")
    BY <1>1 DEF Alive, StopInv, StopOfMode
  <2>2. task[u].raised = task[u].got + (IF task[u].stop = "signal" THEN 1 ELSE 0)
    BY <2>1 DEF StopInv, SignalsDelivered
  <2>3. CASE u = t
    BY <1>1, <1>2, <2>1, <2>2, <2>3
  <2>4. CASE u # t
    BY <1>1, <2>2, <2>4
  <2> QED BY <2>3, <2>4
<1> QED BY <1>3, <1>4, <1>5, <1>6, <1>7 DEF StopInv

(* So does a fork, whose child is born running.                             *)
LEMMA ForkStops ==
  ASSUME KernelOK, StopInv, NEW t \in Tid, NEW c \in {"fork", "clone"}, NEW ch \in Tid,
         cur.tid \in Tid, RunFork(t, c, ch), UNCHANGED <<cur, swallowed>>
  PROVE  StopInv'
<1>0. task[t].mode = "running" /\ task[t].stop = "none" /\ ch # t /\ task[ch].mode = "none"
  BY DEF RunFork, Runs, RunningAt, StopInv, StopOfMode
<1>a. task[t] \in Task /\ task \in [Tid -> Task]
  BY DEF KernelOK
<1>b. /\ task'[t] = [task[t] EXCEPT !.at = "forked", !.child = ch]
      /\ task'[ch] = Fresh(ch, IF c = "clone" THEN task[t].tgid ELSE ch, "born", PlainWatch)
      /\ \A u \in Tid \ {t, ch} : task'[u] = task[u]
      /\ news' = news
  BY <1>0, <1>a DEF RunFork
<1>1. /\ task'[t].mode = "running" /\ task'[t].stop = "none"
      /\ task'[t].got = task[t].got /\ task'[t].raised = task[t].raised
      /\ task'[t].tgid = task[t].tgid
      /\ task'[ch].mode = "running" /\ task'[ch].stop = "none"
      /\ task'[ch].got = 0 /\ task'[ch].raised = 0
      /\ task'[ch].tgid \in {ch, task[t].tgid}
      /\ \A u \in Tid \ {t, ch} : task'[u] = task[u]
      /\ news' = news
  BY <1>0, <1>a, <1>b DEF Fresh, Task
<1>2. \A u \in Tid : task[u].tgid \in Tid
  BY DEF KernelOK, Task
<1>3. StopOfMode'
  BY <1>1 DEF StopInv, StopOfMode
<1>4. StopsKnown' /\ CurStands' /\ CurDead'
  BY <1>0, <1>1 DEF StopInv, StopsKnown, CurStands, CurDead, Stopped
<1>5. LeaderLast'
  <2>1. Alive(t)
    BY <1>0 DEF Alive
  <2>2. \A u \in Tid : task'[u].mode = task[u].mode \/ task'[u].mode = "running"
    BY <1>0, <1>1
  <2>3. \A u \in Tid \ {ch} : task'[u].tgid = task[u].tgid
    BY <1>1
  <2>4. \A u \in Tid : Alive(u) => task[u].tgid # ch /\ u # ch
    BY <1>0 DEF StopInv, LeaderLast, Alive
  <2> QED BY <1>0, <1>1, <1>2, <2>1, <2>2, <2>3, <2>4 DEF StopInv, LeaderLast, Alive
<1>6. SignalsDelivered'
  BY <1>0, <1>1 DEF StopInv, SignalsDelivered, Alive
<1> QED BY <1>3, <1>4, <1>5, <1>6 DEF StopInv

(* So does the death of tasks: waitpid will tell of each.                   *)
LEMMA DeadStops ==
  ASSUME KernelOK, StopInv, cur.tid \in Tid, NEW D \in SUBSET {u \in Tid : Alive(u)},
         NEW fate, task' = Dead(D, fate), news \subseteq news', news' \subseteq news \cup D,
         UNCHANGED <<cur, swallowed>>
  PROVE  StopInv'
<1>1. \A u \in Tid :
        IF u \in D THEN /\ task'[u].mode = "zombie" /\ task'[u].stop = fate
                       /\ task'[u].tgid = task[u].tgid
                  ELSE task'[u] = task[u]
  BY DeadFields
<1>2. \A u \in Tid : task[u].tgid \in Tid /\ task'[u].tgid = task[u].tgid
  BY <1>1 DEF KernelOK, Task
<1>3. \A u \in Tid : /\ u \in D => Alive(u) /\ ~Alive(u)' /\ ~Stopped(u)'
                     /\ u \notin D => (Alive(u)' <=> Alive(u)) /\ (Stopped(u)' <=> Stopped(u))
  BY <1>1 DEF Alive, Stopped
<1>4. StopOfMode'
  BY <1>1 DEF StopInv, StopOfMode
<1>5. StopsKnown' /\ CurStands'
  BY <1>1, <1>3 DEF StopInv, StopsKnown, CurStands
<1>6. CurDead'
  BY <1>1, <1>3 DEF StopInv, CurDead, Alive, KernelOK, Task
<1>7. LeaderLast'
  BY <1>1, <1>2, <1>3 DEF StopInv, LeaderLast
<1>8. SignalsDelivered'
  BY <1>1, <1>3 DEF StopInv, SignalsDelivered
<1> QED BY <1>4, <1>5, <1>6, <1>7, <1>8 DEF StopInv

(* So does the exec of a leader, which ends the other threads of its group. *)
LEMMA ExecStops ==
  ASSUME KernelOK, StopInv, cur.tid \in Tid, NEW t \in Tid, RunExec(t),
         UNCHANGED <<cur, swallowed>>
  PROVE  StopInv'
<1> DEFINE others == {u \in Group(t) \ {t} : Alive(u)}
           d == Dead(others, "exited")
<1>0. /\ task[t].mode = "running" /\ task[t].stop = "none" /\ Alive(t) /\ ~Stopped(t)
      /\ task' = [d EXCEPT ![t] = [@ EXCEPT !.at = "leaving", !.mode = "stopped",
                                              !.stop = "exec"]]
      /\ news' = news \cup others \cup {t}
  BY DEF RunExec, Runs, RunningAt, Alive, Stopped, StopInv, StopOfMode
<1>1. /\ others \subseteq Tid
      /\ \A u \in others : Alive(u)
      /\ t \notin others
  BY DEF Group
<1>2. d \in [Tid -> Task]
  BY DeadType DEF Stops
<1>3. \A u \in Tid : /\ u \notin others => d[u] = task[u]
                     /\ u \in others => d[u].mode = "zombie" /\ d[u].stop = "exited"
                     /\ d[u].tgid = task[u].tgid
  BY DeadFields
<1> HIDE DEF others, d
<1>4. /\ task'[t].mode = "stopped" /\ task'[t].stop = "exec"
      /\ task'[t].tgid = task[t].tgid
      /\ task'[t].raised = task[t].raised /\ task'[t].got = task[t].got
      /\ \A u \in others : task'[u].mode = "zombie" /\ task'[u].stop = "exited"
                           /\ task'[u].tgid = task[u].tgid
      /\ \A u \in Tid \ (others \cup {t}) : task'[u] = task[u]
  BY <1>0, <1>1, <1>2, <1>3 DEF Task
<1>5. \A u \in Tid : task[u].tgid \in Tid /\ task'[u].tgid = task[u].tgid
  BY <1>4 DEF KernelOK, Task
<1>6. \A u \in Tid : /\ Alive(u)' => Alive(u)
                     /\ u # t => /\ Alive(u)' => task'[u] = task[u]
                                 /\ Stopped(u)' => Stopped(u)
                                 /\ task[u].mode \in {"zombie", "reaped"} => task'[u] = task[u]
  BY <1>0, <1>1, <1>4 DEF Alive, Stopped
<1>7. StopOfMode'
  BY <1>4 DEF StopInv, StopOfMode, TraceStops
<1>8. StopsKnown'
  BY <1>0, <1>4, <1>6 DEF StopInv, StopsKnown
<1>9. CurStands'
  BY <1>0, <1>4, <1>6 DEF StopInv, CurStands, Stopped
<1>10. CurDead'
  BY <1>0, <1>6 DEF StopInv, CurDead
<1>11. LeaderLast'
  BY <1>4, <1>5, <1>6 DEF StopInv, LeaderLast
<1>12. SignalsDelivered'
  BY <1>0, <1>4, <1>6 DEF StopInv, SignalsDelivered
<1> QED BY <1>7, <1>8, <1>9, <1>10, <1>11, <1>12 DEF StopInv

(* So does the exec of another thread: it takes the identity of its leader, *)
(* whose stop it replaces.                                                  *)
LEMMA ThreadExecStops ==
  ASSUME KernelOK, StopInv, cur.tid \in Tid, NEW t \in Tid, RunThreadExec(t),
         UNCHANGED <<cur, swallowed>>
  PROVE  StopInv'
<1> DEFINE g == task[t].tgid
           others == {u \in Group(g) \ {t, g} : Alive(u)}
           d == Dead(others, "exited")
           new == [task[t] EXCEPT !.at = "leaving", !.mode = "stopped", !.stop = "exec",
                                  !.n = MaxCalls, !.raised = MaxSignals, !.traps = 0,
                                  !.got = MaxSignals]
<1>0. /\ task[t].mode = "running" /\ task[t].stop = "none" /\ Alive(t) /\ ~Stopped(t)
      /\ g \in Tid /\ g # t /\ task[g].tgid = g /\ task[g].mode # "reaped"
  BY DEF RunThreadExec, Runs, RunningAt, Alive, Stopped, StopInv, StopOfMode, LeaderLast,
         KernelOK, Task
<1>a. /\ task' = [d EXCEPT ![g] = new, ![t] = [@ EXCEPT !.mode = "reaped"]]
      /\ news' = (news \cup others \cup {g}) \ {t}
  BY DEF RunThreadExec
<1>1. /\ others \subseteq Tid
      /\ \A u \in others : Alive(u)
      /\ t \notin others /\ g \notin others
  BY DEF Group
<1>2. d \in [Tid -> Task]
  BY DeadType DEF Stops
<1>3. \A u \in Tid : /\ u \notin others => d[u] = task[u]
                     /\ u \in others => d[u].mode = "zombie" /\ d[u].stop = "exited"
                     /\ d[u].tgid = task[u].tgid
  BY DeadFields
<1>4. task[t] \in Task /\ MaxCalls \in Nat /\ MaxSignals \in Nat
  BY KernelAssumption DEF KernelOK
<1>5. /\ new.mode = "stopped" /\ new.stop = "exec" /\ new.tgid = g
      /\ new.raised = MaxSignals /\ new.got = MaxSignals
  BY <1>4 DEF Task
<1> HIDE DEF others, d, new, g
<1>6. /\ task'[g] = new
      /\ task'[t].mode = "reaped" /\ task'[t].stop = task[t].stop
      /\ task'[t].tgid = task[t].tgid
      /\ \A u \in others : task'[u].mode = "zombie" /\ task'[u].stop = "exited"
                           /\ task'[u].tgid = task[u].tgid
      /\ \A u \in Tid \ (others \cup {t, g}) : task'[u] = task[u]
  <2>1. d[t] = task[t] /\ task[t] \in Task
    BY <1>1, <1>3, <1>4
  <2>2. task'[t] = [task[t] EXCEPT !.mode = "reaped"]
    BY <1>0, <1>a, <1>2, <2>1
  <2>3. \A u \in Tid \ {t, g} : task'[u] = d[u]
    BY <1>a, <1>2
  <2>4. task'[g] = new
    BY <1>0, <1>a, <1>2
  <2> QED BY <1>1, <1>3, <2>1, <2>2, <2>3, <2>4 DEF Task
<1>7. \A u \in Tid : task[u].tgid \in Tid /\ task'[u].tgid = task[u].tgid
  <2>1. \A u \in Tid : task[u].tgid \in Tid
    BY DEF KernelOK, Task
  <2> QED BY <1>0, <1>5, <1>6, <2>1
<1>8. ASSUME NEW u \in Tid, u # g
      PROVE  \/ task'[u] = task[u]
             \/ Alive(u) /\ task'[u].mode = "zombie"
             \/ u = t /\ task'[u].mode = "reaped"
  BY <1>1, <1>6, <1>8
<1>9. StopOfMode'
  BY <1>5, <1>6 DEF StopInv, StopOfMode, TraceStops
<1>10. StopsKnown'
  <2>1. \A u \in others : u # t /\ u # g
    BY <1>1
  <2>2. \A u \in news' : u # t /\ (u \in news \/ u \in others \/ u = g)
    BY <1>a
  <2>3. ASSUME NEW u \in Tid, u \in news'
        PROVE  task'[u].mode \in {"stopped", "zombie", "reaped"}
    <3>1. CASE u = g
      BY <1>5, <1>6, <3>1
    <3>2. CASE u \in others
      BY <1>6, <3>2
    <3>3. CASE u \in news /\ u # g
      BY <1>8, <2>2, <2>3, <3>3 DEF StopInv, StopsKnown
    <3> QED BY <2>2, <2>3, <3>1, <3>2, <3>3
  <2>4. \A u \in Tid : Stopped(u)' => u \in news' \/ (cur # NoStop /\ cur.tid = u)
    <3> SUFFICES ASSUME NEW u \in Tid, Stopped(u)'
                 PROVE  u \in news' \/ (cur # NoStop /\ cur.tid = u)
      OBVIOUS
    <3>1. u # t
      BY <1>6 DEF Stopped
    <3>2. CASE u = g
      BY <1>0, <1>a, <3>2
    <3>3. CASE u # g
      <4>1. Stopped(u)
        BY <1>8, <3>1, <3>3 DEF Stopped
      <4> QED BY <1>a, <3>1, <4>1 DEF StopInv, StopsKnown
    <3> QED BY <3>2, <3>3
  <2> QED BY <2>3, <2>4 DEF StopsKnown
<1>11. CurStands'
  <2>1. CASE cur.tid = g
    BY <1>5, <1>6, <2>1 DEF CurStands, Stopped
  <2>2. CASE cur.tid # g
    BY <1>0, <1>8, <2>2 DEF StopInv, CurStands, Stopped, Alive
  <2> QED BY <2>1, <2>2
<1>12. CurDead'
  BY <1>0, <1>8 DEF StopInv, CurDead, Alive
<1>13. LeaderLast'
  <2> SUFFICES ASSUME NEW u \in Tid, Alive(u)'
               PROVE  /\ task'[task'[u].tgid].tgid = task'[u].tgid
                      /\ task'[task'[u].tgid].mode \notin {"none", "reaped"}
    BY DEF LeaderLast
  <2>1. CASE u = g
    BY <1>0, <1>5, <1>6, <2>1
  <2>2. CASE u # g
    <3> DEFINE l == task[u].tgid
    <3>1. Alive(u) /\ l \in Tid
      BY <1>7, <1>8, <2>2 DEF Alive
    <3>2. task[l].tgid = l /\ task[l].mode \notin {"none", "reaped"}
      BY <3>1 DEF StopInv, LeaderLast
    <3>3. l # t
      BY <1>0, <3>2 DEF g
    <3>4. task'[l].mode \notin {"none", "reaped"}
      BY <1>5, <1>6, <1>8, <3>1, <3>2, <3>3
    <3>5. task'[u].tgid = l /\ task'[l].tgid = l
      BY <1>7, <3>1, <3>2
    <3> HIDE DEF l
    <3> QED BY <3>4, <3>5
  <2> QED BY <2>1, <2>2
<1>14. SignalsDelivered'
  <2> SUFFICES ASSUME NEW u \in Tid, Alive(u)', u \notin swallowed
               PROVE  task'[u].raised = task'[u].got + (IF task'[u].stop = "signal" THEN 1 ELSE 0)
    BY <1>5, <1>6, <1>8 DEF StopInv, SignalsDelivered
  <2>1. CASE u = g
    BY <1>4, <1>5, <1>6, <2>1
  <2>2. CASE u # g
    BY <1>8, <2>2 DEF StopInv, SignalsDelivered, Alive
  <2> QED BY <2>1, <2>2
<1> QED BY <1>9, <1>10, <1>11, <1>12, <1>13, <1>14 DEF StopInv

(* Whatever a tracee does, the stop being handled stands.                   *)
LEMMA StepStops ==
  ASSUME KernelOK, StopInv, cur.tid \in Tid, NEW t \in Tid, Step(t),
         UNCHANGED <<cur, swallowed>>
  PROVE  StopInv'
<1>1. CASE \/ \E c \in Names : EnterCall(t, c)
           \/ SkipCall(t) \/ RunIo(t) \/ RaiseFork(t) \/ FirstStop(t) \/ LeaveCall(t)
           \/ RaiseSignal(t)
  BY <1>1, RunningGoes, GoesStops DEF StopInv
<1>2. CASE \E c \in {"fork", "clone"}, ch \in Tid : RunFork(t, c, ch)
  BY <1>2, ForkStops
<1>3. CASE RunExec(t)
  BY <1>3, ExecStops
<1>4. CASE RunThreadExec(t)
  BY <1>4, ThreadExecStops
<1>5. CASE RunExit(t)
  <2>1. {t} \in SUBSET {u \in Tid : Alive(u)}
    BY <1>5 DEF RunExit, Runs, RunningAt, Alive
  <2> QED BY <1>5, <2>1, DeadStops DEF RunExit
<1>6. CASE RunExitGroup(t)
  <2> DEFINE dying == {u \in Group(task[t].tgid) : Alive(u)}
  <2>1. dying \in SUBSET {u \in Tid : Alive(u)}
    BY DEF Group
  <2>2. task' = Dead(dying, "exited") /\ news' = news \cup dying
    BY <1>6 DEF RunExitGroup
  <2> HIDE DEF dying
  <2> QED BY <2>1, <2>2, DeadStops
<1>7. CASE Kill(t)
  <2> DEFINE dying == {u \in Group(t) : Alive(u)}
  <2>1. dying \in SUBSET {u \in Tid : Alive(u)}
    BY DEF Group
  <2>2. task' = Dead(dying, "killed") /\ news' = news \cup dying
    BY <1>7 DEF Kill
  <2> HIDE DEF dying
  <2> QED BY <2>1, <2>2, DeadStops
<1> QED BY <1>1, <1>2, <1>3, <1>4, <1>5, <1>6, <1>7 DEF Step

(* What the resume requests change of the tasks' records.                   *)
LEMMA ResumeFields ==
  ASSUME KernelOK, NEW T, NEW w, NEW cancel, NEW d, ResumeAll(T, w, cancel, d), NEW u \in Tid
  PROVE  /\ ~(u \in T /\ Stopped(u)) => task'[u] = task[u]
         /\ u \in T /\ Stopped(u) =>
              /\ task'[u].mode = "running" /\ task'[u].stop = "none" /\ task'[u].watch = w
              /\ task'[u].skip = (task[u].skip \/ u \in cancel)
              /\ task'[u].got = IF u \in d /\ task[u].stop \in {"signal", "sigstop"}
                                THEN task[u].got + 1 ELSE task[u].got
         /\ task'[u].at = task[u].at /\ task'[u].call = task[u].call
         /\ task'[u].n = task[u].n /\ task'[u].tgid = task[u].tgid
         /\ task'[u].child = task[u].child /\ task'[u].raised = task[u].raised
         /\ u \in news' <=> u \in news /\ ~(u \in T /\ Stopped(u))
<1>1. task[u] \in Task
  BY DEF KernelOK
<1>2. CASE u \in T /\ Stopped(u)
  <2>1. task'[u] = [task[u] EXCEPT !.mode = "running", !.stop = "none", !.watch = w,
             !.skip = @ \/ u \in cancel,
             !.got = IF u \in d /\ task[u].stop \in {"signal", "sigstop"} THEN @ + 1 ELSE @]
    BY <1>2 DEF ResumeAll
  <2>2. u \in news' <=> u \in news /\ ~(u \in T /\ Stopped(u))
    BY <1>2 DEF ResumeAll
  <2> QED BY <1>1, <1>2, <2>1, <2>2 DEF Task
<1>3. CASE ~(u \in T /\ Stopped(u))
  BY <1>3 DEF ResumeAll
<1> QED BY <1>2, <1>3

(* A handler that resumes the stopped task, delivers its signal if it is    *)
(* stopped for one to be delivered, and for no other, and records whose     *)
(* stop it swallows, serves the stop.                                       *)
LEMMA HandledStops ==
  ASSUME KernelOK, StopInv, cur.tid \in Tid, cur # NoStop, cur' = NoStop,
         NEW T, cur.tid \in T, NEW w, NEW cancel, NEW d, ResumeAll(T, w, cancel, d),
         swallowed \subseteq swallowed',
         \A u \in T : Stopped(u) /\ task[u].stop = "signal" => u \in d \/ u \in swallowed',
         \A u \in T : Stopped(u) /\ task[u].stop = "sigstop" => u \notin d
  PROVE  StopInv'
<1>1. \A u \in Tid :
         /\ ~(u \in T /\ Stopped(u)) => task'[u] = task[u]
         /\ u \in T /\ Stopped(u) =>
              /\ task'[u].mode = "running" /\ task'[u].stop = "none"
              /\ task'[u].got = IF u \in d /\ task[u].stop \in {"signal", "sigstop"}
                                THEN task[u].got + 1 ELSE task[u].got
         /\ task'[u].tgid = task[u].tgid /\ task'[u].raised = task[u].raised
         /\ u \in news' <=> u \in news /\ ~(u \in T /\ Stopped(u))
  BY ResumeFields
<1>2. \A u \in Tid : task[u].tgid \in Tid /\ task[u].raised \in Nat /\ task[u].got \in Nat
  BY DEF KernelOK, Task
<1>3. StopOfMode'
  BY <1>1 DEF StopInv, StopOfMode
<1>4. StopsKnown'
  BY <1>1 DEF StopInv, StopsKnown, Stopped
<1>5. CurStands' /\ CurDead'
  BY DEF CurStands, CurDead, NoStop, Fates
<1>6. LeaderLast'
  <2>1. \A u \in Tid : /\ Alive(u)' => Alive(u)
                       /\ task'[u].mode = task[u].mode \/ task'[u].mode = "running"
    BY <1>1 DEF Alive, Stopped
  <2> QED BY <1>1, <1>2, <2>1 DEF StopInv, LeaderLast
<1>7. SignalsDelivered'
  <2> SUFFICES ASSUME NEW u \in Tid, Alive(u)', u \notin swallowed'
               PROVE  task'[u].raised = task'[u].got + (IF task'[u].stop = "signal" THEN 1 ELSE 0)
    BY <1>1 DEF StopInv, SignalsDelivered
  <2>1. Alive(u)
    BY <1>1 DEF Alive, Stopped
  <2>2. task[u].raised = task[u].got + (IF task[u].stop = "signal" THEN 1 ELSE 0)
    BY <2>1 DEF StopInv, SignalsDelivered
  <2>3. CASE u \in T /\ Stopped(u)
    BY <1>1, <1>2, <2>2, <2>3
  <2>4. CASE ~(u \in T /\ Stopped(u))
    BY <1>1, <2>2, <2>4
  <2> QED BY <2>3, <2>4
<1> QED BY <1>3, <1>4, <1>5, <1>6, <1>7 DEF StopInv

(* waitpid, the end of the loop and the end of mini-strace.                 *)
LEMMA WaitStops ==
  ASSUME KernelOK, StopInv, NEW t \in Tid, Wait(t)
  PROVE  StopInv'
<1>0. /\ cur = NoStop /\ t \in news
      /\ cur' = [tid |-> t, stop |-> task[t].stop]
      /\ news' = news \ {t}
      /\ swallowed' = swallowed
  BY DEF Wait, LoopHead, Waitable, history
<1>1. \A u \in Tid :
        /\ u # t \/ task[t].mode # "zombie" => task'[u] = task[u]
        /\ u = t /\ task[t].mode = "zombie" => task'[u].mode = "reaped"
        /\ task'[u].stop = task[u].stop /\ task'[u].tgid = task[u].tgid
        /\ task'[u].raised = task[u].raised /\ task'[u].got = task[u].got
  BY DEF Wait, KernelOK, Task
<1>2. \A u \in Tid : /\ task[u].tgid \in Tid
                     /\ Alive(u)' <=> Alive(u)
                     /\ Stopped(u)' <=> Stopped(u)
                     /\ task[u].mode \in {"none", "running", "free"} => task'[u] = task[u]
  BY <1>1 DEF KernelOK, Task, Alive, Stopped
<1>3. task[t].mode \in {"stopped", "zombie", "reaped"} /\ (Stopped(t) => task[t].stop # "none")
  BY <1>0 DEF StopInv, StopsKnown, StopOfMode, TraceStops, Stopped
<1>4. StopOfMode'
  BY <1>1, <1>2 DEF StopInv, StopOfMode, Stopped
<1>5. StopsKnown'
  <2>1. Stopped(t) => cur' # NoStop /\ cur'.tid = t
    BY <1>0, <1>3 DEF NoStop
  <2> QED BY <1>0, <1>1, <1>2, <2>1 DEF StopInv, StopsKnown
<1>6. CurStands'
  BY <1>0, <1>1, <1>2, <1>3 DEF CurStands
<1>7. CurDead'
  <2>1. task[t].stop \in Fates => ~Stopped(t)
    BY DEF StopInv, StopOfMode, TraceStops, Fates, Stopped
  <2> QED BY <1>0, <1>1, <1>3, <2>1 DEF CurDead, Stopped
<1>8. LeaderLast'
  <2> SUFFICES ASSUME NEW u \in Tid, Alive(u)
               PROVE  /\ task'[task[u].tgid].tgid = task[u].tgid
                      /\ task'[task[u].tgid].mode \notin {"none", "reaped"}
    BY <1>1, <1>2 DEF LeaderLast
  <2> DEFINE l == task[u].tgid
  <2>1. l \in Tid /\ task[l].tgid = l /\ task[l].mode \notin {"none", "reaped"}
    BY <1>2 DEF StopInv, LeaderLast
  <2>2. CASE l = t /\ task[t].mode = "zombie"
    <3>1. u # t /\ u \in Group(t)
      BY <2>1, <2>2 DEF Alive, Group
    <3>2. task[u].mode = "reaped"
      BY <2>1, <2>2, <3>1 DEF Wait, Waitable
    <3> QED BY <3>2 DEF Alive
  <2>3. CASE ~(l = t /\ task[t].mode = "zombie")
    BY <1>1, <2>1, <2>3
  <2> QED BY <2>2, <2>3
<1>9. SignalsDelivered'
  BY <1>0, <1>1, <1>2 DEF StopInv, SignalsDelivered
<1> QED BY <1>4, <1>5, <1>6, <1>7, <1>8, <1>9 DEF StopInv

(* What detaching changes of the tasks' records.                            *)
LEMMA DetachFields ==
  ASSUME KernelOK, Detach, NEW u \in Tid
  PROVE  /\ ~(u \in tasks /\ Stopped(u)) => task'[u] = task[u]
         /\ u \in tasks /\ Stopped(u) => task'[u].mode = "free" /\ task'[u].stop = "none"
         /\ task'[u].at = task[u].at /\ task'[u].call = task[u].call
         /\ task'[u].n = task[u].n /\ task'[u].tgid = task[u].tgid
         /\ task'[u].watch = task[u].watch /\ task'[u].child = task[u].child
         /\ task'[u].raised = task[u].raised /\ task'[u].got = task[u].got
<1>1. task[u] \in Task
  BY DEF KernelOK
<1>2. CASE u \in tasks /\ Stopped(u)
  <2>1. task'[u] = [task[u] EXCEPT !.mode = "free", !.stop = "none"]
    BY <1>2 DEF Detach
  <2> QED BY <1>1, <1>2, <2>1 DEF Task
<1>3. CASE ~(u \in tasks /\ Stopped(u))
  BY <1>3 DEF Detach
<1> QED BY <1>2, <1>3

(* detach_all runs when no stop is handled; who is let go is news no        *)
(* longer.                                                                  *)
LEMMA DetachStops ==
  ASSUME KernelOK, StopInv, Detach
  PROVE  StopInv'
<1>0. /\ cur = NoStop /\ cur' = NoStop /\ swallowed' = swallowed
      /\ \A u \in Tid : u \in news' <=> u \in news /\ ~(u \in tasks /\ Stopped(u))
  BY DEF Detach, LoopHead, history, KernelOK
<1>1. \A u \in Tid :
        /\ ~(u \in tasks /\ Stopped(u)) => task'[u] = task[u]
        /\ u \in tasks /\ Stopped(u) => task'[u].mode = "free" /\ task'[u].stop = "none"
        /\ task'[u].tgid = task[u].tgid
        /\ task'[u].raised = task[u].raised /\ task'[u].got = task[u].got
  BY DetachFields
<1>2. \A u \in Tid : /\ task[u].tgid \in Tid
                     /\ Alive(u)' => Alive(u) /\ task'[u] = task[u]
                     /\ task'[u].mode \in {task[u].mode, "free"}
  BY <1>1 DEF KernelOK, Task, Alive
<1>3. StopOfMode' /\ StopsKnown'
  BY <1>0, <1>1 DEF StopInv, StopOfMode, StopsKnown, Stopped
<1>4. CurStands' /\ CurDead'
  BY <1>0 DEF CurStands, CurDead, NoStop, Fates
<1>5. LeaderLast'
  BY <1>1, <1>2 DEF StopInv, LeaderLast
<1>6. SignalsDelivered'
  <2> SUFFICES ASSUME NEW u \in Tid \ swallowed
               PROVE  /\ Alive(u)' => task'[u].raised
                            = task'[u].got + (IF task'[u].stop = "signal" THEN 1 ELSE 0)
                      /\ task'[u].mode = "free" =>
                           task'[u].raised \in {task'[u].got, task'[u].got + 1}
    BY <1>0 DEF SignalsDelivered
  <2>1. CASE u \in tasks /\ Stopped(u)
    <3>1. task[u].raised = task[u].got + (IF task[u].stop = "signal" THEN 1 ELSE 0)
      BY <2>1 DEF StopInv, SignalsDelivered, Alive, Stopped
    <3>2. task[u].raised \in Nat /\ task[u].got \in Nat
      BY DEF KernelOK, Task
    <3> QED BY <1>1, <2>1, <3>1, <3>2 DEF Alive
  <2>2. CASE ~(u \in tasks /\ Stopped(u))
    BY <1>1, <2>2 DEF StopInv, SignalsDelivered, Alive
  <2> QED BY <2>1, <2>2
<1> QED BY <1>3, <1>4, <1>5, <1>6 DEF StopInv

(* Every step of the tracer keeps the invariant of the stops.               *)
LEMMA TracerStops ==
  ASSUME TypeOK, StopInv, Tracer
  PROVE  StopInv'
<1>0. KernelOK /\ cur.tid \in Tid
  BY TypeOKSplit DEF TracerOK
<1>1. ASSUME NEW t \in Tid, Wait(t) PROVE StopInv'
  BY <1>0, <1>1, WaitStops
<1>2. CASE LoopEnds
  BY <1>2 DEF LoopEnds, kernel, history, StopInv, StopOfMode, StopsKnown, CurStands, CurDead,
         LeaderLast, SignalsDelivered, Alive, Stopped
<1>3. CASE Detach
  BY <1>0, <1>3, DetachStops
<1>4. CASE TracerExit
  BY <1>0, <1>4, DeadStops DEF TracerExit, history
<1>5. CASE HandleDeath \/ HandleForkFails
  <2>1. /\ cur # NoStop /\ ~Stopped(cur.tid) /\ cur' = NoStop
        /\ UNCHANGED <<task, news, swallowed>>
    BY <1>5 DEF HandleDeath, HandleForkFails, Handling, Handled, kernel, history,
           StopInv, CurDead, Fates, Stopped
  <2>2. StopsKnown'
    BY <2>1 DEF StopInv, StopsKnown, Stopped
  <2>3. CurStands' /\ CurDead'
    BY <2>1 DEF CurStands, CurDead, NoStop, Fates
  <2> QED BY <2>1, <2>2, <2>3 DEF StopInv, StopOfMode, LeaderLast, SignalsDelivered, Alive
<1>6. CASE HandleEntry \/ HandleSeccomp \/ HandleExit \/ HandlerFails \/ HandleExec
  <2>1. /\ cur # NoStop /\ cur' = NoStop /\ swallowed' = swallowed
        /\ cur.stop \in {"entry", "exit", "seccomp", "exec"}
        /\ \E w, cancel : ResumeAll({cur.tid}, w, cancel, {})
    BY <1>6 DEF HandleEntry, HandleSeccomp, HandleExit, HandlerFails, HandleExec, Handling,
           Handled, BeginSyscall, CompleteSyscall, Resume, history
  <2>2. Stopped(cur.tid) => task[cur.tid].stop \notin {"signal", "sigstop"}
    BY <2>1 DEF StopInv, CurStands
  <2> QED BY <1>0, <2>1, <2>2, HandledStops
<1>7. CASE HandleSignal
  <2>1. /\ cur # NoStop /\ cur' = NoStop /\ swallowed' = swallowed
        /\ ResumeAll({cur.tid}, PlainWatch, {}, Deliver(cur.tid))
    BY <1>7 DEF HandleSignal, Handling, Handled, history
  <2>2. /\ Stopped(cur.tid) /\ task[cur.tid].stop = "signal" => cur.tid \in Deliver(cur.tid)
        /\ Stopped(cur.tid) /\ task[cur.tid].stop = "sigstop" =>
             cur.tid \notin Deliver(cur.tid)
    BY <2>1 DEF StopInv, CurStands, Deliver
  <2> QED BY <1>0, <2>1, <2>2, HandledStops
<1>8. CASE HandleFork
  <2> DEFINE t == cur.tid
             ch == task[t].child
  <2>1. /\ cur # NoStop /\ cur' = NoStop /\ cur.stop \in {"fork", "clone"}
        /\ swallowed' = IF Stopped(ch) /\ ch \in news THEN swallowed \cup {ch} ELSE swallowed
        /\ ResumeAll({ch, t}, PlainWatch, {}, {})
    BY <1>8 DEF HandleFork, Handling, Handled, ForkResumes
  <2>2. ch \in Tid
    BY <1>0 DEF KernelOK, Task
  <2>3. Stopped(t) => task[t].stop # "signal"
    BY <2>1 DEF StopInv, CurStands
  <2>4. Stopped(ch) => ch \in news \/ ch = t
    BY <2>2 DEF StopInv, StopsKnown
  <2>5. \A u \in {ch, t} : Stopped(u) /\ task[u].stop = "signal" => u \in swallowed'
    BY <2>1, <2>3, <2>4
  <2> HIDE DEF ch
  <2> QED BY <1>0, <2>1, <2>5, HandledStops
<1> QED
  BY <1>1, <1>2, <1>3, <1>4, <1>5, <1>6, <1>7, <1>8 DEF Tracer, Handle

(* The stop that waitpid returned is the one its handler serves: no signal   *)
(* on its way to a tracee is lost, whatever the threads of the tracee do     *)
(* between waitpid and the handler, an exec by another thread included.      *)
LEMMA StopsStand == Spec => []StopInv
<1>1. Init => StopInv
  <2> SUFFICES ASSUME Init PROVE StopInv
    OBVIOUS
  <2>1. \A t \in Tid : /\ task[t].mode \in {"none", "running"} /\ task[t].stop = "none"
                       /\ task[t].tgid = t /\ task[t].raised = 0 /\ task[t].got = 0
    BY DEF Init, KernelInit, Fresh
  <2> QED BY <2>1 DEF Init, KernelInit, NoStop, StopInv, StopOfMode, StopsKnown, CurStands,
            CurDead, Fates, LeaderLast, SignalsDelivered, Alive, Stopped
<1>2. TypeOK /\ StopInv /\ [Next]_vars => StopInv'
  <2> SUFFICES ASSUME TypeOK, StopInv, [Next]_vars PROVE StopInv'
    OBVIOUS
  <2>1. CASE Tracer
    BY <2>1, TracerStops
  <2>2. CASE Tracees
    <3>1. KernelOK /\ cur.tid \in Tid
      BY TypeOKSplit DEF TracerOK
    <3> QED BY <2>2, <3>1, StepStops DEF Tracees, history
  <2>3. CASE Exited \/ UNCHANGED vars
    BY <2>3 DEF Exited, vars, kernel, history, StopInv, StopOfMode, StopsKnown, CurStands,
           CurDead, LeaderLast, SignalsDelivered, Alive, Stopped
  <2> QED BY <2>1, <2>2, <2>3 DEF Next
<1> QED BY <1>1, <1>2, TypeCorrect, PTL DEF Spec

(* handle_signal and detach_remaining: a tracee gets every signal but        *)
(* SIGSTOP and SIGTRAP, or is stopped for it, and never one of those two;    *)
(* a tracee that was let go has lost at most the one it was stopped for.     *)
(* A task whose stop the fork event of its parent swallowed is excepted.     *)
THEOREM SignalsNotLost == Spec => []SignalsDelivered
<1>1. StopInv => SignalsDelivered
  BY DEF StopInv
<1> QED BY <1>1, StopsStand, PTL

-----------------------------------------------------------------------------
(* The steps of the tracees, field by field, as long as no thread but a     *)
(* leader execs.                                                            *)

(* Task t goes on from one place to another and stops there for reason s,   *)
(* or does not stop if s is "none"; nothing else of any task changes.       *)
Moves(t, from, to, s) ==
  /\ RunningAt(t, from) /\ task[t].stop = "none"
  /\ task'[t].at = to /\ task'[t].stop = s
  /\ task'[t].mode = IF s = "none" THEN "running" ELSE "stopped"
  /\ task'[t].watch = task[t].watch /\ task'[t].child = task[t].child
  /\ task'[t].call = task[t].call /\ task'[t].n = task[t].n /\ task'[t].skip = task[t].skip
  /\ \A u \in Tid \ {t} : task'[u] = task[u]

(* Task t enters call c, and stops there if it is watched.                  *)
Enters(t, c) ==
  /\ RunningAt(t, "user") /\ task[t].stop = "none"
  /\ task'[t].at = "sys" /\ task'[t].stop = EntryStop(t, c)
  /\ task'[t].mode = IF EntryStop(t, c) = "none" THEN "running" ELSE "stopped"
  /\ task'[t].watch = task[t].watch /\ task'[t].child = task[t].child
  /\ task'[t].call = [by |-> t, n |-> task[t].n + 1, name |-> c]
  /\ task'[t].n = task[t].n + 1 /\ task'[t].skip = FALSE
  /\ \A u \in Tid \ {t} : task'[u] = task[u]
  /\ UNCHANGED <<ran, finished>>

(* Task t executes a fork or clone and makes the child ch.                  *)
Forks(t, ch) ==
  /\ RunningAt(t, "sys") /\ task[t].stop = "none" /\ ~task[t].skip
  /\ task[t].call.name \in {"fork", "clone"}
  /\ ch # t /\ task[ch].mode = "none"
  /\ task'[t].at = "forked" /\ task'[t].stop = "none" /\ task'[t].mode = "running"
  /\ task'[t].watch = task[t].watch /\ task'[t].child = ch
  /\ task'[t].call = task[t].call /\ task'[t].n = task[t].n
  /\ task'[ch].at = "born" /\ task'[ch].stop = "none" /\ task'[ch].mode = "running"
  /\ task'[ch].watch = PlainWatch
  /\ task'[ch].call = NoCall(ch) /\ task'[ch].n = 0
  /\ \A u \in Tid \ {t, ch} : task'[u] = task[u]
  /\ ran' = ran \cup {task[t].call} /\ UNCHANGED finished

(* Task u is left alone, or dies where it is.                               *)
DiesOrStays(u) ==
  \/ task'[u] = task[u]
  \/ /\ Alive(u) /\ task'[u].mode = "zombie" /\ task'[u].stop \in Fates
     /\ task'[u].at = task[u].at /\ task'[u].call = task[u].call /\ task'[u].n = task[u].n
     /\ task'[u].watch = task[u].watch /\ task'[u].child = task[u].child

(* Task t executes an exec, and the other threads of its group end.         *)
Execs(t) ==
  /\ RunningAt(t, "sys") /\ task[t].stop = "none" /\ ~task[t].skip
  /\ task[t].call.name = "exec"
  /\ task'[t].at = "leaving" /\ task'[t].stop = "exec" /\ task'[t].mode = "stopped"
  /\ task'[t].watch = task[t].watch /\ task'[t].child = task[t].child
  /\ task'[t].call = task[t].call /\ task'[t].n = task[t].n
  /\ \A u \in Tid \ {t} : DiesOrStays(u)
  /\ ran' = ran \cup {task[t].call} /\ UNCHANGED finished

(* exit, exit_group and SIGKILL; the first two are calls that are executed. *)
Ends(t) ==
  /\ \A u \in Tid : DiesOrStays(u)
  /\ \/ ran' = ran
     \/ /\ RunningAt(t, "sys") /\ ~Alive(t)' /\ task[t].call.name \in {"exit", "exit_group"}
        /\ ran' = ran \cup {task[t].call}
  /\ UNCHANGED finished

(* What a step of task t does to the tasks and to the history of the calls. *)
StepShape(t) ==
  \/ \E c \in Names : Enters(t, c)
  \/ Moves(t, "sys", "leaving", "none") /\ task[t].skip /\ UNCHANGED <<ran, finished>>
  \/ /\ Moves(t, "sys", "leaving", "none") /\ ~task[t].skip /\ task[t].call.name = "io"
     /\ ran' = ran \cup {task[t].call} /\ UNCHANGED finished
  \/ /\ \E s \in {"fork", "clone"} : Moves(t, "forked", "leaving", s)
     /\ UNCHANGED <<ran, finished>>
  \/ Moves(t, "born", "user", "sigstop") /\ UNCHANGED <<ran, finished>>
  \/ /\ Moves(t, "leaving", "user", IF task[t].watch = "syscall" THEN "exit" ELSE "none")
     /\ UNCHANGED ran /\ finished' = finished \cup {task[t].call}
  \/ Moves(t, "user", "user", "signal") /\ UNCHANGED <<ran, finished>>
  \/ Moves(t, "user", "user", "sigstop") /\ UNCHANGED <<ran, finished>>
  \/ \E ch \in Tid : Forks(t, ch)
  \/ Execs(t)
  \/ Ends(t)

(* The fields of a task that goes on.                                       *)
LEMMA GoOnFields ==
  ASSUME KernelOK, NEW t \in Tid, NEW r \in Task, r.stop = "none", r.mode = "running",
         NEW s \in Stops, GoOn(t, r, s)
  PROVE  /\ task'[t].at = r.at /\ task'[t].stop = s
         /\ task'[t].mode = IF s = "none" THEN "running" ELSE "stopped"
         /\ task'[t].watch = r.watch /\ task'[t].child = r.child
         /\ task'[t].call = r.call /\ task'[t].n = r.n /\ task'[t].skip = r.skip
         /\ \A u \in Tid \ {t} : task'[u] = task[u]
BY DEF GoOn, KernelOK, Task

(* A task that goes on at another place has moved there.                    *)
LEMMA MovesFields ==
  ASSUME KernelOK, NEW t \in Tid, NEW from, RunningAt(t, from), task[t].stop = "none",
         NEW to \in Places, NEW s \in Stops, GoOn(t, [task[t] EXCEPT !.at = to], s)
  PROVE  Moves(t, from, to, s)
<1> DEFINE r == [task[t] EXCEPT !.at = to]
<1>1. task[t] \in Task
  BY DEF KernelOK
<1>2. /\ r \in Task /\ r.stop = "none" /\ r.mode = "running" /\ r.at = to
      /\ r.watch = task[t].watch /\ r.child = task[t].child
      /\ r.call = task[t].call /\ r.n = task[t].n /\ r.skip = task[t].skip
  BY <1>1 DEF RunningAt, Task
<1>3. GoOn(t, r, s)
  OBVIOUS
<1> HIDE DEF r
<1>4. /\ task'[t].at = r.at /\ task'[t].stop = s
      /\ task'[t].mode = IF s = "none" THEN "running" ELSE "stopped"
      /\ task'[t].watch = r.watch /\ task'[t].child = r.child
      /\ task'[t].call = r.call /\ task'[t].n = r.n /\ task'[t].skip = r.skip
      /\ \A u \in Tid \ {t} : task'[u] = task[u]
  BY <1>2, <1>3, GoOnFields
<1> QED BY <1>2, <1>4 DEF Moves

(* When tasks end, every task ends where it is or is left alone.            *)
LEMMA DeadStays ==
  ASSUME KernelOK, NEW D \in SUBSET {u \in Tid : Alive(u)}, NEW fate \in Fates,
         task' = Dead(D, fate), NEW u \in Tid
  PROVE  DiesOrStays(u) /\ (u \in D => ~Alive(u)')
BY DeadFields DEF DiesOrStays, Alive

(* The steps of a tracee have no other shapes.                              *)
LEMMA StepShapes ==
  ASSUME KernelOK, StopOfMode, ~ThreadExec, NEW t \in Tid, Step(t)
  PROVE  StepShape(t)
<1>0. /\ task[t] \in Task /\ (task[t].mode = "running" => task[t].stop = "none")
      /\ task \in [Tid -> Task]
  BY DEF KernelOK, StopOfMode
<1>1. ASSUME NEW c \in Names, EnterCall(t, c) PROVE StepShape(t)
  <2> DEFINE id == [by |-> t, n |-> task[t].n + 1, name |-> c]
             r == [task[t] EXCEPT !.at = "sys", !.call = id, !.n = @ + 1, !.skip = FALSE]
  <2>1. r \in Task
    <3>1. id \in Call
      BY <1>0, KernelAssumption DEF Call, Task, CallNames
    <3>2. task[t].n + 1 \in Nat /\ "sys" \in Places
      BY <1>0 DEF Task, Places
    <3> HIDE DEF id
    <3> QED BY <1>0, <3>1, <3>2, TaskEntryType
  <2>2. EntryStop(t, c) \in Stops
    BY DEF EntryStop, Stops
  <2>3. GoOn(t, r, EntryStop(t, c)) /\ RunningAt(t, "user") /\ UNCHANGED <<ran, finished>>
    BY <1>1 DEF EnterCall
  <2>4. /\ r.mode = "running" /\ r.stop = "none" /\ r.at = "sys" /\ r.call = id
        /\ r.watch = task[t].watch /\ r.child = task[t].child
        /\ r.n = task[t].n + 1 /\ r.skip = FALSE
    BY <1>0, <2>3 DEF Task, RunningAt
  <2> HIDE DEF r
  <2>5. /\ task'[t].at = r.at /\ task'[t].stop = EntryStop(t, c)
        /\ task'[t].mode = IF EntryStop(t, c) = "none" THEN "running" ELSE "stopped"
        /\ task'[t].watch = r.watch /\ task'[t].child = r.child
        /\ task'[t].call = r.call /\ task'[t].n = r.n /\ task'[t].skip = r.skip
        /\ \A u \in Tid \ {t} : task'[u] = task[u]
    BY <2>1, <2>2, <2>3, <2>4, GoOnFields
  <2>6. Enters(t, c)
    BY <1>0, <2>3, <2>4, <2>5 DEF Enters, RunningAt
  <2> QED BY <2>6 DEF StepShape
<1>2. ASSUME SkipCall(t) \/ RunIo(t) PROVE StepShape(t)
  <2>1. /\ RunningAt(t, "sys") /\ task[t].stop = "none"
        /\ GoOn(t, [task[t] EXCEPT !.at = "leaving"], "none")
    BY <1>0, <1>2 DEF SkipCall, RunIo, Runs, RunningAt
  <2>2. Moves(t, "sys", "leaving", "none")
    BY <2>1, MovesFields DEF Places, Stops
  <2> QED BY <1>2, <2>2 DEF SkipCall, RunIo, Runs, StepShape
<1>3. ASSUME RaiseFork(t) PROVE StepShape(t)
  <2>1. PICK s \in {"fork", "clone"} :
          /\ RunningAt(t, "forked") /\ task[t].stop = "none"
          /\ GoOn(t, [task[t] EXCEPT !.at = "leaving"], s)
    BY <1>0, <1>3 DEF RaiseFork, RunningAt
  <2>2. Moves(t, "forked", "leaving", s)
    BY <2>1, MovesFields DEF Places, Stops
  <2> QED BY <1>3, <2>2 DEF RaiseFork, StepShape
<1>4. ASSUME FirstStop(t) PROVE StepShape(t)
  <2>1. Moves(t, "born", "user", "sigstop")
    BY <1>0, <1>4, MovesFields DEF FirstStop, RunningAt, Places, Stops
  <2> QED BY <1>4, <2>1 DEF FirstStop, StepShape
<1>5. ASSUME LeaveCall(t) PROVE StepShape(t)
  <2> DEFINE s == IF task[t].watch = "syscall" THEN "exit" ELSE "none"
  <2>1. /\ RunningAt(t, "leaving") /\ task[t].stop = "none" /\ s \in Stops
        /\ GoOn(t, [task[t] EXCEPT !.at = "user"], s)
    BY <1>0, <1>5 DEF LeaveCall, RunningAt, Stops
  <2> HIDE DEF s
  <2>2. Moves(t, "leaving", "user", s)
    BY <2>1, MovesFields DEF Places
  <2> QED BY <1>5, <2>2 DEF LeaveCall, StepShape, s
<1>6. ASSUME RaiseSignal(t) PROVE StepShape(t)
  <2> DEFINE r == [task[t] EXCEPT !.raised = @ + 1]
             q == [task[t] EXCEPT !.traps = @ + 1]
  <2>1. PICK p \in {r, q}, s \in {"signal", "sigstop"} : GoOn(t, p, s)
    BY <1>6 DEF RaiseSignal
  <2>a. RunningAt(t, "user") /\ UNCHANGED <<ran, finished>>
    BY <1>6 DEF RaiseSignal
  <2>2. /\ p \in Task /\ p.mode = "running" /\ p.stop = "none" /\ p.at = "user"
        /\ p.watch = task[t].watch /\ p.child = task[t].child
        /\ p.call = task[t].call /\ p.n = task[t].n /\ p.skip = task[t].skip
    BY <1>0, <2>1, <2>a DEF Task, RunningAt
  <2> HIDE DEF r, q
  <2>3. /\ task'[t].at = p.at /\ task'[t].stop = s /\ task'[t].mode = "stopped"
        /\ task'[t].watch = p.watch /\ task'[t].child = p.child
        /\ task'[t].call = p.call /\ task'[t].n = p.n /\ task'[t].skip = p.skip
        /\ \A u \in Tid \ {t} : task'[u] = task[u]
    BY <2>1, <2>2, GoOnFields DEF Stops
  <2>4. Moves(t, "user", "user", s)
    BY <1>0, <2>a, <2>2, <2>3 DEF Moves, RunningAt
  <2> QED BY <2>a, <2>4 DEF StepShape
<1>7. ASSUME NEW c \in {"fork", "clone"}, NEW ch \in Tid, RunFork(t, c, ch)
      PROVE  StepShape(t)
  <2>1. /\ RunningAt(t, "sys") /\ task[t].stop = "none" /\ ~task[t].skip
        /\ task[t].call.name = c /\ ch # t /\ task[ch].mode = "none"
        /\ ran' = ran \cup {task[t].call} /\ UNCHANGED finished
    BY <1>0, <1>7 DEF RunFork, Runs, RunningAt
  <2>2. /\ task'[t] = [task[t] EXCEPT !.at = "forked", !.child = ch]
        /\ task'[ch] = Fresh(ch, IF c = "clone" THEN task[t].tgid ELSE ch, "born", PlainWatch)
        /\ \A u \in Tid \ {t, ch} : task'[u] = task[u]
    BY <1>0, <1>7, <2>1 DEF RunFork
  <2>3. Forks(t, ch)
    BY <1>0, <2>1, <2>2 DEF Forks, Fresh, Task, RunningAt
  <2> QED BY <2>3 DEF StepShape
<1>8. ASSUME RunExec(t) PROVE StepShape(t)
  <2> DEFINE others == {u \in Group(t) \ {t} : Alive(u)}
             d == Dead(others, "exited")
  <2>1. /\ RunningAt(t, "sys") /\ task[t].stop = "none" /\ ~task[t].skip
        /\ task[t].call.name = "exec"
        /\ task' = [d EXCEPT ![t] = [@ EXCEPT !.at = "leaving", !.mode = "stopped",
                                                !.stop = "exec"]]
        /\ ran' = ran \cup {task[t].call} /\ UNCHANGED finished
    BY <1>0, <1>8 DEF RunExec, Runs, RunningAt
  <2>2. /\ others \in SUBSET {u \in Tid : Alive(u)}
        /\ t \notin others
    BY DEF Group
  <2>3. d \in [Tid -> Task]
    BY DeadType DEF Stops
  <2>4. \A u \in Tid : /\ u \notin others => d[u] = task[u]
                       /\ u \in others => d[u].mode = "zombie" /\ d[u].stop = "exited"
                       /\ d[u].at = task[u].at /\ d[u].call = task[u].call
                       /\ d[u].n = task[u].n
                       /\ d[u].watch = task[u].watch /\ d[u].child = task[u].child
    BY DeadFields
  <2> HIDE DEF others, d
  <2>5. /\ \A u \in Tid \ {t} : task'[u] = d[u]
        /\ task'[t] = [task[t] EXCEPT !.at = "leaving", !.mode = "stopped", !.stop = "exec"]
    BY <2>1, <2>2, <2>3, <2>4
  <2>6. \A u \in Tid \ {t} : DiesOrStays(u)
    BY <2>2, <2>4, <2>5 DEF DiesOrStays, Fates
  <2>7. /\ task'[t].at = "leaving" /\ task'[t].stop = "exec" /\ task'[t].mode = "stopped"
        /\ task'[t].watch = task[t].watch /\ task'[t].child = task[t].child
        /\ task'[t].call = task[t].call /\ task'[t].n = task[t].n
    BY <1>0, <2>5 DEF Task
  <2>8. Execs(t)
    BY <2>1, <2>6, <2>7 DEF Execs
  <2> QED BY <2>8 DEF StepShape
<1>9. ASSUME RunExit(t) \/ RunExitGroup(t) \/ Kill(t) PROVE StepShape(t)
  <2>1. PICK D \in SUBSET {u \in Tid : Alive(u)}, fate \in Fates :
          /\ task' = Dead(D, fate) /\ UNCHANGED finished
          /\ \/ ran' = ran
             \/ /\ RunningAt(t, "sys") /\ t \in D
                /\ task[t].call.name \in {"exit", "exit_group"}
                /\ ran' = ran \cup {task[t].call}
    <3>1. CASE RunExit(t)
      <4>1. {t} \in SUBSET {u \in Tid : Alive(u)} /\ "exited" \in Fates
        BY <3>1 DEF RunExit, Runs, RunningAt, Alive, Fates
      <4> QED BY <3>1, <4>1 DEF RunExit, Runs
    <3>2. CASE RunExitGroup(t)
      <4> DEFINE dying == {u \in Group(task[t].tgid) : Alive(u)}
      <4>1. /\ dying \in SUBSET {u \in Tid : Alive(u)} /\ "exited" \in Fates
            /\ t \in dying
        BY <3>2 DEF RunExitGroup, Runs, RunningAt, Group, Alive, Fates
      <4>2. /\ task' = Dead(dying, "exited") /\ UNCHANGED finished /\ RunningAt(t, "sys")
            /\ task[t].call.name = "exit_group" /\ ran' = ran \cup {task[t].call}
        BY <3>2 DEF RunExitGroup, Runs
      <4> HIDE DEF dying
      <4> QED BY <4>1, <4>2
    <3>3. CASE Kill(t)
      <4> DEFINE dying == {u \in Group(t) : Alive(u)}
      <4>1. dying \in SUBSET {u \in Tid : Alive(u)} /\ "killed" \in Fates
        BY DEF Group, Fates
      <4>2. task' = Dead(dying, "killed") /\ UNCHANGED <<ran, finished>>
        BY <3>3 DEF Kill
      <4> HIDE DEF dying
      <4> QED BY <4>1, <4>2
    <3> QED BY <1>9, <3>1, <3>2, <3>3
  <2>2. \A u \in Tid : DiesOrStays(u) /\ (u \in D => ~Alive(u)')
    BY <2>1, DeadStays
  <2>3. Ends(t)
    BY <2>1, <2>2 DEF Ends
  <2> QED BY <2>3 DEF StepShape
<1> QED
  BY <1>1, <1>2, <1>3, <1>4, <1>5, <1>6, <1>7, <1>8, <1>9 DEF Step, RunThreadExec

-----------------------------------------------------------------------------
(* Where a tracee is in its calls, as long as no thread but a leader execs. *)

(* The handler serves the very stop that waitpid returned.                  *)
CurStopsFor == cur # NoStop /\ Stopped(cur.tid) => task[cur.tid].stop = cur.stop

(* The call a task has made last is its own, and the latest of its calls.   *)
OwnCall == \A t \in Tid : task[t].call.by = t /\ task[t].call.n = task[t].n

(* The reason of a stop tells how far the call has come.                    *)
StopOfPlace ==
  \A t \in Tid : Stopped(t) =>
    /\ task[t].stop \in {"entry", "seccomp"} => task[t].at = "sys"
    /\ task[t].stop \in {"exit", "sigstop", "signal"} => task[t].at = "user"
    /\ task[t].stop \in {"fork", "clone", "exec"} => task[t].at = "leaving"

(* Only a fork or clone has a child to announce.                            *)
ForkedName == \A t \in Tid : RunningAt(t, "forked") => task[t].call.name \in {"fork", "clone"}

(* A call in the history is over, or its task died in it.                   *)
Past(c) ==
  /\ task[c.by].mode # "none"
  /\ c.n <= task[c.by].n
  /\ c.n = task[c.by].n /\ Alive(c.by) => task[c.by].at # "sys"

(* The history has only calls that were made and are past their execution.  *)
CallsPast == \A c \in ran \cup finished : Past(c)

(* An exec that the kernel executed is stopped for its event, or tracked.   *)
LeavingExec ==
  \A t \in Tid :
    Alive(t) /\ task[t].at = "leaving" /\ task[t].call \in ran /\ task[t].call.name = "exec" =>
      task[t].stop = "exec" \/ task[t].call \in execs \/ t \in swallowed

(* The inductive invariant of the calls.                                    *)
CallInv ==
  /\ CurStopsFor
  /\ OwnCall
  /\ StopOfPlace
  /\ ForkedName
  /\ CallsPast
  /\ LeavingExec
  /\ ExecsTracked

(* Every call in the history was made by a task of Tid.                     *)
LEMMA CallTypes ==
  ASSUME KernelOK
  PROVE  /\ \A c \in ran \cup finished : c.by \in Tid /\ c.n \in Nat
         /\ \A t \in Tid : /\ task[t].n \in Nat /\ task[t].call.name \in CallNames \cup {"none"}
                           /\ task[t].at \in Places /\ task[t].child \in Tid
                           /\ task[t].skip \in BOOLEAN /\ task[t].watch \in {"syscall", "cont"}
BY DEF KernelOK, Task, Call

(* What the proofs about the session use of a step: the task that moves was *)
(* not the one being handled, and no task that dies or stays comes to life. *)
LEMMA StepCalls ==
  ASSUME KernelOK, StopInv, CallInv, cur.tid \in Tid, NEW t \in Tid, StepShape(t),
         UNCHANGED <<cur, execs, swallowed>>
  PROVE  CallInv'
<1>0. /\ \A c \in ran \cup finished : c.by \in Tid /\ c.n \in Nat
      /\ \A u \in Tid : /\ task[u].n \in Nat /\ task[u].call.by = u
                        /\ task[u].call.n = task[u].n
  BY CallTypes DEF CallInv, OwnCall
<1>1. cur # NoStop => task[cur.tid].mode \in {"stopped", "zombie", "reaped"}
  BY DEF StopInv, CurStands
<1>2. ASSUME NEW c \in Names, Enters(t, c) PROVE CallInv'
  <2>1. CurStopsFor'
    BY <1>1, <1>2 DEF CallInv, CurStopsFor, Enters, RunningAt, Stopped
  <2>2. OwnCall'
    BY <1>0, <1>2 DEF OwnCall, Enters
  <2>3. StopOfPlace'
    BY <1>2 DEF CallInv, StopOfPlace, Enters, Stopped, EntryStop
  <2>4. ForkedName'
    BY <1>2 DEF CallInv, ForkedName, Enters, RunningAt
  <2>5. CallsPast'
    BY <1>0, <1>2 DEF CallInv, CallsPast, Past, Enters, RunningAt, Alive
  <2>6. LeavingExec'
    BY <1>2 DEF CallInv, LeavingExec, Enters, Alive
  <2>7. ExecsTracked'
    BY <1>2 DEF CallInv, ExecsTracked, Enters
  <2> QED BY <2>1, <2>2, <2>3, <2>4, <2>5, <2>6, <2>7 DEF CallInv
<1>3. ASSUME NEW from, NEW to, NEW s, Moves(t, from, to, s),
             to # "sys", s = "none" \/ s \in TraceStops,
             s # "none" => /\ s \notin {"entry", "seccomp", "exec"}
                           /\ s \in {"exit", "sigstop", "signal"} => to = "user"
                           /\ s \in {"fork", "clone"} => to = "leaving",
             to # "forked"
      PROVE  /\ CurStopsFor' /\ OwnCall' /\ StopOfPlace' /\ ForkedName'
             /\ \A c \in ran \cup finished \cup {task[t].call} : Past(c)'
  <2>1. CurStopsFor'
    BY <1>1, <1>3 DEF CallInv, CurStopsFor, Moves, RunningAt, Stopped
  <2>2. OwnCall'
    BY <1>0, <1>3 DEF OwnCall, Moves
  <2>3. StopOfPlace'
    BY <1>3 DEF CallInv, StopOfPlace, Moves, Stopped
  <2>4. ForkedName'
    BY <1>3 DEF CallInv, ForkedName, Moves, RunningAt
  <2>5. \A c \in ran \cup finished \cup {task[t].call} : Past(c)'
    BY <1>0, <1>3 DEF CallInv, CallsPast, Past, Moves, RunningAt, Alive
  <2> QED BY <2>1, <2>2, <2>3, <2>4, <2>5
<1>4. ASSUME Moves(t, "sys", "leaving", "none"), task[t].skip, UNCHANGED <<ran, finished>>
      PROVE  CallInv'
  <2>1. CurStopsFor' /\ OwnCall' /\ StopOfPlace' /\ ForkedName' /\ CallsPast'
    BY <1>3, <1>4 DEF CallsPast
  <2>2. task[t].call \notin ran
    BY <1>0, <1>4 DEF CallInv, CallsPast, Past, Moves, RunningAt, Alive
  <2>3. LeavingExec'
    BY <1>4, <2>2 DEF CallInv, LeavingExec, Moves, Alive
  <2>4. ExecsTracked'
    BY <1>4 DEF CallInv, ExecsTracked
  <2> QED BY <2>1, <2>3, <2>4 DEF CallInv
<1>5. ASSUME Moves(t, "sys", "leaving", "none"), task[t].call.name = "io",
             ran' = ran \cup {task[t].call}, UNCHANGED finished
      PROVE  CallInv'
  <2>1. CurStopsFor' /\ OwnCall' /\ StopOfPlace' /\ ForkedName' /\ CallsPast'
    BY <1>3, <1>5 DEF CallsPast
  <2>2. LeavingExec'
    BY <1>5 DEF CallInv, LeavingExec, Moves, Alive
  <2>3. ExecsTracked'
    BY <1>5 DEF CallInv, ExecsTracked
  <2> QED BY <2>1, <2>2, <2>3 DEF CallInv
<1>6. ASSUME NEW s \in {"fork", "clone"}, Moves(t, "forked", "leaving", s),
             UNCHANGED <<ran, finished>>
      PROVE  CallInv'
  <2>1. CurStopsFor' /\ OwnCall' /\ StopOfPlace' /\ ForkedName' /\ CallsPast'
    BY <1>3, <1>6 DEF CallsPast, TraceStops
  <2>2. task[t].call.name # "exec"
    BY <1>6 DEF CallInv, ForkedName, Moves
  <2>3. LeavingExec'
    BY <1>6, <2>2 DEF CallInv, LeavingExec, Moves, Alive
  <2>4. ExecsTracked'
    BY <1>6 DEF CallInv, ExecsTracked
  <2> QED BY <2>1, <2>3, <2>4 DEF CallInv
<1>7. ASSUME NEW from, NEW s \in {"sigstop", "signal"}, Moves(t, from, "user", s),
             UNCHANGED <<ran, finished>>
      PROVE  CallInv'
  <2>1. CurStopsFor' /\ OwnCall' /\ StopOfPlace' /\ ForkedName' /\ CallsPast'
    BY <1>3, <1>7 DEF CallsPast, TraceStops
  <2>2. LeavingExec'
    BY <1>7 DEF CallInv, LeavingExec, Moves, Alive
  <2>3. ExecsTracked'
    BY <1>7 DEF CallInv, ExecsTracked
  <2> QED BY <2>1, <2>2, <2>3 DEF CallInv
<1>8. ASSUME Moves(t, "leaving", "user", IF task[t].watch = "syscall" THEN "exit" ELSE "none"),
             UNCHANGED ran, finished' = finished \cup {task[t].call}
      PROVE  CallInv'
  <2>1. CurStopsFor' /\ OwnCall' /\ StopOfPlace' /\ ForkedName' /\ CallsPast'
    BY <1>3, <1>8 DEF CallsPast, TraceStops
  <2>2. LeavingExec'
    BY <1>8 DEF CallInv, LeavingExec, Moves, Alive
  <2>3. task[t].call \in ran /\ task[t].call.name = "exec" =>
          task[t].call \in execs \/ t \in swallowed
    BY <1>8 DEF CallInv, LeavingExec, Moves, RunningAt, Alive
  <2>4. ExecsTracked'
    BY <1>0, <1>8, <2>3 DEF CallInv, ExecsTracked
  <2> QED BY <2>1, <2>2, <2>4 DEF CallInv
<1>9. ASSUME NEW ch \in Tid, Forks(t, ch) PROVE CallInv'
  <2>1. CurStopsFor'
    BY <1>1, <1>9 DEF CallInv, CurStopsFor, Forks, RunningAt, Stopped
  <2>2. OwnCall'
    BY <1>0, <1>9 DEF OwnCall, Forks, NoCall
  <2>3. StopOfPlace'
    BY <1>9 DEF CallInv, StopOfPlace, Forks, Stopped
  <2>4. ForkedName'
    BY <1>9 DEF CallInv, ForkedName, Forks, RunningAt
  <2>5. CallsPast'
    <3>1. \A c \in ran \cup finished : c.by # ch
      BY <1>9 DEF CallInv, CallsPast, Past, Forks
    <3> QED BY <1>0, <1>9, <3>1 DEF CallInv, CallsPast, Past, Forks, RunningAt, Alive
  <2>6. LeavingExec'
    BY <1>9 DEF CallInv, LeavingExec, Forks, Alive
  <2>7. ExecsTracked'
    BY <1>9 DEF CallInv, ExecsTracked, Forks
  <2> QED BY <2>1, <2>2, <2>3, <2>4, <2>5, <2>6, <2>7 DEF CallInv
<1>10. ASSUME Execs(t) PROVE CallInv'
  <2>1. CurStopsFor'
    BY <1>1, <1>10 DEF CallInv, CurStopsFor, Execs, DiesOrStays, RunningAt, Stopped
  <2>2. OwnCall'
    BY <1>0, <1>10 DEF OwnCall, Execs, DiesOrStays
  <2>3. StopOfPlace'
    BY <1>10 DEF CallInv, StopOfPlace, Execs, DiesOrStays, Stopped
  <2>4. ForkedName'
    BY <1>10 DEF CallInv, ForkedName, Execs, DiesOrStays, RunningAt
  <2>5. CallsPast'
    BY <1>0, <1>10
    DEF CallInv, CallsPast, Past, Execs, DiesOrStays, RunningAt, Alive
  <2>6. LeavingExec'
    BY <1>0, <1>10 DEF CallInv, LeavingExec, Execs, DiesOrStays, Alive
  <2>7. task[t].call \notin finished
    BY <1>0, <1>10 DEF CallInv, CallsPast, Past, Execs, RunningAt, Alive
  <2>8. ExecsTracked'
    BY <1>10, <2>7 DEF CallInv, ExecsTracked, Execs
  <2> QED BY <2>1, <2>2, <2>3, <2>4, <2>5, <2>6, <2>8 DEF CallInv
<1>11. ASSUME Ends(t) PROVE CallInv'
  <2>1. CurStopsFor'
    BY <1>11 DEF CallInv, CurStopsFor, Ends, DiesOrStays, Stopped
  <2>2. OwnCall'
    BY <1>0, <1>11 DEF OwnCall, Ends, DiesOrStays
  <2>3. StopOfPlace'
    BY <1>11 DEF CallInv, StopOfPlace, Ends, DiesOrStays, Stopped
  <2>4. ForkedName'
    BY <1>11 DEF CallInv, ForkedName, Ends, DiesOrStays, RunningAt
  <2>5. CallsPast'
    BY <1>0, <1>11 DEF CallInv, CallsPast, Past, Ends, DiesOrStays, RunningAt, Alive
  <2>6. LeavingExec'
    BY <1>0, <1>11 DEF CallInv, LeavingExec, Ends, DiesOrStays, Alive
  <2>7. ExecsTracked'
    BY <1>11 DEF CallInv, ExecsTracked, Ends
  <2> QED BY <2>1, <2>2, <2>3, <2>4, <2>5, <2>6, <2>7 DEF CallInv
<1> QED
  BY <1>2, <1>4, <1>5, <1>6, <1>7, <1>8, <1>9, <1>10, <1>11 DEF StepShape

(* A handler that tracks the exec it was called for serves the stop.        *)
LEMMA HandledCalls ==
  ASSUME KernelOK, StopInv, CallInv, cur' = NoStop,
         NEW T, NEW w, NEW cancel, NEW d, ResumeAll(T, w, cancel, d),
         execs \subseteq execs', swallowed \subseteq swallowed',
         \A u \in T : Stopped(u) /\ task[u].stop = "exec" =>
           task[u].call \in execs' \/ u \in swallowed'
  PROVE  CallInv'
<1>0. \A c \in ran \cup finished : c.by \in Tid /\ c.n \in Nat
  BY CallTypes
<1>a. ran' = ran /\ finished' = finished
  BY DEF ResumeAll
<1>1. \A u \in Tid :
        /\ ~(u \in T /\ Stopped(u)) => task'[u] = task[u]
        /\ u \in T /\ Stopped(u) => task'[u].mode = "running" /\ task'[u].stop = "none"
        /\ task'[u].at = task[u].at /\ task'[u].call = task[u].call
        /\ task'[u].n = task[u].n
  BY ResumeFields
<1>2. \A u \in Tid : Stopped(u) => task[u].at # "forked"
  BY DEF StopInv, StopOfMode, TraceStops, CallInv, StopOfPlace, Stopped
<1>3. \A u \in Tid : Alive(u)' <=> Alive(u)
  BY <1>1 DEF Alive, Stopped
<1>4. CurStopsFor'
  BY DEF CurStopsFor
<1>5. OwnCall'
  BY <1>1 DEF CallInv, OwnCall
<1>6. StopOfPlace'
  BY <1>1 DEF CallInv, StopOfPlace, Stopped
<1>7. ForkedName'
  BY <1>1, <1>2 DEF CallInv, ForkedName, RunningAt
<1>8. CallsPast'
  BY <1>0, <1>a, <1>1 DEF CallInv, CallsPast, Past, Alive, Stopped
<1>9. LeavingExec'
  BY <1>a, <1>1 DEF CallInv, LeavingExec, Alive, Stopped
<1>10. ExecsTracked'
  BY <1>a DEF CallInv, ExecsTracked
<1> QED BY <1>4, <1>5, <1>6, <1>7, <1>8, <1>9, <1>10 DEF CallInv

(* Every step of the tracer keeps the invariant of the calls.               *)
LEMMA TracerCalls ==
  ASSUME TypeOK, StopInv, CallInv, Tracer
  PROVE  CallInv'
<1>0. /\ KernelOK /\ cur.tid \in Tid
      /\ \A c \in ran \cup finished : c.by \in Tid /\ c.n \in Nat
  BY TypeOKSplit, CallTypes DEF TracerOK
<1>1. ASSUME NEW t \in Tid, Wait(t) PROVE CallInv'
  <2>1. /\ cur' = [tid |-> t, stop |-> task[t].stop]
        /\ UNCHANGED <<ran, finished, execs, swallowed>>
    BY <1>1 DEF Wait, history
  <2>2. \A u \in Tid :
          /\ task'[u] = task[u] \/ (~Alive(u) /\ ~Alive(u)' /\ task'[u].mode # "none")
          /\ task'[u].stop = task[u].stop /\ task'[u].at = task[u].at
          /\ task'[u].call = task[u].call /\ task'[u].n = task[u].n
    BY <1>0, <1>1 DEF Wait, KernelOK, Task, Alive
  <2>3. CurStopsFor'
    BY <2>1, <2>2 DEF CurStopsFor
  <2>4. OwnCall'
    BY <2>2 DEF CallInv, OwnCall
  <2>5. StopOfPlace' /\ ForkedName'
    BY <2>2 DEF CallInv, StopOfPlace, ForkedName, Stopped, RunningAt, Alive
  <2>6. CallsPast'
    BY <1>0, <2>1, <2>2 DEF CallInv, CallsPast, Past, Alive
  <2>7. LeavingExec'
    BY <2>1, <2>2 DEF CallInv, LeavingExec, Alive
  <2>8. ExecsTracked'
    BY <2>1 DEF CallInv, ExecsTracked
  <2> QED BY <2>3, <2>4, <2>5, <2>6, <2>7, <2>8 DEF CallInv
<1>2. CASE LoopEnds
  BY <1>2 DEF LoopEnds, kernel, history, CallInv, CurStopsFor, OwnCall, StopOfPlace, ForkedName,
         CallsPast, Past, LeavingExec, ExecsTracked, Alive, Stopped, RunningAt
<1>3. CASE Detach \/ TracerExit
  <2>1. /\ cur' = cur /\ (Detach => cur = NoStop)
        /\ UNCHANGED <<ran, finished, execs, swallowed>>
    BY <1>3 DEF Detach, TracerExit, LoopHead, history
  <2>2. \A u \in Tid :
          /\ task'[u] = task[u] \/ (Alive(u) /\ ~Alive(u)' /\ task'[u].mode # "none")
          /\ task'[u].at = task[u].at /\ task'[u].call = task[u].call
          /\ task'[u].n = task[u].n
    <3>1. CASE Detach
      BY <1>0, <3>1, DetachFields DEF Alive, Stopped
    <3>2. CASE TracerExit
      <4>1. task' = Dead({u \in Tid : Alive(u)}, "exitkill")
        BY <3>2 DEF TracerExit
      <4> QED BY <1>0, <4>1, DeadFields DEF Alive
    <3> QED BY <1>3, <3>1, <3>2
  <2>3. CurStopsFor'
    BY <1>0, <2>1, <2>2 DEF CallInv, CurStopsFor, Alive, Stopped
  <2>4. OwnCall'
    BY <2>2 DEF CallInv, OwnCall
  <2>5. StopOfPlace' /\ ForkedName'
    BY <2>2 DEF CallInv, StopOfPlace, ForkedName, Stopped, RunningAt, Alive
  <2>6. CallsPast'
    BY <1>0, <2>1, <2>2 DEF CallInv, CallsPast, Past, Alive
  <2>7. LeavingExec'
    BY <2>1, <2>2 DEF CallInv, LeavingExec, Alive
  <2>8. ExecsTracked'
    BY <2>1 DEF CallInv, ExecsTracked
  <2> QED BY <2>3, <2>4, <2>5, <2>6, <2>7, <2>8 DEF CallInv
<1>4. CASE HandleDeath \/ HandleForkFails
  <2>1. cur' = NoStop /\ UNCHANGED <<task, ran, finished, execs, swallowed>>
    BY <1>4 DEF HandleDeath, HandleForkFails, Handled, kernel, history
  <2> QED BY <2>1 DEF CallInv, CurStopsFor, OwnCall, StopOfPlace, ForkedName, CallsPast, Past,
             LeavingExec, ExecsTracked, Alive, Stopped, RunningAt
<1>5. CASE HandleEntry \/ HandleSeccomp \/ HandleExit \/ HandlerFails \/ HandleSignal
  <2>1. /\ cur # NoStop /\ cur' = NoStop /\ UNCHANGED <<execs, swallowed>>
        /\ cur.stop # "exec"
        /\ \E w, cancel, d : ResumeAll({cur.tid}, w, cancel, d)
    BY <1>5 DEF HandleEntry, HandleSeccomp, HandleExit, HandlerFails, HandleSignal, Handling,
           Handled, BeginSyscall, CompleteSyscall, Resume, history
  <2>2. Stopped(cur.tid) => task[cur.tid].stop # "exec"
    BY <2>1 DEF CallInv, CurStopsFor
  <2> QED BY <1>0, <2>1, <2>2, HandledCalls
<1>6. CASE HandleExec
  <2>1. /\ cur' = NoStop /\ swallowed' = swallowed
        /\ execs' = execs \cup {task[cur.tid].call}
        /\ ResumeAll({cur.tid}, PlainWatch, {}, {})
    BY <1>6 DEF HandleExec, OnExec, Handled, Resume
  <2> QED BY <1>0, <2>1, HandledCalls
<1>7. CASE HandleFork
  <2> DEFINE t == cur.tid
             ch == task[t].child
  <2>1. /\ cur # NoStop /\ cur' = NoStop /\ cur.stop \in {"fork", "clone"} /\ execs' = execs
        /\ swallowed' = IF Stopped(ch) /\ ch \in news THEN swallowed \cup {ch} ELSE swallowed
        /\ ResumeAll({ch, t}, PlainWatch, {}, {})
    BY <1>7 DEF HandleFork, Handling, Handled, ForkResumes
  <2>2. ch \in Tid
    BY <1>0 DEF KernelOK, Task
  <2>3. Stopped(t) => task[t].stop # "exec"
    BY <2>1 DEF CallInv, CurStopsFor
  <2>4. Stopped(ch) => ch \in news \/ ch = t
    BY <2>2 DEF StopInv, StopsKnown
  <2>5. \A u \in {ch, t} : Stopped(u) /\ task[u].stop = "exec" => u \in swallowed'
    BY <2>1, <2>3, <2>4
  <2> HIDE DEF ch
  <2> QED BY <1>0, <2>1, <2>5, HandledCalls
<1> QED
  BY <1>1, <1>2, <1>3, <1>4, <1>5, <1>6, <1>7 DEF Tracer, Handle

(* The invariant of the calls holds as long as no thread but a leader       *)
(* execs.                                                                   *)
LEMMA CallsFollowed ==
  ASSUME ~ThreadExec
  PROVE  Spec => []CallInv
<1>1. Init => CallInv
  <2> SUFFICES ASSUME Init PROVE CallInv
    OBVIOUS
  <2>1. \A t \in Tid : /\ task[t].mode \in {"none", "running"} /\ task[t].n = 0
                       /\ task[t].at \in {"user", "born"} /\ task[t].call = NoCall(t)
    BY DEF Init, KernelInit, Fresh
  <2>2. cur = NoStop /\ ran = {} /\ finished = {}
    BY DEF Init, KernelInit
  <2>3. OwnCall
    <3>1. \A t \in Tid : NoCall(t).by = t /\ NoCall(t).n = 0
      BY DEF NoCall
    <3> QED BY <2>1, <3>1 DEF OwnCall
  <2>4. CurStopsFor /\ CallsPast /\ ExecsTracked
    BY <2>2 DEF CurStopsFor, CallsPast, ExecsTracked
  <2>5. StopOfPlace /\ ForkedName
    BY <2>1 DEF StopOfPlace, ForkedName, Stopped, RunningAt
  <2>6. LeavingExec
    BY <2>2 DEF LeavingExec
  <2> QED BY <2>3, <2>4, <2>5, <2>6 DEF CallInv
<1>2. TypeOK /\ StopInv /\ CallInv /\ [Next]_vars => CallInv'
  <2> SUFFICES ASSUME TypeOK, StopInv, CallInv, [Next]_vars PROVE CallInv'
    OBVIOUS
  <2>1. CASE Tracer
    BY <2>1, TracerCalls
  <2>2. CASE Tracees
    <3>1. KernelOK /\ cur.tid \in Tid /\ StopOfMode
      BY TypeOKSplit DEF TracerOK, StopInv
    <3> QED BY <2>2, <3>1, StepShapes, StepCalls DEF Tracees, history
  <2>3. CASE Exited \/ UNCHANGED vars
    BY <2>3 DEF Exited, vars, kernel, history, CallInv, CurStopsFor, OwnCall, StopOfPlace,
           ForkedName, CallsPast, Past, LeavingExec, ExecsTracked, Alive, Stopped, RunningAt
  <2> QED BY <2>1, <2>2, <2>3 DEF Next
<1> QED BY <1>1, <1>2, TypeCorrect, StopsStand, PTL DEF Spec

(* PTRACE_EVENT_EXEC: the state tracker hears of every execve that replaced  *)
(* an image and returned, unless the thread's stop was swallowed by the fork *)
(* event of its parent, as long as only group leaders exec.                  *)
THEOREM ExecsHeard ==
  ASSUME ~ThreadExec
  PROVE  Spec => []ExecsTracked
<1>1. CallInv => ExecsTracked
  BY DEF CallInv
<1> QED BY <1>1, CallsFollowed, PTL

-----------------------------------------------------------------------------
(* How tracees are resumed, and whose children are still to be announced.   *)

(* With a seccomp program a tracee is watched only from a filtered entry to *)
(* its next stop; without one it always is.                                 *)
Watched ==
  \A t \in Tid :
    /\ BpfFilter = {} => task[t].watch = "syscall"
    /\ BpfFilter # {} /\ Alive(t) =>
         /\ task[t].stop # "entry"
         /\ task[t].at \in {"born", "user"} /\ task[t].stop # "exit" => task[t].watch = "cont"
    /\ task[t].stop = "exit" => task[t].watch = "syscall"

(* A call is skipped only after its entry stop was handled.                 *)
SkippedLater == \A t \in Tid : Stopped(t) /\ task[t].stop \in {"entry", "seccomp"} => ~task[t].skip

(* The parent's event for its child is still to be handled.                 *)
Awaits(t) == RunningAt(t, "forked") \/ (Stopped(t) /\ task[t].stop \in {"fork", "clone"})

(* Two parents whose forks are still to be handled have different children, *)
(* which were born.                                                         *)
ChildrenApart ==
  \A t \in Tid : Awaits(t) =>
    /\ task[task[t].child].mode # "none"
    /\ \A u \in Tid : Awaits(u) /\ task[u].child = task[t].child => u = t

(* The inductive invariant of the ways the tracees are resumed.             *)
PlaceInv == Watched /\ SkippedLater /\ ChildrenApart

(* A step of a tracee keeps how the tracees are watched.                    *)
LEMMA StepPlaces ==
  ASSUME KernelOK, StopInv, CallInv, PlaceInv, NEW t \in Tid, StepShape(t)
  PROVE  PlaceInv'
<1>0. \A u \in Tid : /\ task[u].child \in Tid /\ task[u].at \in Places
                     /\ task[u].watch \in {"syscall", "cont"}
  BY CallTypes
<1>1. PlainWatch = IF BpfFilter = {} THEN "syscall" ELSE "cont"
  BY DEF PlainWatch
<1>2. ASSUME NEW c \in Names, Enters(t, c) PROVE PlaceInv'
  <2>1. Watched'
    BY <1>0, <1>2 DEF PlaceInv, Watched, Enters, EntryStop, Alive, RunningAt
  <2>2. SkippedLater'
    BY <1>2 DEF PlaceInv, SkippedLater, Enters, Stopped
  <2>3. ChildrenApart'
    BY <1>0, <1>2 DEF PlaceInv, ChildrenApart, Enters, EntryStop, Awaits, Stopped, RunningAt
  <2> QED BY <2>1, <2>2, <2>3 DEF PlaceInv
<1>3. ASSUME NEW from, NEW to, NEW s, Moves(t, from, to, s), from \in Places, to # "forked",
             s \notin {"entry", "seccomp"},
             s = "exit" => task[t].watch = "syscall",
             to \in {"born", "user"} /\ s # "exit" =>
               from \in {"born", "user"} \/ task[t].watch = "cont",
             s \in {"fork", "clone"} => from = "forked"
      PROVE  PlaceInv'
  <2>1. Watched'
    BY <1>0, <1>3 DEF PlaceInv, Watched, Moves, Alive, RunningAt
  <2>2. SkippedLater'
    BY <1>3 DEF PlaceInv, SkippedLater, Moves, Stopped
  <2>3. ChildrenApart'
    <3>1. \A u \in Tid : /\ Awaits(u)' => Awaits(u)
                         /\ task'[u].child = task[u].child
                         /\ task[u].mode # "none" => task'[u].mode # "none"
      BY <1>3 DEF Moves, Awaits, RunningAt, Stopped
    <3> QED BY <1>0, <3>1 DEF PlaceInv, ChildrenApart
  <2> QED BY <2>1, <2>2, <2>3 DEF PlaceInv
<1>4. ASSUME NEW ch \in Tid, Forks(t, ch) PROVE PlaceInv'
  <2>1. Watched'
    BY <1>0, <1>1, <1>4 DEF PlaceInv, Watched, Forks, Alive, RunningAt
  <2>2. SkippedLater'
    BY <1>4 DEF PlaceInv, SkippedLater, Forks, Stopped
  <2>3. ChildrenApart'
    <3>1. \A u \in Tid : /\ Awaits(u)' => u = t \/ (Awaits(u) /\ task'[u].child = task[u].child)
                         /\ task[u].mode # "none" => task'[u].mode # "none"
      BY <1>4 DEF Forks, Awaits, RunningAt, Stopped
    <3>2. task'[t].child = ch /\ task'[ch].mode # "none"
      BY <1>4 DEF Forks
    <3>3. \A u \in Tid : Awaits(u) => task[u].child # ch
      BY <1>4 DEF PlaceInv, ChildrenApart, Forks
    <3> QED BY <1>0, <3>1, <3>2, <3>3 DEF PlaceInv, ChildrenApart
  <2> QED BY <2>1, <2>2, <2>3 DEF PlaceInv
<1>5. ASSUME Execs(t) PROVE PlaceInv'
  <2>1. Watched'
    BY <1>0, <1>5 DEF PlaceInv, Watched, Execs, DiesOrStays, Fates, Alive, RunningAt
  <2>2. SkippedLater'
    BY <1>5 DEF PlaceInv, SkippedLater, Execs, DiesOrStays, Stopped
  <2>3. ChildrenApart'
    <3>1. \A u \in Tid : /\ Awaits(u)' => Awaits(u)
                         /\ task'[u].child = task[u].child
                         /\ task[u].mode # "none" => task'[u].mode # "none"
      BY <1>5 DEF Execs, DiesOrStays, Awaits, RunningAt, Stopped
    <3> QED BY <1>0, <3>1 DEF PlaceInv, ChildrenApart
  <2> QED BY <2>1, <2>2, <2>3 DEF PlaceInv
<1>6. ASSUME Ends(t) PROVE PlaceInv'
  <2>1. Watched'
    BY <1>0, <1>6 DEF PlaceInv, Watched, Ends, DiesOrStays, Fates, Alive
  <2>2. SkippedLater'
    BY <1>6 DEF PlaceInv, SkippedLater, Ends, DiesOrStays, Stopped
  <2>3. ChildrenApart'
    <3>1. \A u \in Tid : /\ Awaits(u)' => Awaits(u)
                         /\ task'[u].child = task[u].child
                         /\ task[u].mode # "none" => task'[u].mode # "none"
      BY <1>6 DEF Ends, DiesOrStays, Awaits, RunningAt, Stopped
    <3> QED BY <1>0, <3>1 DEF PlaceInv, ChildrenApart
  <2> QED BY <2>1, <2>2, <2>3 DEF PlaceInv
<1>7. ASSUME Moves(t, "sys", "leaving", "none") PROVE PlaceInv'
  BY <1>3, <1>7 DEF Places
<1>8. ASSUME NEW s \in {"fork", "clone"}, Moves(t, "forked", "leaving", s) PROVE PlaceInv'
  BY <1>3, <1>8 DEF Places
<1>9. ASSUME Moves(t, "born", "user", "sigstop") \/ Moves(t, "user", "user", "signal")
             \/ Moves(t, "user", "user", "sigstop")
      PROVE  PlaceInv'
  BY <1>3, <1>9 DEF Places
<1>10. ASSUME Moves(t, "leaving", "user", IF task[t].watch = "syscall" THEN "exit" ELSE "none")
       PROVE  PlaceInv'
  BY <1>0, <1>3, <1>10 DEF Places
<1> QED
  BY <1>2, <1>4, <1>5, <1>6, <1>7, <1>8, <1>9, <1>10 DEF StepShape

(* Resuming the tracees of T, watched only out of a seccomp stop.           *)
LEMMA ResumePlaces ==
  ASSUME KernelOK, StopInv, CallInv, PlaceInv,
         NEW T, NEW w, NEW cancel, NEW d, ResumeAll(T, w, cancel, d),
         w = PlainWatch \/ (w = "syscall" /\ \A u \in T : Stopped(u) => task[u].stop = "seccomp")
  PROVE  PlaceInv'
<1>0. \A u \in Tid : task[u].child \in Tid /\ task[u].at \in Places
  BY CallTypes
<1>1. \A u \in Tid :
        /\ ~(u \in T /\ Stopped(u)) => task'[u] = task[u]
        /\ u \in T /\ Stopped(u) => /\ task'[u].mode = "running" /\ task'[u].stop = "none"
                                    /\ task'[u].watch = w
        /\ task'[u].at = task[u].at /\ task'[u].child = task[u].child
  BY ResumeFields
<1>2. \A u \in Tid : Stopped(u) => task[u].at # "forked" /\ task[u].mode # "none"
  BY DEF StopInv, StopOfMode, TraceStops, CallInv, StopOfPlace, Stopped
<1>3. \A u \in Tid : Stopped(u) /\ task[u].stop = "seccomp" => task[u].at = "sys"
  BY DEF CallInv, StopOfPlace
<1>4. Watched'
  BY <1>0, <1>1, <1>3 DEF PlaceInv, Watched, PlainWatch, Alive, Stopped
<1>5. SkippedLater'
  BY <1>1 DEF PlaceInv, SkippedLater, Stopped
<1>6. ChildrenApart'
  <2>1. \A u \in Tid : /\ Awaits(u)' => Awaits(u)
                       /\ task[u].mode # "none" => task'[u].mode # "none"
    BY <1>1, <1>2 DEF Awaits, RunningAt, Stopped
  <2> QED BY <1>0, <1>1, <2>1 DEF PlaceInv, ChildrenApart
<1> QED BY <1>4, <1>5, <1>6 DEF PlaceInv

(* Every step of the tracer keeps how the tracees are watched.              *)
LEMMA TracerPlaces ==
  ASSUME TypeOK, StopInv, CallInv, PlaceInv, Tracer
  PROVE  PlaceInv'
<1>0. /\ KernelOK /\ cur.tid \in Tid
      /\ \A u \in Tid : task[u].child \in Tid
  BY TypeOKSplit, CallTypes DEF TracerOK
<1>1. CASE HandleEntry \/ HandleExit \/ HandlerFails \/ HandleFork \/ HandleExec \/ HandleSignal
  <2>1. \E T, cancel, d : ResumeAll(T, PlainWatch, cancel, d)
    BY <1>1 DEF HandleEntry, HandleExit, HandlerFails, HandleFork, HandleExec, HandleSignal,
           BeginSyscall, CompleteSyscall, Resume
  <2> QED BY <1>0, <2>1, ResumePlaces
<1>2. CASE HandleSeccomp
  <2>1. /\ cur # NoStop /\ cur.stop = "seccomp"
        /\ \E cancel : ResumeAll({cur.tid}, "syscall", cancel, {})
    BY <1>2 DEF HandleSeccomp, Handling, BeginSyscall
  <2>2. \A u \in {cur.tid} : Stopped(u) => task[u].stop = "seccomp"
    BY <2>1 DEF CallInv, CurStopsFor
  <2> QED BY <1>0, <2>1, <2>2, ResumePlaces
<1>3. CASE LoopEnds \/ HandleDeath \/ HandleForkFails
  <2>1. task' = task
    BY <1>3 DEF LoopEnds, HandleDeath, HandleForkFails, kernel
  <2> QED BY <2>1 DEF PlaceInv, Watched, SkippedLater, ChildrenApart, Awaits, Alive, Stopped,
             RunningAt
<1>4. CASE Detach \/ TracerExit \/ \E t \in Tid : Wait(t)
  <2>1. \A u \in Tid :
          /\ task'[u] = task[u] \/ (~Alive(u)' /\ task'[u].mode # "none" /\ task'[u].stop # "exit")
             \/ (~Alive(u)' /\ task'[u].mode # "none" /\ task'[u].stop = task[u].stop)
          /\ task'[u].child = task[u].child /\ task'[u].watch = task[u].watch
    <3>1. CASE Detach
      BY <1>0, <3>1, DetachFields DEF Alive
    <3>2. CASE TracerExit
      <4>1. task' = Dead({u \in Tid : Alive(u)}, "exitkill")
        BY <3>2 DEF TracerExit
      <4> QED BY <1>0, <4>1, DeadFields DEF Alive
    <3>3. ASSUME NEW t \in Tid, Wait(t)
          PROVE  \A u \in Tid :
                   /\ task'[u] = task[u] \/ (task'[u].mode = "reaped" /\ task'[u].stop = task[u].stop)
                   /\ task'[u].child = task[u].child /\ task'[u].watch = task[u].watch
      BY <1>0, <3>3 DEF Wait, KernelOK, Task
    <3> QED BY <1>4, <3>1, <3>2, <3>3 DEF Alive
  <2>2. Watched'
    BY <2>1 DEF PlaceInv, Watched, Alive
  <2>3. SkippedLater'
    BY <2>1 DEF PlaceInv, SkippedLater, Alive, Stopped
  <2>4. ChildrenApart'
    <3>1. \A u \in Tid : /\ Awaits(u)' => Awaits(u)
                         /\ task[u].mode # "none" => task'[u].mode # "none"
      BY <2>1 DEF Awaits, RunningAt, Stopped, Alive
    <3> QED BY <1>0, <2>1, <3>1 DEF PlaceInv, ChildrenApart
  <2> QED BY <2>2, <2>3, <2>4 DEF PlaceInv
<1> QED BY <1>1, <1>2, <1>3, <1>4 DEF Tracer, Handle

(* Before its parent's event is handled a child is there, and watched as    *)
(* the seccomp program, or its absence, has it.                             *)
LEMMA PlacesFollowed ==
  ASSUME ~ThreadExec
  PROVE  Spec => []PlaceInv
<1>1. Init => PlaceInv
  <2> SUFFICES ASSUME Init PROVE PlaceInv
    OBVIOUS
  <2>1. \A t \in Tid : /\ task[t].mode \in {"none", "running"} /\ task[t].stop = "none"
                       /\ task[t].at \in {"user", "born"} /\ task[t].watch = PlainWatch
    BY DEF Init, KernelInit, Fresh
  <2> QED BY <2>1 DEF PlaceInv, Watched, SkippedLater, ChildrenApart, Awaits, PlainWatch, Stopped,
             RunningAt
<1>2. TypeOK /\ StopInv /\ CallInv /\ PlaceInv /\ [Next]_vars => PlaceInv'
  <2> SUFFICES ASSUME TypeOK, StopInv, CallInv, PlaceInv, [Next]_vars PROVE PlaceInv'
    OBVIOUS
  <2>1. CASE Tracer
    BY <2>1, TracerPlaces
  <2>2. CASE Tracees
    <3>1. KernelOK /\ StopOfMode
      BY TypeOKSplit DEF StopInv
    <3> QED BY <2>2, <3>1, StepShapes, StepPlaces DEF Tracees
  <2>3. CASE Exited \/ UNCHANGED vars
    BY <2>3 DEF Exited, vars, kernel, PlaceInv, Watched, SkippedLater, ChildrenApart, Awaits,
           Alive, Stopped, RunningAt
  <2> QED BY <2>1, <2>2, <2>3 DEF Next
<1> QED BY <1>1, <1>2, TypeCorrect, StopsStand, CallsFollowed, PTL DEF Spec

-----------------------------------------------------------------------------
(* What a pending entry says of the call its thread is in.                  *)

(* The tracer can tell an exit stop from an entry stop: the kernel says so, *)
(* or entries are reported by a seccomp program and never as plain stops.   *)
ExitsTold == SyscallInfo \/ BpfFilter # {}

(* The entry stop of the call that t is in is over, its exit stop is not.   *)
Begun(t) ==
  \/ task[t].at \in {"sys", "forked", "leaving"} /\ task[t].stop \notin {"entry", "seccomp"}
  \/ task[t].stop = "exit"

(* A task that is not born has no pending entry.                            *)
NotBornYet == \A t \in Tid : task[t].mode = "none" => pending[t] = NoEvent

(* A pending entry is kept under the task that made the call.               *)
PendingOwn == \A t \in Tid : pending[t] # NoEvent => pending[t].tid = t

(* If the exit stop of t's call is to come, the pending entry is that       *)
(* call's, and shows as injected exactly a call that is skipped.            *)
PendingOfCall ==
  \A t \in Tid :
    Alive(t) /\ Begun(t) /\ task[t].watch = "syscall" /\ pending[t] # NoEvent =>
      /\ pending[t].call = task[t].call
      /\ task[t].at = "sys" => (pending[t].injected <=> task[t].skip)
      /\ task[t].at # "sys" => (pending[t].injected <=> task[t].call \notin ran)

(* An exit stop of a child that its parent's event may still swallow leaves *)
(* no entry behind that an unpaired exit could complete.                    *)
PendingOfAwaited ==
  BpfFilter = {} =>
    \A t \in Tid : Awaits(t) /\ Alive(task[t].child) /\ pending[task[t].child] # NoEvent =>
      Begun(task[t].child)

(* An event that was emitted pairs the entry and the exit of one call, and  *)
(* shows it as injected exactly if it was not executed.                     *)
EventsTrue ==
  \A e \in events : /\ Past(e.exit)
                    /\ e.entry.call = e.exit /\ e.entry.tid = e.exit.by
                    /\ e.entry.injected <=> e.exit \notin ran

(* The inductive invariant of the pending entries and the events.           *)
EventInv ==
  /\ NotBornYet
  /\ PendingOwn
  /\ PendingOfCall
  /\ PendingOfAwaited
  /\ EventsTrue

(* A step of a tracee leaves the pending entries and the events true.       *)
LEMMA StepEvents ==
  ASSUME TypeOK, StopInv, CallInv, PlaceInv, EventInv, NEW t \in Tid, StepShape(t),
         UNCHANGED <<pending, events>>
  PROVE  EventInv'
<1>0. /\ KernelOK /\ PendingOwn'
      /\ \A e \in events : e.exit.by \in Tid /\ e.exit.n \in Nat
      /\ \A u \in Tid : /\ task[u].child \in Tid /\ task[u].n \in Nat
                        /\ task[u].at \in Places /\ task[u].watch \in {"syscall", "cont"}
                        /\ task[u].skip \in BOOLEAN
                        /\ task[u].call.by = u /\ task[u].call.n = task[u].n
  BY TypeOKSplit, CallTypes
  DEF TypeOK, Completed, Call, CallInv, OwnCall, EventInv, PendingOwn
<1>1. ASSUME RunningAt(t, "sys")
      PROVE  task[t].call \notin ran /\ \A e \in events : e.exit # task[t].call
  BY <1>0, <1>1 DEF CallInv, CallsPast, EventInv, EventsTrue, Past, RunningAt, Alive
<1>2. ASSUME NEW c \in Names, Enters(t, c) PROVE EventInv'
  <2>1. NotBornYet'
    BY <1>2 DEF EventInv, NotBornYet, Enters, RunningAt
  <2>2. PendingOfCall'
    BY <1>2 DEF EventInv, PendingOfCall, Enters, EntryStop, Alive, Begun
  <2>3. PendingOfAwaited'
    <3>1. BpfFilter = {} => task[t].watch = "syscall"
      BY DEF PlaceInv, Watched
    <3>2. ~Begun(t) /\ Alive(t)
      BY <1>2 DEF Enters, RunningAt, Begun, Alive
    <3>3. BpfFilter = {} => ~Awaits(t)' /\ \A u \in Tid \ {t} : Awaits(u)' <=> Awaits(u)
      BY <1>2, <3>1 DEF Enters, EntryStop, Awaits, RunningAt, Stopped
    <3>4. \A u \in Tid : u # t => task'[u] = task[u]
      BY <1>2 DEF Enters
    <3> QED BY <1>0, <3>2, <3>3, <3>4 DEF EventInv, PendingOfAwaited, Alive, Begun
  <2>4. EventsTrue'
    BY <1>0, <1>2 DEF EventInv, EventsTrue, Past, Enters, RunningAt, Alive
  <2> QED BY <1>0, <2>1, <2>2, <2>3, <2>4 DEF EventInv
<1>3. ASSUME NEW from \in Places, NEW to \in {"leaving", "user"}, NEW s, Moves(t, from, to, s),
             s \notin {"entry", "seccomp"},
             s \in {"fork", "clone"} => from = "forked",
             to = "leaving" => from \in {"sys", "forked"},
             to = "user" => from \in {"born", "user", "leaving"},
             to = "user" => (s = "exit" <=> from = "leaving" /\ task[t].watch = "syscall"),
             ran' = ran \/ (from = "sys" /\ ran' = ran \cup {task[t].call}),
             from = "sys" => (task[t].skip <=> ran' = ran)
      PROVE  EventInv'
  <2>1. NotBornYet'
    BY <1>3 DEF EventInv, NotBornYet, Moves, RunningAt
  <2>2. PendingOfCall'
    <3> SUFFICES ASSUME NEW u \in Tid, Alive(u)', Begun(u)', task'[u].watch = "syscall",
                        pending[u] # NoEvent
                 PROVE  /\ pending[u].call = task'[u].call
                        /\ task'[u].at = "sys" => (pending[u].injected <=> task'[u].skip)
                        /\ task'[u].at # "sys" => (pending[u].injected <=> task'[u].call \notin ran')
      BY DEF PendingOfCall
    <3>1. CASE u = t
      <4>1. Alive(t) /\ Begun(t) /\ task[t].watch = "syscall" /\ from \notin {"born", "user"}
        BY <1>3, <3>1 DEF Moves, RunningAt, Alive, Begun
      <4>2. /\ pending[t].call = task[t].call
            /\ from = "sys" => (pending[t].injected <=> task[t].skip)
            /\ from # "sys" => (pending[t].injected <=> task[t].call \notin ran)
        BY <1>3, <3>1, <4>1 DEF EventInv, PendingOfCall, Moves, RunningAt
      <4>3. from = "sys" => task[t].call \notin ran
        BY <1>1, <1>3 DEF Moves
      <4> QED BY <1>3, <3>1, <4>2, <4>3 DEF Moves
    <3>2. CASE u # t
      <4>1. task'[u] = task[u] /\ task[u].call # task[t].call
        BY <1>0, <1>3, <3>2 DEF Moves
      <4>2. Alive(u) /\ Begun(u)
        BY <4>1 DEF Alive, Begun
      <4> QED BY <1>3, <4>1, <4>2 DEF EventInv, PendingOfCall
    <3> QED BY <3>1, <3>2
  <2>3. PendingOfAwaited'
    <3>1. /\ BpfFilter = {} => task[t].watch = "syscall"
          /\ \A u \in Tid : u # t => task'[u] = task[u]
          /\ \A u \in Tid : Awaits(u)' => Awaits(u) /\ task'[u].child = task[u].child
      BY <1>3 DEF PlaceInv, Watched, Moves, Awaits, RunningAt, Stopped
    <3>2. Alive(t) /\ (BpfFilter = {} /\ Begun(t) => Begun(t)')
      BY <1>3, <3>1 DEF Moves, RunningAt, Begun, Alive
    <3> QED BY <1>0, <3>1, <3>2 DEF EventInv, PendingOfAwaited, Alive, Begun
  <2>4. EventsTrue'
    <3>1. \A e \in events : Past(e.exit) => Past(e.exit)'
      BY <1>0, <1>3 DEF Past, Moves, RunningAt, Alive
    <3>2. \A e \in events : e.exit \in ran' <=> e.exit \in ran
      BY <1>1, <1>3 DEF Moves
    <3> QED BY <3>1, <3>2 DEF EventInv, EventsTrue
  <2> QED BY <1>0, <2>1, <2>2, <2>3, <2>4 DEF EventInv
<1>4. ASSUME NEW ch \in Tid, Forks(t, ch) PROVE EventInv'
  <2>1. NotBornYet'
    BY <1>4 DEF EventInv, NotBornYet, Forks, RunningAt
  <2>2. PendingOfCall'
    <3> SUFFICES ASSUME NEW u \in Tid, Alive(u)', Begun(u)', task'[u].watch = "syscall",
                        pending[u] # NoEvent
                 PROVE  /\ pending[u].call = task'[u].call
                        /\ task'[u].at = "sys" => (pending[u].injected <=> task'[u].skip)
                        /\ task'[u].at # "sys" => (pending[u].injected <=> task'[u].call \notin ran')
      BY DEF PendingOfCall
    <3>1. CASE u = t
      <4>1. Alive(t) /\ Begun(t) /\ task[t].watch = "syscall"
        BY <1>4, <3>1 DEF Forks, RunningAt, Alive, Begun
      <4>2. pending[t].call = task[t].call /\ (pending[t].injected <=> task[t].skip)
        BY <1>4, <3>1, <4>1 DEF EventInv, PendingOfCall, Forks, RunningAt
      <4> QED BY <1>4, <3>1, <4>2 DEF Forks
    <3>2. u # ch
      BY <1>4 DEF Forks, Begun
    <3>3. CASE u # t
      <4>1. task'[u] = task[u] /\ task[u].call # task[t].call
        BY <1>0, <1>4, <3>2, <3>3 DEF Forks
      <4>2. Alive(u) /\ Begun(u)
        BY <4>1 DEF Alive, Begun
      <4> QED BY <1>4, <4>1, <4>2 DEF EventInv, PendingOfCall, Forks
    <3> QED BY <3>1, <3>3
  <2>3. PendingOfAwaited'
    <3>1. /\ Begun(t)' /\ Alive(t) /\ task'[t].child = ch /\ ch # t /\ pending[ch] = NoEvent
          /\ \A u \in Tid : u \notin {t, ch} => task'[u] = task[u]
          /\ \A u \in Tid : Awaits(u)' => u = t \/ (Awaits(u) /\ task'[u].child = task[u].child)
      BY <1>4 DEF Forks, Awaits, RunningAt, Stopped, Begun, Alive, EventInv, NotBornYet
    <3>2. \A u \in Tid : Awaits(u) => task[u].child # ch
      BY <1>4 DEF PlaceInv, ChildrenApart, Forks
    <3> QED BY <1>0, <3>1, <3>2 DEF EventInv, PendingOfAwaited, Alive, Begun
  <2>4. EventsTrue'
    <3>1. \A e \in events : Past(e.exit) => e.exit.by # ch /\ Past(e.exit)'
      BY <1>0, <1>4 DEF Past, Forks, RunningAt, Alive
    <3>2. \A e \in events : e.exit \in ran' <=> e.exit \in ran
      BY <1>1, <1>4 DEF Forks
    <3> QED BY <3>1, <3>2 DEF EventInv, EventsTrue
  <2> QED BY <1>0, <2>1, <2>2, <2>3, <2>4 DEF EventInv
<1>5. ASSUME Execs(t) PROVE EventInv'
  <2>1. NotBornYet'
    BY <1>5 DEF EventInv, NotBornYet, Execs, DiesOrStays, RunningAt
  <2>2. PendingOfCall'
    <3> SUFFICES ASSUME NEW u \in Tid, Alive(u)', Begun(u)', task'[u].watch = "syscall",
                        pending[u] # NoEvent
                 PROVE  /\ pending[u].call = task'[u].call
                        /\ task'[u].at = "sys" => (pending[u].injected <=> task'[u].skip)
                        /\ task'[u].at # "sys" => (pending[u].injected <=> task'[u].call \notin ran')
      BY DEF PendingOfCall
    <3>1. CASE u = t
      <4>1. Alive(t) /\ Begun(t) /\ task[t].watch = "syscall"
        BY <1>5, <3>1 DEF Execs, RunningAt, Alive, Begun
      <4>2. pending[t].call = task[t].call /\ (pending[t].injected <=> task[t].skip)
        BY <1>5, <3>1, <4>1 DEF EventInv, PendingOfCall, Execs, RunningAt
      <4> QED BY <1>5, <3>1, <4>2 DEF Execs
    <3>2. CASE u # t
      <4>1. task'[u] = task[u] /\ task[u].call # task[t].call
        BY <1>0, <1>5, <3>2 DEF Execs, DiesOrStays, Alive
      <4>2. Alive(u) /\ Begun(u)
        BY <4>1 DEF Alive, Begun
      <4> QED BY <1>5, <4>1, <4>2 DEF EventInv, PendingOfCall, Execs
    <3> QED BY <3>1, <3>2
  <2>3. PendingOfAwaited'
    <3>1. /\ Begun(t)' /\ Alive(t)
          /\ \A u \in Tid : u # t /\ Alive(u)' => task'[u] = task[u]
          /\ \A u \in Tid : Awaits(u)' => Awaits(u) /\ task'[u].child = task[u].child
      BY <1>5 DEF Execs, DiesOrStays, Awaits, RunningAt, Stopped, Begun, Alive
    <3> QED BY <1>0, <3>1 DEF EventInv, PendingOfAwaited, Alive, Begun
  <2>4. EventsTrue'
    <3>1. \A e \in events : Past(e.exit) => Past(e.exit)'
      BY <1>0, <1>5 DEF Past, Execs, DiesOrStays, RunningAt, Alive
    <3>2. \A e \in events : e.exit \in ran' <=> e.exit \in ran
      BY <1>1, <1>5 DEF Execs
    <3> QED BY <3>1, <3>2 DEF EventInv, EventsTrue
  <2> QED BY <1>0, <2>1, <2>2, <2>3, <2>4 DEF EventInv
<1>6. ASSUME Ends(t) PROVE EventInv'
  <2>0. \A u \in Tid : /\ Alive(u)' => Alive(u) /\ task'[u] = task[u]
                       /\ Awaits(u)' => Awaits(u)
                       /\ task'[u].mode = "none" <=> task[u].mode = "none"
    BY <1>6 DEF Ends, DiesOrStays, Awaits, RunningAt, Stopped, Alive
  <2>1. NotBornYet'
    BY <2>0 DEF EventInv, NotBornYet
  <2>2. PendingOfCall'
    <3>1. \A u \in Tid : Alive(u)' => (task[u].call \in ran' <=> task[u].call \in ran)
      BY <1>0, <1>6 DEF Ends
    <3> QED BY <2>0, <3>1 DEF EventInv, PendingOfCall, Alive, Begun
  <2>3. PendingOfAwaited'
    BY <1>0, <2>0 DEF EventInv, PendingOfAwaited, Alive, Begun, Awaits, RunningAt, Stopped
  <2>4. EventsTrue'
    <3>1. \A e \in events : Past(e.exit) => Past(e.exit)'
      BY <1>0, <1>6 DEF Past, Ends, DiesOrStays, Alive
    <3>2. \A e \in events : e.exit \in ran' <=> e.exit \in ran
      BY <1>1, <1>6 DEF Ends
    <3> QED BY <3>1, <3>2 DEF EventInv, EventsTrue
  <2> QED BY <1>0, <2>1, <2>2, <2>3, <2>4 DEF EventInv
<1>7. ASSUME Moves(t, "sys", "leaving", "none"),
             \/ task[t].skip /\ ran' = ran
             \/ ~task[t].skip /\ ran' = ran \cup {task[t].call}
      PROVE  EventInv'
  <2>1. task[t].call \notin ran
    BY <1>1, <1>7 DEF Moves
  <2> QED BY <1>3, <1>7, <2>1 DEF Places
<1>8. ASSUME NEW s \in {"fork", "clone"}, Moves(t, "forked", "leaving", s), ran' = ran
      PROVE  EventInv'
  BY <1>3, <1>8 DEF Places
<1>9. ASSUME Moves(t, "born", "user", "sigstop") \/ Moves(t, "user", "user", "signal")
             \/ Moves(t, "user", "user", "sigstop"), ran' = ran
      PROVE  EventInv'
  BY <1>3, <1>9 DEF Places
<1>10. ASSUME Moves(t, "leaving", "user", IF task[t].watch = "syscall" THEN "exit" ELSE "none"),
              ran' = ran
       PROVE  EventInv'
  BY <1>3, <1>10 DEF Places
<1> QED
  BY <1>2, <1>4, <1>5, <1>6, <1>7, <1>8, <1>9, <1>10 DEF StepShape

(* Resuming tracees out of stops that neither begin nor complete a call.    *)
LEMMA ResumeEvents ==
  ASSUME TypeOK, StopInv, CallInv, PlaceInv, EventInv, UNCHANGED <<pending, events>>,
         NEW T, NEW d, ResumeAll(T, PlainWatch, {}, d),
         BpfFilter = {} => \A u \in T \cap Tid :
           Stopped(u) /\ task[u].stop \in {"entry", "seccomp"} => pending[u] = NoEvent,
         \A v \in Tid : Awaits(v) /\ ~(v \in T /\ Stopped(v)) =>
           ~(task[v].child \in T /\ Stopped(task[v].child) /\ task[task[v].child].stop = "exit")
  PROVE  EventInv'
<1>0. /\ KernelOK
      /\ \A e \in events : e.exit.by \in Tid
      /\ \A u \in Tid : task[u].child \in Tid /\ task[u].at \in Places
  BY TypeOKSplit, CallTypes DEF TypeOK, Completed, Call
<1>a. ran' = ran
  BY DEF ResumeAll
<1>1. \A u \in Tid :
        /\ ~(u \in T /\ Stopped(u)) => task'[u] = task[u]
        /\ u \in T /\ Stopped(u) => /\ task'[u].mode = "running" /\ task'[u].stop = "none"
                                    /\ task'[u].watch = PlainWatch
                                    /\ task'[u].skip = (task[u].skip \/ u \in {})
        /\ task'[u].at = task[u].at /\ task'[u].call = task[u].call
        /\ task'[u].n = task[u].n /\ task'[u].child = task[u].child
  BY <1>0, ResumeFields
<1>2. \A u \in Tid : Stopped(u) =>
        /\ task[u].at # "forked"
        /\ task[u].stop # "exit" /\ task[u].at \in {"sys", "leaving"} /\
             task[u].stop \notin {"entry", "seccomp"} => Begun(u)
        /\ task[u].at = "sys" => task[u].stop \in {"entry", "seccomp"}
        /\ task[u].at \in {"sys", "forked", "leaving"} => task[u].stop # "exit"
        /\ BpfFilter = {} => task[u].watch = "syscall"
  BY DEF StopInv, StopOfMode, TraceStops, CallInv, StopOfPlace, Stopped, Begun, PlaceInv, Watched
<1>3. NotBornYet' /\ PendingOwn'
  BY <1>1 DEF EventInv, NotBornYet, PendingOwn, Stopped
<1>4. PendingOfCall'
  <2> SUFFICES ASSUME NEW u \in Tid, Alive(u)', Begun(u)', task'[u].watch = "syscall",
                      pending[u] # NoEvent
               PROVE  /\ pending[u].call = task'[u].call
                      /\ task'[u].at = "sys" => (pending[u].injected <=> task'[u].skip)
                      /\ task'[u].at # "sys" => (pending[u].injected <=> task'[u].call \notin ran)
    BY <1>a DEF PendingOfCall
  <2>1. CASE ~(u \in T /\ Stopped(u))
    <3>1. task'[u] = task[u]
      BY <1>1, <2>1
    <3>2. Alive(u) /\ Begun(u)
      BY <3>1 DEF Alive, Begun
    <3> QED BY <3>1, <3>2 DEF EventInv, PendingOfCall
  <2>2. CASE u \in T /\ Stopped(u)
    <3>1. BpfFilter = {} /\ task[u].at \in {"sys", "forked", "leaving"}
      BY <1>1, <2>2 DEF PlainWatch, Begun
    <3>2. Begun(u) /\ task[u].at = "leaving" /\ task[u].watch = "syscall" /\ Alive(u)
      BY <1>2, <2>2, <3>1 DEF Alive, Stopped
    <3> QED BY <1>1, <2>2, <3>2 DEF EventInv, PendingOfCall
  <2> QED BY <2>1, <2>2
<1>5. PendingOfAwaited'
  <2> SUFFICES ASSUME BpfFilter = {}, NEW v \in Tid, Awaits(v)', NEW c \in Tid,
                      c = task'[v].child, Alive(c)', pending[c] # NoEvent
               PROVE  Begun(c)'
    BY <1>0, <1>1 DEF PendingOfAwaited
  <2>1. Awaits(v) /\ ~(v \in T /\ Stopped(v)) /\ c = task[v].child
    BY <1>1, <1>2 DEF Awaits, RunningAt, Stopped
  <2>2. Alive(c)
    BY <1>1 DEF Alive, Stopped
  <2>3. Begun(c)
    BY <2>1, <2>2 DEF EventInv, PendingOfAwaited
  <2>4. CASE ~(c \in T /\ Stopped(c))
    BY <1>1, <2>3, <2>4 DEF Begun
  <2>5. CASE c \in T /\ Stopped(c)
    BY <1>1, <1>2, <2>1, <2>3, <2>5 DEF Begun
  <2> QED BY <2>4, <2>5
<1>6. EventsTrue'
  <2>1. \A e \in events : Past(e.exit) => Past(e.exit)'
    BY <1>0, <1>1 DEF Past, Alive, Stopped
  <2> QED BY <1>a, <2>1 DEF EventInv, EventsTrue
<1> QED BY <1>3, <1>4, <1>5, <1>6 DEF EventInv

(* begin_syscall at an entry, or at an exit whose entry was not seen, when  *)
(* a seccomp program reports the entries.                                   *)
LEMMA BeginEvents ==
  ASSUME TypeOK, StopInv, CallInv, PlaceInv, EventInv, NEW t \in Tid, Stopped(t),
         NEW w, BeginSyscall(t, w), w = PlainWatch \/ w = "syscall",
         \/ task[t].stop \in {"entry", "seccomp"}
         \/ BpfFilter # {} /\ task[t].stop = "exit" /\ w = PlainWatch
  PROVE  EventInv'
<1>0. /\ KernelOK
      /\ \A e \in events : e.exit.by \in Tid
      /\ \A u \in Tid : task[u].child \in Tid /\ task[u].at \in Places
  BY TypeOKSplit, CallTypes DEF TypeOK, Completed, Call
<1>a. /\ ran' = ran /\ events' = events
      /\ pending' = [pending EXCEPT ![t] = EntryEvent(t)]
      /\ ResumeAll({t}, w, Cancelled(t), {})
  BY DEF BeginSyscall, ResumeAll, history
<1>b. /\ \A u \in Tid : u # t => pending'[u] = pending[u]
      /\ pending'[t] = EntryEvent(t)
      /\ EntryEvent(t).tid = t /\ EntryEvent(t).call = task[t].call
      /\ EntryEvent(t).injected = Injects(task[t].call.name)
  BY <1>a DEF TypeOK, EntryEvent
<1>c. t \in Cancelled(t) <=> Injects(task[t].call.name)
  BY DEF Cancelled
<1>1. /\ \A u \in Tid : u # t => task'[u] = task[u]
      /\ task'[t].mode = "running" /\ task'[t].stop = "none" /\ task'[t].watch = w
      /\ task'[t].skip = (task[t].skip \/ t \in Cancelled(t))
      /\ task'[t].at = task[t].at /\ task'[t].call = task[t].call
      /\ task'[t].n = task[t].n /\ task'[t].child = task[t].child
  <2> HIDE DEF BeginSyscall
  <2> QED BY <1>0, <1>a, ResumeFields
<1>2. /\ task[t].stop \in {"entry", "seccomp"} => task[t].at = "sys" /\ ~task[t].skip
      /\ task[t].stop = "exit" => task[t].at = "user"
      /\ Alive(t) /\ task[t].mode # "none"
  BY DEF CallInv, StopOfPlace, PlaceInv, SkippedLater, Alive, Stopped
<1> HIDE DEF BeginSyscall
<1>3. NotBornYet' /\ PendingOwn'
  BY <1>b, <1>1, <1>2 DEF EventInv, NotBornYet, PendingOwn
<1>4. PendingOfCall'
  <2> SUFFICES ASSUME NEW u \in Tid, Alive(u)', Begun(u)', task'[u].watch = "syscall",
                      pending'[u] # NoEvent
               PROVE  /\ pending'[u].call = task'[u].call
                      /\ task'[u].at = "sys" => (pending'[u].injected <=> task'[u].skip)
                      /\ task'[u].at # "sys" =>
                           (pending'[u].injected <=> task'[u].call \notin ran)
    BY <1>a DEF PendingOfCall
  <2>1. CASE u # t
    BY <1>b, <1>1, <2>1 DEF EventInv, PendingOfCall, Alive, Begun
  <2>2. CASE u = t
    <3>1. task[t].at = "sys" /\ ~task[t].skip
      BY <1>1, <1>2, <2>2 DEF Begun
    <3> QED BY <1>b, <1>c, <1>1, <2>2, <3>1
  <2> QED BY <2>1, <2>2
<1>5. PendingOfAwaited'
  <2> SUFFICES ASSUME BpfFilter = {}, NEW v \in Tid, Awaits(v)', NEW c \in Tid,
                      c = task'[v].child, Alive(c)', pending'[c] # NoEvent
               PROVE  Begun(c)'
    BY <1>0, <1>1 DEF PendingOfAwaited
  <2>1. CASE c = t
    BY <1>1, <1>2, <2>1 DEF Begun
  <2>2. CASE c # t
    <3>1. Awaits(v) /\ c = task[v].child /\ task'[c] = task[c] /\ pending'[c] = pending[c]
      BY <1>b, <1>1, <1>2, <2>2 DEF Awaits, RunningAt, Stopped
    <3> QED BY <3>1 DEF EventInv, PendingOfAwaited, Alive, Begun
  <2> QED BY <2>1, <2>2
<1>6. EventsTrue'
  <2>1. \A e \in events : Past(e.exit) => Past(e.exit)'
    BY <1>0, <1>1, <1>2 DEF Past, Alive
  <2> QED BY <1>a, <2>1 DEF EventInv, EventsTrue
<1> QED BY <1>3, <1>4, <1>5, <1>6 DEF EventInv

(* complete_syscall at an exit: the event is about one call.                *)
LEMMA CompleteEvents ==
  ASSUME TypeOK, StopInv, CallInv, PlaceInv, EventInv, NEW t \in Tid, Stopped(t),
         CompleteSyscall(t), task[t].stop = "exit"
  PROVE  EventInv'
<1> PICK done : done = [entry |-> pending[t], exit |-> task[t].call,
                        shown |-> PassesFilter(pending[t].call.name)]
  OBVIOUS
<1>0. /\ KernelOK
      /\ \A e \in events : e.exit.by \in Tid
      /\ \A u \in Tid : task[u].child \in Tid /\ task[u].at \in Places
      /\ task[t].call.by = t /\ task[t].call.n = task[t].n /\ task[t].n \in Nat
  BY TypeOKSplit, CallTypes DEF TypeOK, Completed, Call, CallInv, OwnCall
<1>a. /\ ran' = ran
      /\ events' = events \/ (pending[t] # NoEvent /\ events' = events \cup {done})
      /\ pending' = [pending EXCEPT ![t] = NoEvent]
      /\ ResumeAll({t}, PlainWatch, {}, {})
  BY DEF CompleteSyscall, Resume, ResumeAll
<1>b. /\ \A u \in Tid : u # t => pending'[u] = pending[u]
      /\ pending'[t] = NoEvent
  BY <1>a DEF TypeOK
<1>c. done.entry = pending[t] /\ done.exit = task[t].call
  OBVIOUS
<1> HIDE DEF CompleteSyscall
<1>1. /\ \A u \in Tid : u # t => task'[u] = task[u]
      /\ task'[t].mode = "running" /\ task'[t].stop = "none"
      /\ task'[t].at = task[t].at /\ task'[t].call = task[t].call
      /\ task'[t].n = task[t].n /\ task'[t].child = task[t].child
  BY <1>0, <1>a, ResumeFields
<1>2. task[t].at = "user" /\ Alive(t) /\ task[t].mode # "none" /\ Begun(t)
      /\ task[t].watch = "syscall"
  BY DEF CallInv, StopOfPlace, Alive, Stopped, Begun, PlaceInv, Watched
<1>3. NotBornYet' /\ PendingOwn'
  BY <1>b, <1>1 DEF EventInv, NotBornYet, PendingOwn
<1>4. PendingOfCall'
  BY <1>a, <1>b, <1>1 DEF EventInv, PendingOfCall, Alive, Begun
<1>5. PendingOfAwaited'
  <2>1. \A v \in Tid : Awaits(v)' => Awaits(v) /\ task'[v].child = task[v].child
    BY <1>1, <1>2 DEF Awaits, RunningAt, Stopped
  <2> QED BY <1>0, <1>b, <1>1, <2>1 DEF EventInv, PendingOfAwaited, Alive, Begun
<1>6. EventsTrue'
  <2>1. \A e \in events : Past(e.exit) => Past(e.exit)'
    BY <1>0, <1>1, <1>2 DEF Past, Alive
  <2>2. Past(done.exit)'
    BY <1>0, <1>c, <1>1, <1>2 DEF Past
  <2>3. ASSUME pending[t] # NoEvent
        PROVE  /\ done.entry.call = done.exit
               /\ done.entry.tid = done.exit.by
               /\ done.entry.injected <=> done.exit \notin ran
    <3>1. /\ pending[t].call = task[t].call
          /\ pending[t].injected <=> task[t].call \notin ran
      BY <1>2, <2>3 DEF EventInv, PendingOfCall
    <3>2. pending[t].tid = t
      BY <2>3 DEF EventInv, PendingOwn
    <3> QED BY <1>0, <1>c, <3>1, <3>2
  <2>4. EventsTrue
    BY DEF EventInv
  <2>5. CASE events' = events
    BY <1>a, <2>1, <2>4, <2>5 DEF EventsTrue
  <2>6. CASE pending[t] # NoEvent /\ events' = events \cup {done}
    BY <1>a, <2>1, <2>2, <2>3, <2>4, <2>6 DEF EventsTrue
  <2> QED BY <1>a, <2>5, <2>6
<1> QED BY <1>3, <1>4, <1>5, <1>6 DEF EventInv

(* The steps of mini-strace.                                                *)
LEMMA TracerEvents ==
  ASSUME TypeOK, StopInv, CallInv, PlaceInv, EventInv, ExitsTold, Tracer
  PROVE  EventInv'
<1> DEFINE t == cur.tid
<1>0. /\ KernelOK /\ t \in Tid
      /\ \A e \in events : e.exit.by \in Tid
      /\ \A u \in Tid : task[u].child \in Tid /\ task[u].at \in Places
  BY TypeOKSplit, CallTypes DEF TypeOK, TracerOK, Completed, Call
<1>1. CASE HandlerFails \/ HandleExec \/ HandleSignal
  <2>1. /\ UNCHANGED <<pending, events>> /\ \E d : ResumeAll({t}, PlainWatch, {}, d)
        /\ Stopped(t) => task[t].stop \in {"exec", "sigstop", "signal"}
    BY <1>1 DEF HandlerFails, HandleExec, HandleSignal, PendingAfterExec, Handling, Resume,
                session, history, CallInv, CurStopsFor
  <2>2. PICK d : ResumeAll({t}, PlainWatch, {}, d)
    BY <2>1
  <2> QED BY <1>0, <2>1, <2>2, ResumeEvents
<1>2. CASE HandleFork
  <2> DEFINE ch == task[t].child
  <2>1. /\ UNCHANGED <<pending, events>> /\ ResumeAll({ch, t}, PlainWatch, {}, {})
        /\ Stopped(t) /\ task[t].stop \in {"fork", "clone"} /\ Awaits(t)
    BY <1>2 DEF HandleFork, ForkResumes, Handling, CallInv, CurStopsFor, Awaits
  <2> HIDE DEF t
  <2>2. BpfFilter = {} => \A u \in {ch, t} \cap Tid :
          Stopped(u) /\ task[u].stop \in {"entry", "seccomp"} => pending[u] = NoEvent
    BY <1>0, <2>1 DEF EventInv, PendingOfAwaited, Begun, Alive, Stopped, CallInv, StopOfPlace
  <2>3. \A v \in Tid : Awaits(v) /\ ~(v \in {ch, t} /\ Stopped(v)) =>
          ~(task[v].child \in {ch, t} /\ Stopped(task[v].child) /\ task[task[v].child].stop = "exit")
    BY <1>0, <2>1 DEF PlaceInv, ChildrenApart
  <2> QED BY <2>1, <2>2, <2>3, ResumeEvents
<1>3. CASE HandleEntry
  <2>1. /\ Stopped(t) /\ BeginSyscall(t, PlainWatch) /\ IsEntry(t)
        /\ task[t].stop \in {"entry", "exit"}
    BY <1>3 DEF HandleEntry, Handling, CallInv, CurStopsFor
  <2>2. \/ task[t].stop \in {"entry", "seccomp"}
        \/ BpfFilter # {} /\ task[t].stop = "exit"
    BY <2>1 DEF IsEntry, InfoKind, ExitsTold
  <2> QED BY <1>0, <2>1, <2>2, BeginEvents
<1>4. CASE HandleSeccomp
  <2>1. Stopped(t) /\ BeginSyscall(t, "syscall") /\ task[t].stop = "seccomp"
    BY <1>4 DEF HandleSeccomp, Handling, CallInv, CurStopsFor
  <2> QED BY <1>0, <2>1, BeginEvents
<1>5. CASE HandleExit
  <2>1. /\ Stopped(t) /\ CompleteSyscall(t) /\ ~IsEntry(t)
        /\ task[t].stop \in {"entry", "exit"}
    BY <1>5 DEF HandleExit, Handling, CallInv, CurStopsFor
  <2>2. BpfFilter # {} => task[t].stop # "entry"
    BY <1>0, <2>1 DEF PlaceInv, Watched, Stopped, Alive
  <2>3. task[t].stop = "exit"
    BY <2>1, <2>2 DEF IsEntry, InfoKind, ExitsTold
  <2> QED BY <1>0, <2>1, <2>3, CompleteEvents
<1>6. CASE LoopEnds \/ HandleDeath \/ HandleForkFails
  <2>1. /\ task' = task /\ ran' = ran /\ events' = events
        /\ \A u \in Tid : pending'[u] = pending[u] \/ pending'[u] = NoEvent
    BY <1>6 DEF LoopEnds, HandleDeath, HandleForkFails, kernel, session, history, TypeOK
  <2>2. NotBornYet' /\ PendingOwn' /\ PendingOfCall'
    BY <2>1 DEF EventInv, NotBornYet, PendingOwn, PendingOfCall, Alive, Begun
  <2>3. PendingOfAwaited'
    BY <1>0, <2>1 DEF EventInv, PendingOfAwaited, Awaits, RunningAt, Stopped, Alive, Begun
  <2>4. EventsTrue'
    BY <2>1 DEF EventInv, EventsTrue, Past, Alive
  <2> QED BY <2>2, <2>3, <2>4 DEF EventInv
<1>7. CASE Detach \/ TracerExit \/ \E u \in Tid : Wait(u)
  <2>1. /\ UNCHANGED <<ran, pending, events>>
        /\ \A u \in Tid :
             /\ task'[u] = task[u] \/ (~Alive(u)' /\ task'[u].mode # "none")
             /\ task'[u].child = task[u].child /\ task'[u].n = task[u].n
             /\ task'[u].at = task[u].at
    <3>1. CASE Detach
      BY <1>0, <3>1, DetachFields DEF Alive, Detach, session, history
    <3>2. CASE TracerExit
      <4>1. /\ task' = Dead({u \in Tid : Alive(u)}, "exitkill")
            /\ UNCHANGED <<ran, pending, events>>
        BY <3>2 DEF TracerExit, session, history
      <4> QED BY <1>0, <4>1, DeadFields DEF Alive
    <3>3. ASSUME NEW v \in Tid, Wait(v)
          PROVE  /\ UNCHANGED <<ran, pending, events>>
                 /\ \A u \in Tid :
                      /\ task'[u] = task[u] \/ task'[u].mode = "reaped"
                      /\ task'[u].child = task[u].child /\ task'[u].n = task[u].n
                      /\ task'[u].at = task[u].at
      BY <1>0, <3>3 DEF Wait, KernelOK, Task, session, history
    <3> QED BY <1>7, <3>1, <3>2, <3>3 DEF Alive
  <2>2. NotBornYet' /\ PendingOwn' /\ PendingOfCall'
    BY <2>1 DEF EventInv, NotBornYet, PendingOwn, PendingOfCall, Alive, Begun
  <2>3. PendingOfAwaited'
    <3>1. \A u \in Tid : Awaits(u)' => Awaits(u)
      BY <2>1 DEF Awaits, RunningAt, Stopped, Alive
    <3> QED BY <1>0, <2>1, <3>1 DEF EventInv, PendingOfAwaited, Alive, Begun
  <2>4. EventsTrue'
    <3>1. \A e \in events : Past(e.exit) => Past(e.exit)'
      BY <1>0, <2>1 DEF Past, Alive
    <3> QED BY <2>1, <3>1 DEF EventInv, EventsTrue
  <2> QED BY <2>2, <2>3, <2>4 DEF EventInv
<1> QED BY <1>1, <1>2, <1>3, <1>4, <1>5, <1>6, <1>7 DEF Tracer, Handle

(* Where exits are told from entries, a pending entry is about the call     *)
(* whose exit stop will complete it.                                        *)
LEMMA EventsFollowed ==
  ASSUME ~ThreadExec, ExitsTold
  PROVE  Spec => []EventInv
<1>1. Init => EventInv
  <2> SUFFICES ASSUME Init PROVE EventInv
    OBVIOUS
  <2>1. events = {} /\ \A t \in Tid : pending[t] = NoEvent
    BY DEF Init
  <2>2. \A t \in Tid : ~Awaits(t)
    BY DEF Init, KernelInit, Fresh, Awaits, RunningAt, Stopped
  <2> QED BY <2>1, <2>2 DEF EventInv, NotBornYet, PendingOwn, PendingOfCall, PendingOfAwaited,
             EventsTrue
<1>2. TypeOK /\ StopInv /\ CallInv /\ PlaceInv /\ EventInv /\ [Next]_vars => EventInv'
  <2> SUFFICES ASSUME TypeOK, StopInv, CallInv, PlaceInv, EventInv, [Next]_vars
               PROVE  EventInv'
    OBVIOUS
  <2>1. CASE Tracer
    BY <2>1, TracerEvents
  <2>2. CASE Tracees
    <3>1. KernelOK /\ StopOfMode
      BY TypeOKSplit DEF StopInv
    <3>2. UNCHANGED <<pending, events>>
      BY <2>2 DEF Tracees, session, history
    <3> QED BY <2>2, <3>1, <3>2, StepShapes, StepEvents DEF Tracees
  <2>3. CASE Exited \/ UNCHANGED vars
    <3>1. UNCHANGED <<task, ran, pending, events>>
      BY <2>3 DEF Exited, vars, kernel, session, history
    <3> QED BY <3>1 DEF EventInv, NotBornYet, PendingOwn, PendingOfCall, PendingOfAwaited,
               EventsTrue, Past, Awaits, Begun, Alive, Stopped, RunningAt
  <2> QED BY <2>1, <2>2, <2>3 DEF Next
<1> QED BY <1>1, <1>2, TypeCorrect, StopsStand, CallsFollowed, PlacesFollowed, PTL DEF Spec

(* begin_syscall and complete_syscall: whatever the threads and children do  *)
(* between an entry and an exit, an event is completed by the exit of the    *)
(* call that began it, where the kernel tells entries from exits or a        *)
(* seccomp program reports the entries, and only group leaders exec.         *)
THEOREM EventsPaired ==
  ASSUME ~ThreadExec, ExitsTold
  PROVE  Spec => []PairedByThread
<1>1. EventInv => PairedByThread
  BY DEF EventInv, EventsTrue, PairedByThread
<1> QED BY <1>1, EventsFollowed, PTL

(* apply_entry_injection and the exit it completes: a call is shown as       *)
(* injected exactly when its body was not executed, under the same           *)
(* assumptions.                                                              *)
THEOREM InjectionsTrue ==
  ASSUME ~ThreadExec, ExitsTold
  PROVE  Spec => []InjectedNotExecuted
<1>1. EventInv => InjectedNotExecuted
  BY DEF EventInv, EventsTrue, InjectedNotExecuted
<1> QED BY <1>1, EventsFollowed, PTL

-----------------------------------------------------------------------------
(* Which calls are reported, where PTRACE_SYSCALL_INFO is there and every   *)
(* entry and exit is a stop.                                                *)

(* Between its two stops a call is a pending entry.                         *)
BegunPending ==
  \A t \in Tid : Alive(t) /\ Begun(t) /\ t \notin swallowed => pending[t] # NoEvent

(* CallsReported, said of the thread that made the call.                    *)
FinishedReported ==
  \A c \in finished :
    \/ \E e \in events : e.exit = c
    \/ task[c.by].call = c /\ (task[c.by].stop = "exit" \/ ~Alive(c.by))
    \/ c.by \in swallowed

(* The inductive invariant of the calls that are reported.                  *)
ReportInv == BegunPending /\ FinishedReported

(* The steps of the tracees.                                                *)
LEMMA StepReports ==
  ASSUME TypeOK, StopInv, CallInv, PlaceInv, ReportInv, BpfFilter = {},
         NEW t \in Tid, StepShape(t), UNCHANGED <<pending, events, swallowed>>
  PROVE  ReportInv'
<1>0. /\ \A c \in finished : c.by \in Tid
      /\ \A u \in Tid : /\ task[u].watch = "syscall" /\ task[u].call.by = u
                        /\ Stopped(u) => task[u].stop # "none"
  BY TypeOKSplit, CallTypes
  DEF TypeOK, CallInv, OwnCall, PlaceInv, Watched, StopInv, StopOfMode, TraceStops, Stopped
<1>1. ASSUME NEW c \in Names, Enters(t, c) PROVE ReportInv'
  <2>1. BegunPending'
    BY <1>0, <1>1 DEF ReportInv, BegunPending, Enters, EntryStop, Alive, Begun
  <2>2. FinishedReported'
    BY <1>0, <1>1 DEF ReportInv, FinishedReported, Enters, RunningAt, Alive
  <2> QED BY <2>1, <2>2 DEF ReportInv
<1>2. ASSUME NEW from, NEW to, NEW s, Moves(t, from, to, s),
             to = "leaving" => from \in {"sys", "forked"},
             s = "exit" => from = "leaving", to \in {"leaving", "user"},
             \/ finished' = finished
             \/ s = "exit" /\ finished' = finished \cup {task[t].call}
      PROVE  ReportInv'
  <2>1. BegunPending'
    <3> SUFFICES ASSUME NEW u \in Tid, Alive(u)', Begun(u)', u \notin swallowed
                 PROVE  pending[u] # NoEvent
      BY DEF BegunPending
    <3>1. CASE u = t
      <4>1. Alive(t) /\ Begun(t)
        BY <1>2, <3>1 DEF Moves, RunningAt, Alive, Begun
      <4> QED BY <3>1, <4>1 DEF ReportInv, BegunPending
    <3>2. CASE u # t
      BY <1>2, <3>2 DEF Moves, ReportInv, BegunPending, Alive, Begun
    <3> QED BY <3>1, <3>2
  <2>2. FinishedReported'
    <3> SUFFICES ASSUME NEW c \in finished'
                 PROVE  \/ \E e \in events : e.exit = c
                        \/ /\ task'[c.by].call = c
                           /\ task'[c.by].stop = "exit" \/ ~Alive(c.by)'
                        \/ c.by \in swallowed
      BY DEF FinishedReported
    <3>1. CASE c \in finished
      BY <1>0, <1>2, <3>1 DEF ReportInv, FinishedReported, Moves, RunningAt, Alive
    <3>2. CASE s = "exit" /\ c = task[t].call
      BY <1>0, <1>2, <3>2 DEF Moves
    <3> QED BY <1>2, <3>1, <3>2
  <2> QED BY <2>1, <2>2 DEF ReportInv
<1>3. ASSUME NEW ch \in Tid, Forks(t, ch) PROVE ReportInv'
  <2>1. BegunPending'
    <3>1. Alive(t) /\ Begun(t) /\ ~Begun(ch)'
      BY <1>3 DEF Forks, RunningAt, Alive, Begun
    <3> QED BY <1>3, <3>1 DEF ReportInv, BegunPending, Forks, Alive, Begun
  <2>2. FinishedReported'
    <3>1. \A c \in finished : c.by # ch
      BY <1>3 DEF CallInv, CallsPast, Past, Forks
    <3> QED BY <1>0, <1>3, <3>1 DEF ReportInv, FinishedReported, Forks, RunningAt, Alive
  <2> QED BY <2>1, <2>2 DEF ReportInv
<1>4. ASSUME Execs(t) PROVE ReportInv'
  <2>1. BegunPending'
    <3>1. Alive(t) /\ Begun(t)
      BY <1>4 DEF Execs, RunningAt, Alive, Begun
    <3>2. \A u \in Tid \ {t} : Alive(u)' => task'[u] = task[u]
      BY <1>4 DEF Execs, DiesOrStays, Alive
    <3> QED BY <1>4, <3>1, <3>2 DEF ReportInv, BegunPending, Alive, Begun
  <2>2. FinishedReported'
    <3>1. \A u \in Tid : u # t => /\ task'[u].call = task[u].call
                                  /\ task'[u].stop = task[u].stop \/ ~Alive(u)'
                                  /\ ~Alive(u) => ~Alive(u)'
      BY <1>4 DEF Execs, DiesOrStays, Alive
    <3> QED BY <1>0, <1>4, <3>1 DEF ReportInv, FinishedReported, Execs, RunningAt, Alive
  <2> QED BY <2>1, <2>2 DEF ReportInv
<1>5. ASSUME Ends(t) PROVE ReportInv'
  <2>1. \A u \in Tid : /\ Alive(u)' => Alive(u) /\ task'[u] = task[u]
                       /\ task'[u].call = task[u].call
                       /\ task'[u].stop = task[u].stop \/ ~Alive(u)'
    BY <1>5 DEF Ends, DiesOrStays, Alive
  <2>2. BegunPending'
    BY <2>1 DEF ReportInv, BegunPending, Begun
  <2>3. FinishedReported'
    BY <1>0, <1>5, <2>1 DEF ReportInv, FinishedReported, Ends
  <2> QED BY <2>2, <2>3 DEF ReportInv
<1>6. CASE Moves(t, "sys", "leaving", "none") /\ finished' = finished
  BY <1>2, <1>6
<1>7. CASE (\E s \in {"fork", "clone"} : Moves(t, "forked", "leaving", s)) /\ finished' = finished
  BY <1>2, <1>7
<1>8. CASE (Moves(t, "born", "user", "sigstop") \/ Moves(t, "user", "user", "signal")
            \/ Moves(t, "user", "user", "sigstop"))
             /\ finished' = finished
  BY <1>2, <1>8
<1>9. CASE Moves(t, "leaving", "user", IF task[t].watch = "syscall" THEN "exit" ELSE "none")
             /\ finished' = finished \cup {task[t].call}
  BY <1>0, <1>2, <1>9
<1> QED BY <1>1, <1>3, <1>4, <1>5, <1>6, <1>7, <1>8, <1>9 DEF StepShape

(* A handler that resumes tracees reports the exit stops it resumes from,   *)
(* keeps an entry for the entry stops, or swallowed the stop.               *)
LEMMA ResumeReports ==
  ASSUME TypeOK, StopInv, CallInv, ReportInv,
         NEW T, NEW w, NEW cancel, NEW d, ResumeAll(T, w, cancel, d),
         events \subseteq events', swallowed \subseteq swallowed',
         \A u \in T \cap Tid : Stopped(u) =>
           /\ task[u].stop = "exit" => u \in swallowed' \/ \E e \in events' : e.exit = task[u].call
           /\ task[u].stop \in {"entry", "seccomp"} => u \in swallowed' \/ pending'[u] # NoEvent,
         \A u \in Tid : pending'[u] = NoEvent =>
           pending[u] = NoEvent \/ (u \in T /\ Stopped(u) /\ task[u].stop = "exit")
  PROVE  ReportInv'
<1>0. KernelOK /\ \A c \in finished : c.by \in Tid
  BY TypeOKSplit, CallTypes
<1>a. finished' = finished
  BY DEF ResumeAll
<1>1. \A u \in Tid :
        /\ ~(u \in T /\ Stopped(u)) => task'[u] = task[u]
        /\ u \in T /\ Stopped(u) => task'[u].mode = "running" /\ task'[u].stop = "none"
        /\ task'[u].at = task[u].at /\ task'[u].call = task[u].call
  BY <1>0, ResumeFields
<1>2. BegunPending'
  <2> SUFFICES ASSUME NEW u \in Tid, Alive(u)', Begun(u)', u \notin swallowed'
               PROVE  pending'[u] # NoEvent
    BY DEF BegunPending
  <2>1. CASE ~(u \in T /\ Stopped(u))
    BY <1>1, <2>1 DEF ReportInv, BegunPending, Alive, Begun
  <2>2. CASE u \in T /\ Stopped(u) /\ task[u].stop \in {"entry", "seccomp"}
    BY <2>2
  <2>3. CASE u \in T /\ Stopped(u) /\ task[u].stop \notin {"entry", "seccomp"}
    <3>1. task[u].at \in {"sys", "forked", "leaving"} /\ Alive(u)
      BY <1>1, <2>3 DEF Begun, Alive, Stopped
    <3>2. task[u].stop # "exit" /\ pending[u] # NoEvent
      BY <2>3, <3>1 DEF CallInv, StopOfPlace, ReportInv, BegunPending, Begun
    <3> QED BY <3>2
  <2> QED BY <2>1, <2>2, <2>3
<1>3. FinishedReported'
  <2> SUFFICES ASSUME NEW c \in finished
               PROVE  \/ \E e \in events' : e.exit = c
                      \/ task'[c.by].call = c /\ (task'[c.by].stop = "exit" \/ ~Alive(c.by)')
                      \/ c.by \in swallowed'
    BY <1>a DEF FinishedReported
  <2>1. CASE (\E e \in events : e.exit = c) \/ c.by \in swallowed
    BY <2>1
  <2>2. CASE task[c.by].call = c /\ (task[c.by].stop = "exit" \/ ~Alive(c.by))
    BY <1>0, <1>1, <2>2 DEF Alive, Stopped
  <2> QED BY <2>1, <2>2 DEF ReportInv, FinishedReported
<1> QED BY <1>2, <1>3 DEF ReportInv

(* The steps of mini-strace.                                                *)
LEMMA TracerReports ==
  ASSUME TypeOK, StopInv, CallInv, PlaceInv, ReportInv, SyscallInfo, Tracer
  PROVE  ReportInv'
<1> DEFINE t == cur.tid
<1>0. /\ KernelOK /\ t \in Tid /\ sequence \in Nat /\ pending \in [Tid -> Event]
      /\ \A u \in Tid : task[u].child \in Tid
      /\ \A c \in finished : c.by \in Tid
  BY TypeOKSplit, CallTypes DEF TypeOK, TracerOK
<1>a. EntryEvent(t) # NoEvent
  BY <1>0 DEF EntryEvent, NoEvent
<1>1. CASE HandlerFails \/ HandleExec \/ HandleSignal
  <2>1. /\ UNCHANGED <<pending, events, swallowed>> /\ \E d : ResumeAll({t}, PlainWatch, {}, d)
        /\ Stopped(t) => task[t].stop \in {"exec", "sigstop", "signal"}
    BY <1>1 DEF HandlerFails, HandleExec, HandleSignal, PendingAfterExec, Handling, Resume,
                session, history, CallInv, CurStopsFor
  <2> QED BY <2>1, ResumeReports
<1>2. CASE HandleFork
  <2> DEFINE ch == task[t].child
  <2>1. /\ UNCHANGED <<pending, events>> /\ ResumeAll({ch, t}, PlainWatch, {}, {})
        /\ Stopped(t) /\ task[t].stop \in {"fork", "clone"}
        /\ swallowed' = IF Stopped(ch) /\ ch \in news THEN swallowed \cup {ch} ELSE swallowed
    BY <1>2 DEF HandleFork, ForkResumes, Handling, CallInv, CurStopsFor
  <2>2. Stopped(ch) => ch \in news \/ ch = t
    BY <1>0 DEF StopInv, StopsKnown
  <2> HIDE DEF t, ch
  <2>3. /\ swallowed \subseteq swallowed'
        /\ \A u \in {ch, t} \cap Tid : Stopped(u) =>
             u \in swallowed' \/ task[u].stop \in {"fork", "clone"}
    BY <2>1, <2>2
  <2> QED BY <2>1, <2>3, ResumeReports
<1>3. CASE HandleEntry \/ HandleSeccomp
  <2>1. /\ UNCHANGED <<events, swallowed>> /\ \E w : ResumeAll({t}, w, Cancelled(t), {})
        /\ pending' = [pending EXCEPT ![t] = EntryEvent(t)]
        /\ task[t].stop # "exit"
    BY <1>3 DEF HandleEntry, HandleSeccomp, IsEntry, InfoKind, BeginSyscall, Handling, history,
                CallInv, CurStopsFor
  <2>2. pending'[t] # NoEvent /\ \A u \in Tid : pending'[u] = NoEvent => pending[u] = NoEvent
    BY <1>0, <1>a, <2>1
  <2> QED BY <2>1, <2>2, ResumeReports
<1>4. CASE HandleExit
  <2>1. /\ Stopped(t) /\ task[t].stop = "exit" /\ swallowed' = swallowed
        /\ ResumeAll({t}, PlainWatch, {}, {})
        /\ pending' = [pending EXCEPT ![t] = NoEvent]
    BY <1>4 DEF HandleExit, IsEntry, InfoKind, CompleteSyscall, Handling, Resume, CallInv,
                CurStopsFor
  <2>2. /\ events \subseteq events'
        /\ pending[t] # NoEvent => \E e \in events' : e.exit = task[t].call
    <3> PICK done : done = [entry |-> pending[t], exit |-> task[t].call,
                            shown |-> PassesFilter(pending[t].call.name)]
      OBVIOUS
    <3>1. events' = IF pending[t] # NoEvent THEN events \cup {done} ELSE events
      BY <1>4 DEF HandleExit, CompleteSyscall
    <3>2. done.exit = task[t].call
      OBVIOUS
    <3> QED BY <3>1, <3>2
  <2>3. t \notin swallowed => pending[t] # NoEvent
    BY <1>0, <2>1 DEF ReportInv, BegunPending, Begun, Alive, Stopped
  <2>4. \A u \in Tid : u # t => pending'[u] = pending[u]
    BY <1>0, <2>1
  <2> QED BY <2>1, <2>2, <2>3, <2>4, ResumeReports
<1>5. CASE LoopEnds \/ HandleDeath \/ HandleForkFails
  <2>1. /\ UNCHANGED <<task, finished, events, swallowed>>
        /\ \A u \in Tid : pending'[u] = pending[u] \/ ~Alive(u)
    BY <1>0, <1>5 DEF LoopEnds, HandleDeath, HandleForkFails, Handling, kernel, session, history,
           StopInv, CurDead, Fates, Alive
  <2> QED BY <2>1 DEF ReportInv, BegunPending, FinishedReported, Alive, Begun
<1>6. CASE Detach \/ TracerExit \/ \E u \in Tid : Wait(u)
  <2>1. /\ UNCHANGED <<finished, pending, events, swallowed>>
        /\ \A u \in Tid : task'[u] = task[u] \/ (~Alive(u)' /\ task'[u].call = task[u].call)
    <3>1. CASE Detach
      BY <1>0, <3>1, DetachFields DEF Alive, Detach, session, history
    <3>2. CASE TracerExit
      <4>1. /\ task' = Dead({u \in Tid : Alive(u)}, "exitkill")
            /\ UNCHANGED <<finished, pending, events, swallowed>>
        BY <3>2 DEF TracerExit, session, history
      <4> QED BY <1>0, <4>1, DeadFields DEF Alive
    <3>3. ASSUME NEW v \in Tid, Wait(v)
          PROVE  /\ UNCHANGED <<finished, pending, events, swallowed>>
                 /\ \A u \in Tid : \/ task'[u] = task[u]
                                   \/ task'[u].mode = "reaped" /\ task'[u].call = task[u].call
      BY <1>0, <3>3 DEF Wait, KernelOK, Task, session, history
    <3> QED BY <1>6, <3>1, <3>2, <3>3 DEF Alive
  <2>2. BegunPending'
    BY <2>1 DEF ReportInv, BegunPending, Alive, Begun
  <2>3. FinishedReported'
    BY <1>0, <2>1 DEF ReportInv, FinishedReported, Alive
  <2> QED BY <2>2, <2>3 DEF ReportInv
<1> QED BY <1>1, <1>2, <1>3, <1>4, <1>5, <1>6 DEF Tracer, Handle

(* Every call that returned is reported or excused.                         *)
LEMMA ReportsFollowed ==
  ASSUME ~ThreadExec, SyscallInfo, BpfFilter = {}
  PROVE  Spec => []ReportInv
<1>1. Init => ReportInv
  <2> SUFFICES ASSUME Init PROVE ReportInv
    OBVIOUS
  <2>1. \A t \in Tid : task[t].at \in {"user", "born"} /\ task[t].stop = "none"
    BY DEF Init, KernelInit, Fresh
  <2>2. finished = {}
    BY DEF Init, KernelInit
  <2> QED BY <2>1, <2>2 DEF ReportInv, BegunPending, FinishedReported, Begun
<1>2. TypeOK /\ StopInv /\ CallInv /\ PlaceInv /\ ReportInv /\ [Next]_vars => ReportInv'
  <2> SUFFICES ASSUME TypeOK, StopInv, CallInv, PlaceInv, ReportInv, [Next]_vars
               PROVE  ReportInv'
    OBVIOUS
  <2>1. CASE Tracer
    BY <2>1, TracerReports
  <2>2. CASE Tracees
    <3>1. KernelOK /\ StopOfMode
      BY TypeOKSplit DEF StopInv
    <3>2. PICK t \in Tid : Step(t)
      BY <2>2 DEF Tracees
    <3>3. StepShape(t)
      BY <3>1, <3>2, StepShapes
    <3>4. UNCHANGED <<pending, events, swallowed>>
      BY <2>2 DEF Tracees, session, history
    <3> QED BY <3>3, <3>4, StepReports
  <2>3. CASE Exited \/ UNCHANGED vars
    <3>1. UNCHANGED <<task, finished, pending, events, swallowed>>
      BY <2>3 DEF Exited, vars, kernel, session, history
    <3> QED BY <3>1 DEF ReportInv, BegunPending, FinishedReported, Begun, Alive
  <2> QED BY <2>1, <2>2, <2>3 DEF Next
<1> QED BY <1>1, <1>2, TypeCorrect, StopsStand, CallsFollowed, PlacesFollowed, PTL DEF Spec

(* A call that returned to user mode is an event, unless its exit stop is    *)
(* still to be handled, its thread died there or was swallowed by its        *)
(* parent's fork event: for the configuration without a seccomp program, on  *)
(* a kernel with PTRACE_GET_SYSCALL_INFO, where only group leaders exec.     *)
THEOREM NoCallMissed ==
  ASSUME ~ThreadExec, SyscallInfo, BpfFilter = {}
  PROVE  Spec => []CallsReported
<1>1. TypeOK /\ ReportInv => CallsReported
  <2> SUFFICES ASSUME TypeOK, ReportInv PROVE CallsReported
    OBVIOUS
  <2>1. \A c \in finished : c.by \in Tid
    BY TypeOKSplit, CallTypes
  <2> QED BY <2>1 DEF ReportInv, FinishedReported, CallsReported
<1> QED BY <1>1, TypeCorrect, ReportsFollowed, PTL

-----------------------------------------------------------------------------
(* How the session ends.                                                    *)

(* The loop keeps every live task it ever put in session.tasks.             *)
AnnouncedKept ==
  /\ Primary \in announced
  /\ \A t \in announced : task[t].mode # "none"
  /\ phase = "loop" => \A t \in announced : Alive(t) => t \in tasks

(* Until mini-strace exits, a death has a wait status of its own.           *)
OwnFate == phase # "gone" => \A t \in Tid : task[t].mode = "zombie" => task[t].stop \in Fates

(* The primary's wait status is in the result, or is being handled.         *)
PrimaryStatus ==
  phase = "loop" =>
    /\ task[Primary].mode = "reaped" =>
         \/ result = task[Primary].stop
         \/ cur.tid = Primary /\ cur.stop \in Fates
    /\ cur.tid = Primary /\ cur.stop \in Fates => cur.stop = task[Primary].stop
    /\ Primary \notin tasks => task[Primary].mode = "reaped" /\ result = task[Primary].stop

(* The inductive invariant of the end of the session.                       *)
EndInv ==
  /\ AnnouncedKept
  /\ OwnFate
  /\ PrimaryStatus
  /\ FollowedToEnd

(* A step of the tracees brings none of the dead back to life.              *)
LEMMA StepKeeps ==
  ASSUME NEW t \in Tid, StepShape(t), NEW u \in Tid
  PROVE  /\ task[u].mode # "none" => task'[u].mode # "none"
         /\ task[u].mode # "none" /\ ~Alive(u) => task'[u] = task[u]
         /\ task'[u].mode = "zombie" => task[u].mode = "zombie" \/ task'[u].stop \in Fates
         /\ task'[u].mode = "reaped" => task[u].mode = "reaped"
<1> USE DEF Alive
<1>1. ASSUME NEW from, NEW to, NEW s, Moves(t, from, to, s)
      PROVE  u # t => task'[u] = task[u]
  BY <1>1 DEF Moves
<1>2. ASSUME NEW from, NEW to, NEW s, Moves(t, from, to, s)
      PROVE  task[t].mode = "running" /\ task'[t].mode \in {"running", "stopped"}
  BY <1>2 DEF Moves, RunningAt
<1>3. CASE \E from, to, s : Moves(t, from, to, s)
  BY <1>1, <1>2, <1>3
<1>4. CASE \E c \in Names : Enters(t, c)
  BY <1>4 DEF Enters, RunningAt
<1>5. CASE \E ch \in Tid : Forks(t, ch)
  BY <1>5 DEF Forks, RunningAt
<1>6. CASE Execs(t)
  BY <1>6 DEF Execs, DiesOrStays, RunningAt
<1>7. CASE Ends(t)
  BY <1>7 DEF Ends, DiesOrStays
<1> QED BY <1>3, <1>4, <1>5, <1>6, <1>7 DEF StepShape

(* The loop goes on: a handler that leaves the set of tasks alone, or adds  *)
(* a task that is there.                                                    *)
LEMMA HandledEnds ==
  ASSUME KernelOK, EndInv, phase = "loop", phase' = "loop", cur' = NoStop,
         cur.stop \notin Fates, UNCHANGED result,
         NEW T, NEW w, NEW cancel, NEW d, ResumeAll(T, w, cancel, d),
         NEW new \in SUBSET Tid, \A t \in new : task[t].mode # "none",
         tasks' = tasks \cup new, announced' = announced \cup new, announced \subseteq Tid
  PROVE  EndInv'
<1>1. \A u \in Tid :
        /\ ~(u \in T /\ Stopped(u)) => task'[u] = task[u]
        /\ u \in T /\ Stopped(u) => task'[u].mode = "running" /\ task'[u].stop = "none"
  BY ResumeFields
<1>2. \A u \in Tid : /\ Alive(u)' <=> Alive(u)
                     /\ ~Stopped(u) => task'[u] = task[u]
                     /\ task'[u].mode # "running" => task'[u] = task[u]
                     /\ task[u].mode # "none" => task'[u].mode # "none"
  BY <1>1 DEF Alive, Stopped
<1>3. AnnouncedKept'
  BY <1>2 DEF EndInv, AnnouncedKept
<1>4. OwnFate'
  BY <1>2 DEF EndInv, OwnFate
<1>5. PrimaryStatus'
  BY <1>2, KernelAssumption DEF EndInv, PrimaryStatus, Stopped, NoStop, Fates
<1>6. FollowedToEnd'
  BY DEF FollowedToEnd
<1> QED BY <1>3, <1>4, <1>5, <1>6 DEF EndInv

(* The steps of mini-strace.                                                *)
LEMMA TracerEnds ==
  ASSUME TypeOK, StopInv, CallInv, PlaceInv, EndInv, Tracer
  PROVE  EndInv'
<1> DEFINE t == cur.tid
<1>0. /\ KernelOK /\ t \in Tid /\ announced \subseteq Tid /\ Primary \in Tid
      /\ \A u \in Tid : task[u].child \in Tid
  BY TypeOKSplit, CallTypes, KernelAssumption DEF TracerOK
<1>1. CASE HandlerFails \/ HandleExec \/ HandleSignal \/ HandleEntry \/ HandleSeccomp \/ HandleExit
  <2>1. /\ phase = "loop" /\ phase' = "loop" /\ cur' = NoStop /\ cur.stop \notin Fates
        /\ UNCHANGED <<result, tasks, announced>>
        /\ \E w, cancel, d : ResumeAll({t}, w, cancel, d)
        /\ tasks' = tasks \cup {} /\ announced' = announced \cup {} /\ {} \in SUBSET Tid
    BY <1>1 DEF HandlerFails, HandleExec, HandleSignal, HandleEntry, HandleSeccomp, HandleExit,
                BeginSyscall, CompleteSyscall, Handling, Handled, Resume, session, history, Fates
  <2> QED BY <1>0, <2>1, HandledEnds
<1>2. CASE HandleFork
  <2> DEFINE ch == task[t].child
  <2>1. /\ phase = "loop" /\ phase' = "loop" /\ cur' = NoStop /\ cur.stop \notin Fates
        /\ UNCHANGED result
        /\ tasks' = tasks \cup {ch} /\ announced' = announced \cup {ch}
        /\ ResumeAll({ch, t}, PlainWatch, {}, {})
        /\ Awaits(t)
    BY <1>2 DEF HandleFork, ForkResumes, Handling, Handled, Fates, CallInv, CurStopsFor, Awaits
  <2>2. {ch} \in SUBSET Tid /\ \A u \in {ch} : task[u].mode # "none"
    BY <1>0, <2>1 DEF PlaceInv, ChildrenApart
  <2> HIDE DEF t, ch
  <2> QED BY <1>0, <2>1, <2>2, HandledEnds
<1>3. CASE HandleForkFails
  <2>1. /\ phase = "loop" /\ cur.stop \notin Fates
        /\ UNCHANGED <<task, phase, tasks, announced, result>>
    BY <1>3 DEF HandleForkFails, Handling, Handled, kernel, session, history, Fates
  <2>2. cur'.stop \notin Fates
    BY <1>3 DEF HandleForkFails, Handled, NoStop, Fates
  <2> QED BY <2>1, <2>2 DEF EndInv, AnnouncedKept, OwnFate, PrimaryStatus, FollowedToEnd, Alive
<1>4. CASE HandleDeath
  <2>1. /\ phase = "loop" /\ phase' = "loop" /\ cur.stop \in Fates
        /\ UNCHANGED <<task, announced>>
        /\ tasks' = tasks \ {t} /\ result' = IF t = Primary THEN cur.stop ELSE result
    BY <1>4 DEF HandleDeath, EraseTask, Handling, Handled, kernel, history, Fates
  <2>2. task[t].mode = "reaped"
    BY <2>1 DEF StopInv, CurDead
  <2>3. AnnouncedKept'
    BY <2>1, <2>2 DEF EndInv, AnnouncedKept, Alive
  <2>4. OwnFate' /\ FollowedToEnd'
    BY <2>1 DEF EndInv, OwnFate, FollowedToEnd
  <2>5. PrimaryStatus'
    <3>1. cur'.stop \notin Fates
      BY <1>4 DEF HandleDeath, Handled, NoStop, Fates
    <3> QED BY <2>1, <2>2, <3>1 DEF EndInv, PrimaryStatus
  <2> QED BY <2>3, <2>4, <2>5 DEF EndInv
<1>5. ASSUME NEW v \in Tid, Wait(v) PROVE EndInv'
  <2>1. /\ phase = "loop" /\ phase' = "loop" /\ cur = NoStop
        /\ cur' = [tid |-> v, stop |-> task[v].stop]
        /\ UNCHANGED <<tasks, announced, result>>
    BY <1>5 DEF Wait, LoopHead, session, history
  <2>2. \A u \in Tid :
          /\ task'[u] = task[u] \/ (u = v /\ task[u].mode = "zombie" /\ task'[u].mode = "reaped")
          /\ task'[u].stop = task[u].stop
    BY <1>0, <1>5 DEF Wait, KernelOK, Task
  <2>3. AnnouncedKept'
    BY <1>0, <2>1, <2>2 DEF EndInv, AnnouncedKept, Alive
  <2>4. OwnFate' /\ FollowedToEnd'
    BY <2>1, <2>2 DEF EndInv, OwnFate, FollowedToEnd
  <2>5. PrimaryStatus'
    <3>1. cur.stop \notin Fates
      BY <2>1 DEF NoStop, Fates
    <3> QED BY <1>0, <2>1, <2>2, <3>1 DEF EndInv, PrimaryStatus, OwnFate
  <2> QED BY <2>3, <2>4, <2>5 DEF EndInv
<1>6. CASE LoopEnds
  <2>1. /\ phase = "loop" /\ phase' = "done" /\ cur = NoStop
        /\ UNCHANGED <<task, announced, result>>
        /\ tasks = {} \/ \A u \in Tid : task[u].mode \in {"none", "reaped"}
    BY <1>6 DEF LoopEnds, LoopHead, kernel, session, history
  <2>2. AnnouncedKept' /\ OwnFate' /\ PrimaryStatus'
    BY <2>1 DEF EndInv, AnnouncedKept, OwnFate, PrimaryStatus
  <2>3. \A u \in announced : ~Alive(u)
    BY <1>0, <2>1 DEF EndInv, AnnouncedKept, Alive
  <2>4. task[Primary].mode = "reaped" /\ result = task[Primary].stop
    BY <1>0, <2>1 DEF EndInv, AnnouncedKept, PrimaryStatus, NoStop, Fates
  <2>5. FollowedToEnd'
    BY <2>1, <2>3, <2>4 DEF FollowedToEnd, Alive
  <2> QED BY <2>2, <2>5 DEF EndInv
<1>7. CASE Detach \/ TracerExit
  <2>1. \/ phase' = "gone"
        \/ phase = "loop" /\ phase' = "done" /\ LimitReached'
    BY <1>7 DEF Detach, TracerExit, LoopHead, LimitReached, session
  <2>2. /\ announced' = announced
        /\ \A u \in Tid : /\ task[u].mode # "none" => task'[u].mode # "none"
                          /\ phase' = "done" =>
                               task'[u] = task[u] \/ task'[u].mode = "free"
    <3>1. CASE Detach
      BY <1>0, <3>1, DetachFields DEF Detach, history
    <3>2. CASE TracerExit
      <4>1. /\ task' = Dead({u \in Tid : Alive(u)}, "exitkill") /\ phase' = "gone"
            /\ announced' = announced
        BY <3>2 DEF TracerExit, history
      <4> QED BY <1>0, <4>1, DeadFields
    <3> QED BY <1>7, <3>1, <3>2
  <2>3. AnnouncedKept' /\ PrimaryStatus'
    BY <1>0, <2>1, <2>2 DEF EndInv, AnnouncedKept, PrimaryStatus
  <2>4. OwnFate'
    BY <2>1, <2>2 DEF EndInv, OwnFate
  <2>5. FollowedToEnd'
    BY <2>1 DEF FollowedToEnd
  <2> QED BY <2>3, <2>4, <2>5 DEF EndInv
<1> QED BY <1>1, <1>2, <1>3, <1>4, <1>5, <1>6, <1>7 DEF Tracer, Handle

(* The loop ends with all of its tasks over.                                *)
LEMMA EndsFollowed ==
  ASSUME ~ThreadExec
  PROVE  Spec => []EndInv
<1>1. Init => EndInv
  <2> SUFFICES ASSUME Init PROVE EndInv
    OBVIOUS
  <2>1. /\ phase = "loop" /\ cur = NoStop
        /\ tasks = {Primary} /\ announced = {Primary} /\ Primary \in Tid
    BY KernelAssumption DEF Init
  <2>2. \A t \in Tid : task[t].mode = IF t = Primary THEN "running" ELSE "none"
    BY DEF Init, KernelInit, Fresh
  <2> QED BY <2>1, <2>2 DEF EndInv, AnnouncedKept, OwnFate, PrimaryStatus, FollowedToEnd, NoStop,
             Fates
<1>2. TypeOK /\ StopInv /\ CallInv /\ PlaceInv /\ EndInv /\ [Next]_vars => EndInv'
  <2> SUFFICES ASSUME TypeOK, StopInv, CallInv, PlaceInv, EndInv, [Next]_vars
               PROVE  EndInv'
    OBVIOUS
  <2>1. CASE Tracer
    BY <2>1, TracerEnds
  <2>2. CASE Tracees
    <3>1. KernelOK /\ StopOfMode /\ announced \subseteq Tid /\ Primary \in Tid
      BY TypeOKSplit, KernelAssumption DEF StopInv, TracerOK
    <3>2. PICK t \in Tid : Step(t)
      BY <2>2 DEF Tracees
    <3>3. StepShape(t)
      BY <3>1, <3>2, StepShapes
    <3>4. /\ UNCHANGED <<phase, cur, tasks, announced, result>>
          /\ LimitReached' <=> LimitReached
      BY <2>2 DEF Tracees, session, history, LimitReached
    <3>5. \A u \in Tid : /\ task[u].mode # "none" => task'[u].mode # "none"
                         /\ task[u].mode # "none" /\ ~Alive(u) => task'[u] = task[u]
                         /\ task'[u].mode = "zombie" => task[u].mode = "zombie" \/ task'[u].stop \in Fates
                         /\ task'[u].mode = "reaped" => task[u].mode = "reaped"
      BY <3>3, StepKeeps
    <3>6. AnnouncedKept'
      BY <3>1, <3>4, <3>5 DEF EndInv, AnnouncedKept, Alive
    <3>7. OwnFate'
      BY <3>4, <3>5 DEF EndInv, OwnFate, Alive
    <3>8. PrimaryStatus'
      <4>1. cur.stop \in Fates => task[cur.tid].mode = "reaped"
        BY DEF StopInv, CurDead
      <4> QED BY <3>1, <3>4, <3>5, <4>1 DEF EndInv, PrimaryStatus, Alive
    <3>9. FollowedToEnd'
      BY <3>1, <3>4, <3>5 DEF EndInv, AnnouncedKept, FollowedToEnd, Alive
    <3> QED BY <3>6, <3>7, <3>8, <3>9 DEF EndInv
  <2>3. CASE Exited \/ UNCHANGED vars
    <3>1. UNCHANGED <<task, phase, cur, tasks, announced, result, emitted>>
      BY <2>3 DEF Exited, vars, kernel, session, history
    <3> QED BY <3>1 DEF EndInv, AnnouncedKept, OwnFate, PrimaryStatus, FollowedToEnd, LimitReached,
               Alive
  <2> QED BY <2>1, <2>2, <2>3 DEF Next
<1> QED BY <1>1, <1>2, TypeCorrect, StopsStand, CallsFollowed, PlacesFollowed, PTL DEF Spec

(* run_event_loop returns before the limit only when every task it was told  *)
(* of is dead, and the exit code it reports is the primary's, as long as     *)
(* only group leaders exec.                                                  *)
THEOREM EndsComplete ==
  ASSUME ~ThreadExec
  PROVE  Spec => []FollowedToEnd
<1>1. EndInv => FollowedToEnd
  BY DEF EndInv
<1> QED BY <1>1, EndsFollowed, PTL
=============================================================================
