----------------------------- MODULE FdLeakTracer -----------------------------
(***************************************************************************)
(* fd-inspector's eBPF tracer (src/fd-inspector/ebpf): the BPF programs on *)
(* the system call tracepoints of one target process, the ring buffer, and *)
(* the user-space table of open descriptors.                               *)
(*                                                                         *)
(* A call is three steps: it enters (the sys_enter program runs), the      *)
(* kernel executes it, it returns (the sys_exit program runs).  Threads,   *)
(* and the consumer of the ring buffer, interleave between those steps.    *)
(*                                                                         *)
(* "open" stands for every hooked call that allocates one descriptor       *)
(* (open, openat, socket, accept, eventfd, dup, F_DUPFD ...).  Stacks,     *)
(* names and targets are abstracted to the number of the allocation they   *)
(* belong to: 1 for a descriptor older than the trace, 0 for none.         *)
(*                                                                         *)
(* The target uses its descriptors as correct programs do: it closes or    *)
(* replaces one only after the call that returned it, and only once.       *)
(*                                                                         *)
(* Bound: MaxCalls calls of the whole process.                             *)
(***************************************************************************)
EXTENDS Integers, Sequences, FiniteSets

CONSTANTS
  Tid,          \* the threads of the target
  MaxFd,        \* descriptors are 0 .. MaxFd
  Names,        \* the calls the target makes
  ThreadExits,  \* may a thread exit while others live?
  RingSize,     \* events the ring buffer can hold
  MaxPending,   \* max_entries of pending_calls
  MaxCalls

Fd == 0 .. MaxFd
CallNames == {"open", "pipe", "dup2", "fcntl", "close", "close_range", "exec"}

ASSUME TracerAssumption ==
  /\ IsFiniteSet(Tid)
  /\ MaxFd \in Nat
  /\ Names \subseteq CallNames
  /\ ThreadExits \in BOOLEAN
  /\ RingSize \in Nat
  /\ MaxPending \in Nat
  /\ MaxCalls \in Nat

VARIABLES
  fd_table,       \* the kernel's descriptor table: allocation number, 0: free
  thread,         \* the target's threads
  ending,         \* "no", or why the threads are being killed: "exec", "exit"
  held,           \* descriptors the program knows of and has not given up
  allocs,         \* allocations so far
  calls,          \* calls so far
  pending_calls,  \* BPF map: the call remembered at sys_enter, per thread
  ring,           \* BPF ring buffer
  open_fds,       \* TraceState.open_fds
  stopped,        \* the poll loop has ended and the report is printed
  missed,         \* history: an event was not sent, or a pending call found no room
  mistaken,       \* history: descriptors whose number an fcntl returned and was last told
  forgotten       \* history: allocations dropped by an exit or a range event

target == <<fd_table, thread, ending, held, allocs, calls>>
bpf == <<pending_calls, ring, missed, mistaken>>
user == <<open_fds, stopped, forgotten>>
vars == <<target, bpf, user>>

NoPending == [source |-> "none", lo |-> 0, hi |-> 0]
NoEntry == [id |-> 0, target |-> 0]
Idle == [at |-> "user", name |-> "none", lo |-> 0, hi |-> 0, ret |-> {}, id |-> 0]

Range2(lo, hi) == {f \in Fd : lo <= f /\ f <= hi}
Lowest(f, S) == f \in S /\ \A g \in S : f <= g
Free == {f \in Fd : fd_table[f] = 0}
Alive == {t \in Tid : thread[t].at # "dead"}

Init ==
  /\ fd_table = [f \in Fd |-> IF f = 0 THEN 1 ELSE 0]
  /\ thread = [t \in Tid |-> Idle]
  /\ ending = "no"
  /\ held = {0}
  /\ allocs = 1
  /\ calls = 0
  /\ pending_calls = [t \in Tid |-> NoPending]
  /\ ring = <<>>
  /\ open_fds = [f \in Fd |-> NoEntry]
  /\ stopped = FALSE
  /\ missed = FALSE
  /\ mistaken = {}
  /\ forgotten = {}

-----------------------------------------------------------------------------
(* The ring buffer: bpf_ringbuf_reserve fails when it is full, and the event *)
(* is gone.                                                                  *)

Event(type, fd, end, id) == [type |-> type, fd |-> fd, end |-> end, id |-> id]
Reserve(q, e) == IF Len(q) < RingSize THEN Append(q, e) ELSE q

Emit(e) ==
  /\ ring' = Reserve(ring, e)
  /\ missed' = (missed \/ Len(ring) = RingSize)

EmitBoth(e, f) ==
  /\ ring' = Reserve(Reserve(ring, e), f)
  /\ missed' = (missed \/ Len(ring) + 2 > RingSize)

NoEmit == UNCHANGED <<ring, missed>>

\* Fault: BPF_NOEXIST, an entry that the thread left behind stays.
RememberNoExist(t, call) ==
  /\ pending_calls' = [pending_calls EXCEPT ![t] = IF @ = NoPending THEN call ELSE @]
  /\ UNCHANGED <<ring, missed, mistaken>>

\* remember_call and remember_range: BPF_ANY overwrites what the thread left; another
\* entry may find no room.
Remember(t, call) ==
  LET full == /\ pending_calls[t] = NoPending
              /\ Cardinality({u \in Tid : pending_calls[u] # NoPending}) >= MaxPending
  IN  /\ pending_calls' = IF full THEN pending_calls
                          ELSE [pending_calls EXCEPT ![t] = call]
      /\ missed' = (missed \/ full)
      /\ UNCHANGED <<ring, mistaken>>

\* bpf_map_delete_elem(&pending_calls, &tid)
PendingDeleted(t) == [pending_calls EXCEPT ![t] = NoPending]

-----------------------------------------------------------------------------
(* The target enters a call.                                                *)

MayCall(t, name) ==
  /\ ~stopped
  /\ name \in Names
  /\ ending = "no"
  /\ thread[t].at = "user"
  /\ calls < MaxCalls

Called(t, name, lo, hi) ==
  /\ thread' = [thread EXCEPT ![t] = [Idle EXCEPT !.at = "called", !.name = name,
                                      !.lo = lo, !.hi = hi]]
  /\ calls' = calls + 1
  /\ UNCHANGED <<fd_table, allocs, user>>

\* sys_enter_open, sys_enter_pipe and their like.
EnterOpen(t, name) ==
  /\ name \in {"open", "pipe"}
  /\ MayCall(t, name)
  /\ Called(t, name, 0, 0)
  /\ Remember(t, [NoPending EXCEPT !.source = name])
  /\ UNCHANGED <<ending, held>>

\* dup2 onto a descriptor that the program gives up.
EnterDup2(t, new) ==
  /\ MayCall(t, "dup2")
  /\ new \in held
  /\ Called(t, "dup2", new, new)
  /\ held' = held \ {new}
  /\ Remember(t, [NoPending EXCEPT !.source = "dup2"])
  /\ UNCHANGED ending

\* fcntl with a command other than F_DUPFD and F_DUPFD_CLOEXEC: not remembered.
EnterFcntl(t) ==
  /\ MayCall(t, "fcntl")
  /\ Called(t, "fcntl", 0, 0)
  /\ UNCHANGED <<ending, held, bpf>>

\* sys_enter_close: the event precedes the close itself.
EnterClose(t, f) ==
  /\ MayCall(t, "close")
  /\ f \in held
  /\ Called(t, "close", f, f)
  /\ held' = held \ {f}
  /\ Emit(Event("close", f, f, 0))
  /\ mistaken' = mistaken \ {f}
  /\ UNCHANGED <<ending, pending_calls>>

\* sys_enter_close_range: the bounds are remembered, the flags are not.
EnterCloseRange(t, lo, hi) ==
  /\ MayCall(t, "close_range")
  /\ lo <= hi
  /\ Range2(lo, hi) \subseteq held
  /\ Called(t, "close_range", lo, hi)
  /\ held' = held \ Range2(lo, hi)
  /\ Remember(t, [source |-> "close_range", lo |-> lo, hi |-> hi])
  /\ UNCHANGED ending

EnterExec(t) ==
  /\ MayCall(t, "exec")
  /\ Called(t, "exec", 0, 0)
  /\ UNCHANGED <<ending, held, bpf>>

EnterExitGroup ==
  /\ ~stopped
  /\ ending = "no"
  /\ ending' = "exit"
  /\ UNCHANGED <<fd_table, thread, held, allocs, calls, bpf, user>>

-----------------------------------------------------------------------------
(* The kernel executes the call of thread t.                                *)

Running(t, name) == ~stopped /\ thread[t].at = "called" /\ thread[t].name = name

\* The call returns the descriptors in `ret', the first allocation being `id'.
Returns(t, ret, id) ==
  /\ thread' = [thread EXCEPT ![t].at = "returning", ![t].ret = ret, ![t].id = id]
  /\ UNCHANGED <<ending, held, calls, bpf, user>>

\* A call that fails has changed nothing; an execve has killed nobody yet.
RunFails(t) ==
  /\ \E name \in CallNames \ {"close"} : Running(t, name)
  /\ thread' = [thread EXCEPT ![t].at = "failed"]
  /\ UNCHANGED <<fd_table, ending, held, allocs, calls, bpf, user>>

RunOpen(t, f) ==
  /\ Running(t, "open")
  /\ Lowest(f, Free)
  /\ fd_table' = [fd_table EXCEPT ![f] = allocs + 1]
  /\ Returns(t, {f}, allocs + 1)
  /\ allocs' = allocs + 1

RunPipe(t, f, g) ==
  /\ Running(t, "pipe")
  /\ Lowest(f, Free)
  /\ Lowest(g, Free \ {f})
  /\ fd_table' = [fd_table EXCEPT ![f] = allocs + 1, ![g] = allocs + 2]
  /\ Returns(t, {f, g}, allocs + 1)
  /\ allocs' = allocs + 2

RunDup2(t) ==
  /\ Running(t, "dup2")
  /\ fd_table' = [fd_table EXCEPT ![thread[t].lo] = allocs + 1]
  /\ allocs' = allocs + 1
  /\ Returns(t, {thread[t].lo}, allocs + 1)

\* F_GETFL and F_GETFD return small numbers that are not descriptors.
RunFcntl(t, value) ==
  /\ Running(t, "fcntl")
  /\ Returns(t, {value}, 0)
  /\ UNCHANGED <<fd_table, allocs>>

RunClose(t) ==
  /\ Running(t, "close")
  /\ fd_table' = [fd_table EXCEPT ![thread[t].lo] = 0]
  /\ thread' = [thread EXCEPT ![t] = Idle]
  /\ UNCHANGED <<ending, held, allocs, calls, bpf, user>>

\* With CLOSE_RANGE_CLOEXEC (`mark') nothing is closed yet: the program keeps
\* the descriptors.
RunCloseRange(t, mark) ==
  /\ Running(t, "close_range")
  /\ fd_table' = [f \in Fd |-> IF f \in Range2(thread[t].lo, thread[t].hi) /\ ~mark
                               THEN 0 ELSE fd_table[f]]
  /\ Returns(t, IF mark THEN Range2(thread[t].lo, thread[t].hi) ELSE {}, 0)
  /\ UNCHANGED allocs

\* The point of no return: the kernel kills the other threads.
KillOthers(t) ==
  /\ Running(t, "exec")
  /\ ending = "no"
  /\ ending' = "exec"
  /\ thread' = [thread EXCEPT ![t].at = "killing"]
  /\ UNCHANGED <<fd_table, held, allocs, calls, bpf, user>>

\* The other threads are gone; the close-on-exec descriptors C are closed.
RunExec(t, C) ==
  /\ ~stopped /\ thread[t].at = "killing"
  /\ Alive = {t}
  /\ fd_table' = [f \in Fd |-> IF f \in C THEN 0 ELSE fd_table[f]]
  /\ thread' = [thread EXCEPT ![t].at = "returning"]
  /\ held' = held \ C
  /\ ending' = "no"
  /\ UNCHANGED <<allocs, calls, bpf, user>>

Kernel(t) ==
  \/ RunFails(t)
  \/ \E f \in Fd : RunOpen(t, f)
  \/ \E f, g \in Fd : RunPipe(t, f, g)
  \/ RunDup2(t)
  \/ \E value \in Fd : RunFcntl(t, value)
  \/ RunClose(t)
  \/ \E mark \in BOOLEAN : RunCloseRange(t, mark)
  \/ KillOthers(t)
  \/ \E C \in SUBSET {f \in Fd : fd_table[f] # 0} : RunExec(t, C)

-----------------------------------------------------------------------------
(* The call of thread t returns: the sys_exit programs.                     *)

Returning(t, names) == ~stopped /\ thread[t].at = "returning" /\ thread[t].name \in names

Back(t, got) ==
  /\ thread' = [thread EXCEPT ![t] = Idle]
  /\ held' = held \cup got
  /\ UNCHANGED <<fd_table, ending, allocs, calls, user>>

\* sys_exit_open, _dup2 and their like.
ExitOpen(t) ==
  /\ Returning(t, {"open", "dup2"})
  /\ IF pending_calls[t] = NoPending THEN NoEmit
     ELSE \E f \in thread[t].ret : Emit(Event("open", f, 0, thread[t].id))
  /\ pending_calls' = PendingDeleted(t)
  /\ mistaken' = mistaken \ thread[t].ret
  /\ Back(t, thread[t].ret)

\* sys_exit_fcntl: whatever is pending for the thread is taken for the call that
\* returns, and its result for a descriptor.
ExitFcntl(t) ==
  /\ Returning(t, {"fcntl"})
  /\ IF pending_calls[t] = NoPending THEN NoEmit /\ UNCHANGED mistaken
     ELSE /\ \E f \in thread[t].ret : Emit(Event("open", f, 0, 0))
          /\ mistaken' = mistaken \cup thread[t].ret
  /\ pending_calls' = PendingDeleted(t)
  /\ Back(t, {})

\* sys_exit_pipe: the two descriptors are read from the memory of the target, where
\* they may not be found any more.
ExitPipe(t) ==
  /\ Returning(t, {"pipe"})
  /\ IF pending_calls[t] = NoPending THEN UNCHANGED <<pending_calls, ring, missed>>
     ELSE /\ \/ \E f, g \in thread[t].ret :
                  /\ f < g
                  /\ EmitBoth(Event("open", f, 0, thread[t].id),
                              Event("open", g, 0, thread[t].id + 1))
             \/ missed' = TRUE /\ UNCHANGED ring
          /\ pending_calls' = PendingDeleted(t)
  /\ mistaken' = mistaken \ thread[t].ret
  /\ Back(t, thread[t].ret)

\* sys_exit_close_range: reported when the call is over.
ExitCloseRange(t) ==
  /\ Returning(t, {"close_range"})
  /\ IF pending_calls[t] = NoPending THEN NoEmit
     ELSE Emit(Event("close_range", pending_calls[t].lo, pending_calls[t].hi, 0))
  /\ pending_calls' = PendingDeleted(t)
  /\ UNCHANGED mistaken
  /\ Back(t, thread[t].ret)

ExitExec(t) ==
  /\ Returning(t, {"exec"})
  /\ Emit(Event("exec", 0, 0, 0))
  /\ UNCHANGED <<pending_calls, mistaken>>
  /\ Back(t, {})

\* Fault: the result is not tested, and an errno is reported as a descriptor.
ErrnoReported == Emit(Event("open", -1, 0, 0))

\* emit_event drops a negative result, and the others test for 0.
FailureReported == NoEmit

\* A call that failed: sys_exit_pipe leaves the entry where it is, and execve has none.
ExitFailed(t) ==
  /\ ~stopped /\ thread[t].at = "failed"
  /\ FailureReported
  /\ pending_calls' = IF thread[t].name \in {"pipe", "exec"} THEN pending_calls
                      ELSE PendingDeleted(t)
  /\ UNCHANGED mistaken
  /\ Back(t, IF thread[t].name \in {"dup2", "close_range"}
             THEN Range2(thread[t].lo, thread[t].hi) ELSE {})

\* sched_process_exit fires for every thread; the table goes with the last one.
ExitThread(t) ==
  /\ ~stopped
  /\ thread[t].at = "user"
  /\ ending # "no" \/ (ThreadExits /\ Alive # {t})
  /\ thread' = [thread EXCEPT ![t].at = "dead"]
  /\ fd_table' = IF Alive = {t} THEN [f \in Fd |-> 0] ELSE fd_table
  /\ Emit(Event("exit", 0, 0, 0))
  /\ UNCHANGED <<ending, held, allocs, calls, pending_calls, mistaken, user>>

-----------------------------------------------------------------------------
(* The consumer, handle_event: one event of the ring buffer.                *)

Consume(type) ==
  /\ ~stopped
  /\ ring # <<>>
  /\ Head(ring).type = type
  /\ ring' = Tail(ring)
  /\ UNCHANGED <<target, pending_calls, missed, mistaken, stopped>>

\* Fault: an entry that is already there is kept.
FirstOpenWins(e) ==
  IF open_fds[e.fd] # NoEntry THEN open_fds
  ELSE [open_fds EXCEPT ![e.fd] = [id |-> e.id, target |-> fd_table[e.fd]]]

\* FD_EVENT_OPEN: the target is read from /proc now, and the entry replaced.
Opened(e) == [open_fds EXCEPT ![e.fd] = [id |-> e.id, target |-> fd_table[e.fd]]]

\* FD_EVENT_CLOSE: open_fds.erase(key) and clear_fd_range.
Closed(e) == [f \in Fd |-> IF f \in Range2(e.fd, e.end) THEN NoEntry ELSE open_fds[f]]

\* Fault: an exec is taken for the end of the process.
ExecForgetsAll == [f \in Fd |-> NoEntry]

\* sync_after_exec: what /proc/<pid>/fd does not list now is dropped.
Synced == [f \in Fd |-> IF fd_table[f] = 0 THEN NoEntry ELSE open_fds[f]]

\* Fault: an exit event erases the key it names, as a close does; its fd is -1.
ExitErasesKey == open_fds

\* clear_process_state
Cleared == [f \in Fd |-> NoEntry]

\* What the table knew and an event that names no allocation took out of it.
Lost(before, after) == {before[f].id : f \in {g \in Fd : after[g] # before[g]}}

HandleOpen ==
  /\ Consume("open")
  /\ open_fds' = Opened(Head(ring))
  /\ UNCHANGED forgotten

HandleClose ==
  /\ Consume("close")
  /\ open_fds' = Closed(Head(ring))
  /\ UNCHANGED forgotten

HandleCloseRange ==
  /\ Consume("close_range")
  /\ open_fds' = Closed(Head(ring))
  /\ forgotten' = forgotten \cup Lost(open_fds, Closed(Head(ring)))

HandleExec ==
  /\ Consume("exec")
  /\ open_fds' = Synced
  /\ UNCHANGED forgotten

HandleExit ==
  /\ Consume("exit")
  /\ open_fds' = Cleared
  /\ forgotten' = forgotten \cup Lost(open_fds, Cleared)

\* The deadline or SIGINT: the loop ends, whatever the ring buffer still holds.
Stop ==
  /\ ~stopped
  /\ stopped' = TRUE
  /\ UNCHANGED <<target, bpf, open_fds, forgotten>>

Reported == stopped /\ UNCHANGED vars

-----------------------------------------------------------------------------
Consumer ==
  \/ HandleOpen
  \/ HandleClose
  \/ HandleCloseRange
  \/ HandleExec
  \/ HandleExit

Enter(t) ==
  \/ \E name \in {"open", "pipe"} : EnterOpen(t, name)
  \/ \E f \in Fd : EnterDup2(t, f)
  \/ EnterFcntl(t)
  \/ \E f \in Fd : EnterClose(t, f)
  \/ \E lo, hi \in Fd : EnterCloseRange(t, lo, hi)
  \/ EnterExec(t)

Exit(t) ==
  \/ ExitOpen(t)
  \/ ExitFcntl(t)
  \/ ExitPipe(t)
  \/ ExitCloseRange(t)
  \/ ExitExec(t)
  \/ ExitFailed(t)
  \/ ExitThread(t)

Next ==
  \/ \E t \in Tid : Enter(t) \/ Kernel(t) \/ Exit(t)
  \/ EnterExitGroup
  \/ Consumer
  \/ Stop
  \/ Reported

\* The poll loop consumes what is there every 250 ms; nothing is assumed of the
\* target.
Spec == Init /\ [][Next]_vars /\ WF_vars(Consumer)

-----------------------------------------------------------------------------
Thread == [at : {"user", "called", "killing", "returning", "failed", "dead"}, name : CallNames \cup {"none"},
           lo : Fd, hi : Fd, ret : SUBSET Fd, id : Nat]
PendingCall == [source : CallNames \cup {"none"}, lo : Fd, hi : Fd]
FdEvent == [type : {"open", "close", "close_range", "exec", "exit"}, fd : Fd, end : Fd,
            id : Nat]
OpenFd == [id : Nat, target : Nat]

(* Every variable holds a value of its type.                                *)
TypeOK ==
  /\ fd_table \in [Fd -> Nat]
  /\ thread \in [Tid -> Thread]
  /\ ending \in {"no", "exec", "exit"}
  /\ held \subseteq Fd
  /\ allocs \in Nat
  /\ calls \in 0 .. MaxCalls
  /\ pending_calls \in [Tid -> PendingCall]
  /\ ring \in Seq(FdEvent)
  /\ open_fds \in [Fd -> OpenFd]
  /\ stopped \in BOOLEAN
  /\ missed \in BOOLEAN
  /\ mistaken \subseteq Fd
  /\ forgotten \subseteq Nat

\* No call is under way, every event is consumed and none was lost.
Settled ==
  /\ ~missed
  /\ ring = <<>>
  /\ \A t \in Tid : thread[t].at \in {"user", "dead"}

(* No false leak and no false owner: once the tracer has caught up, every   *)
(* entry of its table is a descriptor that is open, with the stack and the  *)
(* target of the allocation that it holds now.  Excepted are descriptors    *)
(* whose number an fcntl of the target returned when a failed pipe had left *)
(* its pending entry, until the next open or close of that number is told.  *)
AccurateReport ==
  Settled => \A f \in Fd \ mistaken : open_fds[f] # NoEntry =>
    open_fds[f].id = fd_table[f] /\ open_fds[f].target = fd_table[f]

(* No missed leak: once the tracer has caught up, every open descriptor     *)
(* that was allocated under trace is in its table.                          *)
CompleteReport ==
  Settled => \A f \in Fd : fd_table[f] > 1 => open_fds[f].id = fd_table[f]

(* No missed leak, except for what a thread's exit or a close_range took    *)
(* out of the table, and what an fcntl's result was taken for.              *)
CompleteButForgotten ==
  Settled => \A f \in Fd \ mistaken : fd_table[f] > 1 =>
    open_fds[f].id = fd_table[f] \/ fd_table[f] \in forgotten

(* A pending entry belongs to the call its thread is in, or is what a failed *)
(* pipe of that thread left behind: and then it is overwritten by the next  *)
(* call that is remembered, so that of all sys_exit programs only that of   *)
(* fcntl can find it, for a command that its sys_enter program leaves out.  *)
PendingIsCurrent ==
  \A t \in Tid : pending_calls[t] # NoPending =>
    \/ /\ thread[t].at \in {"called", "returning", "failed"}
       /\ thread[t].name = pending_calls[t].source
    \/ /\ pending_calls[t].source = "pipe"
       /\ thread[t].name \in {"none", "fcntl", "close", "exec"}

(* When the target is dead and no event was lost, the tracer ends up with   *)
(* an empty table, unless it stopped before.                                *)
DeadHoldsNothing ==
  (Alive = {} /\ ~missed) ~> (stopped \/ \A f \in Fd : open_fds[f] = NoEntry)
=============================================================================
