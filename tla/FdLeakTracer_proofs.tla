------------------------- MODULE FdLeakTracer_proofs -------------------------
(***************************************************************************)
(* What holds of the eBPF tracer for every number of threads, descriptors  *)
(* and calls, and every size of the ring buffer and of pending_calls: the  *)
(* type invariant, that no sys_exit program but that of fcntl ever finds   *)
(* the entry of another call, that no leak is false but for the numbers    *)
(* such an fcntl returned, and that none is missed but for them and for    *)
(* what a thread's exit or a close_range took out of the table.            *)
(*                                                                         *)
(* The last two say something of the moment when the tracer has caught up. *)
(* The invariants say of every moment what the events still in the ring    *)
(* buffer and the calls still under way will make of the table.            *)
(***************************************************************************)
EXTENDS FdLeakTracer, TLAPS

(* The target's part of TypeOK.                                             *)
TargetOK ==
  /\ fd_table \in [Fd -> Nat]
  /\ thread \in [Tid -> Thread]
  /\ ending \in {"no", "exec", "exit"}
  /\ held \subseteq Fd
  /\ allocs \in Nat
  /\ calls \in 0 .. MaxCalls

(* The part of TypeOK that the BPF programs keep.                           *)
BpfOK ==
  /\ pending_calls \in [Tid -> PendingCall]
  /\ ring \in Seq(FdEvent)
  /\ missed \in BOOLEAN
  /\ mistaken \subseteq Fd

(* The part of TypeOK that the consumer keeps.                              *)
UserOK ==
  /\ open_fds \in [Fd -> OpenFd]
  /\ stopped \in BOOLEAN
  /\ forgotten \subseteq Nat

(* TypeOK is the conjunction of its parts.                                  *)
LEMMA TypeOKSplit == TypeOK <=> TargetOK /\ BpfOK /\ UserOK
BY DEF TypeOK, TargetOK, BpfOK, UserOK

(* 0 is a descriptor.                                                       *)
LEMMA ZeroFd == 0 \in Fd
BY TracerAssumption DEF Fd

-----------------------------------------------------------------------------
(* The BPF programs.                                                        *)

(* Reserving room keeps the ring buffer's type.                             *)
LEMMA ReserveType ==
  ASSUME NEW q \in Seq(FdEvent), NEW e \in FdEvent
  PROVE  Reserve(q, e) \in Seq(FdEvent)
BY DEF Reserve

(* An event built from typed fields is typed.                               *)
LEMMA EventType ==
  ASSUME NEW type \in {"open", "close", "close_range", "exec", "exit"},
         NEW fd \in Fd, NEW end \in Fd, NEW id \in Nat
  PROVE  Event(type, fd, end, id) \in FdEvent
BY DEF Event, FdEvent

(* Emitting events keeps the types of the ring buffer.                      *)
LEMMA EmitType ==
  ASSUME BpfOK, NEW e \in FdEvent, NEW f \in FdEvent, Emit(e) \/ EmitBoth(e, f)
  PROVE  ring' \in Seq(FdEvent) /\ missed' \in BOOLEAN
<1>1. CASE Emit(e)
  BY <1>1, ReserveType DEF BpfOK, Emit
<1>2. CASE EmitBoth(e, f)
  BY <1>2, ReserveType DEF BpfOK, EmitBoth
<1> QED BY <1>1, <1>2

(* Remembering a call, whether or not there is room, keeps the types.       *)
LEMMA RememberType ==
  ASSUME BpfOK, NEW t \in Tid, NEW call \in PendingCall, Remember(t, call)
  PROVE  BpfOK'
BY DEF BpfOK, Remember

(* Deleting a thread's entry keeps the type of pending_calls.               *)
LEMMA DeleteType ==
  ASSUME BpfOK, NEW t \in Tid
  PROVE  PendingDeleted(t) \in [Tid -> PendingCall]
BY ZeroFd DEF BpfOK, PendingDeleted, NoPending, PendingCall

-----------------------------------------------------------------------------
(* The target.                                                              *)

(* Entering a call keeps the target's types and the consumer's.             *)
LEMMA CalledType ==
  ASSUME TypeOK, NEW t \in Tid, NEW name \in CallNames, NEW lo \in Fd, NEW hi \in Fd,
         MayCall(t, name), Called(t, name, lo, hi)
  PROVE  /\ thread' \in [Tid -> Thread]
         /\ calls' \in 0 .. MaxCalls
         /\ fd_table' = fd_table /\ allocs' = allocs
         /\ UserOK'
<1>1. thread' \in [Tid -> Thread]
  BY ZeroFd DEF TypeOK, Called, Idle, Thread
<1>2. calls' \in 0 .. MaxCalls
  BY TracerAssumption DEF TypeOK, Called, MayCall
<1>3. UserOK'
  BY DEF TypeOK, Called, user, UserOK
<1> QED BY <1>1, <1>2, <1>3 DEF Called

(* Every way to enter a call keeps the types.                               *)
LEMMA EnterType ==
  ASSUME TypeOK, NEW t \in Tid, Enter(t)
  PROVE  TypeOK'
<1> USE ZeroFd
<1>0. TargetOK /\ BpfOK /\ UserOK
  BY TypeOKSplit
<1>1. ASSUME NEW name \in {"open", "pipe"}, EnterOpen(t, name) PROVE TypeOK'
  <2>1. name \in CallNames /\ [NoPending EXCEPT !.source = name] \in PendingCall
    BY DEF CallNames, NoPending, PendingCall
  <2>2. BpfOK'
    BY <1>0, <1>1, <2>1, RememberType DEF EnterOpen
  <2>3. TargetOK' /\ UserOK'
    BY <1>0, <1>1, <2>1, CalledType DEF EnterOpen, TargetOK
  <2> QED BY <2>2, <2>3 DEF TypeOK, TargetOK, BpfOK, UserOK
<1>2. ASSUME NEW f \in Fd, EnterDup2(t, f) PROVE TypeOK'
  <2>1. "dup2" \in CallNames /\ [NoPending EXCEPT !.source = "dup2"] \in PendingCall
    BY DEF CallNames, NoPending, PendingCall
  <2>2. BpfOK'
    BY <1>0, <1>2, <2>1, RememberType DEF EnterDup2
  <2>3. TargetOK' /\ UserOK'
    BY <1>0, <1>2, <2>1, CalledType DEF EnterDup2, TargetOK
  <2> QED BY <2>2, <2>3 DEF TypeOK, TargetOK, BpfOK, UserOK
<1>3. ASSUME EnterFcntl(t) PROVE TypeOK'
  <2>1. "fcntl" \in CallNames
    BY DEF CallNames
  <2>2. BpfOK'
    BY <1>0, <1>3 DEF EnterFcntl, BpfOK, bpf
  <2>3. TargetOK' /\ UserOK'
    BY <1>0, <1>3, <2>1, CalledType DEF EnterFcntl, TargetOK
  <2> QED BY <2>2, <2>3 DEF TypeOK, TargetOK, BpfOK, UserOK
<1>4. ASSUME NEW f \in Fd, EnterClose(t, f) PROVE TypeOK'
  <2>1. "close" \in CallNames /\ Event("close", f, f, 0) \in FdEvent
    BY EventType DEF CallNames
  <2>2. BpfOK'
    BY <1>0, <1>4, <2>1, EmitType DEF EnterClose, BpfOK
  <2>3. TargetOK' /\ UserOK'
    BY <1>0, <1>4, <2>1, CalledType DEF EnterClose, TargetOK
  <2> QED BY <2>2, <2>3 DEF TypeOK, TargetOK, BpfOK, UserOK
<1>5. ASSUME NEW lo \in Fd, NEW hi \in Fd, EnterCloseRange(t, lo, hi) PROVE TypeOK'
  <2>1. /\ "close_range" \in CallNames
        /\ [source |-> "close_range", lo |-> lo, hi |-> hi] \in PendingCall
    BY DEF CallNames, PendingCall
  <2>2. BpfOK'
    BY <1>0, <1>5, <2>1, RememberType DEF EnterCloseRange
  <2>3. TargetOK' /\ UserOK'
    BY <1>0, <1>5, <2>1, CalledType DEF EnterCloseRange, TargetOK
  <2> QED BY <2>2, <2>3 DEF TypeOK, TargetOK, BpfOK, UserOK
<1>6. ASSUME EnterExec(t) PROVE TypeOK'
  <2>1. "exec" \in CallNames
    BY DEF CallNames
  <2>2. BpfOK'
    BY <1>0, <1>6 DEF EnterExec, BpfOK, bpf
  <2>3. TargetOK' /\ UserOK'
    BY <1>0, <1>6, <2>1, CalledType DEF EnterExec, TargetOK
  <2> QED BY <2>2, <2>3 DEF TypeOK, TargetOK, BpfOK, UserOK
<1> QED BY <1>1, <1>2, <1>3, <1>4, <1>5, <1>6 DEF Enter

(* Returning from a call changes only the thread's own record.              *)
LEMMA ReturnsType ==
  ASSUME TypeOK, NEW t \in Tid, NEW ret \in SUBSET Fd, NEW id \in Nat, Returns(t, ret, id)
  PROVE  thread' \in [Tid -> Thread] /\ BpfOK' /\ UserOK' /\ ending' = ending /\ held' = held
           /\ calls' = calls
<1> DEFINE r == [thread[t] EXCEPT !.at = "returning", !.ret = ret, !.id = id]
<1>a. thread \in [Tid -> Thread] /\ thread[t] \in Thread
  BY DEF TypeOK
<1>b. r \in Thread
  BY <1>a DEF Thread
<1>c. thread' = [thread EXCEPT ![t] = r]
  BY <1>a DEF Returns
<1>1. thread' \in [Tid -> Thread]
  <2> HIDE DEF r
  <2> QED BY <1>a, <1>b, <1>c
<1> QED BY <1>1 DEF TypeOK, Returns, BpfOK, UserOK, bpf, user

(* A thread that goes to another place of its call.                         *)
LEMMA GoesType ==
  ASSUME thread \in [Tid -> Thread], NEW t \in Tid,
         NEW place \in {"user", "called", "killing", "returning", "failed", "dead"}
  PROVE  [thread EXCEPT ![t].at = place] \in [Tid -> Thread]
<1> DEFINE r == [thread[t] EXCEPT !.at = place]
<1>1. thread[t] \in Thread
  OBVIOUS
<1>2. r \in Thread
  BY <1>1 DEF Thread
<1>3. [thread EXCEPT ![t].at = place] = [thread EXCEPT ![t] = r]
  OBVIOUS
<1> HIDE DEF r
<1> QED BY <1>2, <1>3

(* Whatever the kernel executes keeps the types.                            *)
LEMMA KernelType ==
  ASSUME TypeOK, NEW t \in Tid, Kernel(t)
  PROVE  TypeOK'
<1> USE ZeroFd
<1>0. TargetOK /\ BpfOK /\ UserOK
  BY TypeOKSplit
<1>1. CASE RunFails(t) \/ KillOthers(t)
  <2>1. thread \in [Tid -> Thread]
    BY <1>0 DEF TargetOK
  <2>2. thread' \in [Tid -> Thread]
    <3>1. CASE RunFails(t)
      BY <2>1, <3>1, GoesType DEF RunFails
    <3>2. CASE KillOthers(t)
      BY <2>1, <3>2, GoesType DEF KillOthers
    <3> QED BY <1>1, <3>1, <3>2
  <2>3. ending' \in {"no", "exec", "exit"} /\ UNCHANGED <<fd_table, held, allocs, calls, bpf, user>>
    BY <1>0, <1>1 DEF RunFails, KillOthers, TargetOK
  <2>4. TargetOK'
    BY <1>0, <2>2, <2>3 DEF TargetOK
  <2> QED BY <1>0, <2>3, <2>4 DEF TypeOK, TargetOK, BpfOK, UserOK, bpf, user
<1>2. ASSUME NEW f \in Fd, RunOpen(t, f) PROVE TypeOK'
  <2>1. {f} \in SUBSET Fd /\ allocs + 1 \in Nat /\ Returns(t, {f}, allocs + 1)
    BY <1>0, <1>2 DEF RunOpen, TargetOK
  <2>2. fd_table' \in [Fd -> Nat] /\ allocs' \in Nat
    BY <1>0, <1>2 DEF RunOpen, TargetOK
  <2>3. TargetOK'
    BY <1>0, <2>1, <2>2, ReturnsType DEF TargetOK
  <2> QED BY <2>1, <2>3, ReturnsType DEF TypeOK, TargetOK, BpfOK, UserOK
<1>3. ASSUME NEW f \in Fd, NEW g \in Fd, RunPipe(t, f, g) PROVE TypeOK'
  <2>1. {f, g} \in SUBSET Fd /\ allocs + 1 \in Nat /\ Returns(t, {f, g}, allocs + 1)
    BY <1>0, <1>3 DEF RunPipe, TargetOK
  <2>2. fd_table' \in [Fd -> Nat] /\ allocs' \in Nat
    BY <1>0, <1>3 DEF RunPipe, TargetOK
  <2>3. TargetOK'
    BY <1>0, <2>1, <2>2, ReturnsType DEF TargetOK
  <2> QED BY <2>1, <2>3, ReturnsType DEF TypeOK, TargetOK, BpfOK, UserOK
<1>4. ASSUME RunDup2(t) PROVE TypeOK'
  <2> DEFINE f == thread[t].lo
  <2>1. f \in Fd
    BY <1>0 DEF TargetOK, Thread
  <2>2. {f} \in SUBSET Fd /\ allocs + 1 \in Nat /\ Returns(t, {f}, allocs + 1)
    BY <1>0, <1>4, <2>1 DEF RunDup2, TargetOK
  <2>3. fd_table' \in [Fd -> Nat] /\ allocs' \in Nat
    BY <1>0, <1>4, <2>1 DEF RunDup2, TargetOK
  <2>4. TargetOK'
    BY <1>0, <2>2, <2>3, ReturnsType DEF TargetOK
  <2> QED BY <2>2, <2>4, ReturnsType DEF TypeOK, TargetOK, BpfOK, UserOK
<1>5. ASSUME NEW value \in Fd, RunFcntl(t, value) PROVE TypeOK'
  <2>1. {value} \in SUBSET Fd /\ Returns(t, {value}, 0)
    BY <1>5 DEF RunFcntl
  <2>2. TargetOK'
    BY <1>0, <1>5, <2>1, ReturnsType DEF RunFcntl, TargetOK
  <2> QED BY <2>1, <2>2, ReturnsType DEF TypeOK, TargetOK, BpfOK, UserOK
<1>6. ASSUME RunClose(t) PROVE TypeOK'
  <2>1. TargetOK'
    BY <1>0, <1>6 DEF RunClose, TargetOK, Thread, Idle
  <2> QED BY <1>0, <1>6, <2>1 DEF RunClose, TypeOK, TargetOK, BpfOK, UserOK, bpf, user
<1>7. ASSUME NEW mark \in BOOLEAN, RunCloseRange(t, mark) PROVE TypeOK'
  <2> DEFINE ret == IF mark THEN Range2(thread[t].lo, thread[t].hi) ELSE {}
  <2>1. ret \in SUBSET Fd /\ Returns(t, ret, 0)
    BY <1>7 DEF RunCloseRange, Range2
  <2>2. fd_table' \in [Fd -> Nat] /\ allocs' \in Nat
    BY <1>0, <1>7 DEF RunCloseRange, TargetOK
  <2>3. TargetOK'
    BY <1>0, <2>1, <2>2, ReturnsType DEF TargetOK
  <2> QED BY <2>1, <2>3, ReturnsType DEF TypeOK, TargetOK, BpfOK, UserOK
<1>8. ASSUME NEW C \in SUBSET {f \in Fd : fd_table[f] # 0}, RunExec(t, C) PROVE TypeOK'
  <2>1. TargetOK'
    BY <1>0, <1>8 DEF RunExec, TargetOK, Thread
  <2> QED BY <1>0, <1>8, <2>1 DEF RunExec, TypeOK, TargetOK, BpfOK, UserOK, bpf, user
<1> QED BY <1>1, <1>2, <1>3, <1>4, <1>5, <1>6, <1>7, <1>8 DEF Kernel

(* Going back to user mode keeps the target's types and the consumer's.     *)
LEMMA BackType ==
  ASSUME TypeOK, NEW t \in Tid, NEW got \in SUBSET Fd, Back(t, got)
  PROVE  TargetOK' /\ UserOK'
<1>1. TargetOK'
  BY ZeroFd DEF TypeOK, TargetOK, Back, Thread, Idle
<1>2. UserOK'
  BY DEF TypeOK, UserOK, Back, user
<1> QED BY <1>1, <1>2

(* The sys_exit programs and sched_process_exit keep the types.             *)
LEMMA ExitType ==
  ASSUME TypeOK, NEW t \in Tid, Exit(t)
  PROVE  TypeOK'
<1> USE ZeroFd
<1>0. TargetOK /\ BpfOK /\ UserOK
  BY TypeOKSplit
<1>a. thread[t] \in Thread
  BY <1>0 DEF TargetOK
<1>b. thread[t].ret \in SUBSET Fd /\ thread[t].lo \in Fd /\ thread[t].id \in Nat
  BY <1>a DEF Thread
<1>1. ASSUME ExitOpen(t) PROVE TypeOK'
  <2>1. ring' \in Seq(FdEvent) /\ missed' \in BOOLEAN
    <3>1. CASE NoEmit
      BY <1>0, <3>1 DEF NoEmit, BpfOK
    <3>2. ASSUME NEW f \in thread[t].ret, Emit(Event("open", f, 0, thread[t].id))
          PROVE  ring' \in Seq(FdEvent) /\ missed' \in BOOLEAN
      <4>1. Event("open", f, 0, thread[t].id) \in FdEvent
        BY <1>b, <3>2, EventType
      <4> QED BY <1>0, <3>2, <4>1, EmitType
    <3> QED BY <1>1, <3>1, <3>2 DEF ExitOpen
  <2>2. pending_calls' \in [Tid -> PendingCall] /\ mistaken' \subseteq Fd
    BY <1>0, <1>1, DeleteType DEF ExitOpen, BpfOK
  <2>3. TargetOK' /\ UserOK'
    BY <1>1, <1>b, BackType DEF ExitOpen
  <2> QED BY <2>1, <2>2, <2>3 DEF TypeOK, TargetOK, BpfOK, UserOK
<1>6. ASSUME ExitFcntl(t) PROVE TypeOK'
  <2>1. /\ ring' \in Seq(FdEvent) /\ missed' \in BOOLEAN
        /\ mistaken' \subseteq Fd
    <3>1. CASE NoEmit /\ UNCHANGED mistaken
      BY <1>0, <3>1 DEF NoEmit, BpfOK
    <3>2. ASSUME NEW f \in thread[t].ret, Emit(Event("open", f, 0, 0)),
                 mistaken' = mistaken \cup thread[t].ret
          PROVE  /\ ring' \in Seq(FdEvent) /\ missed' \in BOOLEAN
                 /\ mistaken' \subseteq Fd
      <4>1. Event("open", f, 0, 0) \in FdEvent
        BY <1>b, <3>2, EventType
      <4>2. mistaken' \subseteq Fd
        BY <1>0, <1>b, <3>2 DEF BpfOK
      <4> QED BY <1>0, <3>2, <4>1, <4>2, EmitType
    <3> QED BY <1>6, <3>1, <3>2 DEF ExitFcntl
  <2>2. pending_calls' \in [Tid -> PendingCall]
    BY <1>0, <1>6, DeleteType DEF ExitFcntl
  <2>3. TargetOK' /\ UserOK'
    BY <1>6, BackType DEF ExitFcntl
  <2> QED BY <2>1, <2>2, <2>3 DEF TypeOK, TargetOK, BpfOK, UserOK
<1>7. ASSUME ExitFailed(t) PROVE TypeOK'
  <2>1. BpfOK'
    BY <1>0, <1>7, DeleteType DEF ExitFailed, FailureReported, NoEmit, BpfOK
  <2>2. Range2(thread[t].lo, thread[t].hi) \subseteq Fd
    BY DEF Range2
  <2>3. TargetOK' /\ UserOK'
    BY <1>7, <2>2, BackType DEF ExitFailed
  <2> QED BY <2>1, <2>3 DEF TypeOK, TargetOK, BpfOK, UserOK
<1>2. ASSUME ExitPipe(t) PROVE TypeOK'
  <2>0. mistaken' \subseteq Fd
    BY <1>0, <1>2 DEF ExitPipe, BpfOK
  <2>1. BpfOK'
    <3>1. CASE UNCHANGED <<pending_calls, ring, missed>>
      BY <1>0, <2>0, <3>1 DEF BpfOK
    <3>2. ASSUME NEW f \in thread[t].ret, NEW g \in thread[t].ret,
                 EmitBoth(Event("open", f, 0, thread[t].id),
                          Event("open", g, 0, thread[t].id + 1)),
                 pending_calls' = PendingDeleted(t)
          PROVE  BpfOK'
      <4>1. /\ Event("open", f, 0, thread[t].id) \in FdEvent
            /\ Event("open", g, 0, thread[t].id + 1) \in FdEvent
        BY <1>b, EventType
      <4>2. ring' \in Seq(FdEvent) /\ missed' \in BOOLEAN
        BY <1>0, <3>2, <4>1, EmitType
      <4> QED BY <1>0, <2>0, <3>2, <4>2, DeleteType DEF BpfOK
    <3>3. CASE missed' = TRUE /\ UNCHANGED ring /\ pending_calls' = PendingDeleted(t)
      BY <1>0, <2>0, <3>3, DeleteType DEF BpfOK
    <3> QED BY <1>2, <3>1, <3>2, <3>3 DEF ExitPipe
  <2>2. TargetOK' /\ UserOK'
    BY <1>2, <1>b, BackType DEF ExitPipe
  <2> QED BY <2>1, <2>2 DEF TypeOK, TargetOK, BpfOK, UserOK
<1>3. ASSUME ExitCloseRange(t) PROVE TypeOK'
  <2>1. pending_calls[t].lo \in Fd /\ pending_calls[t].hi \in Fd
    BY <1>0 DEF BpfOK, PendingCall
  <2>2. Event("close_range", pending_calls[t].lo, pending_calls[t].hi, 0) \in FdEvent
    BY <2>1, EventType
  <2>3. ring' \in Seq(FdEvent) /\ missed' \in BOOLEAN
    BY <1>0, <1>3, <2>2, EmitType DEF ExitCloseRange, NoEmit, BpfOK
  <2>4. pending_calls' \in [Tid -> PendingCall] /\ mistaken' \subseteq Fd
    BY <1>0, <1>3, DeleteType DEF ExitCloseRange, BpfOK
  <2>5. TargetOK' /\ UserOK'
    BY <1>3, <1>b, BackType DEF ExitCloseRange
  <2> QED BY <2>3, <2>4, <2>5 DEF TypeOK, TargetOK, BpfOK, UserOK
<1>4. ASSUME ExitExec(t) PROVE TypeOK'
  <2>1. Event("exec", 0, 0, 0) \in FdEvent
    BY EventType
  <2>2. BpfOK'
    BY <1>0, <1>4, <2>1, EmitType DEF ExitExec, BpfOK
  <2>3. TargetOK' /\ UserOK'
    BY <1>4, BackType DEF ExitExec
  <2> QED BY <2>2, <2>3 DEF TypeOK, TargetOK, BpfOK, UserOK
<1>5. ASSUME ExitThread(t) PROVE TypeOK'
  <2>1. Event("exit", 0, 0, 0) \in FdEvent
    BY EventType
  <2>2. BpfOK'
    BY <1>0, <1>5, <2>1, EmitType DEF ExitThread, BpfOK
  <2>3. TargetOK'
    BY <1>0, <1>5 DEF ExitThread, TargetOK, Thread
  <2> QED BY <1>0, <1>5, <2>2, <2>3 DEF ExitThread, TypeOK, TargetOK, BpfOK, UserOK, user
<1> QED BY <1>1, <1>2, <1>3, <1>4, <1>5, <1>6, <1>7 DEF Exit

-----------------------------------------------------------------------------
(* The consumer.                                                            *)

(* handle_event keeps the types.                                            *)
LEMMA ConsumerType ==
  ASSUME TypeOK, Consumer
  PROVE  TypeOK'
<1>0. TargetOK /\ BpfOK /\ UserOK
  BY TypeOKSplit
<1>1. PICK type : Consume(type)
  BY DEF Consumer, HandleOpen, HandleClose, HandleCloseRange, HandleExec, HandleExit
<1>2. Head(ring) \in FdEvent /\ ring' \in Seq(FdEvent)
  BY <1>0, <1>1 DEF Consume, BpfOK
<1>3. TargetOK' /\ BpfOK' /\ stopped' = stopped
  BY <1>0, <1>1, <1>2 DEF Consume, TargetOK, BpfOK, target
<1>a. NoEntry \in OpenFd
  BY DEF NoEntry, OpenFd
<1>b. \A e \in FdEvent : Closed(e) \in [Fd -> OpenFd]
  BY <1>0, <1>a DEF Closed, UserOK
<1>c. Cleared \in [Fd -> OpenFd]
  BY <1>a DEF Cleared
<1>d. \A after : Lost(open_fds, after) \subseteq Nat
  BY <1>0 DEF Lost, UserOK, OpenFd
<1>4. open_fds' \in [Fd -> OpenFd] /\ forgotten' \subseteq Nat
  <2>1. CASE HandleOpen
    <3>1. Head(ring).fd \in Fd /\ Head(ring).id \in Nat
      BY <1>2 DEF FdEvent
    <3>2. fd_table[Head(ring).fd] \in Nat
      BY <1>0, <3>1 DEF TargetOK
    <3>3. Opened(Head(ring)) \in [Fd -> OpenFd]
      BY <1>0, <3>1, <3>2 DEF Opened, UserOK, OpenFd
    <3> QED BY <1>0, <2>1, <3>3 DEF HandleOpen, UserOK
  <2>2. CASE HandleClose
    BY <1>0, <1>2, <1>b, <2>2 DEF HandleClose, UserOK
  <2>3. CASE HandleCloseRange
    BY <1>0, <1>2, <1>b, <1>d, <2>3 DEF HandleCloseRange, UserOK
  <2>4. CASE HandleExec
    BY <1>0, <1>a, <2>4 DEF HandleExec, Synced, UserOK
  <2>5. CASE HandleExit
    BY <1>0, <1>c, <1>d, <2>5 DEF HandleExit, UserOK
  <2> QED BY <2>1, <2>2, <2>3, <2>4, <2>5 DEF Consumer
<1> QED BY <1>0, <1>3, <1>4 DEF TypeOK, TargetOK, BpfOK, UserOK

(* The initial values are typed.                                            *)
LEMMA InitType == Init => TypeOK
<1> SUFFICES ASSUME Init PROVE TypeOK
  OBVIOUS
<1>1. TargetOK
  BY ZeroFd, TracerAssumption DEF Init, TargetOK, Idle, Thread
<1>2. BpfOK
  <2>1. NoPending \in PendingCall
    BY ZeroFd DEF NoPending, PendingCall
  <2>2. <<>> \in Seq(FdEvent)
    OBVIOUS
  <2> QED BY <2>1, <2>2 DEF Init, BpfOK
<1>3. UserOK
  BY DEF Init, UserOK, NoEntry, OpenFd
<1> QED BY <1>1, <1>2, <1>3, TypeOKSplit

(* Every step keeps the types.                                              *)
LEMMA NextType == TypeOK /\ [Next]_vars => TypeOK'
<1> SUFFICES ASSUME TypeOK, [Next]_vars PROVE TypeOK'
  OBVIOUS
<1>1. ASSUME NEW t \in Tid, Enter(t) \/ Kernel(t) \/ Exit(t) PROVE TypeOK'
  BY <1>1, EnterType, KernelType, ExitType
<1>2. CASE EnterExitGroup
  BY <1>2 DEF EnterExitGroup, TypeOK, bpf, user
<1>3. CASE Consumer
  BY <1>3, ConsumerType
<1>4. CASE Stop
  BY <1>4 DEF Stop, TypeOK, target, bpf
<1>5. CASE Reported \/ UNCHANGED vars
  BY <1>5 DEF Reported, TypeOK, vars, target, bpf, user
<1> QED BY <1>1, <1>2, <1>3, <1>4, <1>5 DEF Next

(* Type correctness, for every number of threads, descriptors and calls.    *)
THEOREM TracerTypeCorrect == Spec => []TypeOK
BY InitType, NextType, PTL DEF Spec

-----------------------------------------------------------------------------
(* PendingIsCurrent.  It is not inductive as it stands: that an entry is     *)
(* gone, or a pipe's, when the call is over rests on which calls leave one. *)

(* What an entry of thread u says of the thread.                            *)
PendingOf(u) ==
  pending_calls[u] # NoPending =>
    \/ /\ thread[u].at \in {"called", "returning", "failed"}
       /\ thread[u].name = pending_calls[u].source
       /\ thread[u].name \in {"open", "pipe", "dup2", "close_range"}
    \/ /\ pending_calls[u].source = "pipe"
       /\ thread[u].name \in {"none", "fcntl", "close", "exec"}

(* A thread that is in no call has the name of none.                        *)
InNoCall(u) ==
  thread[u].at \in {"user", "dead"} => thread[u].name = "none"

PendingInv == TypeOK /\ \A u \in Tid : PendingOf(u) /\ InNoCall(u)

(* A thread that the step of another leaves alone keeps its part of the     *)
(* invariant, so a step of t has to care for t alone.                       *)
LEMMA OthersKeepPending ==
  ASSUME PendingInv, NEW t \in Tid, PendingOf(t)', InNoCall(t)',
         \A u \in Tid \ {t} : thread'[u] = thread[u] /\ pending_calls'[u] = pending_calls[u]
  PROVE  \A u \in Tid : PendingOf(u)' /\ InNoCall(u)'
BY DEF PendingInv, PendingOf, InNoCall

(* Entering a call: the thread had no entry but a pipe's, and gets one of   *)
(* this call, or keeps what it had if the call is not remembered.           *)
LEMMA EnterPending ==
  ASSUME PendingInv, NEW t \in Tid, Enter(t)
  PROVE  \A u \in Tid : PendingOf(u)' /\ InNoCall(u)'
<1>0. thread \in [Tid -> Thread] /\ pending_calls \in [Tid -> PendingCall]
  BY DEF PendingInv, TypeOK
<1>1. thread[t].at = "user" =>
        pending_calls[t] = NoPending \/ pending_calls[t].source = "pipe"
  BY DEF PendingInv, PendingOf
<1>2. ASSUME NEW name, NEW lo, NEW hi, Called(t, name, lo, hi)
      PROVE  /\ thread'[t].at = "called" /\ thread'[t].name = name
             /\ \A u \in Tid \ {t} : thread'[u] = thread[u]
  BY <1>0, <1>2 DEF Called, Idle
<1>3. ASSUME NEW name \in {"open", "pipe", "dup2", "close_range"}, NEW lo, NEW hi,
             NEW call, call.source = name, thread[t].at = "user",
             Called(t, name, lo, hi), Remember(t, call)
      PROVE  \A u \in Tid : PendingOf(u)' /\ InNoCall(u)'
  <2>1. /\ pending_calls'[t] \in {NoPending, call}
        /\ \A u \in Tid \ {t} : pending_calls'[u] = pending_calls[u]
    BY <1>0, <1>3 DEF Remember
  <2>2. PendingOf(t)' /\ InNoCall(t)'
    BY <1>1, <1>2, <1>3, <2>1 DEF PendingOf, InNoCall
  <2> QED BY <1>2, <1>3, <2>1, <2>2, OthersKeepPending
<1>4. ASSUME NEW name \in {"fcntl", "close", "exec"}, NEW lo, NEW hi,
             thread[t].at = "user", Called(t, name, lo, hi),
             pending_calls' = pending_calls
      PROVE  \A u \in Tid : PendingOf(u)' /\ InNoCall(u)'
  <2>1. PendingOf(t)' /\ InNoCall(t)'
    BY <1>1, <1>2, <1>4 DEF PendingOf, InNoCall
  <2> QED BY <1>2, <1>4, <2>1, OthersKeepPending
<1>5. CASE \E name \in {"open", "pipe"} : EnterOpen(t, name)
  <2>1. PICK name \in {"open", "pipe"} : EnterOpen(t, name)
    BY <1>5
  <2>2. [NoPending EXCEPT !.source = name].source = name
    BY DEF NoPending
  <2> QED BY <1>3, <2>1, <2>2 DEF EnterOpen, MayCall
<1>6. CASE \E f \in Fd : EnterDup2(t, f)
  <2>1. PICK f \in Fd : EnterDup2(t, f)
    BY <1>6
  <2>2. [NoPending EXCEPT !.source = "dup2"].source = "dup2"
    BY DEF NoPending
  <2> QED BY <1>3, <2>1, <2>2 DEF EnterDup2, MayCall
<1>7. CASE \E lo, hi \in Fd : EnterCloseRange(t, lo, hi)
  <2>1. PICK lo \in Fd, hi \in Fd : EnterCloseRange(t, lo, hi)
    BY <1>7
  <2> QED BY <1>3, <2>1 DEF EnterCloseRange, MayCall
<1>8. CASE EnterFcntl(t)
  BY <1>4, <1>8 DEF EnterFcntl, MayCall, bpf
<1>9. CASE \E f \in Fd : EnterClose(t, f)
  BY <1>4, <1>9 DEF EnterClose, MayCall
<1>10. CASE EnterExec(t)
  BY <1>4, <1>10 DEF EnterExec, MayCall, bpf
<1> QED BY <1>5, <1>6, <1>7, <1>8, <1>9, <1>10 DEF Enter

(* The kernel touches no entry, and keeps the name of the call it executes. *)
LEMMA KernelPending ==
  ASSUME PendingInv, NEW t \in Tid, Kernel(t)
  PROVE  \A u \in Tid : PendingOf(u)' /\ InNoCall(u)'
<1>0. thread \in [Tid -> Thread] /\ PendingOf(t)
  BY DEF PendingInv, TypeOK
<1>1. ASSUME thread[t].at \in {"called", "killing"}, thread'[t].name = thread[t].name,
             \/ thread'[t].at \in {"returning", "failed"}
             \/ thread'[t].at = "killing" /\ thread[t].name = "exec",
             thread[t].at = "killing" => thread[t].name = "exec" \/ pending_calls[t] = NoPending
                                         \/ pending_calls[t].source = "pipe",
             \A u \in Tid \ {t} : thread'[u] = thread[u], pending_calls' = pending_calls
      PROVE  \A u \in Tid : PendingOf(u)' /\ InNoCall(u)'
  <2>1. PendingOf(t)' /\ InNoCall(t)'
    BY <1>0, <1>1 DEF PendingOf, InNoCall
  <2> QED BY <1>1, <2>1, OthersKeepPending
<1>2. CASE RunFails(t) \/ KillOthers(t)
  <2>1. /\ thread'[t].at \in {"failed", "killing"} /\ thread'[t].name = thread[t].name
        /\ thread[t].at = "called"
        /\ thread'[t].at = "killing" => thread[t].name = "exec"
        /\ \A u \in Tid \ {t} : thread'[u] = thread[u]
    BY <1>0, <1>2 DEF RunFails, KillOthers, Running, Thread
  <2>2. pending_calls' = pending_calls
    BY <1>2 DEF RunFails, KillOthers, bpf
  <2> QED BY <1>1, <2>1, <2>2
<1>a. ASSUME NEW ret, NEW id, Returns(t, ret, id), thread[t].at = "called"
      PROVE  \A u \in Tid : PendingOf(u)' /\ InNoCall(u)'
  <2>1. /\ thread'[t].at = "returning" /\ thread'[t].name = thread[t].name
        /\ \A u \in Tid \ {t} : thread'[u] = thread[u]
    BY <1>0, <1>a DEF Returns, Thread
  <2>2. pending_calls' = pending_calls
    BY <1>a DEF Returns, bpf
  <2> QED BY <1>1, <1>a, <2>1, <2>2
<1>3. CASE \E f \in Fd : RunOpen(t, f)
  BY <1>a, <1>3 DEF RunOpen, Running
<1>4. CASE \E f, g \in Fd : RunPipe(t, f, g)
  BY <1>a, <1>4 DEF RunPipe, Running
<1>5. CASE RunDup2(t)
  BY <1>a, <1>5 DEF RunDup2, Running
<1>6. CASE \E value \in Fd : RunFcntl(t, value)
  BY <1>a, <1>6 DEF RunFcntl, Running
<1>7. CASE RunClose(t)
  <2>1. /\ pending_calls[t] # NoPending => pending_calls[t].source = "pipe"
        /\ pending_calls' = pending_calls
    BY <1>0, <1>7 DEF RunClose, Running, PendingOf, bpf
  <2>2. /\ thread'[t].at = "user" /\ thread'[t].name = "none"
        /\ \A u \in Tid \ {t} : thread'[u] = thread[u]
    BY <1>0, <1>7 DEF RunClose, Idle
  <2>3. PendingOf(t)' /\ InNoCall(t)'
    BY <2>1, <2>2 DEF PendingOf, InNoCall
  <2> QED BY <2>1, <2>2, <2>3, OthersKeepPending
<1>8. CASE \E mark \in BOOLEAN : RunCloseRange(t, mark)
  BY <1>a, <1>8 DEF RunCloseRange, Running
<1>9. CASE \E C \in SUBSET {f \in Fd : fd_table[f] # 0} : RunExec(t, C)
  <2>1. thread[t].at = "killing" /\ pending_calls' = pending_calls
    BY <1>9 DEF RunExec, bpf
  <2>2. /\ thread'[t].at = "returning" /\ thread'[t].name = thread[t].name
        /\ \A u \in Tid \ {t} : thread'[u] = thread[u]
    BY <1>0, <1>9 DEF RunExec, Thread
  <2>3. pending_calls[t] = NoPending \/ pending_calls[t].source = "pipe"
    BY <1>0, <2>1 DEF PendingOf
  <2> QED BY <1>1, <2>1, <2>2, <2>3
<1> QED BY <1>2, <1>3, <1>4, <1>5, <1>6, <1>7, <1>8, <1>9 DEF Kernel

(* Every return to user mode leaves the thread without an entry, or with a  *)
(* pipe's.                                                                  *)
LEMMA ExitPending ==
  ASSUME PendingInv, NEW t \in Tid, Exit(t)
  PROVE  \A u \in Tid : PendingOf(u)' /\ InNoCall(u)'
<1>0. /\ thread \in [Tid -> Thread] /\ pending_calls \in [Tid -> PendingCall]
      /\ PendingOf(t) /\ InNoCall(t)
  BY DEF PendingInv, TypeOK
<1>1. ASSUME NEW got, Back(t, got), pending_calls' \in {pending_calls, PendingDeleted(t)},
             pending_calls'[t] = NoPending \/ pending_calls'[t].source = "pipe"
      PROVE  \A u \in Tid : PendingOf(u)' /\ InNoCall(u)'
  <2>1. /\ thread'[t].at = "user" /\ thread'[t].name = "none"
        /\ \A u \in Tid \ {t} : thread'[u] = thread[u]
    BY <1>0, <1>1 DEF Back, Idle
  <2>2. \A u \in Tid \ {t} : pending_calls'[u] = pending_calls[u]
    BY <1>0, <1>1 DEF PendingDeleted
  <2>3. PendingOf(t)' /\ InNoCall(t)'
    BY <1>1, <2>1 DEF PendingOf, InNoCall
  <2> QED BY <2>1, <2>2, <2>3, OthersKeepPending
<1>2. PendingDeleted(t)[t] = NoPending
  BY <1>0 DEF PendingDeleted
<1>3. CASE ExitOpen(t) \/ ExitFcntl(t) \/ ExitCloseRange(t)
  <2>1. pending_calls' = PendingDeleted(t) /\ \E got : Back(t, got)
    BY <1>3 DEF ExitOpen, ExitFcntl, ExitCloseRange
  <2> QED BY <1>1, <1>2, <2>1
<1>4. CASE ExitPipe(t)
  <2>1. \E got : Back(t, got)
    BY <1>4 DEF ExitPipe
  <2>2. CASE pending_calls[t] = NoPending
    BY <1>1, <1>4, <2>1, <2>2 DEF ExitPipe
  <2>3. CASE pending_calls[t] # NoPending
    BY <1>1, <1>2, <1>4, <2>1, <2>3 DEF ExitPipe
  <2> QED BY <2>2, <2>3
<1>5. CASE ExitExec(t)
  <2>1. pending_calls[t] = NoPending \/ pending_calls[t].source = "pipe"
    BY <1>0, <1>5 DEF ExitExec, Returning, PendingOf
  <2> QED BY <1>1, <1>5, <2>1 DEF ExitExec
<1>6. CASE ExitFailed(t)
  <2>1. \E got : Back(t, got)
    BY <1>6 DEF ExitFailed
  <2>2. CASE thread[t].name \in {"pipe", "exec"}
    <3>1. pending_calls[t] = NoPending \/ pending_calls[t].source = "pipe"
      BY <1>0, <2>2 DEF PendingOf
    <3> QED BY <1>1, <1>6, <2>1, <2>2, <3>1 DEF ExitFailed
  <2>3. CASE thread[t].name \notin {"pipe", "exec"}
    BY <1>1, <1>2, <1>6, <2>1, <2>3 DEF ExitFailed
  <2> QED BY <2>2, <2>3
<1>7. CASE ExitThread(t)
  <2>1. /\ pending_calls[t] = NoPending \/ pending_calls[t].source = "pipe"
        /\ pending_calls' = pending_calls
        /\ thread[t].name = "none"
    BY <1>0, <1>7 DEF ExitThread, PendingOf, InNoCall
  <2>2. /\ thread'[t].at = "dead" /\ thread'[t].name = "none"
        /\ \A u \in Tid \ {t} : thread'[u] = thread[u]
    BY <1>0, <1>7, <2>1 DEF ExitThread, Thread
  <2>3. PendingOf(t)' /\ InNoCall(t)'
    BY <2>1, <2>2 DEF PendingOf, InNoCall
  <2> QED BY <2>1, <2>2, <2>3, OthersKeepPending
<1> QED BY <1>3, <1>4, <1>5, <1>6, <1>7 DEF Exit

(* The invariant is inductive.                                              *)
LEMMA PendingInductive == PendingInv /\ [Next]_vars => PendingInv'
<1> SUFFICES ASSUME PendingInv, [Next]_vars PROVE PendingInv'
  OBVIOUS
<1>1. TypeOK'
  BY NextType DEF PendingInv
<1>2. \A u \in Tid : PendingOf(u)' /\ InNoCall(u)'
  <2>1. ASSUME NEW t \in Tid, Enter(t) \/ Kernel(t) \/ Exit(t)
        PROVE  \A u \in Tid : PendingOf(u)' /\ InNoCall(u)'
    BY <2>1, EnterPending, KernelPending, ExitPending
  <2>2. CASE UNCHANGED <<thread, pending_calls>>
    BY <2>2 DEF PendingInv, PendingOf, InNoCall
  <2>3. CASE EnterExitGroup \/ Stop \/ Reported \/ UNCHANGED vars
    BY <2>2, <2>3 DEF EnterExitGroup, Stop, Reported, vars, target, bpf
  <2>4. CASE Consumer
    BY <2>2, <2>4 DEF Consumer, HandleOpen, HandleClose, HandleCloseRange, HandleExec,
                      HandleExit, Consume, target
  <2> QED BY <2>1, <2>3, <2>4 DEF Next
<1> QED BY <1>1, <1>2 DEF PendingInv

(* Whether or not pipes fail, a sys_exit program finds the entry of the call *)
(* that returns, or, if it is fcntl's, that of a failed pipe.               *)
THEOREM PendingCurrent == Spec => []PendingIsCurrent
<1>1. Init => PendingInv
  BY InitType DEF Init, PendingInv, PendingOf, InNoCall, Idle
<1>2. PendingInv => PendingIsCurrent
  BY DEF PendingInv, PendingOf, PendingIsCurrent
<1> QED BY <1>1, <1>2, PendingInductive, PTL DEF Spec

-----------------------------------------------------------------------------
(* Who may use a descriptor: the program, or one call under way.            *)

(* The call that thread t is in took f away from the program, or has it for *)
(* the program.                                                             *)
Owns(t, f) ==
  \/ /\ thread[t].at \in {"called", "failed"}
     /\ thread[t].name \in {"close", "dup2", "close_range"}
     /\ f \in Range2(thread[t].lo, thread[t].hi)
  \/ /\ thread[t].at = "returning"
     /\ thread[t].name \in {"open", "pipe", "dup2", "close_range"}
     /\ f \in thread[t].ret

(* close and dup2 are of one descriptor, only an execve kills the others,   *)
(* and a call that allocates returns what it has put into the kernel's      *)
(* table.                                                                   *)
Answered(t) ==
  /\ thread[t].name \in {"close", "dup2"} => thread[t].lo = thread[t].hi
  /\ thread[t].at = "killing" => thread[t].name = "exec"
  /\ thread[t].at = "returning" =>
       /\ thread[t].name = "open" =>
            \E f \in Fd : thread[t].ret = {f} /\ fd_table[f] = thread[t].id
       /\ thread[t].name = "pipe" =>
            \E f, g \in Fd : /\ f < g
                             /\ thread[t].ret = {f, g}
                             /\ fd_table[f] = thread[t].id
                             /\ fd_table[g] = thread[t].id + 1
       /\ thread[t].name = "dup2" =>
            thread[t].ret = {thread[t].lo} /\ fd_table[thread[t].lo] = thread[t].id

(* No two calls have the same descriptor, none has one that the program may *)
(* use, and all of them are open.                                           *)
OwnerInv ==
  /\ \A t \in Tid : /\ \A f \in Fd : Owns(t, f) => fd_table[f] # 0 /\ f \notin held
                    /\ Answered(t)
  /\ \A t, u \in Tid : \A f \in Fd : Owns(t, f) /\ Owns(u, f) => t = u
  /\ Alive # {} => \A f \in held : fd_table[f] # 0
  /\ allocs > 0

(* The call that thread t is in is remembered if its sys_enter program does *)
(* so, a close_range with its bounds.                                       *)
Remembered(t) ==
  /\ thread[t].at \in {"called", "returning"}
  /\ thread[t].name \in {"open", "pipe", "dup2", "close_range"}
  => /\ pending_calls[t] # NoPending
     /\ thread[t].name = "close_range" =>
          pending_calls[t].lo = thread[t].lo /\ pending_calls[t].hi = thread[t].hi

(* As long as nothing was missed, every call is remembered.                 *)
RememberInv ==
  /\ Len(ring) <= RingSize
  /\ ~missed => \A t \in Tid : Remembered(t)

-----------------------------------------------------------------------------
(* What the events of a queue q will make of an entry of the table for f.   *)

(* Event e decides what the table has for f.                                *)
About(e, f) ==
  \/ e.type = "open" /\ e.fd = f
  \/ e.type \in {"close", "close_range"} /\ f \in Range2(e.fd, e.end)
  \/ e.type = "exit"

(* The events from i on leave f alone.                                      *)
QuietFrom(q, i, f) == \A j \in i .. Len(q) : ~About(q[j], f)

(* An exec is synchronized with after all that is said of f.                *)
ExecAfter(q, f) == \E j \in 1 .. Len(q) : q[j].type = "exec" /\ QuietFrom(q, j + 1, f)

(* The last word on f is allocation n, or that there is no entry.           *)
LastWordIs(q, entry, f, n) ==
  /\ \A i \in 1 .. Len(q) :
       q[i].type = "open" /\ q[i].fd = f /\ QuietFrom(q, i + 1, f) => q[i].id = n
  /\ QuietFrom(q, 1, f) /\ entry # NoEntry => entry.id = n /\ entry.target = n

(* The last word on f is that there is no entry.                            *)
LastWordNone(q, entry, f) ==
  /\ \A i \in 1 .. Len(q) : q[i].type = "open" /\ q[i].fd = f => ~QuietFrom(q, i + 1, f)
  /\ QuietFrom(q, 1, f) => entry = NoEntry

(* What is said of f from i on takes it out of the table without a close.   *)
ForgetsFrom(q, i, f) ==
  \A j \in i .. Len(q) : About(q[j], f) => q[j].type \in {"close_range", "exit"}

(* Allocation n of f is said, or known, and only forgotten since.           *)
Said(q, entry, f, n) ==
  \/ \E i \in 1 .. Len(q) : /\ q[i].type = "open" /\ q[i].fd = f /\ q[i].id = n
                            /\ ForgetsFrom(q, i + 1, f)
  \/ entry.id = n /\ ForgetsFrom(q, 1, f)

-----------------------------------------------------------------------------
(* What calls and events together will make of the table.                   *)

(* Thread t returns from a call that has allocated f.                       *)
Says(t, f) ==
  /\ thread[t].at = "returning"
  /\ thread[t].name \in {"open", "pipe", "dup2"}
  /\ f \in thread[t].ret

(* Thread t returns from a close_range over f.                              *)
Ranges(t, f) ==
  /\ thread[t].at = "returning"
  /\ thread[t].name = "close_range"
  /\ f \in Range2(thread[t].lo, thread[t].hi)

(* Thread t returns from an exec.                                           *)
ExecReturns(t) == thread[t].at = "returning" /\ thread[t].name = "exec"

(* Thread t has said that it closes f, and f is not closed yet.             *)
Closes(t, f) ==
  /\ thread[t].at = "called"
  /\ thread[t].name = "close"
  /\ thread[t].lo = f

(* The table has nothing false of f, or will not once what is under way is  *)
(* told.                                                                    *)
ToldTrue(f) ==
  \/ \E t \in Tid : Says(t, f) \/ Ranges(t, f)
  \/ fd_table[f] = 0 /\ ((\E t \in Tid : ExecReturns(t)) \/ ExecAfter(ring, f))
  \/ LastWordIs(ring, open_fds[f], f, fd_table[f])

(* Of a descriptor that is being closed the last word is that it is.        *)
ClosingTold ==
  \A t \in Tid : \A f \in Fd \ mistaken : Closes(t, f) => LastWordNone(ring, open_fds[f], f)

(* The allocation of f is in the table, or will be, or was forgotten.       *)
ToldAll(f) ==
  fd_table[f] > 1 =>
    \/ \E t \in Tid : Says(t, f) \/ Closes(t, f)
    \/ Said(ring, open_fds[f], f, fd_table[f])
    \/ fd_table[f] \in forgotten

(* As long as nothing was missed, the table and what is under way tell the  *)
(* truth, all of it, but of numbers that were mistaken for descriptors.     *)
ReportInv ==
  /\ PendingInv
  /\ OwnerInv
  /\ RememberInv
  /\ ~missed => ClosingTold /\ \A f \in Fd \ mistaken : ToldTrue(f) /\ ToldAll(f)

-----------------------------------------------------------------------------
(* Events.                                                                  *)

(* An appended event is the last.                                           *)
LEMMA AppendedIs ==
  ASSUME NEW q \in Seq(FdEvent), NEW e \in FdEvent
  PROVE  /\ Append(q, e) \in Seq(FdEvent)
         /\ Len(q) \in Nat
         /\ Len(Append(q, e)) = Len(q) + 1
         /\ \A i \in 1 .. Len(q) : Append(q, e)[i] = q[i]
         /\ Append(q, e)[Len(q) + 1] = e
OBVIOUS

(* An event that is not about f leaves everything said of f as it is.       *)
LEMMA AppendApart ==
  ASSUME NEW q \in Seq(FdEvent), NEW e \in FdEvent, NEW f, NEW entry, NEW n, ~About(e, f)
  PROVE  /\ LastWordIs(q, entry, f, n) => LastWordIs(Append(q, e), entry, f, n)
         /\ LastWordNone(q, entry, f) => LastWordNone(Append(q, e), entry, f)
         /\ ExecAfter(q, f) => ExecAfter(Append(q, e), f)
         /\ Said(q, entry, f, n) => Said(Append(q, e), entry, f, n)
<1> DEFINE p == Append(q, e)
<1>1. /\ Len(q) \in Nat /\ Len(p) = Len(q) + 1
      /\ \A i \in 1 .. Len(q) : p[i] = q[i]
      /\ p[Len(q) + 1] = e
  BY AppendedIs
<1> HIDE DEF p
<1>2. \A i \in Nat \ {0} : QuietFrom(q, i, f) <=> QuietFrom(p, i, f)
  BY <1>1 DEF QuietFrom
<1>3. \A i \in Nat \ {0} : ForgetsFrom(q, i, f) => ForgetsFrom(p, i, f)
  BY <1>1 DEF ForgetsFrom
<1>4. ~(e.type = "open" /\ e.fd = f)
  BY DEF About
<1>5. \A i \in 1 .. Len(p) : i \in 1 .. Len(q) \/ i = Len(q) + 1
  BY <1>1
<1>6. LastWordIs(q, entry, f, n) => LastWordIs(p, entry, f, n)
  BY <1>1, <1>2, <1>4, <1>5 DEF LastWordIs
<1>7. LastWordNone(q, entry, f) => LastWordNone(p, entry, f)
  BY <1>1, <1>2, <1>4, <1>5 DEF LastWordNone
<1>8. ExecAfter(q, f) => ExecAfter(p, f)
  BY <1>1, <1>2, <1>5 DEF ExecAfter
<1>9. Said(q, entry, f, n) => Said(p, entry, f, n)
  BY <1>1, <1>3, <1>5 DEF Said
<1> QED BY <1>6, <1>7, <1>8, <1>9 DEF p

(* An appended open event is the last word on its descriptor.               *)
LEMMA AppendOpen ==
  ASSUME NEW q \in Seq(FdEvent), NEW e \in FdEvent, NEW entry, e.type = "open"
  PROVE  /\ LastWordIs(Append(q, e), entry, e.fd, e.id)
         /\ Said(Append(q, e), entry, e.fd, e.id)
<1> DEFINE p == Append(q, e)
<1>1. /\ Len(q) \in Nat /\ Len(p) = Len(q) + 1
      /\ \A i \in 1 .. Len(q) : p[i] = q[i]
      /\ p[Len(q) + 1] = e
  BY AppendedIs
<1> HIDE DEF p
<1>2. About(e, e.fd)
  BY DEF About
<1>3. \A i \in 1 .. Len(q) + 1 : ~QuietFrom(p, i, e.fd)
  BY <1>1, <1>2 DEF QuietFrom
<1>4. LastWordIs(p, entry, e.fd, e.id)
  BY <1>1, <1>3 DEF LastWordIs
<1>5. ForgetsFrom(p, Len(q) + 2, e.fd)
  BY <1>1 DEF ForgetsFrom
<1>6. Said(p, entry, e.fd, e.id)
  <2>1. Len(q) + 1 \in 1 .. Len(p) /\ Len(q) + 1 + 1 = Len(q) + 2
    BY <1>1
  <2> QED BY <1>1, <1>5, <2>1 DEF Said
<1> QED BY <1>4, <1>6 DEF p

(* An appended close, close_range or exit event is the last word on every   *)
(* descriptor it is about: there is no entry.                               *)
LEMMA AppendGone ==
  ASSUME NEW q \in Seq(FdEvent), NEW e \in FdEvent, NEW f, NEW entry,
         About(e, f), e.type # "open"
  PROVE  LastWordNone(Append(q, e), entry, f)
<1> DEFINE p == Append(q, e)
<1>1. /\ Len(q) \in Nat /\ Len(p) = Len(q) + 1
      /\ \A i \in 1 .. Len(q) : p[i] = q[i]
      /\ p[Len(q) + 1] = e
  BY AppendedIs
<1> HIDE DEF p
<1>2. \A i \in 1 .. Len(q) + 1 : ~QuietFrom(p, i, f)
  BY <1>1 DEF QuietFrom
<1>3. LastWordNone(p, entry, f)
  BY <1>1, <1>2 DEF LastWordNone
<1> QED BY <1>3 DEF p

(* A range or an exit forgets, and an exec says nothing.                    *)
LEMMA AppendForgets ==
  ASSUME NEW q \in Seq(FdEvent), NEW e \in FdEvent, NEW f, NEW entry, NEW n,
         e.type \in {"close_range", "exit", "exec"}, Said(q, entry, f, n)
  PROVE  Said(Append(q, e), entry, f, n)
<1> DEFINE p == Append(q, e)
<1>1. /\ Len(q) \in Nat /\ Len(p) = Len(q) + 1
      /\ \A i \in 1 .. Len(q) : p[i] = q[i]
      /\ p[Len(q) + 1] = e
  BY AppendedIs
<1> HIDE DEF p
<1>2. About(e, f) => e.type \in {"close_range", "exit"}
  BY DEF About
<1>3. \A i \in Nat \ {0} : ForgetsFrom(q, i, f) => ForgetsFrom(p, i, f)
  BY <1>1, <1>2 DEF ForgetsFrom
<1>4. Said(p, entry, f, n)
  BY <1>1, <1>3 DEF Said
<1> QED BY <1>4 DEF p

(* After an exec event nothing is said of any descriptor.                   *)
LEMMA AppendExec ==
  ASSUME NEW q \in Seq(FdEvent), NEW e \in FdEvent, NEW f, e.type = "exec"
  PROVE  ExecAfter(Append(q, e), f)
<1> DEFINE p == Append(q, e)
<1>1. Len(q) \in Nat /\ Len(p) = Len(q) + 1 /\ p[Len(q) + 1] = e
  BY AppendedIs
<1> HIDE DEF p
<1>2. Len(q) + 1 \in 1 .. Len(p) /\ QuietFrom(p, Len(q) + 1 + 1, f)
  BY <1>1 DEF QuietFrom
<1>3. ExecAfter(p, f)
  BY <1>1, <1>2 DEF ExecAfter
<1> QED BY <1>3 DEF p

(* If the last word is that there is no entry, it is true of whatever       *)
(* allocation.                                                              *)
LEMMA NoneIsTrue ==
  ASSUME NEW q, NEW entry, NEW f, NEW n, LastWordNone(q, entry, f)
  PROVE  LastWordIs(q, entry, f, n)
BY DEF LastWordNone, LastWordIs

(* What is left when the first event is taken.                              *)
LEMMA TakenIs ==
  ASSUME NEW q \in Seq(FdEvent), q # <<>>
  PROVE  /\ Len(q) \in Nat \ {0}
         /\ Len(Tail(q)) = Len(q) - 1
         /\ \A i \in 1 .. Len(q) - 1 : Tail(q)[i] = q[i + 1]
         /\ Head(q) = q[1]
OBVIOUS

(* What the rest of the queue says.                                         *)
LEMMA RestSays ==
  ASSUME NEW q \in Seq(FdEvent), q # <<>>, NEW f
  PROVE  /\ \A i \in Nat \ {0} : QuietFrom(Tail(q), i, f) <=> QuietFrom(q, i + 1, f)
         /\ \A i \in Nat \ {0} : ForgetsFrom(Tail(q), i, f) <=> ForgetsFrom(q, i + 1, f)
         /\ QuietFrom(q, 1, f) <=> ~About(Head(q), f) /\ QuietFrom(q, 2, f)
         /\ ForgetsFrom(q, 1, f) <=>
              /\ About(Head(q), f) => Head(q).type \in {"close_range", "exit"}
              /\ ForgetsFrom(q, 2, f)
<1> DEFINE p == Tail(q)
<1>1. /\ Len(q) \in Nat \ {0} /\ Len(p) = Len(q) - 1
      /\ \A i \in 1 .. Len(q) - 1 : p[i] = q[i + 1]
      /\ Head(q) = q[1]
  BY TakenIs
<1> HIDE DEF p
<1>2. ASSUME NEW i \in Nat \ {0}
      PROVE  /\ \A j \in i .. Len(p) : j + 1 \in i + 1 .. Len(q) /\ p[j] = q[j + 1]
             /\ \A j \in i + 1 .. Len(q) : j - 1 \in i .. Len(p) /\ p[j - 1] = q[j]
  BY <1>1
<1>3. \A i \in Nat \ {0} : QuietFrom(p, i, f) <=> QuietFrom(q, i + 1, f)
  BY <1>2 DEF QuietFrom
<1>4. \A i \in Nat \ {0} : ForgetsFrom(p, i, f) <=> ForgetsFrom(q, i + 1, f)
  BY <1>2 DEF ForgetsFrom
<1>5. \A j \in 1 .. Len(q) : j = 1 \/ j \in 2 .. Len(q)
  BY <1>1
<1>6. 1 \in 1 .. Len(q) /\ \A j \in 2 .. Len(q) : j \in 1 .. Len(q)
  BY <1>1
<1>7. QuietFrom(q, 1, f) <=> ~About(Head(q), f) /\ QuietFrom(q, 2, f)
  BY <1>1, <1>5, <1>6 DEF QuietFrom
<1>8. ForgetsFrom(q, 1, f) <=>
        /\ About(Head(q), f) => Head(q).type \in {"close_range", "exit"}
        /\ ForgetsFrom(q, 2, f)
  BY <1>1, <1>5, <1>6 DEF ForgetsFrom
<1> QED BY <1>3, <1>4, <1>7, <1>8 DEF p

(* Taking an event that is not about f leaves what is said of f as it is.   *)
LEMMA TakeApart ==
  ASSUME NEW q \in Seq(FdEvent), q # <<>>, NEW f, NEW entry, NEW n, ~About(Head(q), f)
  PROVE  /\ LastWordIs(q, entry, f, n) => LastWordIs(Tail(q), entry, f, n)
         /\ LastWordNone(q, entry, f) => LastWordNone(Tail(q), entry, f)
         /\ Said(q, entry, f, n) => Said(Tail(q), entry, f, n)
<1> DEFINE p == Tail(q)
<1>1. /\ Len(q) \in Nat \ {0} /\ Len(p) = Len(q) - 1
      /\ \A i \in 1 .. Len(q) - 1 : p[i] = q[i + 1]
      /\ Head(q) = q[1]
  BY TakenIs
<1>2. /\ \A i \in Nat \ {0} : QuietFrom(p, i, f) <=> QuietFrom(q, i + 1, f)
      /\ \A i \in Nat \ {0} : ForgetsFrom(p, i, f) <=> ForgetsFrom(q, i + 1, f)
      /\ QuietFrom(q, 1, f) <=> QuietFrom(q, 2, f)
      /\ ForgetsFrom(q, 1, f) <=> ForgetsFrom(q, 2, f)
  BY RestSays
<1>3. ~(Head(q).type = "open" /\ Head(q).fd = f)
  BY DEF About
<1> HIDE DEF p
<1>4. \A i \in 1 .. Len(p) : /\ i + 1 \in 1 .. Len(q) /\ p[i] = q[i + 1]
                             /\ i \in Nat \ {0} /\ i + 1 \in Nat \ {0}
  BY <1>1
<1>5. QuietFrom(p, 1, f) <=> QuietFrom(q, 1, f)
  BY <1>2
<1>6. LastWordIs(q, entry, f, n) => LastWordIs(p, entry, f, n)
  BY <1>2, <1>4, <1>5 DEF LastWordIs
<1>7. LastWordNone(q, entry, f) => LastWordNone(p, entry, f)
  BY <1>2, <1>4, <1>5 DEF LastWordNone
<1>8. Said(q, entry, f, n) => Said(p, entry, f, n)
  <2>1. ASSUME NEW i \in 1 .. Len(q), q[i].type = "open", q[i].fd = f, q[i].id = n,
               ForgetsFrom(q, i + 1, f)
        PROVE  Said(p, entry, f, n)
    <3>1. i # 1
      BY <1>1, <1>3, <2>1
    <3>2. i - 1 \in 1 .. Len(p) /\ i - 1 \in Nat \ {0} /\ i \in Nat \ {0} /\ i - 1 + 1 = i
      BY <1>1, <2>1, <3>1
    <3>3. p[i - 1] = q[i] /\ ForgetsFrom(p, i - 1 + 1, f)
      BY <1>2, <1>4, <2>1, <3>2
    <3> QED BY <2>1, <3>2, <3>3 DEF Said
  <2>2. ForgetsFrom(q, 1, f) => ForgetsFrom(p, 1, f)
    BY <1>2
  <2> QED BY <2>1, <2>2 DEF Said
<1> QED BY <1>6, <1>7, <1>8 DEF p

(* Taking any event leaves the last word where it is if there is no entry   *)
(* then; and what is said after the event is still said.                    *)
LEMMA TakeAny ==
  ASSUME NEW q \in Seq(FdEvent), q # <<>>, NEW f, NEW entry, NEW n
  PROVE  /\ LastWordIs(q, entry, f, n) => LastWordIs(Tail(q), NoEntry, f, n)
         /\ LastWordNone(q, entry, f) => LastWordNone(Tail(q), NoEntry, f)
         /\ ExecAfter(q, f) =>
              \/ ExecAfter(Tail(q), f)
              \/ Head(q).type = "exec" /\ QuietFrom(Tail(q), 1, f)
         /\ \A new : Said(q, entry, f, n) =>
              \/ Said(Tail(q), new, f, n)
              \/ /\ Head(q).type = "open" /\ Head(q).fd = f /\ Head(q).id = n
                 /\ ForgetsFrom(Tail(q), 1, f)
              \/ /\ entry.id = n
                 /\ About(Head(q), f) => Head(q).type \in {"close_range", "exit"}
<1> DEFINE p == Tail(q)
<1>1. /\ Len(q) \in Nat \ {0} /\ Len(p) = Len(q) - 1
      /\ \A i \in 1 .. Len(q) - 1 : p[i] = q[i + 1]
      /\ Head(q) = q[1]
  BY TakenIs
<1>2. /\ \A i \in Nat \ {0} : QuietFrom(p, i, f) <=> QuietFrom(q, i + 1, f)
      /\ \A i \in Nat \ {0} : ForgetsFrom(p, i, f) <=> ForgetsFrom(q, i + 1, f)
      /\ ForgetsFrom(q, 1, f) =>
              (About(Head(q), f) => Head(q).type \in {"close_range", "exit"})
  BY RestSays
<1> HIDE DEF p
<1>4. \A i \in 1 .. Len(p) : /\ i + 1 \in 1 .. Len(q) /\ p[i] = q[i + 1]
                             /\ i \in Nat \ {0} /\ i + 1 \in Nat \ {0}
  BY <1>1
<1>5. \A i \in 1 .. Len(q) : \/ i = 1
                             \/ /\ i - 1 \in 1 .. Len(p) /\ p[i - 1] = q[i]
                                /\ i \in Nat \ {0} /\ i - 1 + 1 = i
  BY <1>1
<1>6. LastWordIs(q, entry, f, n) => LastWordIs(p, NoEntry, f, n)
  BY <1>2, <1>4 DEF LastWordIs
<1>7. LastWordNone(q, entry, f) => LastWordNone(p, NoEntry, f)
  BY <1>2, <1>4 DEF LastWordNone
<1>8. ASSUME ExecAfter(q, f)
      PROVE  ExecAfter(p, f) \/ (Head(q).type = "exec" /\ QuietFrom(p, 1, f))
  <2>1. PICK j \in 1 .. Len(q) : q[j].type = "exec" /\ QuietFrom(q, j + 1, f)
    BY <1>8 DEF ExecAfter
  <2>2. CASE j = 1
    BY <1>1, <1>2, <2>1, <2>2
  <2>3. CASE j # 1
    <3>1. j - 1 \in 1 .. Len(p) /\ p[j - 1] = q[j] /\ QuietFrom(p, j - 1 + 1, f)
      BY <1>2, <1>5, <2>1, <2>3
    <3> QED BY <2>1, <3>1 DEF ExecAfter
  <2> QED BY <2>2, <2>3
<1>9. ASSUME NEW new, Said(q, entry, f, n)
      PROVE  \/ Said(p, new, f, n)
             \/ /\ Head(q).type = "open" /\ Head(q).fd = f /\ Head(q).id = n
                /\ ForgetsFrom(p, 1, f)
             \/ /\ entry.id = n
                /\ About(Head(q), f) => Head(q).type \in {"close_range", "exit"}
  <2>1. ASSUME NEW i \in 1 .. Len(q), q[i].type = "open", q[i].fd = f, q[i].id = n,
               ForgetsFrom(q, i + 1, f)
        PROVE  \/ Said(p, new, f, n)
               \/ /\ Head(q).type = "open" /\ Head(q).fd = f /\ Head(q).id = n
                  /\ ForgetsFrom(p, 1, f)
    <3>1. CASE i = 1
      BY <1>1, <1>2, <2>1, <3>1
    <3>2. CASE i # 1
      <4>1. i - 1 \in 1 .. Len(p) /\ p[i - 1] = q[i] /\ ForgetsFrom(p, i - 1 + 1, f)
        BY <1>2, <1>5, <2>1, <3>2
      <4> QED BY <2>1, <4>1 DEF Said
    <3> QED BY <3>1, <3>2
  <2>2. ASSUME entry.id = n, ForgetsFrom(q, 1, f)
        PROVE  About(Head(q), f) => Head(q).type \in {"close_range", "exit"}
    BY <1>2, <2>2
  <2> QED BY <1>9, <2>1, <2>2 DEF Said
<1> QED BY <1>6, <1>7, <1>8, <1>9 DEF p

(* The handled open event is the entry now.                                 *)
LEMMA TakeOpen ==
  ASSUME NEW q \in Seq(FdEvent), q # <<>>, NEW entry, NEW n, NEW new, NEW f,
         Head(q).type = "open", Head(q).fd = f, new.id = Head(q).id, new.target = n
  PROVE  /\ LastWordIs(q, entry, f, n) => LastWordIs(Tail(q), new, f, n)
         /\ LastWordNone(q, entry, f) => LastWordNone(Tail(q), new, f)
         /\ Said(q, entry, f, n) => Said(Tail(q), new, f, n)
<1> DEFINE p == Tail(q)
<1>1. /\ Len(q) \in Nat \ {0} /\ Len(p) = Len(q) - 1
      /\ \A i \in 1 .. Len(q) - 1 : p[i] = q[i + 1]
      /\ Head(q) = q[1]
  BY TakenIs
<1>2. /\ \A i \in Nat \ {0} : QuietFrom(p, i, f) <=> QuietFrom(q, i + 1, f)
  BY RestSays
<1>3. About(Head(q), f)
  BY DEF About
<1>4. /\ LastWordIs(q, entry, f, n) => LastWordIs(p, NoEntry, f, n)
      /\ LastWordNone(q, entry, f) => LastWordNone(p, NoEntry, f)
      /\ Said(q, entry, f, n) =>
           \/ Said(p, new, f, n)
           \/ Head(q).id = n /\ ForgetsFrom(p, 1, f)
  BY <1>3, TakeAny
<1> HIDE DEF p
<1>5. QuietFrom(p, 1, f) => QuietFrom(q, 1 + 1, f) /\ 1 \in 1 .. Len(q)
  BY <1>1, <1>2
<1>6. LastWordIs(q, entry, f, n) /\ QuietFrom(p, 1, f) => Head(q).id = n
  BY <1>1, <1>5 DEF LastWordIs
<1>7. LastWordNone(q, entry, f) => ~QuietFrom(p, 1, f)
  BY <1>1, <1>5 DEF LastWordNone
<1>8. LastWordIs(q, entry, f, n) => LastWordIs(p, new, f, n)
  BY <1>4, <1>6 DEF LastWordIs
<1>9. LastWordNone(q, entry, f) => LastWordNone(p, new, f)
  BY <1>4, <1>7 DEF LastWordNone
<1>10. Said(q, entry, f, n) => Said(p, new, f, n)
  BY <1>4 DEF Said
<1> QED BY <1>8, <1>9, <1>10 DEF p

-----------------------------------------------------------------------------
(* The owners of descriptors.                                               *)

(* Entering a call changes the thread's own record.                         *)
LEMMA CalledIs ==
  ASSUME TypeOK, NEW t \in Tid, NEW name, NEW lo, NEW hi, Called(t, name, lo, hi)
  PROVE  /\ thread'[t].at = "called" /\ thread'[t].name = name
         /\ thread'[t].lo = lo /\ thread'[t].hi = hi /\ thread'[t].ret = {}
         /\ \A u \in Tid \ {t} : thread'[u] = thread[u]
         /\ fd_table' = fd_table /\ allocs' = allocs
         /\ open_fds' = open_fds /\ forgotten' = forgotten
BY DEF TypeOK, Called, Idle, user

(* Returning from one changes its state, result and allocation.             *)
LEMMA ReturnsIs ==
  ASSUME TypeOK, NEW t \in Tid, NEW ret, NEW id, Returns(t, ret, id)
  PROVE  /\ thread'[t].at = "returning" /\ thread'[t].name = thread[t].name
         /\ thread'[t].lo = thread[t].lo /\ thread'[t].hi = thread[t].hi
         /\ thread'[t].ret = ret /\ thread'[t].id = id
         /\ \A u \in Tid \ {t} : thread'[u] = thread[u]
         /\ held' = held /\ pending_calls' = pending_calls
         /\ ring' = ring /\ missed' = missed /\ mistaken' = mistaken
         /\ open_fds' = open_fds /\ forgotten' = forgotten
<1>1. thread \in [Tid -> Thread] /\ thread[t] \in Thread
  BY DEF TypeOK
<1>2. thread' = [thread EXCEPT ![t].at = "returning", ![t].ret = ret, ![t].id = id]
  BY DEF Returns
<1>3. /\ thread'[t].at = "returning" /\ thread'[t].name = thread[t].name
      /\ thread'[t].lo = thread[t].lo /\ thread'[t].hi = thread[t].hi
      /\ thread'[t].ret = ret /\ thread'[t].id = id
      /\ \A u \in Tid \ {t} : thread'[u] = thread[u]
  BY <1>1, <1>2 DEF Thread
<1> QED BY <1>3 DEF Returns, bpf, user

(* A step that only moves the thread on in its call.                        *)
LEMMA AtIs ==
  ASSUME TypeOK, NEW t \in Tid, NEW at, thread' = [thread EXCEPT ![t].at = at]
  PROVE  /\ thread'[t].at = at /\ thread'[t].name = thread[t].name
         /\ thread'[t].lo = thread[t].lo /\ thread'[t].hi = thread[t].hi
         /\ thread'[t].ret = thread[t].ret /\ thread'[t].id = thread[t].id
         /\ \A u \in Tid \ {t} : thread'[u] = thread[u]
BY DEF TypeOK, Thread

(* Back in user mode the thread is in no call.                              *)
LEMMA BackIs ==
  ASSUME TypeOK, NEW t \in Tid, NEW got, Back(t, got)
  PROVE  /\ thread'[t].at = "user" /\ thread'[t].name = "none"
         /\ \A u \in Tid \ {t} : thread'[u] = thread[u]
         /\ held' = held \cup got
         /\ fd_table' = fd_table /\ allocs' = allocs
         /\ open_fds' = open_fds /\ forgotten' = forgotten
BY DEF TypeOK, Back, Idle, user

(* A range of one descriptor.                                               *)
LEMMA OneRange == \A f \in Fd : Range2(f, f) = {f}
BY TracerAssumption DEF Range2, Fd

(* What a step of one thread has to keep: it takes no descriptor of another *)
(* call, and the program only gets what its calls had.                      *)
LEMMA OwnerStep ==
  ASSUME TypeOK, OwnerInv, NEW t \in Tid,
         \A u \in Tid \ {t} : thread'[u] = thread[u],
         \A u \in Tid \ {t} : \A f \in Fd : Owns(u, f) => fd_table'[f] = fd_table[f],
         \A f \in Fd : Owns(t, f)' => /\ Owns(t, f) \/ f \in held \/ fd_table[f] = 0
                                      /\ fd_table'[f] # 0
                                      /\ f \notin held',
         \A f \in held' : f \in Fd /\ (f \in held \/ Owns(t, f)),
         Alive' # {} => \A f \in held' : fd_table'[f] # 0,
         Answered(t)', allocs' > 0
  PROVE  OwnerInv'
<1>1. ASSUME NEW u \in Tid \ {t}
      PROVE  /\ \A f \in Fd : Owns(u, f)' <=> Owns(u, f)
             /\ \A f \in Fd : Owns(u, f)' => fd_table'[f] # 0 /\ f \notin held'
             /\ \A f \in Fd : Owns(u, f)' => ~Owns(t, f)'
  <2>1. \A f \in Fd : Owns(u, f)' <=> Owns(u, f)
    BY DEF Owns
  <2>2. \A f \in Fd : Owns(u, f) => fd_table'[f] # 0 /\ f \notin held' /\ ~Owns(t, f)'
    BY DEF OwnerInv
  <2> QED BY <2>1, <2>2
<1>2. ASSUME NEW u \in Tid \ {t} PROVE Answered(u)'
  <2>1. thread'[u] = thread[u] /\ Answered(u) /\ thread[u] \in Thread
    BY DEF OwnerInv, TypeOK
  <2>2. thread[u].ret \subseteq Fd /\ thread[u].lo \in Fd
    BY <2>1 DEF Thread
  <2>3. thread[u].at = "returning" /\ thread[u].name \in {"open", "pipe", "dup2"} =>
          \A f \in thread[u].ret : fd_table'[f] = fd_table[f]
    BY <2>2 DEF Owns
  <2>4. /\ thread[u].name \in {"close", "dup2"} => thread[u].lo = thread[u].hi
        /\ thread[u].at = "killing" => thread[u].name = "exec"
    BY <2>1 DEF Answered
  <2>5. ASSUME thread[u].at = "returning", thread[u].name = "open"
        PROVE  \E f \in Fd : thread[u].ret = {f} /\ fd_table'[f] = thread[u].id
    BY <2>1, <2>3, <2>5 DEF Answered
  <2>6. ASSUME thread[u].at = "returning", thread[u].name = "pipe"
        PROVE  \E f, g \in Fd : /\ f < g
                                /\ thread[u].ret = {f, g}
                                /\ fd_table'[f] = thread[u].id
                                /\ fd_table'[g] = thread[u].id + 1
    BY <2>1, <2>3, <2>6 DEF Answered
  <2>7. ASSUME thread[u].at = "returning", thread[u].name = "dup2"
        PROVE  thread[u].ret = {thread[u].lo} /\ fd_table'[thread[u].lo] = thread[u].id
    BY <2>1, <2>3, <2>7 DEF Answered
  <2> QED BY <2>1, <2>4, <2>5, <2>6, <2>7 DEF Answered
<1>3. \A u, v \in Tid : \A f \in Fd : Owns(u, f)' /\ Owns(v, f)' => u = v
  BY <1>1 DEF OwnerInv
<1>4. \A u \in Tid : /\ \A f \in Fd : Owns(u, f)' => fd_table'[f] # 0 /\ f \notin held'
                     /\ Answered(u)'
  BY <1>1, <1>2
<1> QED BY <1>3, <1>4 DEF OwnerInv

(* A call takes what it gives up from the program.                          *)
LEMMA EnterOwner ==
  ASSUME TypeOK, OwnerInv, NEW t \in Tid, Enter(t)
  PROVE  OwnerInv'
<1>1. ASSUME NEW name, NEW lo \in Fd, NEW hi \in Fd, MayCall(t, name),
             Called(t, name, lo, hi),
             name \in {"close", "dup2"} => lo = hi,
             name \in {"close", "dup2", "close_range"} => Range2(lo, hi) \subseteq held,
             held' = IF name \in {"close", "dup2", "close_range"}
                     THEN held \ Range2(lo, hi) ELSE held
      PROVE  OwnerInv'
  <2>1. /\ thread'[t].at = "called" /\ thread'[t].name = name
        /\ thread'[t].lo = lo /\ thread'[t].hi = hi
        /\ \A u \in Tid \ {t} : thread'[u] = thread[u]
        /\ fd_table' = fd_table /\ allocs' = allocs
    BY <1>1, CalledIs
  <2>2. t \in Alive
    BY <1>1 DEF MayCall, Alive
  <2>3. \A f \in held : f \in Fd /\ fd_table[f] # 0
    BY <2>2 DEF OwnerInv, TypeOK
  <2>4. \A f \in Fd : Owns(t, f)' => f \in Range2(lo, hi) /\ f \in held /\ f \notin held'
    BY <1>1, <2>1 DEF Owns
  <2>5. \A f \in held' : f \in held
    BY <1>1
  <2>6. Answered(t)'
    BY <1>1, <2>1 DEF Answered
  <2> QED BY <2>1, <2>3, <2>4, <2>5, <2>6, OwnerStep DEF OwnerInv
<1>2. CASE \E name \in {"open", "pipe"} : EnterOpen(t, name)
  BY <1>1, <1>2, ZeroFd DEF EnterOpen
<1>3. CASE \E f \in Fd : EnterDup2(t, f)
  BY <1>1, <1>3, OneRange DEF EnterDup2
<1>4. CASE EnterFcntl(t)
  BY <1>1, <1>4, ZeroFd DEF EnterFcntl
<1>5. CASE \E f \in Fd : EnterClose(t, f)
  BY <1>1, <1>5, OneRange DEF EnterClose
<1>6. CASE \E lo, hi \in Fd : EnterCloseRange(t, lo, hi)
  BY <1>1, <1>6 DEF EnterCloseRange
<1>7. CASE EnterExec(t)
  BY <1>1, <1>7, ZeroFd DEF EnterExec
<1> QED BY <1>2, <1>3, <1>4, <1>5, <1>6, <1>7 DEF Enter

(* The kernel changes the table for the descriptors of the call and for     *)
(* free ones, and the call returns no others.                               *)
LEMMA KernelOwner ==
  ASSUME TypeOK, OwnerInv, NEW t \in Tid, Kernel(t)
  PROVE  OwnerInv'
<1>0. /\ fd_table \in [Fd -> Nat] /\ allocs \in Nat /\ allocs > 0 /\ held \subseteq Fd
      /\ thread[t] \in Thread /\ Answered(t)
  BY DEF TypeOK, OwnerInv
<1>a. thread[t].lo \in Fd /\ thread[t].hi \in Fd
  BY <1>0 DEF Thread
<1>b. ASSUME thread[t].at = "called"
      PROVE  \A f \in held : fd_table[f] # 0
  BY <1>b DEF Alive, OwnerInv
<1>c. \A u \in Tid \ {t} : \A f \in Fd : Owns(u, f) => ~Owns(t, f) /\ fd_table[f] # 0
  BY DEF OwnerInv
<1>1. ASSUME NEW ret \in SUBSET Fd, NEW id, Returns(t, ret, id), thread[t].at = "called",
             \A f \in Fd : Owns(t, f) \/ fd_table[f] = 0 \/ fd_table'[f] = fd_table[f],
             \A f \in Fd : Owns(t, f)' => /\ Owns(t, f) \/ fd_table[f] = 0
                                          /\ fd_table'[f] # 0,
             Answered(t)', allocs' > 0
      PROVE  OwnerInv'
  <2>1. held' = held /\ \A u \in Tid \ {t} : thread'[u] = thread[u]
    BY <1>1, ReturnsIs
  <2>2. \A u \in Tid \ {t} : \A f \in Fd : Owns(u, f) => fd_table'[f] = fd_table[f]
    BY <1>1, <1>c
  <2>3. \A f \in Fd : Owns(t, f)' => f \notin held
    BY <1>1, <1>b DEF OwnerInv
  <2>4. \A f \in held : fd_table'[f] # 0
    BY <1>0, <1>1, <1>b DEF OwnerInv
  <2>5. \A f \in held' : f \in Fd /\ (f \in held \/ Owns(t, f))
    BY <1>0, <2>1
  <2> QED BY <1>1, <2>1, <2>2, <2>3, <2>4, <2>5, OwnerStep
<1>2. CASE RunFails(t) \/ KillOthers(t)
  <2>0. PICK at \in {"failed", "killing"} :
          /\ thread' = [thread EXCEPT ![t].at = at]
          /\ at = "killing" => thread[t].name = "exec"
    BY <1>2 DEF RunFails, KillOthers, Running
  <2>1. /\ thread[t].at = "called"
        /\ fd_table' = fd_table /\ held' = held /\ allocs' = allocs
    BY <1>2 DEF RunFails, KillOthers, Running
  <2>2. /\ thread'[t].at = at /\ thread'[t].name = thread[t].name
        /\ thread'[t].lo = thread[t].lo /\ thread'[t].hi = thread[t].hi
        /\ \A u \in Tid \ {t} : thread'[u] = thread[u]
    BY <2>0, AtIs
  <2>3. Answered(t)'
    BY <1>0, <2>0, <2>2 DEF Answered
  <2>4. \A f \in Fd : Owns(t, f)' => Owns(t, f)
    BY <2>0, <2>1, <2>2 DEF Owns
  <2>5. \A f \in Fd : Owns(t, f)' => Owns(t, f) /\ fd_table'[f] # 0 /\ f \notin held'
    BY <2>1, <2>4 DEF OwnerInv
  <2>6. \A f \in held' : f \in Fd /\ f \in held /\ fd_table'[f] # 0
    BY <1>0, <1>b, <2>1
  <2> QED BY <1>0, <2>1, <2>2, <2>3, <2>5, <2>6, OwnerStep
<1>3. ASSUME NEW f \in Fd, RunOpen(t, f) PROVE OwnerInv'
  <2>1. /\ Returns(t, {f}, allocs + 1) /\ thread[t].at = "called" /\ thread[t].name = "open"
        /\ fd_table[f] = 0 /\ fd_table' = [fd_table EXCEPT ![f] = allocs + 1]
        /\ allocs' = allocs + 1
    BY <1>3 DEF RunOpen, Running, Lowest, Free
  <2>2. /\ thread'[t].at = "returning" /\ thread'[t].name = "open"
        /\ thread'[t].ret = {f} /\ thread'[t].id = allocs + 1
    BY <2>1, ReturnsIs
  <2>3. fd_table'[f] = allocs + 1 /\ \A g \in Fd \ {f} : fd_table'[g] = fd_table[g]
    BY <1>0, <2>1
  <2>4. Answered(t)'
    BY <2>2, <2>3 DEF Answered
  <2>5. \A g \in Fd : Owns(t, g)' => g = f
    BY <2>2 DEF Owns
  <2> QED BY <1>0, <1>1, <2>1, <2>3, <2>4, <2>5
<1>4. ASSUME NEW f \in Fd, NEW g \in Fd, RunPipe(t, f, g) PROVE OwnerInv'
  <2>1. /\ Returns(t, {f, g}, allocs + 1) /\ thread[t].at = "called"
        /\ thread[t].name = "pipe"
        /\ fd_table[f] = 0 /\ fd_table[g] = 0 /\ f # g /\ f <= g
        /\ fd_table' = [fd_table EXCEPT ![f] = allocs + 1, ![g] = allocs + 2]
        /\ allocs' = allocs + 2
    BY <1>4 DEF RunPipe, Running, Lowest, Free
  <2>2. /\ thread'[t].at = "returning" /\ thread'[t].name = "pipe"
        /\ thread'[t].ret = {f, g} /\ thread'[t].id = allocs + 1
    BY <2>1, ReturnsIs
  <2>3. /\ fd_table'[f] = allocs + 1 /\ fd_table'[g] = allocs + 2
        /\ \A h \in Fd \ {f, g} : fd_table'[h] = fd_table[h]
    BY <1>0, <2>1
  <2>4. Answered(t)'
    <3>1. f < g /\ allocs + 2 = allocs + 1 + 1
      BY <1>0, <2>1, TracerAssumption DEF Fd
    <3> QED BY <2>2, <2>3, <3>1 DEF Answered
  <2>5. \A h \in Fd : Owns(t, h)' => h \in {f, g}
    BY <2>2 DEF Owns
  <2> QED BY <1>0, <1>1, <2>1, <2>3, <2>4, <2>5
<1>5. CASE RunDup2(t)
  <2> DEFINE f == thread[t].lo
  <2>1. /\ Returns(t, {f}, allocs + 1) /\ thread[t].at = "called" /\ thread[t].name = "dup2"
        /\ fd_table' = [fd_table EXCEPT ![f] = allocs + 1] /\ allocs' = allocs + 1
    BY <1>5 DEF RunDup2, Running
  <2>2. /\ thread'[t].at = "returning" /\ thread'[t].name = "dup2"
        /\ thread'[t].lo = f /\ thread'[t].hi = f
        /\ thread'[t].ret = {f} /\ thread'[t].id = allocs + 1
    BY <1>0, <2>1, ReturnsIs DEF Answered
  <2>3. fd_table'[f] = allocs + 1 /\ \A g \in Fd \ {f} : fd_table'[g] = fd_table[g]
    BY <1>0, <1>a, <2>1
  <2>4. Answered(t)'
    BY <2>2, <2>3 DEF Answered
  <2>5. \A g \in Fd : Owns(t, g)' => g = f
    BY <2>2 DEF Owns
  <2>6. Owns(t, f)
    BY <1>0, <1>a, <2>1, OneRange DEF Owns, Answered
  <2> QED BY <1>0, <1>1, <1>a, <2>1, <2>3, <2>4, <2>5, <2>6
<1>6. ASSUME NEW value \in Fd, RunFcntl(t, value) PROVE OwnerInv'
  <2>1. /\ Returns(t, {value}, 0) /\ thread[t].at = "called" /\ thread[t].name = "fcntl"
        /\ fd_table' = fd_table /\ allocs' = allocs
    BY <1>6 DEF RunFcntl, Running
  <2>2. thread'[t].at = "returning" /\ thread'[t].name = "fcntl"
    BY <2>1, ReturnsIs
  <2>3. Answered(t)' /\ \A f \in Fd : ~Owns(t, f)'
    BY <2>2 DEF Answered, Owns
  <2> QED BY <1>0, <1>1, <2>1, <2>3
<1>7. CASE RunClose(t)
  <2> DEFINE f == thread[t].lo
  <2>1. /\ thread[t].at = "called" /\ thread[t].name = "close"
        /\ fd_table' = [fd_table EXCEPT ![f] = 0]
        /\ thread' = [thread EXCEPT ![t] = Idle]
        /\ held' = held /\ allocs' = allocs
    BY <1>7 DEF RunClose, Running
  <2>2. /\ thread'[t].at = "user" /\ thread'[t].name = "none"
        /\ \A u \in Tid \ {t} : thread'[u] = thread[u]
    BY <2>1 DEF TypeOK, Idle
  <2>3. \A g \in Fd \ {f} : fd_table'[g] = fd_table[g]
    BY <1>0, <1>a, <2>1
  <2>4. Owns(t, f)
    BY <1>0, <1>a, <2>1, OneRange DEF Owns, Answered
  <2>5. Answered(t)' /\ \A g \in Fd : ~Owns(t, g)'
    BY <2>2 DEF Answered, Owns
  <2>6. \A u \in Tid \ {t} : \A g \in Fd : Owns(u, g) => fd_table'[g] = fd_table[g]
    BY <1>c, <2>3, <2>4
  <2>7. \A g \in held : fd_table'[g] # 0
    BY <1>0, <1>a, <1>b, <2>1, <2>3, <2>4 DEF OwnerInv
  <2>8. \A g \in held' : g \in Fd /\ g \in held
    BY <1>0, <2>1
  <2> QED BY <1>0, <2>1, <2>2, <2>5, <2>6, <2>7, <2>8, OwnerStep
<1>8. ASSUME NEW mark \in BOOLEAN, RunCloseRange(t, mark) PROVE OwnerInv'
  <2> DEFINE span == Range2(thread[t].lo, thread[t].hi)
             ret == IF mark THEN span ELSE {}
  <2>1. /\ Returns(t, ret, 0) /\ thread[t].at = "called" /\ thread[t].name = "close_range"
        /\ fd_table' = [f \in Fd |-> IF f \in span /\ ~mark THEN 0 ELSE fd_table[f]]
        /\ allocs' = allocs
    BY <1>8 DEF RunCloseRange, Running
  <2>2. /\ thread'[t].at = "returning" /\ thread'[t].name = "close_range"
        /\ thread'[t].lo = thread[t].lo /\ thread'[t].hi = thread[t].hi
        /\ thread'[t].ret = ret
    BY <2>1, ReturnsIs
  <2>3. \A f \in Fd : (f \in span => Owns(t, f)) /\ (f \in ret => f \in span /\ mark)
    BY <2>1 DEF Owns
  <2>4. ret \in SUBSET Fd
    BY DEF Range2
  <2>5. \A f \in Fd : Owns(t, f)' => f \in ret
    BY <2>2 DEF Owns
  <2>6. Answered(t)'
    BY <2>2 DEF Answered
  <2>7. \A f \in Fd : fd_table'[f] = IF f \in span /\ ~mark THEN 0 ELSE fd_table[f]
    BY <2>1
  <2>8. \A f \in Fd : Owns(t, f)' => Owns(t, f) /\ fd_table'[f] # 0
    BY <2>3, <2>5, <2>7 DEF OwnerInv
  <2> HIDE DEF span, ret
  <2> QED BY <1>0, <1>1, <2>1, <2>3, <2>4, <2>6, <2>7, <2>8
<1>9. ASSUME NEW C \in SUBSET {f \in Fd : fd_table[f] # 0}, RunExec(t, C) PROVE OwnerInv'
  <2>1. /\ thread[t].at = "killing" /\ thread[t].name = "exec" /\ Alive = {t}
        /\ fd_table' = [f \in Fd |-> IF f \in C THEN 0 ELSE fd_table[f]]
        /\ thread' = [thread EXCEPT ![t].at = "returning"]
        /\ held' = held \ C /\ allocs' = allocs
    BY <1>0, <1>9 DEF RunExec, Answered
  <2>2. /\ thread'[t].at = "returning" /\ thread'[t].name = "exec"
        /\ \A u \in Tid \ {t} : thread'[u] = thread[u]
    BY <2>1, AtIs
  <2>3. Answered(t)' /\ \A g \in Fd : ~Owns(t, g)'
    BY <2>2 DEF Answered, Owns
  <2>4. \A u \in Tid \ {t} : \A g \in Fd : ~Owns(u, g)
    BY <2>1 DEF Alive, Owns
  <2>5. \A g \in held' : g \in Fd /\ g \in held /\ fd_table'[g] # 0
    <3>1. \A g \in held : fd_table[g] # 0
      BY <2>1 DEF OwnerInv
    <3> QED BY <1>0, <2>1, <3>1
  <2> QED BY <1>0, <2>1, <2>2, <2>3, <2>4, <2>5, OwnerStep
<1> QED BY <1>2, <1>3, <1>4, <1>5, <1>6, <1>7, <1>8, <1>9 DEF Kernel

(* The program gets what the call had, and the last thread's exit closes    *)
(* everything.                                                              *)
LEMMA ExitOwner ==
  ASSUME TypeOK, OwnerInv, NEW t \in Tid, Exit(t)
  PROVE  OwnerInv'
<1>0. thread[t] \in Thread /\ held \subseteq Fd /\ Answered(t) /\ allocs > 0
  BY DEF TypeOK, OwnerInv
<1>1. ASSUME NEW got, Back(t, got), thread[t].at \in {"returning", "failed"},
             \A f \in got : f \in Fd /\ Owns(t, f)
      PROVE  OwnerInv'
  <2>1. /\ thread'[t].at = "user" /\ thread'[t].name = "none"
        /\ \A u \in Tid \ {t} : thread'[u] = thread[u]
        /\ held' = held \cup got /\ fd_table' = fd_table /\ allocs' = allocs
    BY <1>1, BackIs
  <2>2. Answered(t)' /\ \A f \in Fd : ~Owns(t, f)'
    BY <2>1 DEF Answered, Owns
  <2>3. \A f \in held' : f \in Fd /\ (f \in held \/ Owns(t, f))
    BY <1>0, <1>1, <2>1
  <2>4. \A f \in held' : fd_table'[f] # 0
    BY <1>0, <1>1, <2>1, <2>3 DEF OwnerInv, Alive
  <2> QED BY <1>0, <2>1, <2>2, <2>3, <2>4, OwnerStep
<1>a. thread[t].ret \subseteq Fd /\ thread[t].lo \in Fd
  BY <1>0 DEF Thread
<1>2. CASE ExitOpen(t)
  BY <1>1, <1>2, <1>a DEF ExitOpen, Returning, Owns
<1>7. CASE ExitFcntl(t)
  BY <1>1, <1>7 DEF ExitFcntl, Returning
<1>8. CASE ExitFailed(t)
  <2>1. PICK got : /\ Back(t, got)
                   /\ got = IF thread[t].name \in {"dup2", "close_range"}
                            THEN Range2(thread[t].lo, thread[t].hi) ELSE {}
    BY <1>8 DEF ExitFailed
  <2>2. thread[t].at = "failed" /\ \A f \in got : f \in Fd /\ Owns(t, f)
    BY <1>8, <2>1 DEF ExitFailed, Range2, Owns
  <2> QED BY <1>1, <2>1, <2>2
<1>3. CASE ExitPipe(t)
  BY <1>1, <1>3, <1>a DEF ExitPipe, Returning, Owns
<1>4. CASE ExitCloseRange(t)
  BY <1>1, <1>4, <1>a DEF ExitCloseRange, Returning, Owns
<1>5. CASE ExitExec(t)
  BY <1>1, <1>5 DEF ExitExec, Returning
<1>6. CASE ExitThread(t)
  <2>1. /\ thread[t].at = "user"
        /\ thread' = [thread EXCEPT ![t].at = "dead"]
        /\ fd_table' = IF Alive = {t} THEN [f \in Fd |-> 0] ELSE fd_table
        /\ held' = held /\ allocs' = allocs
    BY <1>6 DEF ExitThread
  <2>2. /\ thread'[t].at = "dead" /\ thread'[t].name = thread[t].name
        /\ thread'[t].lo = thread[t].lo /\ thread'[t].hi = thread[t].hi
        /\ \A u \in Tid \ {t} : thread'[u] = thread[u]
    BY <1>0, <2>1 DEF TypeOK, Thread
  <2>3. Answered(t)' /\ \A f \in Fd : ~Owns(t, f)'
    BY <1>0, <2>2 DEF Answered, Owns
  <2>4. \A f \in held' : f \in Fd /\ f \in held
    BY <1>0, <2>1
  <2>5. CASE Alive = {t}
    <3>1. \A u \in Tid \ {t} : \A f \in Fd : ~Owns(u, f)
      BY <2>5 DEF Alive, Owns
    <3>2. Alive' = {}
      BY <2>2, <2>5 DEF Alive
    <3> QED BY <1>0, <2>1, <2>2, <2>3, <2>4, <3>1, <3>2, OwnerStep
  <2>6. CASE Alive # {t}
    <3>1. \A f \in held : fd_table[f] # 0
      BY <2>1 DEF OwnerInv, Alive
    <3> QED BY <1>0, <2>1, <2>2, <2>3, <2>4, <2>6, <3>1, OwnerStep
  <2> QED BY <2>5, <2>6
<1> QED BY <1>2, <1>3, <1>4, <1>5, <1>6, <1>7, <1>8 DEF Exit

(* Everyone else leaves the owners alone.                                   *)
LEMMA OwnerSame ==
  ASSUME OwnerInv, UNCHANGED <<fd_table, thread, held, allocs>>
  PROVE  OwnerInv'
<1>1. \A t \in Tid : (Answered(t)' <=> Answered(t)) /\ \A f \in Fd : Owns(t, f)' <=> Owns(t, f)
  BY DEF Answered, Owns
<1>2. Alive' = Alive
  BY DEF Alive
<1> QED BY <1>1, <1>2 DEF OwnerInv

(* The invariant of the owners is inductive.                                *)
LEMMA OwnerInductive ==
  ASSUME TypeOK, OwnerInv, [Next]_vars
  PROVE  OwnerInv'
<1>1. ASSUME NEW t \in Tid, Enter(t) \/ Kernel(t) \/ Exit(t) PROVE OwnerInv'
  BY <1>1, EnterOwner, KernelOwner, ExitOwner
<1>2. CASE EnterExitGroup \/ Stop \/ Reported \/ UNCHANGED vars
  BY <1>2, OwnerSame DEF EnterExitGroup, Stop, Reported, vars, target
<1>3. CASE Consumer
  BY <1>3, OwnerSame DEF Consumer, HandleOpen, HandleClose, HandleCloseRange, HandleExec,
                         HandleExit, Consume, target
<1> QED BY <1>1, <1>2, <1>3 DEF Next

-----------------------------------------------------------------------------
(* The calls that are remembered.                                           *)

(* An event that is not missed is the last of the ring buffer.              *)
LEMMA EmitIs ==
  ASSUME TypeOK, Len(ring) <= RingSize, NEW e, Emit(e)
  PROVE  /\ Len(ring') <= RingSize
         /\ ~missed' => ~missed /\ ring' = Append(ring, e)
<1>1. Len(ring) \in Nat /\ RingSize \in Nat /\ Len(Append(ring, e)) = Len(ring) + 1
  BY TracerAssumption DEF TypeOK
<1>2. ~missed' => ~missed /\ Len(ring) # RingSize
  BY DEF Emit
<1>3. ring' = IF Len(ring) < RingSize THEN Append(ring, e) ELSE ring
  BY DEF Emit, Reserve
<1>4. Len(ring) # RingSize <=> Len(ring) < RingSize
  BY <1>1
<1>5. Len(ring') <= RingSize
  BY <1>1, <1>3
<1> QED BY <1>2, <1>3, <1>4, <1>5

(* So are the two events of a pipe.                                         *)
LEMMA EmitBothIs ==
  ASSUME TypeOK, Len(ring) <= RingSize, NEW e \in FdEvent, NEW f, EmitBoth(e, f)
  PROVE  /\ Len(ring') <= RingSize
         /\ ~missed' => ~missed /\ ring' = Append(Append(ring, e), f)
<1> DEFINE q == Append(ring, e)
<1>1. Len(ring) \in Nat /\ RingSize \in Nat /\ q \in Seq(FdEvent) /\ Len(q) = Len(ring) + 1
  BY TracerAssumption DEF TypeOK
<1>2. Len(Append(q, f)) = Len(q) + 1 /\ Len(Append(ring, f)) = Len(ring) + 1
  BY <1>1
<1>3. /\ ring' = Reserve(Reserve(ring, e), f)
      /\ missed' = (missed \/ Len(ring) + 2 > RingSize)
  BY DEF EmitBoth
<1>4. Reserve(ring, e) = IF Len(ring) < RingSize THEN q ELSE ring
  BY DEF Reserve
<1> HIDE DEF q
<1>5. CASE Len(ring) + 2 > RingSize
  <2>1. Len(Reserve(ring, e)) <= RingSize /\ Len(Reserve(ring, e)) \in Nat
    BY <1>1, <1>4
  <2>2. Reserve(ring, e) \in {ring, q}
    BY <1>4
  <2>3. ring' \in {Reserve(ring, e), Append(Reserve(ring, e), f)}
    BY <1>3 DEF Reserve
  <2>4. Len(ring') <= RingSize
    BY <1>1, <1>2, <1>3, <2>1, <2>2, <2>3 DEF Reserve
  <2> QED BY <1>3, <1>5, <2>4
<1>6. CASE Len(ring) + 2 <= RingSize
  <2>1. Reserve(ring, e) = q
    BY <1>1, <1>4, <1>6
  <2>2. ring' = Append(q, f)
    BY <1>1, <1>3, <1>6, <2>1 DEF Reserve
  <2>3. Len(ring') <= RingSize
    BY <1>1, <1>2, <1>6, <2>2
  <2>4. ~missed' => ~missed
    BY <1>3
  <2> QED BY <2>2, <2>3, <2>4 DEF q
<1> QED BY <1>1, <1>5, <1>6

(* A step of one thread has to care for that thread alone.                  *)
LEMMA RememberStep ==
  ASSUME RememberInv, NEW t \in Tid,
         \A u \in Tid \ {t} : thread'[u] = thread[u] /\ pending_calls'[u] = pending_calls[u],
         Len(ring') <= RingSize,
         ~missed' => ~missed /\ Remembered(t)'
  PROVE  RememberInv'
<1>1. \A u \in Tid \ {t} : Remembered(u)' <=> Remembered(u)
  BY DEF Remembered
<1> QED BY <1>1 DEF RememberInv

(* A call that is not missed is remembered.                                 *)
LEMMA RememberIs ==
  ASSUME TypeOK, NEW t \in Tid, NEW call, Remember(t, call)
  PROVE  /\ \A u \in Tid \ {t} : pending_calls'[u] = pending_calls[u]
         /\ ring' = ring /\ mistaken' = mistaken
         /\ ~missed' => ~missed /\ pending_calls'[t] = call
BY DEF Remember, TypeOK

(* The sys_enter programs remember the call that is entered.                *)
LEMMA EnterRemembers ==
  ASSUME TypeOK, RememberInv, NEW t \in Tid, Enter(t)
  PROVE  RememberInv'
<1>0. Len(ring) <= RingSize
  BY DEF RememberInv
<1>1. ASSUME NEW name, NEW lo, NEW hi, NEW call, Called(t, name, lo, hi), Remember(t, call),
             call.source # "none", name = "close_range" => call.lo = lo /\ call.hi = hi
      PROVE  RememberInv'
  <2>1. /\ thread'[t].at = "called" /\ thread'[t].name = name
        /\ thread'[t].lo = lo /\ thread'[t].hi = hi
        /\ \A u \in Tid \ {t} : thread'[u] = thread[u]
    BY <1>1, CalledIs
  <2>2. /\ \A u \in Tid \ {t} : pending_calls'[u] = pending_calls[u]
        /\ ring' = ring
        /\ ~missed' => ~missed /\ pending_calls'[t] = call
    BY <1>1, RememberIs
  <2>3. call # NoPending
    BY <1>1 DEF NoPending
  <2>4. ~missed' => Remembered(t)'
    BY <1>1, <2>1, <2>2, <2>3 DEF Remembered
  <2> QED BY <1>0, <2>1, <2>2, <2>4, RememberStep
<1>2. ASSUME NEW name \in {"fcntl", "close", "exec"}, NEW lo, NEW hi, Called(t, name, lo, hi),
             pending_calls' = pending_calls, Len(ring') <= RingSize, ~missed' => ~missed
      PROVE  RememberInv'
  <2>1. /\ thread'[t].name = name /\ \A u \in Tid \ {t} : thread'[u] = thread[u]
    BY <1>2, CalledIs
  <2>2. Remembered(t)'
    BY <2>1 DEF Remembered
  <2> QED BY <1>2, <2>1, <2>2, RememberStep
<1>3. CASE \E name \in {"open", "pipe"} : EnterOpen(t, name)
  <2>1. PICK name \in {"open", "pipe"} : EnterOpen(t, name)
    BY <1>3
  <2>2. [NoPending EXCEPT !.source = name].source = name
    BY DEF NoPending
  <2> QED BY <1>1, <2>1, <2>2 DEF EnterOpen
<1>4. CASE \E f \in Fd : EnterDup2(t, f)
  <2>1. PICK f \in Fd : EnterDup2(t, f)
    BY <1>4
  <2>2. [NoPending EXCEPT !.source = "dup2"].source = "dup2"
    BY DEF NoPending
  <2> QED BY <1>1, <2>1, <2>2 DEF EnterDup2
<1>5. CASE \E lo, hi \in Fd : EnterCloseRange(t, lo, hi)
  BY <1>1, <1>5 DEF EnterCloseRange
<1>6. CASE EnterFcntl(t)
  BY <1>0, <1>2, <1>6 DEF EnterFcntl, bpf
<1>7. CASE \E f \in Fd : EnterClose(t, f)
  <2>1. PICK f \in Fd : EnterClose(t, f)
    BY <1>7
  <2>2. Len(ring') <= RingSize /\ (~missed' => ~missed)
    BY <1>0, <2>1, EmitIs DEF EnterClose
  <2> QED BY <1>2, <2>1, <2>2 DEF EnterClose
<1>8. CASE EnterExec(t)
  BY <1>0, <1>2, <1>8 DEF EnterExec, bpf
<1> QED BY <1>3, <1>4, <1>5, <1>6, <1>7, <1>8 DEF Enter

(* While the kernel executes it, the call stays remembered.                 *)
LEMMA KernelRemembers ==
  ASSUME TypeOK, OwnerInv, RememberInv, NEW t \in Tid, Kernel(t)
  PROVE  RememberInv'
<1>0. Len(ring) <= RingSize
  BY DEF RememberInv
<1>1. ASSUME NEW ret, NEW id, Returns(t, ret, id), thread[t].at = "called"
      PROVE  RememberInv'
  <2>1. /\ thread'[t].at = "returning" /\ thread'[t].name = thread[t].name
        /\ thread'[t].lo = thread[t].lo /\ thread'[t].hi = thread[t].hi
        /\ \A u \in Tid \ {t} : thread'[u] = thread[u]
        /\ pending_calls' = pending_calls /\ ring' = ring /\ missed' = missed
    BY <1>1, ReturnsIs
  <2>2. Remembered(t) => Remembered(t)'
    BY <1>1, <2>1 DEF Remembered
  <2> QED BY <1>0, <2>1, <2>2, RememberStep DEF RememberInv
<1>2. ASSUME \/ thread'[t].at \in {"failed", "killing"}
             \/ thread'[t].name \notin {"open", "pipe", "dup2", "close_range"},
             \A u \in Tid \ {t} : thread'[u] = thread[u], UNCHANGED bpf
      PROVE  RememberInv'
  BY <1>0, <1>2, RememberStep DEF Remembered, bpf
<1>3. CASE RunDup2(t)
  BY <1>1, <1>3 DEF RunDup2, Running
<1>10. CASE RunFails(t) \/ KillOthers(t)
  <2>1. PICK at \in {"failed", "killing"} : thread' = [thread EXCEPT ![t].at = at]
    BY <1>10 DEF RunFails, KillOthers
  <2>2. UNCHANGED bpf
    BY <1>10 DEF RunFails, KillOthers
  <2> QED BY <1>2, <2>1, <2>2, AtIs
<1>4. CASE \E f \in Fd : RunOpen(t, f)
  BY <1>1, <1>4 DEF RunOpen, Running
<1>5. CASE \E f, g \in Fd : RunPipe(t, f, g)
  BY <1>1, <1>5 DEF RunPipe, Running
<1>6. CASE \E value \in Fd : RunFcntl(t, value)
  BY <1>1, <1>6 DEF RunFcntl, Running
<1>7. CASE \E mark \in BOOLEAN : RunCloseRange(t, mark)
  BY <1>1, <1>7 DEF RunCloseRange, Running
<1>8. CASE RunClose(t)
  BY <1>2, <1>8 DEF RunClose, Idle, TypeOK
<1>9. CASE \E C \in SUBSET {f \in Fd : fd_table[f] # 0} : RunExec(t, C)
  <2>1. thread[t].at = "killing" /\ thread' = [thread EXCEPT ![t].at = "returning"] /\ UNCHANGED bpf
    BY <1>9 DEF RunExec
  <2>2. thread[t].name = "exec"
    BY <2>1 DEF OwnerInv, Answered
  <2> QED BY <1>2, <2>1, <2>2, AtIs
<1> QED BY <1>3, <1>4, <1>5, <1>6, <1>7, <1>8, <1>9, <1>10 DEF Kernel

(* A thread that is back, or dead, has no call to remember.                 *)
LEMMA ExitRemembers ==
  ASSUME TypeOK, RememberInv, NEW t \in Tid, Exit(t)
  PROVE  RememberInv'
<1>0. Len(ring) <= RingSize
  BY DEF RememberInv
<1>1. ASSUME thread'[t].at \in {"user", "dead"},
             \A u \in Tid \ {t} : thread'[u] = thread[u],
             pending_calls' \in {pending_calls, PendingDeleted(t)},
             Len(ring') <= RingSize, ~missed' => ~missed
      PROVE  RememberInv'
  <2>1. \A u \in Tid \ {t} : pending_calls'[u] = pending_calls[u]
    BY <1>1 DEF PendingDeleted, TypeOK
  <2>2. Remembered(t)'
    BY <1>1 DEF Remembered
  <2> QED BY <1>1, <2>1, <2>2, RememberStep
<1>a. ASSUME NoEmit \/ \E e : Emit(e)
      PROVE  Len(ring') <= RingSize /\ (~missed' => ~missed)
  BY <1>0, <1>a, EmitIs DEF NoEmit
<1>2. ASSUME NEW got, Back(t, got)
      PROVE  thread'[t].at = "user" /\ \A u \in Tid \ {t} : thread'[u] = thread[u]
  BY <1>2, BackIs
<1>3. CASE ExitOpen(t) \/ ExitFcntl(t) \/ ExitCloseRange(t)
  <2>1. NoEmit \/ \E e : Emit(e)
    BY <1>3 DEF ExitOpen, ExitFcntl, ExitCloseRange
  <2>2. pending_calls' = PendingDeleted(t) /\ \E got : Back(t, got)
    BY <1>3 DEF ExitOpen, ExitFcntl, ExitCloseRange
  <2> QED BY <1>1, <1>2, <1>a, <2>1, <2>2
<1>4. CASE ExitPipe(t)
  <2>1. (\E got : Back(t, got)) /\ pending_calls' \in {pending_calls, PendingDeleted(t)}
    BY <1>4 DEF ExitPipe
  <2>2. ASSUME NEW f \in thread[t].ret, NEW g \in thread[t].ret,
               EmitBoth(Event("open", f, 0, thread[t].id),
                        Event("open", g, 0, thread[t].id + 1))
        PROVE  Len(ring') <= RingSize /\ (~missed' => ~missed)
    <3>1. f \in Fd /\ thread[t].id \in Nat
      BY DEF TypeOK, Thread
    <3>2. Event("open", f, 0, thread[t].id) \in FdEvent
      BY <3>1, ZeroFd, EventType
    <3> QED BY <1>0, <2>2, <3>2, EmitBothIs
  <2>3. Len(ring') <= RingSize /\ (~missed' => ~missed)
    <3>1. CASE UNCHANGED <<pending_calls, ring, missed>>
      BY <1>0, <3>1
    <3>2. CASE missed' = TRUE /\ UNCHANGED ring
      BY <1>0, <3>2
    <3> QED BY <1>4, <2>2, <3>1, <3>2 DEF ExitPipe
  <2> QED BY <1>1, <1>2, <2>1, <2>3
<1>6. CASE ExitExec(t)
  <2>1. (\E e : Emit(e)) /\ pending_calls' = pending_calls /\ \E got : Back(t, got)
    BY <1>6 DEF ExitExec
  <2> QED BY <1>1, <1>2, <1>a, <2>1
<1>8. CASE ExitFailed(t)
  <2>1. NoEmit /\ pending_calls' \in {pending_calls, PendingDeleted(t)} /\ \E got : Back(t, got)
    BY <1>8 DEF ExitFailed, FailureReported
  <2> QED BY <1>1, <1>2, <1>a, <2>1
<1>7. CASE ExitThread(t)
  <2>1. (\E e : Emit(e)) /\ pending_calls' = pending_calls
    BY <1>7 DEF ExitThread
  <2>2. thread'[t].at = "dead" /\ \A u \in Tid \ {t} : thread'[u] = thread[u]
    BY <1>7, AtIs DEF ExitThread
  <2> QED BY <1>1, <1>a, <2>1, <2>2
<1> QED BY <1>3, <1>4, <1>6, <1>7, <1>8 DEF Exit

(* What is remembered stays so, but for the calls that were missed.         *)
LEMMA RememberInductive ==
  ASSUME TypeOK, OwnerInv, RememberInv, [Next]_vars
  PROVE  RememberInv'
<1>1. ASSUME NEW t \in Tid, Enter(t) \/ Kernel(t) \/ Exit(t) PROVE RememberInv'
  BY <1>1, EnterRemembers, KernelRemembers, ExitRemembers
<1>2. ASSUME Len(ring') <= RingSize, UNCHANGED <<thread, pending_calls, missed>>
      PROVE  RememberInv'
  <2>1. \A t \in Tid : Remembered(t)' <=> Remembered(t)
    BY <1>2 DEF Remembered
  <2> QED BY <1>2, <2>1 DEF RememberInv
<1>3. CASE EnterExitGroup \/ Stop \/ Reported \/ UNCHANGED vars
  BY <1>2, <1>3 DEF EnterExitGroup, Stop, Reported, vars, target, bpf, RememberInv
<1>4. CASE Consumer
  <2>1. PICK type : Consume(type)
    BY <1>4 DEF Consumer, HandleOpen, HandleClose, HandleCloseRange, HandleExec, HandleExit
  <2>2. Len(ring) \in Nat \ {0} /\ Len(Tail(ring)) = Len(ring) - 1
    BY <2>1, TakenIs DEF Consume, TypeOK
  <2>3. Len(ring') <= RingSize
    BY <2>1, <2>2, TracerAssumption DEF Consume, RememberInv
  <2> QED BY <1>2, <2>1, <2>3 DEF Consume, target
<1> QED BY <1>1, <1>3, <1>4 DEF Next

-----------------------------------------------------------------------------
(* What calls and the kernel do to the report.                              *)

(* Queue p says of f all that q says.                                       *)
Keeps(q, p, f) ==
  /\ \A entry, n : /\ LastWordIs(q, entry, f, n) => LastWordIs(p, entry, f, n)
                   /\ LastWordNone(q, entry, f) => LastWordNone(p, entry, f)
                   /\ Said(q, entry, f, n) => Said(p, entry, f, n)
  /\ ExecAfter(q, f) => ExecAfter(p, f)

(* An event that is not about f leaves what is said of f.                   *)
LEMMA KeepsAppend ==
  ASSUME NEW q \in Seq(FdEvent), NEW e \in FdEvent, NEW f, ~About(e, f)
  PROVE  Keeps(q, Append(q, e), f)
BY AppendApart DEF Keeps

(* A step of thread t that leaves f, and what is said of f, alone, leaves   *)
(* its report alone.                                                        *)
LEMMA TrueKept ==
  ASSUME NEW t \in Tid, NEW f \in Fd, ToldTrue(f),
         \A u \in Tid \ {t} : thread'[u] = thread[u],
         fd_table'[f] = fd_table[f], open_fds'[f] = open_fds[f],
         ~Says(t, f), ~Ranges(t, f),
         ExecReturns(t) => ExecAfter(ring', f),
         Keeps(ring, ring', f)
  PROVE  ToldTrue(f)'
<1>1. \A u \in Tid \ {t} : /\ Says(u, f)' <=> Says(u, f)
                           /\ Ranges(u, f)' <=> Ranges(u, f)
                           /\ ExecReturns(u)' <=> ExecReturns(u)
  BY DEF Says, Ranges, ExecReturns
<1>2. CASE \E u \in Tid : Says(u, f) \/ Ranges(u, f)
  <2>1. PICK u \in Tid : Says(u, f) \/ Ranges(u, f)
    BY <1>2
  <2>2. u \in Tid \ {t}
    BY <2>1
  <2> QED BY <1>1, <2>1, <2>2 DEF ToldTrue
<1>3. CASE fd_table[f] = 0 /\ \E u \in Tid : ExecReturns(u)
  <2>1. PICK u \in Tid : ExecReturns(u)
    BY <1>3
  <2>2. ExecReturns(u)' \/ ExecAfter(ring', f)
    BY <1>1, <2>1
  <2> QED BY <1>3, <2>2 DEF ToldTrue
<1>4. CASE fd_table[f] = 0 /\ ExecAfter(ring, f)
  BY <1>4 DEF ToldTrue, Keeps
<1>5. CASE LastWordIs(ring, open_fds[f], f, fd_table[f])
  <2>1. LastWordIs(ring', open_fds'[f], f, fd_table'[f])
    BY <1>5 DEF Keeps
  <2> QED BY <2>1 DEF ToldTrue
<1> QED BY <1>2, <1>3, <1>4, <1>5 DEF ToldTrue

(* The same of the allocation of f.                                         *)
LEMMA AllKept ==
  ASSUME NEW t \in Tid, NEW f \in Fd, ToldAll(f),
         \A u \in Tid \ {t} : thread'[u] = thread[u],
         fd_table'[f] = fd_table[f], open_fds'[f] = open_fds[f], forgotten' = forgotten,
         ~Says(t, f), ~Closes(t, f),
         \A n : Said(ring, open_fds[f], f, n) => Said(ring', open_fds[f], f, n)
  PROVE  ToldAll(f)'
<1>1. \A u \in Tid \ {t} : (Says(u, f)' <=> Says(u, f)) /\ (Closes(u, f)' <=> Closes(u, f))
  BY DEF Says, Closes
<1>2. CASE \E u \in Tid : Says(u, f) \/ Closes(u, f)
  <2>1. PICK u \in Tid : Says(u, f) \/ Closes(u, f)
    BY <1>2
  <2>2. u \in Tid \ {t}
    BY <2>1
  <2> QED BY <1>1, <2>1, <2>2 DEF ToldAll
<1>3. CASE Said(ring, open_fds[f], f, fd_table[f])
  <2>1. Said(ring', open_fds'[f], f, fd_table'[f])
    BY <1>3
  <2> QED BY <2>1 DEF ToldAll
<1>4. CASE fd_table[f] \in forgotten \/ ~(fd_table[f] > 1)
  BY <1>4 DEF ToldAll
<1> QED BY <1>2, <1>3, <1>4 DEF ToldAll

(* And of the descriptors that are being closed.                            *)
LEMMA ClosingKept ==
  ASSUME NEW t \in Tid, ClosingTold,
         \A u \in Tid \ {t} : thread'[u] = thread[u],
         open_fds' = open_fds,
         \A f \in Fd \ mistaken' :
           /\ Closes(t, f)' => LastWordNone(ring', open_fds[f], f)
           /\ \/ /\ f \notin mistaken
                 /\ LastWordNone(ring, open_fds[f], f) => LastWordNone(ring', open_fds[f], f)
              \/ LastWordNone(ring', open_fds[f], f)
  PROVE  ClosingTold'
<1>1. \A u \in Tid \ {t} : \A f \in Fd : Closes(u, f)' <=> Closes(u, f)
  BY DEF Closes
<1>2. ASSUME NEW u \in Tid, NEW f \in Fd \ mistaken', Closes(u, f)'
      PROVE  LastWordNone(ring', open_fds'[f], f)
  BY <1>1, <1>2 DEF ClosingTold
<1> QED BY <1>2 DEF ClosingTold

(* All that the report says.                                                *)
Reports == ClosingTold /\ \A f \in Fd \ mistaken : ToldTrue(f) /\ ToldAll(f)

(* A step of thread t that touches no descriptor and says nothing.          *)
LEMMA QuietStep ==
  ASSUME NEW t \in Tid, Reports,
         \A u \in Tid \ {t} : thread'[u] = thread[u],
         fd_table' = fd_table, open_fds' = open_fds, forgotten' = forgotten, ring' = ring,
         mistaken' = mistaken,
         \A f \in Fd : /\ ~Says(t, f) /\ ~Ranges(t, f) /\ ~Closes(t, f) /\ ~Closes(t, f)',
         ~ExecReturns(t)
  PROVE  Reports'
<1>1. \A f \in Fd : Keeps(ring, ring', f)
  BY DEF Keeps
<1>2. ASSUME NEW f \in Fd \ mistaken PROVE ToldTrue(f)' /\ ToldAll(f)'
  BY <1>1, TrueKept, AllKept DEF Reports
<1>3. ClosingTold'
  BY ClosingKept DEF Reports
<1> QED BY <1>2, <1>3 DEF Reports

(* A thread in user mode, or in a call that the kernel has still to         *)
(* execute, has nothing to tell.                                            *)
LEMMA NothingToTell ==
  ASSUME NEW t, thread[t].at # "returning", NEW f
  PROVE  ~Says(t, f) /\ ~Ranges(t, f) /\ ~ExecReturns(t)
BY DEF Says, Ranges, ExecReturns

(* A close event precedes the close; every other call enters in silence.    *)
LEMMA EnterReports ==
  ASSUME TypeOK, RememberInv, Reports, NEW t \in Tid, Enter(t), ~missed'
  PROVE  Reports'
<1>0. Len(ring) <= RingSize /\ ring \in Seq(FdEvent)
  BY DEF RememberInv, TypeOK
<1>1. ASSUME NEW name, NEW lo, NEW hi, MayCall(t, name), Called(t, name, lo, hi)
      PROVE  /\ \A f \in Fd : /\ ~Says(t, f) /\ ~Ranges(t, f) /\ ~Closes(t, f)
                              /\ Closes(t, f)' => name = "close" /\ f = lo
             /\ ~ExecReturns(t)
             /\ \A u \in Tid \ {t} : thread'[u] = thread[u]
             /\ fd_table' = fd_table /\ open_fds' = open_fds /\ forgotten' = forgotten
  <2>1. thread[t].at = "user"
    BY <1>1 DEF MayCall
  <2>2. \A f \in Fd : ~Says(t, f) /\ ~Ranges(t, f) /\ ~Closes(t, f)
    BY <2>1 DEF Says, Ranges, Closes
  <2>3. ~ExecReturns(t)
    BY <2>1 DEF ExecReturns
  <2>4. \A f \in Fd : Closes(t, f)' => name = "close" /\ f = lo
    BY <1>1, CalledIs DEF Closes
  <2> QED BY <1>1, <2>2, <2>3, <2>4, CalledIs
<1>2. ASSUME NEW name, NEW lo, NEW hi, MayCall(t, name), Called(t, name, lo, hi),
             name # "close", ring' = ring, mistaken' = mistaken
      PROVE  Reports'
  BY <1>1, <1>2, QuietStep
<1>3. CASE \E name \in {"open", "pipe"} : EnterOpen(t, name)
  BY <1>2, <1>3, RememberIs DEF EnterOpen
<1>4. CASE \E f \in Fd : EnterDup2(t, f)
  BY <1>2, <1>4, RememberIs DEF EnterDup2
<1>5. CASE EnterFcntl(t)
  BY <1>2, <1>5 DEF EnterFcntl, bpf
<1>6. CASE \E lo, hi \in Fd : EnterCloseRange(t, lo, hi)
  BY <1>2, <1>6, RememberIs DEF EnterCloseRange
<1>7. CASE EnterExec(t)
  BY <1>2, <1>7 DEF EnterExec, bpf
<1>8. ASSUME NEW f \in Fd, EnterClose(t, f) PROVE Reports'
  <2> DEFINE e == Event("close", f, f, 0)
  <2>1. /\ e \in FdEvent /\ e.type = "close"
        /\ \A g \in Fd : About(e, g) <=> g = f
    BY EventType, OneRange DEF Event, About
  <2>2. /\ MayCall(t, "close") /\ Called(t, "close", f, f) /\ Emit(e)
        /\ mistaken' = mistaken \ {f}
    BY <1>8 DEF EnterClose
  <2> HIDE DEF e
  <2>3. ring' = Append(ring, e)
    BY <1>0, <2>2, EmitIs
  <2>4. /\ \A g \in Fd : /\ ~Says(t, g) /\ ~Ranges(t, g) /\ ~Closes(t, g)
                         /\ Closes(t, g)' => g = f
        /\ ~ExecReturns(t)
        /\ \A u \in Tid \ {t} : thread'[u] = thread[u]
        /\ fd_table' = fd_table /\ open_fds' = open_fds /\ forgotten' = forgotten
    BY <1>1, <2>2
  <2>5. \A g \in Fd \ {f} : Keeps(ring, ring', g)
    BY <1>0, <2>1, <2>3, KeepsAppend
  <2>6. \A entry : LastWordNone(ring', entry, f)
    BY <1>0, <2>1, <2>3, AppendGone
  <2>7. ASSUME NEW g \in Fd \ mistaken', g # f PROVE ToldTrue(g)' /\ ToldAll(g)'
    <3>0. g \in Fd \ mistaken /\ g \in Fd \ {f}
      BY <2>2, <2>7
    <3>1. \A n : Said(ring, open_fds[g], g, n) => Said(ring', open_fds[g], g, n)
      BY <2>5, <3>0 DEF Keeps
    <3> QED BY <2>4, <2>5, <3>0, <3>1, TrueKept, AllKept DEF Reports
  <2>8. ToldTrue(f)'
    <3>1. LastWordIs(ring', open_fds'[f], f, fd_table'[f])
      BY <2>6, NoneIsTrue
    <3> QED BY <3>1 DEF ToldTrue
  <2>9. ToldAll(f)'
    <3>1. Closes(t, f)'
      BY <2>2, CalledIs DEF Closes
    <3> QED BY <3>1 DEF ToldAll
  <2>10. ClosingTold'
    <3>1. \A g \in Fd \ mistaken' :
            \/ /\ g \notin mistaken
               /\ LastWordNone(ring, open_fds[g], g) => LastWordNone(ring', open_fds[g], g)
            \/ LastWordNone(ring', open_fds[g], g)
      BY <2>2, <2>5, <2>6 DEF Keeps
    <3> QED BY <2>4, <2>6, <3>1, ClosingKept DEF Reports
  <2> QED BY <2>7, <2>8, <2>9, <2>10 DEF Reports
<1> QED BY <1>3, <1>4, <1>5, <1>6, <1>7, <1>8 DEF Enter

(* What the kernel allocates is going to be said, what it closes has been,  *)
(* or will be, or an exec is going to be synchronized with.                 *)
LEMMA KernelReports ==
  ASSUME TypeOK, OwnerInv, Reports, NEW t \in Tid, Kernel(t)
  PROVE  Reports'
<1>0. /\ fd_table \in [Fd -> Nat] /\ thread[t] \in Thread /\ Answered(t)
      /\ thread[t].lo \in Fd /\ thread[t].hi \in Fd
  BY DEF TypeOK, OwnerInv, Thread
<1>a. \A f \in Fd : Keeps(ring, ring, f)
  BY DEF Keeps
<1>b. ASSUME thread[t].at = "called", thread[t].name # "close"
      PROVE  /\ \A f \in Fd : ~Says(t, f) /\ ~Ranges(t, f) /\ ~Closes(t, f)
             /\ ~ExecReturns(t)
  BY <1>b DEF Says, Ranges, Closes, ExecReturns
<1>1. ASSUME NEW ret, NEW id, Returns(t, ret, id), thread[t].at = "called",
             thread[t].name # "close",
             \A f \in Fd : \/ fd_table'[f] = fd_table[f]
                           \/ /\ Says(t, f)' \/ Ranges(t, f)'
                              /\ Says(t, f)' \/ ~(fd_table'[f] > 1)
      PROVE  Reports'
  <2>1. /\ thread'[t].at = "returning"
        /\ \A u \in Tid \ {t} : thread'[u] = thread[u]
        /\ ring' = ring /\ open_fds' = open_fds /\ forgotten' = forgotten
        /\ mistaken' = mistaken
    BY <1>1, ReturnsIs
  <2>2. ClosingTold'
    <3>1. \A f \in Fd : ~Closes(t, f)'
      BY <2>1 DEF Closes
    <3> QED BY <2>1, <3>1, ClosingKept DEF Reports
  <2>3. ASSUME NEW f \in Fd \ mistaken, fd_table'[f] = fd_table[f]
        PROVE  ToldTrue(f)' /\ ToldAll(f)'
    BY <1>1, <1>a, <1>b, <2>1, <2>3, TrueKept, AllKept DEF Reports
  <2>4. ASSUME NEW f \in Fd, Says(t, f)' \/ Ranges(t, f)',
               Says(t, f)' \/ ~(fd_table'[f] > 1)
        PROVE  ToldTrue(f)' /\ ToldAll(f)'
    BY <2>4 DEF ToldTrue, ToldAll
  <2> QED BY <1>1, <2>1, <2>2, <2>3, <2>4 DEF Reports
<1>2. CASE RunFails(t) \/ KillOthers(t)
  <2>1. PICK at \in {"failed", "killing"} : thread' = [thread EXCEPT ![t].at = at]
    BY <1>2 DEF RunFails, KillOthers
  <2>2. /\ thread[t].at = "called" /\ thread[t].name # "close"
        /\ fd_table' = fd_table /\ open_fds' = open_fds /\ forgotten' = forgotten
        /\ ring' = ring /\ mistaken' = mistaken
    BY <1>2 DEF RunFails, KillOthers, Running, bpf, user
  <2>3. thread'[t].at = at /\ \A u \in Tid \ {t} : thread'[u] = thread[u]
    BY <2>1, AtIs
  <2>4. \A f \in Fd : ~Closes(t, f)'
    BY <2>1, <2>3 DEF Closes
  <2> QED BY <1>b, <2>2, <2>3, <2>4, QuietStep
<1>3. ASSUME NEW f \in Fd, RunOpen(t, f) PROVE Reports'
  <2>1. /\ Returns(t, {f}, allocs + 1) /\ thread[t].at = "called" /\ thread[t].name = "open"
        /\ \A g \in Fd \ {f} : fd_table'[g] = fd_table[g]
    BY <1>0, <1>3 DEF RunOpen, Running
  <2>2. Says(t, f)'
    BY <2>1, ReturnsIs DEF Says
  <2> QED BY <1>1, <2>1, <2>2
<1>4. ASSUME NEW f \in Fd, NEW g \in Fd, RunPipe(t, f, g) PROVE Reports'
  <2>1. /\ Returns(t, {f, g}, allocs + 1) /\ thread[t].at = "called"
        /\ thread[t].name = "pipe"
        /\ \A h \in Fd \ {f, g} : fd_table'[h] = fd_table[h]
    BY <1>0, <1>4 DEF RunPipe, Running
  <2>2. Says(t, f)' /\ Says(t, g)'
    BY <2>1, ReturnsIs DEF Says
  <2> QED BY <1>1, <2>1, <2>2
<1>5. CASE RunDup2(t)
  <2>0. PICK f \in Fd : f = thread[t].lo
    BY <1>0
  <2>1. /\ Returns(t, {f}, allocs + 1) /\ thread[t].at = "called"
        /\ thread[t].name = "dup2"
        /\ \A g \in Fd \ {f} : fd_table'[g] = fd_table[g]
    BY <1>0, <1>5, <2>0 DEF RunDup2, Running
  <2>2. Says(t, f)'
    BY <2>1, ReturnsIs DEF Says
  <2> QED BY <1>1, <2>1, <2>2
<1>6. CASE \E value \in Fd : RunFcntl(t, value)
  <2>1. PICK value \in Fd : RunFcntl(t, value)
    BY <1>6
  <2>2. /\ Returns(t, {value}, 0) /\ thread[t].at = "called" /\ thread[t].name = "fcntl"
        /\ fd_table' = fd_table
    BY <2>1 DEF RunFcntl, Running
  <2> QED BY <1>1, <2>2
<1>7. CASE RunClose(t)
  <2>0. PICK f \in Fd : f = thread[t].lo
    BY <1>0
  <2>1. /\ thread[t].at = "called" /\ thread[t].name = "close"
        /\ fd_table' = [fd_table EXCEPT ![f] = 0]
        /\ thread' = [thread EXCEPT ![t] = Idle]
        /\ ring' = ring /\ open_fds' = open_fds /\ forgotten' = forgotten
        /\ mistaken' = mistaken
    BY <1>7, <2>0 DEF RunClose, Running, bpf, user
  <2>2. thread'[t].at = "user" /\ \A u \in Tid \ {t} : thread'[u] = thread[u]
    BY <2>1 DEF TypeOK, Idle
  <2>3. fd_table'[f] = 0 /\ \A g \in Fd \ {f} : fd_table'[g] = fd_table[g]
    BY <1>0, <2>1
  <2>4. \A g \in Fd : ~Says(t, g) /\ ~Ranges(t, g) /\ ~ExecReturns(t)
    BY <2>1, NothingToTell
  <2>5. \A g \in Fd : ~Closes(t, g)' /\ (g # f => ~Closes(t, g))
    BY <2>0, <2>2 DEF Closes
  <2>6. ClosingTold'
    BY <2>1, <2>2, <2>5, ClosingKept DEF Reports
  <2>7. ASSUME NEW g \in Fd \ mistaken, g # f PROVE ToldTrue(g)' /\ ToldAll(g)'
    <3>1. fd_table'[g] = fd_table[g] /\ ~Closes(t, g) /\ ~Says(t, g) /\ ~Ranges(t, g)
      BY <2>3, <2>4, <2>5, <2>7
    <3> QED BY <1>a, <2>1, <2>2, <2>4, <3>1, TrueKept, AllKept DEF Reports
  <2>8. ASSUME f \notin mistaken PROVE ToldTrue(f)' /\ ToldAll(f)'
    <3>1. Closes(t, f)
      BY <2>0, <2>1 DEF Closes
    <3>2. LastWordNone(ring, open_fds[f], f)
      BY <1>0, <2>8, <3>1 DEF Reports, ClosingTold
    <3>3. LastWordIs(ring', open_fds'[f], f, fd_table'[f])
      BY <2>1, <3>2, NoneIsTrue
    <3>4. ~(fd_table'[f] > 1)
      BY <2>3
    <3> QED BY <3>3, <3>4 DEF ToldTrue, ToldAll
  <2> QED BY <2>1, <2>6, <2>7, <2>8 DEF Reports
<1>8. ASSUME NEW mark \in BOOLEAN, RunCloseRange(t, mark) PROVE Reports'
  <2> DEFINE span == Range2(thread[t].lo, thread[t].hi)
             ret == IF mark THEN span ELSE {}
  <2>1. /\ Returns(t, ret, 0) /\ thread[t].at = "called" /\ thread[t].name = "close_range"
        /\ \A f \in Fd : fd_table'[f] = IF f \in span /\ ~mark THEN 0 ELSE fd_table[f]
    BY <1>8 DEF RunCloseRange, Running
  <2>2. \A f \in span : Ranges(t, f)'
    BY <2>1, ReturnsIs DEF Ranges
  <2> HIDE DEF span, ret
  <2>3. \A f \in Fd : fd_table'[f] = fd_table[f] \/ (f \in span /\ ~(fd_table'[f] > 1))
    BY <2>1
  <2> QED BY <1>1, <2>1, <2>2, <2>3
<1>9. ASSUME NEW C \in SUBSET {f \in Fd : fd_table[f] # 0}, RunExec(t, C) PROVE Reports'
  <2>1. /\ thread[t].at = "killing"
        /\ \A f \in Fd : fd_table'[f] = IF f \in C THEN 0 ELSE fd_table[f]
        /\ thread' = [thread EXCEPT ![t].at = "returning"]
        /\ ring' = ring /\ open_fds' = open_fds /\ forgotten' = forgotten
        /\ mistaken' = mistaken
    BY <1>9 DEF RunExec, bpf, user
  <2>2. /\ thread'[t].at = "returning" /\ thread'[t].name = "exec"
        /\ \A u \in Tid \ {t} : thread'[u] = thread[u]
    BY <1>0, <2>1, AtIs DEF Answered
  <2>a. \A f \in Fd : ~Says(t, f) /\ ~Ranges(t, f) /\ ~Closes(t, f) /\ ~ExecReturns(t)
    BY <2>1 DEF Says, Ranges, Closes, ExecReturns
  <2>3. ExecReturns(t)' /\ \A f \in Fd : ~Closes(t, f)'
    BY <2>2 DEF ExecReturns, Closes
  <2>4. ClosingTold'
    BY <2>1, <2>2, <2>3, ClosingKept DEF Reports
  <2>5. ASSUME NEW f \in Fd \ mistaken, f \notin C PROVE ToldTrue(f)' /\ ToldAll(f)'
    <3>1. fd_table'[f] = fd_table[f]
      BY <2>1, <2>5
    <3> QED BY <1>a, <2>1, <2>2, <2>a, <3>1, TrueKept, AllKept DEF Reports
  <2>6. ASSUME NEW f \in C PROVE ToldTrue(f)' /\ ToldAll(f)'
    <3>1. fd_table'[f] = 0
      BY <2>1
    <3> QED BY <2>3, <3>1 DEF ToldTrue, ToldAll
  <2> QED BY <2>1, <2>4, <2>5, <2>6 DEF Reports
<1> QED BY <1>2, <1>3, <1>4, <1>5, <1>6, <1>7, <1>8, <1>9 DEF Kernel

(* Two events that are both not about f leave what is said of f.            *)
LEMMA KeepsTwo ==
  ASSUME NEW p, NEW q, NEW r, NEW f, Keeps(p, q, f), Keeps(q, r, f)
  PROVE  Keeps(p, r, f)
BY DEF Keeps

(* A thread is back with what it said appended to the ring buffer: what was *)
(* said of its descriptors is true, and the others were left alone.         *)
LEMMA BackReports ==
  ASSUME Reports, NEW t \in Tid, NEW got, Back(t, got), TypeOK,
         thread[t].at \in {"returning", "failed"}, ~ExecReturns(t),
         \A f \in Fd \ mistaken' :
           \/ /\ f \notin mistaken /\ Keeps(ring, ring', f)
              /\ ~Says(t, f) /\ ~Ranges(t, f)
           \/ /\ LastWordIs(ring', open_fds[f], f, fd_table[f])
              /\ Said(ring', open_fds[f], f, fd_table[f])
              /\ \A u \in Tid : ~Closes(u, f)
  PROVE  Reports'
<1>1. /\ thread'[t].at = "user"
      /\ \A u \in Tid \ {t} : thread'[u] = thread[u]
      /\ fd_table' = fd_table /\ open_fds' = open_fds /\ forgotten' = forgotten
  BY BackIs
<1>2. \A f \in Fd : ~Closes(t, f) /\ ~Closes(t, f)'
  BY <1>1 DEF Closes
<1>3. ASSUME NEW f \in Fd \ mistaken' PROVE ToldTrue(f)' /\ ToldAll(f)'
  <2>1. CASE f \notin mistaken /\ Keeps(ring, ring', f) /\ ~Says(t, f) /\ ~Ranges(t, f)
    <3>1. \A n : Said(ring, open_fds[f], f, n) => Said(ring', open_fds[f], f, n)
      BY <2>1 DEF Keeps
    <3> QED BY <1>1, <1>2, <2>1, <3>1, TrueKept, AllKept DEF Reports
  <2>2. CASE /\ LastWordIs(ring', open_fds[f], f, fd_table[f])
             /\ Said(ring', open_fds[f], f, fd_table[f])
    BY <1>1, <2>2 DEF ToldTrue, ToldAll
  <2> QED BY <2>1, <2>2
<1>4. ASSUME NEW u \in Tid, NEW f \in Fd \ mistaken', Closes(u, f)'
      PROVE  LastWordNone(ring', open_fds'[f], f)
  <2>1. Closes(u, f)
    BY <1>1, <1>2, <1>4 DEF Closes
  <2>2. f \notin mistaken /\ Keeps(ring, ring', f)
    BY <2>1
  <2>3. LastWordNone(ring, open_fds[f], f)
    BY <2>1, <2>2 DEF Reports, ClosingTold
  <2> QED BY <1>1, <2>2, <2>3 DEF Keeps
<1> QED BY <1>3, <1>4 DEF Reports, ClosingTold

(* The call that another thread is closing was not returned by this one.    *)
LEMMA NotClosed ==
  ASSUME OwnerInv, NEW t \in Tid, NEW f \in Fd, thread[t].at = "returning", Owns(t, f)
  PROVE  \A u \in Tid : ~Closes(u, f)
<1>1. ASSUME NEW u \in Tid, Closes(u, f) PROVE FALSE
  <2>1. thread[u].lo = thread[u].hi /\ thread[u].lo = f
    BY <1>1 DEF OwnerInv, Answered, Closes
  <2>2. Owns(u, f)
    BY <1>1, <2>1, OneRange DEF Owns, Closes
  <2> QED BY <1>1, <2>2 DEF OwnerInv, Closes
<1> QED BY <1>1

(* What a call has allocated is said when it returns.                       *)
LEMMA ExitReports ==
  ASSUME PendingInv, OwnerInv, RememberInv, Reports, NEW t \in Tid, Exit(t),
         ~missed, ~missed'
  PROVE  Reports'
<1>0. /\ TypeOK /\ ring \in Seq(FdEvent) /\ Len(ring) <= RingSize
      /\ thread[t].ret \subseteq Fd /\ thread[t].id \in Nat
      /\ thread[t].lo \in Fd /\ thread[t].hi \in Fd
      /\ Answered(t) /\ Remembered(t) /\ PendingOf(t)
  BY DEF PendingInv, TypeOK, Thread, RememberInv, OwnerInv
<1>1. ASSUME NEW f \in Fd, NEW id \in Nat
      PROVE  /\ Event("open", f, 0, id) \in FdEvent
             /\ Event("open", f, 0, id).type = "open"
             /\ Event("open", f, 0, id).fd = f
             /\ Event("open", f, 0, id).id = id
             /\ \A g \in Fd : About(Event("open", f, 0, id), g) => g = f
  BY EventType, ZeroFd DEF Event, About
<1>2. \A f \in Fd : Keeps(ring, ring, f)
  BY DEF Keeps
<1>3. CASE ExitOpen(t)
  <2>1. /\ thread[t].at = "returning" /\ thread[t].name \in {"open", "dup2"}
        /\ (\E got : Back(t, got)) /\ ~ExecReturns(t)
        /\ mistaken' = mistaken \ thread[t].ret
    BY <1>3 DEF ExitOpen, Returning, ExecReturns
  <2>2. \A f \in Fd : ~Ranges(t, f) /\ (Says(t, f) <=> f \in thread[t].ret)
    BY <2>1 DEF Says, Ranges
  <2>3. pending_calls[t] # NoPending
    BY <1>0, <2>1 DEF Remembered
  <2>4. PICK f \in thread[t].ret : Emit(Event("open", f, 0, thread[t].id))
    BY <1>3, <2>3 DEF ExitOpen
  <2>5. f \in Fd /\ thread[t].ret = {f} /\ fd_table[f] = thread[t].id /\ Owns(t, f)
    BY <1>0, <2>1, <2>4 DEF Answered, Owns
  <2>6. PICK e : e = Event("open", f, 0, thread[t].id)
    OBVIOUS
  <2>7. /\ e \in FdEvent /\ e.type = "open" /\ e.fd = f /\ e.id = fd_table[f]
        /\ \A g \in Fd : About(e, g) => g = f
    BY <1>0, <1>1, <2>5, <2>6
  <2>8. ring' = Append(ring, e)
    BY <1>0, <2>4, <2>6, EmitIs
  <2>9. \A g \in Fd \ mistaken' : g # f =>
          g \notin mistaken /\ Keeps(ring, ring', g) /\ ~Says(t, g) /\ ~Ranges(t, g)
    BY <1>0, <2>1, <2>2, <2>5, <2>7, <2>8, KeepsAppend
  <2>10. /\ LastWordIs(ring', open_fds[f], f, fd_table[f])
         /\ Said(ring', open_fds[f], f, fd_table[f])
    BY <1>0, <2>7, <2>8, AppendOpen
  <2>11. \A u \in Tid : ~Closes(u, f)
    BY <2>1, <2>5, NotClosed
  <2> QED BY <1>0, <2>1, <2>9, <2>10, <2>11, BackReports
<1>8. CASE ExitFcntl(t)
  <2>1. /\ thread[t].at = "returning" /\ thread[t].name = "fcntl"
        /\ (\E got : Back(t, got)) /\ ~ExecReturns(t)
    BY <1>8 DEF ExitFcntl, Returning, ExecReturns
  <2>2. \A f \in Fd : ~Ranges(t, f) /\ ~Says(t, f)
    BY <2>1 DEF Says, Ranges
  <2>3. CASE NoEmit /\ UNCHANGED mistaken
    BY <1>0, <1>2, <2>1, <2>2, <2>3, BackReports DEF NoEmit
  <2>4. ASSUME NEW f \in thread[t].ret, Emit(Event("open", f, 0, 0)),
               mistaken' = mistaken \cup thread[t].ret
        PROVE  Reports'
    <3>1. PICK e : e = Event("open", f, 0, 0)
      OBVIOUS
    <3>2. f \in Fd /\ e \in FdEvent /\ \A g \in Fd : About(e, g) => g = f
      BY <1>0, <1>1, <3>1
    <3>3. ring' = Append(ring, e)
      BY <1>0, <2>4, <3>1, EmitIs
    <3>4. \A g \in Fd \ mistaken' : g \notin mistaken /\ Keeps(ring, ring', g)
      BY <1>0, <2>4, <3>2, <3>3, KeepsAppend
    <3> QED BY <1>0, <2>1, <2>2, <3>4, BackReports
  <2> QED BY <1>8, <2>3, <2>4 DEF ExitFcntl
<1>9. CASE ExitFailed(t)
  <2>1. /\ thread[t].at = "failed" /\ (\E got : Back(t, got))
        /\ ring' = ring /\ mistaken' = mistaken
    BY <1>9 DEF ExitFailed, FailureReported, NoEmit
  <2>2. \A f \in Fd : ~Says(t, f) /\ ~Ranges(t, f)
    BY <2>1 DEF Says, Ranges
  <2>3. ~ExecReturns(t)
    BY <2>1 DEF ExecReturns
  <2> QED BY <1>0, <1>2, <2>1, <2>2, <2>3, BackReports
<1>4. CASE ExitPipe(t)
  <2>1. /\ thread[t].at = "returning" /\ thread[t].name = "pipe"
        /\ (\E got : Back(t, got)) /\ ~ExecReturns(t)
        /\ mistaken' = mistaken \ thread[t].ret
    BY <1>4 DEF ExitPipe, Returning, ExecReturns
  <2>2. pending_calls[t] # NoPending
    BY <1>0, <2>1 DEF Remembered
  <2>3. PICK f \in thread[t].ret, g \in thread[t].ret :
          f < g /\ EmitBoth(Event("open", f, 0, thread[t].id),
                            Event("open", g, 0, thread[t].id + 1))
    BY <1>4, <2>2 DEF ExitPipe
  <2>4. /\ f \in Fd /\ g \in Fd /\ f # g /\ thread[t].ret = {f, g}
        /\ fd_table[f] = thread[t].id /\ fd_table[g] = thread[t].id + 1
    <3>1. PICK x \in Fd, y \in Fd : /\ x < y
                                    /\ thread[t].ret = {x, y}
                                    /\ fd_table[x] = thread[t].id
                                    /\ fd_table[y] = thread[t].id + 1
      BY <1>0, <2>1 DEF Answered
    <3>2. x = f /\ y = g
      BY <2>3, <3>1, TracerAssumption DEF Fd
    <3> QED BY <2>3, <3>1, <3>2, TracerAssumption DEF Fd
  <2>5. PICK d : d = Event("open", f, 0, thread[t].id)
    OBVIOUS
  <2>6. PICK e : e = Event("open", g, 0, thread[t].id + 1)
    OBVIOUS
  <2>7. /\ d \in FdEvent /\ d.type = "open" /\ d.fd = f /\ d.id = fd_table[f]
        /\ \A h \in Fd : About(d, h) => h = f
    BY <1>0, <1>1, <2>4, <2>5
  <2>8. /\ e \in FdEvent /\ e.type = "open" /\ e.fd = g /\ e.id = fd_table[g]
        /\ \A h \in Fd : About(e, h) => h = g
    <3>1. thread[t].id + 1 \in Nat
      BY <1>0
    <3> QED BY <1>1, <2>4, <2>6, <3>1
  <2>9. PICK q : q = Append(ring, d)
    OBVIOUS
  <2>10. ring' = Append(q, e) /\ q \in Seq(FdEvent)
    BY <1>0, <2>3, <2>5, <2>6, <2>7, <2>9, EmitBothIs, AppendedIs
  <2>11. \A h \in Fd \ {f, g} : Keeps(ring, ring', h)
    <3>1. ASSUME NEW h \in Fd \ {f, g} PROVE Keeps(ring, ring', h)
      <4>1. Keeps(ring, q, h)
        BY <1>0, <2>7, <2>9, KeepsAppend
      <4>2. Keeps(q, ring', h)
        BY <2>8, <2>10, KeepsAppend
      <4> QED BY <4>1, <4>2, KeepsTwo
    <3> QED BY <3>1
  <2>12. /\ LastWordIs(ring', open_fds[g], g, fd_table[g])
         /\ Said(ring', open_fds[g], g, fd_table[g])
    BY <2>8, <2>10, AppendOpen
  <2>13. /\ LastWordIs(ring', open_fds[f], f, fd_table[f])
         /\ Said(ring', open_fds[f], f, fd_table[f])
    <3>1. /\ LastWordIs(q, open_fds[f], f, fd_table[f])
          /\ Said(q, open_fds[f], f, fd_table[f])
      BY <1>0, <2>7, <2>9, AppendOpen
    <3>2. ~About(e, f)
      BY <2>4, <2>8
    <3> QED BY <2>8, <2>10, <3>1, <3>2, AppendApart
  <2>14. \A h \in {f, g} : \A u \in Tid : ~Closes(u, h)
    <3>1. \A h \in {f, g} : Owns(t, h)
      BY <2>1, <2>4 DEF Owns
    <3> QED BY <2>1, <2>4, <3>1, NotClosed
  <2>15. \A h \in Fd \ mistaken' : \/ h \in {f, g}
                                   \/ h \notin mistaken /\ ~Ranges(t, h) /\ ~Says(t, h)
    BY <2>1, <2>4 DEF Says, Ranges
  <2> QED BY <1>0, <2>1, <2>11, <2>12, <2>13, <2>14, <2>15, BackReports
<1>5. CASE ExitCloseRange(t)
  <2>1. /\ thread[t].at = "returning" /\ thread[t].name = "close_range"
        /\ (\E got : Back(t, got)) /\ mistaken' = mistaken
    BY <1>5 DEF ExitCloseRange, Returning
  <2>2. /\ pending_calls[t] # NoPending
        /\ pending_calls[t].lo = thread[t].lo /\ pending_calls[t].hi = thread[t].hi
    BY <1>0, <2>1 DEF Remembered
  <2>3. PICK e : e = Event("close_range", thread[t].lo, thread[t].hi, 0)
    OBVIOUS
  <2>4. /\ e \in FdEvent /\ e.type = "close_range"
        /\ \A f \in Fd : About(e, f) <=> Ranges(t, f)
    BY <1>0, <2>1, <2>3, EventType DEF Event, About, Ranges
  <2>5. ring' = Append(ring, e)
    BY <1>0, <1>5, <2>2, <2>3, EmitIs DEF ExitCloseRange
  <2>6. /\ thread'[t].at = "user"
        /\ \A u \in Tid \ {t} : thread'[u] = thread[u]
        /\ fd_table' = fd_table /\ open_fds' = open_fds /\ forgotten' = forgotten
    BY <1>0, <2>1, BackIs
  <2>7. \A f \in Fd : ~Says(t, f) /\ ~Closes(t, f) /\ ~ExecReturns(t) /\ ~Closes(t, f)'
    BY <2>1, <2>6 DEF Says, Closes, ExecReturns
  <2>8. ASSUME NEW f \in Fd \ mistaken
        PROVE  /\ ToldTrue(f)' /\ ToldAll(f)'
               /\ LastWordNone(ring, open_fds[f], f) => LastWordNone(ring', open_fds[f], f)
    <3>1. \A n : Said(ring, open_fds[f], f, n) => Said(ring', open_fds[f], f, n)
      BY <1>0, <2>4, <2>5, AppendForgets
    <3>2. ToldAll(f)'
      BY <2>6, <2>7, <3>1, AllKept DEF Reports
    <3>3. CASE About(e, f)
      <4>1. LastWordNone(ring', open_fds[f], f)
        BY <1>0, <2>4, <2>5, <3>3, AppendGone
      <4>2. LastWordIs(ring', open_fds'[f], f, fd_table'[f])
        BY <2>6, <4>1, NoneIsTrue
      <4> QED BY <3>2, <4>1, <4>2 DEF ToldTrue
    <3>4. CASE ~About(e, f)
      <4>1. Keeps(ring, ring', f)
        BY <1>0, <2>4, <2>5, <3>4, KeepsAppend
      <4> QED BY <2>4, <2>6, <2>7, <3>2, <3>4, <4>1, TrueKept DEF Reports, Keeps
    <3> QED BY <3>3, <3>4
  <2>9. ClosingTold'
    BY <2>1, <2>6, <2>7, <2>8, ClosingKept DEF Reports
  <2> QED BY <2>1, <2>8, <2>9 DEF Reports
<1>6. CASE ExitExec(t)
  <2>1. /\ thread[t].at = "returning" /\ thread[t].name = "exec"
        /\ (\E got : Back(t, got)) /\ Emit(Event("exec", 0, 0, 0))
        /\ mistaken' = mistaken
    BY <1>6 DEF ExitExec, Returning
  <2>2. PICK e : e = Event("exec", 0, 0, 0)
    OBVIOUS
  <2>3. e \in FdEvent /\ e.type = "exec" /\ \A f : ~About(e, f)
    BY <2>2, ZeroFd, EventType DEF Event, About
  <2>4. ring' = Append(ring, e)
    BY <1>0, <2>1, <2>2, EmitIs
  <2>5. \A f \in Fd : Keeps(ring, ring', f) /\ ExecAfter(ring', f)
    BY <1>0, <2>3, <2>4, KeepsAppend, AppendExec
  <2>6. /\ thread'[t].at = "user"
        /\ \A u \in Tid \ {t} : thread'[u] = thread[u]
        /\ fd_table' = fd_table /\ open_fds' = open_fds /\ forgotten' = forgotten
    BY <1>0, <2>1, BackIs
  <2>7. \A f \in Fd : ~Says(t, f) /\ ~Ranges(t, f) /\ ~Closes(t, f) /\ ~Closes(t, f)'
    BY <2>1, <2>6 DEF Says, Ranges, Closes
  <2>8. ASSUME NEW f \in Fd \ mistaken PROVE ToldTrue(f)' /\ ToldAll(f)'
    <3>1. \A n : Said(ring, open_fds[f], f, n) => Said(ring', open_fds[f], f, n)
      BY <2>5 DEF Keeps
    <3> QED BY <2>5, <2>6, <2>7, <3>1, TrueKept, AllKept DEF Reports
  <2>9. ClosingTold'
    BY <2>1, <2>5, <2>6, <2>7, ClosingKept DEF Reports, Keeps
  <2> QED BY <2>1, <2>8, <2>9 DEF Reports
<1>7. CASE ExitThread(t)
  <2>1. /\ thread[t].at = "user"
        /\ thread' = [thread EXCEPT ![t].at = "dead"]
        /\ fd_table' = IF Alive = {t} THEN [f \in Fd |-> 0] ELSE fd_table
        /\ Emit(Event("exit", 0, 0, 0))
        /\ open_fds' = open_fds /\ forgotten' = forgotten /\ mistaken' = mistaken
    BY <1>7 DEF ExitThread, user
  <2>2. thread'[t].at = "dead" /\ \A u \in Tid \ {t} : thread'[u] = thread[u]
    BY <1>0, <2>1 DEF TypeOK, Thread
  <2>3. PICK e : e = Event("exit", 0, 0, 0)
    OBVIOUS
  <2>4. e \in FdEvent /\ e.type = "exit" /\ \A f : About(e, f)
    BY <2>3, ZeroFd, EventType DEF Event, About
  <2>5. ring' = Append(ring, e)
    BY <1>0, <2>1, <2>3, EmitIs
  <2>6. \A f \in Fd : LastWordNone(ring', open_fds[f], f)
    BY <1>0, <2>4, <2>5, AppendGone
  <2>7. \A f \in Fd : ~Says(t, f) /\ ~Closes(t, f) /\ ~Closes(t, f)'
    BY <2>1, <2>2 DEF Says, Closes
  <2>8. ASSUME NEW f \in Fd \ mistaken PROVE ToldTrue(f)' /\ ToldAll(f)'
    <3>1. ToldTrue(f)'
      <4>1. LastWordIs(ring', open_fds'[f], f, fd_table'[f])
        BY <2>1, <2>6, NoneIsTrue
      <4> QED BY <4>1 DEF ToldTrue
    <3>2. CASE Alive = {t}
      BY <2>1, <3>1, <3>2 DEF ToldAll
    <3>3. CASE Alive # {t}
      <4>1. \A n : Said(ring, open_fds[f], f, n) => Said(ring', open_fds[f], f, n)
        BY <1>0, <2>4, <2>5, AppendForgets
      <4> QED BY <2>1, <2>2, <2>7, <3>1, <3>3, <4>1, AllKept DEF Reports
    <3> QED BY <3>2, <3>3
  <2>9. ClosingTold'
    BY <2>1, <2>2, <2>6, <2>7, ClosingKept DEF Reports
  <2> QED BY <2>1, <2>8, <2>9 DEF Reports
<1> QED BY <1>3, <1>4, <1>5, <1>6, <1>7, <1>8, <1>9 DEF Exit

-----------------------------------------------------------------------------
(* What handle_event does to the report.                                    *)

(* If nothing more is said of f and it has no entry, that is the last word. *)
LEMMA QuietIsTrue ==
  ASSUME NEW q \in Seq(FdEvent), NEW f, NEW n, QuietFrom(q, 1, f)
  PROVE  LastWordIs(q, NoEntry, f, n)
<1>1. \A i \in 1 .. Len(q) : ~About(q[i], f)
  BY DEF QuietFrom
<1>2. \A i \in 1 .. Len(q) : ~(q[i].type = "open" /\ q[i].fd = f)
  BY <1>1 DEF About
<1> QED BY <1>2 DEF LastWordIs

(* What is taken out of the table is what the exit or range event forgets.  *)
LEMMA LostIs ==
  ASSUME NEW f \in Fd, NEW after, open_fds[f].id > 0, after[f] = NoEntry
  PROVE  open_fds[f].id \in Lost(open_fds, after)
<1>1. open_fds[f] # NoEntry
  BY DEF NoEntry
<1>2. f \in {g \in Fd : after[g] # open_fds[g]}
  BY <1>1
<1> QED BY <1>2 DEF Lost

(* The handled event: what it is about, it settles; the rest it leaves.     *)
LEMMA ConsumerReports ==
  ASSUME TypeOK, Reports, Consumer
  PROVE  Reports'
<1>0. /\ fd_table \in [Fd -> Nat] /\ open_fds \in [Fd -> OpenFd] /\ ring \in Seq(FdEvent)
      /\ NoEntry.id = 0
  BY DEF TypeOK, NoEntry
<1>1. /\ ring # <<>> /\ ring' = Tail(ring) /\ thread' = thread /\ fd_table' = fd_table
      /\ mistaken' = mistaken
  BY DEF Consumer, HandleOpen, HandleClose, HandleCloseRange, HandleExec, HandleExit,
         Consume, target
<1>2. PICK e : e = Head(ring)
  OBVIOUS
<1>3. e \in FdEvent
  BY <1>0, <1>1, <1>2
<1>4. /\ \A t \in Tid : \A f \in Fd : /\ Says(t, f)' <=> Says(t, f)
                                      /\ Ranges(t, f)' <=> Ranges(t, f)
                                      /\ Closes(t, f)' <=> Closes(t, f)
      /\ \A t \in Tid : ExecReturns(t)' <=> ExecReturns(t)
  BY <1>1 DEF Says, Ranges, Closes, ExecReturns
<1>5. ASSUME NEW f \in Fd \ mistaken,
             LastWordIs(ring, open_fds[f], f, fd_table[f]) =>
               LastWordIs(ring', open_fds'[f], f, fd_table[f]),
             LastWordNone(ring, open_fds[f], f) => LastWordNone(ring', open_fds'[f], f),
             fd_table[f] = 0 /\ ExecAfter(ring, f) =>
               ExecAfter(ring', f) \/ LastWordIs(ring', open_fds'[f], f, fd_table[f]),
             fd_table[f] > 1 /\ Said(ring, open_fds[f], f, fd_table[f]) =>
               Said(ring', open_fds'[f], f, fd_table[f]) \/ fd_table[f] \in forgotten',
             forgotten \subseteq forgotten'
      PROVE  /\ ToldTrue(f)' /\ ToldAll(f)'
             /\ \A t \in Tid : Closes(t, f)' => LastWordNone(ring', open_fds'[f], f)
  <2>1. ToldTrue(f) /\ ToldAll(f)
    BY DEF Reports
  <2>2. ToldTrue(f)'
    BY <1>1, <1>4, <1>5, <2>1 DEF ToldTrue
  <2>3. ToldAll(f)'
    BY <1>1, <1>4, <1>5, <2>1 DEF ToldAll
  <2> QED BY <1>4, <1>5, <2>2, <2>3 DEF Reports, ClosingTold
<1>6. ASSUME NEW f \in Fd \ mistaken, open_fds'[f] = open_fds[f], ~About(e, f),
             e.type = "exec" => fd_table[f] # 0, forgotten \subseteq forgotten'
      PROVE  /\ ToldTrue(f)' /\ ToldAll(f)'
             /\ \A t \in Tid : Closes(t, f)' => LastWordNone(ring', open_fds'[f], f)
  <2>1. \A n : /\ LastWordIs(ring, open_fds[f], f, n) => LastWordIs(ring', open_fds[f], f, n)
               /\ LastWordNone(ring, open_fds[f], f) => LastWordNone(ring', open_fds[f], f)
               /\ Said(ring, open_fds[f], f, n) => Said(ring', open_fds[f], f, n)
    BY <1>0, <1>1, <1>2, <1>6, TakeApart
  <2>2. ExecAfter(ring, f) => ExecAfter(ring', f) \/ e.type = "exec"
    BY <1>0, <1>1, <1>2, TakeAny
  <2> QED BY <1>5, <1>6, <2>1, <2>2
<1>7. ASSUME NEW f \in Fd \ mistaken, open_fds'[f] = NoEntry, e.type # "open", e.type # "exec",
             e.type \in {"close_range", "exit"} => forgotten' = forgotten \cup Lost(open_fds, open_fds'),
             About(e, f), forgotten \subseteq forgotten'
      PROVE  /\ ToldTrue(f)' /\ ToldAll(f)'
             /\ \A t \in Tid : Closes(t, f)' => LastWordNone(ring', open_fds'[f], f)
  <2>1. \A n : /\ LastWordIs(ring, open_fds[f], f, n) => LastWordIs(ring', NoEntry, f, n)
               /\ LastWordNone(ring, open_fds[f], f) => LastWordNone(ring', NoEntry, f)
               /\ ExecAfter(ring, f) => ExecAfter(ring', f)
               /\ Said(ring, open_fds[f], f, n) =>
                    \/ Said(ring', NoEntry, f, n)
                    \/ open_fds[f].id = n /\ e.type \in {"close_range", "exit"}
    BY <1>0, <1>1, <1>2, <1>7, TakeAny
  <2>2. ASSUME fd_table[f] > 1, open_fds[f].id = fd_table[f],
               e.type \in {"close_range", "exit"}
        PROVE  fd_table[f] \in forgotten'
    <3>1. open_fds[f].id > 0
      BY <1>0, <2>2
    <3>2. open_fds[f].id \in Lost(open_fds, open_fds')
      BY <1>7, <3>1, LostIs
    <3> QED BY <1>7, <2>2, <3>2
  <2> QED BY <1>5, <1>7, <2>1, <2>2
<1>8. ASSUME \A f \in Fd \ mistaken :
               /\ ToldTrue(f)' /\ ToldAll(f)'
               /\ \A t \in Tid : Closes(t, f)' => LastWordNone(ring', open_fds'[f], f)
      PROVE  Reports'
  BY <1>1, <1>8 DEF Reports, ClosingTold
<1>9. CASE HandleOpen
  <2>1. e.type = "open" /\ open_fds' = Opened(e) /\ forgotten' = forgotten
    BY <1>2, <1>9 DEF HandleOpen, Consume
  <2>2. PICK g \in Fd : g = e.fd
    BY <1>3 DEF FdEvent
  <2>3. /\ open_fds'[g] = [id |-> e.id, target |-> fd_table[g]]
        /\ \A f \in Fd \ {g} : open_fds'[f] = open_fds[f] /\ ~About(e, f)
    BY <1>0, <2>1, <2>2 DEF Opened, About
  <2>4. PICK new : new = [id |-> e.id, target |-> fd_table[g]]
    OBVIOUS
  <2>5. new.id = e.id /\ new.target = fd_table[g] /\ open_fds'[g] = new
    BY <2>3, <2>4
  <2>6. /\ LastWordIs(ring, open_fds[g], g, fd_table[g]) =>
             LastWordIs(ring', new, g, fd_table[g])
        /\ LastWordNone(ring, open_fds[g], g) => LastWordNone(ring', new, g)
        /\ Said(ring, open_fds[g], g, fd_table[g]) => Said(ring', new, g, fd_table[g])
    BY <1>0, <1>1, <1>2, <2>1, <2>2, <2>5, TakeOpen
  <2>7. ExecAfter(ring, g) => ExecAfter(ring', g)
    BY <1>0, <1>1, <1>2, <2>1, TakeAny
  <2>8. ASSUME g \notin mistaken
        PROVE  /\ ToldTrue(g)' /\ ToldAll(g)'
               /\ \A t \in Tid : Closes(t, g)' => LastWordNone(ring', open_fds'[g], g)
    BY <1>5, <2>1, <2>5, <2>6, <2>7, <2>8
  <2> QED BY <1>6, <1>8, <2>1, <2>3, <2>8
<1>10. CASE HandleClose
  <2>1. e.type = "close" /\ open_fds' = Closed(e) /\ forgotten' = forgotten
    BY <1>2, <1>10 DEF HandleClose, Consume
  <2>2. \A f \in Fd : IF About(e, f) THEN open_fds'[f] = NoEntry
                      ELSE open_fds'[f] = open_fds[f]
    BY <2>1 DEF Closed, About
  <2> QED BY <1>6, <1>7, <1>8, <2>1, <2>2
<1>11. CASE HandleCloseRange
  <2>1. /\ e.type = "close_range" /\ open_fds' = Closed(e)
        /\ forgotten' = forgotten \cup Lost(open_fds, open_fds')
    BY <1>2, <1>11 DEF HandleCloseRange, Consume
  <2>2. \A f \in Fd : IF About(e, f) THEN open_fds'[f] = NoEntry
                      ELSE open_fds'[f] = open_fds[f]
    BY <2>1 DEF Closed, About
  <2> QED BY <1>6, <1>7, <1>8, <2>1, <2>2
<1>12. CASE HandleExit
  <2>1. /\ e.type = "exit" /\ open_fds' = Cleared
        /\ forgotten' = forgotten \cup Lost(open_fds, open_fds')
    BY <1>2, <1>12 DEF HandleExit, Consume
  <2>2. \A f \in Fd : About(e, f) /\ open_fds'[f] = NoEntry
    BY <2>1 DEF Cleared, About
  <2> QED BY <1>7, <1>8, <2>1, <2>2
<1>13. CASE HandleExec
  <2>1. e.type = "exec" /\ open_fds' = Synced /\ forgotten' = forgotten
    BY <1>2, <1>13 DEF HandleExec, Consume
  <2>2. \A f \in Fd : /\ open_fds'[f] = IF fd_table[f] = 0 THEN NoEntry ELSE open_fds[f]
                      /\ ~About(e, f)
    BY <2>1 DEF Synced, About
  <2>3. ASSUME NEW f \in Fd \ mistaken, fd_table[f] = 0
        PROVE  /\ ToldTrue(f)' /\ ToldAll(f)'
               /\ \A t \in Tid : Closes(t, f)' => LastWordNone(ring', open_fds'[f], f)
    <3>1. \A n : /\ LastWordIs(ring, open_fds[f], f, n) => LastWordIs(ring', NoEntry, f, n)
                 /\ LastWordNone(ring, open_fds[f], f) => LastWordNone(ring', NoEntry, f)
                 /\ ExecAfter(ring, f) => ExecAfter(ring', f) \/ QuietFrom(ring', 1, f)
      BY <1>0, <1>1, <1>2, TakeAny
    <3>2. ring' \in Seq(FdEvent)
      BY <1>0, <1>1
    <3>3. ExecAfter(ring, f) => ExecAfter(ring', f) \/ LastWordIs(ring', NoEntry, f, fd_table[f])
      BY <3>1, <3>2, QuietIsTrue
    <3>4. open_fds'[f] = NoEntry /\ ~(fd_table[f] > 1)
      BY <2>2, <2>3
    <3> QED BY <1>5, <2>1, <3>1, <3>3, <3>4
  <2> QED BY <1>6, <1>8, <2>1, <2>2, <2>3
<1> QED BY <1>9, <1>10, <1>11, <1>12, <1>13 DEF Consumer

-----------------------------------------------------------------------------
(* The invariant, and what it says when the tracer has caught up.           *)

(* The invariant holds initially: the table is empty, and the trace has not *)
(* allocated anything.                                                      *)
LEMMA ReportInit == Init => ReportInv
<1> SUFFICES ASSUME Init PROVE ReportInv
  OBVIOUS
<1>1. PendingInv
  BY InitType DEF Init, PendingInv, PendingOf, InNoCall, Idle
<1>2. OwnerInv
  <2>1. /\ held = {0} /\ fd_table[0] = 1 /\ allocs = 1
        /\ \A t \in Tid : thread[t].at = "user" /\ thread[t].name = "none"
    BY ZeroFd DEF Init, Idle
  <2>2. \A t \in Tid : Answered(t) /\ \A f \in Fd : ~Owns(t, f)
    BY <2>1 DEF Owns, Answered
  <2> QED BY <2>1, <2>2 DEF OwnerInv
<1>3. RememberInv
  BY TracerAssumption DEF Init, RememberInv, Remembered, Idle
<1>4. ClosingTold
  BY DEF Init, ClosingTold, Closes, Idle
<1>5. \A f \in Fd : ToldTrue(f) /\ ToldAll(f)
  <2>1. ring = <<>> /\ \A f \in Fd : open_fds[f] = NoEntry /\ fd_table[f] \in {0, 1}
    BY DEF Init
  <2>2. \A f \in Fd : LastWordIs(ring, open_fds[f], f, fd_table[f])
    BY <2>1 DEF LastWordIs
  <2> QED BY <2>1, <2>2 DEF ToldTrue, ToldAll
<1> QED BY <1>1, <1>2, <1>3, <1>4, <1>5 DEF ReportInv

(* The invariant is inductive.                                              *)
LEMMA ReportInductive == ReportInv /\ [Next]_vars => ReportInv'
<1> SUFFICES ASSUME ReportInv, [Next]_vars PROVE ReportInv'
  OBVIOUS
<1>0. PendingInv /\ OwnerInv /\ RememberInv /\ TypeOK /\ (~missed => Reports)
  BY DEF ReportInv, PendingInv, Reports
<1>1. PendingInv' /\ OwnerInv' /\ RememberInv'
  BY <1>0, PendingInductive, OwnerInductive, RememberInductive
<1>2. ASSUME ~missed' PROVE ~missed /\ Reports'
  <2>1. ~missed
    <3>1. CASE EnterExitGroup \/ Stop \/ Reported \/ UNCHANGED vars
      BY <1>2, <3>1 DEF EnterExitGroup, Stop, Reported, vars, bpf
    <3>2. CASE Consumer
      BY <1>2, <3>2 DEF Consumer, HandleOpen, HandleClose, HandleCloseRange, HandleExec,
                        HandleExit, Consume
    <3>3. ASSUME NEW t \in Tid, Enter(t) PROVE ~missed
      BY <1>2, <3>3 DEF Enter, EnterOpen, EnterDup2, EnterFcntl, EnterClose,
                        EnterCloseRange, EnterExec, Remember, Emit, bpf
    <3>4. ASSUME NEW t \in Tid, Kernel(t) PROVE ~missed
      BY <1>2, <3>4 DEF Kernel, RunFails, RunOpen, RunPipe, RunDup2, RunFcntl, RunClose,
                        RunCloseRange, KillOthers, RunExec, Returns, bpf
    <3>5. ASSUME NEW t \in Tid, Exit(t) PROVE ~missed
      BY <1>2, <3>5 DEF Exit, ExitOpen, ExitFcntl, ExitPipe, ExitCloseRange, ExitExec,
                        ExitFailed, FailureReported, ExitThread, NoEmit, Emit, EmitBoth, bpf
    <3> QED BY <3>1, <3>2, <3>3, <3>4, <3>5 DEF Next
  <2>2. Reports
    BY <1>0, <2>1
  <2>3. ASSUME NEW t \in Tid, Enter(t) \/ Kernel(t) \/ Exit(t) PROVE Reports'
    BY <1>0, <1>2, <2>1, <2>2, <2>3, EnterReports, KernelReports, ExitReports
  <2>4. ASSUME Consumer PROVE Reports'
    BY <1>0, <2>2, <2>4, ConsumerReports
  <2>5. ASSUME EnterExitGroup \/ Stop \/ Reported \/ UNCHANGED vars PROVE Reports'
    <3>1. UNCHANGED <<fd_table, thread, ring, mistaken, open_fds, forgotten>>
      BY <2>5 DEF EnterExitGroup, Stop, Reported, vars, target, bpf, user
    <3>2. /\ \A t, f : /\ Says(t, f)' <=> Says(t, f)
                       /\ Ranges(t, f)' <=> Ranges(t, f)
                       /\ Closes(t, f)' <=> Closes(t, f)
          /\ \A t : ExecReturns(t)' <=> ExecReturns(t)
      BY <3>1 DEF Says, Ranges, Closes, ExecReturns
    <3> QED BY <2>2, <3>1, <3>2 DEF Reports, ClosingTold, ToldTrue, ToldAll
  <2> QED BY <2>1, <2>3, <2>4, <2>5 DEF Next
<1> QED BY <1>1, <1>2 DEF ReportInv, Reports

(* No false leak and no false owner, once the tracer has caught up, for     *)
(* every number of threads, descriptors and calls, except of a number that  *)
(* an fcntl returned after a failed pipe.                                   *)
THEOREM NoFalseLeak == Spec => []AccurateReport
<1>1. ReportInv => AccurateReport
  <2> SUFFICES ASSUME ReportInv, Settled, NEW f \in Fd \ mistaken, open_fds[f] # NoEntry
               PROVE  open_fds[f].id = fd_table[f] /\ open_fds[f].target = fd_table[f]
    BY DEF AccurateReport
  <2>1. ToldTrue(f) /\ ring = <<>> /\ \A t \in Tid : thread[t].at \in {"user", "dead"}
    BY DEF ReportInv, Settled
  <2>2. LastWordIs(ring, open_fds[f], f, fd_table[f])
    BY <2>1 DEF ToldTrue, Says, Ranges, ExecReturns, ExecAfter
  <2>3. QuietFrom(ring, 1, f)
    BY <2>1 DEF QuietFrom
  <2> QED BY <2>2, <2>3 DEF LastWordIs
<1> QED BY <1>1, ReportInit, ReportInductive, PTL DEF Spec

(* No missed leak, once the tracer has caught up, except for what an exit   *)
(* or a close_range event took out of the table and what an fcntl's result  *)
(* was taken for: for every number of threads, descriptors and calls.       *)
THEOREM NoMissedLeak == Spec => []CompleteButForgotten
<1>1. ReportInv => CompleteButForgotten
  <2> SUFFICES ASSUME ReportInv, Settled, NEW f \in Fd \ mistaken, fd_table[f] > 1
               PROVE  open_fds[f].id = fd_table[f] \/ fd_table[f] \in forgotten
    BY DEF CompleteButForgotten
  <2>1. ToldAll(f) /\ ring = <<>> /\ \A t \in Tid : thread[t].at \in {"user", "dead"}
    BY DEF ReportInv, Settled
  <2>2. \A t \in Tid : ~Says(t, f) /\ ~Closes(t, f)
    BY <2>1 DEF Says, Closes
  <2>3. Said(ring, open_fds[f], f, fd_table[f]) \/ fd_table[f] \in forgotten
    BY <2>1, <2>2 DEF ToldAll
  <2> QED BY <2>1, <2>3 DEF Said
<1> QED BY <1>1, ReportInit, ReportInductive, PTL DEF Spec
=============================================================================
