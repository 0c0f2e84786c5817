----------------------------- MODULE EventSinks -----------------------------
(***************************************************************************)
(* The observers behind EventPipeline of mini-strace: Summary              *)
(* (summary.cpp), IoLatencySummary (io_latency.cpp), NetworkSummary        *)
(* (net_trace.cpp), ProcessSummary (process_trace.cpp) and DenyExplainer   *)
(* (deny_explainer.cpp).  An event is a record of StateTracker with, added *)
(* by the loop, `pid', the context `ctx' it is printed with, `injected'    *)
(* and `traced' (its entry was a seccomp stop).  Counters are bags;        *)
(* durations, sizes of reads and the tables' layout are left out.          *)
(***************************************************************************)
EXTENDS StateTracker, Bags

LOCAL INSTANCE BagsExt

Failed(ev) == ~Succeeded(ev)
Has(ctx) == ctx.path # NoPath
Copies(bag, x) == IF BagIn(x, bag) THEN bag[x] ELSE 0

\* How many elements a bag has, as a sum over them.
Count(bag) == MapThenSumSet(LAMBDA x : bag[x], BagToSet(bag))

-----------------------------------------------------------------------------
(* Summary: counts per call, paths not found, writes per path, waits.      *)

EmptySummary ==
  [calls |-> EmptyBag, errors |-> EmptyBag, misses |-> EmptyBag, writes |-> EmptyBag,
   interrupted |-> EmptyBag]

AddIf(cond, bag, key) == IF cond THEN BagAdd(bag, key) ELSE bag

ObserveSummary(s, ev) ==
  [calls |-> BagAdd(s.calls, ev.name),
   errors |-> AddIf(Failed(ev), s.errors, ev.name),
   misses |-> AddIf(ev.err = "ENOENT" /\ ev.name = "open" /\ ev.arg # NoPath, s.misses, ev.arg),
   writes |-> AddIf(ev.name = "write" /\ Has(ev.ctx), s.writes, ev.ctx.path),
   interrupted |-> AddIf(ev.err = "EINTR", s.interrupted, ev.name)]

-----------------------------------------------------------------------------
(* IoLatencySummary: one sample per call name, descriptor and path.        *)

IsIoSyscall(name) == name \in {"write", "open", "close", "connect", "accept"}

EmptyLatency == [syscall |-> EmptyBag, fd |-> EmptyBag, path |-> EmptyBag]

\* An open that failed has no descriptor, every other call has one.
FdLabel(ev) ==
  IF ev.ctx # NoContext /\ ev.on # {} THEN {NewFd(ev)}
  ELSE IF ev.name = "open" THEN IF Failed(ev) THEN {} ELSE {NewFd(ev)}
  ELSE {ev.fd}

PathLabel(ev) ==
  IF Has(ev.ctx) THEN {ev.ctx.path}
  ELSE IF ev.name = "open" THEN {IF ev.arg # NoPath THEN ev.arg ELSE "<unknown-path>"}
  ELSE {}

\* Fault: failed calls are left out.
LatencyOfSuccess(s, ev) ==
  IF ~IsIoSyscall(ev.name) \/ Failed(ev) THEN s
  ELSE [syscall |-> BagAdd(s.syscall, ev.name),
        fd |-> s.fd (+) SetToBag(FdLabel(ev)),
        path |-> s.path (+) SetToBag(PathLabel(ev))]

ObserveLatency(s, ev) ==
  IF ~IsIoSyscall(ev.name) THEN s
  ELSE [syscall |-> BagAdd(s.syscall, ev.name),
        fd |-> s.fd (+) SetToBag(FdLabel(ev)),
        path |-> s.path (+) SetToBag(PathLabel(ev))]

-----------------------------------------------------------------------------
(* NetworkSummary: a record per process and descriptor number, which no    *)
(* close ends and a new socket of the same number inherits.                *)

IsNetworkSyscall(name) == name \in {"socket", "connect", "accept", "sendto"}

EmptyNetwork == [calls |-> EmptyBag, sockets |-> <<>>]
NewSocket == [made |-> FALSE, peer |-> NoPath, sends |-> 0, errors |-> 0]

\* Every attempt to send, over all records.
Attempts(net) ==
  MapThenSumSet(LAMBDA key : net.sockets[key].sends + net.sockets[key].errors, DOMAIN net.sockets)

SocketFor(net, key) == IF key \in DOMAIN net.sockets THEN net.sockets[key] ELSE NewSocket

Put(net, ev, key, socket) ==
  [calls |-> BagAdd(net.calls, ev.name), sockets |-> Remember(net.sockets, {key}, socket)]

ObserveNetwork(net, ev) ==
  LET own == <<ev.pid, ev.fd>>
      new == <<ev.pid, NewFd(ev)>>
      s == SocketFor(net, own)
      counted == [net EXCEPT !.calls = BagAdd(@, ev.name)]
  IN IF ~IsNetworkSyscall(ev.name) THEN net
     ELSE IF ev.name = "sendto"
       THEN Put(net, ev, own, IF Failed(ev) THEN [s EXCEPT !.errors = @ + 1]
                              ELSE [s EXCEPT !.sends = @ + 1])
     ELSE IF Failed(ev) THEN counted
     ELSE CASE ev.name = "socket" -> Put(net, ev, new, [SocketFor(net, new) EXCEPT !.made = TRUE])
            [] ev.name = "connect" -> Put(net, ev, own, [s EXCEPT !.peer = ev.arg])
            [] ev.name = "accept" -> Put(net, ev, new, [SocketFor(net, new) EXCEPT !.peer = ev.arg])

-----------------------------------------------------------------------------
(* ProcessSummary: children, execs and failures of the process calls.      *)

EmptyProcess == [children |-> {}, execs |-> 0, errors |-> 0]

ObserveProcess(s, ev) ==
  IF ev.name \notin {"fork", "execve"} THEN s
  ELSE IF Failed(ev) THEN [s EXCEPT !.errors = @ + 1]
  ELSE IF ev.name = "fork" THEN [s EXCEPT !.children = @ \cup {<<ev.pid, ev.arg>>}]
  ELSE [s EXCEPT !.execs = @ + 1]

-----------------------------------------------------------------------------
(* DenyExplainer: the first rule that applies names the cause.             *)

IsInterestingErrno(err) ==
  err \in {"EPERM", "EACCES", "ENOSYS", "EINVAL", "ENOENT", "ENOTDIR", "ELOOP", "EISDIR", "EROFS"}

IsPathSyscall(name) == name \in {"open", "execve"}
CannotFailWithEperm(name) == name = "getpid"

\* The path lookup failed, or the path is denied; "none" when neither.
ExplainPathAccess(ev) ==
  IF ~IsPathSyscall(ev.name) \/ ev.arg = NoPath THEN "none"
  ELSE IF ev.err \in {"ENOENT", "ENOTDIR", "ELOOP"} THEN "missing_path"
  ELSE IF ev.err \in {"EACCES", "EPERM", "EISDIR", "EROFS"} THEN "path_access"
  ELSE "none"

ExplainPolicy(err) ==
  IF err \in {"EPERM", "EACCES"} THEN "permission_policy"
  ELSE IF err = "ENOSYS" THEN "syscall_unavailable"
  ELSE "none"

\* Fault: an error of no interest is dropped before it is known to be injected.
InjectedFirst(ev) == ev.injected /\ ev.err \in {"EPERM", "EACCES"}

IsInjected(ev) == ev.injected

Explain(ev) ==
  CASE Succeeded(ev) -> "none"
    [] Failed(ev) /\ IsInjected(ev) -> "injected_fault"
    [] Failed(ev) /\ ~IsInjected(ev) ->
         IF ~IsInterestingErrno(ev.err) THEN "none"
         ELSE IF ev.traced THEN "maybe_seccomp"
         ELSE IF ev.err \in {"EPERM", "ENOSYS"} /\ CannotFailWithEperm(ev.name)
           THEN "maybe_seccomp"
         ELSE IF ExplainPathAccess(ev) # "none" THEN ExplainPathAccess(ev)
         ELSE IF ev.err = "EINVAL" THEN "invalid_argument"
         ELSE ExplainPolicy(ev.err)
=============================================================================
