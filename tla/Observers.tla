------------------------------ MODULE Observers ------------------------------
(***************************************************************************)
(* From a completed call to what mini-strace says about it: emit_event     *)
(* (trace_loop.cpp) feeds the state tracker, then the filter, then the     *)
(* sinks.  Beside it runs what the tracker tries to follow: the kernel's   *)
(* descriptor table of each process.                                       *)
(*                                                                         *)
(* A thread executes a call in the kernel and stays in its exit stop until *)
(* the tracer reports it; the stops of several threads are served in any   *)
(* order.  Threads of Forked belong to a process that root's fork creates. *)
(*                                                                         *)
(* `doubt' names the descriptors of the root process of which the tracker  *)
(* may know nothing certain, and `fuzzy' those whose close-on-exec flag it *)
(* may have wrong; both are defined by what the program did, never by what *)
(* the tracker holds.                                                      *)
(*                                                                         *)
(* Bound: MaxCalls calls of all threads together.                          *)
(***************************************************************************)
EXTENDS EventSinks

CONSTANTS
  Fd,         \* descriptor numbers; an allocation takes the lowest free one
  Path,       \* paths of files
  Thread,     \* the traced threads
  Forked,     \* those of the forked process
  Uses,       \* the calls the program makes
  Failures,   \* calls that may fail, with the errno
  Options,    \* the options to try: filter, where {} lets every call pass, raw, and bpf
  MaxCalls

ASSUME ObserversAssumption ==
  /\ Fd \subseteq Nat /\ IsFiniteSet(Fd) /\ Fd # {}
  /\ Forked \subseteq Thread /\ Forked # Thread
  /\ Uses \cap {"none", "dead", "exec_event"} = {}
  /\ \A failure \in Failures : failure[2] # "ok"
  /\ \A o \in Options : /\ o.filter \subseteq Uses /\ o.raw \in BOOLEAN /\ o.bpf \in BOOLEAN
                       /\ o.bpf => o.filter # {}
  /\ MaxCalls \in Nat

VARIABLES
  table,     \* process -> its descriptors: what they refer to, and their flag
  call,      \* thread -> the call it has executed and that is not reported
  calls,     \* how many were executed
  fds,       \* StateTracker fds_
  options,   \* the options of this run: filter, raw, bpf
  summary, latency, network, process,   \* the sinks
  reported,  \* TraceResult events
  last,      \* the last event printed
  doubt, fuzzy  \* see above

kernel == <<table, call, calls>>
sinks == <<summary, latency, network, process, reported>>
vars == <<kernel, fds, options, sinks, last, doubt, fuzzy>>

Nothing == [name |-> "none"]
Pid(t) == IF t \in Forked THEN "child" ELSE "root"
Tab(t) == table[Pid(t)]
Descriptor(kind, obj, cloexec) ==
  [kind |-> kind, obj |-> obj, peer |-> NoPath, cloexec |-> cloexec, own |-> kind = "socket"]
Free(t) == Fd \ DOMAIN Tab(t)
Lowest(t) == Min(Free(t))
InKernel(t) == call[t].name \notin {"none", "dead"}
Alive(t) == call[t].name # "dead"

\* The descriptors a call has changed, or looks at.
Touched(ev) == IF ev.name \in {"none", "dead"} THEN {} ELSE ev.on \cup {ev.fd}
Changed(ev) == IF ev.name \in {"none", "dead"} THEN {} ELSE ev.on

-----------------------------------------------------------------------------
(* The kernel executes a call.                                             *)

Event(name, fd, on, flag, arg) ==
  [name |-> name, fd |-> fd, on |-> on, flag |-> flag, arg |-> arg, err |-> "ok",
   injected |-> FALSE, cause |-> "none", truth |-> NoPath, shaky |-> FALSE]

\* Calls of two threads of one process are under way for one descriptor, and one
\* of the two changes it: which one the tracer sees first is open.
Clash(ev, other) ==
  (Changed(ev) \cap Touched(other)) \cup (Changed(other) \cap Touched(ev)) # {}

Execute(t, ev, tab) ==
  LET rivals == {u \in Thread \ {t} : Pid(u) = Pid(t) /\ Clash(ev, call[u])}
  IN  /\ ev.name \in Uses
      /\ calls' = calls + 1
      /\ table' = [table EXCEPT ![Pid(t)] = tab]
      /\ call' = [u \in Thread |->
                    IF u = t THEN [ev EXCEPT !.shaky = rivals # {}]
                    ELSE IF u \in rivals THEN [call[u] EXCEPT !.shaky = TRUE]
                    ELSE call[u]]
      /\ UNCHANGED <<fds, options, sinks, last, doubt, fuzzy>>

Open(t) ==
  \E p \in Path, flag \in BOOLEAN :
    /\ Free(t) # {}
    /\ Execute(t, Event("open", -1, {Lowest(t)}, flag, p),
         Remember(Tab(t), {Lowest(t)}, Descriptor("file", p, flag)))

\* eventfd, epoll_create, a descriptor received by a message: not followed.
Create(t) ==
  /\ Free(t) # {}
  /\ Execute(t, Event("eventfd", -1, {Lowest(t)}, FALSE, NoPath),
       Remember(Tab(t), {Lowest(t)}, Descriptor("anon", "unfollowed", FALSE)))

Socket(t) ==
  \E flag \in BOOLEAN :
    /\ Free(t) # {}
    /\ Execute(t, Event("socket", -1, {Lowest(t)}, flag, NoPath),
         Remember(Tab(t), {Lowest(t)}, Descriptor("socket", "socket", flag)))

Pipe(t) ==
  \E flag \in BOOLEAN :
    /\ Cardinality(Free(t)) > 1
    /\ LET new == {Lowest(t), Min(Free(t) \ {Lowest(t)})}
       IN  Execute(t, Event("pipe", -1, new, flag, NoPath),
             Remember(Tab(t), new, Descriptor("pipe", "pipe", flag)))

Close(t) ==
  \E f \in DOMAIN Tab(t) :
    Execute(t, Event("close", f, {f}, FALSE, NoPath), Forget(Tab(t), {f}))

CloseRange(t) ==
  \E flag \in BOOLEAN, low \in Fd :
    LET range == {f \in Fd : f >= low}
        marked == [f \in DOMAIN Tab(t) |->
                     IF f \in range THEN [Tab(t)[f] EXCEPT !.cloexec = TRUE] ELSE Tab(t)[f]]
    IN  Execute(t, Event("close_range", low, range, flag, NoPath),
          IF flag THEN marked ELSE Forget(Tab(t), range))

\* A copy refers to what the source does; its flag is its own.  `truth' keeps
\* what the source is, for the sake of `doubt'.
Copy(t, name, source, target, given, kept) ==
  LET d == [Tab(t)[source] EXCEPT !.cloexec = given, !.own = FALSE]
  IN  Execute(t, [Event(name, source, {target}, kept, NoPath) EXCEPT !.truth = d.obj],
        Remember(Tab(t), {target}, d))

\* The kernel clears the flag of the copy; `flag' is that of the source.
Dup(t) ==
  \E f \in DOMAIN Tab(t) :
    Free(t) # {} /\ Copy(t, "dup", f, Lowest(t), FALSE, Tab(t)[f].cloexec)

Dup2(t) ==
  \E f \in DOMAIN Tab(t), g \in Fd, flag \in BOOLEAN :
    f # g /\ Copy(t, "dup2", f, g, flag, flag)

FcntlDup(t) ==
  \E f \in DOMAIN Tab(t), flag \in BOOLEAN :
    Free(t) # {} /\ Copy(t, "fcntl_dup", f, Lowest(t), flag, flag)

SetFd(t) ==
  \E f \in DOMAIN Tab(t), flag \in BOOLEAN :
    Execute(t, Event("fcntl_setfd", f, {f}, flag, NoPath),
      [Tab(t) EXCEPT ![f].cloexec = flag])

Connect(t) ==
  \E f \in DOMAIN Tab(t), p \in Path :
    /\ Tab(t)[f].kind = "socket" /\ Tab(t)[f].peer = NoPath
    /\ Execute(t, Event("connect", f, {f}, FALSE, p), [Tab(t) EXCEPT ![f].peer = p])

Accept(t) ==
  \E f \in DOMAIN Tab(t), flag \in BOOLEAN, p \in Path :
    /\ Tab(t)[f].kind = "socket" /\ Free(t) # {}
    /\ Execute(t, Event("accept", f, {Lowest(t)}, flag, p),
         Remember(Tab(t), {Lowest(t)}, [Descriptor("socket", "socket", flag) EXCEPT !.peer = p]))

\* A call that only uses its descriptor: write, sendto, or mmap of a file.
Use(t) ==
  \E name \in {"write", "sendto", "mmap"}, f \in DOMAIN Tab(t) :
    /\ name = "sendto" => Tab(t)[f].kind = "socket"
    /\ name = "mmap" => Tab(t)[f].kind = "file"
    /\ Execute(t, [Event(name, f, {}, FALSE, NoPath) EXCEPT !.truth = Tab(t)[f].obj], Tab(t))

\* A call fails: in the kernel, by a filter of the target's own, or because
\* mini-strace injects the error and the kernel executes nothing.
Fail(t) ==
  \E failure \in Failures, p \in Path, cause \in {"kernel", "filter", "injected"} :
    LET name == failure[1]
        err == failure[2]
    IN  /\ cause = "filter" => err = "EPERM"
        /\ name = "getpid" => cause # "kernel"
        /\ Execute(t, [Event(name, -1, {}, FALSE, IF name = "open" THEN p ELSE NoPath)
                         EXCEPT !.err = err, !.injected = cause = "injected", !.cause = cause],
             Tab(t))

\* The child gets a copy of the table.
Fork(t) ==
  /\ Forked # {} /\ Pid(t) = "root"
  /\ \A u \in Forked : call[u].name = "dead"
  /\ "fork" \in Uses
  /\ calls' = calls + 1
  /\ table' = [table EXCEPT !["child"] = table["root"]]
  /\ call' = [u \in Thread |->
                IF u = t THEN Event("fork", -1, {}, FALSE, "child")
                ELSE IF u \in Forked THEN Nothing ELSE call[u]]
  /\ UNCHANGED <<fds, options, sinks, last, doubt, fuzzy>>

\* An exec ends the other threads of the process, whose exit stops are then
\* never served, and closes what is marked.
Exec(t) ==
  LET lost == UNION {Changed(call[u]) : u \in {v \in Thread \ {t} : Pid(v) = Pid(t)}}
  IN  /\ "execve" \in Uses
      /\ calls' = calls + 1
      /\ table' = [table EXCEPT ![Pid(t)] =
                     Forget(@, {f \in DOMAIN @ : @[f].cloexec})]
      /\ call' = [u \in Thread |->
                    IF u = t THEN Event("exec_event", -1, Fd, FALSE, NoPath)
                    ELSE IF Pid(u) = Pid(t) THEN [Nothing EXCEPT !.name = "dead"]
                    ELSE call[u]]
      /\ doubt' = doubt \cup lost
      /\ UNCHANGED <<fds, options, sinks, last, fuzzy>>

-----------------------------------------------------------------------------
(* The tracer serves a stop.                                               *)

\* PTRACE_EVENT_EXEC comes before the exit stop of execve.  One table stands
\* for all processes: the exec of another process marks all of it doubtful.
ExecStop(t) ==
  /\ call[t].name = "exec_event"
  /\ fds' = OnExec(fds)
  /\ doubt' = IF Pid(t) = "root" THEN doubt \cup fuzzy ELSE Fd
  /\ call' = [call EXCEPT ![t] = Event("execve", -1, {}, FALSE, "prog")]
  /\ UNCHANGED <<table, calls, options, sinks, last, fuzzy>>

\* What the program's call leaves open about its descriptors, see `doubt'.
DoubtAfter(t, ev) ==
  LET spreads == \/ Pid(t) # "root" \/ ev.shaky
                 \/ ev.name \in {"dup", "dup2", "fcntl_dup"} /\ ev.fd \in doubt
                 \/ ev.name = "dup2" /\ ev.truth = "unfollowed"
      stays == \/ ev.name = "dup" /\ ev.truth = "unfollowed"
               \/ ev.name = "close_range" /\ ev.flag
               \/ ev.name \in {"fcntl_setfd", "connect", "eventfd"}
  IN  IF spreads THEN doubt \cup ev.on ELSE IF stays THEN doubt ELSE doubt \ ev.on

FuzzyAfter(ev) ==
  CASE ev.name \in {"socket", "accept"} /\ ev.flag -> fuzzy \cup ev.on
    [] ev.name = "dup" /\ (ev.flag \/ ev.fd \in fuzzy) -> fuzzy \cup ev.on
    [] ev.name = "connect" -> fuzzy
    [] OTHER -> fuzzy \ ev.on

PassesFilter(name) == options.filter = {} \/ name \in options.filter

\* With --seccomp-bpf the kernel stops the calls of the filter, except those that a
\* filter of the target's own denies; a fork and an execve are resumed at their event
\* with PTRACE_CONT, and have no exit stop.
ExitStops(ev) ==
  options.bpf =>
    ev.name \in options.filter \ {"fork", "execve"} /\ ev.cause # "filter"

\* mutate and observe of the pipeline.
Observe(ev) ==
  /\ summary' = ObserveSummary(summary, ev)
  /\ latency' = ObserveLatency(latency, ev)
  /\ network' = ObserveNetwork(network, ev)
  /\ process' = ObserveProcess(process, ev)
  /\ reported' = reported + 1

\* emit_event.
Report(t) ==
  /\ InKernel(t) /\ call[t].name # "exec_event" /\ ExitStops(call[t])
  /\ LET ev == call[t]
         printed == [name |-> ev.name, fd |-> ev.fd, on |-> ev.on, flag |-> ev.flag,
                     arg |-> PathOf(ev, options.raw), err |-> ev.err,
                     injected |-> ev.injected, pid |-> Pid(t),
                     traced |-> options.bpf,
                     ctx |-> EventContext(fds, ev, options.raw)]
     IN  /\ fds' = Applied(fds, ev, options.raw)
         /\ doubt' = IF Succeeded(ev) THEN DoubtAfter(t, ev) ELSE doubt
         /\ fuzzy' = IF Succeeded(ev) THEN FuzzyAfter(ev) ELSE fuzzy
         /\ IF PassesFilter(ev.name)
              THEN /\ Observe(printed)
                   /\ last' = [name |-> ev.name, path |-> printed.ctx.path, truth |-> ev.truth,
                               sure |-> Pid(t) = "root" /\ ~ev.shaky /\ ev.fd \notin doubt,
                               why |-> Explain(printed), cause |-> ev.cause, err |-> ev.err,
                               arg |-> printed.arg]
              ELSE UNCHANGED <<sinks, last>>
         /\ call' = [call EXCEPT ![t] = Nothing]
         /\ UNCHANGED <<table, calls, options>>

\* The thread goes on without an exit stop: the tracker does not learn of the call.
Unseen(t) ==
  /\ InKernel(t) /\ call[t].name # "exec_event" /\ ~ExitStops(call[t])
  /\ call' = [call EXCEPT ![t] = Nothing]
  /\ doubt' = doubt \cup call[t].on
  /\ UNCHANGED <<table, calls, fds, options, sinks, last, fuzzy>>

-----------------------------------------------------------------------------

\* An attached process is seeded with the links of /proc/<pid>/fd; a launched one, the
\* only one --seccomp-bpf is for, has inherited a descriptor that the tracker has no
\* entry for.
Init ==
  /\ options \in Options
  /\ \E links \in [{Min(Fd)} -> [kind : {"file"}, path : Path]], flag \in BOOLEAN :
       \/ /\ ~options.bpf
          /\ table = [p \in {"root", "child"} |->
                        [f \in DOMAIN links |-> Descriptor("file", links[f].path, flag)]]
          /\ fds = SeedFromProc(links)
          /\ fuzzy = IF flag THEN DOMAIN links ELSE {}
       \/ /\ table = [p \in {"root", "child"} |->
                        [f \in DOMAIN links |-> Descriptor("anon", "unfollowed", FALSE)]]
          /\ fds = <<>>
          /\ fuzzy = {}
  /\ call = [t \in Thread |-> IF t \in Forked THEN [Nothing EXCEPT !.name = "dead"] ELSE Nothing]
  /\ calls = 0
  /\ summary = EmptySummary /\ latency = EmptyLatency
  /\ network = EmptyNetwork /\ process = EmptyProcess
  /\ reported = 0
  /\ last = Nothing
  /\ doubt = {}

\* A thread that is not in a stop makes a call.
MakeCall(t) ==
  /\ call[t] = Nothing /\ calls < MaxCalls
  /\ \/ Open(t) \/ Create(t) \/ Socket(t) \/ Pipe(t) \/ Close(t) \/ CloseRange(t)
     \/ Dup(t) \/ Dup2(t) \/ FcntlDup(t) \/ SetFd(t)
     \/ Connect(t) \/ Accept(t) \/ Use(t) \/ Fail(t) \/ Fork(t) \/ Exec(t)

Next == \E t \in Thread : MakeCall(t) \/ ExecStop(t) \/ Report(t) \/ Unseen(t)

Spec == Init /\ [][Next]_vars

-----------------------------------------------------------------------------
(* Properties.                                                             *)

\* The descriptors of root that no call is under way for, and that the tracker
\* should know for certain.
Certain == Fd \ (doubt \cup UNION {Touched(call[t]) : t \in {u \in Thread : Pid(u) = "root"}})

\* Once its calls are reported, the tracker has an entry for every descriptor the
\* program got by a call it follows, names the right file, and has none for a
\* descriptor that is closed (state.cpp, apply and on_exec).  Excepted are the
\* descriptors in doubt: see DoubtAfter, Exec and ExecStop for all the reasons.
TableAgrees ==
  \A f \in Certain :
    /\ f \in DOMAIN fds =>
         /\ f \in DOMAIN table["root"]
         /\ fds[f].path \in {table["root"][f].obj, NoPath, "fd"}
    /\ f \in DOMAIN table["root"] /\ table["root"][f].obj # "unfollowed" => f \in DOMAIN fds

\* The close-on-exec flag is the kernel's, whatever dup, F_SETFD and close_range did
\* to it, unless it was set by a call whose flags the tracker does not read (a
\* socket's) or copied by dup, which the kernel does not do.
CloexecAgrees ==
  \A f \in (Certain \cap DOMAIN fds) \ fuzzy :
    f \in DOMAIN table["root"] => fds[f].cloexec = table["root"][f].cloexec

\* A write or a mapping is attributed to the file that its descriptor referred to
\* when the kernel executed it, although the table is looked up at the exit stop.
ContextTrue ==
  last.name \in {"write", "mmap", "sendto"} /\ last.sure /\ last.err = "ok" =>
    last.path \in {last.truth, NoPath, "fd"}

\* --explain-deny: an injected error is never taken for the kernel's, nor the other
\* way round, a denied call never goes without an explanation, and without
\* --seccomp-bpf seccomp is blamed only where a filter of the target's own denied the
\* call (deny_explainer.cpp, explain).
DenialsExplained ==
  last # Nothing /\ last.err # "ok" =>
    /\ (last.why = "injected_fault") = (last.cause = "injected")
    /\ last.why = "maybe_seccomp" => last.cause = "filter" \/ options.bpf
    /\ last.err \in {"EPERM", "EINVAL"} => last.why # "none"
    /\ last.why = "missing_path" => last.arg # NoPath

\* What README.md:49 of mini-strace promises of --explain-deny, whatever the other
\* options: it tells whether a denial comes from seccomp.
SeccompBlamedRightly ==
  last # Nothing /\ last.err # "ok" =>
    (last.why = "maybe_seccomp" => last.cause = "filter")

\* The sinks see every event that the filter lets pass, once, whatever the tracker
\* made of it: the counts add up, and the I/O sink attributes every write that the
\* summary attributes.  The records of --net, which are
\* keyed by numbers that are closed and used again, lose none of the sends.
SinksAgree ==
  /\ Count(summary.calls) = reported
  /\ \A name \in DOMAIN summary.calls :
       IsIoSyscall(name) => Copies(latency.syscall, name) = summary.calls[name]
  /\ \A p \in DOMAIN summary.writes : Copies(latency.path, p) >= summary.writes[p]
  /\ Count(network.calls) <= reported
  /\ Attempts(network) = Copies(network.calls, "sendto")
  /\ options.filter # {} => DOMAIN summary.calls \subseteq options.filter
=============================================================================
