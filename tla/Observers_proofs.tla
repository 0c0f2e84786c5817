---------------------------- MODULE Observers_proofs ----------------------------
(***************************************************************************)
(* What mini-strace believes of the traced program's descriptors, for      *)
(* every number of threads, descriptors and calls, and every order in      *)
(* which the exit stops are served: the state tracker agrees with the      *)
(* kernel wherever the program leaves no doubt, what it says of a call is  *)
(* true of the moment of that call, a denial is put down to its cause, and *)
(* the sinks count the same events.                                        *)
(***************************************************************************)
EXTENDS Observers, SetLemmas, FiniteSetTheorems, TLAPS

LOCAL INSTANCE BagsExt

-----------------------------------------------------------------------------
(* Shapes of the data.                                                     *)

(* An entry of the tracker, and a descriptor of the kernel.                *)
IsContext(c) == DOMAIN c = {"kind", "path", "peer", "cloexec", "known"}
IsDescriptor(d) ==
  /\ DOMAIN d = {"kind", "obj", "peer", "cloexec", "own"}
  /\ d.cloexec \in BOOLEAN
  /\ d.kind = "socket" => d.obj = "socket"

IsTable(T) == DOMAIN T \subseteq Fd /\ \A f \in DOMAIN T : IsDescriptor(T[f])

(* The calls that create, close or change a descriptor.                    *)
Changing == {"open", "eventfd", "socket", "pipe", "accept", "close", "close_range", "dup", "dup2",
             "fcntl_dup", "fcntl_setfd", "connect"}

(* Why a call failed.                                                      *)
CauseTrue(e) ==
  /\ e.injected = (e.cause = "injected")
  /\ e.cause \in {"kernel", "filter", "injected"}
  /\ e.name = "getpid" => e.cause # "kernel"

(* A call under way.  A failed one changed nothing; calls on a descriptor   *)
(* change that one.                                                        *)
IsEvent(e) ==
  /\ DOMAIN e = {"name", "fd", "on", "flag", "arg", "err", "injected", "cause", "truth", "shaky"}
  /\ e.name \notin {"none", "dead"}
  /\ e.on \subseteq Fd
  /\ e.shaky \in BOOLEAN /\ e.flag \in BOOLEAN
  /\ e.name \in Changing \cup {"exec_event"} \/ e.on = {}
  /\ ~Succeeded(e) => e.on = {} /\ CauseTrue(e)
  /\ Succeeded(e) /\ e.name \in {"connect", "close", "fcntl_setfd"} => e.on = {e.fd}

Dead == [name |-> "dead"]

TypeInv ==
  /\ DOMAIN table = {"root", "child"}
  /\ \A p \in {"root", "child"} : IsTable(table[p])
  /\ DOMAIN call = Thread
  /\ \A t \in Thread : call[t] = Nothing \/ call[t] = Dead \/ IsEvent(call[t])
  /\ \A f \in DOMAIN fds : IsContext(fds[f])

-----------------------------------------------------------------------------
(* What the tracker knows of one descriptor.                               *)

Knows(F, T, f) ==
  /\ f \in DOMAIN F => f \in DOMAIN T /\ F[f].path \in {T[f].obj, NoPath, "fd"}
  /\ f \in DOMAIN T /\ T[f].obj # "unfollowed" => f \in DOMAIN F

SameFlag(F, T, f) ==
  f \in DOMAIN F /\ f \in DOMAIN T => F[f].cloexec = T[f].cloexec

Root == {t \in Thread : Pid(t) = "root"}

(* The descriptors that no call under way has changed.                     *)
Settled == Fd \ (doubt \cup UNION {Changed(call[t]) : t \in Root})

(* What the kernel's table holds once a call is executed, for the           *)
(* descriptors of the call.                                                *)
KernelTrue(ev, T) ==
  /\ ev.name = "open" =>
       \A f \in ev.on : f \in DOMAIN T /\ T[f].obj = ev.arg /\ T[f].cloexec = ev.flag
  /\ ev.name = "eventfd" => \A f \in ev.on : f \in DOMAIN T /\ T[f].obj = "unfollowed"
  /\ ev.name \in {"socket", "accept"} =>
       \A f \in ev.on : f \in DOMAIN T /\ T[f].obj = "socket" /\ T[f].cloexec = ev.flag
  /\ ev.name = "pipe" =>
       \A f \in ev.on : f \in DOMAIN T /\ T[f].obj = "pipe" /\ T[f].cloexec = ev.flag
  /\ ev.name = "close" => \A f \in ev.on : f \notin DOMAIN T
  /\ ev.name = "close_range" =>
       \A f \in ev.on \cap DOMAIN T : ev.flag /\ T[f].cloexec = TRUE
  /\ ev.name \in {"dup", "dup2", "fcntl_dup"} =>
       /\ ev.fd \in DOMAIN T /\ T[ev.fd].obj = ev.truth /\ ev.fd \notin ev.on
       /\ \A f \in ev.on : f \in DOMAIN T /\ T[f].obj = ev.truth
                           /\ T[f].cloexec = (IF ev.name = "dup" THEN FALSE ELSE ev.flag)
       /\ ev.name = "dup" => T[ev.fd].cloexec = ev.flag
  /\ ev.name = "fcntl_setfd" => \A f \in ev.on : f \in DOMAIN T /\ T[f].cloexec = ev.flag
  /\ ev.name = "connect" => \A f \in ev.on : f \in DOMAIN T /\ T[f].obj # "unfollowed"
  /\ ev.name \in {"write", "sendto", "mmap"} =>
       ev.fd \in DOMAIN T /\ T[ev.fd].obj = ev.truth

(* What the tracker holds while such a call waits to be reported.          *)
TrackerTrue(ev, F, T, D, Z) ==
  \A f \in ev.on \ D :
    /\ ev.name \in {"eventfd", "dup"} => f \notin DOMAIN F
    /\ ev.name \in {"close_range", "fcntl_setfd", "connect"} /\ (ev.name = "close_range" => ev.flag) =>
         Knows(F, T, f)
    /\ ev.name = "connect" /\ f \notin Z => SameFlag(F, T, f)

(* A call of the root process that no other disturbs.                      *)
Clear(t) == t \in Root /\ InKernel(t) /\ ~call[t].shaky

SettledInv ==
  \A f \in Settled : Knows(fds, table["root"], f) /\ (f \notin fuzzy => SameFlag(fds, table["root"], f))

CallInv ==
  \A t \in Thread :
    /\ Clear(t) /\ Succeeded(call[t]) =>
         KernelTrue(call[t], table["root"]) /\ TrackerTrue(call[t], fds, table["root"], doubt, fuzzy)
    /\ Clear(t) => \A u \in Root \ {t} : ~Clash(call[t], call[u])

(* Between an exec and its stop the tracker still holds what the exec closed. *)
ExecWaits(t) ==
  /\ \A u \in Thread \ {t} : Pid(u) = Pid(t) => call[u].name = "dead"
  /\ call[t].err = "ok" /\ call[t].on = Fd
  /\ t \in Root =>
       \A f \in Fd \ (doubt \cup fuzzy) :
         /\ f \in DOMAIN fds /\ f \notin DOMAIN table["root"] => fds[f].cloexec
         /\ f \in DOMAIN fds /\ f \in DOMAIN table["root"] =>
              ~fds[f].cloexec /\ fds[f].cloexec = table["root"][f].cloexec
              /\ fds[f].path \in {table["root"][f].obj, NoPath, "fd"}
         /\ f \in DOMAIN table["root"] /\ table["root"][f].obj # "unfollowed" => f \in DOMAIN fds

ExecInv == \A t \in Thread : call[t].name = "exec_event" => ExecWaits(t)

TrackInv == TypeInv /\ SettledInv /\ CallInv /\ ExecInv

-----------------------------------------------------------------------------
(* What the kernel's execution of a call leaves.                           *)

LEMMA MinIsMember ==
  ASSUME NEW S \in SUBSET Nat, S # {}
  PROVE  Min(S) \in S
<1>1. PICK x \in S : \A y \in S : x <= y
  BY LeastNatural
<1> QED BY <1>1 DEF Min

LEMMA LowestIsFree ==
  ASSUME NEW t \in Thread, Free(t) # {}
  PROVE  Lowest(t) \in Fd /\ Lowest(t) \notin DOMAIN Tab(t)
BY MinIsMember, ObserversAssumption DEF Lowest, Free

(* What a call does to the table of its process: outside of its descriptors *)
(* nothing, and to them what KernelTrue says.                              *)
CallShape(ev, old, new) ==
  /\ IsEvent(ev) /\ ~ev.shaky /\ ev.name # "exec_event"
  /\ IsTable(new)
  /\ \A f \in Fd \ ev.on : f \in DOMAIN new <=> f \in DOMAIN old
  /\ \A f \in DOMAIN old \ ev.on : new[f] = old[f]
  /\ Succeeded(ev) => KernelTrue(ev, new)
  /\ ev.name \in {"eventfd", "dup"} => \A f \in ev.on : f \notin DOMAIN old
  /\ ev.name \in {"close_range", "fcntl_setfd", "connect"} /\ (ev.name = "close_range" => ev.flag) =>
       \A f \in ev.on : /\ f \in DOMAIN new <=> f \in DOMAIN old
                        /\ f \in DOMAIN old => new[f].obj = old[f].obj
                        /\ ev.name = "connect" /\ f \in DOMAIN old => new[f].cloexec = old[f].cloexec

Shaped(t) == \E ev, tab : Execute(t, ev, tab) /\ CallShape(ev, Tab(t), tab)

LEMMA TableOfThread ==
  ASSUME TypeInv, NEW t \in Thread
  PROVE  IsTable(Tab(t)) /\ Pid(t) \in DOMAIN table
BY DEF TypeInv, Tab, Pid

LEMMA OpenShape == ASSUME TypeInv, NEW t \in Thread, Open(t) PROVE Shaped(t)
<1>1. PICK p \in Path, flag \in BOOLEAN :
        /\ Free(t) # {}
        /\ Execute(t, Event("open", -1, {Lowest(t)}, flag, p),
             Remember(Tab(t), {Lowest(t)}, Descriptor("file", p, flag)))
  BY DEF Open
<1>2. CallShape(Event("open", -1, {Lowest(t)}, flag, p), Tab(t),
        Remember(Tab(t), {Lowest(t)}, Descriptor("file", p, flag)))
  BY <1>1, LowestIsFree, TableOfThread
  DEF CallShape, IsEvent, Changing, IsTable, IsDescriptor, KernelTrue, Event, Remember, Descriptor, Succeeded
<1> QED BY <1>1, <1>2 DEF Shaped

LEMMA CreateShape == ASSUME TypeInv, NEW t \in Thread, Create(t) PROVE Shaped(t)
<1>1. Free(t) # {}
  BY DEF Create
<1>2. CallShape(Event("eventfd", -1, {Lowest(t)}, FALSE, NoPath), Tab(t),
        Remember(Tab(t), {Lowest(t)}, Descriptor("anon", "unfollowed", FALSE)))
  BY <1>1, LowestIsFree, TableOfThread
  DEF CallShape, IsEvent, Changing, IsTable, IsDescriptor, KernelTrue, Event, Remember, Descriptor, Succeeded
<1> QED BY <1>2 DEF Shaped, Create

LEMMA SocketShape == ASSUME TypeInv, NEW t \in Thread, Socket(t) PROVE Shaped(t)
<1>1. PICK flag \in BOOLEAN :
        /\ Free(t) # {}
        /\ Execute(t, Event("socket", -1, {Lowest(t)}, flag, NoPath),
             Remember(Tab(t), {Lowest(t)}, Descriptor("socket", "socket", flag)))
  BY DEF Socket
<1>2. CallShape(Event("socket", -1, {Lowest(t)}, flag, NoPath), Tab(t),
        Remember(Tab(t), {Lowest(t)}, Descriptor("socket", "socket", flag)))
  BY <1>1, LowestIsFree, TableOfThread
  DEF CallShape, IsEvent, Changing, IsTable, IsDescriptor, KernelTrue, Event, Remember, Descriptor, Succeeded
<1> QED BY <1>1, <1>2 DEF Shaped

LEMMA PipeShape == ASSUME TypeInv, NEW t \in Thread, Pipe(t) PROVE Shaped(t)
<1> DEFINE new == {Lowest(t), Min(Free(t) \ {Lowest(t)})}
<1>1. PICK flag \in BOOLEAN :
        /\ Cardinality(Free(t)) > 1
        /\ Execute(t, Event("pipe", -1, new, flag, NoPath),
             Remember(Tab(t), new, Descriptor("pipe", "pipe", flag)))
  BY DEF Pipe
<1>2. Free(t) # {} /\ Free(t) # {Lowest(t)}
  <2>1. Cardinality({}) = 0 /\ Cardinality({Lowest(t)}) = 1
    BY FS_EmptySet, FS_Singleton
  <2>2. Cardinality(Free(t)) # 0 /\ Cardinality(Free(t)) # 1
    BY <1>1
  <2> QED BY <2>1, <2>2
<1>3. Free(t) \ {Lowest(t)} # {}
  BY <1>2
<1>4. new \subseteq Fd
  BY <1>2, <1>3, LowestIsFree, MinIsMember, ObserversAssumption DEF Free
<1>5. CallShape(Event("pipe", -1, new, flag, NoPath), Tab(t),
        Remember(Tab(t), new, Descriptor("pipe", "pipe", flag)))
  <2> HIDE DEF new
  <2> QED BY <1>4, TableOfThread
  DEF CallShape, IsEvent, Changing, IsTable, IsDescriptor, KernelTrue, Event, Remember, Descriptor, Succeeded
<1> QED BY <1>1, <1>5 DEF Shaped

LEMMA CloseShape == ASSUME TypeInv, NEW t \in Thread, Close(t) PROVE Shaped(t)
<1>1. PICK f \in DOMAIN Tab(t) : Execute(t, Event("close", f, {f}, FALSE, NoPath), Forget(Tab(t), {f}))
  BY DEF Close
<1>2. CallShape(Event("close", f, {f}, FALSE, NoPath), Tab(t), Forget(Tab(t), {f}))
  BY TableOfThread
  DEF CallShape, IsEvent, Changing, IsTable, IsDescriptor, KernelTrue, Event, Forget, Succeeded
<1> QED BY <1>1, <1>2 DEF Shaped

LEMMA CloseRangeShape == ASSUME TypeInv, NEW t \in Thread, CloseRange(t) PROVE Shaped(t)
<1> DEFINE range(low) == {f \in Fd : f >= low}
           marked(low) == [f \in DOMAIN Tab(t) |->
                             IF f \in range(low) THEN [Tab(t)[f] EXCEPT !.cloexec = TRUE] ELSE Tab(t)[f]]
           ev(flag, low) == Event("close_range", low, range(low), flag, NoPath)
<1>1. PICK flag \in BOOLEAN, low \in Fd :
        Execute(t, ev(flag, low), IF flag THEN marked(low) ELSE Forget(Tab(t), range(low)))
  BY DEF CloseRange
<1>2. range(low) \subseteq Fd
  OBVIOUS
<1>3. CASE flag
  <2>1. IsTable(marked(low)) /\ DOMAIN marked(low) = DOMAIN Tab(t)
    BY TableOfThread DEF IsTable, IsDescriptor
  <2>2. \A f \in DOMAIN Tab(t) \cap range(low) : marked(low)[f].cloexec = TRUE
    BY TableOfThread DEF IsTable, IsDescriptor
  <2>3. \A f \in DOMAIN Tab(t) \ range(low) : marked(low)[f] = Tab(t)[f]
    OBVIOUS
  <2>4. \A f \in DOMAIN Tab(t) : marked(low)[f].obj = Tab(t)[f].obj
    BY TableOfThread DEF IsTable, IsDescriptor
  <2>5. CallShape(ev(flag, low), Tab(t), marked(low))
    <3> HIDE DEF range, marked
    <3> QED BY <1>2, <1>3, <2>1, <2>2, <2>3, <2>4 DEF CallShape, IsEvent, Changing, KernelTrue, Event, Succeeded
  <2> QED BY <1>1, <1>3, <2>5 DEF Shaped
<1>4. CASE ~flag
  <2>1. CallShape(ev(flag, low), Tab(t), Forget(Tab(t), range(low)))
    <3> HIDE DEF range, marked
    <3> QED BY <1>2, <1>4, TableOfThread
        DEF CallShape, IsEvent, Changing, IsTable, IsDescriptor, KernelTrue, Event, Forget, Succeeded
  <2> QED BY <1>1, <1>4, <2>1 DEF Shaped
<1> QED BY <1>3, <1>4

(* The three ways to copy a descriptor.                                     *)
LEMMA CopyShape ==
  ASSUME TypeInv, NEW t \in Thread, NEW name \in {"dup", "dup2", "fcntl_dup"},
         NEW source \in DOMAIN Tab(t), NEW target \in Fd, source # target,
         NEW given \in BOOLEAN, NEW kept \in BOOLEAN, Copy(t, name, source, target, given, kept),
         name = "dup" => target \notin DOMAIN Tab(t) /\ ~given /\ kept = Tab(t)[source].cloexec,
         name # "dup" => given = kept
  PROVE  Shaped(t)
<1> DEFINE d == [Tab(t)[source] EXCEPT !.cloexec = given, !.own = FALSE]
           ev == [Event(name, source, {target}, kept, NoPath) EXCEPT !.truth = d.obj]
           tab == Remember(Tab(t), {target}, d)
<1>1. IsDescriptor(d) /\ d.obj = Tab(t)[source].obj /\ d.cloexec = given
  BY TableOfThread DEF IsTable, IsDescriptor
<1>2. IsTable(tab) /\ DOMAIN tab = DOMAIN Tab(t) \cup {target} /\ tab[target] = d
      /\ \A f \in DOMAIN Tab(t) \ {target} : tab[f] = Tab(t)[f]
  BY <1>1, TableOfThread DEF IsTable, Remember
<1>3. IsEvent(ev) /\ ev.name = name /\ ev.fd = source /\ ev.on = {target} /\ ev.flag = kept
      /\ ev.truth = d.obj /\ ~ev.shaky /\ Succeeded(ev)
  BY DEF IsEvent, Changing, Event, Succeeded
<1>4. CallShape(ev, Tab(t), tab)
  <2> HIDE DEF d, ev, tab
  <2> QED BY <1>1, <1>2, <1>3, TableOfThread DEF CallShape, KernelTrue, IsTable
<1>5. Execute(t, ev, tab)
  BY DEF Copy
<1> QED BY <1>4, <1>5 DEF Shaped

LEMMA DupShape == ASSUME TypeInv, NEW t \in Thread, Dup(t) PROVE Shaped(t)
<1>1. PICK f \in DOMAIN Tab(t) :
        Free(t) # {} /\ Copy(t, "dup", f, Lowest(t), FALSE, Tab(t)[f].cloexec)
  BY DEF Dup
<1>2. Tab(t)[f].cloexec \in BOOLEAN
  BY <1>1, TableOfThread DEF IsTable, IsDescriptor
<1> QED BY <1>1, <1>2, LowestIsFree, CopyShape

LEMMA Dup2Shape == ASSUME TypeInv, NEW t \in Thread, Dup2(t) PROVE Shaped(t)
BY CopyShape DEF Dup2

LEMMA FcntlDupShape == ASSUME TypeInv, NEW t \in Thread, FcntlDup(t) PROVE Shaped(t)
<1>1. PICK f \in DOMAIN Tab(t), flag \in BOOLEAN :
        Free(t) # {} /\ Copy(t, "fcntl_dup", f, Lowest(t), flag, flag)
  BY DEF FcntlDup
<1> QED BY <1>1, LowestIsFree, CopyShape

LEMMA SetFdShape == ASSUME TypeInv, NEW t \in Thread, SetFd(t) PROVE Shaped(t)
<1>1. PICK f \in DOMAIN Tab(t), flag \in BOOLEAN :
        Execute(t, Event("fcntl_setfd", f, {f}, flag, NoPath), [Tab(t) EXCEPT ![f].cloexec = flag])
  BY DEF SetFd
<1>2. CallShape(Event("fcntl_setfd", f, {f}, flag, NoPath), Tab(t), [Tab(t) EXCEPT ![f].cloexec = flag])
  BY TableOfThread DEF CallShape, IsEvent, Changing, IsTable, IsDescriptor, KernelTrue, Event, Succeeded
<1> QED BY <1>1, <1>2 DEF Shaped

LEMMA ConnectShape == ASSUME TypeInv, NEW t \in Thread, Connect(t) PROVE Shaped(t)
<1>1. PICK f \in DOMAIN Tab(t), p \in Path :
        /\ Tab(t)[f].kind = "socket"
        /\ Execute(t, Event("connect", f, {f}, FALSE, p), [Tab(t) EXCEPT ![f].peer = p])
  BY DEF Connect
<1>2. CallShape(Event("connect", f, {f}, FALSE, p), Tab(t), [Tab(t) EXCEPT ![f].peer = p])
  BY <1>1, TableOfThread DEF CallShape, IsEvent, Changing, IsTable, IsDescriptor, KernelTrue, Event, Succeeded
<1> QED BY <1>1, <1>2 DEF Shaped

LEMMA AcceptShape == ASSUME TypeInv, NEW t \in Thread, Accept(t) PROVE Shaped(t)
<1>1. PICK f \in DOMAIN Tab(t), flag \in BOOLEAN, p \in Path :
        /\ Free(t) # {}
        /\ Execute(t, Event("accept", f, {Lowest(t)}, flag, p),
             Remember(Tab(t), {Lowest(t)}, [Descriptor("socket", "socket", flag) EXCEPT !.peer = p]))
  BY DEF Accept
<1>2. CallShape(Event("accept", f, {Lowest(t)}, flag, p), Tab(t),
        Remember(Tab(t), {Lowest(t)}, [Descriptor("socket", "socket", flag) EXCEPT !.peer = p]))
  BY <1>1, LowestIsFree, TableOfThread
  DEF CallShape, IsEvent, Changing, IsTable, IsDescriptor, KernelTrue, Event, Remember, Descriptor, Succeeded
<1> QED BY <1>1, <1>2 DEF Shaped

LEMMA UseShape == ASSUME TypeInv, NEW t \in Thread, Use(t) PROVE Shaped(t)
<1>1. PICK name \in {"write", "sendto", "mmap"}, f \in DOMAIN Tab(t) :
        Execute(t, [Event(name, f, {}, FALSE, NoPath) EXCEPT !.truth = Tab(t)[f].obj], Tab(t))
  BY DEF Use
<1>2. CallShape([Event(name, f, {}, FALSE, NoPath) EXCEPT !.truth = Tab(t)[f].obj], Tab(t), Tab(t))
  BY <1>1, TableOfThread DEF CallShape, IsEvent, Changing, KernelTrue, Event, Succeeded
<1> QED BY <1>1, <1>2 DEF Shaped

LEMMA FailShape == ASSUME TypeInv, NEW t \in Thread, Fail(t) PROVE Shaped(t)
<1>1. PICK failure \in Failures, p \in Path, cause \in {"kernel", "filter", "injected"} :
        /\ failure[1] = "getpid" => cause # "kernel"
        /\ Execute(t, [Event(failure[1], -1, {}, FALSE, IF failure[1] = "open" THEN p ELSE NoPath)
                      EXCEPT !.err = failure[2], !.injected = cause = "injected", !.cause = cause],
                Tab(t))
  BY DEF Fail
<1> DEFINE ev == [Event(failure[1], -1, {}, FALSE, IF failure[1] = "open" THEN p ELSE NoPath)
                    EXCEPT !.err = failure[2], !.injected = cause = "injected", !.cause = cause]
<1>2. failure[1] \notin {"none", "dead", "exec_event"}
  BY <1>1, ObserversAssumption DEF Execute, Event
<1>3. failure[2] # "ok"
  BY ObserversAssumption
<1>4. CallShape(ev, Tab(t), Tab(t))
  <2>1. failure[1] = "getpid" => cause # "kernel"
    BY <1>1
  <2>2. CauseTrue(ev)
    BY <2>1 DEF CauseTrue, Event
  <2>3. IsEvent(ev)
    BY <1>2, <1>3, <2>2 DEF IsEvent, Event, Succeeded
  <2> QED BY <1>2, <1>3, <2>3, TableOfThread DEF CallShape, Event, Succeeded
<1> QED BY <1>1, <1>4 DEF Shaped

-----------------------------------------------------------------------------
(* Every call keeps the invariant while it is executed.                    *)

(* Two tables that agree on the descriptors of a call.                     *)
AgreeOn(S, T1, T2) ==
  \A f \in S : /\ f \in DOMAIN T1 <=> f \in DOMAIN T2
               /\ f \in DOMAIN T1 => T1[f] = T2[f]

LEMMA FrameOfCall ==
  ASSUME NEW ev, NEW F, NEW T1, NEW T2, NEW D, NEW Z, IsEvent(ev),
         AgreeOn(ev.on \cup {ev.fd}, T1, T2),
         KernelTrue(ev, T1), TrackerTrue(ev, F, T1, D, Z)
  PROVE  KernelTrue(ev, T2) /\ TrackerTrue(ev, F, T2, D, Z)
<1>1. KernelTrue(ev, T2)
  BY DEF AgreeOn, KernelTrue
<1>2. TrackerTrue(ev, F, T2, D, Z)
  BY DEF AgreeOn, TrackerTrue, Knows, SameFlag
<1> QED BY <1>1, <1>2

(* Two records of a call, which may differ in how certain they are.         *)
SameCall(e1, e2) ==
  /\ e1.name = e2.name /\ e1.fd = e2.fd /\ e1.on = e2.on /\ e1.flag = e2.flag
  /\ e1.arg = e2.arg /\ e1.err = e2.err /\ e1.truth = e2.truth

(* The call of every thread after another thread's call.                   *)
LEMMA CallsAfter ==
  ASSUME TypeInv, NEW t \in Thread, NEW ev, NEW tab, Execute(t, ev, tab), IsEvent(ev)
  PROVE  /\ DOMAIN call' = Thread
         /\ IsEvent(call'[t]) /\ SameCall(call'[t], ev)
         /\ \A u \in Thread \ {t} : /\ call'[u].name = call[u].name
                                    /\ Changed(call'[u]) = Changed(call[u])
                                    /\ Touched(call'[u]) = Touched(call[u])
                                    /\ call'[u] = Nothing \/ call'[u] = Dead \/ IsEvent(call'[u])
                                    /\ Pid(u) # Pid(t) => call'[u] = call[u]
         /\ ~call'[t].shaky =>
              \A u \in Thread \ {t} : Pid(u) = Pid(t) => ~Clash(ev, call[u])
         /\ \A u \in Thread \ {t} :
              IsEvent(call'[u]) /\ ~call'[u].shaky /\ Pid(u) = Pid(t) =>
                call'[u] = call[u] /\ ~Clash(ev, call[u])
<1> DEFINE rivals == {u \in Thread \ {t} : Pid(u) = Pid(t) /\ Clash(ev, call[u])}
<1>1. call' = [u \in Thread |->
                IF u = t THEN [ev EXCEPT !.shaky = rivals # {}]
                ELSE IF u \in rivals THEN [call[u] EXCEPT !.shaky = TRUE]
                ELSE call[u]]
  BY DEF Execute
<1>2. DOMAIN call' = Thread
  BY <1>1
<1>3. call'[t] = [ev EXCEPT !.shaky = rivals # {}]
  BY <1>1
<1>4. \A u \in Thread \ {t} : u \in rivals => call'[u] = [call[u] EXCEPT !.shaky = TRUE]
  BY <1>1
<1>5. \A u \in Thread \ {t} : u \notin rivals => call'[u] = call[u]
  BY <1>1
<1>6. \A u \in rivals : IsEvent(call[u])
  <2> SUFFICES ASSUME NEW u \in rivals PROVE IsEvent(call[u])
    OBVIOUS
  <2>1. Changed(call[u]) # {} \/ Touched(call[u]) # {}
    BY DEF Clash
  <2>2. call[u].name \notin {"none", "dead"}
    BY <2>1 DEF Changed, Touched
  <2> QED BY <2>2 DEF TypeInv, Nothing, Dead
<1>7. IsEvent(call'[t]) /\ SameCall(call'[t], ev) /\ call'[t].shaky = (rivals # {})
  <2> HIDE DEF rivals
  <2> QED BY <1>3 DEF IsEvent, Succeeded, SameCall, CauseTrue
<1>8. \A u \in rivals : /\ IsEvent(call'[u]) /\ call'[u].on = call[u].on /\ call'[u].fd = call[u].fd
                        /\ call'[u].name = call[u].name /\ call'[u].shaky
  <2> SUFFICES ASSUME NEW u \in rivals
               PROVE  /\ IsEvent(call'[u]) /\ call'[u].on = call[u].on /\ call'[u].fd = call[u].fd
                      /\ call'[u].name = call[u].name /\ call'[u].shaky
    OBVIOUS
  <2>1. u \in Thread \ {t} /\ IsEvent(call[u]) /\ call'[u] = [call[u] EXCEPT !.shaky = TRUE]
    BY <1>4, <1>6
  <2> QED BY <2>1 DEF IsEvent, Succeeded, CauseTrue
<1>9. \A u \in Thread \ {t} : /\ call'[u].name = call[u].name
                              /\ Changed(call'[u]) = Changed(call[u])
                              /\ Touched(call'[u]) = Touched(call[u])
                              /\ call'[u] = Nothing \/ call'[u] = Dead \/ IsEvent(call'[u])
  <2> HIDE DEF rivals
  <2> QED BY <1>5, <1>8 DEF TypeInv, Changed, Touched
<1> QED BY <1>2, <1>5, <1>7, <1>8, <1>9 DEF SameCall

(* The root process's table, outside of what the call changes.             *)
LEMMA RootTableAfter ==
  ASSUME TypeInv, NEW t \in Thread, NEW ev, NEW tab, Execute(t, ev, tab),
         CallShape(ev, Tab(t), tab)
  PROVE  /\ DOMAIN table' = {"root", "child"} /\ \A p \in {"root", "child"} : IsTable(table'[p])
         /\ t \notin Root => table'["root"] = table["root"]
         /\ t \in Root => table'["root"] = tab /\ Tab(t) = table["root"]
         /\ t \in Root => \A S : S \cap ev.on = {} => AgreeOn(S, table["root"], table'["root"])
<1>1. table' = [table EXCEPT ![Pid(t)] = tab]
  BY DEF Execute
<1>2. IsTable(tab) /\ IsTable(Tab(t))
  BY TableOfThread DEF CallShape
<1>3. /\ DOMAIN table' = {"root", "child"} /\ \A p \in {"root", "child"} : IsTable(table'[p])
      /\ t \notin Root => table'["root"] = table["root"]
      /\ t \in Root => table'["root"] = tab /\ Tab(t) = table["root"]
  BY <1>1, <1>2 DEF TypeInv, Root, Pid, Tab
<1>4. ASSUME t \in Root, NEW S, S \cap ev.on = {}
      PROVE  AgreeOn(S, table["root"], table'["root"])
  BY <1>2, <1>3, <1>4 DEF AgreeOn, CallShape, IsTable
<1> QED BY <1>3, <1>4

LEMMA ExecuteKeepsSettled ==
  ASSUME TrackInv, NEW t \in Thread, call[t] = Nothing, NEW ev, NEW tab,
         Execute(t, ev, tab), CallShape(ev, Tab(t), tab)
  PROVE  Settled' \subseteq Settled /\ SettledInv'
<1>1. IsEvent(ev) /\ TypeInv
  BY DEF CallShape, TrackInv
<1>2. Root' = Root /\ UNCHANGED <<fds, doubt, fuzzy>>
  BY DEF Root, Execute, Pid
<1>3. \A u \in Thread \ {t} : Changed(call'[u]) = Changed(call[u])
  BY <1>1, CallsAfter
<1>4. Changed(call'[t]) = ev.on /\ Changed(call[t]) = {}
  BY <1>1, CallsAfter DEF Changed, IsEvent, Nothing, SameCall
<1>5. Settled' \subseteq Settled /\ (t \in Root => Settled' \cap ev.on = {})
  BY <1>2, <1>3, <1>4 DEF Settled, Root
<1>6. AgreeOn(Settled', table["root"], table'["root"])
  BY <1>1, <1>5, RootTableAfter DEF AgreeOn
<1>7. SettledInv'
  <2> SUFFICES ASSUME NEW f \in Settled'
               PROVE  Knows(fds, table'["root"], f)
                      /\ (f \notin fuzzy => SameFlag(fds, table'["root"], f))
    BY <1>2 DEF SettledInv
  <2>1. Knows(fds, table["root"], f) /\ (f \notin fuzzy => SameFlag(fds, table["root"], f))
    BY <1>5 DEF TrackInv, SettledInv
  <2> QED BY <2>1, <1>6 DEF Knows, SameFlag, AgreeOn
<1> QED BY <1>5, <1>7

LEMMA ExecuteKeepsCalls ==
  ASSUME TrackInv, NEW t \in Thread, call[t] = Nothing, NEW ev, NEW tab,
         Execute(t, ev, tab), CallShape(ev, Tab(t), tab)
  PROVE  CallInv'
<1> USE DEF TrackInv
<1>1. IsEvent(ev) /\ TypeInv
  BY DEF CallShape
<1>2. Root' = Root /\ UNCHANGED <<fds, doubt, fuzzy>>
  BY DEF Root, Execute, Pid
<1>3. SameCall(call'[t], ev)
  BY <1>1, CallsAfter
<1>4. ASSUME Clear(t)', NEW f \in ev.on \ doubt PROVE f \in Settled
  <2>1. \A u \in Root \ {t} : ~Clash(ev, call[u])
    BY <1>1, <1>2, <1>4, CallsAfter DEF Clear, Root
  <2>2. \A u \in Root \ {t} : f \notin Changed(call[u])
    BY <2>1, <1>1 DEF Clash, Changed, Touched, IsEvent
  <2>3. f \notin Changed(call[t])
    BY <1>1 DEF Changed, Nothing
  <2> QED BY <2>2, <2>3, <1>1 DEF Settled, IsEvent
<1>5. ASSUME Clear(t)', Succeeded(call'[t])
      PROVE  KernelTrue(call'[t], table'["root"])
             /\ TrackerTrue(call'[t], fds, table'["root"], doubt, fuzzy)
  <2>1. table'["root"] = tab /\ Tab(t) = table["root"]
    BY <1>1, <1>2, <1>5, RootTableAfter DEF Clear
  <2>2. KernelTrue(ev, tab)
    BY <1>3, <1>5 DEF CallShape, Succeeded, SameCall
  <2>3. \A f \in ev.on \ doubt : Knows(fds, table["root"], f)
                                 /\ (f \notin fuzzy => SameFlag(fds, table["root"], f))
    BY <1>4, <1>5 DEF SettledInv
  <2>4. TrackerTrue(ev, fds, tab, doubt, fuzzy)
    BY <2>1, <2>3 DEF TrackerTrue, CallShape, Knows, SameFlag
  <2>5. KernelTrue(call'[t], tab)
    BY <1>3, <2>2 DEF SameCall, KernelTrue
  <2>6. TrackerTrue(call'[t], fds, tab, doubt, fuzzy)
    BY <1>3, <2>4 DEF SameCall, TrackerTrue
  <2> QED BY <2>1, <2>5, <2>6
<1>6. ASSUME NEW u \in Root \ {t}, Clear(u)'
      PROVE  /\ call'[u] = call[u] /\ Clear(u) /\ IsEvent(call[u])
             /\ t \in Root => ~Clash(ev, call[u])
  <2>1. call'[u].name = call[u].name /\ u \in Thread
    BY <1>1, CallsAfter DEF Root
  <2>2. call[u].name \notin {"none", "dead"} /\ call'[u].name \notin {"none", "dead"}
    BY <2>1, <1>6 DEF Clear, InKernel
  <2>3. IsEvent(call[u]) /\ IsEvent(call'[u])
    BY <2>1, <2>2, <1>1, CallsAfter DEF TypeInv, Nothing, Dead
  <2>4. ~call'[u].shaky
    BY <1>6 DEF Clear
  <2>5. call'[u] = call[u] /\ (t \in Root => ~Clash(ev, call[u]))
    BY <1>1, <2>1, <2>3, <2>4, CallsAfter DEF Root
  <2> QED BY <2>2, <2>3, <2>4, <2>5 DEF Clear, InKernel
<1>7. ASSUME NEW u \in Root \ {t}, Clear(u)', Succeeded(call'[u])
      PROVE  KernelTrue(call'[u], table'["root"])
             /\ TrackerTrue(call'[u], fds, table'["root"], doubt, fuzzy)
  <2> DEFINE S == call[u].on \cup {call[u].fd}
  <2>1. call'[u] = call[u] /\ Clear(u) /\ IsEvent(call[u]) /\ u \in Thread
    BY <1>6, <1>7 DEF Root
  <2>2. KernelTrue(call[u], table["root"]) /\ TrackerTrue(call[u], fds, table["root"], doubt, fuzzy)
    BY <1>7, <2>1 DEF CallInv
  <2>3. CASE t \notin Root
    BY <1>1, <2>1, <2>2, <2>3, RootTableAfter
  <2>4. CASE t \in Root
    <3>1. S \cap ev.on = {}
      BY <1>6, <1>7, <2>1, <2>4, <1>1 DEF Clash, Touched, Changed, IsEvent
    <3>2. AgreeOn(S, table["root"], table'["root"])
      BY <1>1, <2>4, <3>1, RootTableAfter
    <3> QED BY <2>1, <2>2, <3>2, FrameOfCall
  <2> QED BY <2>3, <2>4
<1>8. ASSUME NEW u \in Root, Clear(u)', NEW v \in Root \ {u} PROVE ~Clash(call'[u], call'[v])
  <2>1. \A w \in Thread \ {t} : Changed(call'[w]) = Changed(call[w]) /\ Touched(call'[w]) = Touched(call[w])
    BY <1>1, CallsAfter
  <2>2. Changed(call'[t]) = Changed(ev) /\ Touched(call'[t]) = Touched(ev)
    BY <1>3 DEF Changed, Touched, SameCall
  <2>3. CASE u = t
    <3>1. ~Clash(ev, call[v])
      BY <1>1, <1>2, <1>8, <2>3, CallsAfter DEF Clear, Root
    <3> QED BY <2>1, <2>2, <2>3, <3>1 DEF Clash, Root
  <2>4. CASE u # t /\ v = t
    <3>1. ~Clash(ev, call[u])
      BY <1>6, <1>8, <2>4
    <3> QED BY <2>1, <2>2, <2>4, <3>1 DEF Clash, Root
  <2>5. CASE u # t /\ v # t
    <3>1. ~Clash(call[u], call[v])
      BY <1>6, <1>8, <2>5 DEF CallInv, Root
    <3> QED BY <2>1, <2>5, <3>1 DEF Clash, Root
  <2> QED BY <2>3, <2>4, <2>5
<1>9. \A u \in Thread : Clear(u)' => u \in Root
  BY <1>2 DEF Clear
<1> QED BY <1>2, <1>5, <1>7, <1>8, <1>9 DEF CallInv

LEMMA ExecuteKeepsExec ==
  ASSUME TrackInv, NEW t \in Thread, call[t] = Nothing, NEW ev, NEW tab,
         Execute(t, ev, tab), CallShape(ev, Tab(t), tab)
  PROVE  ExecInv'
<1> SUFFICES ASSUME NEW u \in Thread, call'[u].name = "exec_event"
             PROVE  ExecWaits(u)'
  BY DEF ExecInv, ExecWaits
<1>1. IsEvent(ev) /\ TypeInv /\ ev.name # "exec_event"
  BY DEF CallShape, TrackInv
<1>2. u # t /\ call[u].name = "exec_event"
  BY <1>1, CallsAfter DEF SameCall
<1>3. ExecWaits(u)
  BY <1>2 DEF TrackInv, ExecInv
<1>4. Pid(u) # Pid(t)
  BY <1>1, <1>2, <1>3 DEF Nothing, ExecWaits
<1>5. call'[u] = call[u]
  BY <1>1, <1>2, <1>4, CallsAfter
<1>6. \A w \in Thread \ {u} : Pid(w) = Pid(u) => call'[w].name = "dead"
  BY <1>1, <1>3, <1>4, CallsAfter DEF ExecWaits
<1>7. u \in Root => table'["root"] = table["root"]
  BY <1>1, <1>4, RootTableAfter DEF Root
<1>8. UNCHANGED <<fds, doubt, fuzzy>>
  BY DEF Execute
<1> QED BY <1>3, <1>5, <1>6, <1>7, <1>8 DEF ExecWaits, Root, Pid

LEMMA ExecuteKeepsTrack ==
  ASSUME TrackInv, NEW t \in Thread, call[t] = Nothing, Shaped(t)
  PROVE  TrackInv'
<1>1. PICK ev, tab : Execute(t, ev, tab) /\ CallShape(ev, Tab(t), tab)
  BY DEF Shaped
<1>2. TypeInv'
  <2>1. TypeInv /\ IsEvent(ev) /\ fds' = fds
    BY <1>1 DEF TrackInv, CallShape, Execute
  <2> QED BY <1>1, <2>1, CallsAfter, RootTableAfter DEF TypeInv
<1> QED BY <1>1, <1>2, ExecuteKeepsSettled, ExecuteKeepsCalls, ExecuteKeepsExec DEF TrackInv

LEMMA DescriptorsAreNaturals == -1 \notin Fd
BY ObserversAssumption

LEMMA ForkKeepsTrack ==
  ASSUME TrackInv, NEW t \in Thread, call[t] = Nothing, Fork(t)
  PROVE  TrackInv'
<1> DEFINE ev == Event("fork", -1, {}, FALSE, "child")
<1>1. /\ TypeInv /\ t \in Root /\ t \notin Forked /\ call[t] = Nothing
      /\ UNCHANGED <<fds, doubt, fuzzy>> /\ Root' = Root
      /\ call' = [u \in Thread |-> IF u = t THEN ev ELSE IF u \in Forked THEN Nothing ELSE call[u]]
      /\ table' = [table EXCEPT !["child"] = table["root"]]
  BY DEF Fork, TrackInv, Root, Pid
<1>2. IsEvent(ev) /\ Changed(ev) = {} /\ Touched(ev) = {-1} /\ ev.name = "fork"
  BY DEF IsEvent, Changing, Event, Succeeded, Changed, Touched
<1>3. call'[t] = ev /\ \A u \in Root \ {t} : call'[u] = call[u]
  BY <1>1 DEF Root, Pid
<1>4. table'["root"] = table["root"]
  BY <1>1 DEF TypeInv
<1>5. TypeInv'
  BY <1>1, <1>2 DEF TypeInv
<1>6. Changed(call[t]) = {} /\ Touched(call[t]) = {}
  BY <1>1 DEF Changed, Touched, Nothing
<1>7. Settled' = Settled
  BY <1>1, <1>2, <1>3, <1>6 DEF Settled
<1>8. SettledInv'
  BY <1>1, <1>4, <1>7 DEF SettledInv, TrackInv
<1>9. CallInv'
  <2> HIDE DEF ev
  <2>1. KernelTrue(ev, table'["root"]) /\ TrackerTrue(ev, fds, table["root"], doubt, fuzzy)
    BY <1>2 DEF KernelTrue, TrackerTrue, Changed
  <2>2. \A u \in Root \ {t} : ~Clash(ev, call[u])
    <3> SUFFICES ASSUME NEW u \in Root \ {t}, Clash(ev, call[u]) PROVE FALSE
      OBVIOUS
    <3>1. Changed(call[u]) \cap {-1} # {}
      BY <1>2 DEF Clash
    <3>2. IsEvent(call[u])
      BY <3>1, <1>1 DEF Changed, TypeInv, Nothing, Dead, Root
    <3> QED BY <3>1, <3>2, DescriptorsAreNaturals DEF Changed, IsEvent
  <2>3. \A u \in Root \ {t} : Clear(u)' => Clear(u)
    BY <1>1, <1>3 DEF Clear, InKernel
  <2> SUFFICES ASSUME NEW u \in Thread, Clear(u)'
               PROVE  /\ Succeeded(call'[u]) =>
                           KernelTrue(call'[u], table'["root"])
                           /\ TrackerTrue(call'[u], fds, table["root"], doubt, fuzzy)
                      /\ \A v \in Root \ {u} : ~Clash(call'[u], call'[v])
    BY <1>1, <1>4 DEF CallInv
  <2>4. u \in Root
    BY <1>1 DEF Clear
  <2>5. CASE u = t
    BY <1>3, <2>1, <2>2, <2>5
  <2>6. CASE u # t
    <3>1. Clear(u) /\ call'[u] = call[u]
      BY <1>3, <2>3, <2>4, <2>6
    <3>2. \A v \in Root \ {u} : ~Clash(call'[u], call'[v])
      BY <1>3, <2>2, <2>4, <2>6, <3>1 DEF CallInv, TrackInv, Root, Clash
    <3> QED BY <1>4, <3>1, <3>2 DEF CallInv, TrackInv
  <2> QED BY <2>5, <2>6
<1>10. ExecInv'
  <2> SUFFICES ASSUME NEW u \in Thread, call'[u].name = "exec_event" PROVE FALSE
    BY DEF ExecInv
  <2>1. u # t /\ u \notin Forked /\ call'[u] = call[u]
    BY <1>1, <1>2 DEF Nothing
  <2>2. Pid(t) = Pid(u) /\ call[t].name # "dead"
    BY <1>1, <2>1 DEF Pid, Nothing
  <2> QED BY <2>1, <2>2 DEF TrackInv, ExecInv, ExecWaits
<1> QED BY <1>5, <1>8, <1>9, <1>10 DEF TrackInv

(* An exec leaves one thread; its other calls will never be reported.      *)
LEMMA ExecFacts ==
  ASSUME TypeInv, NEW t \in Thread, call[t] = Nothing, Exec(t)
  PROVE  /\ UNCHANGED <<fds, fuzzy>> /\ Root' = Root
         /\ IsEvent(call'[t]) /\ call'[t].name = "exec_event" /\ call'[t].on = Fd
         /\ call'[t].err = "ok"
         /\ \A u \in Thread \ {t} : Pid(u) = Pid(t) => call'[u] = Dead
         /\ \A u \in Thread \ {t} : Pid(u) # Pid(t) => call'[u] = call[u]
         /\ doubt \subseteq doubt'
         /\ \A u \in Thread \ {t} : Pid(u) = Pid(t) => Changed(call[u]) \subseteq doubt'
         /\ Changed(call[t]) = {}
         /\ t \notin Root => table'["root"] = table["root"]
         /\ t \in Root =>
              /\ DOMAIN table'["root"] = {f \in DOMAIN table["root"] : ~table["root"][f].cloexec}
              /\ \A f \in DOMAIN table'["root"] : table'["root"][f] = table["root"][f]
         /\ TypeInv'
<1>1. IsEvent(Event("exec_event", -1, Fd, FALSE, NoPath))
  BY DEF IsEvent, Event, Succeeded
<1>2. [Nothing EXCEPT !.name = "dead"] = Dead
  BY DEF Nothing, Dead
<1>3. /\ UNCHANGED <<fds, fuzzy>> /\ Root' = Root
      /\ DOMAIN call' = Thread
      /\ table' = [table EXCEPT ![Pid(t)] = Forget(@, {f \in DOMAIN @ : @[f].cloexec})]
      /\ doubt' = doubt \cup UNION {Changed(call[u]) : u \in {v \in Thread \ {t} : Pid(v) = Pid(t)}}
      /\ call[t] = Nothing
  BY DEF Exec, Root, Pid
<1>4. /\ call'[t] = Event("exec_event", -1, Fd, FALSE, NoPath)
      /\ \A u \in Thread \ {t} : call'[u] = (IF Pid(u) = Pid(t) THEN Dead ELSE call[u])
  BY <1>2 DEF Exec
<1>5. IsEvent(call'[t]) /\ call'[t].name = "exec_event" /\ call'[t].on = Fd /\ call'[t].err = "ok"
  BY <1>1, <1>4 DEF Event
<1>6. \A p \in {"root", "child"} : IsTable(table'[p])
  BY <1>3 DEF TypeInv, IsTable, Forget
<1>7. TypeInv'
  BY <1>3, <1>4, <1>5, <1>6 DEF TypeInv
<1>8. t \notin Root => table'["root"] = table["root"]
  BY <1>3 DEF Root, Pid, TypeInv
<1>9. ASSUME t \in Root
      PROVE  /\ DOMAIN table'["root"] = {f \in DOMAIN table["root"] : ~table["root"][f].cloexec}
             /\ \A f \in DOMAIN table'["root"] : table'["root"][f] = table["root"][f]
  <2>1. table'["root"] = Forget(table["root"], {f \in DOMAIN table["root"] : table["root"][f].cloexec})
    BY <1>3, <1>9 DEF Root, TypeInv
  <2> QED BY <2>1 DEF Forget
<1>10. Changed(call[t]) = {}
  BY <1>3 DEF Changed, Nothing
<1> QED BY <1>3, <1>4, <1>5, <1>7, <1>8, <1>9, <1>10

LEMMA ExecKeepsTrack ==
  ASSUME TrackInv, NEW t \in Thread, call[t] = Nothing, Exec(t)
  PROVE  TrackInv'
<1> DEFINE T == table["root"]
<1> USE ExecFacts DEF TrackInv
<1>1. CASE t \in Root
  <2>1. \A u \in Root \ {t} : call'[u] = Dead
    BY <1>1 DEF Root
  <2>2. \A u \in Root \ {t} : Changed(call'[u]) = {} /\ Touched(call'[u]) = {} /\ ~Clear(u)'
    BY <2>1 DEF Changed, Touched, Dead, Clear, InKernel
  <2>3. Settled' = {}
    BY <1>1 DEF Settled, Changed
  <2>4. CallInv'
    <3> SUFFICES ASSUME NEW u \in Thread, Clear(u)'
                 PROVE  /\ KernelTrue(call'[u], table'["root"])
                        /\ TrackerTrue(call'[u], fds', table'["root"], doubt', fuzzy')
                        /\ \A v \in Root \ {u} : ~Clash(call'[u], call'[v])
      BY DEF CallInv
    <3>1. u = t
      BY <2>2 DEF Clear
    <3>2. KernelTrue(call'[t], table'["root"])
      BY DEF KernelTrue
    <3>3. TrackerTrue(call'[t], fds', table'["root"], doubt', fuzzy')
      BY DEF TrackerTrue
    <3>4. \A v \in Root \ {t} : ~Clash(call'[t], call'[v])
      BY <2>2 DEF Clash
    <3> QED BY <3>1, <3>2, <3>3, <3>4
  <2>5. \A f \in Fd \ (doubt' \cup fuzzy) : Knows(fds, T, f) /\ SameFlag(fds, T, f)
    <3> SUFFICES ASSUME NEW f \in Fd \ (doubt' \cup fuzzy) PROVE f \in Settled
      BY DEF SettledInv
    <3>1. f \notin doubt /\ \A u \in Root \ {t} : f \notin Changed(call[u])
      BY <1>1 DEF Root
    <3> QED BY <3>1 DEF Settled
  <2>6. /\ DOMAIN table'["root"] = {f \in DOMAIN T : ~T[f].cloexec}
        /\ \A f \in DOMAIN table'["root"] : table'["root"][f] = T[f]
    BY <1>1
  <2>7. ExecWaits(t)'
    <3>1. \A f \in Fd \ (doubt' \cup fuzzy) :
             /\ f \in DOMAIN fds /\ f \notin DOMAIN table'["root"] => fds[f].cloexec
             /\ f \in DOMAIN fds /\ f \in DOMAIN table'["root"] =>
                  ~fds[f].cloexec /\ fds[f].cloexec = table'["root"][f].cloexec
                  /\ fds[f].path \in {table'["root"][f].obj, NoPath, "fd"}
             /\ f \in DOMAIN table'["root"] /\ table'["root"][f].obj # "unfollowed" => f \in DOMAIN fds
      BY <2>5, <2>6 DEF Knows, SameFlag
    <3>2. \A u \in Thread \ {t} : Pid(u) = Pid(t) => call'[u].name = "dead"
      BY DEF Dead
    <3> QED BY <3>1, <3>2 DEF ExecWaits, Pid, Root
  <2>8. ExecInv'
    <3> SUFFICES ASSUME NEW u \in Thread, call'[u].name = "exec_event" PROVE ExecWaits(u)'
      BY DEF ExecInv
    <3>1. CASE u = t
      BY <3>1, <2>7
    <3>2. CASE u # t
      <4>1. Pid(u) # Pid(t) /\ call'[u] = call[u] /\ u \notin Root
        BY <3>2, <1>1 DEF Dead, Root
      <4>2. ExecWaits(u)
        BY <4>1 DEF ExecInv
      <4>3. \A v \in Thread \ {u} : Pid(v) = Pid(u) => call'[v].name = "dead"
        BY <4>1, <4>2 DEF ExecWaits, Dead
      <4> QED BY <4>1, <4>2, <4>3 DEF ExecWaits, Pid, Root
    <3> QED BY <3>1, <3>2
  <2> QED BY <2>3, <2>4, <2>8 DEF SettledInv
<1>2. CASE t \notin Root
  <2>1. table'["root"] = T /\ doubt \subseteq doubt'
    BY <1>2 DEF Root, Pid, TypeInv
  <2>2. \A u \in Root : call'[u] = call[u]
    BY <1>2 DEF Root, Pid
  <2>3. Settled' \subseteq Settled
    BY <2>1, <2>2 DEF Settled
  <2>4. SettledInv'
    BY <2>1, <2>3 DEF SettledInv
  <2>5. CallInv'
    <3> SUFFICES ASSUME NEW u \in Thread, Clear(u)'
                 PROVE  /\ Succeeded(call'[u]) => KernelTrue(call'[u], T)
                                                  /\ TrackerTrue(call'[u], fds, T, doubt', fuzzy)
                        /\ \A v \in Root \ {u} : ~Clash(call'[u], call'[v])
      BY <2>1 DEF CallInv
    <3>1. Clear(u) /\ call'[u] = call[u] /\ u \in Root
      BY <2>2 DEF Clear, InKernel
    <3>2. Succeeded(call[u]) => KernelTrue(call[u], T) /\ TrackerTrue(call[u], fds, T, doubt, fuzzy)
      BY <3>1 DEF CallInv
    <3>3. Succeeded(call[u]) => TrackerTrue(call[u], fds, T, doubt', fuzzy)
      BY <2>1, <3>2 DEF TrackerTrue
    <3>4. \A v \in Root \ {u} : ~Clash(call'[u], call'[v])
      BY <2>2, <3>1 DEF CallInv
    <3> QED BY <3>1, <3>2, <3>3, <3>4
  <2>6. ExecInv'
    <3> SUFFICES ASSUME NEW u \in Thread, call'[u].name = "exec_event" PROVE ExecWaits(u)'
      BY DEF ExecInv
    <3>1. CASE u = t
      BY <3>1, <1>2 DEF ExecWaits, Dead, Pid, Root
    <3>2. CASE u # t
      <4>1. Pid(u) # Pid(t) /\ call'[u] = call[u]
        BY <3>2 DEF Dead
      <4>2. ExecWaits(u)
        BY <4>1 DEF ExecInv
      <4>3. \A v \in Thread \ {u} : Pid(v) = Pid(u) => call'[v].name = "dead"
        BY <4>1, <4>2 DEF ExecWaits, Dead
      <4> QED BY <2>1, <4>1, <4>2, <4>3 DEF ExecWaits, Pid, Root
    <3> QED BY <3>1, <3>2
  <2> QED BY <2>4, <2>5, <2>6
<1> QED BY <1>1, <1>2

(* The tracker drops what it takes to be closed by the exec.               *)
LEMMA ExecStopKeepsTrack ==
  ASSUME TrackInv, NEW t \in Thread, ExecStop(t)
  PROVE  TrackInv'
<1> DEFINE T == table["root"]
           ev == Event("execve", -1, {}, FALSE, "prog")
<1> USE DEF TrackInv
<1>1. /\ call[t].name = "exec_event" /\ fds' = OnExec(fds)
      /\ doubt' = (IF Pid(t) = "root" THEN doubt \cup fuzzy ELSE Fd)
      /\ call' = [call EXCEPT ![t] = ev] /\ UNCHANGED <<table, fuzzy>> /\ Root' = Root
  BY DEF ExecStop, Root, Pid
<1>2. IsEvent(ev) /\ Changed(ev) = {} /\ ev.name = "execve" /\ Touched(ev) = {-1}
  BY DEF IsEvent, Event, Succeeded, Changed, Touched
<1>3. ExecWaits(t)
  BY <1>1 DEF ExecInv
<1>4. /\ DOMAIN call' = Thread /\ call'[t] = ev
      /\ \A u \in Thread \ {t} : call'[u] = call[u]
  BY <1>1 DEF TypeInv
<1>5. DOMAIN fds' = {f \in DOMAIN fds : ~fds[f].cloexec} /\ \A f \in DOMAIN fds' : fds'[f] = fds[f]
  BY <1>1 DEF OnExec, Forget
<1> HIDE DEF ev
<1>6. TypeInv'
  BY <1>1, <1>2, <1>4, <1>5 DEF TypeInv
<1>7. SettledInv'
  <2>1. CASE t \in Root
    <3> SUFFICES ASSUME NEW f \in Settled' PROVE Knows(fds', T, f) /\ SameFlag(fds', T, f)
      BY <1>1 DEF SettledInv
    <3>1. f \in Fd \ (doubt \cup fuzzy)
      BY <1>1, <2>1 DEF Settled, Root
    <3> QED BY <1>3, <1>5, <2>1, <3>1 DEF ExecWaits, Knows, SameFlag
  <2>2. CASE t \notin Root
    BY <1>1, <2>2 DEF SettledInv, Settled, Root
  <2> QED BY <2>1, <2>2
<1>8. CallInv'
  <2> SUFFICES ASSUME NEW u \in Thread, Clear(u)'
               PROVE  /\ Succeeded(call'[u]) => KernelTrue(call'[u], T)
                                                /\ TrackerTrue(call'[u], fds', T, doubt', fuzzy)
                      /\ \A v \in Root \ {u} : ~Clash(call'[u], call'[v])
    BY <1>1 DEF CallInv
  <2>1. u \in Root
    BY <1>1 DEF Clear
  <2>2. CASE t \in Root
    <3>1. u = t
      BY <1>3, <1>4, <2>1, <2>2 DEF ExecWaits, Root, Clear, InKernel
    <3>2. KernelTrue(ev, T) /\ TrackerTrue(ev, fds', T, doubt', fuzzy)
      BY <1>2 DEF KernelTrue, TrackerTrue, Changed
    <3>3. \A v \in Root \ {t} : call'[v].name = "dead"
      BY <1>3, <1>4, <2>2 DEF ExecWaits, Root
    <3>4. \A v \in Root \ {t} : Changed(call'[v]) = {} /\ Touched(call'[v]) = {}
      BY <3>3 DEF Changed, Touched
    <3>5. \A v \in Root \ {t} : ~Clash(call'[t], call'[v])
      BY <3>4 DEF Clash
    <3> QED BY <1>4, <3>1, <3>2, <3>5
  <2>3. CASE t \notin Root
    <3>1. \A v \in Root : call'[v] = call[v]
      BY <1>4, <2>3 DEF Root
    <3>2. Clear(u) /\ call'[u] = call[u]
      BY <1>1, <2>1, <3>1 DEF Clear, InKernel
    <3>3. IsEvent(call[u])
      BY <3>2 DEF Clear, InKernel, TypeInv, Nothing, Dead
    <3>4. TrackerTrue(call[u], fds', T, doubt', fuzzy)
      BY <1>1, <2>3, <3>3 DEF TrackerTrue, IsEvent, Root
    <3>5. Succeeded(call[u]) => KernelTrue(call[u], T)
      BY <3>2 DEF CallInv
    <3>6. \A v \in Root \ {u} : ~Clash(call'[u], call'[v])
      BY <3>1, <3>2 DEF CallInv
    <3> QED BY <3>2, <3>4, <3>5, <3>6
  <2> QED BY <2>2, <2>3
<1>9. ExecInv'
  <2> SUFFICES ASSUME NEW u \in Thread, call'[u].name = "exec_event" PROVE ExecWaits(u)'
    BY DEF ExecInv
  <2>1. u # t /\ call'[u] = call[u]
    BY <1>2, <1>4
  <2>2. ExecWaits(u) /\ Pid(u) # Pid(t)
    BY <1>1, <1>3, <2>1 DEF ExecInv, ExecWaits
  <2>3. Fd \ (doubt' \cup fuzzy') = {} \/ u \notin Root
    BY <1>1, <2>2 DEF Root
  <2>4. \A v \in Thread \ {u} : Pid(v) = Pid(u) => call'[v].name = "dead"
    BY <1>4, <2>2 DEF ExecWaits
  <2> QED BY <1>1, <2>1, <2>2, <2>3, <2>4 DEF ExecWaits, Pid, Root
<1> QED BY <1>6, <1>7, <1>8, <1>9

-----------------------------------------------------------------------------
(* A report: outside of the call's descriptors the tracker keeps what it    *)
(* holds, and for them it holds what the program did.                      *)

Agree(S, D, E) == \A f \in Fd \ S : f \in D <=> f \in E

(* What a call that succeeded does to the entries, one fact per operation.  *)
LEMMA AppliedEntries ==
  ASSUME NEW F, NEW ev, NEW raw, IsEvent(ev), Succeeded(ev),
         \A f \in DOMAIN F : IsContext(F[f]), NEW G, G = Applied(F, ev, raw)
  PROVE  /\ \A f \in DOMAIN F \ ev.on : f \in DOMAIN G /\ G[f] = F[f]
         /\ DOMAIN G \subseteq DOMAIN F \cup ev.on
         /\ \A f \in DOMAIN G : IsContext(G[f])
<1>1. CASE ev.name = "open"
  BY <1>1 DEF Remember, Applied, ApplyOpen, Context, IsContext
<1>2. CASE ev.name = "close"
  BY <1>2 DEF Forget, Applied, ApplyClose, IsEvent
<1>3. CASE ev.name = "close_range"
  <2>1. CASE ev.flag
    <3>1. G = [f \in DOMAIN F |-> IF f \in ev.on THEN [F[f] EXCEPT !.cloexec = TRUE] ELSE F[f]]
      BY <1>3, <2>1 DEF Applied, ApplyCloseRange
    <3> QED BY <3>1 DEF IsContext
  <2>2. CASE ~ev.flag
    <3>1. G = Forget(F, ev.on)
      BY <1>3, <2>2 DEF Applied, ApplyCloseRange
    <3> QED BY <3>1 DEF Forget
  <2> QED BY <2>1, <2>2
<1>4. CASE ev.name = "dup"
  BY <1>4 DEF Remember, Applied, ApplyDup
<1>5. CASE ev.name = "dup2"
  <2>1. CASE ev.fd \in DOMAIN F
    <3>1. G = Remember(F, ev.on, [F[ev.fd] EXCEPT !.cloexec = ev.flag])
      BY <1>5, <2>1 DEF Applied, ApplyDup2
    <3>2. IsContext([F[ev.fd] EXCEPT !.cloexec = ev.flag])
      BY <2>1 DEF IsContext
    <3> QED BY <3>1, <3>2 DEF Remember
  <2>2. CASE ev.fd \notin DOMAIN F
    BY <1>5, <2>2 DEF Applied, ApplyDup2
  <2> QED BY <2>1, <2>2
<1>6. CASE ev.name = "socket"
  BY <1>6 DEF Remember, Applied, ApplySocket, Context, IsContext
<1>7. CASE ev.name = "pipe"
  BY <1>7 DEF Remember, Applied, ApplyPipe, Context, IsContext
<1>8. CASE ev.name = "connect"
  <2> DEFINE old == Lookup(F, ev.fd)
             ctx == [old EXCEPT !.kind = "socket", !.known = TRUE,
                                !.peer = IF raw THEN old.peer ELSE ev.arg]
  <2>1. IsContext(old)
    BY DEF Lookup, NoContext, Context, IsContext
  <2>2. IsContext(ctx)
    BY <2>1 DEF IsContext
  <2>3. G = Remember(F, {ev.fd}, ctx) /\ ev.on = {ev.fd}
    BY <1>8 DEF Applied, ApplyConnect, IsEvent
  <2> HIDE DEF ctx
  <2> QED BY <2>2, <2>3 DEF Remember
<1>9. CASE ev.name = "accept"
  BY <1>9 DEF Remember, Applied, ApplyAccept, Context, IsContext
<1>10. CASE ev.name = "fcntl_dup"
  <2> DEFINE source == IF ev.fd \in DOMAIN F THEN F[ev.fd]
                       ELSE [NoContext EXCEPT !.kind = "fd", !.path = "fd"]
  <2>1. IsContext([source EXCEPT !.cloexec = ev.flag])
    BY DEF NoContext, Context, IsContext
  <2>2. G = Remember(F, ev.on, [source EXCEPT !.cloexec = ev.flag])
    BY <1>10 DEF Applied, ApplyFcntlDup
  <2> HIDE DEF source
  <2> QED BY <2>1, <2>2 DEF Remember
<1>11. CASE ev.name = "fcntl_setfd"
  <2>1. CASE ev.fd \in DOMAIN F
    <3>1. G = [F EXCEPT ![ev.fd].cloexec = ev.flag] /\ ev.on = {ev.fd}
      BY <1>11, <2>1 DEF Applied, ApplySetFd, IsEvent
    <3> QED BY <3>1 DEF IsContext
  <2>2. CASE ev.fd \notin DOMAIN F
    BY <1>11, <2>2 DEF Applied, ApplySetFd
  <2> QED BY <2>1, <2>2
<1>12. CASE ev.name \notin {"open", "close", "close_range", "dup", "dup2", "socket", "pipe",
                           "connect", "accept", "fcntl_dup", "fcntl_setfd"}
  BY <1>12 DEF Applied
<1> QED BY <1>1, <1>2, <1>3, <1>4, <1>5, <1>6, <1>7, <1>8, <1>9, <1>10, <1>11, <1>12

LEMMA ReportFrame ==
  ASSUME TypeInv, NEW t \in Thread, Report(t)
  PROVE  /\ IsEvent(call[t]) /\ call[t].name # "exec_event"
         /\ call' = [call EXCEPT ![t] = Nothing] /\ table' = table /\ Root' = Root
         /\ \A f \in Fd \ call[t].on : f \in DOMAIN fds <=> f \in DOMAIN fds'
         /\ \A f \in DOMAIN fds \ call[t].on : fds'[f] = fds[f]
         /\ \A f \in DOMAIN fds' : IsContext(fds'[f])
         /\ Agree(call[t].on, doubt, doubt') /\ Agree(call[t].on, fuzzy, fuzzy')
         /\ t \notin Root \/ call[t].shaky => call[t].on \subseteq doubt'
         /\ fds' = Applied(fds, call[t], options.raw)
         /\ Succeeded(call[t]) => doubt' = DoubtAfter(t, call[t]) /\ fuzzy' = FuzzyAfter(call[t])
<1> DEFINE ev == call[t]
<1>1. IsEvent(ev) /\ ev.name # "exec_event"
  BY DEF Report, InKernel, TypeInv, Nothing, Dead
<1>2. /\ call' = [call EXCEPT ![t] = Nothing] /\ table' = table /\ Root' = Root
      /\ fds' = Applied(fds, ev, options.raw)
      /\ doubt' = (IF Succeeded(ev) THEN DoubtAfter(t, ev) ELSE doubt)
      /\ fuzzy' = (IF Succeeded(ev) THEN FuzzyAfter(ev) ELSE fuzzy)
  BY DEF Report, Root, Pid
<1>3. CASE ~Succeeded(ev)
  <2>1. fds' = fds /\ ev.on = {}
    BY <1>1, <1>2, <1>3 DEF Applied, IsEvent
  <2> QED BY <1>1, <1>2, <1>3, <2>1 DEF Agree, TypeInv
<1>4. CASE Succeeded(ev)
  <2> HIDE DEF ev
  <2>1. /\ \A f \in DOMAIN fds \ ev.on : f \in DOMAIN fds' /\ fds'[f] = fds[f]
        /\ DOMAIN fds' \subseteq DOMAIN fds \cup ev.on
        /\ \A f \in DOMAIN fds' : IsContext(fds'[f])
    BY <1>1, <1>2, <1>4, AppliedEntries DEF TypeInv
  <2>2. doubt' \in {doubt, doubt \cup ev.on, doubt \ ev.on}
    BY <1>2, <1>4 DEF DoubtAfter
  <2>3. fuzzy' \in {fuzzy, fuzzy \cup ev.on, fuzzy \ ev.on}
    BY <1>2, <1>4 DEF FuzzyAfter
  <2>4. Pid(t) # "root" \/ ev.shaky => doubt' = doubt \cup ev.on
    BY <1>2, <1>4 DEF DoubtAfter
  <2>5. t \notin Root \/ ev.shaky => ev.on \subseteq doubt'
    BY <2>4 DEF Root
  <2> QED BY <1>1, <1>2, <1>4, <2>1, <2>2, <2>3, <2>5 DEF Agree, ev
<1> QED BY <1>3, <1>4

(* The descriptors of a call that no other disturbs.                       *)
LEMMA ReportedDescriptors ==
  ASSUME TrackInv, NEW t \in Thread, Report(t), Clear(t), NEW f \in call[t].on, f \notin doubt'
  PROVE  /\ Knows(fds', table["root"], f)
         /\ f \notin fuzzy' => SameFlag(fds', table["root"], f)
<1> DEFINE ev == call[t]
           T == table["root"]
           G == fds'
<1> SUFFICES Knows(G, T, f) /\ (f \notin fuzzy' => SameFlag(G, T, f))
  OBVIOUS
<1>1. TypeInv /\ IsEvent(ev) /\ ev.name # "exec_event" /\ ev.flag \in BOOLEAN /\ t \in Root /\ ~ev.shaky
      /\ Succeeded(ev)
  BY ReportFrame DEF TrackInv, Clear, IsEvent
<1>2. /\ G = Applied(fds, ev, options.raw) /\ doubt' = DoubtAfter(t, ev) /\ fuzzy' = FuzzyAfter(ev)
      /\ Pid(t) = "root"
  BY <1>1, ReportFrame DEF Root
<1>3. KernelTrue(ev, T) /\ TrackerTrue(ev, fds, T, doubt, fuzzy)
  BY <1>1 DEF TrackInv, CallInv
<1>4. ev.name \in Changing /\ f \in Fd
  BY <1>1 DEF IsEvent
(* The source of a copy is settled, unless it is in doubt.                 *)
<1>5. ASSUME ev.fd \in DOMAIN T, ev.fd \notin ev.on, ev.fd \notin doubt
      PROVE  Knows(fds, T, ev.fd) /\ (ev.fd \notin fuzzy => SameFlag(fds, T, ev.fd))
  <2>1. \A u \in Root \ {t} : ~Clash(ev, call[u])
    BY DEF TrackInv, CallInv, Root
  <2>2. ev.fd \in Touched(ev) /\ Changed(ev) = ev.on
    BY <1>1 DEF Touched, Changed, IsEvent
  <2>3. \A u \in Root : ev.fd \notin Changed(call[u])
    BY <1>5, <2>1, <2>2 DEF Clash
  <2>4. ev.fd \in Fd
    BY <1>1, <1>5 DEF TypeInv, IsTable
  <2>5. ev.fd \in Settled
    BY <1>5, <2>3, <2>4 DEF Settled
  <2> QED BY <2>5 DEF TrackInv, SettledInv
<1> HIDE DEF ev, T, G
<1> USE DEF KernelTrue, TrackerTrue, DoubtAfter, FuzzyAfter
<1> DEFINE Goal == Knows(G, T, f) /\ (f \notin fuzzy' => SameFlag(G, T, f))
<1>6. f \in ev.on /\ f \notin doubt'
  BY DEF ev
<1>7. CASE ev.name = "open"
  <2>1. G = Remember(fds, ev.on, Context("file", PathOf(ev, options.raw), ev.flag))
    BY <1>1, <1>2, <1>7 DEF Applied, ApplyOpen
  <2>2. f \in DOMAIN G /\ G[f] = Context("file", PathOf(ev, options.raw), ev.flag)
    BY <1>6, <2>1 DEF Remember
  <2>3. f \in DOMAIN T /\ T[f].obj = ev.arg /\ T[f].cloexec = ev.flag
    BY <1>3, <1>6, <1>7
  <2> QED BY <2>2, <2>3 DEF Knows, SameFlag, PathOf, Context
<1>8. CASE ev.name = "close"
  <2>1. f \notin DOMAIN G
    BY <1>1, <1>2, <1>6, <1>8 DEF Forget, Applied, ApplyClose, IsEvent
  <2>2. f \notin DOMAIN T
    BY <1>3, <1>6, <1>8
  <2> QED BY <2>1, <2>2 DEF Knows, SameFlag
<1>9. CASE ev.name = "close_range" /\ ev.flag
  <2>1. G = [g \in DOMAIN fds |-> IF g \in ev.on THEN [fds[g] EXCEPT !.cloexec = TRUE] ELSE fds[g]]
    BY <1>1, <1>2, <1>9 DEF Applied, ApplyCloseRange
  <2>2. doubt' = doubt
    BY <1>1, <1>2, <1>9
  <2>3. Knows(fds, T, f)
    BY <1>3, <1>6, <1>9, <2>2
  <2>4. f \in DOMAIN fds => G[f].path = fds[f].path /\ G[f].cloexec = TRUE
    BY <1>1, <1>6, <2>1 DEF TypeInv, IsContext
  <2>5. f \in DOMAIN T => T[f].cloexec = TRUE
    BY <1>3, <1>6, <1>9
  <2>6. DOMAIN G = DOMAIN fds
    BY <2>1
  <2> QED BY <2>3, <2>4, <2>5, <2>6 DEF Knows, SameFlag
<1>10. CASE ev.name = "close_range" /\ ~ev.flag
  <2>1. f \notin DOMAIN G
    BY <1>1, <1>2, <1>6, <1>10 DEF Forget, Applied, ApplyCloseRange
  <2>2. f \notin DOMAIN T
    BY <1>3, <1>6, <1>10
  <2> QED BY <2>1, <2>2 DEF Knows, SameFlag
<1>11. CASE ev.name \in {"dup", "dup2", "fcntl_dup"}
  <2>1. /\ ev.fd \in DOMAIN T /\ T[ev.fd].obj = ev.truth /\ ev.fd \notin ev.on
        /\ f \in DOMAIN T /\ T[f].obj = ev.truth
        /\ T[f].cloexec = (IF ev.name = "dup" THEN FALSE ELSE ev.flag)
        /\ ev.name = "dup" => T[ev.fd].cloexec = ev.flag
    BY <1>3, <1>6, <1>11
  <2>2. ev.fd \notin doubt
    <3> SUFFICES ASSUME ev.fd \in doubt PROVE doubt' = doubt \cup ev.on
      BY <1>6
    <3> QED BY <1>1, <1>2, <1>11
  <2>3. Knows(fds, T, ev.fd) /\ (ev.fd \notin fuzzy => SameFlag(fds, T, ev.fd))
    BY <1>5, <2>1, <2>2
  <2>4. CASE ev.name = "dup"
    <3>1. CASE ev.fd \in DOMAIN fds
      <4>1. f \in DOMAIN G /\ G[f] = fds[ev.fd]
        BY <1>1, <1>2, <1>6, <2>4, <3>1 DEF Remember, Applied, ApplyDup
      <4>2. f \notin fuzzy' => ~ev.flag /\ ev.fd \notin fuzzy
        BY <1>2, <1>6, <2>4
      <4> QED BY <1>1, <2>1, <2>3, <2>4, <3>1, <4>1, <4>2 DEF Knows, SameFlag
    <3>2. CASE ev.fd \notin DOMAIN fds
      <4>1. ev.truth = "unfollowed"
        BY <2>1, <2>3, <3>2 DEF Knows
      <4>2. G = fds /\ doubt' = doubt
        BY <1>1, <1>2, <2>2, <2>4, <3>2, <4>1 DEF Applied, ApplyDup
      <4>3. f \notin DOMAIN fds
        BY <1>3, <1>6, <2>4, <4>2
      <4> QED BY <2>1, <4>1, <4>2, <4>3 DEF Knows, SameFlag
    <3> QED BY <3>1, <3>2
  <2>5. CASE ev.name = "dup2"
    <3>1. ev.truth # "unfollowed"
      BY <1>1, <1>2, <1>6, <2>5
    <3>2. ev.fd \in DOMAIN fds /\ IsContext(fds[ev.fd])
      BY <1>1, <2>1, <2>3, <3>1 DEF Knows, TypeInv
    <3>3. f \in DOMAIN G /\ G[f] = [fds[ev.fd] EXCEPT !.cloexec = ev.flag]
      BY <1>1, <1>2, <1>6, <2>5, <3>2 DEF Remember, Applied, ApplyDup2
    <3>4. G[f].path = fds[ev.fd].path /\ G[f].cloexec = ev.flag
      BY <3>2, <3>3 DEF IsContext
    <3> QED BY <2>1, <2>3, <2>5, <3>2, <3>3, <3>4 DEF Knows, SameFlag
  <2>6. CASE ev.name = "fcntl_dup"
    <3> DEFINE source == IF ev.fd \in DOMAIN fds THEN fds[ev.fd]
                         ELSE [NoContext EXCEPT !.kind = "fd", !.path = "fd"]
    <3>1. IsContext(source) /\ source.path \in {ev.truth, NoPath, "fd"}
      BY <1>1, <2>1, <2>3 DEF Knows, TypeInv, IsContext, NoContext, Context
    <3>2. G = Remember(fds, ev.on, [source EXCEPT !.cloexec = ev.flag])
      BY <1>1, <1>2, <2>6 DEF Applied, ApplyFcntlDup
    <3> HIDE DEF source
    <3>3. f \in DOMAIN G /\ G[f] = [source EXCEPT !.cloexec = ev.flag]
      BY <1>6, <3>2 DEF Remember
    <3>4. G[f].path = source.path /\ G[f].cloexec = ev.flag
      BY <3>1, <3>3 DEF IsContext
    <3> QED BY <2>1, <2>6, <3>1, <3>3, <3>4 DEF Knows, SameFlag
  <2> QED BY <1>11, <2>4, <2>5, <2>6
<1>12. CASE ev.name \in {"socket", "accept"}
  <2>1. f \in DOMAIN G /\ G[f].path = "socket" /\ G[f].cloexec = FALSE
    BY <1>1, <1>2, <1>6, <1>12 DEF Remember, Applied, ApplySocket, ApplyAccept, Context
  <2>2. f \in DOMAIN T /\ T[f].obj = "socket" /\ T[f].cloexec = ev.flag
    BY <1>3, <1>6, <1>12
  <2>3. f \notin fuzzy' => ~ev.flag
    BY <1>2, <1>6, <1>12
  <2> QED BY <1>1, <2>1, <2>2, <2>3 DEF Knows, SameFlag
<1>13. CASE ev.name = "pipe"
  <2>1. f \in DOMAIN G /\ G[f] = Context("pipe", "pipe", ev.flag)
    BY <1>1, <1>2, <1>6, <1>13 DEF Remember, Applied, ApplyPipe
  <2>2. f \in DOMAIN T /\ T[f].obj = "pipe" /\ T[f].cloexec = ev.flag
    BY <1>3, <1>6, <1>13
  <2> QED BY <2>1, <2>2 DEF Knows, SameFlag, Context
<1>14. CASE ev.name = "connect"
  <2>1. doubt' = doubt /\ fuzzy' = fuzzy /\ f = ev.fd
    BY <1>1, <1>2, <1>6, <1>14 DEF IsEvent
  <2>2. Knows(fds, T, f) /\ (f \notin fuzzy => SameFlag(fds, T, f))
    BY <1>3, <1>6, <1>14, <2>1
  <2>3. f \in DOMAIN T /\ f \in DOMAIN fds /\ IsContext(fds[f])
    BY <1>1, <1>3, <1>6, <1>14, <2>2 DEF Knows, TypeInv
  <2>4. f \in DOMAIN G /\ G[f] = [fds[f] EXCEPT !.kind = "socket", !.known = TRUE,
                                !.peer = IF options.raw THEN fds[f].peer ELSE ev.arg]
    BY <1>1, <1>2, <1>14, <2>1, <2>3 DEF Remember, Applied, ApplyConnect, Lookup
  <2>5. G[f].path = fds[f].path /\ G[f].cloexec = fds[f].cloexec
    BY <2>3, <2>4 DEF IsContext
  <2> QED BY <2>1, <2>2, <2>3, <2>4, <2>5 DEF Knows, SameFlag
<1>15. CASE ev.name = "eventfd"
  <2>1. doubt' = doubt /\ G = fds
    BY <1>1, <1>2, <1>15 DEF Applied
  <2>2. f \notin DOMAIN fds /\ T[f].obj = "unfollowed"
    BY <1>3, <1>6, <1>15, <2>1
  <2> QED BY <2>1, <2>2 DEF Knows, SameFlag
<1>16. CASE ev.name = "fcntl_setfd"
  <2>1. doubt' = doubt /\ f = ev.fd
    BY <1>1, <1>2, <1>6, <1>16 DEF IsEvent
  <2>2. Knows(fds, T, f) /\ T[f].cloexec = ev.flag
    BY <1>3, <1>6, <1>16, <2>1
  <2>3. CASE f \in DOMAIN fds
    <3>1. G = [fds EXCEPT ![f].cloexec = ev.flag]
      BY <1>1, <1>2, <1>16, <2>1, <2>3 DEF Applied, ApplySetFd
    <3>2. f \in DOMAIN G /\ G[f].path = fds[f].path /\ G[f].cloexec = ev.flag
      BY <1>1, <2>3, <3>1 DEF TypeInv, IsContext
    <3> QED BY <2>2, <2>3, <3>2 DEF Knows, SameFlag
  <2>4. CASE f \notin DOMAIN fds
    <3>1. G = fds
      BY <1>1, <1>2, <1>16, <2>1, <2>4 DEF Applied, ApplySetFd
    <3> QED BY <2>2, <2>4, <3>1 DEF Knows, SameFlag
  <2> QED BY <2>3, <2>4
<1> QED BY <1>4, <1>7, <1>8, <1>9, <1>10, <1>11, <1>12, <1>13, <1>14, <1>15, <1>16 DEF Changing

LEMMA ReportKeepsTrack ==
  ASSUME TrackInv, NEW t \in Thread, Report(t)
  PROVE  TrackInv'
<1> DEFINE ev == call[t]
           T == table["root"]
<1> USE DEF TrackInv
<1>1. /\ IsEvent(ev) /\ ev.name # "exec_event" /\ table' = table /\ Root' = Root
      /\ \A f \in Fd \ ev.on : f \in DOMAIN fds <=> f \in DOMAIN fds'
      /\ \A f \in DOMAIN fds \ ev.on : fds'[f] = fds[f]
      /\ \A f \in DOMAIN fds' : IsContext(fds'[f])
      /\ Agree(ev.on, doubt, doubt') /\ Agree(ev.on, fuzzy, fuzzy')
      /\ t \notin Root \/ ev.shaky => ev.on \subseteq doubt'
      /\ ~Succeeded(ev) => ev.on = {}
  BY ReportFrame DEF IsEvent
<1>2. /\ DOMAIN call' = Thread /\ call'[t] = Nothing
      /\ \A u \in Thread \ {t} : call'[u] = call[u]
  BY ReportFrame DEF TypeInv
<1>3. Changed(call'[t]) = {} /\ Touched(call'[t]) = {} /\ ~Clear(t)' /\ call'[t].name # "exec_event"
  BY <1>2 DEF Changed, Touched, Nothing, Clear, InKernel
<1>4. Changed(ev) = ev.on /\ InKernel(t)
  BY <1>1 DEF Changed, IsEvent, InKernel
(* What holds of a descriptor that the call has not touched stays.          *)
<1>5. ASSUME NEW f \in Fd \ ev.on
      PROVE  /\ f \in doubt <=> f \in doubt'
             /\ f \in fuzzy <=> f \in fuzzy'
             /\ f \in DOMAIN fds <=> f \in DOMAIN fds'
             /\ f \in DOMAIN fds => fds'[f] = fds[f]
  BY <1>1, <1>5 DEF Agree
<1>6. TypeInv'
  BY <1>1, <1>2 DEF TypeInv
<1>7. SettledInv'
  <2> SUFFICES ASSUME NEW f \in Settled'
               PROVE  Knows(fds', T, f) /\ (f \notin fuzzy' => SameFlag(fds', T, f))
    BY <1>1 DEF SettledInv
  <2>1. f \in Fd /\ f \notin doubt' /\ \A u \in Root \ {t} : f \notin Changed(call[u])
    BY <1>1, <1>2 DEF Settled, Root
  <2>2. CASE f \in ev.on
    <3>1. Clear(t)
      BY <1>1, <1>4, <2>1, <2>2 DEF Clear
    <3> QED BY <2>1, <2>2, <3>1, ReportedDescriptors
  <2>3. CASE f \notin ev.on
    <3>1. f \in Settled
      BY <1>4, <1>5, <2>1, <2>3 DEF Settled
    <3>2. Knows(fds, T, f) /\ (f \notin fuzzy => SameFlag(fds, T, f))
      BY <3>1 DEF SettledInv
    <3> QED BY <1>5, <2>1, <2>3, <3>2 DEF Knows, SameFlag
  <2> QED BY <2>2, <2>3
<1>8. CallInv'
  <2> SUFFICES ASSUME NEW u \in Thread, Clear(u)'
               PROVE  /\ Succeeded(call'[u]) => KernelTrue(call'[u], T)
                                                /\ TrackerTrue(call'[u], fds', T, doubt', fuzzy')
                      /\ \A v \in Root \ {u} : ~Clash(call'[u], call'[v])
    BY <1>1 DEF CallInv
  <2>1. u # t /\ call'[u] = call[u] /\ Clear(u) /\ u \in Root
    BY <1>1, <1>2, <1>3 DEF Clear, InKernel
  <2>2. IsEvent(call[u]) /\ Changed(call[u]) = call[u].on
    BY <2>1 DEF Clear, InKernel, TypeInv, Nothing, Dead, IsEvent, Changed
  <2>3. \A f \in call[u].on \ doubt' : f \in Fd \ ev.on /\ f \notin doubt
    <3> SUFFICES ASSUME NEW f \in call[u].on \ doubt' PROVE f \notin ev.on
      BY <1>5, <2>2 DEF IsEvent
    <3>1. CASE t \in Root
      <4>1. ~Clash(call[u], ev)
        BY <2>1, <3>1 DEF CallInv
      <4>2. ev.on \subseteq Touched(ev)
        BY <1>1 DEF Touched, IsEvent
      <4> QED BY <2>2, <4>1, <4>2 DEF Clash
    <3>2. CASE t \notin Root
      BY <1>1, <3>2
    <3> QED BY <3>1, <3>2
  <2>4. Succeeded(call[u]) => KernelTrue(call[u], T) /\ TrackerTrue(call[u], fds, T, doubt, fuzzy)
    BY <2>1 DEF CallInv
  <2>5. Succeeded(call[u]) => TrackerTrue(call[u], fds', T, doubt', fuzzy')
    BY <1>5, <2>3, <2>4 DEF TrackerTrue, Knows, SameFlag
  <2>6. \A v \in Root \ {u} : ~Clash(call'[u], call'[v])
    <3> SUFFICES ASSUME NEW v \in Root \ {u} PROVE ~Clash(call[u], call'[v])
      BY <2>1
    <3>1. CASE v = t
      BY <1>3, <3>1 DEF Clash
    <3>2. CASE v # t
      BY <1>2, <2>1, <3>2 DEF CallInv, Root
    <3> QED BY <3>1, <3>2
  <2> QED BY <2>1, <2>4, <2>5, <2>6
<1>9. ExecInv'
  <2> SUFFICES ASSUME NEW u \in Thread, call'[u].name = "exec_event" PROVE ExecWaits(u)'
    BY DEF ExecInv
  <2>1. u # t /\ call'[u] = call[u]
    BY <1>2, <1>3
  <2>2. ExecWaits(u) /\ Pid(u) # Pid(t)
    BY <1>4, <2>1 DEF ExecInv, ExecWaits, InKernel
  <2>3. \A v \in Thread \ {u} : Pid(v) = Pid(u) => call'[v].name = "dead"
    BY <1>2, <2>2 DEF ExecWaits
  <2>4. u \in Root => t \notin Root
    BY <2>2 DEF Root
  <2>5. u \in Root => \A f \in Fd \ (doubt' \cup fuzzy') : f \notin ev.on /\ f \notin doubt \cup fuzzy
    BY <1>1, <1>5, <2>4
  <2> QED BY <1>1, <1>5, <2>1, <2>2, <2>3, <2>5 DEF ExecWaits, Pid, Root
<1> QED BY <1>6, <1>7, <1>8, <1>9

(* A call that ends unseen leaves the tracker as it was, and its            *)
(* descriptors in doubt.                                                   *)
LEMMA UnseenKeepsTrack ==
  ASSUME TrackInv, NEW t \in Thread, Unseen(t)
  PROVE  TrackInv'
<1> DEFINE ev == call[t]
           T == table["root"]
<1> USE DEF TrackInv
<1>1. /\ IsEvent(ev) /\ InKernel(t) /\ ev.name # "exec_event"
      /\ table' = table /\ fds' = fds /\ fuzzy' = fuzzy /\ Root' = Root
      /\ doubt' = doubt \cup ev.on
  BY DEF Unseen, InKernel, TypeInv, Nothing, Dead, Root, Pid
<1>2. /\ DOMAIN call' = Thread /\ call'[t] = Nothing
      /\ \A u \in Thread \ {t} : call'[u] = call[u]
  BY DEF Unseen, TypeInv
<1>3. Changed(call'[t]) = {} /\ Touched(call'[t]) = {} /\ ~Clear(t)' /\ call'[t].name # "exec_event"
  BY <1>2 DEF Changed, Touched, Nothing, Clear, InKernel
<1>4. Changed(ev) = ev.on
  BY <1>1 DEF Changed, IsEvent
<1>5. TypeInv'
  BY <1>1, <1>2 DEF TypeInv
<1>6. SettledInv'
  <2> SUFFICES ASSUME NEW f \in Settled'
               PROVE  Knows(fds, T, f) /\ (f \notin fuzzy => SameFlag(fds, T, f))
    BY <1>1 DEF SettledInv
  <2>1. f \in Settled
    BY <1>1, <1>2, <1>4 DEF Settled, Root
  <2> QED BY <2>1 DEF SettledInv
<1>7. CallInv'
  <2> SUFFICES ASSUME NEW u \in Thread, Clear(u)'
               PROVE  /\ Succeeded(call'[u]) => KernelTrue(call'[u], T)
                                                /\ TrackerTrue(call'[u], fds, T, doubt', fuzzy)
                      /\ \A v \in Root \ {u} : ~Clash(call'[u], call'[v])
    BY <1>1 DEF CallInv
  <2>1. u # t /\ call'[u] = call[u] /\ Clear(u)
    BY <1>1, <1>2, <1>3 DEF Clear, InKernel
  <2>2. Succeeded(call[u]) => KernelTrue(call[u], T) /\ TrackerTrue(call[u], fds, T, doubt, fuzzy)
    BY <2>1 DEF CallInv
  <2>3. Succeeded(call[u]) => TrackerTrue(call[u], fds, T, doubt', fuzzy)
    BY <1>1, <2>2 DEF TrackerTrue
  <2>4. \A v \in Root \ {u} : ~Clash(call'[u], call'[v])
    <3> SUFFICES ASSUME NEW v \in Root \ {u} PROVE ~Clash(call[u], call'[v])
      BY <2>1
    <3>1. CASE v = t
      BY <1>3, <3>1 DEF Clash
    <3>2. CASE v # t
      BY <1>2, <2>1, <3>2 DEF CallInv, Root
    <3> QED BY <3>1, <3>2
  <2> QED BY <2>1, <2>2, <2>3, <2>4
<1>8. ExecInv'
  <2> SUFFICES ASSUME NEW u \in Thread, call'[u].name = "exec_event" PROVE ExecWaits(u)'
    BY DEF ExecInv
  <2>1. u # t /\ call'[u] = call[u]
    BY <1>2, <1>3
  <2>2. ExecWaits(u) /\ Pid(u) # Pid(t)
    BY <1>1, <2>1 DEF ExecInv, ExecWaits, InKernel
  <2>3. \A v \in Thread \ {u} : Pid(v) = Pid(u) => call'[v].name = "dead"
    BY <1>2, <2>2 DEF ExecWaits
  <2> QED BY <1>1, <2>1, <2>2, <2>3 DEF ExecWaits, Pid, Root
<1> QED BY <1>5, <1>6, <1>7, <1>8

-----------------------------------------------------------------------------
(* The invariant.                                                          *)

LEMMA TrackInit == Init => TrackInv
<1> SUFFICES ASSUME Init PROVE TrackInv
  OBVIOUS
<1>1. Min(Fd) \in Fd
  BY MinIsMember, ObserversAssumption
<1>2. /\ \A t \in Thread : call[t] = (IF t \in Forked THEN Dead ELSE Nothing)
      /\ DOMAIN call = Thread /\ doubt = {}
  BY DEF Init, Nothing, Dead
<1>3. \A t \in Thread : Changed(call[t]) = {} /\ ~InKernel(t) /\ call[t].name # "exec_event"
  BY <1>2 DEF Changed, InKernel, Nothing, Dead
<1>4. CallInv /\ ExecInv
  BY <1>3 DEF CallInv, ExecInv, Clear
<1>5. Settled = Fd
  BY <1>2, <1>3 DEF Settled, Root
<1>6. PICK links \in [{Min(Fd)} -> [kind : {"file"}, path : Path]], flag \in BOOLEAN :
        \/ /\ table = [p \in {"root", "child"} |->
                         [f \in DOMAIN links |-> Descriptor("file", links[f].path, flag)]]
           /\ fds = SeedFromProc(links)
           /\ fuzzy = IF flag THEN DOMAIN links ELSE {}
        \/ /\ table = [p \in {"root", "child"} |->
                         [f \in DOMAIN links |-> Descriptor("anon", "unfollowed", FALSE)]]
           /\ fds = <<>>
           /\ fuzzy = {}
  BY DEF Init
<1>7. CASE /\ table = [p \in {"root", "child"} |->
                         [f \in DOMAIN links |-> Descriptor("file", links[f].path, flag)]]
           /\ fds = SeedFromProc(links)
           /\ fuzzy = IF flag THEN DOMAIN links ELSE {}
  <2> DEFINE T == [f \in DOMAIN links |-> Descriptor("file", links[f].path, flag)]
  <2>1. IsTable(T)
    BY <1>1 DEF IsTable, IsDescriptor, Descriptor
  <2>2. \A f \in DOMAIN fds : IsContext(fds[f])
    BY <1>7 DEF SeedFromProc, Context, IsContext
  <2>3. table["root"] = T /\ table["child"] = T /\ DOMAIN table = {"root", "child"}
    BY <1>7
  <2>4. TypeInv
    BY <1>2, <2>1, <2>2, <2>3 DEF TypeInv
  <2>5. \A f \in Fd : Knows(fds, T, f) /\ (f \notin fuzzy => SameFlag(fds, T, f))
    BY <1>7 DEF Knows, SameFlag, SeedFromProc, Context, Descriptor
  <2> QED BY <1>4, <1>5, <2>3, <2>4, <2>5 DEF TrackInv, SettledInv
<1>8. CASE /\ table = [p \in {"root", "child"} |->
                         [f \in DOMAIN links |-> Descriptor("anon", "unfollowed", FALSE)]]
           /\ fds = <<>>
           /\ fuzzy = {}
  <2> DEFINE T == [f \in DOMAIN links |-> Descriptor("anon", "unfollowed", FALSE)]
  <2>1. IsTable(T)
    BY <1>1 DEF IsTable, IsDescriptor, Descriptor
  <2>2. DOMAIN fds = {}
    BY <1>8
  <2>3. table["root"] = T /\ table["child"] = T /\ DOMAIN table = {"root", "child"}
    BY <1>8
  <2>4. TypeInv
    BY <1>2, <2>1, <2>2, <2>3 DEF TypeInv
  <2>5. \A f \in DOMAIN T : T[f].obj = "unfollowed"
    BY DEF Descriptor
  <2>6. \A f \in Fd : Knows(fds, T, f) /\ SameFlag(fds, T, f)
    BY <2>2, <2>5 DEF Knows, SameFlag
  <2> QED BY <1>4, <1>5, <2>3, <2>4, <2>6 DEF TrackInv, SettledInv
<1> QED BY <1>6, <1>7, <1>8

LEMMA TrackStep == TrackInv /\ [Next]_vars => TrackInv'
<1> SUFFICES ASSUME TrackInv, [Next]_vars PROVE TrackInv'
  OBVIOUS
<1>1. TypeInv
  BY DEF TrackInv
<1>2. ASSUME NEW t \in Thread, call[t] = Nothing,
             \/ Open(t) \/ Create(t) \/ Socket(t) \/ Pipe(t) \/ Close(t) \/ CloseRange(t)
             \/ Dup(t) \/ Dup2(t) \/ FcntlDup(t) \/ SetFd(t)
             \/ Connect(t) \/ Accept(t) \/ Use(t) \/ Fail(t)
      PROVE  TrackInv'
  <2>1. Shaped(t)
    BY <1>1, <1>2, OpenShape, CreateShape, SocketShape, PipeShape, CloseShape, CloseRangeShape,
       DupShape, Dup2Shape, FcntlDupShape, SetFdShape, ConnectShape, AcceptShape, UseShape, FailShape
  <2> QED BY <1>2, <2>1, ExecuteKeepsTrack
<1>3. CASE UNCHANGED vars
  BY <1>3 DEF vars, kernel, TrackInv, TypeInv, SettledInv, CallInv, ExecInv, ExecWaits, Settled,
              Root, Pid, Clear, InKernel, Clash
<1> QED BY <1>2, <1>3, ForkKeepsTrack, ExecKeepsTrack, ExecStopKeepsTrack, ReportKeepsTrack,
       UnseenKeepsTrack DEF Next, MakeCall

LEMMA TrackAlways == Spec => []TrackInv
BY TrackInit, TrackStep, PTL DEF Spec

(* Once its calls are reported, the tracker holds an entry for every          *)
(* descriptor of the program that it follows, of the right name, and none   *)
(* for a closed one (StateTracker::apply, on_exec).                         *)
THEOREM TableFollowed == Spec => []TableAgrees
<1>1. TrackInv => TableAgrees
  <2> SUFFICES ASSUME TrackInv, NEW f \in Certain PROVE Knows(fds, table["root"], f)
    BY DEF TableAgrees, Knows
  <2>1. f \in Settled
    BY DEF Certain, Settled, Root, Touched, Changed
  <2> QED BY <2>1 DEF TrackInv, SettledInv
<1> QED BY <1>1, TrackAlways, PTL

(* And the flag that decides what an exec closes is the kernel's.          *)
THEOREM FlagsFollowed == Spec => []CloexecAgrees
<1>1. TrackInv => CloexecAgrees
  <2> SUFFICES ASSUME TrackInv, NEW f \in Certain \ fuzzy PROVE SameFlag(fds, table["root"], f)
    BY DEF CloexecAgrees, SameFlag
  <2>1. f \in Settled
    BY DEF Certain, Settled, Root, Touched, Changed
  <2> QED BY <2>1 DEF TrackInv, SettledInv
<1> QED BY <1>1, TrackAlways, PTL

(* The source a call looks up, when no other call changes it meanwhile.    *)
LEMMA LookedUp ==
  ASSUME TrackInv, NEW t \in Thread, Report(t), Clear(t), Succeeded(call[t]),
         call[t].name \in {"write", "sendto", "mmap"}, call[t].fd \notin doubt
  PROVE  Lookup(fds, call[t].fd).path \in {call[t].truth, NoPath, "fd"}
<1> DEFINE ev == call[t]
           T == table["root"]
<1>1. IsEvent(ev) /\ TypeInv /\ ev.on = {}
  BY ReportFrame DEF TrackInv, IsEvent, Changing
<1>2. ev.fd \in DOMAIN T /\ T[ev.fd].obj = ev.truth
  BY DEF TrackInv, CallInv, KernelTrue
<1>3. \A u \in Root \ {t} : ~Clash(ev, call[u])
  BY DEF TrackInv, CallInv, Root
<1>4. ev.fd \in Touched(ev) /\ Changed(ev) = {}
  BY <1>1 DEF Touched, Changed, IsEvent
<1>5. \A u \in Root : ev.fd \notin Changed(call[u])
  BY <1>3, <1>4 DEF Clash
<1>6. ev.fd \in Settled
  BY <1>1, <1>2, <1>5 DEF Settled, TypeInv, IsTable
<1>7. Knows(fds, T, ev.fd)
  BY <1>6 DEF TrackInv, SettledInv
<1> QED BY <1>2, <1>7 DEF Lookup, Knows, NoContext, Context

(* What is printed of a call is settled when it is printed.                *)
LEMMA LastAfter ==
  ASSUME [Next]_vars
  PROVE  last' = last \/ \E t \in Thread : Report(t) /\ PassesFilter(call[t].name)
<1>1. ASSUME NEW t \in Thread,
             \/ Open(t) \/ Create(t) \/ Socket(t) \/ Pipe(t) \/ Close(t) \/ CloseRange(t)
             \/ Dup(t) \/ Dup2(t) \/ FcntlDup(t) \/ SetFd(t)
             \/ Connect(t) \/ Accept(t) \/ Use(t) \/ Fail(t)
      PROVE  last' = last
  BY <1>1 DEF Open, Create, Socket, Pipe, Close, CloseRange, Dup, Dup2, FcntlDup, Copy, SetFd,
              Connect, Accept, Use, Fail, Execute
<1>2. ASSUME NEW t \in Thread, Fork(t) \/ Exec(t) \/ ExecStop(t) \/ Unseen(t)
      PROVE  last' = last
  BY <1>2 DEF Fork, Exec, ExecStop, Unseen
<1>3. ASSUME NEW t \in Thread, Report(t)
      PROVE  last' = last \/ PassesFilter(call[t].name)
  BY <1>3 DEF Report
<1>4. CASE UNCHANGED vars
  BY <1>4 DEF vars
<1> QED BY <1>1, <1>2, <1>3, <1>4 DEF Next, MakeCall

(* The options are those mini-strace was started with.                     *)
LEMMA OptionsStay == ASSUME [Next]_vars PROVE options' = options
<1>1. ASSUME NEW t \in Thread,
             \/ Open(t) \/ Create(t) \/ Socket(t) \/ Pipe(t) \/ Close(t) \/ CloseRange(t)
             \/ Dup(t) \/ Dup2(t) \/ FcntlDup(t) \/ SetFd(t)
             \/ Connect(t) \/ Accept(t) \/ Use(t) \/ Fail(t)
      PROVE  options' = options
  BY <1>1 DEF Open, Create, Socket, Pipe, Close, CloseRange, Dup, Dup2, FcntlDup, Copy, SetFd,
              Connect, Accept, Use, Fail, Execute
<1>2. ASSUME NEW t \in Thread, Fork(t) \/ Exec(t) \/ ExecStop(t) \/ Report(t) \/ Unseen(t)
      PROVE  options' = options
  BY <1>2 DEF Fork, Exec, ExecStop, Report, Unseen
<1>3. CASE UNCHANGED vars
  BY <1>3 DEF vars
<1> QED BY <1>1, <1>2, <1>3 DEF Next, MakeCall

(* The record of the call just printed.                                    *)
LEMMA PrintedCall ==
  ASSUME NEW t \in Thread, Report(t), PassesFilter(call[t].name)
  PROVE  LET ev == call[t]
             ctx == EventContext(fds, ev, options.raw)
         IN  /\ last'.name = ev.name /\ last'.err = ev.err /\ last'.truth = ev.truth
             /\ last'.sure = (Pid(t) = "root" /\ ~ev.shaky /\ ev.fd \notin doubt)
             /\ last'.path = ctx.path /\ last'.cause = ev.cause
             /\ \E printed : /\ printed.name = ev.name /\ printed.err = ev.err
                             /\ printed.injected = ev.injected
                             /\ printed.traced = options.bpf
                             /\ printed.arg = last'.arg
                             /\ last'.why = Explain(printed)
             /\ options' = options
BY DEF Report

(* The file a write or a mapping is attributed to, by a lookup at the exit   *)
(* stop, is the one its descriptor referred to when the kernel executed it  *)
(* (enrich_before of the state tracker).                                   *)
THEOREM AttributionTrue == Spec => []ContextTrue
<1>1. Init => ContextTrue
  BY DEF Init, ContextTrue, Nothing
<1>2. TrackInv /\ ContextTrue /\ [Next]_vars => ContextTrue'
  <2> SUFFICES ASSUME TrackInv, ContextTrue, [Next]_vars PROVE ContextTrue'
    OBVIOUS
  <2>1. CASE last' = last
    BY <2>1 DEF ContextTrue
  <2>2. ASSUME NEW t \in Thread, Report(t), PassesFilter(call[t].name) PROVE ContextTrue'
    <3> SUFFICES ASSUME call[t].name \in {"write", "mmap", "sendto"}, last'.sure, call[t].err = "ok"
                 PROVE  last'.path \in {call[t].truth, NoPath, "fd"}
      BY <2>2, PrintedCall DEF ContextTrue
    <3>1. Pid(t) = "root" /\ ~call[t].shaky /\ call[t].fd \notin doubt
      BY <2>2, PrintedCall
    <3>2. Clear(t) /\ Succeeded(call[t])
      BY <2>2, <3>1 DEF Clear, Root, Report, Succeeded
    <3>3. EventContext(fds, call[t], options.raw) = Lookup(fds, call[t].fd)
      BY <3>2 DEF EventContext, Enriched, Succeeded
    <3> QED BY <2>2, <3>1, <3>2, <3>3, LookedUp, PrintedCall
  <2> QED BY <2>1, <2>2, LastAfter
<1> QED BY <1>1, <1>2, TrackAlways, PTL DEF Spec

(* With whatever options, an injected error is told from the kernel's and a *)
(* denial never goes without an explanation; and unless the calls are       *)
(* stopped by mini-strace's own seccomp program, seccomp is blamed only      *)
(* where a filter of the target denied the call (deny_explainer.cpp,        *)
(* explain).                                                               *)
THEOREM CausesExplained == Spec => []DenialsExplained
<1>1. Init => DenialsExplained
  BY DEF Init, DenialsExplained
<1>2. TrackInv /\ DenialsExplained /\ [Next]_vars => DenialsExplained'
  <2> SUFFICES ASSUME TrackInv, DenialsExplained, [Next]_vars PROVE DenialsExplained'
    OBVIOUS
  <2>1. CASE last' = last
    BY <2>1, OptionsStay DEF DenialsExplained
  <2>2. ASSUME NEW t \in Thread, Report(t), PassesFilter(call[t].name) PROVE DenialsExplained'
    <3> SUFFICES ASSUME call[t].err # "ok"
                 PROVE  /\ (last'.why = "injected_fault") = (call[t].cause = "injected")
                        /\ last'.why = "maybe_seccomp" =>
                             call[t].cause = "filter" \/ options.bpf
                        /\ call[t].err \in {"EPERM", "EINVAL"} => last'.why # "none"
                        /\ last'.why = "missing_path" => last'.arg # NoPath
      BY <2>2, PrintedCall DEF DenialsExplained
    <3>1. TypeInv /\ CauseTrue(call[t])
      BY <2>2, ReportFrame DEF TrackInv, IsEvent, Succeeded
    <3>2. PICK printed : /\ printed.name = call[t].name /\ printed.err = call[t].err
                         /\ printed.injected = call[t].injected
                         /\ printed.traced = options.bpf
                         /\ printed.arg = last'.arg
                         /\ last'.why = Explain(printed)
      BY <2>2, PrintedCall
    <3>3. printed.injected = (call[t].cause = "injected")
      BY <3>1, <3>2 DEF CauseTrue
    <3>4. CASE call[t].cause = "injected"
      <4>1. Explain(printed) = "injected_fault"
        BY <3>2, <3>3, <3>4 DEF Explain, Failed, Succeeded, IsInjected
      <4> QED BY <3>2, <3>4, <4>1
    <3>5. CASE call[t].cause # "injected"
      <4>1. printed.name = "getpid" => call[t].cause = "filter"
        BY <3>1, <3>2, <3>5 DEF CauseTrue
      <4>2. Explain(printed) =
              (IF ~IsInterestingErrno(printed.err) THEN "none"
               ELSE IF options.bpf THEN "maybe_seccomp"
               ELSE IF printed.err \in {"EPERM", "ENOSYS"} /\ CannotFailWithEperm(printed.name)
                 THEN "maybe_seccomp"
               ELSE IF ExplainPathAccess(printed) # "none" THEN ExplainPathAccess(printed)
               ELSE IF printed.err = "EINVAL" THEN "invalid_argument"
               ELSE ExplainPolicy(printed.err))
        BY <3>2, <3>3, <3>5 DEF Explain, Failed, Succeeded, IsInjected
      <4> QED BY <3>2, <3>5, <4>1, <4>2
          DEF IsInterestingErrno, CannotFailWithEperm, ExplainPathAccess, ExplainPolicy
    <3> QED BY <3>4, <3>5
  <2> QED BY <2>1, <2>2, LastAfter
<1> QED BY <1>1, <1>2, TrackAlways, PTL DEF Spec

-----------------------------------------------------------------------------
(* The counters of the sinks.                                              *)
LEMMA CountIsTotal == ASSUME NEW b PROVE Count(b) = Total(b, DOMAIN b)
BY Zenon DEF Count, Total, BagToSet

LEMMA CopiesInNat == ASSUME NEW b, IsCounter(b), NEW x PROVE Copies(b, x) \in Nat
BY DEF IsCounter, Copies, BagIn, BagToSet

LEMMA NoCopies ==
  /\ IsTally(EmptyBag) /\ Count(EmptyBag) = 0 /\ DOMAIN EmptyBag = {}
  /\ \A x : Copies(EmptyBag, x) = 0
<1>1. DOMAIN EmptyBag = {}
  BY DEF EmptyBag, SetToBag
<1>2. Count(EmptyBag) = 0
  BY <1>1, CountIsTotal, TotalEmpty
<1> QED BY <1>1, <1>2, FS_EmptySet DEF IsTally, IsCounter, Copies, BagIn, BagToSet

(* One more of each of some.                                               *)
More(b, c, S) == \A y : Copies(c, y) = Copies(b, y) + (IF y \in S THEN 1 ELSE 0)

LEMMA OneMore ==
  ASSUME NEW b, IsCounter(b), NEW x, NEW c, c = BagAdd(b, x)
  PROVE  /\ IsCounter(c) /\ DOMAIN c = DOMAIN b \cup {x}
         /\ More(b, c, {x})
<1>1. DOMAIN c = DOMAIN b \cup {x}
  BY DEF BagAdd
<1>2. \A y \in DOMAIN c : c[y] = Copies(b, y) + (IF y = x THEN 1 ELSE 0)
  <2> SUFFICES ASSUME NEW y \in DOMAIN c PROVE c[y] = Copies(b, y) + (IF y = x THEN 1 ELSE 0)
    OBVIOUS
  <2>1. CASE x \in DOMAIN b
    BY <2>1 DEF BagAdd, Copies, BagIn, BagToSet, IsCounter
  <2>2. CASE x \notin DOMAIN b
    BY <2>2 DEF BagAdd, Copies, BagIn, BagToSet, IsCounter
  <2> QED BY <2>1, <2>2
<1>3. IsCounter(c)
  BY <1>2, CopiesInNat DEF IsCounter
<1>4. ASSUME NEW y PROVE Copies(c, y) = Copies(b, y) + (IF y \in {x} THEN 1 ELSE 0)
  BY <1>1, <1>2 DEF Copies, BagIn, BagToSet
<1> QED BY <1>1, <1>3, <1>4 DEF More

LEMMA OneMoreCounts ==
  ASSUME NEW b, IsTally(b), NEW x, NEW c, c = BagAdd(b, x)
  PROVE  IsTally(c) /\ Count(c) = Count(b) + 1
<1> DEFINE D == DOMAIN b
<1>1. IsCounter(b) /\ IsCounter(c) /\ DOMAIN c = D \cup {x} /\ More(b, c, {x})
  BY OneMore DEF IsTally
<1>2. IsFiniteSet(D) /\ IsFiniteSet(D \cup {x}) /\ IsFiniteSet(D \ {x})
  <2>1. IsFiniteSet(D)
    BY DEF IsTally
  <2> QED BY <2>1, FS_AddElement, FS_RemoveElement
<1>3. /\ \A y \in D : b[y] \in Int
      /\ \A y \in D \cup {x} : c[y] \in Int
      /\ \A y \in D : c[y] = b[y] + (IF y = x THEN 1 ELSE 0)
      /\ x \notin D => c[x] = 1
  BY <1>1 DEF More, Copies, BagIn, BagToSet, IsCounter
<1> HIDE DEF D
<1>4. CASE x \in D
  <2>1. D \cup {x} = D
    BY <1>4
  <2>2. Total(c, D) = c[x] + Total(c, D \ {x})
    BY <1>2, <1>3, <1>4, TotalRemove
  <2>3. Total(b, D) = b[x] + Total(b, D \ {x})
    BY <1>2, <1>3, <1>4, TotalRemove
  <2>4. Total(c, D \ {x}) = Total(b, D \ {x})
    BY <1>2, <1>3, TotalSame
  <2>5. Total(b, D \ {x}) \in Int
    BY <1>2, <1>3, TotalInteger
  <2>6. Total(c, D) = Total(b, D) + 1
    BY <1>3, <1>4, <2>2, <2>3, <2>4, <2>5
  <2> QED BY <1>1, <1>2, <2>1, <2>6, CountIsTotal DEF D, IsTally
<1>5. CASE x \notin D
  <2>1. Total(c, D \cup {x}) = Total(c, D) + c[x]
    BY <1>2, <1>3, <1>5, TotalAdd
  <2>2. Total(c, D) = Total(b, D)
    BY <1>2, <1>3, <1>5, TotalSame
  <2>3. Total(c, D \cup {x}) = Total(b, D) + 1
    BY <1>3, <1>5, <2>1, <2>2
  <2> QED BY <1>1, <1>2, <2>3, CountIsTotal DEF D, IsTally
<1> QED BY <1>4, <1>5

LEMMA OneEach ==
  ASSUME NEW b, IsCounter(b), NEW S
  PROVE  /\ IsCounter(b (+) SetToBag(S))
         /\ More(b, b (+) SetToBag(S), S)
<1> DEFINE c == b (+) SetToBag(S)
<1>1. DOMAIN c = DOMAIN b \cup S
  BY DEF (+), SetToBag
<1>2. \A y \in DOMAIN c : c[y] = Copies(b, y) + (IF y \in S THEN 1 ELSE 0)
  BY DEF (+), SetToBag, Copies, BagIn, BagToSet
<1> HIDE DEF c
<1>3. \A y : Copies(b, y) \in Nat
  BY CopiesInNat
<1>4. IsCounter(c)
  BY <1>2, <1>3 DEF IsCounter
<1>5. ASSUME NEW y PROVE Copies(c, y) = Copies(b, y) + (IF y \in S THEN 1 ELSE 0)
  BY <1>1, <1>2 DEF Copies, BagIn, BagToSet
<1> QED BY <1>4, <1>5 DEF c, More

-----------------------------------------------------------------------------
(* The records of --net.                                                   *)

IsSocket(s) ==
  DOMAIN s = {"made", "peer", "sends", "errors"} /\ s.sends \in Nat /\ s.errors \in Nat

IsNetwork(net) ==
  /\ DOMAIN net = {"calls", "sockets"}
  /\ IsTally(net.calls) /\ IsFiniteSet(DOMAIN net.sockets)
  /\ \A key \in DOMAIN net.sockets : IsSocket(net.sockets[key])

SendsOf(sockets) == [key \in DOMAIN sockets |-> sockets[key].sends + sockets[key].errors]

LEMMA AttemptsAreTotal ==
  ASSUME NEW net, IsFiniteSet(DOMAIN net.sockets)
  PROVE  Attempts(net) = Total(SendsOf(net.sockets), DOMAIN net.sockets)
<1> DEFINE sockets == net.sockets
           S == DOMAIN sockets
           h == SendsOf(sockets)
           A(f) == [s \in SUBSET S |-> IF s = {} THEN 0
                      ELSE (sockets[Some(s)].sends + sockets[Some(s)].errors) + f[s \ {Some(s)}]]
           f0 == CHOOSE f : f = A(f)
           g0 == CHOOSE f : f = OneTerm(f, h, S)
<1>1. Attempts(net) = f0[S]
  BY Zenon DEF Attempts, MapThenSumSet, MapThenFoldSet, Some
<1>2. Total(h, S) = g0[S]
  BY TotalIsFixpoint
<1>3. ASSUME NEW f PROVE A(f) = OneTerm(f, h, S)
  <2>1. \A s \in SUBSET S : s # {} => Some(s) \in S
    BY DEF Some
  <2>2. \A s \in SUBSET S : s # {} => h[Some(s)] = sockets[Some(s)].sends + sockets[Some(s)].errors
    BY <2>1 DEF SendsOf
  <2> HIDE DEF h
  <2> QED BY <2>2 DEF OneTerm
<1> HIDE DEF A, h
<1>4. \E f : f = OneTerm(f, h, S)
  BY TotalExists
<1>5. g0 = OneTerm(g0, h, S)
  BY <1>4
<1>6. f0 = A(f0)
  <2>1. \E f : f = A(f)
    BY <1>3, <1>4
  <2> QED BY <2>1
<1>7. f0 = OneTerm(f0, h, S)
  BY <1>3, <1>6
<1> HIDE DEF f0, g0
<1>8. f0[S] = g0[S]
  BY <1>5, <1>7, FixpointsAgree
<1> QED BY <1>1, <1>2, <1>8 DEF h

LEMMA RecordOf ==
  ASSUME NEW net, IsNetwork(net), NEW key
  PROVE  IsSocket(SocketFor(net, key))
BY DEF IsNetwork, SocketFor, NewSocket, IsSocket

(* A record is changed or added.                                           *)
LEMMA PutCounts ==
  ASSUME NEW net, IsNetwork(net), NEW ev, NEW key, NEW s, IsSocket(s), NEW d \in Int,
         s.sends + s.errors = SocketFor(net, key).sends + SocketFor(net, key).errors + d,
         NEW n, n = Put(net, ev, key, s)
  PROVE  IsNetwork(n) /\ n.calls = BagAdd(net.calls, ev.name) /\ Attempts(n) = Attempts(net) + d
<1> DEFINE D == DOMAIN net.sockets
           h == SendsOf(net.sockets)
           g == SendsOf(n.sockets)
<1>1. /\ DOMAIN n = {"calls", "sockets"} /\ n.calls = BagAdd(net.calls, ev.name)
      /\ DOMAIN n.sockets = D \cup {key} /\ n.sockets[key] = s
      /\ \A k \in D \ {key} : n.sockets[k] = net.sockets[k]
  BY DEF Put, Remember
<1>2. IsFiniteSet(D) /\ IsFiniteSet(D \cup {key}) /\ IsFiniteSet(D \ {key})
  <2>1. IsFiniteSet(D)
    BY DEF IsNetwork
  <2> QED BY <2>1, FS_AddElement, FS_RemoveElement
<1>3. IsTally(n.calls)
  BY <1>1, OneMoreCounts DEF IsNetwork
<1>4. IsNetwork(n)
  BY <1>1, <1>2, <1>3 DEF IsNetwork
<1>5. /\ \A k \in D : h[k] \in Int
      /\ \A k \in D \cup {key} : g[k] \in Int
      /\ \A k \in D \ {key} : g[k] = h[k]
      /\ g[key] = (IF key \in D THEN h[key] ELSE 0) + d
  <2>1. \A k \in D : h[k] = net.sockets[k].sends + net.sockets[k].errors
    BY DEF SendsOf
  <2>2. \A k \in D \cup {key} : g[k] = n.sockets[k].sends + n.sockets[k].errors
    BY <1>1 DEF SendsOf
  <2>3. \A k \in D : IsSocket(net.sockets[k])
    BY DEF IsNetwork
  <2>4. \A k \in D \cup {key} : IsSocket(n.sockets[k])
    BY <1>1, <1>4 DEF IsNetwork
  <2> HIDE DEF h, g
  <2>5. \A k \in D : h[k] \in Int
    BY <2>1, <2>3 DEF IsSocket
  <2>6. \A k \in D \cup {key} : g[k] \in Int
    BY <2>2, <2>4 DEF IsSocket
  <2>7. \A k \in D \ {key} : g[k] = h[k]
    BY <1>1, <2>1, <2>2
  <2>8. g[key] = s.sends + s.errors
    BY <1>1, <2>2
  <2>9. SocketFor(net, key).sends + SocketFor(net, key).errors = IF key \in D THEN h[key] ELSE 0
    BY <2>1 DEF SocketFor, NewSocket
  <2> QED BY <2>5, <2>6, <2>7, <2>8, <2>9
<1>6. Attempts(net) = Total(h, D) /\ Attempts(n) = Total(g, D \cup {key})
  BY <1>1, <1>2, AttemptsAreTotal
<1> HIDE DEF D, h, g
<1>7. Total(g, D \ {key}) = Total(h, D \ {key})
  BY <1>2, <1>5, TotalSame
<1>8. Total(h, D \ {key}) \in Int
  BY <1>2, <1>5, TotalInteger
<1>9. CASE key \in D
  <2>1. D \cup {key} = D
    BY <1>9
  <2>2. Total(g, D) = g[key] + Total(g, D \ {key})
    BY <1>2, <1>5, <1>9, TotalRemove
  <2>3. Total(h, D) = h[key] + Total(h, D \ {key})
    BY <1>2, <1>5, <1>9, TotalRemove
  <2>4. h[key] \in Int /\ g[key] = h[key] + d
    BY <1>5, <1>9
  <2>5. Total(g, D) = Total(h, D) + d
    BY <1>7, <1>8, <2>2, <2>3, <2>4
  <2> QED BY <1>1, <1>4, <1>6, <2>1, <2>5
<1>10. CASE key \notin D
  <2>1. Total(g, D \cup {key}) = Total(g, D) + g[key]
    BY <1>2, <1>5, <1>10, TotalAdd
  <2>2. D \ {key} = D
    BY <1>10
  <2>3. g[key] = d
    BY <1>5, <1>10
  <2>4. Total(g, D) = Total(h, D) /\ Total(h, D) \in Int
    BY <1>7, <1>8, <2>2
  <2>5. Total(g, D \cup {key}) = Total(h, D) + d
    BY <2>1, <2>3, <2>4
  <2> QED BY <1>1, <1>4, <1>6, <2>5
<1> QED BY <1>9, <1>10

LEMMA NetworkCounts ==
  ASSUME NEW net, IsNetwork(net), NEW ev, NEW n, n = ObserveNetwork(net, ev),
         Attempts(net) = Copies(net.calls, "sendto")
  PROVE  /\ IsNetwork(n) /\ Attempts(n) = Copies(n.calls, "sendto")
         /\ Count(n.calls) \in {Count(net.calls), Count(net.calls) + 1}
<1> DEFINE own == <<ev.pid, ev.fd>>
           new == <<ev.pid, NewFd(ev)>>
           s == SocketFor(net, own)
           t == SocketFor(net, new)
<1>1. IsSocket(s) /\ IsSocket(t)
  BY RecordOf
<1>2. Copies(net.calls, "sendto") \in Nat
  BY CopiesInNat DEF IsNetwork, IsTally
<1>3. ASSUME NEW key, NEW r, IsSocket(r), n = Put(net, ev, key, r),
             r.sends + r.errors = SocketFor(net, key).sends + SocketFor(net, key).errors
                                    + (IF ev.name = "sendto" THEN 1 ELSE 0)
      PROVE  /\ IsNetwork(n) /\ Attempts(n) = Copies(n.calls, "sendto")
             /\ Count(n.calls) = Count(net.calls) + 1
  <2> DEFINE d == IF ev.name = "sendto" THEN 1 ELSE 0
  <2>1. d \in Int
    OBVIOUS
  <2>2. IsNetwork(n) /\ n.calls = BagAdd(net.calls, ev.name) /\ Attempts(n) = Attempts(net) + d
    <3> HIDE DEF d
    <3>1. r.sends + r.errors = SocketFor(net, key).sends + SocketFor(net, key).errors + d
      BY <1>3 DEF d
    <3> QED BY <1>3, <2>1, <3>1, PutCounts
  <2>3. More(net.calls, n.calls, {ev.name}) /\ Count(n.calls) = Count(net.calls) + 1
    BY <2>2, OneMore, OneMoreCounts DEF IsNetwork, IsTally
  <2>4. Copies(n.calls, "sendto") = Copies(net.calls, "sendto") + d
    BY <2>3 DEF More
  <2> QED BY <2>2, <2>3, <2>4
<1>4. CASE ~IsNetworkSyscall(ev.name)
  <2>1. n = net
    BY <1>4 DEF ObserveNetwork
  <2> QED BY <2>1
<1>5. CASE ev.name = "sendto"
  <2> DEFINE r == IF Failed(ev) THEN [s EXCEPT !.errors = @ + 1] ELSE [s EXCEPT !.sends = @ + 1]
  <2>1. n = Put(net, ev, own, r)
    BY <1>5 DEF ObserveNetwork, IsNetworkSyscall
  <2> HIDE DEF s, own
  <2>2. IsSocket(r) /\ r.sends + r.errors = s.sends + s.errors + 1
    BY <1>1 DEF IsSocket
  <2> HIDE DEF r
  <2>3. r.sends + r.errors = SocketFor(net, own).sends + SocketFor(net, own).errors
                                + (IF ev.name = "sendto" THEN 1 ELSE 0)
    BY <1>5, <2>2 DEF s
  <2> QED BY <1>3, <2>1, <2>2, <2>3
<1>6. CASE ev.name \in {"socket", "connect", "accept"} /\ Failed(ev)
  <2>1. n = [net EXCEPT !.calls = BagAdd(@, ev.name)]
    BY <1>6 DEF ObserveNetwork, IsNetworkSyscall
  <2>2. n.calls = BagAdd(net.calls, ev.name) /\ n.sockets = net.sockets /\ DOMAIN n = DOMAIN net
    BY <2>1 DEF IsNetwork
  <2>3. IsTally(n.calls) /\ More(net.calls, n.calls, {ev.name}) /\ Count(n.calls) = Count(net.calls) + 1
    BY <2>2, OneMore, OneMoreCounts DEF IsNetwork, IsTally
  <2>4. Copies(n.calls, "sendto") = Copies(net.calls, "sendto")
    BY <1>2, <1>6, <2>3 DEF More
  <2>5. IsNetwork(n)
    BY <2>2, <2>3 DEF IsNetwork
  <2>6. Attempts(n) = Attempts(net)
    BY <2>2, <2>5, AttemptsAreTotal DEF IsNetwork
  <2> QED BY <2>3, <2>4, <2>5, <2>6
<1>7. CASE ev.name \in {"socket", "connect", "accept"} /\ ~Failed(ev)
  <2>1. \/ n = Put(net, ev, new, [t EXCEPT !.made = TRUE])
        \/ n = Put(net, ev, own, [s EXCEPT !.peer = ev.arg])
        \/ n = Put(net, ev, new, [t EXCEPT !.peer = ev.arg])
    BY <1>7 DEF ObserveNetwork, IsNetworkSyscall
  <2> HIDE DEF s, t, own, new
  <2>2. ASSUME NEW q, IsSocket(q), NEW r, r = [q EXCEPT !.made = TRUE] \/ r = [q EXCEPT !.peer = ev.arg]
        PROVE  IsSocket(r) /\ r.sends + r.errors = q.sends + q.errors + 0
    BY <2>2 DEF IsSocket
  <2>3. CASE n = Put(net, ev, new, [t EXCEPT !.made = TRUE])
    <3> DEFINE r == [t EXCEPT !.made = TRUE]
    <3>1. IsSocket(r) /\ r.sends + r.errors = t.sends + t.errors + 0
      BY <1>1, <2>2
    <3> QED BY <1>3, <1>7, <2>3, <3>1 DEF t
  <2>4. CASE n = Put(net, ev, own, [s EXCEPT !.peer = ev.arg])
    <3> DEFINE r == [s EXCEPT !.peer = ev.arg]
    <3>1. IsSocket(r) /\ r.sends + r.errors = s.sends + s.errors + 0
      BY <1>1, <2>2
    <3> QED BY <1>3, <1>7, <2>4, <3>1 DEF s
  <2>5. CASE n = Put(net, ev, new, [t EXCEPT !.peer = ev.arg])
    <3> DEFINE r == [t EXCEPT !.peer = ev.arg]
    <3>1. IsSocket(r) /\ r.sends + r.errors = t.sends + t.errors + 0
      BY <1>1, <2>2
    <3> QED BY <1>3, <1>7, <2>5, <3>1 DEF t
  <2> QED BY <2>1, <2>3, <2>4, <2>5
<1> QED BY <1>4, <1>5, <1>6, <1>7 DEF IsNetworkSyscall

(* What the sinks have counted, whatever they were shown.                  *)
SinkInv ==
  /\ reported \in Nat
  /\ IsTally(summary.calls) /\ IsCounter(summary.writes)
  /\ IsCounter(latency.syscall) /\ IsCounter(latency.path)
  /\ IsNetwork(network) /\ Count(network.calls) \in Int
  /\ Count(summary.calls) = reported
  /\ \A name : IsIoSyscall(name) => Copies(latency.syscall, name) = Copies(summary.calls, name)
  /\ \A p : Copies(latency.path, p) >= Copies(summary.writes, p)
  /\ Count(network.calls) <= reported
  /\ Attempts(network) = Copies(network.calls, "sendto")
  /\ options.filter # {} => DOMAIN summary.calls \subseteq options.filter

LEMMA SinksInitially == Init => SinkInv
<1> SUFFICES ASSUME Init PROVE SinkInv
  OBVIOUS
<1>1. /\ reported = 0 /\ network = EmptyNetwork
      /\ summary.calls = EmptyBag /\ summary.writes = EmptyBag
      /\ latency.syscall = EmptyBag /\ latency.path = EmptyBag
  BY DEF Init, EmptySummary, EmptyLatency
<1>2. network.calls = EmptyBag /\ DOMAIN network = {"calls", "sockets"} /\ DOMAIN network.sockets = {}
  BY <1>1 DEF EmptyNetwork
<1>3. Attempts(network) = 0
  BY <1>2, AttemptsAreTotal, TotalEmpty, FS_EmptySet
<1> QED BY <1>1, <1>2, <1>3, NoCopies, FS_EmptySet DEF SinkInv, IsTally, IsNetwork

(* The calls of the summary and of the I/O sink.                           *)
LEMMA CallsObserved ==
  ASSUME SinkInv, NEW ev, Observe(ev)
  PROVE  /\ IsTally(summary'.calls) /\ Count(summary'.calls) = reported'
         /\ DOMAIN summary'.calls = DOMAIN summary.calls \cup {ev.name}
         /\ IsCounter(latency'.syscall)
         /\ \A name : IsIoSyscall(name) => Copies(latency'.syscall, name) = Copies(summary'.calls, name)
<1>1. summary'.calls = BagAdd(summary.calls, ev.name) /\ reported' = reported + 1
  BY DEF Observe, ObserveSummary
<1>2. /\ IsTally(summary'.calls) /\ Count(summary'.calls) = reported'
      /\ DOMAIN summary'.calls = DOMAIN summary.calls \cup {ev.name}
      /\ More(summary.calls, summary'.calls, {ev.name})
  BY <1>1, OneMore, OneMoreCounts DEF SinkInv, IsTally
<1>3. CASE IsIoSyscall(ev.name)
  <2>1. latency'.syscall = BagAdd(latency.syscall, ev.name)
    BY <1>3 DEF Observe, ObserveLatency
  <2>2. IsCounter(latency'.syscall) /\ More(latency.syscall, latency'.syscall, {ev.name})
    BY <2>1, OneMore DEF SinkInv
  <2> QED BY <1>2, <2>2 DEF SinkInv, More
<1>4. CASE ~IsIoSyscall(ev.name)
  <2>1. latency' = latency
    BY <1>4 DEF Observe, ObserveLatency
  <2>2. ASSUME NEW name, IsIoSyscall(name) PROVE Copies(summary'.calls, name) = Copies(summary.calls, name)
    <3>1. name # ev.name
      BY <1>4, <2>2
    <3>2. Copies(summary.calls, name) \in Nat
      BY CopiesInNat DEF SinkInv, IsTally
    <3> QED BY <1>2, <3>1, <3>2 DEF More
  <2> QED BY <1>2, <2>1, <2>2 DEF SinkInv
<1> QED BY <1>2, <1>3, <1>4

(* Its paths are those of the writes, and more.                            *)
LEMMA PathsObserved ==
  ASSUME SinkInv, NEW ev, Observe(ev)
  PROVE  /\ IsCounter(summary'.writes) /\ IsCounter(latency'.path)
         /\ \A p : Copies(latency'.path, p) >= Copies(summary'.writes, p)
<1> DEFINE W == IF ev.name = "write" /\ Has(ev.ctx) THEN {ev.ctx.path} ELSE {}
           L == IF IsIoSyscall(ev.name) THEN PathLabel(ev) ELSE {}
<1>1. IsCounter(summary'.writes) /\ More(summary.writes, summary'.writes, W)
  <2>1. IsCounter(summary.writes) /\ \A p : Copies(summary.writes, p) \in Nat
    BY CopiesInNat DEF SinkInv
  <2>2. CASE ev.name = "write" /\ Has(ev.ctx)
    <3>1. summary'.writes = BagAdd(summary.writes, ev.ctx.path) /\ W = {ev.ctx.path}
      BY <2>2 DEF Observe, ObserveSummary, AddIf
    <3> HIDE DEF W
    <3> QED BY <2>1, <3>1, OneMore
  <2>3. CASE ~(ev.name = "write" /\ Has(ev.ctx))
    <3>1. summary'.writes = summary.writes /\ W = {}
      BY <2>3 DEF Observe, ObserveSummary, AddIf
    <3> HIDE DEF W
    <3> QED BY <2>1, <3>1 DEF More
  <2> QED BY <2>2, <2>3
<1>2. IsCounter(latency'.path) /\ More(latency.path, latency'.path, L)
  <2>1. IsCounter(latency.path) /\ \A p : Copies(latency.path, p) \in Nat
    BY CopiesInNat DEF SinkInv
  <2>2. CASE IsIoSyscall(ev.name)
    <3>1. latency'.path = latency.path (+) SetToBag(L)
      BY <2>2 DEF Observe, ObserveLatency
    <3> HIDE DEF L
    <3> QED BY <2>1, <3>1, OneEach
  <2>3. CASE ~IsIoSyscall(ev.name)
    <3>1. latency' = latency /\ L = {}
      BY <2>3 DEF Observe, ObserveLatency
    <3> HIDE DEF L
    <3> QED BY <2>1, <3>1 DEF More
  <2> QED BY <2>2, <2>3
<1>3. W \subseteq L
  BY DEF PathLabel, IsIoSyscall
<1>4. ASSUME NEW p PROVE Copies(latency'.path, p) >= Copies(summary'.writes, p)
  <2>1. Copies(latency.path, p) >= Copies(summary.writes, p)
    BY DEF SinkInv
  <2>2. Copies(latency.path, p) \in Nat /\ Copies(summary.writes, p) \in Nat
    BY CopiesInNat DEF SinkInv
  <2>3. /\ Copies(latency'.path, p) = Copies(latency.path, p) + (IF p \in L THEN 1 ELSE 0)
        /\ Copies(summary'.writes, p) = Copies(summary.writes, p) + (IF p \in W THEN 1 ELSE 0)
    BY <1>1, <1>2 DEF More
  <2> HIDE DEF W, L
  <2> QED BY <1>3, <2>1, <2>2, <2>3
<1> QED BY <1>1, <1>2, <1>4

LEMMA ObservedKeepsSinks ==
  ASSUME SinkInv, NEW ev, Observe(ev), PassesFilter(ev.name), UNCHANGED options
  PROVE  SinkInv'
<1>1. network' = ObserveNetwork(network, ev) /\ reported' = reported + 1
  BY DEF Observe
<1>2. /\ IsNetwork(network') /\ Attempts(network') = Copies(network'.calls, "sendto")
      /\ Count(network'.calls) \in {Count(network.calls), Count(network.calls) + 1}
  BY <1>1, NetworkCounts DEF SinkInv
<1>3. Count(network'.calls) \in Int /\ Count(network'.calls) <= reported' /\ reported' \in Nat
  BY <1>1, <1>2 DEF SinkInv
<1>4. options'.filter # {} => DOMAIN summary'.calls \subseteq options'.filter
  BY CallsObserved DEF SinkInv, PassesFilter
<1> QED BY <1>2, <1>3, <1>4, CallsObserved, PathsObserved DEF SinkInv

(* Only the report of a call that passes the filter reaches the sinks.     *)
LEMMA SinksAfter ==
  ASSUME [Next]_vars
  PROVE  /\ UNCHANGED options
         /\ UNCHANGED sinks \/ \E ev : Observe(ev) /\ PassesFilter(ev.name)
<1>1. ASSUME NEW t \in Thread,
             \/ Open(t) \/ Create(t) \/ Socket(t) \/ Pipe(t) \/ Close(t) \/ CloseRange(t)
             \/ Dup(t) \/ Dup2(t) \/ FcntlDup(t) \/ SetFd(t)
             \/ Connect(t) \/ Accept(t) \/ Use(t) \/ Fail(t)
      PROVE  UNCHANGED <<options, sinks>>
  BY <1>1 DEF Open, Create, Socket, Pipe, Close, CloseRange, Dup, Dup2, FcntlDup, Copy, SetFd,
              Connect, Accept, Use, Fail, Execute
<1>2. ASSUME NEW t \in Thread, Fork(t) \/ Exec(t) \/ ExecStop(t) \/ Unseen(t)
      PROVE  UNCHANGED <<options, sinks>>
  BY <1>2 DEF Fork, Exec, ExecStop, Unseen
<1>3. ASSUME NEW t \in Thread, Report(t)
      PROVE  /\ UNCHANGED options
             /\ UNCHANGED sinks \/ \E ev : Observe(ev) /\ PassesFilter(ev.name)
  <2> DEFINE ev == call[t]
             printed == [name |-> ev.name, fd |-> ev.fd, on |-> ev.on, flag |-> ev.flag,
                     arg |-> PathOf(ev, options.raw), err |-> ev.err,
                     injected |-> ev.injected, pid |-> Pid(t),
                     traced |-> options.bpf,
                     ctx |-> EventContext(fds, ev, options.raw)]
  <2>1. UNCHANGED options /\ (IF PassesFilter(ev.name) THEN Observe(printed) ELSE UNCHANGED sinks)
    BY <1>3 DEF Report
  <2>2. printed.name = ev.name
    OBVIOUS
  <2> HIDE DEF printed
  <2> QED BY <2>1, <2>2
<1>4. CASE UNCHANGED vars
  BY <1>4 DEF vars
<1> QED BY <1>1, <1>2, <1>3, <1>4 DEF Next, MakeCall

LEMMA SinkStep == SinkInv /\ [Next]_vars => SinkInv'
<1> SUFFICES ASSUME SinkInv, [Next]_vars PROVE SinkInv'
  OBVIOUS
<1>1. CASE UNCHANGED <<options, sinks>>
  BY <1>1 DEF SinkInv, sinks
<1> QED BY <1>1, SinksAfter, ObservedKeepsSinks

(* The sinks that are fed one event at a time agree with each other and with *)
(* the number of events printed, and the records of --net, whose keys are   *)
(* closed and used again, lose none of the sends (EventPipeline::observe).  *)
THEOREM SinksCount == Spec => []SinksAgree
<1>1. SinkInv => SinksAgree
  <2> SUFFICES ASSUME SinkInv PROVE SinksAgree
    OBVIOUS
  <2>1. \A name \in DOMAIN summary.calls : Copies(summary.calls, name) = summary.calls[name]
    BY DEF Copies, BagIn, BagToSet
  <2>2. \A p \in DOMAIN summary.writes : Copies(summary.writes, p) = summary.writes[p]
    BY DEF Copies, BagIn, BagToSet
  <2> QED BY <2>1, <2>2 DEF SinkInv, SinksAgree
<1> QED BY <1>1, SinksInitially, SinkStep, PTL DEF Spec
=============================================================================
