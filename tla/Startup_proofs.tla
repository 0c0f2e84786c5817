--------------------------- MODULE Startup_proofs ---------------------------
(***************************************************************************)
(* How a run of mini-strace begins, for every command line, every table of *)
(* calls, every filter and every number of threads: the threads that an    *)
(* attach has traced are known to the loop, and the seccomp program of a   *)
(* launched child stops the calls of the filter and no others.             *)
(***************************************************************************)
EXTENDS Startup, FiniteSetTheorems, WellFoundedInduction, TLAPS

-----------------------------------------------------------------------------
(* Attach: which threads are traced, and who knows them.                   *)

States == {"unborn", "user", "call", "entry", "exit", "interrupt", "signal", "born", "clone",
           "dead", "reaped"}

ThreadsOK ==
  thread \in [Tid -> [at : States, traced : BOOLEAN, syscalls : BOOLEAN, interrupted : BOOLEAN,
                      born : Tid]]

(* A clone stop that is still to be served announces its new thread; so does *)
(* the death of who was in it.                                             *)
Announced(t) == \E u \in Tid : thread[u].born = t /\ thread[u].at \in {"clone", "dead", "reaped"}

(* Only the thread that is about to be interrupted is traced and in no list *)
(* of attached threads.                                                    *)
AttachInv ==
  /\ ThreadsOK
  /\ tids \subseteq Tid
  /\ \A t \in tids \cup First : thread[t].at # "unborn"
  /\ pc \notin {"seize", "interrupt", "error"} => tids = {}
  /\ \A t \in Tid :
       thread[t].traced /\ Lives(t) => t \in tasks \cup swallowed \cup tids \/ Announced(t)
  /\ \A t \in Tid : thread[t].at = "unborn" => ~thread[t].traced

LEMMA AttachInit == Init => AttachInv
<1> SUFFICES ASSUME Init PROVE AttachInv
  OBVIOUS
<1>1. thread = [t \in Tid |->
         IF t \in First THEN NewThread(t) ELSE [NewThread(t) EXCEPT !.at = "unborn"]]
  BY DEF Init
<1>2. \A t \in Tid : /\ thread[t] \in [at : States, traced : BOOLEAN, syscalls : BOOLEAN,
                                       interrupted : BOOLEAN, born : Tid]
                     /\ ~thread[t].traced /\ (t \in First => thread[t].at = "user")
  BY <1>1 DEF NewThread, States
<1>3. ThreadsOK
  BY <1>1, <1>2 DEF ThreadsOK
<1> QED BY <1>2, <1>3, StartupAssumption DEF Init, AttachInv

(* Steps of the target.                                                    *)
LEMMA MoveKeepsAttach ==
  ASSUME AttachInv, NEW t \in Tid, UNCHANGED <<pc, tids>>, tasks \subseteq tasks',
         swallowed \subseteq swallowed', ThreadsOK',
         \A u \in Tid \ {t} : thread'[u] = thread[u],
         thread'[t].traced = thread[t].traced, thread'[t].born = thread[t].born,
         thread[t].at # "unborn", thread'[t].at # "unborn", Lives(t)' => Lives(t),
         thread[t].at \in {"dead", "reaped"} => thread'[t].at \in {"dead", "reaped"},
         thread[t].at = "clone" =>
           thread'[t].at \in {"clone", "dead", "reaped"} \/ thread[t].born \in tasks' \cup swallowed'
  PROVE  AttachInv'
<1>1. \A u \in Tid : Announced(u) => Announced(u)' \/ u \in tasks' \cup swallowed'
  BY DEF Announced
<1>2. \A u \in Tid : thread'[u].traced /\ Lives(u)' => thread[u].traced /\ Lives(u)
  BY DEF Lives
<1>3. \A u \in Tid : thread'[u].at = "unborn" => thread[u].at = "unborn" /\ ~thread'[u].traced
  BY DEF AttachInv
<1> QED BY <1>1, <1>2, <1>3, StartupAssumption DEF AttachInv

LEMMA CloneKeepsAttach == ASSUME AttachInv, NEW t \in Tid, Clone(t) PROVE AttachInv'
<1> DEFINE followed == thread[t].traced /\ options.follow
           base == IF followed THEN StoppedAt(t, "clone") ELSE thread
<1>1. PICK new \in {u \in Tid : thread[u].at = "unborn"} :
        thread' = [base EXCEPT
                ![t].born = new,
                ![new] = [NewThread(new) EXCEPT !.at = IF followed THEN "born" ELSE "user",
                                                !.traced = followed]]
  BY DEF Clone
<1>2. ThreadsOK /\ UNCHANGED <<pc, tids, tasks, swallowed>> /\ thread[t].at = "user" /\ new # t
  BY <1>1 DEF Clone, AtLarge, TargetKeeps, AttachInv
<1>3. base \in [Tid -> [at : States, traced : BOOLEAN, syscalls : BOOLEAN, interrupted : BOOLEAN,
                        born : Tid]]
      /\ \A u \in Tid \ {t} : base[u] = thread[u]
  BY <1>2 DEF ThreadsOK, StoppedAt, States
<1>4. base[t].traced = thread[t].traced /\ base[t].at = (IF followed THEN "clone" ELSE "user")
  BY <1>2 DEF ThreadsOK, StoppedAt
<1>5. /\ DOMAIN thread' = Tid
      /\ \A u \in Tid \ {t, new} : thread'[u] = thread[u]
      /\ thread'[t] = [base[t] EXCEPT !.born = new]
      /\ thread'[new] = [NewThread(new) EXCEPT !.at = IF followed THEN "born" ELSE "user",
                                               !.traced = followed]
  <2> HIDE DEF base, followed
  <2> QED BY <1>1, <1>2, <1>3
<1>6. /\ thread'[t].born = new /\ thread'[t].traced = thread[t].traced
      /\ thread'[t].at = (IF followed THEN "clone" ELSE "user")
      /\ thread'[new].at = (IF followed THEN "born" ELSE "user")
      /\ thread'[new].traced = followed
  <2> HIDE DEF base, followed
  <2> QED BY <1>3, <1>4, <1>5 DEF NewThread
<1>7. ThreadsOK'
  <2>1. followed \in BOOLEAN
    OBVIOUS
  <2>2. thread'[new] \in [at : States, traced : BOOLEAN, syscalls : BOOLEAN, interrupted : BOOLEAN, born : Tid]
    <3> HIDE DEF followed
    <3> QED BY <1>5, <2>1 DEF NewThread, States
  <2>3. thread'[t] \in [at : States, traced : BOOLEAN, syscalls : BOOLEAN, interrupted : BOOLEAN, born : Tid]
    <3> HIDE DEF base
    <3> QED BY <1>3, <1>5
  <2>4. thread' = [u \in Tid |-> thread'[u]]
    <3> HIDE DEF base, followed
    <3> QED BY <1>1, <1>3
  <2> HIDE DEF base, followed
  <2> QED BY <1>2, <1>5, <2>2, <2>3, <2>4 DEF ThreadsOK
<1> HIDE DEF base, followed
<1>8. \A u \in Tid : Announced(u) => Announced(u)'
  BY <1>1, <1>2, <1>5, <1>6 DEF Announced
<1>9. \A u \in Tid : thread'[u].traced /\ Lives(u)' =>
                        u \in tasks' \cup swallowed' \cup tids' \/ Announced(u)'
  <2> SUFFICES ASSUME NEW u \in Tid, thread'[u].traced, Lives(u)'
               PROVE  u \in tasks' \cup swallowed' \cup tids' \/ Announced(u)'
    OBVIOUS
  <2>1. CASE u = new
    BY <1>6, <2>1 DEF Announced
  <2>2. CASE u # new
    BY <1>2, <1>5, <1>6, <1>8, <2>2 DEF AttachInv, Lives
  <2> QED BY <2>1, <2>2
<1>10. \A u \in Tid : thread'[u].at = "unborn" => thread[u].at = "unborn" /\ ~thread'[u].traced
  <2> SUFFICES ASSUME NEW u \in Tid, thread'[u].at = "unborn"
               PROVE  thread[u].at = "unborn" /\ ~thread'[u].traced
    OBVIOUS
  <2>1. u \notin {t, new}
    BY <1>6
  <2>2. thread'[u] = thread[u]
    BY <1>5, <2>1
  <2> QED BY <2>2 DEF AttachInv
<1> QED BY <1>2, <1>7, <1>9, <1>10, StartupAssumption DEF AttachInv

LEMMA TargetKeepsAttach == ASSUME AttachInv, Target PROVE AttachInv'
<1>1. CASE Sandbox
  BY <1>1 DEF Sandbox, TargetKeeps, AttachInv, ThreadsOK, Lives, Announced
<1>2. ASSUME NEW t \in Tid, Enter(t) PROVE AttachInv'
  BY <1>2, MoveKeepsAttach DEF Enter, AtLarge, TargetKeeps, AttachInv, ThreadsOK, States, Lives
<1>3. ASSUME NEW t \in Tid, Leave(t) PROVE AttachInv'
  BY <1>3, MoveKeepsAttach DEF Leave, StoppedAt, TargetKeeps, AttachInv, ThreadsOK, States, Lives
<1>4. ASSUME NEW t \in Tid, Interrupted(t) PROVE AttachInv'
  BY <1>4, MoveKeepsAttach DEF Interrupted, StoppedAt, TargetKeeps, AttachInv, ThreadsOK, States, Lives
<1>5. ASSUME NEW t \in Tid, Signalled(t) PROVE AttachInv'
  BY <1>5, MoveKeepsAttach
  DEF Signalled, AtLarge, StoppedAt, TargetKeeps, AttachInv, ThreadsOK, States, Lives
<1>6. ASSUME NEW t \in Tid, Die(t) PROVE AttachInv'
  BY <1>6, MoveKeepsAttach DEF Die, TargetKeeps, AttachInv, ThreadsOK, States, Lives
<1> QED BY <1>1, <1>2, <1>3, <1>4, <1>5, <1>6, CloneKeepsAttach DEF Target

LEMMA SeizeKeepsAttach == ASSUME AttachInv, NEW t \in Tid, Seize(t) PROVE AttachInv'
<1>1. CASE ~Lives(t)
  BY <1>1 DEF Seize, AttachInv, ThreadsOK, Lives, Announced
<1>2. CASE Lives(t)
  <2>1. thread' = [thread EXCEPT ![t].traced = TRUE] /\ UNCHANGED <<tids, tasks, swallowed>>
        /\ pc' = "interrupt" /\ t \in tids
    BY <1>2 DEF Seize
  <2>2. ThreadsOK'
    BY <2>1 DEF AttachInv, ThreadsOK
  <2>3. \A u \in Tid : thread'[u].at = thread[u].at /\ thread'[u].born = thread[u].born
                       /\ (u # t => thread'[u] = thread[u])
    BY <2>1 DEF AttachInv, ThreadsOK
  <2> QED BY <1>2, <2>1, <2>2, <2>3 DEF AttachInv, Lives, Announced
<1> QED BY <1>1, <1>2

LEMMA InterruptKeepsAttach == ASSUME AttachInv, NEW t \in Tid, Interrupt(t) PROVE AttachInv'
<1>1. CASE ~Lives(t)
  BY <1>1 DEF Interrupt, AttachInv, ThreadsOK, Lives, Announced
<1>2. CASE Lives(t)
  <2>1. /\ thread' = [thread EXCEPT ![t].interrupted = TRUE] /\ tasks' = tasks \cup {t}
        /\ tids' = tids \ {t} /\ pc' = (IF tids' = {} THEN "handshake" ELSE "seize")
        /\ swallowed' = swallowed
    BY <1>2 DEF Interrupt
  <2>2. ThreadsOK'
    BY <2>1 DEF AttachInv, ThreadsOK
  <2>3. \A u \in Tid : thread'[u].at = thread[u].at /\ thread'[u].born = thread[u].born
                       /\ thread'[u].traced = thread[u].traced
    BY <2>1 DEF AttachInv, ThreadsOK
  <2> QED BY <1>2, <2>1, <2>2, <2>3 DEF AttachInv, Lives, Announced
<1> QED BY <1>1, <1>2

LEMMA AwaitStopKeepsAttach == ASSUME AttachInv, NEW t \in Tid, AwaitStop(t) PROVE AttachInv'
<1>1. ThreadsOK /\ UNCHANGED <<pc, tids, tasks>>
  BY DEF AwaitStop, AttachInv
<1>2. CASE Stopped(t) /\ thread' = Resumed(t)
           /\ swallowed' = (IF thread[t].at = "clone" THEN swallowed \cup {thread[t].born} ELSE swallowed)
  BY <1>1, <1>2, MoveKeepsAttach DEF ThreadsOK, Stopped, Resumed, Lives, States
<1>3. CASE thread[t].at = "dead" /\ thread' = [thread EXCEPT ![t].at = "reaped"] /\ swallowed' = swallowed
  BY <1>1, <1>3, MoveKeepsAttach DEF ThreadsOK, Lives, States
<1> QED BY <1>2, <1>3 DEF AwaitStop

LEMMA ServeKeepsAttach == ASSUME AttachInv, NEW t \in Tid, Serve(t) PROVE AttachInv'
<1>1. ThreadsOK /\ UNCHANGED <<pc, tids, swallowed>>
  BY DEF Serve, AttachInv
<1>2. CASE Stopped(t) /\ thread' = Resumed(t) /\ tasks' = TasksAfterStop(t)
  BY <1>1, <1>2, MoveKeepsAttach DEF ThreadsOK, Stopped, Resumed, Lives, States, TasksAfterStop
<1>3. CASE thread[t].at = "dead" /\ thread' = [thread EXCEPT ![t].at = "reaped"] /\ tasks' = tasks \ {t}
  <2>1. ThreadsOK'
    BY <1>1, <1>3 DEF ThreadsOK, States
  <2>2. \A u \in Tid : /\ u # t => thread'[u] = thread[u]
                       /\ thread'[u].born = thread[u].born /\ thread'[u].traced = thread[u].traced
    BY <1>1, <1>3 DEF ThreadsOK
  <2>3. thread'[t].at = "reaped"
    BY <1>1, <1>3 DEF ThreadsOK
  <2> QED BY <1>1, <1>3, <2>1, <2>2, <2>3 DEF AttachInv, Lives, Announced
<1> QED BY <1>2, <1>3 DEF Serve

LEMMA TracerKeepsAttach == ASSUME AttachInv, Tracer PROVE AttachInv'
<1> USE DEF AttachInv, ThreadsOK, Lives, Announced, attach
<1>1. CASE ParseWord
  BY <1>1 DEF ParseWord, ParsePid, ParseFilter, ParseFlag, ParseCommand, Goes, Fails
<1>2. CASE Check \/ NobodyLeft \/ Attached
  BY <1>2 DEF Check, NobodyLeft, Attached
<1>3. CASE LaunchChild \/ AwaitChild
  BY <1>3 DEF LaunchChild, AwaitChild
<1>4. CASE Enumerate
  <2>1. /\ tids' = IF \E t \in Tid : Lives(t) THEN {t \in Tid : Lives(t)} ELSE First
        /\ pc' = "seize" /\ UNCHANGED <<thread, tasks, swallowed>>
    BY <1>4 DEF Enumerate
  <2>2. tids' \subseteq Tid /\ \A t \in tids' : thread[t].at # "unborn"
    BY <2>1, StartupAssumption
  <2>3. \A t \in Tid : thread[t].traced /\ Lives(t) => t \in tasks \cup swallowed \cup tids' \/ Announced(t)
    BY <2>1
  <2> QED BY <2>1, <2>2, <2>3
<1> QED BY <1>1, <1>2, <1>3, <1>4, SeizeKeepsAttach, InterruptKeepsAttach, AwaitStopKeepsAttach DEF Tracer

LEMMA AttachStep == AttachInv /\ [Next]_vars => AttachInv'
<1> SUFFICES ASSUME AttachInv, [Next]_vars PROVE AttachInv'
  OBVIOUS
<1>1. CASE Command
  BY <1>1 DEF Command, ChildStops, InstallFilter, ExecCommand, CommandCalls, attach, AttachInv,
              ThreadsOK, Lives, Announced
<1>2. CASE UNCHANGED vars
  BY <1>2 DEF vars, attach, AttachInv, ThreadsOK, Lives, Announced
<1> QED BY <1>1, <1>2, TracerKeepsAttach, TargetKeepsAttach, ServeKeepsAttach DEF Next

(* Once the event loop runs it knows every living thread that is traced, so *)
(* that it does not end before them: seize_all, the handshake that counts   *)
(* stops, and the loop's clone stops together miss no thread, but for those *)
(* whose parent's clone stop the handshake counted (attach.cpp).           *)
THEOREM AttachComplete == Spec => []TracedFollowed
<1>1. AttachInv => TracedFollowed
  BY DEF AttachInv, TracedFollowed, Announced
<1>2. Spec => []AttachInv
  BY AttachInit, AttachStep, PTL DEF Spec
<1> QED BY <1>1, <1>2, PTL

-----------------------------------------------------------------------------
(* The numbers of a filter.                                                *)

NumbersOf(names) == {Numbers[name] : name \in names}

(* How many numbers of a set are no larger.                                *)
Rank(S, k) == Cardinality({l \in S : l <= k})

LEMMA RankIsBijective ==
  ASSUME NEW S \in SUBSET Nat, IsFiniteSet(S)
  PROVE  /\ \A k \in S : Rank(S, k) \in 1..Cardinality(S)
         /\ \A k, m \in S : Rank(S, k) = Rank(S, m) => k = m
         /\ \A n \in 1..Cardinality(S) : \E k \in S : Rank(S, k) = n
<1> DEFINE Below(k) == {l \in S : l <= k}
           N == Cardinality(S)
           r == [k \in S |-> Rank(S, k)]
<1>1. N \in Nat
  BY FS_CardinalityType
<1>2. ASSUME NEW k \in S
      PROVE  /\ IsFiniteSet(Below(k)) /\ Cardinality(Below(k)) \in 1..N
             /\ Rank(S, k) = Cardinality(Below(k)) /\ k \in Below(k)
  <2>1. Below(k) \in SUBSET S /\ k \in Below(k) /\ Rank(S, k) = Cardinality(Below(k))
    BY DEF Rank
  <2> HIDE DEF Below
  <2>2. IsFiniteSet(Below(k)) /\ Cardinality(Below(k)) <= N
    BY <2>1, FS_Subset
  <2>3. Cardinality(Below(k)) \in Nat /\ Cardinality(Below(k)) # 0
    BY <2>1, <2>2, FS_CardinalityType, FS_EmptySet
  <2> QED BY <1>1, <2>1, <2>2, <2>3
<1>3. ASSUME NEW k \in S, NEW m \in S, k < m PROVE Rank(S, k) # Rank(S, m)
  <2>0. S \subseteq Nat /\ k \in Nat /\ m \in Nat
    OBVIOUS
  <2>1. Below(k) \in SUBSET Below(m) /\ Below(k) # Below(m)
    <3>1. \A l \in S : l <= k => l <= m
      BY <1>3, <2>0
    <3>2. m \in Below(m) /\ m \notin Below(k)
      BY <1>3, <2>0
    <3> QED BY <3>1, <3>2
  <2>2. IsFiniteSet(Below(m)) /\ Rank(S, k) = Cardinality(Below(k)) /\ Rank(S, m) = Cardinality(Below(m))
    BY <1>2
  <2> HIDE DEF Below
  <2> QED BY <2>1, <2>2, FS_Subset
<1>4. \A k, m \in S : Rank(S, k) = Rank(S, m) => k = m
  <2> SUFFICES ASSUME NEW k \in S, NEW m \in S, k # m PROVE Rank(S, k) # Rank(S, m)
    OBVIOUS
  <2>1. k < m \/ m < k
    OBVIOUS
  <2> QED BY <1>3, <2>1
<1>5. \A k \in S : Rank(S, k) \in 1..N
  BY <1>2
<1>6. r \in Injection(S, 1..N)
  BY <1>4, <1>5 DEF Injection, IsInjective
<1>7. IsFiniteSet(1..N) /\ Cardinality(1..N) = N
  BY <1>1, FS_Interval
<1>8. r \in Surjection(S, 1..N)
  BY <1>6, <1>7, FS_Injection
<1>9. \A n \in 1..N : \E k \in S : r[k] = n
  BY <1>8 DEF Surjection
<1> QED BY <1>4, <1>5, <1>9

LEMMA NamedNumbers ==
  ASSUME NEW names \in SUBSET DOMAIN Numbers
  PROVE  /\ Len(NamedSyscalls(names)) = Cardinality(NumbersOf(names))
         /\ NamedSyscalls(names) \in Seq(Nat)
         /\ \A n \in 1..Len(NamedSyscalls(names)) : NamedSyscalls(names)[n] \in NumbersOf(names)
         /\ \A k \in NumbersOf(names) : \E n \in 1..Len(NamedSyscalls(names)) : NamedSyscalls(names)[n] = k
         /\ Cardinality(NumbersOf(names)) <= Cardinality(names)
         /\ IsFiniteSet(names)
<1> DEFINE S == NumbersOf(names)
           N == Cardinality(S)
           s == NamedSyscalls(names)
           g == [name \in names |-> Numbers[name]]
<1>1. IsFiniteSet(names)
  BY StartupAssumption, FS_Subset
<1>2. g \in Surjection(names, S)
  BY DEF Surjection, NumbersOf
<1>3. IsFiniteSet(S) /\ N <= Cardinality(names)
  BY <1>1, <1>2, FS_Surjection
<1>4. S \in SUBSET Nat
  BY StartupAssumption DEF NumbersOf
<1>5. N \in Nat
  BY <1>3, FS_CardinalityType
<1>6. s = [n \in 1..N |-> CHOOSE k \in S : Rank(S, k) = n]
  BY DEF NamedSyscalls, NumbersOf, Rank
<1> HIDE DEF S, N, s
<1>B. /\ \A k \in S : Rank(S, k) \in 1..N
      /\ \A k, m \in S : Rank(S, k) = Rank(S, m) => k = m
      /\ \A n \in 1..N : \E k \in S : Rank(S, k) = n
  BY <1>3, <1>4, RankIsBijective DEF N
<1>7. \A n \in 1..N : s[n] \in S /\ Rank(S, s[n]) = n
  BY <1>6, <1>B
<1>8. \A k \in S : s[Rank(S, k)] = k /\ Rank(S, k) \in 1..N
  <2> TAKE k \in S
  <2> DEFINE n == Rank(S, k)
  <2>1. n \in 1..N
    BY <1>B
  <2> HIDE DEF n
  <2>2. s[n] \in S /\ Rank(S, s[n]) = n
    BY <1>7, <2>1
  <2>3. s[n] = k
    BY <1>B, <2>2 DEF n
  <2> QED BY <2>1, <2>3 DEF n
<1>9. s \in Seq(Nat) /\ Len(s) = N
  <2>1. s = [n \in 1..N |-> s[n]]
    BY <1>6
  <2>2. \A n \in 1..N : s[n] \in Nat
    BY <1>4, <1>7
  <2> QED BY <1>5, <2>1, <2>2
<1> QED BY <1>1, <1>3, <1>7, <1>8, <1>9 DEF S, N, s

-----------------------------------------------------------------------------
(* The program of a filter, instruction by instruction.                    *)

LEMMA TwoParts ==
  ASSUME NEW I, NEW a \in Seq(I), NEW b \in Seq(I), NEW ab, ab = a \o b
  PROVE  /\ ab \in Seq(I) /\ Len(ab) = Len(a) + Len(b)
         /\ \A n \in 1..Len(a) : ab[n] = a[n]
         /\ \A n \in 1..Len(b) : ab[Len(a) + n] = b[n]
OBVIOUS

LEMMA ThreeParts ==
  ASSUME NEW I, NEW a \in Seq(I), NEW b \in Seq(I), NEW c \in Seq(I), NEW abc, abc = a \o b \o c
  PROVE  /\ abc \in Seq(I) /\ Len(abc) = Len(a) + Len(b) + Len(c)
         /\ \A n \in 1..Len(a) : abc[n] = a[n]
         /\ \A n \in 1..Len(b) : abc[Len(a) + n] = b[n]
         /\ \A n \in 1..Len(c) : abc[Len(a) + Len(b) + n] = c[n]
<1> DEFINE ab == a \o b
<1>1. /\ ab \in Seq(I) /\ Len(ab) = Len(a) + Len(b)
      /\ \A n \in 1..Len(a) : ab[n] = a[n]
      /\ \A n \in 1..Len(b) : ab[Len(a) + n] = b[n]
  OBVIOUS
<1>2. abc = ab \o c
  OBVIOUS
<1> HIDE DEF ab
<1>3. /\ abc \in Seq(I) /\ Len(abc) = Len(ab) + Len(c)
      /\ \A n \in 1..Len(ab) : abc[n] = ab[n]
      /\ \A n \in 1..Len(c) : abc[Len(ab) + n] = c[n]
  <2>1. ab \in Seq(I)
    BY <1>1
  <2> QED BY <1>2, <2>1, TwoParts
<1>4. Len(a) \in Nat /\ Len(b) \in Nat /\ Len(c) \in Nat
  OBVIOUS
<1>5. \A n \in 1..Len(a) : abc[n] = a[n]
  BY <1>1, <1>3, <1>4
<1>6. \A n \in 1..Len(b) : abc[Len(a) + n] = b[n]
  BY <1>1, <1>3, <1>4
<1>7. \A n \in 1..Len(c) : abc[Len(a) + Len(b) + n] = c[n]
  BY <1>1, <1>3, <1>4
<1> QED BY <1>1, <1>3, <1>5, <1>6, <1>7

LEMMA FourLong ==
  ASSUME NEW I, NEW a \in I, NEW b \in I, NEW c \in I, NEW d \in I
  PROVE  /\ <<a, b, c, d>> \in Seq(I) /\ Len(<<a, b, c, d>>) = 4
         /\ <<a, b, c, d>>[1] = a /\ <<a, b, c, d>>[2] = b
         /\ <<a, b, c, d>>[3] = c /\ <<a, b, c, d>>[4] = d
         /\ <<a>> \in Seq(I) /\ Len(<<a>>) = 1 /\ <<a>>[1] = a
OBVIOUS

LEMMA ProgramShape ==
  ASSUME NEW names \in SUBSET DOMAIN Numbers,
         NEW s, s = NamedSyscalls(names), NEW code, code = BuildProgram(names)
  PROVE  /\ s \in Seq(Nat)
         /\ code = <<>> <=> (s = <<>> \/ Len(s) > MaxNames)
         /\ code # <<>> =>
              /\ Len(code) = 2 * Len(s) + 5
              /\ code[1] = Ld("arch") /\ code[2] = Jeq(X8664, 1, 0)
              /\ code[3] = Ret("allow") /\ code[4] = Ld("nr")
              /\ \A j \in 1..Len(s) : code[2 * j + 3] = Jeq(s[j], 0, 1) /\ code[2 * j + 4] = Ret("trace")
              /\ code[2 * Len(s) + 5] = Ret("allow")
<1> DEFINE head == <<Ld("arch"), Jeq(X8664, 1, 0), Ret("allow"), Ld("nr")>>
           test(n) == IF n % 2 = 1 THEN Jeq(s[(n + 1) \div 2], 0, 1) ELSE Ret("trace")
           tests == [n \in 1..(2 * Len(s)) |-> test(n)]
           last == <<Ret("allow")>>
           all == head \o tests \o last
           I == {Ld("arch"), Ld("nr"), Jeq(X8664, 1, 0), Ret("allow")} \cup {test(n) : n \in 1..(2 * Len(s))}
<1>1. s \in Seq(Nat) /\ Len(s) \in Nat
  BY NamedNumbers
<1>2. code = IF s = <<>> \/ Len(s) > MaxNames THEN <<>> ELSE all
  BY DEF BuildProgram
<1>3. ASSUME NEW j \in 1..Len(s)
      PROVE  /\ 2 * j - 1 \in 1..(2 * Len(s)) /\ 2 * j \in 1..(2 * Len(s))
             /\ test(2 * j - 1) = Jeq(s[j], 0, 1) /\ test(2 * j) = Ret("trace")
  <2>1. (2 * j - 1) % 2 = 1 /\ (2 * j) % 2 = 0 /\ (2 * j - 1 + 1) \div 2 = j
    BY <1>1
  <2> QED BY <1>1, <2>1
<1>4. /\ head \in Seq(I) /\ Len(head) = 4 /\ last \in Seq(I) /\ Len(last) = 1
      /\ head[1] = Ld("arch") /\ head[2] = Jeq(X8664, 1, 0)
      /\ head[3] = Ret("allow") /\ head[4] = Ld("nr") /\ last[1] = Ret("allow")
  <2> HIDE DEF test
  <2>1. Ld("arch") \in I /\ Ld("nr") \in I /\ Jeq(X8664, 1, 0) \in I /\ Ret("allow") \in I
    OBVIOUS
  <2> HIDE DEF I
  <2> QED BY <2>1, FourLong
<1>5. tests \in Seq(I) /\ Len(tests) = 2 * Len(s)
  <2> HIDE DEF test
  <2>1. \A n \in 1..(2 * Len(s)) : test(n) \in I
    OBVIOUS
  <2> HIDE DEF I
  <2>2. 2 * Len(s) \in Nat
    BY <1>1
  <2> QED BY <2>1, <2>2
<1>6. \A j \in 1..Len(s) : tests[2 * j - 1] = Jeq(s[j], 0, 1) /\ tests[2 * j] = Ret("trace")
  <2> HIDE DEF test
  <2> QED BY <1>3
<1> HIDE DEF I, tests, last, head
<1>7. /\ Len(all) = 4 + 2 * Len(s) + 1
      /\ \A n \in 1..4 : all[n] = head[n]
      /\ \A n \in 1..(2 * Len(s)) : all[4 + n] = tests[n]
      /\ \A n \in 1..1 : all[4 + 2 * Len(s) + n] = last[n]
  <2>1. /\ Len(all) = Len(head) + Len(tests) + Len(last)
        /\ \A n \in 1..Len(head) : all[n] = head[n]
        /\ \A n \in 1..Len(tests) : all[Len(head) + n] = tests[n]
        /\ \A n \in 1..Len(last) : all[Len(head) + Len(tests) + n] = last[n]
    <3>1. all = head \o tests \o last
      OBVIOUS
    <3>2. head \in Seq(I) /\ tests \in Seq(I) /\ last \in Seq(I)
      BY <1>4, <1>5
    <3> HIDE DEF all
    <3> QED BY <3>1, <3>2, ThreeParts
  <2> HIDE DEF all
  <2> QED BY <1>4, <1>5, <2>1
<1> HIDE DEF all
<1>8. Len(all) = 2 * Len(s) + 5 /\ all # <<>>
  BY <1>1, <1>7
<1>9. all[1] = Ld("arch") /\ all[2] = Jeq(X8664, 1, 0) /\ all[3] = Ret("allow") /\ all[4] = Ld("nr")
  <2>1. all[1] = head[1] /\ all[2] = head[2] /\ all[3] = head[3] /\ all[4] = head[4]
    BY <1>7
  <2> QED BY <1>4, <2>1
<1>10. all[2 * Len(s) + 5] = Ret("allow")
  <2>1. 4 + 2 * Len(s) + 1 = 2 * Len(s) + 5
    BY <1>1
  <2>2. all[4 + 2 * Len(s) + 1] = last[1]
    BY <1>7
  <2> QED BY <1>4, <2>1, <2>2
<1>11. ASSUME NEW j \in 1..Len(s)
       PROVE  all[2 * j + 3] = Jeq(s[j], 0, 1) /\ all[2 * j + 4] = Ret("trace")
  <2>1. 4 + (2 * j - 1) = 2 * j + 3 /\ 4 + 2 * j = 2 * j + 4
    BY <1>1
  <2>2. all[4 + (2 * j - 1)] = tests[2 * j - 1] /\ all[4 + 2 * j] = tests[2 * j]
    BY <1>3, <1>7
  <2> QED BY <1>6, <2>1, <2>2
<1>12. code = <<>> <=> (s = <<>> \/ Len(s) > MaxNames)
  BY <1>2, <1>8
<1>13. code # <<>> => code = all
  BY <1>2
<1> HIDE DEF test
<1> QED BY <1>1, <1>8, <1>9, <1>10, <1>11, <1>12, <1>13

-----------------------------------------------------------------------------
(* What the program answers.                                               *)

Values(call) == {0, call.arch, call.nr}

(* One instruction, given what the rest of the program answers.            *)
OneStep(f, code, call) ==
  [n \in 1..Len(code) |->
    [acc \in {0, call.arch, call.nr} |->
      CASE code[n].op = "ld" -> f[n + 1][IF code[n].k = "arch" THEN call.arch ELSE call.nr]
        [] code[n].op = "jeq" ->
             f[n + 1 + (IF acc = code[n].k THEN code[n].jt ELSE code[n].jf)][acc]
        [] code[n].op = "ret" -> code[n].k]]

LEMMA RunIsFixpoint ==
  ASSUME NEW code, code # <<>>, NEW call
  PROVE  RunProgram(code, call) = (CHOOSE f : f = OneStep(f, code, call))[1][0]
BY Zenon DEF RunProgram, OneStep

LEMMA StepAt ==
  ASSUME NEW f, NEW code, NEW call, NEW n \in 1..Len(code), NEW a \in Values(call)
  PROVE  /\ code[n] = Ld("arch") => OneStep(f, code, call)[n][a] = f[n + 1][call.arch]
         /\ code[n] = Ld("nr") => OneStep(f, code, call)[n][a] = f[n + 1][call.nr]
         /\ \A k, jt, jf : code[n] = Jeq(k, jt, jf) =>
              OneStep(f, code, call)[n][a] = f[n + 1 + (IF a = k THEN jt ELSE jf)][a]
         /\ \A x : code[n] = Ret(x) => OneStep(f, code, call)[n][a] = x
<1> DEFINE R == OneStep(f, code, call)[n][a]
<1>1. R = CASE code[n].op = "ld" -> f[n + 1][IF code[n].k = "arch" THEN call.arch ELSE call.nr]
            [] code[n].op = "jeq" ->
                 f[n + 1 + (IF a = code[n].k THEN code[n].jt ELSE code[n].jf)][a]
            [] code[n].op = "ret" -> code[n].k
  BY DEF OneStep, Values
<1> HIDE DEF R
<1>2. code[n] = Ld("arch") => R = f[n + 1][call.arch]
  BY <1>1 DEF Ld
<1>3. code[n] = Ld("nr") => R = f[n + 1][call.nr]
  BY <1>1 DEF Ld
<1>4. ASSUME NEW k, NEW jt, NEW jf, code[n] = Jeq(k, jt, jf)
      PROVE  R = f[n + 1 + (IF a = k THEN jt ELSE jf)][a]
  <2>1. code[n].op = "jeq" /\ code[n].k = k /\ code[n].jt = jt /\ code[n].jf = jf
    BY <1>4 DEF Jeq
  <2> QED BY <1>1, <2>1
<1>5. ASSUME NEW x, code[n] = Ret(x) PROVE R = x
  BY <1>1, <1>5 DEF Ret
<1> QED BY <1>2, <1>3, <1>4, <1>5 DEF R

(* The program for the numbers s.                                          *)
IsFilter(code, s) ==
  /\ s \in Seq(Nat)
  /\ Len(code) = 2 * Len(s) + 5
  /\ code[1] = Ld("arch") /\ code[2] = Jeq(X8664, 1, 0)
  /\ code[3] = Ret("allow") /\ code[4] = Ld("nr")
  /\ \A j \in 1..Len(s) : code[2 * j + 3] = Jeq(s[j], 0, 1) /\ code[2 * j + 4] = Ret("trace")
  /\ code[2 * Len(s) + 5] = Ret("allow")

(* The order of the naturals as a relation.                                *)
Less == {ss \in Nat \X Nat : ss[1] < ss[2]}

LEMMA LeastNatural ==
  ASSUME NEW S, S # {}, S \subseteq Nat
  PROVE  \E d \in S : \A e \in S : d <= e
<1>1. IsWellFoundedOn(Less, Nat)
  <2>1. OpToRel(<, Nat) = Less
    BY DEF OpToRel, Less
  <2> QED BY <2>1, NatLessThanWellFounded
<1>2. PICK d \in S : \A e \in S : ~(<<e, d>> \in Less)
  BY <1>1, WFMin
<1>3. \A e \in S : ~(e < d)
  BY <1>2 DEF Less
<1> QED BY <1>2, <1>3

(* The tests from number j on answer to the accumulator a.                 *)
Answer(s, j, a) == IF \E m \in j..Len(s) : s[m] = a THEN "trace" ELSE "allow"

LEMMA AnswerStep ==
  ASSUME NEW s \in Seq(Nat), NEW j \in 1..Len(s), NEW a
  PROVE  Answer(s, j, a) = IF a = s[j] THEN "trace" ELSE Answer(s, j + 1, a)
<1>1. j..Len(s) = {j} \cup ((j + 1)..Len(s))
  OBVIOUS
<1>2. (\E m \in j..Len(s) : s[m] = a) <=> (a = s[j] \/ \E m \in (j + 1)..Len(s) : s[m] = a)
  BY <1>1
<1> QED BY <1>2 DEF Answer

LEMMA TestsAnswer ==
  ASSUME NEW code, NEW s, IsFilter(code, s), NEW call, NEW a \in Values(call),
         NEW f, f = OneStep(f, code, call)
  PROVE  \A j \in 1..(Len(s) + 1) : f[2 * j + 3][a] = Answer(s, j, a)
<1> DEFINE N == Len(s)
           Wrong == {d \in 0..N : f[2 * (N + 1 - d) + 3][a] # Answer(s, N + 1 - d, a)}
<1>1. N \in Nat /\ s \in Seq(Nat) /\ Len(code) = 2 * N + 5
  BY DEF IsFilter
<1>2. f[2 * (N + 1) + 3][a] = Answer(s, N + 1, a)
  <2>1. code[2 * N + 5] = Ret("allow") /\ 2 * N + 5 \in 1..Len(code)
    BY <1>1 DEF IsFilter
  <2>2. f[2 * N + 5][a] = "allow"
    BY <2>1, StepAt
  <2>3. 2 * (N + 1) + 3 = 2 * N + 5 /\ (N + 1)..N = {}
    BY <1>1
  <2> QED BY <2>2, <2>3 DEF Answer
<1>3. ASSUME NEW j \in 1..N, f[2 * (j + 1) + 3][a] = Answer(s, j + 1, a)
      PROVE  f[2 * j + 3][a] = Answer(s, j, a)
  <2>1. /\ 2 * j + 3 \in 1..Len(code) /\ 2 * j + 4 \in 1..Len(code)
        /\ code[2 * j + 3] = Jeq(s[j], 0, 1) /\ code[2 * j + 4] = Ret("trace")
    BY <1>1 DEF IsFilter
  <2>2. f[2 * j + 4][a] = "trace"
    BY <2>1, StepAt
  <2>3. f[2 * j + 3][a] = f[2 * j + 3 + 1 + (IF a = s[j] THEN 0 ELSE 1)][a]
    <3> DEFINE n == 2 * j + 3
    <3>1. n \in 1..Len(code) /\ code[n] = Jeq(s[j], 0, 1)
      BY <2>1
    <3> HIDE DEF n
    <3>2. f[n][a] = f[n + 1 + (IF a = s[j] THEN 0 ELSE 1)][a]
      BY <3>1, StepAt
    <3> QED BY <3>2 DEF n
  <2>4. 2 * j + 3 + 1 + 0 = 2 * j + 4 /\ 2 * j + 3 + 1 + 1 = 2 * (j + 1) + 3
    BY <1>1
  <2>5. f[2 * j + 3][a] = IF a = s[j] THEN "trace" ELSE Answer(s, j + 1, a)
    BY <1>3, <2>2, <2>3, <2>4
  <2> QED BY <1>1, <2>5, AnswerStep
<1>4. Wrong = {}
  <2> SUFFICES ASSUME Wrong # {} PROVE FALSE
    OBVIOUS
  <2>1. Wrong \subseteq Nat
    BY <1>1
  <2>2. PICK d \in Wrong : \A e \in Wrong : d <= e
    <3> HIDE DEF Wrong
    <3> QED BY <2>1, LeastNatural
  <2>3. d # 0
    BY <1>1, <1>2
  <2>4. d \in 0..N /\ d - 1 \in 0..N /\ N + 1 - d \in 1..N /\ N + 1 - (d - 1) = (N + 1 - d) + 1
    BY <1>1, <2>3
  <2>5. d - 1 \notin Wrong
    <3> HIDE DEF Wrong
    <3> QED BY <2>1, <2>2, <2>4
  <2>6. f[2 * (N + 1 - (d - 1)) + 3][a] = Answer(s, N + 1 - (d - 1), a)
    BY <2>4, <2>5
  <2>7. f[2 * (N + 1 - d) + 3][a] = Answer(s, N + 1 - d, a)
    BY <1>3, <2>4, <2>6
  <2> QED BY <2>2, <2>7
<1>5. ASSUME NEW j \in 1..(N + 1) PROVE f[2 * j + 3][a] = Answer(s, j, a)
  <2>1. N + 1 - j \in 0..N /\ N + 1 - (N + 1 - j) = j
    BY <1>1
  <2>2. N + 1 - j \notin Wrong
    BY <1>4
  <2> QED BY <2>1, <2>2
<1> QED BY <1>5

LEMMA FixpointAnswers ==
  ASSUME NEW code, NEW s, IsFilter(code, s), NEW call,
         NEW f, f = OneStep(f, code, call)
  PROVE  f[1][0] = IF call.arch = X8664 THEN Answer(s, 1, call.nr) ELSE "allow"
<1> DEFINE arch == call.arch
           nr == call.nr
<1>1. Len(s) \in Nat /\ Len(code) = 2 * Len(s) + 5
  BY DEF IsFilter
<1>2. /\ code[1] = Ld("arch") /\ code[2] = Jeq(X8664, 1, 0)
      /\ code[3] = Ret("allow") /\ code[4] = Ld("nr")
  BY DEF IsFilter
<1>3. {1, 2, 3, 4} \subseteq 1..Len(code) /\ {0, arch, nr} \subseteq Values(call)
  BY <1>1 DEF Values
<1> HIDE DEF arch, nr
<1>4. f[1][0] = f[2][arch]
  BY <1>2, <1>3, StepAt DEF arch
<1>5. f[2][arch] = IF arch = X8664 THEN f[4][arch] ELSE f[3][arch]
  <2>1. f[2][arch] = f[2 + 1 + (IF arch = X8664 THEN 1 ELSE 0)][arch]
    BY <1>2, <1>3, StepAt
  <2> QED BY <2>1
<1>6. f[3][arch] = "allow"
  BY <1>2, <1>3, StepAt
<1>7. f[4][arch] = f[5][nr]
  BY <1>2, <1>3, StepAt DEF nr
<1>8. f[5][nr] = Answer(s, 1, nr)
  <2>1. f[2 * 1 + 3][nr] = Answer(s, 1, nr)
    BY <1>1, <1>3, TestsAnswer
  <2> QED BY <2>1
<1> QED BY <1>4, <1>5, <1>6, <1>7, <1>8 DEF arch, nr

(* There is such a function: the answer from each instruction on.          *)
Answers(code, s, call) ==
  [n \in 1..Len(code) |->
    [a \in Values(call) |->
      IF n = 1 THEN IF call.arch = X8664 THEN Answer(s, 1, call.nr) ELSE "allow"
      ELSE IF n = 2 THEN IF a = X8664 THEN Answer(s, 1, call.nr) ELSE "allow"
      ELSE IF n = 3 THEN "allow"
      ELSE IF n = 4 THEN Answer(s, 1, call.nr)
      ELSE IF n % 2 = 0 THEN "trace" ELSE Answer(s, (n - 3) \div 2, a)]]

LEMMA FixpointExists ==
  ASSUME NEW code, NEW s, IsFilter(code, s), NEW call
  PROVE  \E f : f = OneStep(f, code, call)
<1> DEFINE arch == call.arch
           nr == call.nr
           V == Values(call)
           N == Len(s)
           f == Answers(code, s, call)
           g == OneStep(f, code, call)
<1>1. N \in Nat /\ Len(code) = 2 * N + 5 /\ s \in Seq(Nat)
  BY DEF IsFilter
<1>2. arch \in V /\ nr \in V
  BY DEF Values
<1>3. \A a \in V :
        /\ f[1][a] = IF arch = X8664 THEN Answer(s, 1, nr) ELSE "allow"
        /\ f[2][a] = IF a = X8664 THEN Answer(s, 1, nr) ELSE "allow"
        /\ f[3][a] = "allow" /\ f[4][a] = Answer(s, 1, nr)
  BY <1>1 DEF Answers
<1>4. ASSUME NEW a \in V, NEW j \in 1..N PROVE f[2 * j + 4][a] = "trace"
  <2> DEFINE n == 2 * j + 4
  <2>1. n \in 1..Len(code) /\ n \notin {1, 2, 3, 4} /\ n % 2 = 0
    BY <1>1
  <2> HIDE DEF n
  <2>2. f[n][a] = "trace"
    BY <2>1 DEF Answers
  <2> QED BY <2>2 DEF n
<1>5. ASSUME NEW a \in V, NEW j \in 1..(N + 1) PROVE f[2 * j + 3][a] = Answer(s, j, a)
  <2> DEFINE n == 2 * j + 3
  <2>1. n \in 1..Len(code) /\ n \notin {1, 2, 3, 4} /\ n % 2 # 0 /\ (n - 3) \div 2 = j
    BY <1>1
  <2> HIDE DEF n
  <2>2. f[n][a] = Answer(s, j, a)
    BY <2>1 DEF Answers
  <2> QED BY <2>2 DEF n
<1> HIDE DEF f, g, V, N, arch, nr
<1>6. ASSUME NEW a \in V, NEW n \in 1..Len(code)
      PROVE  /\ code[n] = Ld("arch") => g[n][a] = f[n + 1][arch]
             /\ code[n] = Ld("nr") => g[n][a] = f[n + 1][nr]
             /\ \A k, jt, jf : code[n] = Jeq(k, jt, jf) =>
                  g[n][a] = f[n + 1 + (IF a = k THEN jt ELSE jf)][a]
             /\ \A x : code[n] = Ret(x) => g[n][a] = x
  BY StepAt DEF g, V, arch, nr
<1>7. ASSUME NEW a \in V
      PROVE  g[1][a] = f[1][a] /\ g[2][a] = f[2][a] /\ g[3][a] = f[3][a] /\ g[4][a] = f[4][a]
  <2>1. {1, 2, 3, 4} \subseteq 1..Len(code) /\ 1 \in 1..(N + 1)
    BY <1>1
  <2>2. f[5][nr] = Answer(s, 1, nr)
    <3>1. f[2 * 1 + 3][nr] = Answer(s, 1, nr)
      BY <1>2, <1>5, <2>1
    <3> QED BY <3>1
  <2>3. g[1][a] = f[2][arch] /\ g[3][a] = "allow" /\ g[4][a] = f[5][nr]
    <3>1. code[1] = Ld("arch") /\ code[3] = Ret("allow") /\ code[4] = Ld("nr")
      BY DEF IsFilter
    <3> QED BY <1>6, <2>1, <3>1
  <2>4. g[2][a] = IF a = X8664 THEN f[4][a] ELSE f[3][a]
    <3>1. code[2] = Jeq(X8664, 1, 0)
      BY DEF IsFilter
    <3>2. g[2][a] = f[2 + 1 + (IF a = X8664 THEN 1 ELSE 0)][a]
      BY <1>6, <2>1, <3>1
    <3> QED BY <3>2
  <2> QED BY <1>2, <1>3, <2>2, <2>3, <2>4
<1>8. ASSUME NEW a \in V, NEW j \in 1..N
      PROVE  g[2 * j + 3][a] = f[2 * j + 3][a] /\ g[2 * j + 4][a] = f[2 * j + 4][a]
  <2>1. /\ code[2 * j + 3] = Jeq(s[j], 0, 1) /\ code[2 * j + 4] = Ret("trace")
        /\ 2 * j + 3 \in 1..Len(code) /\ 2 * j + 4 \in 1..Len(code)
        /\ j \in 1..(N + 1) /\ j + 1 \in 1..(N + 1)
        /\ 2 * j + 3 + 1 + 0 = 2 * j + 4 /\ 2 * j + 3 + 1 + 1 = 2 * (j + 1) + 3
    BY <1>1 DEF IsFilter, N
  <2>2. g[2 * j + 4][a] = "trace"
    BY <1>6, <2>1
  <2>3. g[2 * j + 3][a] = f[2 * j + 3 + 1 + (IF a = s[j] THEN 0 ELSE 1)][a]
    <3> DEFINE n == 2 * j + 3
    <3>1. n \in 1..Len(code) /\ code[n] = Jeq(s[j], 0, 1)
      BY <2>1
    <3> HIDE DEF n
    <3>2. g[n][a] = f[n + 1 + (IF a = s[j] THEN 0 ELSE 1)][a]
      BY <1>6, <3>1
    <3> QED BY <3>2 DEF n
  <2>4. g[2 * j + 3][a] = IF a = s[j] THEN "trace" ELSE Answer(s, j + 1, a)
    BY <1>4, <1>5, <2>1, <2>3
  <2>5. Answer(s, j, a) = IF a = s[j] THEN "trace" ELSE Answer(s, j + 1, a)
    BY <1>1, AnswerStep DEF N
  <2> QED BY <1>4, <1>5, <2>1, <2>2, <2>4, <2>5
<1>9. ASSUME NEW a \in V PROVE g[2 * N + 5][a] = f[2 * N + 5][a]
  <2>1. code[2 * N + 5] = Ret("allow") /\ 2 * N + 5 \in 1..Len(code)
    BY <1>1 DEF IsFilter, N
  <2>2. g[2 * N + 5][a] = "allow"
    BY <1>6, <2>1
  <2>3. 2 * (N + 1) + 3 = 2 * N + 5 /\ N + 1 \in 1..(N + 1) /\ (N + 1)..N = {}
    BY <1>1
  <2>4. f[2 * (N + 1) + 3][a] = Answer(s, N + 1, a)
    BY <1>5, <2>3
  <2> QED BY <2>2, <2>3, <2>4 DEF Answer, N
<1>10. ASSUME NEW n \in 1..Len(code), NEW a \in V PROVE g[n][a] = f[n][a]
  <2>1. CASE n \in {1, 2, 3, 4}
    BY <1>7, <2>1
  <2>2. CASE n = 2 * N + 5
    BY <1>9, <2>2
  <2>3. CASE n \in 5..(2 * N + 4) /\ n % 2 = 0
    <3>1. (n - 4) \div 2 \in 1..N /\ n = 2 * ((n - 4) \div 2) + 4
      BY <1>1, <2>3
    <3> QED BY <1>8, <3>1
  <2>4. CASE n \in 5..(2 * N + 4) /\ n % 2 = 1
    <3>1. (n - 3) \div 2 \in 1..N /\ n = 2 * ((n - 3) \div 2) + 3
      BY <1>1, <2>4
    <3> QED BY <1>8, <3>1
  <2>5. n % 2 \in {0, 1}
    BY <1>1
  <2> QED BY <1>1, <2>1, <2>2, <2>3, <2>4, <2>5
<1>11. /\ f = [n \in 1..Len(code) |-> f[n]] /\ \A n \in 1..Len(code) : f[n] = [a \in V |-> f[n][a]]
       /\ g = [n \in 1..Len(code) |-> g[n]] /\ \A n \in 1..Len(code) : g[n] = [a \in V |-> g[n][a]]
  <2>1. f = [n \in 1..Len(code) |-> f[n]]
    BY DEF f, Answers
  <2>2. g = [n \in 1..Len(code) |-> g[n]]
    BY DEF g, OneStep
  <2>3. ASSUME NEW n \in 1..Len(code) PROVE f[n] = [a \in V |-> f[n][a]]
    BY DEF f, V, Answers
  <2>4. ASSUME NEW n \in 1..Len(code) PROVE g[n] = [a \in V |-> g[n][a]]
    <3> DEFINE e(a) == CASE code[n].op = "ld" -> f[n + 1][IF code[n].k = "arch" THEN call.arch ELSE call.nr]
                         [] code[n].op = "jeq" ->
                              f[n + 1 + (IF a = code[n].k THEN code[n].jt ELSE code[n].jf)][a]
                         [] code[n].op = "ret" -> code[n].k
    <3>1. g[n] = [a \in V |-> e(a)]
      BY DEF g, V, OneStep, Values
    <3> HIDE DEF e
    <3> QED BY <3>1
  <2> QED BY <2>1, <2>2, <2>3, <2>4
<1>12. f = g
  <2>1. \A n \in 1..Len(code) : f[n] = g[n]
    BY <1>10, <1>11
  <2> QED BY <1>11, <2>1
<1> QED BY <1>12 DEF g

(* For every filter that compiles, the program wants a call traced exactly  *)
(* when it is a 64-bit call of a number the filter names: the offsets that  *)
(* build_seccomp_program computes are those of its tests (seccomp.cpp).     *)
THEOREM ProgramAnswers ==
  ASSUME NEW names \in SUBSET DOMAIN Numbers, BuildProgram(names) # <<>>, NEW call
  PROVE  RunProgram(BuildProgram(names), call) =
           IF call.arch = X8664 /\ call.nr \in NumbersOf(names) THEN "trace" ELSE "allow"
<1> DEFINE code == BuildProgram(names)
           s == NamedSyscalls(names)
           f == CHOOSE h : h = OneStep(h, code, call)
<1>1. IsFilter(code, s)
  BY ProgramShape DEF IsFilter
<1>2. f = OneStep(f, code, call)
  <2> HIDE DEF code
  <2> QED BY <1>1, FixpointExists
<1>3. RunProgram(code, call) = f[1][0]
  BY RunIsFixpoint
<1>4. call.nr \in NumbersOf(names) <=> \E m \in 1..Len(s) : s[m] = call.nr
  BY NamedNumbers
<1> HIDE DEF code, s, f
<1>5. f[1][0] = IF call.arch = X8664 THEN Answer(s, 1, call.nr) ELSE "allow"
  BY <1>1, <1>2, FixpointAnswers
<1> QED BY <1>3, <1>4, <1>5 DEF Answer, code

-----------------------------------------------------------------------------
(* A launched child: its filter, its tracer's options and its last call.   *)

OptionsOK ==
  options \in [pid : BOOLEAN, filters : SUBSET DOMAIN Numbers, bpf : BOOLEAN, follow : BOOLEAN,
               dump : BOOLEAN, command : {options.command}]

ChildStates == {"none", "forked", "stopped", "exited", "resumed", "filtered", "running"}

(* The options are fixed once there is a child; the program is installed    *)
(* after the tracer has set PTRACE_O_TRACESECCOMP, and before the command   *)
(* runs.                                                                    *)
LaunchInv ==
  /\ OptionsOK
  /\ child \in ChildStates
  /\ child # "none" => pc \in {"await", "loop", "error"}
  /\ child \in {"forked", "stopped"} => pc = "await"
  /\ pc = "fork" \/ child # "none" => (options.bpf => options.filters # {})
  /\ child \in {"none", "forked", "stopped", "resumed"} => program = <<>>
  /\ child \in {"resumed", "filtered", "running"} => seccompOn = options.bpf
  /\ child = "filtered" => options.bpf
  /\ child \in {"filtered", "running"} =>
       /\ program = IF options.bpf THEN BuildProgram(options.filters) ELSE <<>>
       /\ options.bpf => program # <<>>
  /\ FilteredCallsStop

LEMMA LaunchInit == Init => LaunchInv
BY DEF Init, LaunchInv, OptionsOK, Defaults, ChildStates, FilteredCallsStop

LEMMA ParseKeepsLaunch == ASSUME LaunchInv, ParseWord PROVE LaunchInv'
<1>1. pc = "parse" /\ child = "none" /\ UNCHANGED <<child, program, seccompOn, outcome>>
  BY DEF ParseWord, launch, LaunchInv, ChildStates
<1>2. pc' \in {"parse", "error"}
  BY <1>1 DEF ParseWord, ParsePid, ParseFilter, ParseFlag, ParseCommand, Goes, Fails
<1>3. OptionsOK'
  <2>1. CASE ParsePid
    BY <2>1 DEF ParsePid, Goes, Fails, LaunchInv, OptionsOK
  <2>2. CASE ParseFilter
    BY <2>2 DEF ParseFilter, Goes, Fails, LaunchInv, OptionsOK
  <2>3. CASE ParseFlag
    BY <2>3 DEF ParseFlag, Goes, Fails, LaunchInv, OptionsOK
  <2>4. CASE ParseCommand
    <3>1. options' = [options EXCEPT !.command = options'.command]
      BY <2>4 DEF ParseCommand, LaunchInv, OptionsOK
    <3> QED BY <3>1 DEF LaunchInv, OptionsOK
  <2> QED BY <2>1, <2>2, <2>3, <2>4 DEF ParseWord
<1> QED BY <1>1, <1>2, <1>3 DEF LaunchInv, FilteredCallsStop, ChildStates

(* A call under the program that the invariant says the child has.          *)
LEMMA CallStops ==
  ASSUME LaunchInv, NEW call, ChildCalls(call),
         program = IF options.bpf THEN BuildProgram(options.filters) ELSE <<>>,
         options.bpf => program # <<>>,
         seccompOn = options.bpf
  PROVE  /\ ~outcome'.refused /\ outcome'.call = call
         /\ outcome'.seen = ( /\ options.bpf
                              /\ call.arch = X8664
                              /\ \E name \in options.filters : Numbers[name] = call.nr )
<1> DEFINE action == RunProgram(program, call)
<1>1. /\ outcome'.call = call /\ outcome'.seen = (action = "trace" /\ seccompOn)
      /\ outcome'.refused = (action = "trace" /\ ~seccompOn)
  BY DEF ChildCalls
<1> HIDE DEF action
<1>2. options.bpf \in BOOLEAN /\ options.filters \in SUBSET DOMAIN Numbers
  BY DEF LaunchInv, OptionsOK
<1>3. CASE ~options.bpf
  <2>1. action = "allow"
    BY <1>3 DEF action, RunProgram
  <2> QED BY <1>1, <1>2, <1>3, <2>1
<1>4. CASE options.bpf
  <2>1. action = IF call.arch = X8664 /\ call.nr \in NumbersOf(options.filters) THEN "trace" ELSE "allow"
    BY <1>2, <1>4, ProgramAnswers DEF action
  <2>2. (action = "trace") <=> (call.arch = X8664 /\ call.nr \in NumbersOf(options.filters))
    BY <2>1
  <2>3. call.nr \in NumbersOf(options.filters) <=> \E name \in options.filters : Numbers[name] = call.nr
    BY DEF NumbersOf
  <2> QED BY <1>1, <1>2, <1>4, <2>2, <2>3
<1> QED BY <1>2, <1>3, <1>4

(* A child without a program is refused nothing.                            *)
LEMMA CallWithoutProgram ==
  ASSUME NEW call, ChildCalls(call), program = <<>>
  PROVE  ~outcome'.refused
BY DEF ChildCalls, RunProgram

LEMMA CommandKeepsLaunch == ASSUME LaunchInv, Command PROVE LaunchInv'
<1>1. CASE ChildStops
  <2>1. /\ child = "forked" /\ child' \in {"exited", "stopped"} /\ pc = "await"
        /\ UNCHANGED <<pc, options, program, seccompOn>> /\ program = <<>>
    BY <1>1 DEF ChildStops, Child, command, LaunchInv
  <2>2. ~outcome'.refused
    BY <1>1, <2>1, CallWithoutProgram DEF ChildStops, LaunchInv, FilteredCallsStop
  <2> QED BY <2>1, <2>2 DEF LaunchInv, OptionsOK, ChildStates, FilteredCallsStop
<1>2. CASE InstallFilter
  BY <1>2 DEF InstallFilter, Child, command, LaunchInv, OptionsOK, ChildStates, FilteredCallsStop
<1>3. CASE ExecCommand
  <2>1. /\ child \in {"resumed", "filtered"} /\ child' \in {"running", "exited"}
        /\ UNCHANGED <<pc, options, program, seccompOn>>
        /\ child = "resumed" => ~options.bpf
    BY <1>3 DEF ExecCommand, Child, command
  <2>2. /\ program = IF options.bpf THEN BuildProgram(options.filters) ELSE <<>>
        /\ options.bpf => program # <<>>
        /\ seccompOn = options.bpf
    BY <2>1 DEF LaunchInv
  <2>3. /\ ~outcome'.refused
        /\ outcome'.seen = ( /\ options.bpf /\ outcome'.call.arch = X8664
                             /\ \E name \in options.filters : Numbers[name] = outcome'.call.nr )
    BY <1>3, <2>2, CallStops DEF ExecCommand
  <2> QED BY <2>1, <2>2, <2>3 DEF LaunchInv, OptionsOK, ChildStates, FilteredCallsStop
<1>4. CASE CommandCalls
  <2>1. child = "running" /\ UNCHANGED <<pc, options, child, program, seccompOn>>
    BY <1>4 DEF CommandCalls, command
  <2>2. /\ program = IF options.bpf THEN BuildProgram(options.filters) ELSE <<>>
        /\ options.bpf => program # <<>>
        /\ seccompOn = options.bpf
    BY <2>1 DEF LaunchInv
  <2>3. /\ ~outcome'.refused
        /\ outcome'.seen = ( /\ options.bpf /\ outcome'.call.arch = X8664
                             /\ \E name \in options.filters : Numbers[name] = outcome'.call.nr )
    BY <1>4, <2>2, CallStops DEF CommandCalls
  <2> QED BY <2>1, <2>2, <2>3 DEF LaunchInv, OptionsOK, ChildStates, FilteredCallsStop
<1> QED BY <1>1, <1>2, <1>3, <1>4 DEF Command

(* The attach side leaves the options and the child alone, and runs only    *)
(* when there is no child.                                                  *)
LEMMA ElsewhereKeepsLaunch ==
  ASSUME LaunchInv, UNCHANGED <<options, launch>>,
         pc' = pc \/ (pc' # "fork" /\ pc \in {"enumerate", "seize", "interrupt", "handshake"})
  PROVE  LaunchInv'
BY DEF LaunchInv, launch, OptionsOK, ChildStates, FilteredCallsStop

LEMMA TracerKeepsLaunch == ASSUME LaunchInv, Tracer PROVE LaunchInv'
<1>1. CASE Check
  <2>1. /\ pc = "parse" /\ child = "none" /\ UNCHANGED <<options, child, program, seccompOn, outcome>>
        /\ pc' = IF Refused THEN "error" ELSE IF options.pid THEN "enumerate" ELSE "fork"
    BY <1>1 DEF Check, command, launch, LaunchInv, ChildStates
  <2>2. pc' = "fork" => (options.bpf => options.filters # {})
    BY <2>1 DEF Refused
  <2> QED BY <2>1, <2>2 DEF LaunchInv, OptionsOK, ChildStates, FilteredCallsStop
<1>2. CASE LaunchChild
  BY <1>2 DEF LaunchChild, Child, command, LaunchInv, OptionsOK, ChildStates, FilteredCallsStop
<1>3. CASE AwaitChild
  BY <1>3 DEF AwaitChild, Child, command, launch, LaunchInv, OptionsOK, ChildStates, FilteredCallsStop
<1>4. CASE Enumerate \/ NobodyLeft \/ Attached
  BY <1>4, ElsewhereKeepsLaunch DEF Enumerate, NobodyLeft, Attached, command
<1>5. ASSUME NEW t \in Tid, Seize(t) \/ Interrupt(t) \/ AwaitStop(t)
      PROVE  LaunchInv'
  BY <1>5, ElsewhereKeepsLaunch DEF Seize, Interrupt, AwaitStop, command
<1> QED BY <1>1, <1>2, <1>3, <1>4, <1>5, ParseKeepsLaunch DEF Tracer

LEMMA LaunchStep == LaunchInv /\ [Next]_vars => LaunchInv'
<1> SUFFICES ASSUME LaunchInv, [Next]_vars PROVE LaunchInv'
  OBVIOUS
<1>1. ASSUME NEW t \in Tid, Serve(t) PROVE LaunchInv'
  BY <1>1, ElsewhereKeepsLaunch DEF Serve, command
<1>2. CASE Target
  <2>1. UNCHANGED <<pc, command, launch>>
    BY <1>2 DEF Target, Sandbox, Enter, Leave, Interrupted, Signalled, Clone, Die, TargetKeeps
  <2> QED BY <2>1, ElsewhereKeepsLaunch DEF command
<1>3. CASE UNCHANGED vars
  BY <1>3, ElsewhereKeepsLaunch DEF vars, command
<1> QED BY <1>1, <1>2, <1>3, TracerKeepsLaunch, CommandKeepsLaunch DEF Next

LEMMA LaunchAlways == Spec => []LaunchInv
BY LaunchInit, LaunchStep, PTL DEF Spec

(* --seccomp-bpf stops the 64-bit calls of the filtered names, all of them  *)
(* and no others, whatever the table of calls and the filter, and no call   *)
(* of the child is refused for want of a tracer (seccomp.cpp, tracer.cpp).  *)
THEOREM FilterExact == Spec => []FilteredCallsStop
<1>1. LaunchInv => FilteredCallsStop
  BY DEF LaunchInv
<1> QED BY <1>1, LaunchAlways, PTL
=============================================================================
