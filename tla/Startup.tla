------------------------------- MODULE Startup -------------------------------
(***************************************************************************)
(* How a run of mini-strace begins, up to the event loop that TraceLoop    *)
(* models: the command line (main.cpp), then either a launched child that  *)
(* stops itself, installs the seccomp filter and execs (tracer.cpp,        *)
(* seccomp.cpp), or the attach handshake with the threads of a running     *)
(* process (tracer.cpp, attach.cpp).                                       *)
(*                                                                         *)
(* A word of the command line is an option, a name or a number.  Options   *)
(* that only select output are one option, "--summary".                    *)
(*                                                                         *)
(* Bounds: the command lines given; MaxSteps births, deaths, signals and   *)
(* filters of the target, and MaxCalls calls of a launched child.          *)
(***************************************************************************)
EXTENDS Integers, Sequences, FiniteSets

CONSTANTS
  Lines,        \* the command lines to try
  Numbers,      \* call name -> its number; the names that the table knows
  MaxNames,     \* a filter of more names is not compiled: 200
  Tid,          \* threads of the target, in attach mode
  First,        \* those that exist when mini-strace starts
  SeesFilters,  \* may mini-strace read seccomp filters (CAP_SYS_ADMIN)?
  MaxSteps, MaxCalls

ASSUME StartupAssumption ==
  /\ \A name \in DOMAIN Numbers : Numbers[name] \in Nat
  /\ IsFiniteSet(DOMAIN Numbers) /\ {"kill", "execve"} \subseteq DOMAIN Numbers
  /\ First \subseteq Tid /\ First # {} /\ IsFiniteSet(Tid)
  /\ MaxNames \in Nat /\ SeesFilters \in BOOLEAN
  /\ MaxSteps \in Nat /\ MaxCalls \in Nat

VARIABLES
  pc,        \* where main is
  argv, i,   \* the command line, and the word that is looked at
  options,   \* TraceOptions
  child,     \* the launched child
  program,   \* the seccomp program the child runs under; <<>>: none
  seccompOn, \* has the child PTRACE_O_TRACESECCOMP?
  outcome,   \* what became of the child's last call
  thread,    \* the threads of the target
  tids,      \* enumerate_tids: those not yet attached
  wanted,    \* how many stops the handshake waits for
  stopped,   \* how many it has counted
  tasks,     \* TraceSession tasks
  dump,      \* SeccompDumpState: "none", "dumped" or "failed"
  filtered,  \* has the target a seccomp filter of its own?
  swallowed, \* threads whose parent's clone stop the handshake counted
  steps      \* steps of the target, or calls of the child

command == <<argv, i, options>>
launch == <<child, program, seccompOn, outcome>>
attach == <<thread, tids, wanted, stopped, tasks, dump, filtered, swallowed>>
vars == <<pc, command, launch, attach, steps>>

-----------------------------------------------------------------------------
(* The command line.                                                       *)

IsOption(word) == word \in {"--pid", "--filter", "--seccomp-bpf", "--follow-fork",
                            "--dump-seccomp", "--summary", "--bogus"}
Word == argv[i]
Value == argv[i + 1]
HasValue == i + 1 <= Len(argv)

Defaults == [pid |-> FALSE, filters |-> {}, bpf |-> FALSE, follow |-> FALSE, dump |-> FALSE,
             command |-> <<>>]

Fails == pc' = "error" /\ UNCHANGED <<i, options>>
Goes(words, new) == i' = i + words /\ options' = new /\ UNCHANGED pc

ParsePid ==
  /\ Word = "--pid"
  /\ IF HasValue /\ Value = "7" THEN Goes(2, [options EXCEPT !.pid = TRUE]) ELSE Fails

ParseFilter ==
  /\ Word = "--filter"
  /\ IF HasValue /\ Value \in DOMAIN Numbers
       THEN Goes(2, [options EXCEPT !.filters = @ \cup {Value}])
       ELSE Fails

ParseFlag ==
  \/ Word = "--seccomp-bpf" /\ Goes(1, [options EXCEPT !.bpf = TRUE])
  \/ Word = "--follow-fork" /\ Goes(1, [options EXCEPT !.follow = TRUE])
  \/ Word = "--dump-seccomp" /\ Goes(1, [options EXCEPT !.dump = TRUE])
  \/ Word = "--summary" /\ Goes(1, options)
  \/ Word = "--bogus" /\ Fails

\* "--" and the first word that is no option end the options.
ParseCommand ==
  LET first == IF Word = "--" THEN i + 1 ELSE i
  IN  /\ ~IsOption(Word)
      /\ i' = Len(argv) + 1
      /\ options' = [options EXCEPT !.command = SubSeq(argv, first, Len(argv))]
      /\ UNCHANGED pc

ParseWord ==
  /\ pc = "parse" /\ i <= Len(argv)
  /\ ParsePid \/ ParseFilter \/ ParseFlag \/ ParseCommand
  /\ UNCHANGED <<argv, launch, attach, steps>>

\* What is refused after all words are read.
Refused ==
  \/ ~options.pid /\ options.command = <<>>
  \/ options.bpf /\ options.pid
  \/ options.bpf /\ options.filters = {}

Check ==
  /\ pc = "parse" /\ i > Len(argv)
  /\ pc' = IF Refused THEN "error" ELSE IF options.pid THEN "enumerate" ELSE "fork"
  /\ UNCHANGED <<command, launch, attach, steps>>

-----------------------------------------------------------------------------
(* The seccomp program: one comparison and one return per name.            *)

\* AUDIT_ARCH_X86_64, and that of 32-bit calls; any numbers serve.
X8664 == 1000
I386 == 1001

Ld(field) == [op |-> "ld", k |-> field, jt |-> 0, jf |-> 0]
\* Fault: the two branches are swapped.
JeqSwapped(k, jt, jf) == [op |-> "jeq", k |-> k, jt |-> jf, jf |-> jt]

Jeq(k, jt, jf) == [op |-> "jeq", k |-> k, jt |-> jt, jf |-> jf]
Ret(action) == [op |-> "ret", k |-> action, jt |-> 0, jf |-> 0]

\* The numbers of the names, each once, in ascending order.
NamedSyscalls(names) ==
  LET numbers == {Numbers[name] : name \in names}
  IN  [n \in 1..Cardinality(numbers) |->
         CHOOSE k \in numbers : Cardinality({l \in numbers : l <= k}) = n]

BuildProgram(names) ==
  LET numbers == NamedSyscalls(names)
      test(n) == IF n % 2 = 1 THEN Jeq(numbers[(n + 1) \div 2], 0, 1) ELSE Ret("trace")
  IN  IF numbers = <<>> \/ Len(numbers) > MaxNames THEN <<>>
      ELSE <<Ld("arch"), Jeq(X8664, 1, 0), Ret("allow"), Ld("nr")>>
           \o [n \in 1..(2 * Len(numbers)) |-> test(n)]
           \o <<Ret("allow")>>

\* The kernel runs the program for one call, `acc' being its accumulator: a jump skips
\* that many instructions.
RunProgram(code, call) ==
  LET run[n \in 1..Len(code)] ==
        [acc \in {0, call.arch, call.nr} |->
           CASE code[n].op = "ld" -> run[n + 1][IF code[n].k = "arch" THEN call.arch ELSE call.nr]
             [] code[n].op = "jeq" ->
                  run[n + 1 + (IF acc = code[n].k THEN code[n].jt ELSE code[n].jf)][acc]
             [] code[n].op = "ret" -> code[n].k]
  IN  IF code = <<>> THEN "allow" ELSE run[1][0]

-----------------------------------------------------------------------------
(* Launching a command.                                                    *)

Child(from, to) == child = from /\ child' = to

\* What a call of the child ends in.  A call that the program wants traced needs a
\* tracer with PTRACE_O_TRACESECCOMP, or else fails with ENOSYS.
ChildCalls(call) ==
  LET action == RunProgram(program, call)
  IN  outcome' = [call |-> call, seen |-> action = "trace" /\ seccompOn,
                  refused |-> action = "trace" /\ ~seccompOn]

LaunchChild ==
  /\ pc = "fork" /\ pc' = "await"
  /\ Child("none", "forked")
  /\ UNCHANGED <<command, program, seccompOn, outcome, attach, steps>>

\* PTRACE_TRACEME fails, or the child raises SIGSTOP, a call of its own.
ChildStops ==
  /\ \/ Child("forked", "exited") /\ UNCHANGED outcome
     \/ Child("forked", "stopped") /\ ChildCalls([arch |-> X8664, nr |-> Numbers["kill"]])
  /\ UNCHANGED <<pc, command, program, seccompOn, attach, steps>>

\* waitpid, PTRACE_SETOPTIONS and the first resume.
AwaitChild ==
  /\ pc = "await"
  /\ \/ child = "exited" /\ pc' = "error" /\ UNCHANGED <<launch, tasks>>
     \/ /\ Child("stopped", "resumed")
        /\ seccompOn' = options.bpf
        /\ tasks' = tasks \cup {"child"}
        /\ pc' = "loop"
        /\ UNCHANGED <<program, outcome>>
  /\ UNCHANGED <<command, thread, tids, wanted, stopped, dump, filtered, swallowed, steps>>

\* There is no program, or one of the two prctl calls fails: the child exits with 126.
InstallFilter ==
  /\ options.bpf
  /\ \/ Child("resumed", "exited") /\ UNCHANGED program
     \/ /\ BuildProgram(options.filters) # <<>>
        /\ Child("resumed", "filtered")
        /\ program' = BuildProgram(options.filters)
  /\ UNCHANGED <<pc, command, seccompOn, outcome, attach, steps>>

\* Where execvp fails the child exits with 127.
ExecCommand ==
  /\ \E next \in {"running", "exited"} :
       \/ ~options.bpf /\ Child("resumed", next)
       \/ Child("filtered", next)
  /\ ChildCalls([arch |-> X8664, nr |-> Numbers["execve"]])
  /\ UNCHANGED <<pc, command, program, seccompOn, attach, steps>>

\* The command makes a call, by the 64-bit table or by the 32-bit one.
CommandCalls ==
  /\ child = "running" /\ steps < MaxCalls
  /\ \E arch \in {X8664, I386}, name \in DOMAIN Numbers :
       ChildCalls([arch |-> arch, nr |-> Numbers[name]])
  /\ steps' = steps + 1
  /\ UNCHANGED <<pc, command, child, program, seccompOn, attach>>

-----------------------------------------------------------------------------
(* The target of an attach: threads that run, call, are born and die.      *)

\* `traced' threads stop where `syscalls' or an interrupt asks for it.
\* `born' is the thread that a clone stop announces.
NewThread(t) == [at |-> "user", traced |-> FALSE, syscalls |-> FALSE, interrupted |-> FALSE,
                 born |-> t]

Lives(t) == thread[t].at \notin {"unborn", "dead", "reaped"}
Stopped(t) == thread[t].at \in {"entry", "exit", "interrupt", "signal", "born", "clone"}

TargetStep == steps < MaxSteps /\ steps' = steps + 1
Attaching == pc \in {"enumerate", "seize", "interrupt", "handshake", "loop"}
TargetKeeps == UNCHANGED <<pc, command, launch, tids, wanted, stopped, tasks, dump>>

\* Any stop clears an interrupt that is pending.
StoppedAt(t, stop) == [thread EXCEPT ![t].at = stop, ![t].interrupted = FALSE]

AtLarge(t) == Attaching /\ thread[t].at = "user"

\* A thread whose interrupt is pending stops before it makes another call.
Enter(t) ==
  /\ AtLarge(t) /\ ~thread[t].interrupted
  /\ thread' = [thread EXCEPT ![t].at = IF thread[t].syscalls THEN "entry" ELSE "call"]
  /\ TargetKeeps /\ UNCHANGED <<swallowed, filtered, steps>>

Leave(t) ==
  /\ thread[t].at = "call"
  /\ thread' = IF thread[t].syscalls THEN StoppedAt(t, "exit") ELSE [thread EXCEPT ![t].at = "user"]
  /\ TargetKeeps /\ UNCHANGED <<swallowed, filtered, steps>>

\* The stop that PTRACE_INTERRUPT asked for.
Interrupted(t) ==
  /\ thread[t].at = "user" /\ thread[t].interrupted
  /\ thread' = StoppedAt(t, "interrupt")
  /\ TargetKeeps /\ UNCHANGED <<swallowed, filtered, steps>>

Signalled(t) ==
  /\ AtLarge(t) /\ thread[t].traced
  /\ TargetStep
  /\ thread' = StoppedAt(t, "signal")
  /\ TargetKeeps /\ UNCHANGED <<swallowed, filtered>>

\* With --follow-fork a traced thread stops, and its child is born traced.
Clone(t) ==
  LET followed == thread[t].traced /\ options.follow
  IN  /\ AtLarge(t)
      /\ TargetStep
      /\ \E new \in {u \in Tid : thread[u].at = "unborn"} :
           /\ thread' = [IF followed THEN StoppedAt(t, "clone") ELSE thread EXCEPT
                ![t].born = new,
                ![new] = [NewThread(new) EXCEPT !.at = IF followed THEN "born" ELSE "user",
                                                !.traced = followed]]
      /\ TargetKeeps /\ UNCHANGED <<swallowed, filtered>>

Die(t) ==
  /\ Attaching /\ Lives(t) /\ TargetStep
  /\ thread' = [thread EXCEPT ![t].at = IF thread[t].traced THEN "dead" ELSE "reaped"]
  /\ TargetKeeps /\ UNCHANGED <<swallowed, filtered>>

Sandbox ==
  /\ Attaching /\ ~filtered /\ TargetStep
  /\ filtered' = TRUE
  /\ TargetKeeps /\ UNCHANGED <<thread, swallowed>>

-----------------------------------------------------------------------------
(* The attach handshake.                                                   *)

\* The threads of /proc/<pid>/task, in an order of the kernel's; when there is
\* none, the pid itself, so that the attach fails with a message.
Enumerate ==
  /\ pc = "enumerate"
  /\ tids' = IF \E t \in Tid : Lives(t) THEN {t \in Tid : Lives(t)} ELSE First
  /\ wanted' = Cardinality(tids')
  /\ pc' = "seize"
  /\ UNCHANGED <<command, launch, thread, stopped, tasks, dump, filtered, swallowed, steps>>

\* One thread after the other.  One that has ended makes the attach fail, which
\* leaves mini-strace: the kernel then lets go of what it had attached.
Seize(t) ==
  /\ pc = "seize" /\ t \in tids
  /\ IF Lives(t)
       THEN /\ thread' = [thread EXCEPT ![t].traced = TRUE]
            /\ pc' = "interrupt"
       ELSE pc' = "error" /\ UNCHANGED thread
  /\ UNCHANGED <<command, launch, tids, wanted, stopped, tasks, dump, filtered, swallowed, steps>>

Interrupt(t) ==
  /\ pc = "interrupt" /\ t \in tids /\ thread[t].traced
  /\ IF Lives(t)
       THEN /\ thread' = [thread EXCEPT ![t].interrupted = TRUE]
            /\ tasks' = tasks \cup {t}
            /\ tids' = tids \ {t}
            /\ pc' = IF tids' = {} THEN "handshake" ELSE "seize"
       ELSE pc' = "error" /\ UNCHANGED <<thread, tasks, tids>>
  /\ UNCHANGED <<command, launch, wanted, stopped, dump, filtered, swallowed, steps>>

\* --dump-seccomp: the process is asked once, successfully or for ever in vain.
DumpSeccomp ==
  dump' = IF ~options.dump \/ dump # "none" THEN dump
          ELSE IF ~SeesFilters THEN "failed"
          ELSE IF filtered THEN "dumped" ELSE "none"

\* Fault: a stop for a signal is not resumed.
ResumedUnlessSignal(t) ==
  [thread EXCEPT ![t].at = IF @ = "entry" THEN "call" ELSE IF @ = "signal" THEN @ ELSE "user",
                 ![t].syscalls = TRUE]

Resumed(t) ==
  [thread EXCEPT ![t].at = IF @ = "entry" THEN "call" ELSE "user", ![t].syscalls = TRUE]

\* Fault: only the stop that was asked for counts.
InterruptsCounted(t) == IF thread[t].at = "interrupt" THEN stopped + 1 ELSE stopped

StopsCounted(t) == stopped + 1

\* Any stop counts, and is resumed without its signal; an exit does not count.
AwaitStop(t) ==
  /\ pc = "handshake" /\ stopped < wanted
  /\ \/ /\ Stopped(t)
        /\ stopped' = StopsCounted(t)
        /\ thread' = Resumed(t)
        /\ swallowed' = IF thread[t].at = "clone" THEN swallowed \cup {thread[t].born} ELSE swallowed
        /\ DumpSeccomp
     \/ /\ thread[t].at = "dead"
        /\ thread' = [thread EXCEPT ![t].at = "reaped"]
        /\ UNCHANGED <<stopped, dump, swallowed>>
  /\ UNCHANGED <<pc, command, launch, tids, wanted, tasks, filtered, steps>>

\* waitpid finds nobody left: an exception.
NobodyLeft ==
  /\ pc = "handshake" /\ stopped < wanted
  /\ \A t \in Tid : thread[t].traced => thread[t].at = "reaped"
  /\ pc' = "error"
  /\ UNCHANGED <<command, launch, attach, steps>>

Attached ==
  /\ pc = "handshake" /\ stopped = wanted
  /\ pc' = "loop"
  /\ UNCHANGED <<command, launch, attach, steps>>

\* Fault: the new thread of a clone stop is not recorded.
TasksKept(t) == tasks

TasksAfterStop(t) == IF thread[t].at = "clone" THEN tasks \cup {thread[t].born} ELSE tasks

\* The event loop: TraceLoop has the details.
Serve(t) ==
  /\ pc = "loop" /\ tasks # {} /\ options.pid
  /\ \/ /\ Stopped(t)
        /\ thread' = Resumed(t)
        /\ tasks' = TasksAfterStop(t)
        /\ DumpSeccomp
     \/ /\ thread[t].at = "dead"
        /\ thread' = [thread EXCEPT ![t].at = "reaped"]
        /\ tasks' = tasks \ {t}
        /\ UNCHANGED dump
  /\ UNCHANGED <<pc, command, launch, tids, wanted, stopped, filtered, swallowed, steps>>

-----------------------------------------------------------------------------

Init ==
  /\ pc = "parse"
  /\ argv \in Lines /\ i = 1 /\ options = Defaults
  /\ child = "none" /\ program = <<>> /\ seccompOn = FALSE
  /\ outcome = [call |-> [arch |-> 0, nr |-> 0], seen |-> FALSE, refused |-> FALSE]
  /\ thread = [t \in Tid |->
       IF t \in First THEN NewThread(t) ELSE [NewThread(t) EXCEPT !.at = "unborn"]]
  /\ tids = {} /\ wanted = 0 /\ stopped = 0 /\ tasks = {}
  /\ dump = "none" /\ filtered = FALSE /\ swallowed = {}
  /\ steps = 0

Tracer ==
  \/ ParseWord \/ Check \/ LaunchChild \/ AwaitChild
  \/ Enumerate \/ NobodyLeft \/ Attached
  \/ \E t \in Tid : Seize(t) \/ Interrupt(t) \/ AwaitStop(t)

Command == ChildStops \/ InstallFilter \/ ExecCommand \/ CommandCalls

Target ==
  \/ Sandbox
  \/ \E t \in Tid : Enter(t) \/ Leave(t) \/ Interrupted(t) \/ Signalled(t) \/ Clone(t) \/ Die(t)

Next == Tracer \/ Command \/ Target \/ \E t \in Tid : Serve(t)

\* PTRACE_INTERRUPT ends a call that waits, and stops the thread on its way out.
Yields(t) == thread[t].interrupted /\ (Leave(t) \/ Interrupted(t))

\* mini-strace goes on, and the kernel stops who is interrupted.  waitpid(-1) returns
\* while a thread has something to tell, but for none of them in particular: the kernel
\* looks through them from the first one each time.  Nothing is assumed of the target.
Fairness ==
  /\ WF_vars(Tracer)
  /\ WF_vars(\E t \in Tid : Serve(t))
  /\ \A t \in Tid : WF_vars(Yields(t))

Spec == Init /\ [][Next]_vars /\ Fairness

-----------------------------------------------------------------------------
(* Properties.                                                             *)

\* --seccomp-bpf: the command never runs without its program, whichever way installing
\* it may fail: a call of the command stops for mini-strace exactly when it is a
\* 64-bit call of a filtered name, the execve that starts it included.  And no call is
\* ever refused because the program wants it traced while the tracer has not asked for
\* seccomp stops yet (the order of launch_tracee's SIGSTOP, set_trace_options and
\* install_seccomp_filter).
FilteredCallsStop ==
  /\ ~outcome.refused
  /\ child = "running" =>
       outcome.seen = ( /\ options.bpf
                        /\ outcome.call.arch = X8664
                        /\ \E name \in options.filters : Numbers[name] = outcome.call.nr )

\* Once the event loop runs, it knows every living thread that is traced, so that it
\* does not end before them.  Excepted are threads whose parent's clone stop the
\* handshake took for a stop it waited for, or is not served yet.
TracedFollowed ==
  pc = "loop" =>
    \A t \in Tid :
      thread[t].traced /\ Lives(t) =>
        \/ t \in tasks \cup swallowed
        \/ \E u \in Tid : thread[u].born = t /\ thread[u].at \in {"clone", "dead", "reaped"}

\* Liveness.  No thread of the target stays in a stop while mini-strace has it attached,
\* whichever stop it is and whether the handshake or the event loop finds it: except
\* that another thread, which stops again and again, may keep waitpid from it.
StopsServed ==
  \A t \in Tid :
    <>[](Stopped(t) /\ pc # "error" /\ ~(pc = "loop" /\ tasks = {}))
      => \E u \in Tid \ {t} : []<>Stopped(u) /\ []<>~Stopped(u)

\* Liveness.  The handshake ends although it counts stops and not threads, and any
\* stop for another reason takes the place of the one that was asked for: unless a
\* thread dies before its first stop, for which the handshake may wait for ever.
AttachEnds ==
  (pc = "handshake") ~>
    (pc \in {"loop", "error"} \/ \E t \in tasks : ~Lives(t) /\ ~thread[t].syscalls)
=============================================================================
