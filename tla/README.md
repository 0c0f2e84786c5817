# A TLA+ model of cpp-labs

cpp-labs holds three independent Linux diagnosis tools written in C++:

- **mini-strace** (`src/mini-strace`): a `ptrace` system call tracer,
- **fd-inspector** (`src/fd-inspector`): a descriptor and socket inspector with a leak
  detector, and an eBPF program (`ebpf/`) that attributes leaked descriptors to the call
  that opened them,
- **mem-map-viewer** (`src/mem-map-viewer`): a viewer of memory mappings with a `ptrace`
  driven model of them, samplers and a `userfaultfd` demonstration.

Each observes a program it does not control, through an interface of the kernel that
delivers events late, in some interleaving, and sometimes not at all; or it reads the
program's state piece by piece while the program runs on. That is what the models are
about. Wording, tables of names, units and layout are not.

## 1. Inventory

### mini-strace

| part | state | operations | what is hard | what makes it correct |
|---|---|---|---|---|
| launch and attach, `main.cpp`, `tracer.cpp`, `attach.cpp` | options, tids listed from `/proc`, number of stops seen | parse, fork and stop the child, SEIZE, INTERRUPT, wait for as many stops as tids | threads are born, call and die meanwhile; stops are counted, not told apart | every thread ends up known and running; the handshake ends |
| seccomp, `seccomp.cpp`, `--dump-seccomp` | the filter program | build, install, dump | jumps whose distance depends on the length; the order of stop, options and filter | a call stops exactly when it is filtered, and is never refused |
| event loop, `trace_loop.cpp` with `lifecycle.cpp`, `injection.cpp` | `tasks`, pending entry per tid, `task_tgids`, `sequence`, injection counters, event count | `waitpid`, one handler per kind of stop, resume | stops of all tracees interleave at one `waitpid`; a child stops before its parent's fork event; a tracee is killed while its handler runs; an exec moves a thread to another tid | an entry is completed by the exit of the same call; calls are reported once; no tracee stays stopped; signals are forwarded; the loop ends with the last tracee |
| decoders, `memory_reader.cpp`, `decoder.cpp`, `decode_*.cpp` | the texts of one event | read strings, buffers, structures and vectors of the tracee | read when the other threads already run; the end of a page; output buffers that were only partly filled; an exec that destroys its own arguments | what is printed is what the kernel saw, or is marked |
| state tracker, `state.cpp` | one descriptor table | `apply` for every completed call, `on_exec`, `seed_from_proc` | exits arrive in another order than the kernel executed the calls; one table for all processes; close-on-exec | the table agrees with the kernel's wherever the program does not race itself |
| event pipeline: `event_pipeline.cpp`, `summary.cpp`, `io_latency.cpp`, `net_trace.cpp`, `process_trace.cpp`, `deny_explainer.cpp` | counters per call, descriptor, socket, process | `observe` | keys that are reused (descriptor, pid); blame told from the errno | the sinks agree with each other and with the events; a denial is blamed on its cause |
| output, `output.cpp`, `syscall_table.cpp` | none | formatting | | |

### fd-inspector

| part | state | operations | what is hard | what makes it correct |
|---|---|---|---|---|
| inspection, `fd_inspector.cpp`, `proc_scan.cpp`, `fd_util.cpp` | a snapshot | list, `pidfd_getfd`, `fdinfo`, `statx` in batches, merge | the target runs on; the steps see different moments | every entry describes one descriptor |
| socket diagnostics, `socket_diag.cpp` | the network namespace of the process, netlink replies | `setns`, dump, merge by inode | an error between entering and leaving the namespace | back in its own namespace; the right socket merged |
| leak detector, `leak_detector.cpp` | samples | `check_leak` | few, equal or growing samples of a changing table | growth that was really opened; verdict and exit status follow it |
| BPF programs, `ebpf/fd_leak_tracer.bpf.c` | `pending_calls` per tid, ring buffer | programs on sys_enter and sys_exit of about thirty calls, on `sched_process_exit` | a call is two programs with the kernel, and other threads, in between; both maps can be full | a program on sys_exit finds the entry of its own call; the events of a descriptor come in the order of its life |
| consumer, `ebpf/fd_leak_tracer.cpp` | `open_fds`, cached maps and symbols | `handle_event`, `sync_after_exec`, `clear_process_state`, `symbolize_ip`, report | reads `/proc` long after the event; caches outlive libraries and images | a reported descriptor is open and has the stack of its allocation, under its right name |
| output, `output.cpp` | none | formatting | | |

### mem-map-viewer

| part | state | operations | what is hard | what makes it correct |
|---|---|---|---|---|
| VMA model, `vma_model.cpp` | list of regions, heap break | map, unmap, protect, remap, brk, sort and merge | splitting at equal bounds, overflow, long sequences | disjoint regions that say of every page what the kernel says |
| tracer, `tracer.cpp` | pending call per tid, the model | `ptrace` loop | events of all tids are applied to one model | the model after an exec is that of the new image |
| command line, `main.cpp` | options | parse, choose one command | options that exclude each other, or are dropped | an accepted command is the one that runs |
| snapshots: `proc_seed.cpp`, `util.cpp`, `diff.cpp`, `reconcile.cpp`, `residency.cpp`, `growth_detector.cpp`, `correlate.cpp`, `limits.cpp`, `cgroup_observer.cpp` | samples | read maps and smaps, summarize, compare, classify | maps, smaps and the second snapshot are read at different moments | reports agree with their snapshots and with themselves |
| scans: `pagemap.cpp`, `page_flags.cpp`, `numa.cpp`, `clear_refs.cpp` | position in a range, counters | read entry by entry | the process touches, swaps and unmaps pages behind and ahead of the reader | every page of the range read once; counters between "always" and "ever" |
| perf sampler, `perf_sampler.cpp` | `mmap`ed ring | drain until the deadline | the kernel writes while it is read; records wrap | no event is counted twice or lost unreported |
| userfaultfd tracer, `uffd_tracer.cpp` | pages, the handler thread | poll, read, resolve, stop, join | a fault that nobody resolves blocks the program | every fault is recorded once and resolved; the demo ends |
| output, parsing of saved snapshots | none | | | |

The three tools share no code or state. Inside a tool the parts interact by direct calls
from one thread (the event loop calls the decoders, the state tracker and the pipeline; the
poll loop calls `handle_event`), with the kernel and the observed program as the concurrent
actors. The only in-process concurrency is the userfaultfd handler thread.

## 2. Modules

| module | models | composed in | checked with | proved in |
|---|---|---|---|---|
| `PtraceKernel` | external: tasks that make calls, stop, fork, exec, die; as `trace_loop.cpp` sees them | `TraceLoop` | | |
| `TraceLoop` | mini-strace's event loop | | `trace_loop*.cfg` | `TraceLoop_proofs` |
| `Startup` | command line, launch, filter program, attach, dump | | `startup.cfg` | `Startup_proofs` |
| `StateTracker` | `StateTracker` of `state.cpp`, as operators on its value | `EventSinks` | | |
| `EventSinks` | the four sinks and the mutator, as operators | `Observers` | | |
| `Observers` | `emit_event`, beside threads and the kernel's descriptor tables | `EventReport` | `observers*.cfg` | `Observers_proofs` |
| `Decoder` | reading the memory of the arguments of a call | `EventReport` | | |
| `EventReport` | both halves of what is made of a completed call | | `observers.cfg` | |
| `FdEntries` | descriptors, links, sockets, leak keys, as data | `FdInspector` | | lemmas in `FdTools_proofs` |
| `FdInspector` | `inspect_pid`, the leak check, `--watch`, beside the process | `FdTools` | | `FdTools_proofs` |
| `Symbolizer` | start and report of fd-leak-tracer, names of stacks | `FdTools` | | |
| `FdTools` | the two programs of the directory | | `inspect.cfg` | `FdTools_proofs` |
| `FdLeakTracer` | the BPF programs, the ring buffer and the consumer | | `fd_tracer*.cfg` | `FdLeakTracer_proofs` |
| `AddressSpace` | external: what the memory calls do to the pages of a process | `VmaTracer` | | |
| `PageMap` | abstract specification of the VMA model: a map of pages to which calls are applied one by one | `VmaTracer` | | |
| `VmaModel` | `VmaModel`, as operators on its value | `VmaTracer` | | lemmas in `VmaTracer_proofs` |
| `VmaTracer` | mem-map-viewer's trace loop and its model | | `vma_tracer.cfg` | `VmaTracer_proofs` |
| `Snapshots` | what is computed from a memory map, as operators | `PerfSampler` | | |
| `PageScans`, `PerfSampler`, `UffdTracer` | the scans, the perf ring, the userfaultfd demo | `MemMapViewer` | | all three in `MemMapViewer_proofs` |
| `MemMapViewer` | command line and commands of mem-map-viewer, beside the process | | `memory_tools.cfg` | `MemMapViewer_proofs` |
| `SetLemmas` | least elements, what a sum over a finite set is, and counters | the proof modules | | itself |

Each `MC...` module gives one of them its instance.

Operators that carry one decision of the code (`IsEntry`, `SequenceAfter`, `EraseTask`,
`Deliver`, ...) stand alone. An operator commented "Fault:" is a plausible mistake in such a
decision; it is used nowhere, and exists to show that the property meant to catch it does.

### PtraceKernel and TraceLoop

`task` is the kernel's record of every task: whether it runs, is stopped, is a zombie or
has been reaped; where in a call it is; for which stop it is held; how the tracer resumed
it last (`watch`: `PTRACE_SYSCALL` or `PTRACE_CONT`). A call is a step into the kernel
(`EnterCall`, which may stop at the entry or in seccomp), one that executes it (`RunIo`,
`RunFork`, `RunExec`, ...) and one back (`LeaveCall`, which may stop at the exit). `news`
holds what `waitpid` has not returned yet. `RunThreadExec` is an `execve` by a thread that
does not lead its group: the thread goes on under the leader's tid.

`TraceLoop` keeps the fields of `TraceSession` under their names: `tasks`, `pending`,
`tgids`, `sequence`, `seen` (`injection_seen`), `emitted` (`result.events`). One iteration
is two steps, `Wait` (the return of `waitpid`) and one handler, so that tracees run, stop
and are killed in between:

| action | code |
|---|---|
| `Wait`, `LoopEnds`, `Detach` | the head of `event_loop` |
| `HandleDeath` | `WIFEXITED` and `WIFSIGNALED` |
| `HandleEntry`, `HandleExit` | `handle_syscall_stop`, with `PTRACE_GET_SYSCALL_INFO` and without |
| `HandleSeccomp` | `handle_seccomp_stop` |
| `HandleFork`, `HandleForkFails` | `handle_ptrace_event` for fork and clone |
| `HandleExec` | `handle_ptrace_event` for exec |
| `HandleSignal` | signal-delivery stops |
| `HandlerFails` | the `catch` at the end of the loop |
| `TracerExit` | `main` returns, and `PTRACE_O_EXITKILL` takes effect |

Every action includes the resume that follows the handler. Abstracted are arguments,
results, times and text: an event carries the identity of the call it was begun at and of
the call whose exit completed it, so pairing can be stated without times or arguments.

### Startup

The command line is a sequence of words; `parse_args` is one operator over it. From an
accepted line three ways lead on: a launched child (`ChildStops`, `SetOptions`,
`InstallFilter`, its `execve`), a process that is attached to (`Enumerate`, `Seize`,
`Interrupt`, `AwaitStop`, then `Serve` for the event loop reduced to whom it knows), or
`--dump-seccomp`. The filter program is the sequence of instructions that
`build_trace_seccomp_program` emits, run by an interpreter, so that its jumps are checked
and not only its intent.

### Decoder

Memory is three pages of units. A call has `Plan`, the list of reads its decoder makes
(`PlanFile`, `PlanNet`, `PlanProcess`, `PlanPoll`, from the `decode_*.cpp`); a read may ask for
`Further` ones (an iovec's buffers, a vector's strings). `VmReadv` is `process_vm_readv`,
`PeekData` the fallback word by word, each a step of its own, and `Race` lets another thread
write, unmap or protect between any two of them. `Told` is the decode for the state
tracker, `PrintEvent` ends the one for the output. `seen` is the memory when the kernel executed the
call, `stored` what the kernel wrote, `raced` what others touched.

### StateTracker, EventSinks, Observers

`StateTracker` and `EventSinks` are operators on the value of the object. `Observers` lets
threads execute calls on the kernel's `table` and stay in their exit stops (`call`) until
`Report` applies `emit_event`: context, tracker, filter, sinks. The tracker's table is compared
with the kernel's except for descriptors in `doubt`, a variable that is computed from what
the program did and never from what the tracker holds: two threads changed the same
number at once, a forked process made a call that the tracker applied to its only table, a
call failed that the tracker takes for successful or does not follow.

### FdInspector, FdEntries, Symbolizer, FdTools

`FdInspector` is one action per thing that is read: the namespace switch, each dump, the
mounts, the list of descriptors, then per descriptor a copy (`pidfd_getfd`) or the files of
`/proc`, or a batch of `statx`. The process opens, closes, replaces and ends in between
(`held` collects which files each number had). `Privileges` says which of the kernel's
interfaces answer. The leak check repeats this, `FdEntries` has keys, buckets and verdict.
`Symbolizer` has the maps of a process over time and the tracer's caches of them.

### FdLeakTracer

A call of a target thread is three steps: it enters (`Enter...`, the sys_enter program
runs), the kernel executes it (`Run...`, external), it returns (`Exit...`, the sys_exit
program runs). "open" stands for all hooked calls that allocate one descriptor. The ring
buffer is a bounded sequence, and the consumer handles its head at any later time
(`HandleOpen`, `HandleClose`, `HandleCloseRange`, `HandleExec`, `HandleExit`). `Stop` is
the deadline or SIGINT.

Stacks and link targets are abstracted to the number of the allocation. An entry of
`open_fds` has two of them: `id`, of the stack that the event carried, and `target`, of
what `/proc` showed when the event was handled. That the two can differ for a while, and
that they agree with the kernel's table in the end, is `AccurateReport`.

The target closes or replaces a descriptor only once and only after the call that returned
it (`held`): a program that races on its own descriptor numbers has no right report.

### VmaModel and VmaTracer

An address is the number of a page. `AddressSpace` says for every call what the kernel does
to the pages (`After`) and which calls can succeed. `VmaModel` has one operator per
operation of the class of that name: `Applied` (`apply`), `MapRegion`, `UnmapRange`,
`ProtectRange`, `RemapRange`, `ApplyBrk`, `SortAndMerge`, `Seeded` (the constructor, on what
`/proc/<pid>/maps` shows). The code keeps its regions in a vector sorted by `begin`; here
they are a set, and the merge of neighbours is stated as what becomes of a chain of them.
`content` stands for kind, permissions, source and label of a region, and is a kind and
whether it is writable; `provenance` is kept, since regions that differ in it are not
merged.

`VmaTracer` is the loop of `trace_program`. A thread enters a call (`Enter`), stops, is
resumed (`HandleEntry`), has its call executed (`Execute`, `ExecuteFails`, `ExecuteExec`),
stops again, and the call is applied to `model` when the loop serves that stop
(`HandleExit`, `HandleExec`). `Wait` and the handler are two steps, so that threads run and
are killed (`Die`) in between, and then the resume throws and `TraceeGuard` kills what is
left (`HandlerThrows`). The arguments of a call are chosen when it is executed: the copy in
`pending` is not looked at before.

The program may map, unmap and protect whatever it likes, threads at the same time. Its heap
it uses as malloc does: the break is asked for before it is moved, by one thread at a time,
and never given back entirely; ranges given to other calls leave the heap alone. Only the
child itself execs.

`Agrees` compares the model with the kernel page by page, except for pages that a call
under way touches, and those in `unsure`: calls of two threads for one page were under way
at once. They are applied in the order of their exit stops, and nothing in an exit stop
tells in which order the kernel executed them. `unsure` grows with every `mremap` that
carries such a page elsewhere, and an exec empties it.

`ImplementsPageMap` is the refinement: `PageMap` with `pages` replaced by
`PagesOf(model.regions)` and `calls` by the calls executed and not applied yet. It says that
every served exit stop changes the described pages exactly as that call changes pages,
whatever regions it has to split, clip, move or merge, and that nothing else does.

### MemMapViewer and its parts

A command is a set of options. `MemMapViewer` parses it, chooses the branch of `main` and
takes the snapshots that the branch needs, one step each, while `Move` changes the maps of the
process. `PageScans` reads an entry of `/proc/<pid>/pagemap`, `/proc/kpageflags` or an
answer of `move_pages` per step. `PerfSampler` has the ring unit by unit: the kernel
writes header and body and moves `head`; the tool copies and moves `tail`, and the kernel may
write in between. `UffdTracer` has two threads, main and handler, with a step for every system
call of either.

## 3. What the runs check

| run | instance | shows |
|---|---|---|
| `trace_loop` | 2 tids, io / fork / clone / exec / exit_group, two calls each, kills, a rule that injects into the second "io", only "io" shown | `PairedByThread`, `UniqueSequence`, `CallsReported`, `ExecsTracked`, `InjectedNotExecuted`, `FollowedToEnd` hold |
| `trace_loop_seccomp` | 2 tids, seccomp-BPF, event limit, a signal each, exit of a thread, exec by a non-leader | `TypeOK`, `SignalsDelivered`, and the liveness properties `StopsServed` and `Terminates` hold |
| `trace_loop_thread_exec` | exec by a non-leader, without a filter | `PairedByThread` fails: finding 1 |
| `trace_loop_bpf_exec` | a filtered exec under seccomp-BPF | `FilteredReported` fails: finding 2 |
| `startup` | every command line of up to three words of a small vocabulary and some longer ones; a launched child with its filter, and each of its steps failing; a target of two threads that clone a third, call, die and take signals | `FilteredCallsStop`, `TracedFollowed` and the liveness properties `StopsServed` and `AttachEnds` hold |
| `observers` | two threads and a forked child, two descriptors, eighteen kinds of call, three calls in all, with and without a filter, `--raw` and `--seccomp-bpf`; and the decoding of one call of each of nineteen kinds, three pages, two races | `TableAgrees`, `CloexecAgrees`, `ContextTrue`, `DenialsExplained`, `SinksAgree`, `InputsTrue`, `OutputsTrue` hold |
| `observers_bpf` | the events of `observers` | `SeccompBlamedRightly` fails: finding 4 |
| `fd_tracer` | 2 threads, 3 descriptors, all calls, each of which may fail, ring of 3 events, threads may exit | `TypeOK`, `AccurateReport`, `CompleteButForgotten`, `PendingIsCurrent` and the liveness property `DeadHoldsNothing` hold |
| `fd_tracer_thread_exit` | open and close, threads may exit | `CompleteReport` fails: finding 3 |
| `inspect` | fd-inspector with three descriptors, four files, three moves of the process, every reader with and without the right to use it, a leak check of three samples; fd-leak-tracer with two object files, three calls and two changes of the maps | `EntriesTrue`, `NetnsKept`, `LeakTrue`, `LeakNoticed`, `NamesTrue` hold |
| `vma_tracer` | 2 threads, 4 pages, 3 calls of all kinds, exec, kills, no growing `mremap` | `Disjoint`, `Agrees` and the refinement `ImplementsPageMap` hold |
| `memory_tools` | every set of up to three options of mem-map-viewer and some larger ones, two changes of the maps; 3 changes of pages during a scan; 4 perf events in a ring of 7 units; the demo in both modes and with two lengths | `CommandServed`, `ReportsTrue`, `ScanTrue`, `SamplesAccounted`, `FaultsReported` and the liveness property `DemoEnds` hold |

The findings:

1. After an `execve` by a thread that does not lead its group, the exit stop comes under
   the leader's tid and completes the entry that was pending there. The README of
   mini-strace says that the pairing per tid does not cross threads.
2. With `--seccomp-bpf` an `execve`, `fork` or `clone` in the filter set is never
   reported: its event stop is resumed with `PTRACE_CONT`, and the exit stop of the call
   does not come. The README says that the output is the same with and without it.
3. `sched_process_exit` fires per thread, the consumer takes it for the process: after a
   thread ended, leaks found before are forgotten.
4. With `--seccomp-bpf` and `--explain-deny` every denied call is put down to seccomp, since
   "its entry was a seccomp stop" is taken for "a filter of the target denied it"
   (`deny_explainer.cpp:70`). The README of mini-strace promises to tell which it was.

`CallsReported` and its like exempt calls of a thread whose stop was swallowed by the
resume in its parent's fork event (`swallowed`); when that happens is part of the model.
`CompleteButForgotten` is the completeness that the eBPF tracer does keep in spite of
finding 3 and of the late close_range event: whatever is missing was taken out by one of
those two, or by a failed pipe. What a failed pipe leads to (`mistaken`, see below) is excepted
from `AccurateReport` and `PendingIsCurrent` too, and finding 4 from `DenialsExplained`.
The properties of `Decoder` exempt what another thread touched during the call,
those of `Observers` the descriptors in doubt, those of `FdInspector` entries that were
composed from `/proc` while the descriptor changed.

`LeakTrue` bounds what a report may claim, and says of the exit status what the code makes
of it, which is less than the README of fd-inspector promises (see below). `LeakNoticed` is
the other half: a process that lives, has closed nothing, and had a descriptor all through
the last sample that the first did not show, is reported as leaking. Both need three
samples, so that the total can fall and rise again in between.

`SignalsDelivered` says what passes through the event loop: a signal other than SIGTRAP and
SIGSTOP reaches the tracee once, those two never do, and a tracee that is detached loses the
signal it is stopped for (`detach_remaining` detaches with 0) and no other.

`ScanTrue` bounds every counter of a scan by what was always and what was ever so, with two
exceptions. A flag is read from a frame, and a page may have lost that frame between the two
reads: `moved` counts those pages, and a flag's count may be off by so many. And "visible"
pages are those whose entry has bits in the place of the frame number, which is so of pages in
swap as well.

### Where the code is less exact than one might expect

Met while modelling. No run refutes a property for these; the models have them, or exempt them by name
in the property concerned.

mini-strace:
- At `--max-events` the loop detaches, but `PTRACE_DETACH` works on stopped tracees only;
  its failure is ignored (`trace_loop.cpp:370`), and `PTRACE_O_EXITKILL` (`attach.cpp:104`)
  kills the running ones when mini-strace exits. The usage text (`main.cpp:44`) says
  "Stop after n emitted events and detach".
- Signals whose stop falls into the attach handshake are lost (resumed with 0), clone stops
  there are swallowed (`swallowed`), calls are not reported. A thread that dies before
  its first stop is still waited for: if no other makes up for it with a second stop, the
  handshake waits for ever (`AttachEnds` names this case).
- With `--seccomp-bpf` the state tracker learns only of the calls of the filter, and not of
  a `fork` or `execve` among them (finding 2): descriptors that other calls changed are in
  doubt (`Unseen`).
- One descriptor table serves all processes. The calls of a forked process, and its exec,
  change what is known of the parent.
- `dup` copies close-on-exec, `SOCK_CLOEXEC` is not read (`fuzzy`).
- Of a `recvmsg` the whole first buffer is printed, not only the bytes received; the value
  of `getsockopt` is printed even if the call failed; a peer address that did not fit is
  printed with what followed it in memory; `addrlen` is printed although the address is
  NULL; the timeout of `ppoll` is what is left of it.
- A structure (`openat2`, `clone3`) of which half is readable is printed with zeros and no
  mark; an `AF_UNIX` address shorter than `sockaddr_un` is only told by its family.
- A string of exactly the limit is followed by dots, a buffer of `write` that is longer is
  not; `--strings 0` still shows one character.

fd-inspector:
- After a failed `pipe` the pending entry stays (`fd_leak_tracer.bpf.c:346`), and the thread's
  next `fcntl`, `F_GETFD` for instance, is reported as an allocation of the number that it
  returned: an entry of the leak table that no descriptor stands behind, or one that hides
  another's (`mistaken`). The README (line 364) says that allocations and closes are recorded.
- The verdict "suspected connection leak" leaves the exit status 0 (`leak_detector.cpp:142`,
  `main.cpp:122`), where the README says that a suspected leak exits with 2 (lines 342 and 346).
- The consumer does not drain the ring at the deadline. Symbols come from the maps cached
  at the first event of a process, read when the event is handled: a library loaded later
  has no name, or a wrong one, until the next exec. A symbol nested in another hides it,
  files shown as deleted are read from whatever replaced them, and an object whose addresses
  differ from its offsets may get wrong names. Without the close tracepoints everything is
  reported as leaked.
- A descriptor read through `/proc` or `io_uring` may be described half by one file and
  half by its successor. The close-on-exec flag of a copied descriptor is that of the copy,
  always set. The key of a socket differs in a sample whose dump failed.

mem-map-viewer:
- An `mremap` that grows maps nothing for the added pages (`vma_model.cpp:183`, against
  `README.md:248`); `vma_tracer` runs with `Growing = FALSE`.
- Forked processes are traced as well, and their calls are applied to the model of the
  child (`tracer.cpp:417`); `vma_tracer` runs with `Forked = {}`.
- Hardware perf events are opened with `inherit`, and the kernel refuses to map them: the
  answer is always "perf mmap failed".
- Pages in swap count as visible page frames (`pagemap.cpp:63`); a range that ends in the last page of all
  loses that page; `--residency` without `--with-smaps` reports nothing for other processes;
  a growth check or `--limits` may be dropped in favour of another command.
- The trace keeps the pending call of a thread that a signal killed (`tracer.cpp:399`); nothing
  looks at it again unless the kernel uses the tid a second time.
- If resolving a userfault fails, main stays in its fault for ever.

### Bounds

`MaxCalls` bounds the calls (of a task in `TraceLoop`, besides the final `exit_group`; of
the process elsewhere), `MaxSignals` the signals per task. Two tids are a parent and its
child, process or thread: every handler works on one tid and at most one child, and only
`seen`, `sequence` and `emitted` are shared by all tids. Two calls per task allow an entry
to be pending when another task's event or an exec arrives, and an injection rule on the
second call of a name. A tid is not used twice, so a second fork finds no tid and its task
waits in the kernel, or is killed there. Two threads, three descriptors and three calls
allow a number to be closed, reallocated by the other thread and replaced while the events
of the first allocation still wait; a ring of three events can be full.

Four pages and three calls allow a region to be cut in the middle, the hole to be filled
with a mapping that joins both sides or neither, and a range of several regions to be moved
or protected; two threads allow a call to be applied after a later one of the other thread.
`vma_tracer` runs with `TraceMode::SyscallStops`, which has one more stop (after the event
of an exec) than `SeccompFilter`.

In `startup`, two threads exist and one can be born, `MaxSteps = 2` of birth, death, signal
and filter: enough for a thread to be born or to die between the enumeration and the
handshake, and for a stop that is not the expected one to be counted. `MaxNames` is 2 where
the code has 200, so that a program that is too long is within reach; its jumps are those of
one, two and three names. In `observers`, two descriptors and three calls allow one to be
closed and reused while the stop of a call on it waits, copied over another, and carried
through an exec. In its second half, pages of four units put every string, vector and structure
once inside a page and once across its end; two races allow one between the call and the
first reading and one between the two readings. In `inspect`, three moves of the process allow
a descriptor to be closed and its number reused between any two steps that read it; a batch of
two `statx` requests leaves a last batch that is not full. In `memory_tools`, the ring of seven
units holds two records (of three) and no third, wraps within a record, and loses events; a
scan of three pages has one behind the reader, one at it and one ahead. `MaxAttempts` (16 in
the code) and `Polls` (50) are 2.

### Fairness

`TraceLoop` assumes `WF(Tracer)`: mini-strace is one thread that runs its loop whenever it
can. `FdLeakTracer` assumes `WF(Consumer)`: `ring_buffer__poll` returns at the latest every
250 ms and handles what is there. Nothing is assumed of the traced programs there, which may
stop making calls at any point. `Startup` assumes that mini-strace goes on (`WF(Tracer)`), that `waitpid`
returns at some time while any thread has news (`WF(\E t : Serve(t))`), but not which thread's:
`waitpid(-1)` looks through the tracees from the head of a list, and one that stops again and
again may be served for ever before the others; and that a thread stops that `PTRACE_INTERRUPT` was called for, which ends a call
that waits (`WF(Yields(t))`). Of the target it assumes nothing else: `AttachEnds` would fail
without the interrupt, and without counting the stops that took its place. `StopsServed`
says accordingly that a tracee stays stopped only while another one keeps stopping.
`MemMapViewer` assumes of the demo that both its threads are scheduled and that the
attempts that are repeated end (`Poll` may return nothing `Polls` times); that `poll` fails is
owed to nobody. `VmaTracer`, `EventReport` and `FdTools` state safety only.

### Deadlock

Checked in the runs of `TraceLoop`, `FdLeakTracer` and `VmaTracer`; the end of a tracer is
an explicit stuttering action (`Exited`, `Reported`, `Ended`). The other
runs stop where their bounded programs and tools have ended; that nobody is stuck there is
what `StopsServed`, `AttachEnds` and `DemoEnds` say.

## 4. What is proved

TLAPS proves the theorems below, for every value of the constants that their assumptions
admit: every number of tids, threads, descriptors, pages and calls, every size of the
buffers, and every order of steps. TLC has checked each of the inductive invariants below
on the instance of the component's run (without `brk` for the VMA model; with the numbers of
descriptors, and the names and paths, bounded where an invariant quantifies over all of them).

| theorem | states | assumes |
|---|---|---|
| `TraceLoop_proofs!TypeCorrect` | `Spec => []TypeOK` | |
| `TraceLoop_proofs!SequenceUnique` | `Spec => []UniqueSequence` | |
| `TraceLoop_proofs!SignalsNotLost` | `Spec => []SignalsDelivered` | |
| `TraceLoop_proofs!ExecsHeard` | `Spec => []ExecsTracked` | `~ThreadExec` |
| `TraceLoop_proofs!EventsPaired` | `Spec => []PairedByThread` | `~ThreadExec`, `ExitsTold` |
| `TraceLoop_proofs!InjectionsTrue` | `Spec => []InjectedNotExecuted` | `~ThreadExec`, `ExitsTold` |
| `TraceLoop_proofs!NoCallMissed` | `Spec => []CallsReported` | `~ThreadExec`, `SyscallInfo`, `BpfFilter = {}` |
| `TraceLoop_proofs!EndsComplete` | `Spec => []FollowedToEnd` | `~ThreadExec` |
| `FdLeakTracer_proofs!TracerTypeCorrect` | `Spec => []TypeOK` | |
| `FdLeakTracer_proofs!PendingCurrent` | `Spec => []PendingIsCurrent` | |
| `FdLeakTracer_proofs!NoFalseLeak` | `Spec => []AccurateReport` | |
| `FdLeakTracer_proofs!NoMissedLeak` | `Spec => []CompleteButForgotten` | |
| `VmaTracer_proofs!NoOverlap` | `Spec => []Disjoint` | no `brk` |
| `VmaTracer_proofs!ImplementsPages` | `Spec => ImplementsPageMap`, the refinement | `PlainProgram` |
| `VmaTracer_proofs!AgreesWithKernel` | `Spec => []Agrees` | `PlainProgram` |
| `MemMapViewer_proofs!FaultsComplete` | `Spec => []FaultsReported` | |
| `MemMapViewer_proofs!CommandsServed` | `Spec => []CommandServed` | |
| `MemMapViewer_proofs!ScansTrue` | `Spec => []ScanTrue` | |
| `MemMapViewer_proofs!SamplesCounted` | `Spec => []SamplesAccounted` | |
| `Startup_proofs!ProgramAnswers` | what the filter program answers for a call | |
| `Startup_proofs!FilterExact` | `Spec => []FilteredCallsStop` | |
| `Startup_proofs!AttachComplete` | `Spec => []TracedFollowed` | |
| `Observers_proofs!TableFollowed` | `Spec => []TableAgrees` | |
| `Observers_proofs!FlagsFollowed` | `Spec => []CloexecAgrees` | |
| `Observers_proofs!AttributionTrue` | `Spec => []ContextTrue` | |
| `Observers_proofs!CausesExplained` | `Spec => []DenialsExplained` | |
| `Observers_proofs!SinksCount` | `Spec => []SinksAgree` | |
| `FdTools_proofs!NamespaceKept` | `Spec => []NetnsKept` | |
| `FdTools_proofs!EntriesSound` | `Spec => []EntriesTrue` | |
| `FdTools_proofs!LeakSound` | `Spec => []LeakTrue` | |

Why the assumptions:

- `~ThreadExec`: only leaders of thread groups exec. Without it pairing is false (finding
  1), and who is alive under which tid has to be told anew in every part of the invariants;
  for `ExecsHeard` and `EndsComplete` it is a limit of the proof.
- `ExitsTold` is `SyscallInfo \/ BpfFilter # {}`: an exit stop can be told from an entry
  stop, because the kernel has `PTRACE_GET_SYSCALL_INFO` (Linux 5.3) or because entries come
  as seccomp stops. Without either the code takes a stop for an exit if an entry is pending;
  that this is right as well is checked by no theorem.
- `SyscallInfo` and `BpfFilter = {}` for `CallsReported`: with a filter, what is missing is
  finding 2.
- `PlainProgram`: the program makes no `brk`, no `mremap` that grows, and forks no process.
  The last two are where the code does depart from the kernel (section 3). `brk` is left out
  because `apply_brk` moves the end of the heap without a look at what lies there: that
  nothing does is up to the kernel, and to the program's use of its break. TLC checks `Disjoint`,
  `Agrees` and the refinement with `brk`.

Beyond these the theorems use the assumptions on constants that the modules state, which TLC
evaluates in the runs. They bound nothing that the code does not: the table of calls is finite
and its numbers are naturals; descriptors are naturals and finitely many; addresses are finitely many
and end with a page; a record is smaller than the ring; what the kernel says of a file agrees with itself (`FilesAssumption`: link and mode both
say whether it is a socket, an inode is not 0, and no two sockets share one).

### The event loop (`TraceLoop_proofs`)

Uniqueness of the sequence numbers needs that each number in use is at most `sequence`. The
rest is one tower of invariants, each proved on top of those below it:

1. `StopInv`: what a task is stopped for fits its mode; `cur`, what `waitpid` returned,
   stands until it is handled; a group's leader is the last of it to go; signals.
2. `CallInv`: a task's call is its own and the latest; the stops of a place in a call; a
   call that is over is past for ever; exec stops precede their exit.
3. `PlaceInv`: a task that is in a call was resumed in the way that makes its exit stop come,
   unless its entry was skipped; whose fork is awaited.
4. `EventInv`: an entry is kept under the task that made the call; wherever the exit stop of
   a call is still to come, the entry that is pending is that call's, and marked injected
   exactly if the call is skipped; every event is true. An entry can stay behind when a call
   ends without an exit stop (finding 2, or the fork event of a parent that swallows a
   stop of its child). No exit finds it: by `PlaceInv` such a task has no exit stop before
   its next entry, which replaces it. `PendingOfAwaited` is that argument for the child
   whose parent's event is still to be handled.
5. `ReportInv` (a call begun is pending until its exit) and `EndInv` (the announced tasks are
   in `tasks` until dead; the primary's status).

The steps of the tracees are proved once per invariant in the shapes that `StepShape` names,
those of the loop once per handler.

### The eBPF tracer (`FdLeakTracer_proofs`)

`AccurateReport` speaks of the moment when no call is under way and the ring is empty, so it is
far from inductive. `ReportInv` says of every moment what the events in the ring, and those
that the calls under way will still write, will make of the table: the last of them about a
descriptor is true of the kernel's table (`ToldTrue`), and nothing that must be told is
missing (`ToldAll`). Both need `OwnerInv`: every descriptor belongs to one call under way, or
to the program, or to nobody, so that no two threads tell contradicting things; and
`RememberInv`: a call is in `pending_calls` while it may still need it, as long as nothing was
lost. The consumer's steps are then a shift of the last event from the ring to the table.

### The VMA model (`VmaTracer_proofs`)

Through the operators first. `Has(R, p, c)` says that a list of regions has page p with content
c; for each operation of `VmaModel` a lemma says that a proper list (regions that lie apart,
within the address space) stays proper and what it has afterwards: cutting, clipping, moving,
retyping, seeding, and merging. Merging is the hard one, for a chain of neighbours may be of any
length and the definition says only what becomes of whole chains. Of a chain that would break
a claim there is a least one (`LeastElement`, `GreatestElement`), and this one leads to a
contradiction.

Then the tracer. `ServeInv` says that each call is one that the program can make, is at the
place its thread is at, and that an exec is alone; with it every exit stop served is a step of
`PageMap`, and every other step a stutter. `AgreeInv` adds `WaysApart` and `PagesKnown`: a page
that is not in `unsure` is under way in at most one call, and applying this call to what the
model knows gives what the kernel has.

### mem-map-viewer's demo and command line (`MemMapViewer_proofs`)

`DemoCorrect` says that the faults are the events and at most one more, for which main is
waiting; that the fault being resolved is the last event; that a page is open to main only
after an event for it, and every page that main has passed is open. At the end this gives
both inclusions. `CommandsServed` follows from what `Valid` admits: of two options that name
a target, or a command on a range, one would be too many.

### A scan beside the process (`MemMapViewer_proofs`)

`ScanInv` says for every moment of a scan what `ScanTrue` says at its end, of the pages read so
far (`Behind`): the count lies between the pages that had the property all along and those that
had it at some time. A page can be counted and lose the property, or gain it too late, but
`always` only shrinks and `ever` only grows, so no change behind the reader breaks the bounds.
Of a flag each page that lost its frame can break them by one, which `moved` has counted.
The start of a scan rounds its range (`RangeInv`); that this reads the pages asked for needs
the division of addresses. The count over the nodes is a sum that stays equal to the pages
found (`Total`, below).

### The perf ring (`MemMapViewer_proofs`)

Positions in the ring only grow, and two that are less than `RingUnits` apart have slots of
their own (`SlotsDistinct`, by division). So what the kernel writes at `head` destroys nothing from
`data_tail` on, and `RingInv` can say of the positions from `cursor` to `head` that they are whole
records, one after the other. This needs `data_tail` not to pass a record that is not copied yet,
that is, `tail <= cursor`: the mutant of the run breaks it. `ReadInv` ties what `parse_samples`
has read to the ring: the head it saw is where a record starts or the kernel's own, and the header
it holds is the one at `cursor`.

`CountInv` then counts, for each address, its events in the report, the ring and among the
dropped, and the drops that are in the report, in a LOST record, or due (`lost`). An event adds
one sample to the ring, and a LOST record that takes `lost` over, or one drop (`RoomWritten`,
`OverflowKeeps`); reading a record moves what it counts to the report (`RecordConsumed`,
`CopyBodyKeeps`). `BucketsTrue` says that the buckets are sums over the addresses of their region,
which a further sample increases in one term. That counters for each address make the bags of
`SamplesAccounted` equal, and that the fold over the ring is the bag of its samples
(`UnreadGathered`, by the smallest set of positions for which it is not), is the rest.

### Launch and attach (`Startup_proofs`)

The program first. `BuildProgram` sorts the numbers by rank, so that its instructions have a
closed form (`ProgramShape`: four that look at the architecture and load the number, then a
comparison and a return for each number of the filter, and a last return). What the interpreter computes from position p is the value of
a fixpoint there; by the least number of instructions left for which this would be wrong, it
is "trace" exactly if a comparison at p or after it has the number (`ProgramAnswers`). `LaunchInv`
then says that the child runs under the program of its own options, installed after
`PTRACE_O_TRACESECCOMP` and before the command, so that a filtered call neither passes nor is
refused.

`AttachInv` says where each thread is that was seized: in the list that is being
enumerated, in `tasks`, `swallowed`, or just announced by a thread that has it in its clone stop
(`ThreadsOK`). Only the thread that is being interrupted is traced and in no list.

### The state tracker (`Observers_proofs`)

`TableAgrees` speaks of descriptors that no call under way touches, and the exit stops come in
any order. `TrackInv` says what each of two sides needs while a call waits: `KernelTrue`, what
the kernel's table holds since the call, and `TrackerTrue`, what the tracker must not or must
hold before it is applied. Both are said of calls that no other clashes with (`shaky`), so that
a second call can neither undo the first in the kernel nor be applied before it; everything
else is in `doubt`. `ExecWaits` is the state between an exec and its stop, in which the tracker
still holds what the kernel has closed. Every call that the program can make is one of the
forms of `IsEvent`, proved once per call, and two lemmas treat all of them alike: one for
its execution, one for its report. `ContextTrue` and `DenialsExplained` follow from what is
true of the call when it is reported.

`SinksAgree` does not depend on the tracker at all. `SinkInv` says of whatever events the sinks
are shown that their counters are of the right kind and grow together. How many an
unlimited table of counters holds is a sum over a bag, which one more event makes one larger
(`OneMoreCounts`); the attempts to send are a sum over the records of `--net`, those of sockets that
are closed by now included, and `PutCounts` says what replacing one record does to it. So the
records lose nothing when a descriptor is closed and used again.

### fd-inspector (`FdTools_proofs`)

`NetnsKept` is inductive as it stands. For `EntriesTrue`, `HeldInv` says that what a
descriptor is now is among what it was; `CopyInv`, that the entry which is being composed is
about the one file that was copied, and every finished entry about one that its descriptor
had (`About`); `StableInv`, that a descriptor with one file all the time passes through each
stage of the inspection and is described there (`Progress`).

`LeakTrue` compares samples taken at different times of a table that changes. `WatchInv` counts
the descriptors of which something has been read, or could be read now, and that the first
sample does not have: at most as many as were opened since. A descriptor becomes visible by
being opened only, and what is read of it was visible. `check_leak` then sorts the entries
of two samples by key; that the growth of the buckets sums up to the growth of the table is
`TotalOfNamedParts`, `TotalSum` and `TotalRenamed` of `SetLemmas`.

### Sums and least elements (`SetLemmas`)

The folds of the community modules are functions on subsets, defined by recursion. The library's
induction takes an operator and cannot be used, but the naturals are well-founded
(`LeastNatural`), and so are finite sets by their cardinality (`SmallestSet`): a claim about all
finite sets that fails has a smallest set for which it fails, and taking one element out of it
gives a smaller one. With this the module proves that a sum exists (`TotalExists`), does not
depend on the element taken first (`TotalRemove`), grows by what is added (`TotalAdd`), is
monotone and additive, and of the sizes of a partition is the size of the whole. A bag that
counts one more of something has a total that is one higher (`PlusTotal`).

### What stays with TLC

- Liveness (`StopsServed`, `Terminates`, `AttachEnds`, `DeadHoldsNothing`, `DemoEnds`): it rests
  on fairness and `ENABLED`, which the prover does not treat.
- `LeakNoticed`: it needs that what is visible all through a sample is in it, for each way of
  reading, beside `WatchInv`.
- `ReportsTrue`: computations on snapshots, several of them sorted; the lemmas on sums of
  `SetLemmas` are the way to them, not taken yet.
- `NamesTrue` of the symbolizer: it does not hold for every object file. A symbol that is nested in
  another, or overlaps it, makes `resolve_elf_symbol_at` miss the enclosing one (section 3), so
  that it would be a theorem about files whose functions lie apart.
- `InputsTrue` and `OutputsTrue` of the decoder: what a plan of reads returns is a fold over
  its reads, with a case for each of nineteen calls.

No module uses `RECURSIVE`.

## 5. What is not modelled, and the plan

Not modelled anywhere: the output of the three tools, names of flags and calls, durations,
byte counts and scores; the parser of saved snapshots of mem-map-viewer.

- `TraceLoop`: group stops, vfork as distinct from fork, reuse of a tid after it was
  reaped, errors of `PTRACE_SYSCALL` other than ESRCH.
- `Startup`: options that only select output are one option, `--summary`; a `fork`
  that fails.
- `Decoder`: `getsockopt`, `execveat`, addresses that overflow;
  a unit stands for a character, a pointer and a field alike.
- `Observers`: memory is taken to be read as the kernel saw it (`Decoder` says when that
  holds); the tracker's list of mapped ranges, which is written and never read; a pipe
  stands for `socketpair` as well.
- `FdInspector`: the list of descriptors and each dump are read in one step; TCP and TCP6,
  UDP and UDP6 are one dump each; the pid is not used again by another process.
- `FdLeakTracer`: io_uring and the allocating calls the tracer has no program for
  (socketpair, epoll_create, descriptors received over a socket), a target of several
  processes. `Symbolizer` takes the answers of `addr2line` as given.
- `VmaTracer`: file offsets and the sums of resident pages, which splitting and merging
  also carry; lengths that are no multiple of a page and addresses near 2^64
  (`checked_end`); that `mprotect` forgets `shared`; an `mprotect` that changes the pages
  before a hole and then fails; a heap given back entirely, which `apply_brk` keeps; signals
  that are passed on; the fallback without `PTRACE_GET_SYSCALL_INFO`; what
  `resolve_mapping_fd` reads; a snapshot of `/proc` that cannot be read.
- `Snapshots`: `/proc` files that are read in several chunks; `fd_resolver.cpp`.
- `PerfSampler`: weights and the kinds of events beyond whether they can be mapped.

The theorems planned next, most important first:

1. `Disjoint` and the refinement with `brk`: the kernel's agreement on what lies above the heap
   as part of `AgreeInv`.
2. `PairedByThread` for kernels without `PTRACE_GET_SYSCALL_INFO`.
3. `LeakNoticed`, from `StableInv` and `WatchInv`.
4. `InputsTrue` of the decoder, one lemma per plan.
