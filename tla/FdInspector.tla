---------------------------- MODULE FdInspector ----------------------------
(***************************************************************************)
(* fd-inspector looks at a process that runs on: inspect_pid reads its     *)
(* sockets, mounts, descriptors and files one after the other, once or for *)
(* every sample of a leak check (fd_inspector.cpp, proc_scan.cpp,          *)
(* socket_diag.cpp, leak_detector.cpp, main.cpp).  FdEntries has the data. *)
(*                                                                         *)
(* Reading the directory /proc/<pid>/fd is one step, as is each dump; the  *)
(* dumps of TCP and TCP6, and those of UDP and UDP6, are one each.         *)
(*                                                                         *)
(* Bounds: MaxMoves steps of the process; Rounds of --watch; the batch of  *)
(* statx requests has BatchFds.                                            *)
(***************************************************************************)
EXTENDS FdEntries

CONSTANTS
  CommandLines, \* the options to try
  Fd,           \* descriptors of the process
  Files,        \* the files it may open
  FirstTable,   \* what it has open at first
  Privileges,   \* what the inspector may do to the process
  NoFile,       \* the RLIMIT_NOFILE of the process
  ScanLimit,    \* no more descriptors are scanned than this: 65536
  BatchFds,     \* 128
  InspectorMoves, Rounds

NoneFile == [mode |-> "none"]
AllFiles == Files \cup Range(FirstTable)
KnownModes == {"file", "dir", "char", "block", "fifo"}

\* What the kernel says of a file: its link is never empty, and tells a socket; where
\* the link tells no type the mode does; the inode of a socket is its own.
ASSUME FilesAssumption ==
  /\ \A f \in AllFiles :
       /\ f \in [mode : STRING, link : [is : STRING, id : Nat], inode : Nat \ {0}, mnt : Nat,
                 watches : STRING, proto : STRING, local : STRING, remote : STRING]
       /\ f.link # NoLink /\ f.watches # "socket"
       /\ f.mode = "socket" <=> f.link.is = "socket"
       /\ TypeFromTarget(f.link) = "unknown" => f.mode \in KnownModes
  /\ \A f, g \in AllFiles : f.mode = "socket" /\ g.mode = "socket" /\ f.inode = g.inode => f = g

ASSUME FdInspectorAssumption ==
  /\ Fd \subseteq Nat /\ IsFiniteSet(Fd) /\ DOMAIN FirstTable \subseteq Fd
  /\ \A c \in CommandLines : c.maxFd \in Int /\ c.leakSeconds \in Int
  /\ NoFile \in Nat /\ ScanLimit \in Nat \ {0} /\ BatchFds \in Nat \ {0}
  /\ InspectorMoves \in Nat /\ Rounds \in Nat

VARIABLES
  table,      \* the descriptors of the process: descriptor -> file
  closing,    \* the inodes of TCP sockets that the peer has closed
  gone,       \* has the process ended?
  opened, closed, \* how many files it opened, and closed, since the inspector started
  moved,      \* its steps
  held,       \* the files a descriptor had since the inspection started, NoneFile: none
  at,         \* where inspect_pid is
  cli, may,   \* CliOptions; the privileges
  pidfd, limit, netns, dumps, byInode, mounts, fds, snapshots, scanned,
  copied,     \* the descriptor copied into the inspector: a file
  entry, entries, leakSamples, leak, round

process == <<table, closing, gone, opened, closed, moved>>
reading == <<pidfd, limit, netns, dumps, byInode, mounts, fds, snapshots, scanned, copied, entry, entries>>
inspectorVars == <<process, held, at, cli, may, reading, leakSamples, leak, round>>

SocketState(file) ==
  IF file.inode \in closing THEN "CLOSE_WAIT"
  ELSE IF file.proto \in {"UDP", "UDP6"} THEN "CLOSE" ELSE "ESTABLISHED"

-----------------------------------------------------------------------------
(* The process.                                                            *)

OpenFile(fd, file) ==
  /\ fd \in Fd \ DOMAIN table
  /\ table' = [d \in DOMAIN table \cup {fd} |-> IF d = fd THEN file ELSE table[d]]
  /\ held' = [held EXCEPT ![fd] = @ \cup {file}]
  /\ opened' = opened + 1
  /\ UNCHANGED <<closing, gone, closed>>

CloseFile(fd) ==
  /\ table' = [d \in DOMAIN table \ {fd} |-> table[d]]
  /\ held' = [held EXCEPT ![fd] = @ \cup {NoneFile}]
  /\ closed' = closed + 1
  /\ UNCHANGED <<closing, gone, opened>>

PeerCloses(file) ==
  /\ file.proto \in Tcp /\ closing' = closing \cup {file.inode} /\ closing' # closing
  /\ UNCHANGED <<table, gone, held, opened, closed>>

ProcessEnds ==
  /\ gone' = TRUE /\ table' = << >>
  /\ UNCHANGED <<closing, held, opened, closed>>

MoveProcess ==
  /\ at \notin {"parse", "begin", "done", "error"} /\ ~gone /\ moved < InspectorMoves
  /\ moved' = moved + 1
  /\ \/ \E fd \in Fd, file \in Files : file \notin Range(table) /\ OpenFile(fd, file)
     \/ \E fd \in DOMAIN table : CloseFile(fd) \/ PeerCloses(table[fd])
     \/ ProcessEnds
  /\ UNCHANGED <<at, cli, may, reading, leakSamples, leak, round>>

-----------------------------------------------------------------------------
(* main.                                                                   *)

ParseInspectArgs ==
  /\ at = "parse"
  /\ at' = IF \/ cli.pid <= 0
              \/ cli.watch /\ cli.leakSeconds > 0
              \/ cli.interval # -1 /\ ~cli.watch
              \/ cli.interval = 0
             THEN "error" ELSE "begin"
  /\ UNCHANGED <<process, held, cli, may, reading, leakSamples, leak, round>>

Stays(vs) == UNCHANGED <<process, held, cli, may, leakSamples, leak, round>> /\ UNCHANGED vs

\* pidfd_open: a process that has ended is an error, any other failure is not.
PidfdOpen ==
  /\ at = "begin"
  /\ held' = [fd \in Fd |-> {IF fd \in DOMAIN table THEN table[fd] ELSE NoneFile}]
  /\ pidfd' = (~cli.procFallback /\ ~gone /\ "pidfd" \in may)
  /\ at' = IF gone /\ ~cli.procFallback THEN "error" ELSE "limit"
  /\ byInode' = << >> /\ mounts' = {} /\ snapshots' = << >> /\ scanned' = {} /\ entries' = << >>
  /\ UNCHANGED <<process, cli, may, limit, netns, dumps, fds, copied, entry, leakSamples, leak, round>>

ScanLimitForPid ==
  /\ at = "limit"
  /\ LET readable == ~gone /\ "rlimit" \in may
     IN  /\ at' = IF cli.maxFd > 0 \/ readable THEN "netns" ELSE "error"
         /\ limit' = IF cli.maxFd > 0 THEN cli.maxFd
                     ELSE IF ~readable THEN limit
                     ELSE IF NoFile > ScanLimit THEN ScanLimit ELSE NoFile
  /\ Stays(<<pidfd, netns, dumps, byInode, mounts, fds, snapshots, scanned, copied, entry, entries>>)

\* load_socket_diag_for_pid: with no way into the namespace there is no dump.
EnterNetns ==
  /\ at = "netns"
  /\ LET same == "same_netns" \in may
         enters == ~gone /\ (same \/ "setns" \in may)
     IN  /\ at' = IF enters THEN "dump" ELSE "mounts"
         /\ netns' = IF enters THEN "target" ELSE netns
  /\ dumps' = <<Tcp, {"UDP", "UDP6"}, Unix>>
  /\ Stays(<<pidfd, limit, byInode, mounts, fds, snapshots, scanned, copied, entry, entries>>)

Replies(protos) == {f \in Range(table) : f.mode = "socket" /\ f.proto \in protos}

\* One dump: its messages up to NLMSG_DONE, or to an error.
Dump ==
  /\ at = "dump" /\ dumps # << >>
  /\ LET replies == Replies(Head(dumps))
     IN  \E told \in {replies, {}}, withInfo \in (IF replies = {} THEN {TRUE} ELSE BOOLEAN) :
           LET message(i) == CHOOSE f \in told : f.inode = i
           IN  byInode' = [i \in {f.inode : f \in told} \cup DOMAIN byInode |->
                            IF i \in {f.inode : f \in told}
                              THEN ParseDiagMessage(message(i), SocketState(message(i)), withInfo)
                              ELSE byInode[i]]
  /\ dumps' = Tail(dumps)
  /\ Stays(<<at, pidfd, limit, netns, mounts, fds, snapshots, scanned, copied, entry, entries>>)

\* Fault: a failure to return is ignored.
LeaveNetnsUnchecked ==
  /\ at = "dump" /\ dumps = << >>
  /\ \E back \in (IF "same_netns" \in may THEN {TRUE} ELSE BOOLEAN) :
       /\ netns' = IF back THEN "own" ELSE netns
       /\ at' = "mounts"
  /\ Stays(<<pidfd, limit, dumps, byInode, mounts, fds, snapshots, scanned, copied, entry, entries>>)

LeaveNetns ==
  /\ at = "dump" /\ dumps = << >>
  /\ \E back \in (IF "same_netns" \in may THEN {TRUE} ELSE BOOLEAN) :
       /\ netns' = IF back THEN "own" ELSE netns
       /\ at' = IF back THEN "mounts" ELSE "error"
  /\ Stays(<<pidfd, limit, dumps, byInode, mounts, fds, snapshots, scanned, copied, entry, entries>>)

ReadMountinfo ==
  /\ at = "mounts"
  /\ mounts' = IF gone THEN {} ELSE {f.mnt : f \in AllFiles}
  /\ at' = "list"
  /\ Stays(<<pidfd, limit, netns, dumps, byInode, fds, snapshots, scanned, copied, entry, entries>>)

\* list_target_fds: without the directory every descriptor below the limit is tried.
ListTargetFds ==
  /\ at = "list"
  /\ LET readable == ~gone /\ "proc_fd" \in may
     IN  /\ fds' = IF readable THEN {fd \in DOMAIN table : fd < limit} ELSE 0..(limit - 1)
         /\ at' = IF ~readable /\ ~pidfd THEN "error"
                  ELSE IF cli.ioUring /\ "io_uring" \in may THEN "links" ELSE "scan"
  /\ Stays(<<pidfd, limit, netns, dumps, byInode, mounts, snapshots, scanned, copied, entry, entries>>)

-----------------------------------------------------------------------------
(* The snapshots that io_uring takes, before any descriptor is copied.     *)

Lowest(S) == CHOOSE fd \in S : \A other \in S : fd <= other
Batch(S) == {fd \in S : Cardinality({d \in S : d < fd}) < BatchFds}

\* readlink may not be permitted; the process may have closed the descriptor.
TargetFdLink(fd) == IF fd \in DOMAIN table /\ "proc_fd" \in may THEN table[fd].link ELSE NoLink

ReadLinks ==
  /\ at = "links"
  /\ snapshots' = [fd \in fds |-> [link |-> TargetFdLink(fd), stat |-> NoneFile]]
  /\ scanned' = {}
  /\ at' = "statx"
  /\ Stays(<<pidfd, limit, netns, dumps, byInode, mounts, fds, copied, entry, entries>>)

\* One batch; if it is not submitted or waited for, nothing is kept.
StatxBatch ==
  /\ at = "statx" /\ fds \ scanned # {}
  /\ LET batch == Batch(fds \ scanned)
     IN  \/ /\ snapshots' = [fd \in fds |->
                 IF fd \in batch /\ fd \in DOMAIN table /\ "proc_fd" \in may
                   THEN [snapshots[fd] EXCEPT !.stat = table[fd]] ELSE snapshots[fd]]
            /\ scanned' = scanned \cup batch
            /\ UNCHANGED at
         \/ snapshots' = << >> /\ scanned' = {} /\ at' = "scan"
  /\ Stays(<<pidfd, limit, netns, dumps, byInode, mounts, fds, copied, entry, entries>>)

StatxDone ==
  /\ at = "statx" /\ fds \ scanned = {}
  /\ at' = "scan" /\ scanned' = {}
  /\ Stays(<<pidfd, limit, netns, dumps, byInode, mounts, fds, snapshots, copied, entry, entries>>)

-----------------------------------------------------------------------------
(* The descriptors one by one.                                             *)

Left == fds \ scanned
Current == Lowest(Left)
Snapshot == IF Current \in DOMAIN snapshots THEN snapshots[Current] ELSE [link |-> NoLink, stat |-> NoneFile]

Skip == scanned' = scanned \cup {Current} /\ at' = "scan"

GetFd ==
  /\ at = "scan" /\ Left # {}
  /\ IF ~pidfd THEN at' = "proc" /\ UNCHANGED <<scanned, copied>>
     ELSE IF gone THEN at' = "error" /\ UNCHANGED <<scanned, copied>>
     ELSE IF "getfd" \notin may THEN at' = "proc" /\ UNCHANGED <<scanned, copied>>
     ELSE IF Current \notin DOMAIN table THEN Skip /\ UNCHANGED copied
     ELSE copied' = table[Current] /\ at' = "copied" /\ UNCHANGED scanned
  /\ entry' = EmptyEntry(Current)
  /\ Stays(<<pidfd, limit, netns, dumps, byInode, mounts, fds, snapshots, entries>>)

\* Fault: the link is read from the process instead of the copy.
LinkOfTarget == TargetFdLink(Current)

\* read_self_fd_target
LinkOfCopy == copied.link

\* inspect_copied_fd
InspectedCopy ==
  LET linked == WithLink(entry, IF Snapshot.link # NoLink THEN Snapshot.link ELSE LinkOfCopy)
      stat == IF Snapshot.stat # NoneFile THEN Snapshot.stat ELSE copied
      typed == TypedByLink(FillEntryFromStat(linked, stat))
  IN  IF typed.type = "socket" THEN [typed EXCEPT !.socket = FillSocketInfo(copied, SocketState(copied))]
      ELSE typed

InspectCopiedFd ==
  /\ at = "copied"
  /\ entry' = InspectedCopy
  /\ at' = "fdinfo"
  /\ Stays(<<pidfd, limit, netns, dumps, byInode, mounts, fds, snapshots, scanned, copied, entries>>)

\* inspect_proc_fd: the link first, then the file behind it.
ProcFdLink ==
  /\ at = "proc"
  /\ entry' = WithLink(entry, IF Snapshot.link # NoLink THEN Snapshot.link ELSE TargetFdLink(Current))
  /\ at' = "proc_stat" /\ copied' = NoneFile
  /\ Stays(<<pidfd, limit, netns, dumps, byInode, mounts, fds, snapshots, scanned, entries>>)

ProcFdStat ==
  /\ at = "proc_stat"
  /\ LET stat == IF Snapshot.stat # NoneFile THEN Snapshot.stat
                 ELSE IF Current \in DOMAIN table /\ "proc_fd" \in may THEN table[Current] ELSE NoneFile
         typed == TypedByLink(IF stat = NoneFile THEN entry ELSE FillEntryFromStat(entry, stat))
     IN  entry' = [typed EXCEPT !.inode = IF @ = 0 THEN BracketInode(typed.link) ELSE @]
  /\ at' = "fdinfo"
  /\ Stays(<<pidfd, limit, netns, dumps, byInode, mounts, fds, snapshots, scanned, copied, entries>>)

\* read_fdinfo, and what inspect_pid makes of the entry.  An entry that was not
\* copied is kept if anything is known of it.
ReadFdinfo ==
  /\ at = "fdinfo"
  /\ LET readable == Current \in DOMAIN table /\ "proc_fd" \in may
         informed == IF readable THEN FillEntryFromFdinfo(entry, table[Current]) ELSE entry
         filled == [informed EXCEPT !.inode = IF copied = NoneFile /\ @ = 0 THEN informed.fdinfo ELSE @]
         whole == AttachDiagInfo(AttachMountInfo(filled, mounts), byInode)
         known == copied # NoneFile \/ whole.link # NoLink \/ whole.inode # 0 \/ whole.fdinfo # 0
     IN  entries' = IF known THEN Append(entries, whole) ELSE entries
  /\ Skip
  /\ copied' = NoneFile
  /\ Stays(<<pidfd, limit, netns, dumps, byInode, mounts, fds, snapshots, entry>>)

-----------------------------------------------------------------------------
(* Back in run_once, run_watch or check_leak.                              *)

Inspected ==
  /\ at = "scan" /\ Left = {}
  /\ round' = round + 1
  /\ leakSamples' = IF cli.leakSeconds > 0 THEN Append(leakSamples, entries) ELSE leakSamples
  /\ IF cli.leakSeconds > 0
       THEN IF Len(leakSamples') = cli.leakSeconds + 1
              THEN leak' = CheckLeak(leakSamples') /\ at' = "done"
              ELSE at' = "sleep" /\ UNCHANGED leak
       ELSE at' = (IF cli.watch /\ round' < Rounds THEN "sleep" ELSE "done") /\ UNCHANGED leak
  /\ UNCHANGED <<process, held, cli, may, reading>>

WakeUp ==
  /\ at = "sleep" /\ at' = "begin"
  /\ UNCHANGED <<process, held, cli, may, reading, leakSamples, leak, round>>

ExitStatus == IF at = "error" THEN 1 ELSE IF leak # << >> /\ leak.suspected THEN 2 ELSE 0

-----------------------------------------------------------------------------

InspectorInit ==
  /\ table = FirstTable /\ closing = {} /\ gone = FALSE /\ opened = 0 /\ closed = 0 /\ moved = 0
  /\ held = [fd \in Fd |-> {}]
  /\ at = "parse" /\ cli \in CommandLines /\ may \in Privileges
  /\ pidfd = FALSE /\ limit = 0 /\ netns = "own" /\ dumps = << >> /\ byInode = << >> /\ mounts = {}
  /\ fds = {} /\ snapshots = << >> /\ scanned = {} /\ copied = NoneFile
  /\ entry = EmptyEntry(0) /\ entries = << >> /\ leakSamples = << >> /\ leak = << >> /\ round = 0

InspectorNext ==
  \/ MoveProcess \/ ParseInspectArgs \/ PidfdOpen \/ ScanLimitForPid
  \/ EnterNetns \/ Dump \/ LeaveNetns \/ ReadMountinfo \/ ListTargetFds
  \/ ReadLinks \/ StatxBatch \/ StatxDone
  \/ GetFd \/ InspectCopiedFd \/ ProcFdLink \/ ProcFdStat \/ ReadFdinfo
  \/ Inspected \/ WakeUp

-----------------------------------------------------------------------------

\* The type a reader expects of a file; that of some anonymous inodes is in fdinfo only.
TypeOf(file) ==
  LET linked == TypeFromTarget(file.link)
  IN  IF linked = "unknown" THEN file.mode
      ELSE IF linked = "anon" /\ file.watches # NoText /\ "proc_fd" \in may THEN file.watches ELSE linked

Describes(e, file) ==
  /\ e.link = file.link /\ e.inode = file.inode /\ e.type = TypeOf(file)
  /\ "proc_fd" \in may => e.mount = file.mnt

\* A descriptor that was open on one file the whole time is reported, once, and
\* as that file, whatever the inspector may do and whichever way it reads, as long
\* as the process lives (inspect_pid).
StableReported ==
  at = "scan" /\ Left = {} /\ ~gone =>
    \A fd \in DOMAIN table :
      held[fd] = {table[fd]} /\ fd < limit /\ ("proc_fd" \in may \/ "getfd" \in may) =>
        LET about == {k \in DOMAIN entries : entries[k].fd = fd}
        IN  Cardinality(about) = 1 /\ \A k \in about : Describes(entries[k], table[fd])

\* However the descriptors change while they are read: an entry read from a copy
\* is about one file, and the descriptor had it (inspect_copied_fd).  What /proc
\* or io_uring say of a descriptor at different times may be of two files.
CopiesTrue ==
  pidfd /\ "getfd" \in may /\ ~cli.ioUring =>
    \A k \in DOMAIN entries :
      \E file \in held[entries[k].fd] \ {NoneFile} :
        /\ entries[k].link = file.link /\ entries[k].inode = file.inode
        /\ file.mode = "socket" <=> entries[k].type = "socket"
        /\ entries[k].socket # NoSocket => entries[k].socket.remote \in {NoText, file.remote}

\* The list is ordered and names what the descriptors are (inspect_pid).
EntriesTrue == StableReported /\ CopiesTrue

\* Between the dumps the inspector is where it was started; if it could not come
\* back it stops (load_socket_diag_for_pid).  It reads /proc, and starts the next
\* sample, in its own namespace.
NetnsKept == netns = "own" \/ at \in {"dump", "error"}

\* A leak report accuses no process that opened nothing: what it counts as growth
\* was opened while it looked, the growing buckets account for all of it, and every
\* new target is one of them (check_leak).  fd-inspector exits with 2 exactly if the
\* last sample has more descriptors than the first and none has fewer than the one
\* before it.  A verdict of a suspected connection leak alone exits with 0, although
\* the README (line 346) has 2 for a suspected leak (main).
LeakTrue ==
  at = "done" /\ leak # << >> =>
    LET whole == MapThenSumSet(LAMBDA b : b.growth, leak.buckets)
        rising == \A j \in 2..Len(leakSamples) : Len(leakSamples[j]) >= Len(leakSamples[j - 1])
    IN  /\ leak.growth <= opened /\ leak.growth <= whole
        /\ leak.newTargets \subseteq {b.key : b \in leak.buckets}
        /\ ExitStatus = 2 <=> leak.growth > 0 /\ rising
        /\ ExitStatus = 2 => leak.buckets # {} /\ opened > 0
        /\ ExitStatus = 2 => leak.verdict \in {"fd leak", "connection leak"}
        /\ leak.verdict = "fd leak" => ExitStatus = 2
        /\ leak.verdict = "none" => ExitStatus = 0 /\ leak.growth <= 0
        /\ leak.growth > 0 => leak.verdict # "none"

\* A process that lives, has closed nothing and had, all through the last sample, a
\* descriptor that the first did not show is suspected, whatever it opens between two
\* readings and whichever way they are made (check_leak, inspect_pid).
LeakNoticed ==
  at = "done" /\ leak # << >> /\ ~gone /\ closed = 0 /\ ("proc_fd" \in may \/ "getfd" \in may) =>
    \A fd \in DOMAIN table :
      held[fd] = {table[fd]} /\ fd < limit /\ (\A e \in ToSet(Head(leakSamples)) : e.fd # fd) =>
        ExitStatus = 2
=============================================================================
