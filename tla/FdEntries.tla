----------------------------- MODULE FdEntries -----------------------------
(***************************************************************************)
(* The data of fd-inspector, without state: what is written about an open  *)
(* file (fd_util.cpp, inspect_copied_fd and inspect_proc_fd of             *)
(* proc_scan.cpp), about a socket (socket_diag.cpp), and what the leak     *)
(* detector concludes from samples (leak_detector.cpp).                    *)
(*                                                                         *)
(* An open file has its mode, the link /proc/<pid>/fd shows, its inode,    *)
(* mount, protocol, own address and peer.  A link is its prefix and the inode in it, or *)
(* "path" and an identity for the path.  An empty text is NoText.          *)
(***************************************************************************)
EXTENDS Integers, Sequences, FiniteSets, FiniteSetsExt, SequencesExt

NoText == "none"
NoLink == [is |-> NoText, id |-> 0]
NoSocket == [source |-> "none", proto |-> NoText, local |-> NoText, remote |-> NoText, state |-> NoText,
             tcp |-> FALSE, conflict |-> FALSE]

EmptyEntry(fd) == [fd |-> fd, link |-> NoLink, type |-> "unknown", inode |-> 0, fdinfo |-> 0,
                   mount |-> 0, socket |-> NoSocket]

-----------------------------------------------------------------------------
(* What the file is.                                                       *)

AnonTypes == {"epoll", "eventfd", "timerfd", "signalfd", "inotify", "fanotify", "anon"}

TypeFromTarget(link) == IF link.is \in AnonTypes \cup {"socket", "pipe"} THEN link.is ELSE "unknown"

BracketInode(link) == IF link.is \in {"socket", "pipe"} THEN link.id ELSE 0

\* A file of no known mode, as an anonymous inode, leaves the type alone.
FillEntryFromStat(entry, file) ==
  [entry EXCEPT !.inode = file.inode,
     !.type = CASE file.mode \in {"file", "dir", "char", "block", "socket"} -> file.mode
                [] file.mode = "fifo" -> (IF entry.link.is = "pipe" THEN "pipe" ELSE "fifo")
                [] OTHER -> @]

WithLink(entry, link) == [entry EXCEPT !.link = link]

\* The text of the link overrides the mode.
TypedByLink(entry) ==
  [entry EXCEPT !.type = IF TypeFromTarget(entry.link) = "unknown" THEN @ ELSE TypeFromTarget(entry.link)]

\* Lines of watches or marks name the type of an anonymous inode.
FillEntryFromFdinfo(entry, file) ==
  [entry EXCEPT !.fdinfo = file.inode, !.mount = file.mnt,
     !.type = IF file.watches # NoText /\ @ \in {"anon", "unknown"} THEN file.watches ELSE @]

\* A mount that mountinfo does not list stays a number.
AttachMountInfo(entry, mounts) == [entry EXCEPT !.mount = IF @ \in mounts THEN @ ELSE 0]

-----------------------------------------------------------------------------
(* What is known of a socket: from the socket itself, and from the dump.   *)

Inet == {"TCP", "TCP6", "UDP", "UDP6"}
Unix == {"UNIX-STREAM", "UNIX-DGRAM", "UNIX-SEQPACKET"}
Tcp == {"TCP", "TCP6"}

\* The socket's own endpoint texts exist for internet addresses only, its state
\* for TCP (TCP6 as well) only.
FillSocketInfo(file, state) ==
  [source |-> "local",
   proto |-> IF file.proto \in Unix THEN "UNIX" ELSE file.proto,
   local |-> IF file.proto \in Inet THEN file.local ELSE NoText,
   remote |-> IF file.proto \in Inet THEN file.remote ELSE NoText,
   state |-> IF file.proto \in Tcp THEN state ELSE NoText,
   tcp |-> file.proto \in Tcp, conflict |-> FALSE]

\* withInfo: the kernel added the attribute INET_DIAG_INFO, long enough.
ParseDiagMessage(file, state, withInfo) ==
  [source |-> "diag", proto |-> file.proto, local |-> file.local, remote |-> file.remote, state |-> state,
   tcp |-> withInfo /\ file.proto \in Tcp, conflict |-> FALSE]

SocketFieldConflict(local, diag) == local # NoText /\ diag # NoText /\ local # diag

ProtoConflict(local, diag) ==
  ~(local = "UNIX" /\ diag \in Unix) /\ SocketFieldConflict(local, diag)

MergeSocket(local, diag) ==
  LET conflict == ProtoConflict(local.proto, diag.proto)
                    \/ SocketFieldConflict(local.local, diag.local)
                    \/ SocketFieldConflict(local.remote, diag.remote)
                    \/ SocketFieldConflict(local.state, diag.state)
      merged == [diag EXCEPT !.conflict = conflict]
  IN  IF ~diag.tcp /\ local.tcp
        THEN [merged EXCEPT !.tcp = TRUE, !.source = "diag+local-tcp",
                            !.state = IF @ = NoText THEN local.state ELSE @]
        ELSE merged

AttachDiagInfo(entry, byInode) ==
  IF entry.type # "socket" \/ entry.inode \notin DOMAIN byInode THEN entry
  ELSE [entry EXCEPT !.socket = IF @ = NoSocket THEN byInode[entry.inode]
                                ELSE MergeSocket(@, byInode[entry.inode])]

-----------------------------------------------------------------------------
(* The leak detector.  A sample is the sequence of its entries.            *)

LeakKey(e) ==
  IF e.socket.remote # NoText THEN <<e.type, e.socket.proto, e.socket.remote>>
  ELSE IF e.link # NoLink THEN <<e.type, e.link.is, e.link.id>>
  ELSE <<e.type, "inode", e.inode>>

CountType(sample, type) == Cardinality({i \in DOMAIN sample : sample[i].type = type})
CountCloseWait(sample) == Cardinality({i \in DOMAIN sample : sample[i].socket.state = "CLOSE_WAIT"})

LeakKeys(sample) == {LeakKey(e) : e \in ToSet(sample)}
BucketCount(sample, key) == Cardinality({i \in DOMAIN sample : LeakKey(sample[i]) = key})

NewTargets(first, last) == LeakKeys(last) \ LeakKeys(first)

\* Ordered by growth in the report; the order is left out.
GrowthBuckets(first, last) ==
  LET growth(key) == BucketCount(last, key) - BucketCount(first, key)
  IN  {[key |-> k, growth |-> growth(k)] : k \in {j \in LeakKeys(last) : growth(j) > 0}}

IsMonotonicNonDecreasing(values) == \A j \in 2..Len(values) : values[j] >= values[j - 1]

\* Fault: a fall between two samples is not looked at.
SuspectedIfGrown(growth, totals) == growth > 0

\* Fault: each sample has to have more than the one before it.
SuspectedIfRising(growth, totals) == growth > 0 /\ \A j \in 2..Len(totals) : totals[j] > totals[j - 1]

Suspected(growth, totals) == growth > 0 /\ IsMonotonicNonDecreasing(totals)

CheckLeak(samples) ==
  LET first == Head(samples)
      last == samples[Len(samples)]
      growth == Len(last) - Len(first)
      grown(type) == CountType(last, type) - CountType(first, type)
      suspected == Suspected(growth, [j \in DOMAIN samples |-> Len(samples[j])])
  IN  [growth |-> growth, files |-> grown("file"), sockets |-> grown("socket"), pipes |-> grown("pipe"),
       closeWait |-> CountCloseWait(last), newTargets |-> NewTargets(first, last),
       buckets |-> GrowthBuckets(first, last), suspected |-> suspected,
       verdict |-> IF grown("socket") > 0 /\ CountCloseWait(last) > 0 THEN "connection leak"
                   ELSE IF suspected THEN "fd leak"
                   ELSE IF growth > 0 THEN "higher" ELSE "none"]
=============================================================================
