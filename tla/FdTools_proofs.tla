---------------------------- MODULE FdTools_proofs ----------------------------
(***************************************************************************)
(* Three results on fd-inspector, for every process, every command line,   *)
(* all privileges, every number of descriptors and every order in which    *)
(* the process changes them while they are read: the inspector is back in  *)
(* its own network namespace, the entries are true of files that the       *)
(* descriptors had, and a leak report accuses no process that opened       *)
(* nothing.                                                                *)
(***************************************************************************)
EXTENDS FdTools, SetLemmas, SequenceTheorems, FiniteSetTheorems, TLAPS

-----------------------------------------------------------------------------
(* What entries are made of.                                                *)

(* Every text that the program or a file has.                               *)
FileTexts(f) == {f.mode, f.link.is, f.watches, f.proto, f.local, f.remote}
Texts == {NoText, "unknown", "file", "dir", "char", "block", "fifo", "socket", "pipe", "none", "local",
          "diag", "diag+local-tcp", "UNIX", "CLOSE", "CLOSE_WAIT", "ESTABLISHED"}
         \cup UNION {FileTexts(f) : f \in AllFiles}

LinkSet == [is : Texts, id : Nat]
SocketSet == [source : Texts, proto : Texts, local : Texts, remote : Texts, state : Texts,
              tcp : BOOLEAN, conflict : BOOLEAN]
EntrySet == [fd : Nat, link : LinkSet, type : Texts, inode : Nat, fdinfo : Nat, mount : Nat,
             socket : SocketSet]
FileSet == [mode : STRING, link : [is : STRING, id : Nat], inode : Nat \ {0}, mnt : Nat,
            watches : STRING, proto : STRING, local : STRING, remote : STRING]

LEMMA FileFacts ==
  ASSUME NEW f \in AllFiles
  PROVE  /\ f \in FileSet /\ f.link \in LinkSet /\ f.mode \in Texts /\ f.inode \in Nat \ {0} /\ f.mnt \in Nat
         /\ f.watches \in Texts /\ f.proto \in Texts /\ f.local \in Texts /\ f.remote \in Texts
         /\ f # NoneFile /\ f.link # NoLink /\ f.watches # "socket"
         /\ f.mode = "socket" <=> f.link.is = "socket"
         /\ TypeFromTarget(f.link) = "unknown" => f.mode \in KnownModes
<1>1. f \in FileSet
  BY FilesAssumption DEF FileSet
<1>2. f # NoneFile
  BY <1>1 DEF FileSet, NoneFile
<1>3. FileTexts(f) \subseteq Texts
  BY DEF Texts
<1>4. f.mode \in Texts /\ f.link.is \in Texts /\ f.watches \in Texts /\ f.proto \in Texts
      /\ f.local \in Texts /\ f.remote \in Texts
  BY <1>3 DEF FileTexts
<1>5. f.link \in [is : STRING, id : Nat] /\ f.inode \in Nat \ {0} /\ f.mnt \in Nat
  BY <1>1 DEF FileSet
<1>6. f.link \in LinkSet
  BY <1>4, <1>5 DEF LinkSet
<1> QED BY <1>1, <1>2, <1>4, <1>5, <1>6, FilesAssumption

LEMMA TextFacts ==
  {NoText, "unknown", "file", "dir", "char", "block", "fifo", "socket", "pipe", "none", "local",
   "diag", "diag+local-tcp", "UNIX", "CLOSE", "CLOSE_WAIT", "ESTABLISHED"} \subseteq Texts
BY DEF Texts

LEMMA EmptyTyped == ASSUME NEW fd \in Nat PROVE EmptyEntry(fd) \in EntrySet
BY TextFacts DEF EmptyEntry, EntrySet, NoLink, NoSocket, NoText, LinkSet, SocketSet

LEMMA LinkTyped ==
  ASSUME NEW e \in EntrySet, NEW link \in LinkSet
  PROVE  /\ WithLink(e, link) \in EntrySet /\ WithLink(e, link).link = link /\ WithLink(e, link).fd = e.fd
         /\ WithLink(e, link).type = e.type /\ WithLink(e, link).inode = e.inode
         /\ WithLink(e, link).fdinfo = e.fdinfo /\ WithLink(e, link).mount = e.mount
         /\ WithLink(e, link).socket = e.socket
BY DEF WithLink, EntrySet

LEMMA StatTyped ==
  ASSUME NEW e \in EntrySet, NEW f \in AllFiles, NEW g, g = FillEntryFromStat(e, f)
  PROVE  /\ g \in EntrySet /\ g.inode = f.inode /\ g.fd = e.fd /\ g.link = e.link
         /\ g.fdinfo = e.fdinfo /\ g.mount = e.mount /\ g.socket = e.socket
         /\ g.type = IF f.mode \in {"file", "dir", "char", "block", "socket"} THEN f.mode
                     ELSE IF f.mode = "fifo" THEN (IF e.link.is = "pipe" THEN "pipe" ELSE "fifo")
                     ELSE e.type
BY FileFacts, TextFacts DEF FillEntryFromStat, EntrySet

LEMMA TypedByLinkTyped ==
  ASSUME NEW e \in EntrySet, NEW g, g = TypedByLink(e)
  PROVE  /\ g \in EntrySet /\ g.inode = e.inode /\ g.fd = e.fd /\ g.link = e.link
         /\ g.fdinfo = e.fdinfo /\ g.mount = e.mount /\ g.socket = e.socket
         /\ g.type = IF TypeFromTarget(e.link) = "unknown" THEN e.type ELSE TypeFromTarget(e.link)
<1>1. TypeFromTarget(e.link) \in Texts
  BY TextFacts DEF TypeFromTarget, EntrySet, LinkSet
<1> QED BY <1>1 DEF TypedByLink, EntrySet

LEMMA FdinfoTyped ==
  ASSUME NEW e \in EntrySet, NEW f \in AllFiles, NEW g, g = FillEntryFromFdinfo(e, f)
  PROVE  /\ g \in EntrySet /\ g.inode = e.inode /\ g.fd = e.fd /\ g.link = e.link
         /\ g.fdinfo = f.inode /\ g.mount = f.mnt /\ g.socket = e.socket
         /\ g.type = IF f.watches # NoText /\ e.type \in {"anon", "unknown"} THEN f.watches ELSE e.type
BY FileFacts DEF FillEntryFromFdinfo, EntrySet

LEMMA MountTyped ==
  ASSUME NEW e \in EntrySet, NEW ms, NEW g, g = AttachMountInfo(e, ms)
  PROVE  /\ g \in EntrySet /\ g.inode = e.inode /\ g.fd = e.fd /\ g.link = e.link
         /\ g.fdinfo = e.fdinfo /\ g.socket = e.socket /\ g.type = e.type
         /\ g.mount = IF e.mount \in ms THEN e.mount ELSE 0
BY DEF AttachMountInfo, EntrySet

LEMMA LocalTyped ==
  ASSUME NEW f \in AllFiles, NEW state \in Texts, NEW s, s = FillSocketInfo(f, state)
  PROVE  s \in SocketSet /\ s.remote \in {NoText, f.remote}
BY FileFacts, TextFacts DEF FillSocketInfo, SocketSet, NoText

LEMMA MergeTyped ==
  ASSUME NEW local \in SocketSet, NEW diag \in SocketSet, NEW s, s = MergeSocket(local, diag)
  PROVE  s \in SocketSet /\ s.remote = diag.remote
<1> DEFINE conflict == ProtoConflict(local.proto, diag.proto)
                         \/ SocketFieldConflict(local.local, diag.local)
                         \/ SocketFieldConflict(local.remote, diag.remote)
                         \/ SocketFieldConflict(local.state, diag.state)
           merged == [diag EXCEPT !.conflict = conflict]
<1>1. conflict \in BOOLEAN
  BY DEF ProtoConflict, SocketFieldConflict
<1>2. s = IF ~diag.tcp /\ local.tcp
            THEN [merged EXCEPT !.tcp = TRUE, !.source = "diag+local-tcp",
                                !.state = IF @ = NoText THEN local.state ELSE @]
            ELSE merged
  BY DEF MergeSocket
<1> HIDE DEF conflict
<1>3. merged \in SocketSet /\ merged.remote = diag.remote
  BY <1>1 DEF SocketSet
<1> HIDE DEF merged
<1> QED BY <1>2, <1>3, TextFacts DEF SocketSet

LEMMA DiagTyped ==
  ASSUME NEW e \in EntrySet, NEW by, \A i \in DOMAIN by : by[i] \in SocketSet,
         NEW g, g = AttachDiagInfo(e, by)
  PROVE  /\ g \in EntrySet /\ g.inode = e.inode /\ g.fd = e.fd /\ g.link = e.link
         /\ g.fdinfo = e.fdinfo /\ g.type = e.type /\ g.mount = e.mount
         /\ g.socket.remote = IF e.type = "socket" /\ e.inode \in DOMAIN by
                              THEN by[e.inode].remote ELSE e.socket.remote
<1>1. CASE e.type # "socket" \/ e.inode \notin DOMAIN by
  BY <1>1 DEF AttachDiagInfo
<1>2. CASE e.type = "socket" /\ e.inode \in DOMAIN by
  <2> DEFINE s == IF e.socket = NoSocket THEN by[e.inode] ELSE MergeSocket(e.socket, by[e.inode])
  <2>1. g = [e EXCEPT !.socket = s]
    BY <1>2 DEF AttachDiagInfo
  <2>2. s \in SocketSet /\ s.remote = by[e.inode].remote
    BY <1>2, MergeTyped DEF EntrySet
  <2> HIDE DEF s
  <2> QED BY <1>2, <2>1, <2>2 DEF EntrySet
<1> QED BY <1>1, <1>2

-----------------------------------------------------------------------------
(* The inspection: what may be said of its parts at any time.               *)

Preparing == {"limit", "netns", "dump", "mounts", "list"}
Reading == {"copied", "proc", "proc_stat", "fdinfo"}
Listed == {"links", "statx", "scan"} \cup Reading

LimitValue == IF cli.maxFd > 0 THEN cli.maxFd ELSE IF NoFile > ScanLimit THEN ScanLimit ELSE NoFile

Files0 == AllFiles \cup {NoneFile}

(* The process has files; the inspector has the options it was given.       *)
ProcessInv ==
  /\ DOMAIN table \subseteq Fd /\ \A fd \in DOMAIN table : table[fd] \in AllFiles
  /\ opened \in Nat /\ held \in [Fd -> SUBSET Files0]
  /\ cli \in CommandLines

(* Some socket has this inode and this remote end.                          *)
ToldOf(inode, remote) == \E f \in AllFiles : f.mode = "socket" /\ f.inode = inode /\ f.remote = remote

(* The inspector's data.                                                    *)
DataInv ==
  /\ fds \subseteq Nat /\ scanned \subseteq fds /\ DOMAIN snapshots \subseteq fds
  /\ \A fd \in DOMAIN snapshots : snapshots[fd] \in [link : LinkSet, stat : Files0]
  /\ copied \in Files0 /\ entry \in EntrySet /\ entries \in Seq(EntrySet)
  /\ \A i \in DOMAIN byInode : byInode[i] \in SocketSet /\ ToldOf(i, byInode[i].remote)
  /\ leakSamples \in Seq(Seq(EntrySet))

(* What belongs to the phase that the inspection is in.                     *)
PhaseInv ==
  /\ at \in Preparing \cup Listed \cup {"parse", "begin", "sleep", "done", "error"}
  /\ at \notin {"parse", "begin", "limit", "error"} => limit = LimitValue
  /\ at \in Listed => \A fd \in fds : fd < limit
  /\ at \in Preparing => scanned = {} /\ snapshots = << >> /\ entries = << >>
  /\ at \in {"links", "statx"} => entries = << >>
  /\ at = "links" => scanned = {} /\ snapshots = << >>
  /\ at \in Listed => pidfd \/ "proc_fd" \in may
  /\ at \in {"proc", "proc_stat"} => ~pidfd \/ "getfd" \notin may
  /\ at = "fdinfo" /\ copied = NoneFile => ~pidfd \/ "getfd" \notin may
  /\ at = "statx" => DOMAIN snapshots = fds
  /\ at \notin {"copied", "fdinfo"} => copied = NoneFile
  /\ at = "copied" => copied # NoneFile
  /\ at \in Reading => Left # {} /\ entry.fd = Current
  /\ at \in {"copied", "proc"} => entry = EmptyEntry(Current)

(* The entries are of descriptors that have been read, one of each.         *)
OnceInv ==
  /\ at \in {"scan"} \cup Reading => \A k \in DOMAIN entries : entries[k].fd \in scanned
  /\ \A j, k \in DOMAIN entries : entries[j].fd = entries[k].fd => j = k

BaseInv == ProcessInv /\ DataInv /\ PhaseInv /\ OnceInv

-----------------------------------------------------------------------------
(* The steps that keep all this.                                            *)

LEMMA CurrentLeft ==
  ASSUME fds \subseteq Nat, Left # {}
  PROVE  Current \in Left /\ Current \in fds /\ Current \notin scanned /\ Current \in Nat
<1>1. Left \subseteq Nat
  BY DEF Left
<1>2. \E d \in Left : \A e \in Left : d <= e
  BY <1>1, LeastNatural
<1>3. Current \in Left
  BY <1>2 DEF Current, Lowest
<1> QED BY <1>3 DEF Left

LEMMA MoveKeeps == ASSUME BaseInv, MoveProcess PROVE BaseInv'
<1>1. UNCHANGED <<at, cli, may, reading, leakSamples>>
  BY DEF MoveProcess
<1>2. ProcessInv'
  <2>1. ASSUME NEW fd \in Fd, NEW file \in Files, OpenFile(fd, file) PROVE ProcessInv'
    BY <1>1, <2>1 DEF OpenFile, BaseInv, ProcessInv, AllFiles, Files0
  <2>2. ASSUME NEW fd \in DOMAIN table, CloseFile(fd) PROVE ProcessInv'
    BY <1>1, <2>2 DEF CloseFile, BaseInv, ProcessInv, Files0
  <2>3. ASSUME NEW fd \in DOMAIN table, PeerCloses(table[fd]) PROVE ProcessInv'
    BY <1>1, <2>3 DEF PeerCloses, BaseInv, ProcessInv
  <2>4. CASE ProcessEnds
    BY <1>1, <2>4 DEF ProcessEnds, BaseInv, ProcessInv
  <2> QED BY <2>1, <2>2, <2>3, <2>4 DEF MoveProcess
<1>3. DataInv'
  BY <1>1 DEF BaseInv, DataInv, reading
<1>4. PhaseInv'
  BY <1>1 DEF BaseInv, PhaseInv, reading, Left, Current, LimitValue
<1>5. OnceInv'
  BY <1>1 DEF BaseInv, OnceInv, reading
<1> QED BY <1>2, <1>3, <1>4, <1>5 DEF BaseInv

(* Before the descriptors.                                                  *)
LEMMA PrepareKeeps ==
  ASSUME BaseInv,
         ParseInspectArgs \/ PidfdOpen \/ ScanLimitForPid \/ EnterNetns \/ Dump \/ LeaveNetns \/ ReadMountinfo
  PROVE  BaseInv'
<1> USE DEF BaseInv, process, reading, Stays
<1>1. CASE ParseInspectArgs
  <2>1. UNCHANGED <<process, held, cli, may, reading, leakSamples, leak, round>>
        /\ at = "parse" /\ at' \in {"error", "begin"}
    BY <1>1 DEF ParseInspectArgs
  <2>2. ProcessInv' /\ DataInv' /\ OnceInv'
    BY <2>1 DEF ProcessInv, DataInv, OnceInv, Reading
  <2>3. PhaseInv'
    BY <2>1 DEF PhaseInv, Listed, Reading, Preparing
  <2> QED BY <2>2, <2>3
<1>2. CASE PidfdOpen
  <2>1. ProcessInv'
    BY <1>2 DEF PidfdOpen, ProcessInv, Files0
  <2>2. DataInv'
    BY <1>2 DEF PidfdOpen, DataInv
  <2>3. PhaseInv'
    BY <1>2 DEF PidfdOpen, PhaseInv, Listed, Reading, Preparing
  <2>4. OnceInv'
    BY <1>2 DEF PidfdOpen, OnceInv
  <2> QED BY <2>1, <2>2, <2>3, <2>4
<1>3. CASE ScanLimitForPid
  <2>1. ProcessInv' /\ DataInv' /\ OnceInv'
    BY <1>3 DEF ScanLimitForPid, ProcessInv, DataInv, OnceInv, Reading
  <2>2. PhaseInv'
    BY <1>3 DEF ScanLimitForPid, PhaseInv, Listed, Reading, Preparing, LimitValue
  <2> QED BY <2>1, <2>2
<1>4. CASE EnterNetns
  <2>1. ProcessInv' /\ DataInv' /\ OnceInv'
    BY <1>4 DEF EnterNetns, ProcessInv, DataInv, OnceInv, Reading
  <2>2. PhaseInv'
    BY <1>4 DEF EnterNetns, PhaseInv, Listed, Reading, Preparing, LimitValue
  <2> QED BY <2>1, <2>2
<1>5. CASE Dump
  <2>1. /\ UNCHANGED <<process, held, cli, may, leakSamples, at, pidfd, limit, netns, mounts, fds, snapshots,
                       scanned, copied, entry, entries>>
        /\ at = "dump"
    BY <1>5 DEF Dump
  <2>2. \A i \in DOMAIN byInode' : byInode'[i] \in SocketSet /\ ToldOf(i, byInode'[i].remote)
    <3>1. PICK told \in {Replies(Head(dumps)), {}}, withInfo \in BOOLEAN :
            byInode' = [i \in {f.inode : f \in told} \cup DOMAIN byInode |->
                          IF i \in {f.inode : f \in told}
                            THEN LET m == CHOOSE f \in told : f.inode = i
                                 IN  ParseDiagMessage(m, SocketState(m), withInfo)
                            ELSE byInode[i]]
      BY <1>5 DEF Dump
    <3>2. \A f \in told : f \in AllFiles /\ f.mode = "socket"
      BY DEF Replies, ProcessInv, Range
    <3>3. ASSUME NEW m \in told
          PROVE  LET s == ParseDiagMessage(m, SocketState(m), withInfo)
                 IN  s \in SocketSet /\ ToldOf(m.inode, s.remote)
      <4>1. m \in AllFiles /\ m.mode = "socket"
        BY <3>2
      <4>2. SocketState(m) \in Texts
        BY TextFacts DEF SocketState
      <4> HIDE DEF SocketState
      <4> QED BY <4>1, <4>2, FileFacts, TextFacts DEF ParseDiagMessage, SocketSet, ToldOf, Tcp
    <3>4. ASSUME NEW i \in {f.inode : f \in told}
          PROVE  LET m == CHOOSE f \in told : f.inode = i IN m \in told /\ m.inode = i
      OBVIOUS
    <3> HIDE DEF ParseDiagMessage, SocketState, ToldOf
    <3> QED BY <3>1, <3>3, <3>4 DEF DataInv
  <2>3. ProcessInv' /\ OnceInv'
    BY <2>1 DEF ProcessInv, OnceInv, Reading
  <2>4. DataInv'
    BY <2>1, <2>2 DEF DataInv
  <2>5. PhaseInv'
    BY <2>1 DEF PhaseInv, Listed, Reading, Preparing, LimitValue
  <2> QED BY <2>3, <2>4, <2>5
<1>6. CASE LeaveNetns
  <2>1. ProcessInv' /\ DataInv' /\ OnceInv'
    BY <1>6 DEF LeaveNetns, ProcessInv, DataInv, OnceInv, Reading
  <2>2. PhaseInv'
    BY <1>6 DEF LeaveNetns, PhaseInv, Listed, Reading, Preparing, LimitValue
  <2> QED BY <2>1, <2>2
<1>7. CASE ReadMountinfo
  <2>1. ProcessInv' /\ DataInv' /\ OnceInv'
    BY <1>7 DEF ReadMountinfo, ProcessInv, DataInv, OnceInv, Reading
  <2>2. PhaseInv'
    BY <1>7 DEF ReadMountinfo, PhaseInv, Listed, Reading, Preparing, LimitValue
  <2> QED BY <2>1, <2>2
<1> QED BY <1>1, <1>2, <1>3, <1>4, <1>5, <1>6, <1>7

(* The list of descriptors, and the batches.                                *)
LEMMA ListKeeps ==
  ASSUME BaseInv, ListTargetFds \/ ReadLinks \/ StatxBatch \/ StatxDone
  PROVE  BaseInv'
<1> USE DEF BaseInv, process, reading, Stays
<1>1. CASE ListTargetFds
  <2>1. /\ UNCHANGED <<process, held, cli, may, leakSamples, pidfd, limit, byInode, snapshots,
                       scanned, copied, entry, entries>>
        /\ at = "list" /\ at' \in {"error", "links", "scan"}
        /\ at' # "error" => pidfd \/ "proc_fd" \in may
        /\ fds' = {fd \in DOMAIN table : fd < limit} \/ fds' = 0..(limit - 1)
    BY <1>1 DEF ListTargetFds
  <2>2. scanned = {} /\ snapshots = << >> /\ entries = << >> /\ limit = LimitValue /\ limit \in Int
    BY <2>1, FdInspectorAssumption DEF PhaseInv, Preparing, LimitValue, ProcessInv
  <2>3. fds' \subseteq Nat /\ \A fd \in fds' : fd < limit
    BY <2>1, <2>2, FdInspectorAssumption DEF ProcessInv
  <2>4. ProcessInv'
    BY <2>1 DEF ProcessInv
  <2>5. DataInv'
    BY <2>1, <2>2, <2>3 DEF DataInv
  <2>6. OnceInv'
    BY <2>1, <2>2 DEF OnceInv
  <2>7. PhaseInv'
    BY <2>1, <2>2, <2>3 DEF PhaseInv, Listed, Reading, Preparing, LimitValue
  <2> QED BY <2>4, <2>5, <2>6, <2>7
<1>2. CASE ReadLinks
  <2>1. \A fd : TargetFdLink(fd) \in LinkSet
    BY FileFacts, TextFacts DEF TargetFdLink, LinkSet, NoLink, ProcessInv
  <2>2. /\ UNCHANGED <<process, held, cli, may, leakSamples, pidfd, limit, byInode, fds,
                       copied, entry, entries>>
        /\ at = "links" /\ at' = "statx" /\ scanned' = {}
        /\ snapshots' = [fd \in fds |-> [link |-> TargetFdLink(fd), stat |-> NoneFile]]
    BY <1>2 DEF ReadLinks
  <2> HIDE DEF TargetFdLink
  <2>3. ProcessInv' /\ OnceInv'
    BY <2>2 DEF ProcessInv, OnceInv, Reading
  <2>4. DataInv'
    BY <2>1, <2>2 DEF DataInv, Files0
  <2>5. PhaseInv'
    BY <2>2 DEF PhaseInv, Listed, Reading, Preparing, LimitValue
  <2> QED BY <2>3, <2>4, <2>5
<1>3. CASE StatxBatch
  <2>1. /\ UNCHANGED <<process, held, cli, may, leakSamples, pidfd, limit, byInode, fds,
                       copied, entry, entries>>
        /\ at = "statx" /\ at' \in {"statx", "scan"} /\ scanned' \subseteq fds
        /\ at' = "scan" => scanned' = {}
        /\ \/ at' = "scan" /\ snapshots' = << >>
           \/ \E batch : at' = "statx" /\ snapshots' = [fd \in fds |->
                 IF fd \in batch /\ fd \in DOMAIN table /\ "proc_fd" \in may
                   THEN [snapshots[fd] EXCEPT !.stat = table[fd]] ELSE snapshots[fd]]
    BY <1>3 DEF StatxBatch, Batch, DataInv
  <2>2. DOMAIN snapshots = fds /\ entries = << >>
    BY <2>1 DEF PhaseInv
  <2>3. ProcessInv' /\ OnceInv'
    BY <2>1, <2>2 DEF ProcessInv, OnceInv
  <2>6. ASSUME NEW batch, at' = "statx", snapshots' = [fd \in fds |->
                 IF fd \in batch /\ fd \in DOMAIN table /\ "proc_fd" \in may
                   THEN [snapshots[fd] EXCEPT !.stat = table[fd]] ELSE snapshots[fd]]
        PROVE  DOMAIN snapshots' = fds /\ \A fd \in fds : snapshots'[fd] \in [link : LinkSet, stat : Files0]
    <3> DEFINE new(fd) == IF fd \in batch /\ fd \in DOMAIN table /\ "proc_fd" \in may
                            THEN [snapshots[fd] EXCEPT !.stat = table[fd]] ELSE snapshots[fd]
    <3>1. ASSUME NEW fd \in fds PROVE new(fd) \in [link : LinkSet, stat : Files0]
      <4>1. snapshots[fd] \in [link : LinkSet, stat : Files0]
        BY <2>2 DEF DataInv
      <4>2. fd \in DOMAIN table => table[fd] \in Files0
        BY DEF ProcessInv, Files0
      <4> QED BY <4>1, <4>2
    <3>2. snapshots' = [fd \in fds |-> new(fd)]
      BY <2>6
    <3> HIDE DEF new
    <3> QED BY <3>1, <3>2
  <2>4. DataInv' /\ (at' = "statx" => DOMAIN snapshots' = fds)
    <3>1. CASE snapshots' = << >> /\ at' = "scan"
      BY <2>1, <3>1 DEF DataInv
    <3>2. CASE at' = "statx"
      <4>1. DOMAIN snapshots' = fds /\ \A fd \in fds : snapshots'[fd] \in [link : LinkSet, stat : Files0]
        BY <2>1, <2>6, <3>2
      <4> QED BY <2>1, <4>1 DEF DataInv
    <3> QED BY <2>1, <3>1, <3>2
  <2>5. PhaseInv'
    BY <2>1, <2>2, <2>4 DEF PhaseInv, Listed, Reading, Preparing, LimitValue
  <2> QED BY <2>3, <2>4, <2>5
<1>4. CASE StatxDone
  <2>1. /\ UNCHANGED <<process, held, cli, may, leakSamples, pidfd, limit, byInode, fds, snapshots,
                       copied, entry, entries>>
        /\ at = "statx" /\ at' = "scan" /\ scanned' = {}
    BY <1>4 DEF StatxDone
  <2>2. entries = << >>
    BY <2>1 DEF PhaseInv
  <2>3. ProcessInv' /\ OnceInv' /\ DataInv'
    BY <2>1, <2>2 DEF ProcessInv, OnceInv, DataInv
  <2>4. PhaseInv'
    BY <2>1, <2>2 DEF PhaseInv, Listed, Reading, Preparing, LimitValue
  <2> QED BY <2>3, <2>4
<1> QED BY <1>1, <1>2, <1>3, <1>4

-----------------------------------------------------------------------------
(* One descriptor.                                                          *)

(* The type that mode and link of a file give.                              *)
TypeSeen(file) ==
  IF TypeFromTarget(file.link) = "unknown" THEN file.mode ELSE TypeFromTarget(file.link)

LEMMA SeenByStat ==
  ASSUME NEW e \in EntrySet, NEW f \in AllFiles, e.link = f.link,
         NEW g, g = TypedByLink(FillEntryFromStat(e, f))
  PROVE  /\ g \in EntrySet /\ g.inode = f.inode /\ g.fd = e.fd /\ g.link = e.link
         /\ g.fdinfo = e.fdinfo /\ g.mount = e.mount /\ g.socket = e.socket
         /\ g.type = TypeSeen(f)
<1> DEFINE h == FillEntryFromStat(e, f)
<1>1. /\ h \in EntrySet /\ h.inode = f.inode /\ h.fd = e.fd /\ h.link = e.link
      /\ h.fdinfo = e.fdinfo /\ h.mount = e.mount /\ h.socket = e.socket
      /\ h.type = IF f.mode \in {"file", "dir", "char", "block", "socket"} THEN f.mode
                  ELSE IF f.mode = "fifo" THEN (IF e.link.is = "pipe" THEN "pipe" ELSE "fifo")
                  ELSE e.type
  BY StatTyped
<1>2. g = TypedByLink(h)
  OBVIOUS
<1> HIDE DEF h
<1>3. /\ g \in EntrySet /\ g.inode = h.inode /\ g.fd = h.fd /\ g.link = h.link
      /\ g.fdinfo = h.fdinfo /\ g.mount = h.mount /\ g.socket = h.socket
      /\ g.type = IF TypeFromTarget(h.link) = "unknown" THEN h.type ELSE TypeFromTarget(h.link)
  BY <1>1, <1>2, TypedByLinkTyped
<1>4. TypeFromTarget(f.link) = "unknown" => h.type = f.mode
  <2>1. TypeFromTarget(f.link) = "unknown" => f.mode \in KnownModes /\ f.link.is # "pipe"
    BY FileFacts DEF TypeFromTarget
  <2> QED BY <1>1, <2>1 DEF KnownModes
<1> QED BY <1>1, <1>3, <1>4 DEF TypeSeen

(* A socket is seen as one, and nothing else is.                            *)
LEMMA SocketSeen ==
  ASSUME NEW f \in AllFiles
  PROVE  TypeSeen(f) = "socket" <=> f.mode = "socket"
BY FileFacts DEF TypeSeen, TypeFromTarget, KnownModes

LEMMA Appended ==
  ASSUME NEW S, NEW s \in Seq(S), NEW x \in S, NEW t, t = Append(s, x)
  PROVE  /\ t \in Seq(S) /\ Len(t) = Len(s) + 1 /\ DOMAIN t = 1..(Len(s) + 1) /\ DOMAIN s = 1..Len(s)
         /\ Len(s) \in Nat /\ t[Len(s) + 1] = x
         /\ \A k \in DOMAIN s : k \in DOMAIN t /\ t[k] = s[k]
         /\ \A k \in DOMAIN t : k = Len(s) + 1 \/ k \in DOMAIN s
OBVIOUS

(* What io_uring has read of the current descriptor.                        *)
LEMMA SnapshotTyped == ASSUME BaseInv PROVE Snapshot.link \in LinkSet /\ Snapshot.stat \in Files0
<1>1. NoLink \in LinkSet
  BY TextFacts DEF NoLink, LinkSet
<1> QED BY <1>1 DEF Snapshot, BaseInv, DataInv, Files0

LEMMA LinkRead == ASSUME BaseInv, NEW fd PROVE TargetFdLink(fd) \in LinkSet
BY FileFacts, TextFacts DEF TargetFdLink, LinkSet, NoLink, BaseInv, ProcessInv

(* The copy of a descriptor is seen as its file.                            *)
LEMMA CopySeen ==
  ASSUME BaseInv, at = "copied"
  PROVE  /\ InspectedCopy \in EntrySet /\ InspectedCopy.fd = entry.fd /\ InspectedCopy.fdinfo = 0
         /\ InspectedCopy.socket.remote \in {NoText, copied.remote}
         /\ Snapshot.link \in {NoLink, copied.link} /\ Snapshot.stat \in {NoneFile, copied} =>
              /\ InspectedCopy.link = copied.link /\ InspectedCopy.inode = copied.inode
              /\ InspectedCopy.type = TypeSeen(copied)
<1> DEFINE link == IF Snapshot.link # NoLink THEN Snapshot.link ELSE LinkOfCopy
           linked == WithLink(entry, link)
           stat == IF Snapshot.stat # NoneFile THEN Snapshot.stat ELSE copied
           filled == FillEntryFromStat(linked, stat)
           typed == TypedByLink(filled)
<1>1. copied \in AllFiles /\ entry \in EntrySet /\ entry.fdinfo = 0 /\ entry.socket = NoSocket
  BY DEF BaseInv, DataInv, PhaseInv, Files0, EmptyEntry
<1>2. link \in LinkSet /\ stat \in AllFiles
  BY <1>1, SnapshotTyped, FileFacts DEF LinkOfCopy, Files0
<1>3. /\ linked \in EntrySet /\ linked.link = link /\ linked.fd = entry.fd
      /\ linked.fdinfo = entry.fdinfo /\ linked.socket = entry.socket
  <2> HIDE DEF link
  <2> QED BY <1>1, <1>2, LinkTyped
<1>4. /\ filled \in EntrySet /\ filled.inode = stat.inode /\ filled.fd = linked.fd /\ filled.link = linked.link
      /\ filled.fdinfo = linked.fdinfo /\ filled.socket = linked.socket
  <2> HIDE DEF linked, stat
  <2> QED BY <1>2, <1>3, StatTyped
<1>5. /\ typed \in EntrySet /\ typed.inode = filled.inode /\ typed.fd = filled.fd /\ typed.link = filled.link
      /\ typed.fdinfo = filled.fdinfo /\ typed.socket = filled.socket
  <2> HIDE DEF filled
  <2> QED BY <1>4, TypedByLinkTyped
<1>6. Snapshot.link \in {NoLink, copied.link} /\ Snapshot.stat \in {NoneFile, copied} =>
        /\ link = copied.link /\ stat = copied /\ typed.type = TypeSeen(copied)
  <2> SUFFICES ASSUME Snapshot.link \in {NoLink, copied.link}, Snapshot.stat \in {NoneFile, copied}
               PROVE  link = copied.link /\ stat = copied /\ typed.type = TypeSeen(copied)
    OBVIOUS
  <2>1. link = copied.link /\ stat = copied
    BY DEF LinkOfCopy
  <2>2. typed = TypedByLink(FillEntryFromStat(linked, copied))
    BY <2>1
  <2> HIDE DEF linked, typed, link, stat, filled
  <2> QED BY <1>1, <1>3, <2>1, <2>2, SeenByStat
<1>7. InspectedCopy = IF typed.type = "socket"
                        THEN [typed EXCEPT !.socket = FillSocketInfo(copied, SocketState(copied))]
                        ELSE typed
  BY DEF InspectedCopy
<1>8. /\ FillSocketInfo(copied, SocketState(copied)) \in SocketSet
      /\ FillSocketInfo(copied, SocketState(copied)).remote \in {NoText, copied.remote}
  <2>1. SocketState(copied) \in Texts
    BY TextFacts DEF SocketState
  <2> HIDE DEF SocketState
  <2> QED BY <1>1, <2>1, LocalTyped
<1>9. NoSocket.remote = NoText
  BY DEF NoSocket
<1> HIDE DEF typed, filled, stat, linked, link, FillSocketInfo, InspectedCopy, NoSocket
<1> QED BY <1>1, <1>3, <1>4, <1>5, <1>6, <1>7, <1>8, <1>9 DEF EntrySet

(* The entry that a descriptor ends with.                                   *)
Informed ==
  IF Current \in DOMAIN table /\ "proc_fd" \in may THEN FillEntryFromFdinfo(entry, table[Current]) ELSE entry
Filled == [Informed EXCEPT !.inode = IF copied = NoneFile /\ @ = 0 THEN Informed.fdinfo ELSE @]
Whole == AttachDiagInfo(AttachMountInfo(Filled, mounts), byInode)
Known == copied # NoneFile \/ Whole.link # NoLink \/ Whole.inode # 0 \/ Whole.fdinfo # 0

LEMMA FdinfoReads ==
  ASSUME ReadFdinfo
  PROVE  /\ at = "fdinfo" /\ at' = "scan" /\ scanned' = scanned \cup {Current} /\ copied' = NoneFile
         /\ entries' = IF Known THEN Append(entries, Whole) ELSE entries
         /\ UNCHANGED <<process, held, cli, may, leakSamples, leak, round, pidfd, limit, netns, dumps,
                        byInode, mounts, fds, snapshots, entry>>
BY DEF ReadFdinfo, Skip, Stays, Known, Whole, Filled, Informed

LEMMA InformedFacts ==
  ASSUME BaseInv
  PROVE  /\ Informed \in EntrySet /\ Informed.fd = entry.fd /\ Informed.link = entry.link
         /\ Informed.inode = entry.inode /\ Informed.socket = entry.socket
         /\ Current \in DOMAIN table /\ "proc_fd" \in may =>
              LET f == table[Current]
              IN  /\ f \in AllFiles /\ Informed.fdinfo = f.inode /\ Informed.mount = f.mnt
                  /\ Informed.type = IF f.watches # NoText /\ entry.type \in {"anon", "unknown"}
                                     THEN f.watches ELSE entry.type
         /\ ~(Current \in DOMAIN table /\ "proc_fd" \in may) => Informed = entry
<1>1. entry \in EntrySet
  BY DEF BaseInv, DataInv
<1>2. CASE Current \in DOMAIN table /\ "proc_fd" \in may
  <2>1. table[Current] \in AllFiles
    BY <1>2 DEF BaseInv, ProcessInv
  <2>2. Informed = FillEntryFromFdinfo(entry, table[Current])
    BY <1>2 DEF Informed
  <2> QED BY <1>1, <1>2, <2>1, <2>2, FdinfoTyped
<1>3. CASE ~(Current \in DOMAIN table /\ "proc_fd" \in may)
  BY <1>1, <1>3 DEF Informed
<1> QED BY <1>2, <1>3

LEMMA WholeFacts ==
  ASSUME BaseInv, at = "fdinfo"
  PROVE  /\ Whole \in EntrySet /\ Whole.fd = Current /\ Whole.link = entry.link
         /\ Whole.inode = IF copied = NoneFile /\ entry.inode = 0 THEN Informed.fdinfo ELSE entry.inode
         /\ Whole.fdinfo = Informed.fdinfo /\ Whole.type = Informed.type
         /\ Whole.mount = IF Informed.mount \in mounts THEN Informed.mount ELSE 0
         /\ Whole.socket.remote = IF Whole.type = "socket" /\ Whole.inode \in DOMAIN byInode
                                  THEN byInode[Whole.inode].remote ELSE entry.socket.remote
<1> DEFINE mounted == AttachMountInfo(Filled, mounts)
<1>1. entry.fd = Current
  BY DEF BaseInv, PhaseInv, Reading
<1>2. /\ Informed \in EntrySet /\ Informed.fd = entry.fd /\ Informed.link = entry.link
      /\ Informed.inode = entry.inode /\ Informed.socket = entry.socket
  BY InformedFacts
<1>3. /\ Filled \in EntrySet /\ Filled.fd = Informed.fd /\ Filled.link = Informed.link
      /\ Filled.fdinfo = Informed.fdinfo /\ Filled.type = Informed.type /\ Filled.mount = Informed.mount
      /\ Filled.socket = Informed.socket
      /\ Filled.inode = IF copied = NoneFile /\ Informed.inode = 0 THEN Informed.fdinfo ELSE Informed.inode
  BY <1>2 DEF Filled, EntrySet
<1>4. /\ mounted \in EntrySet /\ mounted.inode = Filled.inode /\ mounted.fd = Filled.fd
      /\ mounted.link = Filled.link /\ mounted.fdinfo = Filled.fdinfo /\ mounted.socket = Filled.socket
      /\ mounted.type = Filled.type /\ mounted.mount = IF Filled.mount \in mounts THEN Filled.mount ELSE 0
  BY <1>3, MountTyped
<1>5. \A i \in DOMAIN byInode : byInode[i] \in SocketSet
  BY DEF BaseInv, DataInv
<1>6. Whole = AttachDiagInfo(mounted, byInode)
  BY DEF Whole
<1> HIDE DEF mounted
<1>7. /\ Whole \in EntrySet /\ Whole.inode = mounted.inode /\ Whole.fd = mounted.fd
      /\ Whole.link = mounted.link /\ Whole.fdinfo = mounted.fdinfo /\ Whole.type = mounted.type
      /\ Whole.mount = mounted.mount
      /\ Whole.socket.remote = IF mounted.type = "socket" /\ mounted.inode \in DOMAIN byInode
                               THEN byInode[mounted.inode].remote ELSE mounted.socket.remote
  BY <1>4, <1>5, <1>6, DiagTyped
<1> QED BY <1>1, <1>2, <1>3, <1>4, <1>7

(* The entry after stat, of a descriptor that is not copied.                *)
StatRead ==
  IF Snapshot.stat # NoneFile THEN Snapshot.stat
  ELSE IF Current \in DOMAIN table /\ "proc_fd" \in may THEN table[Current] ELSE NoneFile
TypedStat == TypedByLink(IF StatRead = NoneFile THEN entry ELSE FillEntryFromStat(entry, StatRead))
Statted == [TypedStat EXCEPT !.inode = IF @ = 0 THEN BracketInode(TypedStat.link) ELSE @]

LEMMA StattedFacts ==
  ASSUME BaseInv
  PROVE  /\ StatRead \in Files0
         /\ Statted \in EntrySet /\ Statted.fd = entry.fd /\ Statted.link = entry.link
         /\ Statted.fdinfo = entry.fdinfo
         /\ StatRead # NoneFile => Statted.inode = StatRead.inode
         /\ StatRead = NoneFile /\ entry.inode = 0 => Statted.inode = BracketInode(entry.link)
         /\ StatRead # NoneFile /\ entry.link = StatRead.link => Statted.type = TypeSeen(StatRead)
<1>1. entry \in EntrySet /\ StatRead \in Files0
  BY SnapshotTyped DEF BaseInv, DataInv, ProcessInv, StatRead, Files0
<1> HIDE DEF StatRead
<1>2. /\ TypedStat \in EntrySet /\ TypedStat.fd = entry.fd /\ TypedStat.link = entry.link
      /\ TypedStat.fdinfo = entry.fdinfo
      /\ StatRead # NoneFile => TypedStat.inode = StatRead.inode
      /\ StatRead = NoneFile => TypedStat.inode = entry.inode
      /\ StatRead # NoneFile /\ entry.link = StatRead.link => TypedStat.type = TypeSeen(StatRead)
  <2>1. CASE StatRead = NoneFile
    <3>1. TypedStat = TypedByLink(entry)
      BY <2>1 DEF TypedStat
    <3> QED BY <1>1, <2>1, <3>1, TypedByLinkTyped
  <2>2. CASE StatRead # NoneFile
    <3> DEFINE filled == FillEntryFromStat(entry, StatRead)
    <3>1. StatRead \in AllFiles
      BY <1>1, <2>2 DEF Files0
    <3>2. TypedStat = TypedByLink(filled)
      BY <2>2 DEF TypedStat
    <3>3. /\ filled \in EntrySet /\ filled.inode = StatRead.inode /\ filled.fd = entry.fd
          /\ filled.link = entry.link /\ filled.fdinfo = entry.fdinfo
      BY <1>1, <3>1, StatTyped
    <3>4. entry.link = StatRead.link => TypedStat.type = TypeSeen(StatRead)
      BY <1>1, <3>1, <3>2, SeenByStat
    <3> HIDE DEF filled
    <3> QED BY <2>2, <3>2, <3>3, <3>4, TypedByLinkTyped
  <2> QED BY <2>1, <2>2
<1>3. BracketInode(TypedStat.link) \in Nat
  BY <1>2 DEF BracketInode, EntrySet, LinkSet
<1> HIDE DEF TypedStat
<1> QED BY <1>1, <1>2, <1>3, FileFacts DEF Statted, EntrySet, Files0

LEMMA ReadKeeps ==
  ASSUME BaseInv, GetFd \/ InspectCopiedFd \/ ProcFdLink \/ ProcFdStat \/ ReadFdinfo
  PROVE  BaseInv'
<1>0. /\ ProcessInv /\ DataInv /\ PhaseInv /\ OnceInv /\ fds \subseteq Nat /\ scanned \subseteq fds
      /\ (Left # {} => Current \in Left /\ Current \in fds /\ Current \notin scanned /\ Current \in Nat)
  BY CurrentLeft DEF BaseInv, DataInv
<1>1. CASE GetFd
  <2>1. /\ UNCHANGED <<process, held, cli, may, leakSamples, leak, round, pidfd, limit, netns, dumps, byInode,
                       mounts, fds, snapshots, entries>>
        /\ at = "scan" /\ Left # {} /\ entry' = EmptyEntry(Current)
        /\ \/ at' = "proc" /\ (~pidfd \/ "getfd" \notin may) /\ UNCHANGED <<scanned, copied>>
           \/ at' = "error" /\ UNCHANGED <<scanned, copied>>
           \/ at' = "scan" /\ scanned' = scanned \cup {Current} /\ UNCHANGED copied
           \/ at' = "copied" /\ Current \in DOMAIN table /\ copied' = table[Current] /\ UNCHANGED scanned
    BY <1>1 DEF GetFd, Skip, Stays
  <2>2. Current \in Left /\ Current \in fds /\ Current \in Nat /\ EmptyEntry(Current) \in EntrySet
    BY <1>0, <2>1, EmptyTyped
  <2>3. EmptyEntry(Current).fd = Current
    BY DEF EmptyEntry
  <2>4. Current \in DOMAIN table => table[Current] \in AllFiles /\ table[Current] # NoneFile
    BY <1>0, FileFacts DEF ProcessInv
  <2>5. ProcessInv'
    BY <1>0, <2>1 DEF ProcessInv, process
  <2>6. DataInv'
    BY <1>0, <2>1, <2>2, <2>4 DEF DataInv, Files0
  <2>7. (at' \in Reading => Left' = Left /\ Current' = Current) /\ LimitValue' = LimitValue
    BY <2>1 DEF Left, Current, LimitValue, Reading
  <2>8. PhaseInv'
    BY <1>0, <2>1, <2>2, <2>3, <2>4, <2>7 DEF PhaseInv, Listed, Reading, Preparing
  <2>9. OnceInv'
    BY <1>0, <2>1 DEF OnceInv, Reading
  <2> QED BY <2>5, <2>6, <2>8, <2>9 DEF BaseInv
<1>2. CASE InspectCopiedFd
  <2>1. /\ UNCHANGED <<process, held, cli, may, leakSamples, leak, round, pidfd, limit, netns, dumps, byInode,
                       mounts, fds, snapshots, scanned, copied, entries>>
        /\ at = "copied" /\ entry' = InspectedCopy /\ at' = "fdinfo"
    BY <1>2 DEF InspectCopiedFd, Stays
  <2>2. InspectedCopy \in EntrySet /\ InspectedCopy.fd = entry.fd
    BY <2>1, CopySeen
  <2>3. Left' = Left /\ Current' = Current /\ LimitValue' = LimitValue
    BY <2>1 DEF Left, Current, LimitValue
  <2>4. ProcessInv' /\ DataInv' /\ OnceInv'
    BY <1>0, <2>1, <2>2 DEF ProcessInv, DataInv, OnceInv, Reading, process
  <2>5. PhaseInv'
    BY <1>0, <2>1, <2>2, <2>3 DEF PhaseInv, Listed, Reading, Preparing
  <2> QED BY <2>4, <2>5 DEF BaseInv
<1>3. CASE ProcFdLink
  <2> DEFINE link == IF Snapshot.link # NoLink THEN Snapshot.link ELSE TargetFdLink(Current)
  <2>1. /\ UNCHANGED <<process, held, cli, may, leakSamples, leak, round, pidfd, limit, netns, dumps, byInode,
                       mounts, fds, snapshots, scanned, entries>>
        /\ at = "proc" /\ entry' = WithLink(entry, link) /\ at' = "proc_stat" /\ copied' = NoneFile
    BY <1>3 DEF ProcFdLink, Stays
  <2>2. entry \in EntrySet /\ link \in LinkSet
    BY <1>0, SnapshotTyped, LinkRead DEF DataInv
  <2>3. WithLink(entry, link) \in EntrySet /\ WithLink(entry, link).fd = entry.fd
    <3> HIDE DEF link
    <3> QED BY <2>2, LinkTyped
  <2> HIDE DEF link
  <2>4. Left' = Left /\ Current' = Current /\ LimitValue' = LimitValue
    BY <2>1 DEF Left, Current, LimitValue
  <2>5. ProcessInv' /\ DataInv' /\ OnceInv'
    BY <1>0, <2>1, <2>3 DEF ProcessInv, DataInv, OnceInv, Reading, process, Files0
  <2>6. PhaseInv'
    BY <1>0, <2>1, <2>3, <2>4 DEF PhaseInv, Listed, Reading, Preparing
  <2> QED BY <2>5, <2>6 DEF BaseInv
<1>4. CASE ProcFdStat
  <2>1. /\ UNCHANGED <<process, held, cli, may, leakSamples, leak, round, pidfd, limit, netns, dumps, byInode,
                       mounts, fds, snapshots, scanned, copied, entries>>
        /\ at = "proc_stat" /\ entry' = Statted /\ at' = "fdinfo"
    BY <1>4 DEF ProcFdStat, Stays, Statted, TypedStat, StatRead
  <2>2. Statted \in EntrySet /\ Statted.fd = entry.fd
    BY <1>0, <2>1, StattedFacts
  <2>3. Left' = Left /\ Current' = Current /\ LimitValue' = LimitValue
    BY <2>1 DEF Left, Current, LimitValue
  <2>4. ProcessInv' /\ DataInv' /\ OnceInv'
    BY <1>0, <2>1, <2>2 DEF ProcessInv, DataInv, OnceInv, Reading, process
  <2>5. PhaseInv'
    BY <1>0, <2>1, <2>2, <2>3 DEF PhaseInv, Listed, Reading, Preparing
  <2> QED BY <2>4, <2>5 DEF BaseInv
<1>5. CASE ReadFdinfo
  <2>1. /\ at = "fdinfo" /\ at' = "scan" /\ scanned' = scanned \cup {Current} /\ copied' = NoneFile
        /\ entries' = IF Known THEN Append(entries, Whole) ELSE entries
        /\ UNCHANGED <<process, held, cli, may, leakSamples, leak, round, pidfd, limit, netns, dumps,
                       byInode, mounts, fds, snapshots, entry>>
    BY <1>5, FdinfoReads
  <2>2. Whole \in EntrySet /\ Whole.fd = Current /\ Current \in fds /\ Current \notin scanned
    BY <1>0, <2>1, WholeFacts DEF PhaseInv, Reading
  <2>3. entries' = entries \/ entries' = Append(entries, Whole)
    BY <2>1
  <2> HIDE DEF Whole, Known
  <2>7. entries' \in Seq(EntrySet)
    BY <1>0, <2>2, <2>3, Appended DEF DataInv
  <2>4. ProcessInv' /\ DataInv'
    BY <1>0, <2>1, <2>2, <2>7 DEF ProcessInv, DataInv, process, Files0
  <2>5. OnceInv'
    <3>1. CASE entries' = entries
      BY <1>0, <2>1, <3>1 DEF OnceInv, Reading
    <3>2. CASE entries' = Append(entries, Whole)
      <4>1. entries \in Seq(EntrySet) /\ \A k \in DOMAIN entries : entries[k].fd \in scanned
        BY <1>0, <2>1 DEF DataInv, OnceInv, Reading
      <4>2. \A k \in DOMAIN entries' :
              \/ entries'[k].fd = Current /\ k = Len(entries) + 1
              \/ k \in DOMAIN entries /\ entries'[k] = entries[k]
        <5>1. /\ \A k \in DOMAIN entries : entries'[k] = entries[k]
              /\ entries'[Len(entries) + 1] = Whole
              /\ \A k \in DOMAIN entries' : k = Len(entries) + 1 \/ k \in DOMAIN entries
          BY <2>2, <3>2, <4>1, Appended
        <5> QED BY <2>2, <5>1
      <4>3. \A k \in DOMAIN entries' : entries'[k].fd \in scanned'
        BY <2>1, <4>1, <4>2
      <4>4. \A j, k \in DOMAIN entries' : entries'[j].fd = entries'[k].fd => j = k
        BY <1>0, <2>2, <4>1, <4>2 DEF OnceInv
      <4> QED BY <2>1, <4>3, <4>4 DEF OnceInv
    <3> QED BY <2>3, <3>1, <3>2
  <2>6. PhaseInv'
    BY <1>0, <2>1 DEF PhaseInv, Listed, Reading, Preparing, LimitValue
  <2> QED BY <2>4, <2>5, <2>6 DEF BaseInv
<1> QED BY <1>1, <1>2, <1>3, <1>4, <1>5

LEMMA RoundKeeps == ASSUME BaseInv, Inspected \/ WakeUp PROVE BaseInv'
<1>1. /\ UNCHANGED <<process, held, cli, may, reading>> /\ at' \in {"done", "sleep", "begin"}
      /\ at \in {"scan", "sleep"} /\ (at' = "begin" => at = "sleep")
      /\ leakSamples' \in {leakSamples, Append(leakSamples, entries)}
  BY DEF Inspected, WakeUp
<1>2. ProcessInv'
  BY <1>1 DEF BaseInv, ProcessInv, process
<1>3. leakSamples' \in Seq(Seq(EntrySet))
  BY <1>1, Appended DEF BaseInv, DataInv
<1>4. DataInv'
  BY <1>1, <1>3 DEF BaseInv, DataInv, reading
<1>5. OnceInv'
  BY <1>1 DEF BaseInv, OnceInv, reading, Reading
<1>6. PhaseInv'
  BY <1>1 DEF BaseInv, PhaseInv, reading, Listed, Reading, Preparing, LimitValue
<1> QED BY <1>2, <1>4, <1>5, <1>6 DEF BaseInv

LEMMA BaseUnchanged == ASSUME BaseInv, UNCHANGED inspectorVars PROVE BaseInv'
<1>1. UNCHANGED <<process, held, at, cli, may, reading, leakSamples>>
  BY DEF inspectorVars
<1>2. ProcessInv' /\ DataInv' /\ OnceInv'
  BY <1>1 DEF BaseInv, ProcessInv, DataInv, OnceInv, process, reading
<1>3. PhaseInv'
  BY <1>1 DEF BaseInv, PhaseInv, reading, Left, Current, LimitValue
<1> QED BY <1>2, <1>3 DEF BaseInv

LEMMA BaseInitially == ASSUME Init PROVE BaseInv
<1> USE DEF Init, InspectorInit, BaseInv
<1>1. ProcessInv
  BY FdInspectorAssumption DEF ProcessInv, AllFiles, Range, Files0
<1>2. DataInv
  BY EmptyTyped DEF DataInv, Files0
<1>3. PhaseInv
  BY DEF PhaseInv, Listed, Reading, Preparing
<1>4. OnceInv
  BY DEF OnceInv
<1> QED BY <1>1, <1>2, <1>3, <1>4

fdVars == <<tool, inspectorVars, symbolVars>>

LEMMA FdSteps ==
  ASSUME [Next]_fdVars
  PROVE  UNCHANGED inspectorVars \/ InspectorNext
BY DEF Next, Inspect, Trace, fdVars

LEMMA BaseStep == ASSUME BaseInv, [Next]_fdVars PROVE BaseInv'
BY FdSteps, BaseUnchanged, MoveKeeps, PrepareKeeps, ListKeeps, ReadKeeps, RoundKeeps DEF InspectorNext

LEMMA BaseAlways == Spec => []BaseInv
<1>1. Init => BaseInv
  BY BaseInitially
<1>2. BaseInv /\ [Next]_fdVars => BaseInv'
  BY BaseStep
<1> QED BY <1>1, <1>2, PTL DEF Spec, fdVars

-----------------------------------------------------------------------------
(* The network namespace.                                                   *)

(* load_socket_diag_for_pid leaves its caller in the namespace it came from, *)
(* or the inspection ends: no /proc file is read and no further sample is   *)
(* taken from the namespace of another process.                             *)
THEOREM NamespaceKept == Spec => []NetnsKept
<1>1. Init => NetnsKept
  BY DEF Init, InspectorInit, NetnsKept
<1>2. NetnsKept /\ [Next]_fdVars => NetnsKept'
  <2> SUFFICES ASSUME NetnsKept, [Next]_fdVars PROVE NetnsKept'
    OBVIOUS
  <2> USE DEF NetnsKept
  <2>1. CASE UNCHANGED inspectorVars
    BY <2>1 DEF inspectorVars, reading
  <2>2. CASE MoveProcess
    BY <2>2 DEF MoveProcess, reading
  <2>3. CASE ParseInspectArgs \/ PidfdOpen \/ ScanLimitForPid \/ ReadMountinfo \/ ListTargetFds
    BY <2>3 DEF ParseInspectArgs, PidfdOpen, ScanLimitForPid, ReadMountinfo, ListTargetFds, Stays, reading
  <2>4. CASE EnterNetns \/ LeaveNetns
    BY <2>4 DEF EnterNetns, LeaveNetns
  <2>5. CASE Dump
    BY <2>5 DEF Dump, Stays
  <2>6. CASE ReadLinks \/ StatxBatch \/ StatxDone
    BY <2>6 DEF ReadLinks, StatxBatch, StatxDone, Stays
  <2>7. CASE GetFd \/ InspectCopiedFd \/ ProcFdLink \/ ProcFdStat \/ ReadFdinfo
    BY <2>7 DEF GetFd, InspectCopiedFd, ProcFdLink, ProcFdStat, ReadFdinfo, Skip, Stays
  <2>8. CASE Inspected \/ WakeUp
    BY <2>8 DEF Inspected, WakeUp, reading
  <2> QED BY FdSteps, <2>1, <2>2, <2>3, <2>4, <2>5, <2>6, <2>7, <2>8 DEF InspectorNext
<1> QED BY <1>1, <1>2, PTL DEF Spec, fdVars

-----------------------------------------------------------------------------
(* What the descriptors held.                                               *)

Started == at \notin {"parse", "begin", "error"}

(* What a descriptor is now it has been.                                    *)
HeldInv ==
  Started => \A fd \in Fd : IF fd \in DOMAIN table THEN table[fd] \in held[fd]
                            ELSE gone \/ NoneFile \in held[fd]

(* Only the start of an inspection forgets what a descriptor was.           *)
LEMMA HeldGrows ==
  ASSUME BaseInv, InspectorNext \/ UNCHANGED inspectorVars, ~PidfdOpen
  PROVE  \A fd \in Fd : held[fd] \subseteq held'[fd]
<1>1. CASE MoveProcess
  <2>1. held \in [Fd -> SUBSET Files0] /\ DOMAIN table \subseteq Fd
    BY DEF BaseInv, ProcessInv
  <2>2. held' = held \/ \E fd \in Fd : \E x : held' = [held EXCEPT ![fd] = @ \cup {x}]
    BY <1>1, <2>1 DEF MoveProcess, OpenFile, CloseFile, PeerCloses, ProcessEnds
  <2> QED BY <2>1, <2>2
<1>2. CASE ~MoveProcess
  <2>1. UNCHANGED held
    BY <1>2 DEF InspectorNext, inspectorVars, ParseInspectArgs, ScanLimitForPid, EnterNetns, Dump, LeaveNetns,
         ReadMountinfo, ListTargetFds, ReadLinks, StatxBatch, StatxDone, GetFd, InspectCopiedFd, ProcFdLink,
         ProcFdStat, ReadFdinfo, Inspected, WakeUp, Stays
  <2> QED BY <2>1
<1> QED BY <1>1, <1>2

(* Only MoveProcess moves the process, and only at these places.            *)
LEMMA ProcessStill ==
  ASSUME InspectorNext \/ UNCHANGED inspectorVars, ~MoveProcess
  PROVE  UNCHANGED <<process, cli, may>> /\ (~PidfdOpen => UNCHANGED <<held, pidfd>>)
<1>1. CASE UNCHANGED inspectorVars
  BY <1>1 DEF inspectorVars, reading
<1>2. CASE InspectorNext
  BY <1>2 DEF InspectorNext, ParseInspectArgs, PidfdOpen, ScanLimitForPid, EnterNetns, Dump, LeaveNetns,
       ReadMountinfo, ListTargetFds, ReadLinks, StatxBatch, StatxDone, GetFd, InspectCopiedFd, ProcFdLink,
       ProcFdStat, ReadFdinfo, Inspected, WakeUp, Stays, reading
<1> QED BY <1>1, <1>2

LEMMA StartOnlyThere ==
  ASSUME InspectorNext \/ UNCHANGED inspectorVars, ~PidfdOpen, Started'
  PROVE  Started
BY DEF InspectorNext, inspectorVars, Started, MoveProcess, ParseInspectArgs, ScanLimitForPid, EnterNetns, Dump,
       LeaveNetns, ReadMountinfo, ListTargetFds, ReadLinks, StatxBatch, StatxDone, GetFd, InspectCopiedFd,
       ProcFdLink, ProcFdStat, ReadFdinfo, Inspected, WakeUp, Stays, Skip

LEMMA HeldKeeps ==
  ASSUME BaseInv, HeldInv, InspectorNext \/ UNCHANGED inspectorVars
  PROVE  HeldInv'
<1>1. CASE PidfdOpen
  BY <1>1 DEF PidfdOpen, HeldInv, process
<1>2. CASE MoveProcess
  <2>0. /\ Started /\ \A fd \in Fd : IF fd \in DOMAIN table THEN table[fd] \in held[fd]
                                     ELSE gone \/ NoneFile \in held[fd]
        /\ held \in [Fd -> SUBSET Files0] /\ DOMAIN table \subseteq Fd
    BY <1>2 DEF MoveProcess, Started, HeldInv, BaseInv, ProcessInv
  <2>1. ASSUME NEW fd \in Fd, NEW file \in Files, OpenFile(fd, file) PROVE HeldInv'
    BY <2>0, <2>1 DEF OpenFile, HeldInv
  <2>2. ASSUME NEW fd \in DOMAIN table, CloseFile(fd) PROVE HeldInv'
    BY <2>0, <2>2 DEF CloseFile, HeldInv
  <2>3. ASSUME NEW fd \in DOMAIN table, PeerCloses(table[fd]) PROVE HeldInv'
    BY <2>0, <2>3 DEF PeerCloses, HeldInv
  <2>4. CASE ProcessEnds
    BY <2>4 DEF ProcessEnds, HeldInv
  <2> QED BY <1>2, <2>1, <2>2, <2>3, <2>4 DEF MoveProcess
<1>3. CASE ~PidfdOpen /\ ~MoveProcess
  BY <1>3, ProcessStill, StartOnlyThere DEF HeldInv, process
<1> QED BY <1>1, <1>2, <1>3

-----------------------------------------------------------------------------
(* Entries made from copies.                                                *)

Copies == pidfd /\ "getfd" \in may /\ ~cli.ioUring

(* The entry is about one file that its descriptor had.                     *)
About(e, file) ==
  /\ file # NoneFile
  /\ e.link = file.link /\ e.inode = file.inode
  /\ file.mode = "socket" <=> e.type = "socket"
  /\ e.socket.remote \in {NoText, file.remote}
HadFile(e) == e.fd \in Fd /\ \E file \in held[e.fd] : About(e, file)

CopyInv ==
  /\ ~cli.ioUring => snapshots = << >> /\ at \notin {"links", "statx"}
  /\ Copies =>
       /\ at \in {"copied", "fdinfo"} => Current \in Fd /\ copied \in AllFiles /\ copied \in held[Current]
       /\ at = "fdinfo" => entry.fdinfo = 0 /\ About(entry, copied)
       /\ \A k \in DOMAIN entries : HadFile(entries[k])

LEMMA NoSnapshots ==
  ASSUME BaseInv, CopyInv, InspectorNext \/ UNCHANGED inspectorVars, ~cli'.ioUring
  PROVE  snapshots' = << >> /\ at' \notin {"links", "statx"}
<1>1. cli' = cli /\ ~cli.ioUring /\ snapshots = << >> /\ at \notin {"links", "statx"}
  <2>1. cli' = cli
    BY ProcessStill DEF MoveProcess
  <2> QED BY <2>1 DEF CopyInv
<1>2. CASE MoveProcess \/ ParseInspectArgs \/ WakeUp \/ UNCHANGED inspectorVars \/ Inspected
  BY <1>1, <1>2 DEF MoveProcess, ParseInspectArgs, WakeUp, Inspected, inspectorVars, reading
<1>3. CASE PidfdOpen \/ ScanLimitForPid \/ EnterNetns \/ Dump \/ LeaveNetns \/ ReadMountinfo \/ ListTargetFds
  BY <1>1, <1>3 DEF PidfdOpen, ScanLimitForPid, EnterNetns, Dump, LeaveNetns, ReadMountinfo, ListTargetFds, Stays
<1>4. CASE ReadLinks \/ StatxBatch \/ StatxDone
  BY <1>1, <1>4 DEF ReadLinks, StatxBatch, StatxDone
<1>5. CASE GetFd \/ InspectCopiedFd \/ ProcFdLink \/ ProcFdStat \/ ReadFdinfo
  BY <1>1, <1>5 DEF GetFd, InspectCopiedFd, ProcFdLink, ProcFdStat, ReadFdinfo, Skip, Stays
<1> QED BY <1>2, <1>3, <1>4, <1>5 DEF InspectorNext

(* The entry of a copied descriptor is about the copy.                      *)
LEMMA WholeAbout ==
  ASSUME BaseInv, CopyInv, Copies, at = "fdinfo"
  PROVE  Whole \in EntrySet /\ Whole.fd = Current /\ About(Whole, copied)
<1>0. /\ copied \in AllFiles /\ entry.link = copied.link /\ entry.inode = copied.inode
      /\ copied.mode = "socket" <=> entry.type = "socket"
      /\ entry.socket.remote \in {NoText, copied.remote}
  BY DEF CopyInv, About
<1>1. copied # NoneFile
  BY <1>0, FileFacts
<1>2. /\ Whole \in EntrySet /\ Whole.fd = Current /\ Whole.link = entry.link
      /\ Whole.inode = entry.inode /\ Whole.type = Informed.type
      /\ Whole.socket.remote = IF Whole.type = "socket" /\ Whole.inode \in DOMAIN byInode
                               THEN byInode[Whole.inode].remote ELSE entry.socket.remote
  BY <1>1, WholeFacts
<1>3. Informed.type = "socket" <=> entry.type = "socket"
  <2>1. CASE Current \in DOMAIN table /\ "proc_fd" \in may
    <3>1. /\ table[Current] \in AllFiles
          /\ Informed.type = IF table[Current].watches # NoText /\ entry.type \in {"anon", "unknown"}
                             THEN table[Current].watches ELSE entry.type
      BY <2>1, InformedFacts
    <3>2. table[Current].watches # "socket"
      BY <3>1, FileFacts
    <3> QED BY <3>1, <3>2
  <2>2. CASE ~(Current \in DOMAIN table /\ "proc_fd" \in may)
    BY <2>2, InformedFacts
  <2> QED BY <2>1, <2>2
<1>4. Whole.type = "socket" /\ Whole.inode \in DOMAIN byInode => byInode[Whole.inode].remote = copied.remote
  <2> SUFFICES ASSUME Whole.type = "socket", Whole.inode \in DOMAIN byInode
               PROVE  byInode[Whole.inode].remote = copied.remote
    OBVIOUS
  <2>1. ToldOf(Whole.inode, byInode[Whole.inode].remote)
    BY DEF BaseInv, DataInv
  <2>2. PICK f \in AllFiles : f.mode = "socket" /\ f.inode = Whole.inode /\ f.remote = byInode[Whole.inode].remote
    BY <2>1 DEF ToldOf
  <2>3. copied.mode = "socket" /\ f.inode = copied.inode
    BY <1>0, <1>2, <1>3, <2>2
  <2>4. f = copied
    BY <1>0, <2>2, <2>3, FilesAssumption
  <2> QED BY <2>2, <2>4
<1> QED BY <1>0, <1>1, <1>2, <1>3, <1>4 DEF About

LEMMA CopyKeeps ==
  ASSUME BaseInv, HeldInv, CopyInv, InspectorNext \/ UNCHANGED inspectorVars
  PROVE  CopyInv'
<1> SUFFICES ASSUME Copies'
             PROVE  /\ at' \in {"copied", "fdinfo"} => Current' \in Fd /\ copied' \in AllFiles /\ copied' \in held'[Current']
                    /\ at' = "fdinfo" => entry'.fdinfo = 0 /\ About(entry, copied)'
                    /\ \A k \in DOMAIN entries' : HadFile(entries[k])'
  BY NoSnapshots DEF CopyInv
<1>1. CASE PidfdOpen
  BY <1>1 DEF PidfdOpen
<1> SUFFICES ASSUME ~PidfdOpen
             PROVE  /\ at' \in {"copied", "fdinfo"} => Current' \in Fd /\ copied' \in AllFiles /\ copied' \in held'[Current']
                    /\ at' = "fdinfo" => entry'.fdinfo = 0 /\ About(entry, copied)'
                    /\ \A k \in DOMAIN entries' : HadFile(entries[k])'
  BY <1>1
<1>2. Copies /\ snapshots = << >> /\ \A fd \in Fd : held[fd] \subseteq held'[fd]
  <2>1. UNCHANGED <<cli, may, pidfd>>
    BY ProcessStill DEF MoveProcess, reading
  <2> QED BY <2>1, HeldGrows DEF Copies, CopyInv
<1>3. ASSUME NEW e, HadFile(e) PROVE e.fd \in Fd /\ \E file \in held'[e.fd] : About(e, file)
  BY <1>2, <1>3 DEF HadFile
<1>4. /\ at \in {"copied", "fdinfo"} => Current \in Fd /\ copied \in AllFiles /\ copied \in held[Current]
      /\ at = "fdinfo" => entry.fdinfo = 0 /\ About(entry, copied)
      /\ \A k \in DOMAIN entries : HadFile(entries[k])
  BY <1>2 DEF CopyInv
<1>5. CASE MoveProcess \/ UNCHANGED inspectorVars
  <2>1. UNCHANGED <<at, reading>> /\ Current' = Current
    BY <1>5 DEF MoveProcess, inspectorVars, reading, Current, Left
  <2>2. UNCHANGED <<copied, entry, entries>>
    BY <2>1 DEF reading
  <2>3. \A k \in DOMAIN entries' : HadFile(entries[k])'
    BY <1>3, <1>4, <2>2 DEF HadFile, About
  <2> QED BY <1>2, <1>4, <2>1, <2>2, <2>3 DEF About
<1>6. CASE \/ ParseInspectArgs \/ ScanLimitForPid \/ EnterNetns \/ Dump \/ LeaveNetns \/ ReadMountinfo
           \/ ListTargetFds \/ ReadLinks \/ StatxBatch \/ StatxDone \/ Inspected \/ WakeUp
           \/ ProcFdLink \/ ProcFdStat
  <2>1. (UNCHANGED entries /\ at' \notin {"copied", "fdinfo"}) \/ at \in {"proc", "proc_stat"}
    BY <1>6 DEF ParseInspectArgs, ScanLimitForPid, EnterNetns, Dump, LeaveNetns, ReadMountinfo,
         ListTargetFds, ReadLinks, StatxBatch, StatxDone, Inspected, WakeUp, ProcFdLink, ProcFdStat, Stays, reading
  <2>2. at \notin {"proc", "proc_stat"}
    BY <1>2 DEF Copies, BaseInv, PhaseInv
  <2>3. UNCHANGED entries /\ at' \notin {"copied", "fdinfo"}
    BY <2>1, <2>2
  <2>4. \A k \in DOMAIN entries' : HadFile(entries[k])'
    BY <1>3, <1>4, <2>3 DEF HadFile, About
  <2> QED BY <2>3, <2>4
<1>7. CASE GetFd
  <2>1. /\ UNCHANGED <<entries, fds, table>> /\ at = "scan" /\ Left # {}
        /\ \/ at' \in {"proc", "error", "scan"}
           \/ at' = "copied" /\ Current \in DOMAIN table /\ copied' = table[Current] /\ UNCHANGED scanned
    BY <1>7 DEF GetFd, Skip, Stays, process
  <2>2. at' = "copied" => Current' = Current
    BY <2>1 DEF Current, Left
  <2>3. Current \in DOMAIN table => Current \in Fd /\ table[Current] \in AllFiles /\ table[Current] \in held[Current]
    BY <2>1 DEF BaseInv, ProcessInv, HeldInv, Started
  <2>4. \A k \in DOMAIN entries' : HadFile(entries[k])'
    BY <1>3, <1>4, <2>1 DEF HadFile, About
  <2> QED BY <1>2, <2>1, <2>2, <2>3, <2>4
<1>8. CASE InspectCopiedFd
  <2>1. /\ UNCHANGED <<entries, fds, scanned, copied>> /\ at = "copied" /\ entry' = InspectedCopy /\ at' = "fdinfo"
    BY <1>8 DEF InspectCopiedFd, Stays
  <2>2. Current' = Current
    BY <2>1 DEF Current, Left
  <2>3. Snapshot.link = NoLink /\ Snapshot.stat = NoneFile
    BY <1>2 DEF Snapshot
  <2>4. /\ InspectedCopy.fdinfo = 0 /\ InspectedCopy.socket.remote \in {NoText, copied.remote}
        /\ InspectedCopy.link = copied.link /\ InspectedCopy.inode = copied.inode
        /\ InspectedCopy.type = TypeSeen(copied)
    BY <2>1, <2>3, CopySeen
  <2>5. copied \in AllFiles /\ copied # NoneFile
    BY <1>4, <2>1, FileFacts
  <2>6. entry'.fdinfo = 0 /\ About(entry, copied)'
    BY <2>1, <2>4, <2>5, SocketSeen DEF About
  <2>7. \A k \in DOMAIN entries' : HadFile(entries[k])'
    BY <1>3, <1>4, <2>1 DEF HadFile, About
  <2> QED BY <1>2, <1>4, <2>1, <2>2, <2>6, <2>7
<1>9. CASE ReadFdinfo
  <2>1. /\ at = "fdinfo" /\ at' = "scan" /\ UNCHANGED held
        /\ entries' = IF Known THEN Append(entries, Whole) ELSE entries
    BY <1>9, FdinfoReads
  <2>2. /\ Whole \in EntrySet /\ Whole.fd = Current /\ About(Whole, copied)
        /\ Current \in Fd /\ copied \in held[Current] /\ entries \in Seq(EntrySet)
    BY <1>2, <1>4, <2>1, WholeAbout DEF BaseInv, DataInv
  <2>3. HadFile(Whole)
    BY <2>2 DEF HadFile
  <2> HIDE DEF Whole, Known, HadFile
  <2>4. \A k \in DOMAIN entries' : HadFile(entries'[k])
    <3>1. CASE entries' = Append(entries, Whole)
      <4>1. /\ \A k \in DOMAIN entries : entries'[k] = entries[k]
            /\ entries'[Len(entries) + 1] = Whole
            /\ \A k \in DOMAIN entries' : k = Len(entries) + 1 \/ k \in DOMAIN entries
        BY <2>2, <3>1, Appended
      <4> QED BY <1>4, <2>3, <4>1
    <3>2. CASE entries' = entries
      BY <1>4, <3>2
    <3> QED BY <2>1, <3>1, <3>2
  <2>5. \A k \in DOMAIN entries' : HadFile(entries[k])'
    BY <2>1, <2>4 DEF HadFile, About
  <2> QED BY <2>1, <2>5
<1> QED BY <1>5, <1>6, <1>7, <1>8, <1>9 DEF InspectorNext

LEMMA CopiesSound == CopyInv => CopiesTrue
<1> SUFFICES ASSUME CopyInv, Copies, NEW k \in DOMAIN entries
             PROVE  \E file \in held[entries[k].fd] \ {NoneFile} :
                      /\ entries[k].link = file.link /\ entries[k].inode = file.inode
                      /\ file.mode = "socket" <=> entries[k].type = "socket"
                      /\ entries[k].socket # NoSocket => entries[k].socket.remote \in {NoText, file.remote}
  BY DEF CopiesTrue, Copies
<1>1. PICK file \in held[entries[k].fd] : About(entries[k], file)
  BY DEF CopyInv, HadFile
<1> QED BY <1>1 DEF About

-----------------------------------------------------------------------------
(* Descriptors that do not change.                                          *)

Stable(fd) == fd \in DOMAIN table /\ held[fd] = {table[fd]}

(* Where the inspection is with such a descriptor.                          *)
Progress(fd) ==
  /\ at \in {"list"} \cup Listed => table[fd].mnt \in mounts
  /\ at \in Listed => fd \in fds
  /\ at \in Listed /\ fd \in DOMAIN snapshots =>
       snapshots[fd].link \in {NoLink, table[fd].link} /\ snapshots[fd].stat \in {NoneFile, table[fd]}
  /\ at \in {"scan"} \cup Reading /\ fd \in scanned =>
       \E k \in DOMAIN entries : entries[k].fd = fd /\ Describes(entries[k], table[fd])
  /\ at \in Reading /\ Current = fd =>
       /\ at \in {"copied", "fdinfo"} => copied \in {NoneFile, table[fd]}
       /\ at \in {"proc_stat", "fdinfo"} => entry.link = table[fd].link
       /\ at = "fdinfo" => entry.inode = table[fd].inode /\ entry.type = TypeSeen(table[fd])

Readable == "proc_fd" \in may \/ "getfd" \in may

StableInv ==
  Started /\ ~gone /\ Readable => \A fd \in Fd : Stable(fd) /\ fd < LimitValue => Progress(fd)

LEMMA StableBefore ==
  ASSUME BaseInv, HeldInv, MoveProcess, ~gone', NEW fd \in Fd, Stable(fd)'
  PROVE  ~gone /\ Stable(fd) /\ table'[fd] = table[fd]
<1>1. ~gone /\ Started
  BY DEF MoveProcess, Started
<1>2. held[fd] \subseteq held'[fd] /\ held'[fd] = {table'[fd]} /\ fd \in DOMAIN table'
  <2>1. ~PidfdOpen
    BY DEF MoveProcess, PidfdOpen
  <2> QED BY <2>1, HeldGrows DEF InspectorNext, Stable
<1>3. table'[fd] # NoneFile
  BY <1>2, MoveKeeps, FileFacts DEF BaseInv, ProcessInv
<1>4. fd \in DOMAIN table
  BY <1>1, <1>2, <1>3 DEF HeldInv
<1>5. table[fd] \in held[fd]
  BY <1>1, <1>4 DEF HeldInv
<1> QED BY <1>1, <1>2, <1>4, <1>5 DEF Stable

(* What is known of a stable descriptor when its last file has been read.   *)
LEMMA WholeDescribes ==
  ASSUME BaseInv, at = "fdinfo", NEW fd \in Fd, Stable(fd), Progress(fd), Current = fd
  PROVE  Known /\ Whole \in EntrySet /\ Whole.fd = fd /\ Describes(Whole, table[fd])
<1> DEFINE f == table[fd]
<1>1. f \in AllFiles /\ fd \in DOMAIN table
  BY DEF Stable, BaseInv, ProcessInv
<1>2. entry.link = f.link /\ entry.inode = f.inode /\ entry.type = TypeSeen(f) /\ f.mnt \in mounts
  BY DEF Progress, Reading, Listed
<1>3. f.inode # 0 /\ f.link # NoLink /\ (TypeFromTarget(f.link) = "unknown" => f.mode \in KnownModes)
  BY <1>1, FileFacts
<1>4. /\ Whole \in EntrySet /\ Whole.fd = Current /\ Whole.link = entry.link
      /\ Whole.inode = entry.inode /\ Whole.type = Informed.type
      /\ Whole.mount = IF Informed.mount \in mounts THEN Informed.mount ELSE 0
  <2>1. entry.inode # 0
    BY <1>2, <1>3
  <2> QED BY <2>1, WholeFacts
<1>5. Whole.type = TypeOf(f) /\ ("proc_fd" \in may => Whole.mount = f.mnt)
  <2>1. CASE "proc_fd" \in may
    <3>1. /\ Informed.mount = f.mnt
          /\ Informed.type = IF f.watches # NoText /\ entry.type \in {"anon", "unknown"}
                             THEN f.watches ELSE entry.type
      BY <1>1, <2>1, InformedFacts
    <3>2. TypeSeen(f) \in {"anon", "unknown"} <=> TypeFromTarget(f.link) = "anon"
      BY <1>3 DEF TypeSeen, KnownModes
    <3>3. Informed.type = TypeOf(f)
      BY <1>2, <2>1, <3>1, <3>2 DEF TypeOf, TypeSeen
    <3> QED BY <1>2, <1>4, <3>1, <3>3
  <2>2. CASE "proc_fd" \notin may
    <3>1. Informed = entry
      BY <2>2, InformedFacts
    <3> QED BY <1>2, <1>4, <2>2, <3>1 DEF TypeOf, TypeSeen
  <2> QED BY <2>1, <2>2
<1>6. Known
  BY <1>2, <1>3, <1>4 DEF Known
<1> QED BY <1>2, <1>4, <1>5, <1>6 DEF Describes

LEMMA StableKeeps ==
  ASSUME BaseInv, BaseInv', HeldInv, StableInv, InspectorNext \/ UNCHANGED inspectorVars
  PROVE  StableInv'
<1> SUFFICES ASSUME Started', ~gone', Readable', NEW fd \in Fd, Stable(fd)', fd < LimitValue'
             PROVE  Progress(fd)'
  BY DEF StableInv
<1>1. CASE PidfdOpen
  <2>1. at' = "limit"
    BY <1>1 DEF PidfdOpen, Started
  <2> QED BY <2>1 DEF Progress, Listed, Reading
<1>2. CASE MoveProcess
  <2>1. ~gone /\ Stable(fd) /\ table'[fd] = table[fd] /\ UNCHANGED <<at, cli, may, reading>> /\ Started
    BY <1>2, StableBefore DEF MoveProcess, Started
  <2>2. Progress(fd)
    BY <2>1 DEF StableInv, Readable, LimitValue
  <2>3. Current' = Current
    BY <2>1 DEF reading, Current, Left
  <2> QED BY <2>1, <2>2, <2>3 DEF Progress, Describes, TypeOf, reading
<1> SUFFICES ASSUME ~PidfdOpen, ~MoveProcess PROVE Progress(fd)'
  BY <1>1, <1>2
<1>3. /\ UNCHANGED <<table, gone, cli, may, held, pidfd>> /\ Started /\ ~gone /\ Readable
      /\ Stable(fd) /\ fd < LimitValue /\ Progress(fd)
  <2>1. UNCHANGED <<table, gone, cli, may, held, pidfd>> /\ Started
    BY ProcessStill, StartOnlyThere DEF process
  <2> QED BY <2>1 DEF StableInv, Readable, LimitValue, Stable
<1>4. fd \in Nat /\ fd \in DOMAIN table /\ table[fd] \in AllFiles /\ table[fd] # NoneFile
  BY <1>3, FdInspectorAssumption, FileFacts DEF Stable, BaseInv, ProcessInv
<1>5. CASE UNCHANGED inspectorVars
  BY <1>3, <1>5 DEF inspectorVars, Progress, Describes, TypeOf, reading, process, Current, Left
<1>6. CASE \/ ParseInspectArgs \/ ScanLimitForPid \/ EnterNetns \/ Dump \/ LeaveNetns
           \/ Inspected \/ WakeUp
  <2>1. at' \notin {"list"} \cup Listed
    BY <1>6 DEF ParseInspectArgs, ScanLimitForPid, EnterNetns, Dump, LeaveNetns, Inspected, WakeUp, Stays,
         Listed, Reading
  <2> QED BY <2>1 DEF Progress, Listed
<1>7. CASE ReadMountinfo
  <2>1. at' = "list" /\ mounts' = {f.mnt : f \in AllFiles}
    BY <1>3, <1>7 DEF ReadMountinfo
  <2> QED BY <1>3, <1>4, <2>1 DEF Progress, Listed, Reading
<1>8. CASE ListTargetFds
  <2>1. /\ at = "list" /\ at' \in {"error", "links", "scan"} /\ UNCHANGED <<mounts, limit, snapshots, scanned>>
        /\ fds' = {d \in DOMAIN table : d < limit} \/ fds' = 0..(limit - 1)
    BY <1>8 DEF ListTargetFds, Stays
  <2>2. limit = LimitValue /\ limit \in Int /\ snapshots = << >> /\ scanned = {}
    BY <2>1, FdInspectorAssumption DEF BaseInv, PhaseInv, Preparing, ProcessInv, LimitValue
  <2>3. fd \in fds'
    BY <1>3, <1>4, <2>1, <2>2
  <2>4. table'[fd].mnt \in mounts'
    BY <1>3, <2>1 DEF Progress
  <2> QED BY <2>1, <2>2, <2>3, <2>4 DEF Progress, Listed, Reading
<1>9. CASE ReadLinks
  <2>1. /\ at = "links" /\ at' = "statx" /\ UNCHANGED <<mounts, fds>> /\ scanned' = {}
        /\ snapshots' = [d \in fds |-> [link |-> TargetFdLink(d), stat |-> NoneFile]]
    BY <1>9 DEF ReadLinks, Stays
  <2>2. table[fd].mnt \in mounts /\ fd \in fds
    BY <1>3, <2>1 DEF Progress, Listed
  <2>3. snapshots'[fd].link \in {NoLink, table[fd].link} /\ snapshots'[fd].stat = NoneFile
    BY <2>1, <2>2 DEF TargetFdLink
  <2> QED BY <1>3, <2>1, <2>2, <2>3 DEF Progress, Listed, Reading
<1>10. CASE StatxBatch
  <2>1. /\ at = "statx" /\ at' \in {"statx", "scan"} /\ UNCHANGED <<mounts, fds>>
        /\ at' = "scan" => scanned' = {}
        /\ \/ at' = "scan" /\ snapshots' = << >>
           \/ \E batch : snapshots' = [d \in fds |->
                 IF d \in batch /\ d \in DOMAIN table /\ "proc_fd" \in may
                   THEN [snapshots[d] EXCEPT !.stat = table[d]] ELSE snapshots[d]]
    BY <1>10 DEF StatxBatch, Stays
  <2>2. table[fd].mnt \in mounts /\ fd \in fds
    BY <1>3, <2>1 DEF Progress, Listed
  <2>3. /\ snapshots[fd].link \in {NoLink, table[fd].link} /\ snapshots[fd].stat \in {NoneFile, table[fd]}
        /\ snapshots[fd] \in [link : LinkSet, stat : Files0]
    BY <1>3, <2>1, <2>2 DEF Progress, Listed, BaseInv, DataInv, PhaseInv
  <2>4. fd \in DOMAIN snapshots' =>
          snapshots'[fd].link \in {NoLink, table[fd].link} /\ snapshots'[fd].stat \in {NoneFile, table[fd]}
    BY <2>1, <2>2, <2>3
  <2> QED BY <1>3, <2>1, <2>2, <2>4 DEF Progress, Listed, Reading
<1>11. CASE StatxDone
  <2>1. at = "statx" /\ at' = "scan" /\ scanned' = {} /\ UNCHANGED <<mounts, fds, snapshots>>
    BY <1>11 DEF StatxDone, Stays
  <2> QED BY <1>3, <2>1 DEF Progress, Listed, Reading
<1>12. CASE GetFd \/ InspectCopiedFd \/ ProcFdLink \/ ProcFdStat
  <2>1. /\ UNCHANGED <<mounts, fds, snapshots, entries>>
        /\ at \in {"scan", "copied", "proc", "proc_stat"} /\ at' \in {"scan", "error"} \cup Reading
        /\ UNCHANGED scanned \/ (at' = "scan" /\ scanned' = scanned \cup {Current})
    BY <1>12 DEF GetFd, InspectCopiedFd, ProcFdLink, ProcFdStat, Skip, Stays, Reading
  <2>2. table[fd].mnt \in mounts /\ fd \in fds
    BY <1>3, <2>1 DEF Progress, Listed, Reading
  <2>3. fd \in DOMAIN snapshots =>
          snapshots[fd].link \in {NoLink, table[fd].link} /\ snapshots[fd].stat \in {NoneFile, table[fd]}
    BY <1>3, <2>1 DEF Progress, Listed, Reading
  <2>4. /\ Current = fd /\ Snapshot.link # NoLink => Snapshot.link = table[fd].link
        /\ Current = fd /\ Snapshot.stat # NoneFile => Snapshot.stat = table[fd]
    BY <2>3 DEF Snapshot
  <2>5. at' \in {"scan"} \cup Reading /\ fd \in scanned' =>
          \E k \in DOMAIN entries' : entries'[k].fd = fd /\ Describes(entries[k], table[fd])'
    <3>1. fd \in scanned' => fd \in scanned
      <4>1. CASE UNCHANGED scanned
        BY <4>1
      <4>2. CASE at' = "scan" /\ scanned' = scanned \cup {Current} /\ scanned' # scanned
        <5>1. Current \notin DOMAIN table
          BY <1>12, <4>2 DEF GetFd, InspectCopiedFd, ProcFdLink, ProcFdStat, Stays, Skip
        <5> QED BY <1>4, <4>2, <5>1
      <4> QED BY <2>1, <4>1, <4>2
    <3>2. fd \in scanned => \E k \in DOMAIN entries : entries[k].fd = fd /\ Describes(entries[k], table[fd])
      BY <1>3, <2>1 DEF Progress, Reading
    <3>3. \A k : Describes(entries[k], table[fd])' <=> Describes(entries[k], table[fd])
      BY <1>3, <2>1 DEF Describes, TypeOf
    <3> HIDE DEF Describes
    <3> QED BY <2>1, <3>1, <3>2, <3>3
  <2>6. at' \in Reading => Current' = Current
    <3>1. at' \in Reading => UNCHANGED scanned
      BY <2>1 DEF Reading
    <3> QED BY <2>1, <3>1 DEF Current, Left
  <2>7. at' \in Reading /\ Current' = fd =>
          /\ at' \in {"copied", "fdinfo"} => copied' \in {NoneFile, table[fd]}
          /\ at' \in {"proc_stat", "fdinfo"} => entry'.link = table[fd].link
          /\ at' = "fdinfo" => entry'.inode = table[fd].inode /\ entry'.type = TypeSeen(table[fd])
    <3> SUFFICES ASSUME at' \in Reading, Current = fd
                 PROVE  /\ at' \in {"copied", "fdinfo"} => copied' \in {NoneFile, table[fd]}
                        /\ at' \in {"proc_stat", "fdinfo"} => entry'.link = table[fd].link
                        /\ at' = "fdinfo" => entry'.inode = table[fd].inode /\ entry'.type = TypeSeen(table[fd])
      BY <2>6
    <3>0. entry \in EntrySet
      BY DEF BaseInv, DataInv
    <3>1. CASE GetFd
      <4>1. \/ at' \in {"proc", "error", "scan"}
            \/ at' = "copied" /\ copied' = table[Current]
        BY <3>1 DEF GetFd, Skip
      <4> QED BY <4>1
    <3>2. CASE InspectCopiedFd
      <4>1. at = "copied" /\ at' = "fdinfo" /\ entry' = InspectedCopy /\ copied' = copied
        BY <3>2 DEF InspectCopiedFd, Stays
      <4>2. copied = table[fd]
        BY <1>3, <4>1 DEF Progress, Reading, BaseInv, PhaseInv
      <4>3. InspectedCopy.link = copied.link /\ InspectedCopy.inode = copied.inode /\ InspectedCopy.type = TypeSeen(copied)
        BY <2>4, <4>1, <4>2, CopySeen
      <4> QED BY <4>1, <4>2, <4>3
    <3>3. CASE ProcFdLink
      <4> DEFINE link == IF Snapshot.link # NoLink THEN Snapshot.link ELSE TargetFdLink(Current)
      <4>1. at = "proc" /\ at' = "proc_stat" /\ entry' = WithLink(entry, link)
        BY <3>3 DEF ProcFdLink
      <4>2. "proc_fd" \in may
        BY <1>3, <4>1 DEF BaseInv, PhaseInv, Readable, Listed, Reading
      <4>3. link = table[fd].link
        BY <1>4, <2>4, <4>2 DEF TargetFdLink
      <4>4. link \in LinkSet
        BY <1>4, <4>3, FileFacts
      <4> HIDE DEF link
      <4>5. entry'.link = link
        BY <3>0, <4>1, <4>4, LinkTyped
      <4> QED BY <4>1, <4>3, <4>5
    <3>4. CASE ProcFdStat
      <4>1. at = "proc_stat" /\ at' = "fdinfo" /\ entry' = Statted /\ copied' = copied
        BY <3>4 DEF ProcFdStat, Stays, Statted, TypedStat, StatRead
      <4>2. "proc_fd" \in may /\ copied = NoneFile
        BY <1>3, <4>1 DEF BaseInv, PhaseInv, Readable, Listed, Reading
      <4>3. StatRead = table[fd]
        BY <1>4, <2>4, <4>2 DEF StatRead
      <4>4. entry.link = table[fd].link
        BY <1>3, <4>1 DEF Progress, Reading
      <4>5. Statted.link = entry.link /\ Statted.inode = StatRead.inode /\ Statted.type = TypeSeen(StatRead)
        BY <1>4, <4>3, <4>4, StattedFacts
      <4> QED BY <4>1, <4>2, <4>3, <4>4, <4>5
    <3> QED BY <1>12, <3>1, <3>2, <3>3, <3>4
  <2> QED BY <1>3, <2>1, <2>2, <2>3, <2>5, <2>7 DEF Progress, Listed
<1>13. CASE ReadFdinfo
  <2>1. /\ at = "fdinfo" /\ at' = "scan" /\ scanned' = scanned \cup {Current}
        /\ entries' = IF Known THEN Append(entries, Whole) ELSE entries
        /\ UNCHANGED <<mounts, fds, snapshots>>
    BY <1>13, FdinfoReads
  <2>2. entries \in Seq(EntrySet) /\ Whole \in EntrySet
    BY <2>1, WholeFacts DEF BaseInv, DataInv
  <2>3. fd \in scanned' => \E k \in DOMAIN entries' : entries'[k].fd = fd /\ Describes(entries'[k], table[fd])
    <3>1. CASE fd = Current
      <4>1. Known /\ Whole.fd = fd /\ Describes(Whole, table[fd])
        BY <1>3, <2>1, <3>1, WholeDescribes
      <4> HIDE DEF Known, Whole, Describes
      <4>2. entries' = Append(entries, Whole)
        BY <2>1, <4>1
      <4>3. Len(entries) + 1 \in DOMAIN entries' /\ entries'[Len(entries) + 1] = Whole
        BY <2>2, <4>2, Appended
      <4> QED BY <4>1, <4>3
    <3>2. CASE fd \in scanned
      <4>1. PICK k \in DOMAIN entries : entries[k].fd = fd /\ Describes(entries[k], table[fd])
        BY <1>3, <2>1, <3>2 DEF Progress, Reading
      <4> HIDE DEF Known, Whole, Describes
      <4>2. k \in DOMAIN entries' /\ entries'[k] = entries[k]
        <5>1. CASE entries' = entries
          BY <5>1
        <5>2. CASE entries' = Append(entries, Whole)
          BY <2>2, <5>2, Appended
        <5> QED BY <2>1, <5>1, <5>2
      <4> QED BY <4>1, <4>2
    <3> QED BY <2>1, <3>1, <3>2
  <2>4. fd \in scanned' => \E k \in DOMAIN entries' : entries'[k].fd = fd /\ Describes(entries[k], table[fd])'
    BY <1>3, <2>3 DEF Describes, TypeOf
  <2> QED BY <1>3, <2>1, <2>4 DEF Progress, Listed, Reading
<1> QED BY <1>5, <1>6, <1>7, <1>8, <1>9, <1>10, <1>11, <1>12, <1>13 DEF InspectorNext

LEMMA StableSound == ASSUME BaseInv, StableInv PROVE StableReported
<1> SUFFICES ASSUME at = "scan", Left = {}, ~gone, NEW fd \in DOMAIN table,
                    held[fd] = {table[fd]}, fd < limit, Readable
             PROVE  LET about == {k \in DOMAIN entries : entries[k].fd = fd}
                    IN  Cardinality(about) = 1 /\ \A k \in about : Describes(entries[k], table[fd])
  BY DEF StableReported, Readable
<1>1. fd \in Fd /\ limit = LimitValue
  BY DEF BaseInv, ProcessInv, PhaseInv
<1>2. Progress(fd)
  BY <1>1 DEF StableInv, Started, Stable
<1>3. fd \in scanned
  BY <1>2 DEF Progress, Left, Listed
<1>4. PICK k \in DOMAIN entries : entries[k].fd = fd /\ Describes(entries[k], table[fd])
  BY <1>2, <1>3 DEF Progress
<1>5. \A j \in DOMAIN entries : entries[j].fd = fd => j = k
  BY <1>4 DEF BaseInv, OnceInv
<1>6. {j \in DOMAIN entries : entries[j].fd = fd} = {k}
  BY <1>4, <1>5
<1> QED BY <1>4, <1>6, FS_Singleton

(* Whatever the process does while it is read, an entry read from a copy of *)
(* its descriptor is about one file that the descriptor had; and one that   *)
(* was open on the same file all the time is in the list once, as that file *)
(* (inspect_pid, inspect_copied_fd, inspect_proc_fd).                       *)
THEOREM EntriesSound == Spec => []EntriesTrue
<1> DEFINE IInv == BaseInv /\ HeldInv /\ CopyInv /\ StableInv
<1>1. Init => IInv
  <2> SUFFICES ASSUME Init PROVE IInv
    OBVIOUS
  <2>1. at = "parse" /\ snapshots = << >> /\ entries = << >>
    BY DEF Init, InspectorInit
  <2> QED BY <2>1, BaseInitially DEF HeldInv, CopyInv, StableInv, Started
<1>2. IInv /\ [Next]_fdVars => IInv'
  <2> SUFFICES ASSUME BaseInv, HeldInv, CopyInv, StableInv, [Next]_fdVars PROVE IInv'
    OBVIOUS
  <2>1. BaseInv' /\ (InspectorNext \/ UNCHANGED inspectorVars)
    BY BaseStep, FdSteps
  <2> QED BY <2>1, HeldKeeps, CopyKeeps, StableKeeps
<1>3. IInv => EntriesTrue
  BY CopiesSound, StableSound DEF EntriesTrue
<1> QED BY <1>1, <1>2, <1>3, PTL DEF Spec, fdVars

-----------------------------------------------------------------------------
(* What is concluded from samples.                                          *)

GrowthOf(buckets) == MapThenSumSet(LAMBDA b : b.growth, buckets)

LEMMA GrowthIsTotal ==
  ASSUME NEW S, IsFiniteSet(S)
  PROVE  GrowthOf(S) = Total([b \in S |-> b.growth], S)
<1> DEFINE h == [b \in S |-> b.growth]
           A(f) == [s \in SUBSET S |-> IF s = {} THEN 0 ELSE Some(s).growth + f[s \ {Some(s)}]]
           f0 == CHOOSE f : f = A(f)
           g0 == CHOOSE f : f = OneTerm(f, h, S)
<1>1. GrowthOf(S) = f0[S]
  BY Zenon DEF GrowthOf, MapThenSumSet, MapThenFoldSet, Some
<1>2. Total(h, S) = g0[S]
  BY TotalIsFixpoint
<1>3. ASSUME NEW f PROVE A(f) = OneTerm(f, h, S)
  <2>1. \A s \in SUBSET S : s # {} => Some(s) \in S
    BY DEF Some
  <2>2. \A s \in SUBSET S : s # {} => h[Some(s)] = Some(s).growth
    BY <2>1
  <2> HIDE DEF h
  <2> QED BY <2>2 DEF OneTerm
<1> HIDE DEF A, h
<1>4. \E f : f = OneTerm(f, h, S)
  BY TotalExists
<1>5. g0 = OneTerm(g0, h, S)
  BY <1>4
<1>6. f0 = A(f0)
  <2>1. \E f : f = A(f)
    BY <1>3, <1>4
  <2> QED BY <2>1
<1>7. f0 = OneTerm(f0, h, S)
  BY <1>3, <1>6
<1> HIDE DEF f0, g0
<1>8. f0[S] = g0[S]
  BY <1>5, <1>7, FixpointsAgree
<1> QED BY <1>1, <1>2, <1>8 DEF h

(* The entries of a sample, and those with a key among some.                *)
LEMMA SampleFinite ==
  ASSUME NEW s \in Seq(EntrySet)
  PROVE  /\ IsFiniteSet(DOMAIN s) /\ Cardinality(DOMAIN s) = Len(s) /\ Len(s) \in Nat
         /\ IsFiniteSet(LeakKeys(s)) /\ LeakKeys(s) = {LeakKey(s[i]) : i \in DOMAIN s}
<1>1. Len(s) \in Nat /\ DOMAIN s = 1..Len(s)
  OBVIOUS
<1>2. IsFiniteSet(DOMAIN s) /\ Cardinality(DOMAIN s) = Len(s)
  <2>1. IsFiniteSet(1..Len(s)) /\ Cardinality(1..Len(s)) = Len(s)
    BY <1>1, FS_Interval
  <2> QED BY <1>1, <2>1
<1> HIDE DEF LeakKey
<1>3. LeakKeys(s) = {LeakKey(s[i]) : i \in DOMAIN s}
  BY DEF LeakKeys, ToSet
<1>4. [i \in DOMAIN s |-> LeakKey(s[i])] \in Surjection(DOMAIN s, LeakKeys(s))
  BY <1>3 DEF Surjection
<1>5. IsFiniteSet(LeakKeys(s))
  BY <1>2, <1>4, FS_Surjection
<1> QED BY <1>1, <1>2, <1>3, <1>5

KeysOf(s) == [i \in DOMAIN s |-> LeakKey(s[i])]
CountsOf(s, T) == [k \in T |-> BucketCount(s, k)]
WithKey(s, T) == {i \in DOMAIN s : KeysOf(s)[i] \in T}

LEMMA CountsAddUp ==
  ASSUME NEW s \in Seq(EntrySet), NEW T, IsFiniteSet(T)
  PROVE  /\ \A k \in T : CountsOf(s, T)[k] \in Nat /\ BucketCount(s, k) \in Nat
         /\ Total(CountsOf(s, T), T) = Cardinality(WithKey(s, T))
         /\ IsFiniteSet(WithKey(s, T)) /\ Cardinality(WithKey(s, T)) \in Nat
         /\ Cardinality(WithKey(s, T)) <= Len(s)
<1>1. IsFiniteSet(DOMAIN s) /\ Cardinality(DOMAIN s) = Len(s)
  BY SampleFinite
<1> HIDE DEF LeakKey
<1>2. ASSUME NEW k
      PROVE  /\ BucketCount(s, k) = Cardinality({i \in DOMAIN s : KeysOf(s)[i] = k})
             /\ BucketCount(s, k) \in Nat
  <2>1. {i \in DOMAIN s : LeakKey(s[i]) = k} = {i \in DOMAIN s : KeysOf(s)[i] = k}
    BY DEF KeysOf
  <2>2. IsFiniteSet({i \in DOMAIN s : LeakKey(s[i]) = k})
    BY <1>1, FS_Subset
  <2> QED BY <2>1, <2>2, FS_CardinalityType DEF BucketCount
<1>3. \A k \in T : CountsOf(s, T)[k] = Cardinality(Part(DOMAIN s, KeysOf(s), k))
  BY <1>2 DEF CountsOf, Part
<1>4. Total(CountsOf(s, T), T) = Cardinality(Parts(DOMAIN s, KeysOf(s), T))
  <2> HIDE DEF CountsOf, KeysOf
  <2> QED BY <1>1, <1>3, TotalOfNamedParts
<1>5. WithKey(s, T) \subseteq DOMAIN s
  BY DEF WithKey
<1>6. IsFiniteSet(WithKey(s, T)) /\ Cardinality(WithKey(s, T)) <= Cardinality(DOMAIN s)
  BY <1>1, <1>5, FS_Subset
<1>7. Total(CountsOf(s, T), T) = Cardinality(WithKey(s, T))
  BY <1>4 DEF WithKey, Parts
<1> QED BY <1>1, <1>2, <1>6, <1>7, FS_CardinalityType DEF CountsOf

(* The keys that more entries have in the last sample than in the first.    *)
Growing(first, last) == {k \in LeakKeys(last) : BucketCount(last, k) - BucketCount(first, k) > 0}

LEMMA BucketsTotal ==
  ASSUME NEW first \in Seq(EntrySet), NEW last \in Seq(EntrySet)
  PROVE  /\ GrowthOf(GrowthBuckets(first, last)) =
              Cardinality(WithKey(last, Growing(first, last))) - Cardinality(WithKey(first, Growing(first, last)))
         /\ {b.key : b \in GrowthBuckets(first, last)} = Growing(first, last)
<1> DEFINE J == Growing(first, last)
           growth == [k \in J |-> BucketCount(last, k) - BucketCount(first, k)]
           bucket == [k \in J |-> [key |-> k, growth |-> growth[k]]]
           B == GrowthBuckets(first, last)
           h == [b \in B |-> b.growth]
<1>1. IsFiniteSet(J)
  <2>1. J \subseteq LeakKeys(last)
    BY DEF Growing
  <2> QED BY <2>1, SampleFinite, FS_Subset
<1>2. B = {bucket[k] : k \in J}
  BY DEF GrowthBuckets, Growing
<1>3. \A k \in J : bucket[k].growth = growth[k] /\ bucket[k].key = k
  OBVIOUS
<1>4. \A k \in J : BucketCount(last, k) \in Nat /\ BucketCount(first, k) \in Nat
  BY <1>1, CountsAddUp
<1>5. \A k \in J : growth[k] \in Int /\ growth[k] = BucketCount(last, k) - BucketCount(first, k)
  BY <1>4
<1>6. IsFiniteSet(B)
  <2>1. bucket \in Surjection(J, B)
    BY <1>2 DEF Surjection
  <2> HIDE DEF J, B, bucket
  <2> QED BY <1>1, <2>1, FS_Surjection
<1>7. \A k \in J : h[bucket[k]] = growth[k]
  BY <1>2, <1>3
<1>8. \A j, k \in J : bucket[j] = bucket[k] => j = k
  <2> HIDE DEF bucket
  <2> QED BY <1>3
<1>9. GrowthOf(B) = Total(h, B)
  <2> HIDE DEF B, GrowthOf
  <2> QED BY <1>6, GrowthIsTotal
<1>10. {b.key : b \in B} = J
  <2> HIDE DEF bucket, J, B
  <2> QED BY <1>2, <1>3
<1> HIDE DEF growth, bucket, h, B, J
<1>11. Total(h, B) = Total(growth, J)
  <2>1. Total(h, {bucket[k] : k \in J}) = Total(growth, J)
    BY <1>1, <1>5, <1>7, <1>8, TotalRenamed
  <2> QED BY <1>2, <2>1
<1>12. \A k \in J : /\ growth[k] \in Int /\ CountsOf(first, J)[k] \in Int
                    /\ CountsOf(last, J)[k] = growth[k] + CountsOf(first, J)[k]
  BY <1>4, <1>5 DEF CountsOf
<1>13. Total(CountsOf(last, J), J) = Total(growth, J) + Total(CountsOf(first, J), J)
  <2> HIDE DEF CountsOf
  <2> QED BY <1>1, <1>12, TotalSum
<1>14. Total(growth, J) \in Int
  BY <1>1, <1>5, TotalInteger
<1>15. /\ Total(CountsOf(last, J), J) = Cardinality(WithKey(last, J))
       /\ Total(CountsOf(first, J), J) = Cardinality(WithKey(first, J))
       /\ Cardinality(WithKey(first, J)) \in Nat
  BY <1>1, CountsAddUp
<1>16. GrowthOf(B) = Cardinality(WithKey(last, J)) - Cardinality(WithKey(first, J))
  BY <1>9, <1>11, <1>13, <1>14, <1>15
<1> QED BY <1>10, <1>16 DEF B, J

(* The growing buckets account for the growth of the whole.                 *)
LEMMA BucketsCover ==
  ASSUME NEW first \in Seq(EntrySet), NEW last \in Seq(EntrySet)
  PROVE  Len(last) - Len(first) <= GrowthOf(GrowthBuckets(first, last))
<1> DEFINE J == Growing(first, last)
           R == LeakKeys(last) \ J
<1>1. IsFiniteSet(J) /\ IsFiniteSet(R) /\ J \subseteq LeakKeys(last)
  <2>1. J \subseteq LeakKeys(last)
    BY DEF Growing
  <2> QED BY <2>1, SampleFinite, FS_Subset
<1>2. \A k \in R : BucketCount(last, k) \in Nat /\ BucketCount(first, k) \in Nat
  BY <1>1, CountsAddUp
<1>3. \A k \in R : BucketCount(last, k) <= BucketCount(first, k)
  BY <1>2 DEF Growing
<1>4. WithKey(last, J) \cup WithKey(last, R) = DOMAIN last /\ WithKey(last, J) \cap WithKey(last, R) = {}
  <2>1. \A i \in DOMAIN last : KeysOf(last)[i] \in LeakKeys(last)
    BY SampleFinite DEF KeysOf
  <2> QED BY <1>1, <2>1 DEF WithKey
<1>5. WithKey(first, J) \cup WithKey(first, R) \subseteq DOMAIN first /\ WithKey(first, J) \cap WithKey(first, R) = {}
  BY DEF WithKey
<1> HIDE DEF R, J
<1>6. Total(CountsOf(last, R), R) <= Total(CountsOf(first, R), R)
  <2>1. \A k \in R : CountsOf(last, R)[k] \in Int /\ CountsOf(first, R)[k] \in Int
                     /\ CountsOf(last, R)[k] <= CountsOf(first, R)[k]
    BY <1>2, <1>3 DEF CountsOf
  <2> HIDE DEF CountsOf
  <2> QED BY <1>1, <2>1, TotalOrdered
<1>7. /\ Total(CountsOf(last, R), R) = Cardinality(WithKey(last, R))
      /\ Total(CountsOf(first, R), R) = Cardinality(WithKey(first, R))
      /\ IsFiniteSet(WithKey(last, R)) /\ IsFiniteSet(WithKey(first, R))
      /\ IsFiniteSet(WithKey(last, J)) /\ IsFiniteSet(WithKey(first, J))
      /\ Cardinality(WithKey(last, R)) \in Nat /\ Cardinality(WithKey(first, R)) \in Nat
      /\ Cardinality(WithKey(last, J)) \in Nat /\ Cardinality(WithKey(first, J)) \in Nat
  BY <1>1, CountsAddUp
<1>8. Len(last) = Cardinality(WithKey(last, J)) + Cardinality(WithKey(last, R))
  <2>1. Cardinality(WithKey(last, J) \cup WithKey(last, R)) =
          Cardinality(WithKey(last, J)) + Cardinality(WithKey(last, R))
            - Cardinality(WithKey(last, J) \cap WithKey(last, R))
    BY <1>7, FS_Union
  <2>2. Cardinality(DOMAIN last) = Len(last)
    BY SampleFinite
  <2>3. /\ Cardinality(WithKey(last, J) \cup WithKey(last, R)) = Cardinality(DOMAIN last)
        /\ Cardinality(WithKey(last, J) \cap WithKey(last, R)) = 0
    BY <1>4, FS_EmptySet, Zenon
  <2> QED BY <1>7, <2>1, <2>2, <2>3
<1>9. Cardinality(WithKey(first, J)) + Cardinality(WithKey(first, R)) <= Len(first)
  <2>1. Cardinality(WithKey(first, J) \cup WithKey(first, R)) =
          Cardinality(WithKey(first, J)) + Cardinality(WithKey(first, R))
            - Cardinality(WithKey(first, J) \cap WithKey(first, R))
    BY <1>7, FS_Union
  <2>2. Cardinality(DOMAIN first) = Len(first) /\ IsFiniteSet(DOMAIN first)
    BY SampleFinite
  <2>3. Cardinality(WithKey(first, J) \cup WithKey(first, R)) <= Cardinality(DOMAIN first)
    BY <1>5, <2>2, FS_Subset
  <2>4. Cardinality(WithKey(first, J) \cap WithKey(first, R)) = 0
    BY <1>5, FS_EmptySet, Zenon
  <2> QED BY <1>7, <2>1, <2>2, <2>3, <2>4
<1>10. GrowthOf(GrowthBuckets(first, last)) = Cardinality(WithKey(last, J)) - Cardinality(WithKey(first, J))
  BY BucketsTotal DEF J
<1>11. Len(last) \in Nat /\ Len(first) \in Nat
  OBVIOUS
<1> QED BY <1>6, <1>7, <1>8, <1>9, <1>10, <1>11

(* A new target is a growing one.                                           *)
LEMMA TargetsGrow ==
  ASSUME NEW first \in Seq(EntrySet), NEW last \in Seq(EntrySet)
  PROVE  NewTargets(first, last) \subseteq Growing(first, last)
<1> SUFFICES ASSUME NEW k \in LeakKeys(last), k \notin LeakKeys(first)
             PROVE  BucketCount(last, k) - BucketCount(first, k) > 0
  BY DEF NewTargets, Growing
<1> HIDE DEF LeakKey
<1>1. {i \in DOMAIN first : LeakKey(first[i]) = k} = {}
  BY SampleFinite
<1>2. BucketCount(first, k) = 0
  BY <1>1, FS_EmptySet DEF BucketCount
<1> DEFINE those == {i \in DOMAIN last : LeakKey(last[i]) = k}
<1>3. those # {} /\ those \subseteq DOMAIN last
  BY SampleFinite
<1>4. IsFiniteSet(those)
  BY <1>3, SampleFinite, FS_Subset
<1>5. Cardinality(those) \in Nat /\ Cardinality(those) # 0
  <2> HIDE DEF those
  <2> QED BY <1>3, <1>4, FS_CardinalityType, FS_EmptySet
<1> QED BY <1>2, <1>5 DEF BucketCount

(* What check_leak reports, of samples that grew by no more than was opened. *)
LEMMA ReportTrue ==
  ASSUME NEW first \in Seq(EntrySet), NEW last \in Seq(EntrySet),
         NEW samples, Head(samples) = first, samples[Len(samples)] = last,
         leak = CheckLeak(samples), leakSamples = samples, opened \in Nat, Len(last) - Len(first) <= opened, at = "done"
  PROVE  LeakTrue
<1> DEFINE growth == Len(last) - Len(first)
           buckets == GrowthBuckets(first, last)
           connected == CountType(last, "socket") - CountType(first, "socket") > 0 /\ CountCloseWait(last) > 0
           suspected == Suspected(growth, [j \in DOMAIN samples |-> Len(samples[j])])
<1>1. /\ leak.growth = growth /\ leak.newTargets = NewTargets(first, last) /\ leak.buckets = buckets
      /\ leak.suspected = suspected
      /\ leak.verdict = IF connected THEN "connection leak"
                        ELSE IF suspected THEN "fd leak" ELSE IF growth > 0 THEN "higher" ELSE "none"
  BY DEF CheckLeak
<1>2. growth \in Int /\ growth <= GrowthOf(buckets)
  BY BucketsCover
<1>3. NewTargets(first, last) \subseteq {b.key : b \in buckets}
  BY BucketsTotal, TargetsGrow
<1>4. suspected => growth > 0
  BY DEF Suspected
<1>5. GrowthOf({}) = 0
  BY GrowthIsTotal, TotalEmpty, FS_EmptySet
<1>6. growth > 0 => buckets # {}
  <2>1. ASSUME buckets = {} PROVE GrowthOf(buckets) = 0
    BY <1>5, <2>1, Zenon
  <2> HIDE DEF buckets, GrowthOf
  <2> QED BY <1>2, <2>1
<1>7. suspected \in BOOLEAN /\ connected \in BOOLEAN
  BY DEF Suspected
<1>8. MapThenSumSet(LAMBDA b : b.growth, leak.buckets) = GrowthOf(buckets)
  BY <1>1 DEF GrowthOf
<1>9. leak # << >> => ExitStatus = IF suspected THEN 2 ELSE 0
  BY <1>1 DEF ExitStatus
<1> HIDE DEF growth, buckets, suspected, connected, GrowthOf
<1>10. leak.growth <= opened
  BY <1>1 DEF growth
<1> DEFINE rising == \A j \in 2..Len(leakSamples) : Len(leakSamples[j]) >= Len(leakSamples[j - 1])
<1>11. suspected <=> growth > 0 /\ rising
  <2> DEFINE totals == [j \in DOMAIN samples |-> Len(samples[j])]
  <2>1. Len(totals) = Len(samples) /\ \A j \in 2..Len(samples) : totals[j] = Len(samples[j]) /\ totals[j - 1] = Len(samples[j - 1])
    OBVIOUS
  <2> HIDE DEF totals
  <2>2. IsMonotonicNonDecreasing(totals) <=> rising
    BY <2>1 DEF IsMonotonicNonDecreasing
  <2> HIDE DEF rising
  <2> QED BY <2>2 DEF suspected, Suspected, totals
<1> HIDE DEF rising
<1> SUFFICES ASSUME leak # << >>
             PROVE  LET whole == MapThenSumSet(LAMBDA b : b.growth, leak.buckets)
                    IN  /\ leak.growth <= opened /\ leak.growth <= whole
                        /\ leak.newTargets \subseteq {b.key : b \in leak.buckets}
                        /\ ExitStatus = 2 <=> leak.growth > 0 /\ rising
                        /\ ExitStatus = 2 => leak.buckets # {} /\ opened > 0
                        /\ ExitStatus = 2 => leak.verdict \in {"fd leak", "connection leak"}
                        /\ leak.verdict = "fd leak" => ExitStatus = 2
                        /\ leak.verdict = "none" => ExitStatus = 0 /\ leak.growth <= 0
                        /\ leak.growth > 0 => leak.verdict # "none"
  BY DEF LeakTrue, rising
<1>12. leak.growth <= GrowthOf(buckets) /\ leak.newTargets \subseteq {b.key : b \in leak.buckets}
  BY <1>1, <1>2, <1>3
<1>13. leak.suspected => leak.buckets # {} /\ opened > 0
  <2>1. growth \in Int /\ growth <= opened /\ opened \in Nat
    BY <1>1, <1>2, <1>10
  <2>2. growth > 0 => opened > 0
    BY <2>1
  <2> QED BY <1>1, <1>4, <1>6, <2>2
<1>14. /\ leak.verdict = "fd leak" => ExitStatus = 2
       /\ leak.verdict = "none" => ExitStatus = 0 /\ leak.growth <= 0
       /\ leak.growth > 0 => leak.verdict # "none"
  <2>1. growth <= 0 <=> ~(growth > 0)
    BY <1>2
  <2>2. /\ leak.verdict = "fd leak" => suspected
        /\ leak.verdict = "none" <=> ~connected /\ ~suspected /\ ~(growth > 0)
    BY <1>1, <1>7
  <2> QED BY <1>1, <1>4, <1>9, <2>1, <2>2
<1>15. ExitStatus = 2 <=> suspected
  BY <1>9
<1>16. ExitStatus = 2 <=> leak.growth > 0 /\ rising
  BY <1>1, <1>11, <1>15
<1>17. ExitStatus = 2 => leak.buckets # {} /\ opened > 0
  BY <1>1, <1>13, <1>15
<1>18. ExitStatus = 2 => leak.verdict \in {"fd leak", "connection leak"}
  BY <1>1, <1>7, <1>15
<1> QED BY <1>8, <1>10, <1>12, <1>14, <1>16, <1>17, <1>18

-----------------------------------------------------------------------------
(* What the samples say of descriptors.                                     *)

SnapshotKnown(fd) == fd \in DOMAIN snapshots /\ (snapshots[fd].link # NoLink \/ snapshots[fd].stat # NoneFile)
EntryKnown == copied # NoneFile \/ entry.link # NoLink \/ entry.inode # 0
Entered(fd) == \E k \in DOMAIN entries : entries[k].fd = fd

(* What has been read shows that the descriptor is open, or was.            *)
Evidence(fd) ==
  \/ at \in Listed /\ SnapshotKnown(fd)
  \/ at \in Reading /\ fd = Current /\ EntryKnown
  \/ Entered(fd)

(* A descriptor that the inspector can find in the table.                   *)
Visible(fd) == fd \in DOMAIN table /\ fd < LimitValue /\ Readable

Watched == {fd \in Fd : Evidence(fd) \/ Visible(fd)}

(* It is open, and this sample will not show it.                            *)
Passed(fd) ==
  /\ at \in Listed
  /\ fd \notin fds \/ (at \in {"scan"} \cup Reading /\ fd \in scanned /\ ~Entered(fd))
PassedOver == {fd \in Fd : Visible(fd) /\ Passed(fd)}

FdsOf(sample) == {sample[k].fd : k \in DOMAIN sample}
Distinct(sample) == \A j, k \in DOMAIN sample : sample[j].fd = sample[k].fd => j = k

WatchInv ==
  /\ at \in Reading => entry.fdinfo = 0
  /\ \A fd : Evidence(fd) => fd \in Fd
  /\ leakSamples = << >> => Cardinality(PassedOver) <= opened
  /\ leakSamples # << >> => Cardinality(Watched \ FdsOf(leakSamples[1])) <= opened
  /\ \A j \in DOMAIN leakSamples : Distinct(leakSamples[j])

ReportInv ==
  /\ at # "done" => leak = << >>
  /\ at = "done" /\ leak # << >> =>
       leakSamples # << >> /\ leakSamples[Len(leakSamples)] = entries /\ leak = CheckLeak(leakSamples)

LEMMA FewerFds == ASSUME NEW S \in SUBSET Fd, NEW T \in SUBSET S PROVE Cardinality(T) <= Cardinality(S)
BY FdInspectorAssumption, FS_Subset

LEMMA FdsCounted ==
  ASSUME NEW S \in SUBSET Fd, NEW T \in SUBSET Fd, NEW fd \in Fd, T \subseteq S \cup {fd}
  PROVE  /\ IsFiniteSet(S) /\ Cardinality(S) \in Nat /\ Cardinality(T) \in Nat
         /\ Cardinality(T) <= Cardinality(S) + 1
<1>1. IsFiniteSet(S) /\ IsFiniteSet(T) /\ IsFiniteSet(S \cup {fd})
  <2>1. IsFiniteSet(Fd) /\ S \cup {fd} \subseteq Fd
    BY FdInspectorAssumption
  <2> QED BY <2>1, FS_Subset
<1>2. Cardinality(T) <= Cardinality(S \cup {fd})
  BY <1>1, FS_Subset
<1>3. Cardinality(S \cup {fd}) <= Cardinality(S) + 1 /\ Cardinality(S) \in Nat
  BY <1>1, FS_AddElement, FS_CardinalityType
<1> QED BY <1>1, <1>2, <1>3, FS_CardinalityType

(* What a step of the inspector makes evident was so, or is to be seen.     *)
LEMMA EvidenceComes ==
  ASSUME BaseInv, WatchInv, InspectorNext \/ UNCHANGED inspectorVars, NEW fd, Evidence(fd)', ~MoveProcess
  PROVE  Evidence(fd) \/ Visible(fd)
<1>0. /\ UNCHANGED <<table, gone, cli, may>>
      /\ at \in Listed => limit = LimitValue /\ \A d \in fds : d < LimitValue
      /\ DOMAIN snapshots \subseteq fds /\ entry \in EntrySet
      /\ at \in Reading => Current \in fds /\ entry.fdinfo = 0
  <2>1. UNCHANGED <<table, gone, cli, may>>
    BY ProcessStill DEF process
  <2>2. at \in Reading => Current \in fds
    BY CurrentLeft DEF BaseInv, PhaseInv, DataInv
  <2>3. at \in Listed => at \notin {"parse", "begin", "limit", "error"}
    BY DEF Listed, Reading
  <2> QED BY <2>1, <2>2, <2>3 DEF BaseInv, PhaseInv, DataInv, WatchInv
<1>1. CASE UNCHANGED inspectorVars
  BY <1>1 DEF inspectorVars, reading, Evidence, SnapshotKnown, EntryKnown, Entered, Current, Left
<1>2. CASE PidfdOpen
  BY <1>2 DEF PidfdOpen, Evidence, Entered, Listed, Reading
<1>3. CASE \/ ParseInspectArgs \/ ScanLimitForPid \/ EnterNetns \/ Dump \/ LeaveNetns \/ ReadMountinfo
           \/ Inspected \/ WakeUp
  BY <1>3 DEF ParseInspectArgs, ScanLimitForPid, EnterNetns, Dump, LeaveNetns, ReadMountinfo, Inspected, WakeUp,
       Stays, reading, Evidence, Entered, Listed, Reading
<1>4. CASE ListTargetFds
  <2>1. at = "list" /\ at' \in {"error", "links", "scan"} /\ UNCHANGED <<snapshots, entries>>
    BY <1>4 DEF ListTargetFds, Stays
  <2>2. snapshots' = << >>
    BY <2>1 DEF BaseInv, PhaseInv, Preparing
  <2> QED BY <2>1, <2>2 DEF Evidence, Entered, SnapshotKnown, Reading
<1>5. CASE ReadLinks
  <2>1. /\ at = "links" /\ at' = "statx" /\ UNCHANGED entries
        /\ snapshots' = [d \in fds |-> [link |-> TargetFdLink(d), stat |-> NoneFile]]
    BY <1>5 DEF ReadLinks, Stays
  <2>2. ASSUME SnapshotKnown(fd)' PROVE Visible(fd)
    <3>1. fd \in fds /\ TargetFdLink(fd) # NoLink
      BY <2>1, <2>2 DEF SnapshotKnown
    <3> QED BY <1>0, <2>1, <3>1 DEF TargetFdLink, Visible, Readable, Listed
  <2> QED BY <2>1, <2>2 DEF Evidence, Entered, Reading
<1>6. CASE StatxBatch
  <2>1. /\ at = "statx" /\ at' \in {"statx", "scan"} /\ UNCHANGED entries
        /\ \/ snapshots' = << >>
           \/ \E batch : snapshots' = [d \in fds |->
                 IF d \in batch /\ d \in DOMAIN table /\ "proc_fd" \in may
                   THEN [snapshots[d] EXCEPT !.stat = table[d]] ELSE snapshots[d]]
    BY <1>6 DEF StatxBatch, Stays
  <2>2. ASSUME SnapshotKnown(fd)' PROVE SnapshotKnown(fd) \/ Visible(fd)
    <3>1. fd \in fds /\ DOMAIN snapshots = fds
      BY <2>1, <2>2 DEF SnapshotKnown, BaseInv, PhaseInv
    <3>2. snapshots'[fd] = snapshots[fd] \/ (fd \in DOMAIN table /\ "proc_fd" \in may)
      BY <2>1, <2>2, <3>1 DEF SnapshotKnown
    <3> QED BY <1>0, <2>1, <2>2, <3>1, <3>2 DEF SnapshotKnown, Visible, Readable, Listed
  <2> QED BY <2>1, <2>2 DEF Evidence, Entered, Reading, Listed
<1>7. CASE StatxDone
  <2>1. at = "statx" /\ at' = "scan" /\ UNCHANGED <<snapshots, entries>>
    BY <1>7 DEF StatxDone, Stays
  <2> QED BY <2>1 DEF Evidence, Entered, SnapshotKnown, Reading, Listed
<1>8. CASE GetFd \/ InspectCopiedFd \/ ProcFdLink \/ ProcFdStat
  <2>1. /\ UNCHANGED <<fds, snapshots, entries>>
        /\ at \in {"scan", "copied", "proc", "proc_stat"} /\ at' \in {"scan", "error"} \cup Reading
        /\ at' \in Reading => UNCHANGED scanned
        /\ at' \in Reading => Left # {}
    <3>1. at \in Reading => Left # {}
      BY DEF BaseInv, PhaseInv
    <3> QED BY <1>8, <3>1 DEF GetFd, InspectCopiedFd, ProcFdLink, ProcFdStat, Skip, Stays, Reading
  <2>2. at' \in Reading => Current' = Current /\ Current \in fds
    BY <2>1, CurrentLeft DEF Current, Left, BaseInv, DataInv
  <2>3. \A d \in fds : d < LimitValue
    BY <1>0, <2>1 DEF Listed, Reading
  <2>4. /\ Snapshot.link # NoLink => SnapshotKnown(Current)
        /\ Snapshot.stat # NoneFile => SnapshotKnown(Current)
    BY DEF Snapshot, SnapshotKnown
  <2>5. ASSUME at' \in Reading, fd = Current, EntryKnown' PROVE Evidence(fd) \/ Visible(fd)
    <3>0. fd < LimitValue
      BY <2>2, <2>3, <2>5
    <3>1. CASE GetFd
      <4>1. /\ entry' = EmptyEntry(Current) /\ at = "scan"
            /\ \/ UNCHANGED copied
               \/ Current \in DOMAIN table /\ "getfd" \in may
        BY <3>1 DEF GetFd, Skip
      <4>2. copied = NoneFile
        BY <4>1 DEF BaseInv, PhaseInv
      <4>3. entry'.link = NoLink /\ entry'.inode = 0
        BY <4>1 DEF EmptyEntry
      <4> QED BY <2>5, <3>0, <4>1, <4>2, <4>3 DEF EntryKnown, Visible, Readable
    <3>2. CASE InspectCopiedFd
      <4>1. at = "copied"
        BY <3>2 DEF InspectCopiedFd
      <4>2. copied # NoneFile
        BY <4>1 DEF BaseInv, PhaseInv
      <4> QED BY <2>5, <4>1, <4>2 DEF Evidence, EntryKnown, Reading
    <3>3. CASE ProcFdLink
      <4> DEFINE link == IF Snapshot.link # NoLink THEN Snapshot.link ELSE TargetFdLink(Current)
      <4>1. at = "proc" /\ entry' = WithLink(entry, link) /\ copied' = NoneFile
        BY <3>3 DEF ProcFdLink
      <4>2. entry = EmptyEntry(Current) /\ entry.inode = 0
        BY <4>1 DEF BaseInv, PhaseInv, EmptyEntry
      <4>3. link \in LinkSet
        BY SnapshotTyped, LinkRead
      <4>4. link # NoLink => SnapshotKnown(Current) \/ (Current \in DOMAIN table /\ "proc_fd" \in may)
        BY <2>4 DEF TargetFdLink
      <4> HIDE DEF link
      <4>5. entry'.link = link /\ entry'.inode = 0
        BY <1>0, <4>1, <4>2, <4>3, LinkTyped
      <4>6. link # NoLink
        BY <2>5, <4>1, <4>5 DEF EntryKnown
      <4> QED BY <2>5, <3>0, <4>1, <4>4, <4>6 DEF Evidence, Visible, Readable, Listed, Reading
    <3>4. CASE ProcFdStat
      <4>1. at = "proc_stat" /\ entry' = Statted /\ copied' = copied
        BY <3>4 DEF ProcFdStat, Stays, Statted, TypedStat, StatRead
      <4>2. CASE EntryKnown
        BY <2>5, <4>1, <4>2 DEF Evidence, Reading
      <4>3. CASE ~EntryKnown
        <5>1. copied = NoneFile /\ entry.link = NoLink /\ entry.inode = 0
          BY <4>3 DEF EntryKnown
        <5>2. Statted.link = NoLink /\ (StatRead = NoneFile => Statted.inode = BracketInode(NoLink))
          BY <5>1, StattedFacts
        <5>3. BracketInode(NoLink) = 0
          BY DEF BracketInode, NoLink, NoText
        <5>4. StatRead # NoneFile
          BY <2>5, <4>1, <5>1, <5>2, <5>3 DEF EntryKnown
        <5>5. SnapshotKnown(Current) \/ (Current \in DOMAIN table /\ "proc_fd" \in may)
          BY <2>4, <5>4 DEF StatRead
        <5> QED BY <2>5, <3>0, <4>1, <5>5 DEF Evidence, Visible, Readable, Listed, Reading
      <4> QED BY <4>2, <4>3
    <3> QED BY <1>8, <3>1, <3>2, <3>3, <3>4
  <2>6. CASE SnapshotKnown(fd)' \/ Entered(fd)'
    BY <2>1, <2>6 DEF Evidence, SnapshotKnown, Entered, Listed, Reading
  <2>7. CASE at' \in Reading /\ fd = Current' /\ EntryKnown'
    BY <2>2, <2>5, <2>7
  <2> QED BY <2>6, <2>7 DEF Evidence
<1>9. CASE ReadFdinfo
  <2>1. /\ at = "fdinfo" /\ at' = "scan"
        /\ entries' = IF Known THEN Append(entries, Whole) ELSE entries
        /\ UNCHANGED snapshots
    BY <1>9, FdinfoReads
  <2>2. entries \in Seq(EntrySet) /\ Whole \in EntrySet /\ Whole.fd = Current
    BY <2>1, WholeFacts DEF BaseInv, DataInv
  <2>3. Known => EntryKnown \/ Visible(Current)
    <3>1. /\ Whole.link = entry.link /\ Whole.fdinfo = Informed.fdinfo
          /\ Whole.inode = IF copied = NoneFile /\ entry.inode = 0 THEN Informed.fdinfo ELSE entry.inode
      BY <2>1, WholeFacts
    <3>2. ~(Current \in DOMAIN table /\ "proc_fd" \in may) => Informed.fdinfo = 0
      BY <1>0, <2>1, InformedFacts DEF Reading
    <3>3. Current < LimitValue
      BY <1>0, <2>1 DEF Reading, Listed
    <3> QED BY <3>1, <3>2, <3>3 DEF Known, EntryKnown, Visible, Readable
  <2>4. Entered(fd)' => Entered(fd) \/ (Known /\ fd = Current)
    <3> HIDE DEF Known, Whole
    <3>1. CASE Known
      <4>1. entries' = Append(entries, Whole)
        BY <2>1, <3>1
      <4>2. /\ \A k \in DOMAIN entries : entries'[k] = entries[k]
            /\ entries'[Len(entries) + 1] = Whole
            /\ \A k \in DOMAIN entries' : k = Len(entries) + 1 \/ k \in DOMAIN entries
        BY <2>2, <4>1, Appended
      <4> QED BY <2>2, <3>1, <4>2 DEF Entered
    <3>2. CASE ~Known
      BY <2>1, <3>2 DEF Entered
    <3> QED BY <3>1, <3>2
  <2> QED BY <2>1, <2>3, <2>4 DEF Evidence, SnapshotKnown, Listed, Reading
<1> QED BY <1>1, <1>2, <1>3, <1>4, <1>5, <1>6, <1>7, <1>8, <1>9 DEF InspectorNext

LEMMA EntryFresh ==
  ASSUME BaseInv, WatchInv, InspectorNext \/ UNCHANGED inspectorVars
  PROVE  at' \in Reading => entry'.fdinfo = 0
<1>1. CASE \/ MoveProcess \/ ParseInspectArgs \/ PidfdOpen \/ ScanLimitForPid \/ EnterNetns \/ Dump \/ LeaveNetns
           \/ ReadMountinfo \/ ListTargetFds \/ ReadLinks \/ StatxBatch \/ StatxDone \/ Inspected \/ WakeUp
           \/ UNCHANGED inspectorVars
  <2>1. at' \notin Reading \/ UNCHANGED <<at, entry>>
    BY <1>1 DEF MoveProcess, ParseInspectArgs, PidfdOpen, ScanLimitForPid, EnterNetns, Dump, LeaveNetns,
         ReadMountinfo, ListTargetFds, ReadLinks, StatxBatch, StatxDone, Inspected, WakeUp, Stays, reading,
         inspectorVars, Reading
  <2> QED BY <2>1 DEF WatchInv
<1>2. CASE GetFd
  BY <1>2 DEF GetFd, EmptyEntry
<1>3. CASE InspectCopiedFd
  BY <1>3, CopySeen DEF InspectCopiedFd
<1>4. CASE ProcFdLink
  <2> DEFINE link == IF Snapshot.link # NoLink THEN Snapshot.link ELSE TargetFdLink(Current)
  <2>1. entry' = WithLink(entry, link) /\ entry.fdinfo = 0 /\ entry \in EntrySet
    BY <1>4 DEF ProcFdLink, WatchInv, Reading, BaseInv, DataInv
  <2>2. link \in LinkSet
    BY SnapshotTyped, LinkRead
  <2> HIDE DEF link
  <2> QED BY <2>1, <2>2, LinkTyped
<1>5. CASE ProcFdStat
  <2>1. entry' = Statted /\ entry.fdinfo = 0
    BY <1>5 DEF ProcFdStat, Statted, TypedStat, StatRead, WatchInv, Reading
  <2> QED BY <2>1, StattedFacts
<1>6. CASE ReadFdinfo
  BY <1>6, FdinfoReads DEF Reading
<1> QED BY <1>1, <1>2, <1>3, <1>4, <1>5, <1>6 DEF InspectorNext

(* A descriptor that a step passes over was passed over, or is not open.    *)
LEMMA PassedComes ==
  ASSUME BaseInv, WatchInv, InspectorNext \/ UNCHANGED inspectorVars, ~MoveProcess,
         NEW fd \in Fd, Visible(fd), Passed(fd)'
  PROVE  Passed(fd)
<1>0. fd \in Nat /\ fd \in DOMAIN table /\ fd < LimitValue /\ Readable
  BY FdInspectorAssumption DEF Visible
<1>1. CASE UNCHANGED inspectorVars
  BY <1>1 DEF inspectorVars, reading, Passed, Entered
<1>2. CASE \/ PidfdOpen \/ ParseInspectArgs \/ ScanLimitForPid \/ EnterNetns \/ Dump \/ LeaveNetns \/ ReadMountinfo
           \/ Inspected \/ WakeUp
  BY <1>2 DEF PidfdOpen, ParseInspectArgs, ScanLimitForPid, EnterNetns, Dump, LeaveNetns, ReadMountinfo, Inspected,
       WakeUp, Stays, Passed, Listed, Reading
<1>3. CASE ListTargetFds
  <2>1. /\ at = "list" /\ UNCHANGED scanned
        /\ fds' = {d \in DOMAIN table : d < limit} \/ fds' = 0..(limit - 1)
    BY <1>3 DEF ListTargetFds, Stays
  <2>2. limit = LimitValue /\ limit \in Int /\ scanned = {}
    BY <2>1, FdInspectorAssumption DEF BaseInv, PhaseInv, Preparing, ProcessInv, LimitValue
  <2>3. fd \in fds'
    BY <1>0, <2>1, <2>2
  <2> QED BY <2>1, <2>2, <2>3 DEF Passed
<1>4. CASE ReadLinks \/ StatxBatch \/ StatxDone
  <2>1. at \in {"links", "statx"} /\ UNCHANGED fds /\ at' \in {"statx", "scan"} /\ (at' = "scan" => scanned' = {})
    BY <1>4 DEF ReadLinks, StatxBatch, StatxDone, Stays
  <2> QED BY <2>1 DEF Passed, Listed, Reading
<1>5. CASE GetFd \/ InspectCopiedFd \/ ProcFdLink \/ ProcFdStat
  <2>1. /\ UNCHANGED <<fds, entries>> /\ at \in {"scan"} \cup Reading
        /\ UNCHANGED scanned \/ (scanned' = scanned \cup {Current} /\ Current \notin DOMAIN table)
    BY <1>5 DEF GetFd, InspectCopiedFd, ProcFdLink, ProcFdStat, Skip, Stays, Reading
  <2>2. fd \in scanned' => fd \in scanned
    BY <1>0, <2>1
  <2> QED BY <2>1, <2>2 DEF Passed, Entered, Listed
<1>6. CASE ReadFdinfo
  <2>1. /\ at = "fdinfo" /\ at' = "scan" /\ scanned' = scanned \cup {Current}
        /\ entries' = IF Known THEN Append(entries, Whole) ELSE entries
        /\ UNCHANGED fds
    BY <1>6, FdinfoReads
  <2>2. entries \in Seq(EntrySet) /\ Whole \in EntrySet /\ Whole.fd = Current
    BY <2>1, WholeFacts DEF BaseInv, DataInv
  <2>3. fd = Current => Known
    <3> SUFFICES ASSUME fd = Current PROVE Known
      OBVIOUS
    <3>1. CASE "proc_fd" \in may
      <4>1. Informed.fdinfo = table[Current].inode /\ table[Current] \in AllFiles
        BY <1>0, <3>1, InformedFacts
      <4>2. Whole.fdinfo = Informed.fdinfo
        BY <2>1, WholeFacts
      <4> QED BY <4>1, <4>2, FileFacts DEF Known
    <3>2. CASE "proc_fd" \notin may
      <4>1. "getfd" \in may /\ pidfd
        BY <1>0, <2>1, <3>2 DEF Readable, BaseInv, PhaseInv, Listed, Reading
      <4>2. copied # NoneFile
        BY <2>1, <4>1 DEF BaseInv, PhaseInv
      <4> QED BY <4>2 DEF Known
    <3> QED BY <3>1, <3>2
  <2>4. (Entered(fd) => Entered(fd)') /\ (fd = Current => Entered(fd)')
    <3> HIDE DEF Known, Whole
    <3>1. CASE Known
      <4>1. entries' = Append(entries, Whole)
        BY <2>1, <3>1
      <4>2. /\ \A k \in DOMAIN entries : k \in DOMAIN entries' /\ entries'[k] = entries[k]
            /\ entries'[Len(entries) + 1] = Whole /\ Len(entries) + 1 \in DOMAIN entries'
        BY <2>2, <4>1, Appended
      <4> QED BY <2>2, <4>2 DEF Entered
    <3>2. CASE ~Known
      BY <2>1, <2>3, <3>2 DEF Entered
    <3> QED BY <3>1, <3>2
  <2> QED BY <2>1, <2>4 DEF Passed, Listed, Reading
<1> QED BY <1>1, <1>2, <1>3, <1>4, <1>5, <1>6 DEF InspectorNext

(* What the process does makes one more descriptor visible for each file    *)
(* that it opens.                                                           *)
LEMMA MoveShows ==
  ASSUME BaseInv, MoveProcess
  PROVE  /\ UNCHANGED <<at, cli, may, reading, leakSamples, leak>>
         /\ \A d : (Evidence(d)' <=> Evidence(d)) /\ (Passed(d)' <=> Passed(d))
         /\ \/ opened' = opened /\ \A d : Visible(d)' => Visible(d)
            \/ opened' = opened + 1 /\ \E fd \in Fd : \A d : Visible(d)' => Visible(d) \/ d = fd
<1>1. UNCHANGED <<at, cli, may, reading, leakSamples, leak>>
  BY DEF MoveProcess
<1>2. ASSUME NEW d PROVE (Evidence(d)' <=> Evidence(d)) /\ (Passed(d)' <=> Passed(d))
  <2>1. UNCHANGED <<at, fds, scanned, snapshots, copied, entry, entries>>
    BY <1>1 DEF reading
  <2> QED BY <2>1 DEF Evidence, Passed, SnapshotKnown, EntryKnown, Entered, Current, Left
<1>3. \A d : Visible(d)' <=> d \in DOMAIN table' /\ d < LimitValue /\ Readable
  BY <1>1 DEF Visible, LimitValue, Readable
<1>4. ASSUME NEW fd \in Fd, NEW file \in Files, OpenFile(fd, file)
      PROVE  opened' = opened + 1 /\ \A d : Visible(d)' => Visible(d) \/ d = fd
  BY <1>3, <1>4 DEF OpenFile, Visible
<1>5. ASSUME NEW fd \in DOMAIN table, CloseFile(fd) \/ PeerCloses(table[fd])
      PROVE  opened' = opened /\ \A d : Visible(d)' => Visible(d)
  BY <1>3, <1>5 DEF CloseFile, PeerCloses, Visible
<1>6. ASSUME ProcessEnds PROVE opened' = opened /\ \A d : Visible(d)' => Visible(d)
  BY <1>3, <1>6 DEF ProcessEnds, Visible
<1> QED BY <1>1, <1>2, <1>4, <1>5, <1>6 DEF MoveProcess

(* The entries of a sample and its descriptors are as many.                 *)
LEMMA FdsAreEntries ==
  ASSUME NEW s \in Seq(EntrySet), Distinct(s)
  PROVE  IsFiniteSet(FdsOf(s)) /\ Cardinality(FdsOf(s)) = Len(s)
<1> DEFINE fdOf == [k \in DOMAIN s |-> s[k].fd]
<1>1. IsFiniteSet(DOMAIN s) /\ Cardinality(DOMAIN s) = Len(s)
  BY SampleFinite
<1>2. fdOf \in Surjection(DOMAIN s, FdsOf(s))
  BY DEF Surjection, FdsOf
<1>3. fdOf \in Injection(DOMAIN s, FdsOf(s))
  BY <1>2 DEF Injection, IsInjective, Distinct, Surjection
<1> HIDE DEF fdOf
<1> QED BY <1>1, <1>2, <1>3, FS_Surjection

LEMMA MoveWatched == ASSUME BaseInv, WatchInv, MoveProcess PROVE WatchInv'
<1>1. /\ UNCHANGED <<at, entry, leakSamples>> /\ opened \in Nat
      /\ \A d : (Evidence(d)' <=> Evidence(d)) /\ (Passed(d)' <=> Passed(d))
  BY MoveShows DEF BaseInv, ProcessInv, reading
<1> DEFINE W == Watched \ FdsOf(leakSamples[1])
<1>2. /\ PassedOver \in SUBSET Fd /\ PassedOver' \in SUBSET Fd /\ W \in SUBSET Fd /\ W' \in SUBSET Fd
  BY DEF PassedOver, Watched
<1>3. Cardinality(PassedOver') <= Cardinality(PassedOver) + opened' - opened
      /\ Cardinality(W') <= Cardinality(W) + opened' - opened
      /\ Cardinality(PassedOver) \in Nat /\ Cardinality(W) \in Nat
      /\ Cardinality(PassedOver') \in Nat /\ Cardinality(W') \in Nat
      /\ opened' \in Nat
  <2>0. \A S \in SUBSET Fd : Cardinality(S) \in Nat
    BY FdInspectorAssumption, FS_Subset, FS_CardinalityType
  <2>1. CASE opened' = opened /\ \A d : Visible(d)' => Visible(d)
    <3>1. PassedOver' \subseteq PassedOver /\ W' \subseteq W
      BY <1>1, <2>1 DEF PassedOver, Watched
    <3> HIDE DEF W
    <3>2. Cardinality(PassedOver') <= Cardinality(PassedOver) /\ Cardinality(W') <= Cardinality(W)
      BY <1>2, <3>1, FewerFds
    <3> QED BY <1>1, <1>2, <2>0, <2>1, <3>2
  <2>2. ASSUME opened' = opened + 1, NEW fd \in Fd, \A d : Visible(d)' => Visible(d) \/ d = fd
        PROVE  Cardinality(PassedOver') <= Cardinality(PassedOver) + opened' - opened
               /\ Cardinality(W') <= Cardinality(W) + opened' - opened
               /\ Cardinality(PassedOver) \in Nat /\ Cardinality(W) \in Nat
               /\ Cardinality(PassedOver') \in Nat /\ Cardinality(W') \in Nat
               /\ opened' \in Nat
    <3>1. PassedOver' \subseteq PassedOver \cup {fd} /\ W' \subseteq W \cup {fd}
      BY <1>1, <2>2 DEF PassedOver, Watched
    <3> HIDE DEF W
    <3>2. Cardinality(PassedOver') <= Cardinality(PassedOver) + 1 /\ Cardinality(W') <= Cardinality(W) + 1
      BY <1>2, <3>1, FdsCounted
    <3> QED BY <1>1, <1>2, <2>0, <2>2, <3>2
  <2> QED BY MoveShows, <2>1, <2>2
<1>4. leakSamples = << >> => Cardinality(PassedOver) <= opened
  BY DEF WatchInv
<1>5. leakSamples # << >> => Cardinality(W) <= opened
  BY DEF WatchInv
<1>6. leakSamples' = << >> => Cardinality(PassedOver') <= opened'
  <2> HIDE DEF W
  <2> QED BY <1>1, <1>3, <1>4
<1>7. leakSamples' # << >> => Cardinality(W') <= opened'
  <2> HIDE DEF W
  <2> QED BY <1>1, <1>3, <1>5
<1>8. \A j \in DOMAIN leakSamples' : Distinct(leakSamples'[j])
  BY <1>1 DEF WatchInv
<1>9. (at' \in Reading => entry'.fdinfo = 0) /\ \A fd : Evidence(fd)' => fd \in Fd
  BY <1>1 DEF WatchInv
<1> QED BY <1>6, <1>7, <1>8, <1>9 DEF WatchInv, Distinct

LEMMA WatchKeeps ==
  ASSUME BaseInv, WatchInv, InspectorNext \/ UNCHANGED inspectorVars, ~MoveProcess
  PROVE  WatchInv'
<1>1. at' \in Reading => entry'.fdinfo = 0
  BY EntryFresh
<1>2. UNCHANGED <<table, opened, cli, may>>
  BY ProcessStill DEF process
<1>3. \A fd : Visible(fd)' <=> Visible(fd)
  BY <1>2 DEF Visible, LimitValue, Readable
<1>4. \A fd : Evidence(fd)' => Evidence(fd) \/ Visible(fd)
  BY EvidenceComes
<1>5. ASSUME NEW fd, Evidence(fd)' PROVE fd \in Fd
  <2>1. Evidence(fd) \/ Visible(fd)
    BY <1>4, <1>5
  <2> QED BY <2>1 DEF WatchInv, Visible, BaseInv, ProcessInv
<1>6. Watched' \subseteq Watched
  BY <1>3, <1>4 DEF Watched
<1>7. PassedOver' \subseteq PassedOver
  BY <1>3, PassedComes DEF PassedOver
<1>8. Watched \in SUBSET Fd /\ PassedOver \in SUBSET Fd
  BY DEF Watched, PassedOver
<1>9. CASE UNCHANGED leakSamples
  <2> DEFINE F == FdsOf(leakSamples[1])
  <2>1. FdsOf(leakSamples'[1]) = F
    BY <1>9
  <2>2. Watched \ F \in SUBSET Fd /\ Watched' \ F \in SUBSET (Watched \ F) /\ PassedOver' \in SUBSET PassedOver
    BY <1>6, <1>7, <1>8
  <2>3. Cardinality(PassedOver') <= Cardinality(PassedOver)
    BY <1>8, <2>2, FewerFds
  <2>4. Cardinality(Watched' \ F) <= Cardinality(Watched \ F)
    <3> HIDE DEF F
    <3> QED BY <2>2, FewerFds
  <2>5. /\ Cardinality(PassedOver') \in Nat /\ Cardinality(PassedOver) \in Nat
        /\ Cardinality(Watched' \ F) \in Nat /\ Cardinality(Watched \ F) \in Nat
        /\ opened \in Nat
    <3>1. \A S \in SUBSET Fd : Cardinality(S) \in Nat
      BY FdInspectorAssumption, FS_Subset, FS_CardinalityType
    <3> HIDE DEF F
    <3>2. /\ PassedOver' \in SUBSET Fd /\ Watched' \ F \in SUBSET Fd
      BY <1>8, <2>2
    <3> QED BY <1>8, <2>2, <3>1, <3>2 DEF BaseInv, ProcessInv
  <2>6. leakSamples' = << >> => Cardinality(PassedOver') <= opened'
    BY <1>2, <1>9, <2>3, <2>5 DEF WatchInv
  <2>7. leakSamples # << >> => Cardinality(Watched \ F) <= opened
    BY DEF WatchInv
  <2>8. leakSamples' # << >> => Cardinality(Watched' \ FdsOf(leakSamples'[1])) <= opened'
    <3> HIDE DEF F
    <3> QED BY <1>2, <1>9, <2>1, <2>4, <2>5, <2>7
  <2>9. \A j \in DOMAIN leakSamples' : Distinct(leakSamples'[j])
    BY <1>9 DEF WatchInv
  <2> QED BY <1>1, <1>5, <2>6, <2>8, <2>9 DEF WatchInv, FdsOf, Distinct
<1>10. CASE leakSamples' # leakSamples
  <2>1. Inspected /\ leakSamples' = Append(leakSamples, entries) /\ UNCHANGED <<entries, fds, scanned>>
    <3>1. Inspected
      BY <1>10 DEF InspectorNext, inspectorVars, ParseInspectArgs, PidfdOpen, ScanLimitForPid, EnterNetns, Dump,
           LeaveNetns, ReadMountinfo, ListTargetFds, ReadLinks, StatxBatch, StatxDone, GetFd, InspectCopiedFd,
           ProcFdLink, ProcFdStat, ReadFdinfo, WakeUp, Stays
    <3> QED BY <1>10, <3>1 DEF Inspected, reading
  <2>2. leakSamples \in Seq(Seq(EntrySet)) /\ entries \in Seq(EntrySet) /\ Distinct(entries)
    BY DEF BaseInv, DataInv, OnceInv, Distinct
  <2>3. /\ leakSamples'[Len(leakSamples) + 1] = entries /\ Len(leakSamples) \in Nat
        /\ \A j \in DOMAIN leakSamples : leakSamples'[j] = leakSamples[j]
        /\ \A j \in DOMAIN leakSamples' : j = Len(leakSamples) + 1 \/ j \in DOMAIN leakSamples
        /\ leakSamples' # << >>
    <3>1. /\ leakSamples' \in Seq(Seq(EntrySet)) /\ Len(leakSamples') = Len(leakSamples) + 1
          /\ leakSamples'[Len(leakSamples) + 1] = entries /\ Len(leakSamples) \in Nat
          /\ \A j \in DOMAIN leakSamples : leakSamples'[j] = leakSamples[j]
          /\ \A j \in DOMAIN leakSamples' : j = Len(leakSamples) + 1 \/ j \in DOMAIN leakSamples
      BY <2>1, <2>2, Appended
    <3>2. leakSamples' # << >>
      BY <3>1
    <3> QED BY <3>1, <3>2
  <2>4. \A j \in DOMAIN leakSamples' : Distinct(leakSamples'[j])
    <3> HIDE DEF Distinct
    <3> QED BY <2>2, <2>3 DEF WatchInv
  <2>5. opened \in Nat /\ \A S \in SUBSET Fd : Cardinality(S) \in Nat
    BY FdInspectorAssumption, FS_Subset, FS_CardinalityType DEF BaseInv, ProcessInv
  <2>6. Cardinality(Watched' \ FdsOf(leakSamples'[1])) <= opened
    <3>1. CASE leakSamples = << >>
      <4>1. leakSamples'[1] = entries
        BY <2>3, <3>1
      <4>2. Watched' \ FdsOf(entries) \subseteq PassedOver
        <5> SUFFICES ASSUME NEW fd \in Fd, Evidence(fd)' \/ Visible(fd)', fd \notin FdsOf(entries)
                     PROVE  fd \in PassedOver
          BY DEF Watched
        <5>1. ~Entered(fd)
          BY DEF Entered, FdsOf
        <5>2. at = "scan" /\ Left = {} /\ at' \notin Listed /\ UNCHANGED entries
          BY <2>1 DEF Inspected, reading, Listed, Reading
        <5>3. Visible(fd)
          BY <1>3, <5>1, <5>2 DEF Evidence, Entered, Listed
        <5> QED BY <5>1, <5>2, <5>3 DEF PassedOver, Passed, Left, Listed
      <4>3. Cardinality(Watched' \ FdsOf(entries)) <= Cardinality(PassedOver) /\ Watched' \ FdsOf(entries) \in SUBSET Fd
        BY <1>8, <4>2, FewerFds
      <4>4. Cardinality(PassedOver) <= opened
        BY <3>1 DEF WatchInv
      <4> QED BY <1>8, <2>5, <4>1, <4>3, <4>4
    <3>2. CASE leakSamples # << >>
      <4>1. leakSamples'[1] = leakSamples[1]
        BY <2>2, <2>3, <3>2
      <4> DEFINE F == FdsOf(leakSamples[1])
      <4>2. Cardinality(Watched \ F) <= opened
        BY <3>2 DEF WatchInv
      <4> HIDE DEF F
      <4>3. Watched \ F \in SUBSET Fd /\ Watched' \ F \in SUBSET (Watched \ F)
        BY <1>6, <1>8
      <4>4. Cardinality(Watched' \ F) <= Cardinality(Watched \ F) /\ Watched' \ F \in SUBSET Fd
        BY <4>3, FewerFds
      <4>5. Cardinality(Watched' \ F) <= opened
        BY <2>5, <4>2, <4>3, <4>4
      <4> QED BY <4>1, <4>5 DEF F
    <3> QED BY <3>1, <3>2
  <2> QED BY <1>1, <1>2, <1>5, <2>3, <2>4, <2>6 DEF WatchInv, FdsOf, Distinct
<1> QED BY <1>9, <1>10

LEMMA ReportKeeps ==
  ASSUME BaseInv, ReportInv, InspectorNext \/ UNCHANGED inspectorVars
  PROVE  ReportInv'
<1>1. CASE Inspected
  <2>1. /\ at = "scan" /\ leak = << >> /\ UNCHANGED entries
        /\ \/ UNCHANGED leak
           \/ leakSamples' = Append(leakSamples, entries) /\ at' = "done" /\ leak' = CheckLeak(leakSamples')
    BY <1>1 DEF Inspected, ReportInv, reading
  <2>2. leakSamples' = Append(leakSamples, entries) =>
          leakSamples' # << >> /\ leakSamples'[Len(leakSamples')] = entries
    <3>1. leakSamples \in Seq(Seq(EntrySet)) /\ entries \in Seq(EntrySet)
      BY DEF BaseInv, DataInv
    <3> QED BY <3>1
  <2> QED BY <2>1, <2>2 DEF ReportInv
<1>2. CASE UNCHANGED inspectorVars
  BY <1>2 DEF inspectorVars, reading, ReportInv
<1>3. CASE MoveProcess
  BY <1>3 DEF MoveProcess, reading, ReportInv
<1>4. CASE \/ ParseInspectArgs \/ PidfdOpen \/ ScanLimitForPid \/ EnterNetns \/ Dump \/ LeaveNetns \/ ReadMountinfo
           \/ ListTargetFds \/ ReadLinks \/ StatxBatch \/ StatxDone \/ WakeUp
  <2>1. UNCHANGED leak /\ at # "done" /\ at' # "done"
    BY <1>4 DEF ParseInspectArgs, PidfdOpen, ScanLimitForPid, EnterNetns, Dump, LeaveNetns, ReadMountinfo,
         ListTargetFds, ReadLinks, StatxBatch, StatxDone, WakeUp, Stays
  <2> QED BY <2>1 DEF ReportInv
<1>5. CASE GetFd \/ InspectCopiedFd \/ ProcFdLink \/ ProcFdStat \/ ReadFdinfo
  <2>1. UNCHANGED leak /\ at # "done" /\ at' # "done"
    BY <1>5 DEF GetFd, InspectCopiedFd, ProcFdLink, ProcFdStat, ReadFdinfo, Skip, Stays
  <2> QED BY <2>1 DEF ReportInv
<1> QED BY <1>1, <1>2, <1>3, <1>4, <1>5 DEF InspectorNext

LEMMA LeakFollows == ASSUME BaseInv, WatchInv, ReportInv PROVE LeakTrue
<1> SUFFICES ASSUME at = "done", leak # << >> PROVE LeakTrue
  BY DEF LeakTrue
<1> DEFINE first == leakSamples[1]
<1>1. /\ leakSamples \in Seq(Seq(EntrySet)) /\ leakSamples # << >>
      /\ leakSamples[Len(leakSamples)] = entries /\ leak = CheckLeak(leakSamples)
  BY DEF ReportInv, BaseInv, DataInv
<1>2. first \in Seq(EntrySet) /\ entries \in Seq(EntrySet) /\ Head(leakSamples) = first /\ 1 \in DOMAIN leakSamples
  BY <1>1 DEF BaseInv, DataInv
<1>3. Distinct(entries) /\ Distinct(first)
  BY <1>2 DEF BaseInv, OnceInv, WatchInv, Distinct
<1>4. FdsOf(entries) \subseteq Watched
  <2> SUFFICES ASSUME NEW k \in DOMAIN entries PROVE entries[k].fd \in Watched
    BY DEF FdsOf
  <2>1. Evidence(entries[k].fd)
    BY DEF Evidence, Entered
  <2> QED BY <2>1 DEF Watched, WatchInv
<1>5. Cardinality(Watched \ FdsOf(first)) <= opened
  BY <1>1 DEF WatchInv
<1> HIDE DEF first, FdsOf, Distinct
<1>6. /\ IsFiniteSet(FdsOf(entries)) /\ Cardinality(FdsOf(entries)) = Len(entries)
      /\ IsFiniteSet(FdsOf(first)) /\ Cardinality(FdsOf(first)) = Len(first)
  BY <1>2, <1>3, FdsAreEntries
<1>7. Cardinality(FdsOf(entries) \ FdsOf(first)) <= Cardinality(Watched \ FdsOf(first))
  <2>1. Watched \ FdsOf(first) \in SUBSET Fd /\ FdsOf(entries) \ FdsOf(first) \in SUBSET (Watched \ FdsOf(first))
    BY <1>4 DEF Watched
  <2> QED BY <2>1, FewerFds
<1>8. Len(entries) - Len(first) <= Cardinality(FdsOf(entries) \ FdsOf(first))
  <2> DEFINE A == FdsOf(entries)
             B == FdsOf(first)
  <2> HIDE DEF A, B
  <2>1. IsFiniteSet(A) /\ IsFiniteSet(B)
    BY <1>6 DEF A, B
  <2>2. Cardinality(A \ B) = Cardinality(A) - Cardinality(A \cap B) /\ Cardinality(A \cap B) <= Cardinality(B)
    BY <2>1, FS_Difference, FS_Intersection
  <2>3. Cardinality(A) \in Nat /\ Cardinality(B) \in Nat /\ Cardinality(A \cap B) \in Nat
    BY <2>1, FS_Intersection, FS_CardinalityType
  <2>4. Cardinality(A) - Cardinality(B) <= Cardinality(A \ B)
    BY <2>2, <2>3
  <2> QED BY <1>6, <2>4 DEF A, B
<1>9. Cardinality(Watched \ FdsOf(first)) \in Nat /\ Cardinality(FdsOf(entries) \ FdsOf(first)) \in Nat
  <2>1. IsFiniteSet(Watched)
    BY FdInspectorAssumption, FS_Subset DEF Watched
  <2>2. IsFiniteSet(Watched \ FdsOf(first)) /\ IsFiniteSet(FdsOf(entries) \ FdsOf(first))
    BY <1>6, <2>1, FS_Subset
  <2> QED BY <2>2, FS_CardinalityType
<1>10. opened \in Nat /\ Len(entries) \in Nat /\ Len(first) \in Nat
  BY <1>2 DEF BaseInv, ProcessInv
<1>11. Len(entries) - Len(first) <= opened
  BY <1>5, <1>7, <1>8, <1>9, <1>10
<1> QED BY <1>1, <1>2, <1>10, <1>11, ReportTrue

(* A leak report accuses no process that opened nothing: what the samples   *)
(* grew by was opened while the inspector looked, whatever descriptors were *)
(* passed over, reused or read at different times; the growing buckets      *)
(* account for all of it and have every new target; and fd-inspector exits  *)
(* with 2 exactly if no sample has fewer than the one before it and the     *)
(* last has more than the first (check_leak, inspect_pid, main).            *)
THEOREM LeakSound == Spec => []LeakTrue
<1> DEFINE IInv == BaseInv /\ WatchInv /\ ReportInv
<1>1. Init => IInv
  <2> SUFFICES ASSUME Init PROVE IInv
    OBVIOUS
  <2>1. /\ at = "parse" /\ entries = << >> /\ leakSamples = << >> /\ leak = << >> /\ opened = 0
    BY DEF Init, InspectorInit
  <2>2. (\A fd : ~Evidence(fd)) /\ PassedOver = {}
    BY <2>1 DEF Evidence, Entered, PassedOver, Passed, Listed, Reading
  <2>3. WatchInv /\ ReportInv
    BY <2>1, <2>2, FS_EmptySet DEF WatchInv, ReportInv, Reading
  <2> QED BY <2>3, BaseInitially
<1>2. IInv /\ [Next]_fdVars => IInv'
  <2> SUFFICES ASSUME BaseInv, WatchInv, ReportInv, [Next]_fdVars PROVE IInv'
    OBVIOUS
  <2>1. BaseInv' /\ (InspectorNext \/ UNCHANGED inspectorVars)
    BY BaseStep, FdSteps
  <2>2. WatchInv'
    BY <2>1, MoveWatched, WatchKeeps
  <2> QED BY <2>1, <2>2, ReportKeeps
<1>3. IInv => LeakTrue
  BY LeakFollows
<1> QED BY <1>1, <1>2, <1>3, PTL DEF Spec, fdVars
=============================================================================
