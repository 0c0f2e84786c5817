----------------------------- MODULE MCFdTools -----------------------------
(* An instance of FdTools. *)
EXTENDS FdTools

File(mode, is, inode, proto, remote) ==
  [mode |-> mode, link |-> [is |-> is, id |-> inode], inode |-> inode, mnt |-> 1, watches |-> NoText,
   proto |-> proto, local |-> IF proto = "TCP" THEN "10.0.0.1:9" ELSE NoText, remote |-> remote]

Regular == File("file", "path", 11, NoText, NoText)
Connection == File("socket", "socket", 12, "TCP", "10.0.0.2:80")
Local == File("socket", "socket", 13, "UNIX-STREAM", "peer_inode:9")
\* A second connection to the same peer; an anonymous inode whose link does not tell its type.
Second == File("socket", "socket", 14, "TCP", "10.0.0.2:80")
Marks == [File("none", "anon", 15, NoText, NoText) EXCEPT !.watches = "fanotify"]

SomeFiles == {Regular, Connection, Second, Marks}
SomeTable == (0 :> Connection @@ 2 :> Local)

Cli(fallback, uring, maxFd, seconds) ==
  [pid |-> 7, procFallback |-> fallback, ioUring |-> uring, maxFd |-> maxFd, watch |-> FALSE,
   interval |-> -1, leakSeconds |-> seconds]

SomeCommandLines ==
  {Cli(FALSE, FALSE, 3, 0), Cli(TRUE, FALSE, 0, 0), Cli(FALSE, TRUE, 0, 0), Cli(TRUE, TRUE, 3, 0),
   Cli(FALSE, FALSE, 2, 2),
   [Cli(FALSE, FALSE, 3, 0) EXCEPT !.watch = TRUE, !.interval = 500],
   [Cli(FALSE, FALSE, 3, 1) EXCEPT !.watch = TRUE],
   [Cli(FALSE, FALSE, 3, 0) EXCEPT !.interval = 500]}

All == {"pidfd", "getfd", "proc_fd", "rlimit", "io_uring", "same_netns"}
SomePrivileges == {All, (All \ {"same_netns"}) \cup {"setns"}, All \ {"proc_fd", "same_netns"},
                   {"pidfd", "proc_fd", "io_uring"}, {"rlimit", "same_netns"}}

Symbol(address, size, name) == [address |-> address, size |-> size, name |-> name]
SomeElf == [o \in {"/bin/a", "/lib/b"} |->
  IF o = "/bin/a" THEN {Symbol(1, 2, "main"), Symbol(3, 0, "start"), Symbol(0, 4, "undefined")}
  ELSE {Symbol(1, 1, "open_b"), Symbol(1, 2, "alias_b"), Symbol(5, 2, "tail_b")}]

Map(begin, object, offset) == [begin |-> begin, end |-> begin + 4, offset |-> offset, object |-> object]
SomeFirstImage == {Map(4, "/bin/a", 0)}
SomeImages == {SomeFirstImage, {Map(4, "/bin/a", 0), Map(8, "/lib/b", 0)},
               {Map(4, "/bin/a", 0), Map(8, "/lib/b", 4), Map(12, "[vdso]", 0)}, {Map(4, "/lib/b", 0)}}

SomeTracerLines ==
  {[pid |-> p, seconds |-> 1, object |-> "o", json |-> TRUE, verbose |-> TRUE, symbols |-> s,
    addr2line |-> FALSE] : p \in {0, 7}, s \in BOOLEAN}

SomePrograms == ("sys_exit_openat" :> "openat" @@ "sys_exit_execve" :> "execve" @@ "sys_exit_x" :> "x")
=============================================================================
