------------------------------ MODULE MCStartup ------------------------------
(* Instances of Startup: command lines of up to five words, a target of three *)
(* threads of which one is born late.                                         *)
EXTENDS Startup

CONSTANTS t1, t2, t3

\* Seven is the pid of the target, and no name of a call.
CallNumbers == [write |-> 1, kill |-> 62, execve |-> 59]

AttachLines ==
  {<<"--pid", "7">>, <<"--dump-seccomp", "--pid", "7", "--follow-fork">>}

LaunchLines ==
  {<<"--filter", a, "--seccomp-bpf", "write">> : a \in {"write", "execve", "kill"}}
  \cup {<<"--filter", "kill", "--filter", b, "--seccomp-bpf", "--", "--bogus">> : b \in {"write", "execve"}}
  \cup {<<"--filter", "kill", "--filter", "write", "--filter", "execve", "--seccomp-bpf", "write">>}

\* Every short line, right or wrong.
Words == {"--pid", "--filter", "--seccomp-bpf", "--summary", "--bogus", "--", "7", "write"}
ShortLines == UNION {[1..n -> Words] : n \in 0..3}

SomeLines == AttachLines \cup LaunchLines \cup ShortLines
=============================================================================
