---------------------------- MODULE MCObservers ----------------------------
(* An instance of Observers: two threads of one process, and one it forks. *)
EXTENDS Observers, TLC

CONSTANTS t1, t2, c1, a, b

\* The two threads make the same calls, and the paths are interchangeable.
Symmetric == {f @@ g : f \in Permutations(Path), g \in Permutations({t1, t2})}

SomeFailures ==
  {<<"open", "ENOENT">>, <<"open", "EPERM">>, <<"write", "EINTR">>, <<"write", "EPERM">>,
   <<"getpid", "EPERM">>, <<"write", "EINVAL">>}

\* No options, and --raw with a filter, with and without --seccomp-bpf.
SomeOptions ==
  {[filter |-> {}, raw |-> FALSE, bpf |-> FALSE]}
    \cup {[filter |-> {"write", "getpid"}, raw |-> TRUE, bpf |-> bpf] : bpf \in BOOLEAN}
=============================================================================
