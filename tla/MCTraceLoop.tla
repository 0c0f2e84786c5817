----------------------------- MODULE MCTraceLoop -----------------------------
(* Instances of TraceLoop: the launched process t1 and a child or thread t2. *)
EXTENDS TraceLoop

CONSTANTS t1, t2

\* --inject io:when=2
SecondIo == {[name |-> "io", when |-> 2]}
=============================================================================
