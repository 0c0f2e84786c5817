---------------------------- MODULE MCFdLeakTracer ----------------------------
(* Instances of FdLeakTracer: a target with two threads.                    *)
EXTENDS FdLeakTracer

CONSTANTS a, b
=============================================================================
