----------------------------- MODULE MCVmaTracer -----------------------------
(* Instances of VmaTracer: a child with a second thread, or a forked process. *)
EXTENDS VmaTracer

CONSTANTS t1, t2
=============================================================================
