------------------------------- MODULE PageMap -------------------------------
(***************************************************************************)
(* What mem-map-viewer's model of an address space promises: a map from    *)
(* pages to what is mapped there, to which the calls of the traced threads *)
(* are applied one at a time, each exactly as the kernel applied it.  How  *)
(* the map is represented is not said.                                     *)
(***************************************************************************)
EXTENDS AddressSpace

CONSTANTS Tid

VARIABLES
  pages,  \* the map
  calls   \* of every thread: the call executed and not yet applied, or NoCall

Init ==
  /\ pages = Image
  /\ calls = [t \in Tid |-> NoCall]

Execute(t) ==
  /\ calls[t] = NoCall
  /\ calls'[t] \in Call
  /\ calls' = [calls EXCEPT ![t] = calls'[t]]
  /\ UNCHANGED pages

\* An execve is executed and ends all other threads.
ExecuteExec(t) ==
  /\ calls[t] = NoCall
  /\ calls' = [u \in Tid |-> IF u = t THEN Exec ELSE NoCall]
  /\ UNCHANGED pages

Apply(t) ==
  /\ calls[t] # NoCall
  /\ pages' = After(pages, calls[t])
  /\ calls' = [calls EXCEPT ![t] = NoCall]

\* The process ends.
Forget ==
  /\ calls' = [t \in Tid |-> NoCall]
  /\ UNCHANGED pages

Next ==
  \/ \E t \in Tid : Execute(t) \/ ExecuteExec(t) \/ Apply(t)
  \/ Forget

Spec == Init /\ [][Next]_<<pages, calls>>
=============================================================================
