---------------------------- MODULE EventReport ----------------------------
(***************************************************************************)
(* The two halves of what mini-strace makes of a completed call, of which  *)
(* one is looked at: which events the tracker and the sinks get, and in    *)
(* what order (Observers), or what is read of one call's arguments while   *)
(* the other threads of its process run (Decoder).                         *)
(***************************************************************************)
EXTENDS Observers, Decoder

VARIABLE half

\* A half that is not looked at starts in one state only.
ReportInit ==
  /\ half \in {"events", "arguments"}
  /\ Init /\ DecoderInit
  /\ half = "events" =>
       /\ settings = CHOOSE s \in Settings : TRUE
       /\ syscall = CHOOSE c \in Calls : TRUE
       /\ memory = CHOOSE m \in Memories : TRUE
  /\ half = "arguments" =>
       options = (CHOOSE o \in Options : TRUE) /\ fds = <<>>

ReportNext ==
  \/ half = "events" /\ Next /\ UNCHANGED <<half, decoderVars>>
  \/ half = "arguments" /\ DecoderNext /\ UNCHANGED <<half, vars>>

ReportSpec == ReportInit /\ [][ReportNext]_<<half, vars, decoderVars>>
=============================================================================
