------------------------------ MODULE FdTools ------------------------------
(***************************************************************************)
(* The two programs of the directory fd-inspector, of which one is run:    *)
(* fd-inspector (FdInspector) or fd-leak-tracer (Symbolizer, with the      *)
(* events of FdLeakTracer behind it).                                      *)
(***************************************************************************)
EXTENDS FdInspector, Symbolizer

VARIABLE tool

Init == tool \in {"fd-inspector", "fd-leak-tracer"} /\ InspectorInit /\ SymbolInit
        /\ (tool = "fd-inspector" \/ cli = CHOOSE c \in CommandLines : TRUE)
        /\ (tool = "fd-inspector" \/ may = CHOOSE p \in Privileges : TRUE)
        /\ (tool = "fd-leak-tracer" \/ options = CHOOSE o \in TracerLines : TRUE)

Inspect == tool = "fd-inspector" /\ InspectorNext /\ UNCHANGED symbolVars
Trace == tool = "fd-leak-tracer" /\ SymbolNext /\ UNCHANGED inspectorVars

Next == (Inspect \/ Trace) /\ UNCHANGED tool

Spec == Init /\ [][Next]_<<tool, inspectorVars, symbolVars>>
=============================================================================
