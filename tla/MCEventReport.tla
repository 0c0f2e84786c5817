--------------------------- MODULE MCEventReport ---------------------------
(* An instance of EventReport: those of Observers and of Decoder. *)
EXTENDS EventReport, MCObservers, MCDecoder
=============================================================================
