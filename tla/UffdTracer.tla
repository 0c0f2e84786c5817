----------------------------- MODULE UffdTracer -----------------------------
(***************************************************************************)
(* --uffd-demo of mem-map-viewer (uffd_tracer.cpp): the main thread maps   *)
(* pages, registers them with a userfaultfd and touches three of them; a   *)
(* handler thread records each fault and resolves it.  A thread that       *)
(* faults stays in the kernel until its fault is resolved.                 *)
(*                                                                         *)
(* Pages are numbered from 0.  A mebibyte has Mebi pages, so that the      *)
(* second and third touch may be of one page.                              *)
(*                                                                         *)
(* Bounds: MaxAttempts for the sixteen attempts, Polls for the fifty       *)
(* rounds in which main waits for events.                                  *)
(***************************************************************************)
EXTENDS Integers, FiniteSets, Sequences, SequencesExt

CONSTANTS Lengths, Mebi, MaxAttempts, Polls

ASSUME UffdAssumption ==
  Lengths \subseteq Nat /\ Mebi \in Nat \ {0} /\ MaxAttempts \in Nat \ {0} /\ Polls \in Nat

VARIABLES
  demo,      \* mode, length and touches of this run
  main,      \* where main is: see Touch
  touched,   \* how many touches main has behind it
  missing, protected,  \* pages without memory; pages that are write-protected
  registered,
  queue,     \* the faults that the userfaultfd has to read
  running, stopFd,     \* the atomic flag; the eventfd
  handler,   \* where the handler is
  fault, attempt,      \* the fault being resolved, and its attempts
  events, error,
  polls,
  faults     \* the faults that happened, for the properties

uffdVars == <<demo, main, touched, missing, protected, registered, queue, running, stopFd,
              handler, fault, attempt, events, error, polls, faults>>

memory == <<missing, protected, registered>>
shared == <<running, stopFd, events, error>>
handling == <<handler, fault, attempt>>

Smaller(a, b) == IF a < b THEN a ELSE b
RoundedLength(length) == IF length < 3 THEN 3 ELSE length
AllPages == 0..(demo.length - 1)

\* touch_demo_pages and writeprotect_demo_pages: two writes and a read.
Touches(length) ==
  <<[page |-> 0, write |-> TRUE],
    [page |-> Smaller(Mebi, length - 1), write |-> TRUE],
    [page |-> Smaller(2 * Mebi, length - 1), write |-> FALSE]>>

-----------------------------------------------------------------------------
(* The main thread.                                                        *)

Main(from, to) == main = from /\ main' = to

\* A fresh mapping has no page; for write protection all are populated first.
MapDemo(mode, length) ==
  /\ Main("none", "init")
  /\ demo' = [mode |-> mode, length |-> RoundedLength(length), touches |-> Touches(RoundedLength(length))]
  /\ missing' = IF mode = "wp" THEN {} ELSE 0..(RoundedLength(length) - 1)
  /\ UNCHANGED <<touched, protected, registered, queue, shared, handling, polls, faults>>

\* A step of the preparation fails: the demo ends with a message.
PrepareFails ==
  /\ main \in {"init", "register", "protect"} /\ main' = "done"
  /\ error' = "setup"
  /\ UNCHANGED <<demo, touched, memory, queue, running, stopFd, events, handling, polls, faults>>

Prepare ==
  /\ \/ Main("init", "register") /\ UNCHANGED memory
     \/ /\ Main("register", IF demo.mode = "wp" THEN "protect" ELSE "start")
        /\ registered' = TRUE
        /\ UNCHANGED <<missing, protected>>
     \/ Main("protect", "start") /\ protected' = AllPages /\ UNCHANGED <<missing, registered>>
  /\ UNCHANGED <<demo, touched, queue, shared, handling, polls, faults>>

Start ==
  /\ Main("start", "touch")
  /\ running' = TRUE /\ handler' = "loop"
  /\ UNCHANGED <<demo, touched, memory, queue, stopFd, events, error, fault, attempt, polls, faults>>

\* What a touch of a page runs into.
FaultOf(touch) ==
  IF registered /\ touch.page \in missing THEN {[page |-> touch.page, write |-> touch.write, wp |-> FALSE]}
  ELSE IF touch.write /\ touch.page \in protected
    THEN {[page |-> touch.page, write |-> TRUE, wp |-> TRUE]}
  ELSE {}

\* A touch that faults is tried again when the fault is resolved.
Touch ==
  /\ main = "touch"
  /\ LET new == FaultOf(demo.touches[touched + 1])
     IN  IF new = {}
           THEN /\ touched' = touched + 1
                /\ main' = IF touched' = 3 THEN "wait" ELSE "touch"
                /\ UNCHANGED <<queue, faults>>
           ELSE /\ main' = "blocked"
                /\ queue' = queue \o SetToSeq(new)
                /\ faults' = faults \o SetToSeq(new)
                /\ UNCHANGED touched
  /\ UNCHANGED <<demo, memory, shared, handling, polls>>

Expected == IF demo.mode = "wp" THEN 2 ELSE 3

\* Main waits for the expected number of events, fifty rounds at most, then stops
\* the handler.
AwaitEvents ==
  /\ main = "wait"
  /\ IF Len(events) >= Expected \/ polls = Polls
       THEN main' = "stop" /\ UNCHANGED polls
       ELSE polls' = polls + 1 /\ UNCHANGED main
  /\ UNCHANGED <<demo, touched, memory, queue, shared, handling, faults>>

StopHandler ==
  /\ \/ /\ Main("stop", "notify") /\ running' = FALSE /\ UNCHANGED stopFd
     \/ /\ Main("notify", "join") /\ stopFd' = TRUE /\ UNCHANGED running
  /\ UNCHANGED <<demo, touched, memory, queue, events, error, handling, polls, faults>>

Join ==
  /\ Main("join", "done") /\ handler = "ended"
  /\ UNCHANGED <<demo, touched, memory, queue, shared, handling, polls, faults>>

-----------------------------------------------------------------------------
(* The handler thread.                                                     *)

\* The head of the loop, and poll, which returns when the userfaultfd or the
\* eventfd can be read.
Poll ==
  /\ handler = "loop"
  /\ \/ ~running /\ handler' = "ended"
     \/ running /\ handler' = "poll"
  /\ UNCHANGED <<demo, main, touched, memory, queue, shared, fault, attempt, polls, faults>>

PollReturns ==
  /\ handler = "poll"
  /\ \/ stopFd /\ handler' = "ended"
     \/ ~stopFd /\ queue # <<>> /\ handler' = "read"
  /\ UNCHANGED <<demo, main, touched, memory, queue, shared, fault, attempt, polls, faults>>

PollFails ==
  /\ handler = "poll"
  /\ handler' = "ended" /\ error' = IF error = "none" THEN "poll" ELSE error
  /\ UNCHANGED <<demo, main, touched, memory, queue, running, stopFd, fault, attempt, events, polls, faults>>

\* Fault: only faults of writes are recorded.
WritesRecorded == IF Head(queue).write THEN Append(events, Head(queue)) ELSE events

Recorded == Append(events, Head(queue))

\* The event is recorded before the fault is resolved.
ReadFault ==
  /\ handler = "read"
  /\ fault' = <<Head(queue)>> /\ queue' = Tail(queue)
  /\ events' = Recorded
  /\ attempt' = 0 /\ handler' = "resolve"
  /\ UNCHANGED <<demo, main, touched, memory, running, stopFd, error, polls, faults>>

\* clear_writeprotect and copy_missing_page wake the thread that faulted.
Resolved ==
  /\ missing' = IF fault[1].wp THEN missing ELSE missing \ {fault[1].page}
  /\ protected' = IF fault[1].wp THEN protected \ {fault[1].page} ELSE protected
  /\ main' = IF main = "blocked" THEN "touch" ELSE main

\* Fault: the fault that could not be resolved is left for the next round.
RetryAtLoop == "loop"

RetryAt == "resolve"

\* One attempt: it succeeds, or is to be tried again (EAGAIN).
Resolve ==
  /\ handler = "resolve" /\ attempt < MaxAttempts /\ running
  /\ \/ Resolved /\ handler' = "loop" /\ UNCHANGED attempt
     \/ attempt' = attempt + 1 /\ handler' = RetryAt /\ UNCHANGED <<main, missing, protected>>
  /\ UNCHANGED <<demo, touched, registered, queue, running, stopFd, fault, events, error, polls, faults>>

\* It fails, for good or for the last time: the handler gives up.
GiveUp ==
  /\ handler = "resolve"
  /\ handler' = "ended"
  /\ error' = IF error = "none" THEN "resolve" ELSE error
  /\ running' = FALSE
  /\ UNCHANGED <<demo, main, touched, memory, queue, stopFd, fault, attempt, events, polls, faults>>

-----------------------------------------------------------------------------

UffdInit ==
  /\ demo = [mode |-> "missing", length |-> 3, touches |-> Touches(3)]
  /\ main = "none" /\ touched = 0
  /\ missing = {} /\ protected = {} /\ registered = FALSE
  /\ queue = <<>> /\ running = FALSE /\ stopFd = FALSE
  /\ handler = "none" /\ fault = <<>> /\ attempt = 0
  /\ events = <<>> /\ error = "none" /\ polls = 0 /\ faults = <<>>

DemoMain == PrepareFails \/ Prepare \/ Start \/ Touch \/ AwaitEvents \/ StopHandler \/ Join
Handler == Poll \/ PollReturns \/ ReadFault \/ Resolve \/ GiveUp

\* Threads are scheduled, and an attempt that is repeated MaxAttempts times is the last.
\* That poll fails is never owed to anybody.
UffdFairness == WF_uffdVars(DemoMain) /\ WF_uffdVars(Handler)

-----------------------------------------------------------------------------

\* The events are the faults, in their order and once each: main never passes a
\* touch that faulted before its event is recorded, the handler is one event behind
\* the faults at most, and what a demo without error reports is complete
\* (touch_demo_pages, UffdTracer::loop).
FaultsReported ==
  /\ IsPrefix(events, faults)
  /\ main # "blocked" => events = faults
  /\ Len(faults) - Len(events) <= 1
  /\ main = "done" /\ error = "none" =>
       /\ events = faults
       /\ {f.page : f \in ToSet(events)} =
            {t.page : t \in {u \in ToSet(demo.touches) : demo.mode = "missing" \/ u.write}}

\* Liveness.  The demo ends, unless the handler gave up: then main stays in its
\* fault for ever, for nobody else reads the userfaultfd (stop is only called by
\* main itself).
DemoEnds == (main = "init") ~> (main = "done" \/ error \in {"poll", "resolve"})
=============================================================================
