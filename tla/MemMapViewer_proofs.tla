-------------------------- MODULE MemMapViewer_proofs --------------------------
(***************************************************************************)
(* Four results on the commands of mem-map-viewer, for every length of the *)
(* demo's mapping, every number of attempts, every command line, every     *)
(* page size and range and every size of the perf ring: what the           *)
(* userfaultfd demo reports is what its main thread ran into, the command  *)
(* that is run is the one that was asked for, what a scan of pages reports *)
(* is true of the pages that the process had while it went on, and the     *)
(* perf sampler loses no event without counting it.                        *)
(***************************************************************************)
EXTENDS MemMapViewer, SetLemmas, FiniteSetTheorems, TLAPS

LOCAL INSTANCE BagsExt

-----------------------------------------------------------------------------
(* The userfaultfd demo: what may be said of its parts at any time.         *)

(* A fault, and a touch of a page.                                          *)
Fault == [page : Nat, write : BOOLEAN, wp : BOOLEAN]

(* Main is past the preparation and ended without an error, if it ended.    *)
Armed == main \in {"start", "touch", "blocked", "wait", "stop", "notify", "join"}
         \/ (main = "done" /\ error = "none")

(* The program has touched all its pages.                                   *)
AllTouched == main \in {"wait", "stop", "notify", "join"} \/ (main = "done" /\ error = "none")

(* A touch of this demo faults at first: for write protection a read never  *)
(* does.                                                                    *)
Faulting(touch) == demo.mode = "missing" \/ touch.write

(* The page of a touch is open to it: the touch would not fault any more.   *)
Open(p) == IF demo.mode = "missing" THEN p \notin missing ELSE p \notin protected

(* The demo is one of the two, and its touches are within the mapping.      *)
DemoType ==
  /\ demo \in [mode : {"missing", "wp"}, length : Nat, touches : [1..3 -> [page : Nat, write : BOOLEAN]]]
  /\ \A k \in 1..3 : demo.touches[k].page \in AllPages

(* How far main is says how many touches it has behind it, and whether the  *)
(* handler may have started.                                                *)
DemoInv ==
  /\ DemoType
  /\ touched \in 0..3
  /\ main \in {"none", "init", "register", "protect", "start", "touch", "blocked",
               "wait", "stop", "notify", "join", "done"}
  /\ handler \in {"none", "loop", "poll", "read", "resolve", "ended"}
  /\ main \in {"touch", "blocked"} => touched < 3
  /\ AllTouched => touched = 3
  /\ main \in {"none", "init", "register", "protect", "start"} =>
       touched = 0 /\ error = "none" /\ handler = "none"

(* The faults are the events and, behind them, the one that is not read:    *)
(* main waits for it.  The one being resolved is the last event.            *)
QueueInv ==
  /\ queue \in Seq(Fault) /\ events \in Seq(Fault) /\ faults \in Seq(Fault)
  /\ \/ queue = <<>> /\ faults = events
     \/ /\ main = "blocked" /\ handler # "resolve"
        /\ \E f \in Fault : queue = <<f>> /\ faults = Append(events, f)
  /\ handler = "read" => queue # <<>>
  /\ handler = "resolve" =>
       /\ main = "blocked" /\ queue = <<>>
       /\ \E f \in Fault : fault = <<f>> /\ f \in ToSet(events)
                           /\ (f.wp <=> demo.mode = "wp")

(* Every fault is that of a touch; no page is open to main but after an     *)
(* event; and what main has touched is open.                                *)
TouchInv ==
  Armed =>
    /\ registered
    /\ demo.mode = "missing" => protected = {}
    /\ demo.mode = "wp" => missing = {}
    /\ \A p \in AllPages : Open(p) => \E f \in ToSet(events) : f.page = p
    /\ \A f \in ToSet(faults) :
         /\ f.wp <=> demo.mode = "wp"
         /\ \E k \in 1..3 : Faulting(demo.touches[k]) /\ f.page = demo.touches[k].page
    /\ \A k \in 1..touched : Faulting(demo.touches[k]) => Open(demo.touches[k].page)

(* Before the handler starts: what the mapping is, and what is registered.  *)
PrepareInv ==
  /\ main \in {"none", "init", "register", "protect"} =>
       events = <<>> /\ faults = <<>> /\ protected = {}
  /\ main \in {"init", "register", "protect"} =>
       missing = IF demo.mode = "wp" THEN {} ELSE AllPages
  /\ main = "protect" => registered /\ demo.mode = "wp"

(* All of it.                                                               *)
DemoCorrect == DemoInv /\ PrepareInv /\ QueueInv /\ TouchInv

-----------------------------------------------------------------------------
(* It holds at first, and of whatever length the mapping is.                *)

(* The sequence of one element.                                             *)
LEMMA SequenceOfOne == ASSUME NEW x PROVE SetToSeq({x}) = <<x>>
<1>1. Cardinality({x}) = 1
  BY FS_Singleton
<1>2. <<x>> \in [1..1 -> {x}] /\ IsInjective(<<x>>)
  BY DEF IsInjective
<1>3. SetToSeq({x}) \in [1..1 -> {x}]
  BY <1>1, <1>2 DEF SetToSeq
<1> QED BY <1>3

(* Its elements, and those of the empty sequence and of a longer one.       *)
LEMMA ElementsOf ==
  /\ ToSet(<<>>) = {}
  /\ \A S : \A s \in Seq(S) : \A x \in S : ToSet(Append(s, x)) = ToSet(s) \cup {x}
<1>1. ToSet(<<>>) = {}
  BY DEF ToSet
<1>2. ASSUME NEW S, NEW s \in Seq(S), NEW x \in S
      PROVE  ToSet(Append(s, x)) = ToSet(s) \cup {x}
  <2>1. /\ DOMAIN s = 1..Len(s) /\ Len(s) \in Nat
        /\ DOMAIN Append(s, x) = 1..(Len(s) + 1)
        /\ Append(s, x)[Len(s) + 1] = x
        /\ \A i \in 1..Len(s) : Append(s, x)[i] = s[i]
    OBVIOUS
  <2>2. 1..(Len(s) + 1) = (1..Len(s)) \cup {Len(s) + 1}
    BY <2>1
  <2> QED BY <2>1, <2>2 DEF ToSet
<1> QED BY <1>1, <1>2

(* The pages that are touched are pages of the mapping.                     *)
LEMMA TouchesWithin ==
  ASSUME NEW length \in Nat, length >= 3
  PROVE  /\ Touches(length) \in [1..3 -> [page : Nat, write : BOOLEAN]]
         /\ \A k \in 1..3 : Touches(length)[k].page \in 0..(length - 1)
<1>1. \A n \in Nat : Smaller(n, length - 1) \in 0..(length - 1)
  BY DEF Smaller
<1>2. Mebi \in Nat /\ 2 * Mebi \in Nat
  BY UffdAssumption
<1>3. /\ Touches(length)[1] = [page |-> 0, write |-> TRUE]
      /\ Touches(length)[2] = [page |-> Smaller(Mebi, length - 1), write |-> TRUE]
      /\ Touches(length)[3] = [page |-> Smaller(2 * Mebi, length - 1), write |-> FALSE]
      /\ DOMAIN Touches(length) = 1..3
      /\ Touches(length) = [k \in 1..3 |-> Touches(length)[k]]
  BY DEF Touches
<1>4. \A k \in 1..3 : /\ Touches(length)[k].page \in 0..(length - 1)
                      /\ Touches(length)[k] \in [page : Nat, write : BOOLEAN]
  <2>1. \A k \in 1..3 : k = 1 \/ k = 2 \/ k = 3
    OBVIOUS
  <2>2. 0..(length - 1) \subseteq Nat /\ 0 \in 0..(length - 1)
    OBVIOUS
  <2>3. ASSUME NEW k \in 1..3
        PROVE  /\ Touches(length)[k].page \in 0..(length - 1)
               /\ Touches(length)[k] \in [page : Nat, write : BOOLEAN]
    <3>1. \A p \in 0..(length - 1), w \in BOOLEAN :
            /\ [page |-> p, write |-> w].page \in 0..(length - 1)
            /\ [page |-> p, write |-> w] \in [page : Nat, write : BOOLEAN]
      BY <2>2
    <3>2. /\ Smaller(Mebi, length - 1) \in 0..(length - 1)
          /\ Smaller(2 * Mebi, length - 1) \in 0..(length - 1)
      BY <1>1, <1>2
    <3>3. \E p \in 0..(length - 1), w \in BOOLEAN : Touches(length)[k] = [page |-> p, write |-> w]
      BY <1>3, <2>1, <2>2, <3>2
    <3> QED BY <3>1, <3>3
  <2> QED BY <2>3
<1> QED BY <1>3, <1>4

(* Nothing is mapped at first.                                              *)
LEMMA DemoInit == UffdInit => DemoCorrect
<1> SUFFICES ASSUME UffdInit PROVE DemoCorrect
  OBVIOUS
<1>1. DemoInv
  <2>1. /\ Touches(3) \in [1..3 -> [page : Nat, write : BOOLEAN]]
        /\ \A k \in 1..3 : Touches(3)[k].page \in 0..(3 - 1)
    BY TouchesWithin
  <2>2. \A T \in [1..3 -> [page : Nat, write : BOOLEAN]] :
          [mode |-> "missing", length |-> 3, touches |-> T]
            \in [mode : {"missing", "wp"}, length : Nat, touches : [1..3 -> [page : Nat, write : BOOLEAN]]]
    OBVIOUS
  <2>3. demo.touches = Touches(3) /\ demo.length = 3
    BY DEF UffdInit
  <2>4. DemoType
    BY <2>1, <2>2, <2>3 DEF UffdInit, AllPages, DemoType
  <2>5. main = "none" /\ touched = 0 /\ error = "none" /\ handler = "none"
    BY DEF UffdInit
  <2> QED BY <2>4, <2>5 DEF DemoInv, AllTouched
<1>2. PrepareInv
  BY DEF UffdInit, PrepareInv
<1>3. QueueInv
  <2>1. /\ queue = <<>> /\ events = <<>> /\ faults = <<>> /\ handler = "none"
    BY DEF UffdInit
  <2>2. <<>> \in Seq(Fault)
    OBVIOUS
  <2> QED BY <2>1, <2>2 DEF QueueInv
<1>4. TouchInv
  BY DEF UffdInit, TouchInv, Armed
<1> QED BY <1>1, <1>2, <1>3, <1>4 DEF DemoCorrect

-----------------------------------------------------------------------------
(* The main thread.                                                         *)

(* A mapping of whatever length, in either mode.                            *)
LEMMA MapDemoCorrect ==
  ASSUME DemoCorrect, NEW mode \in {"missing", "wp"}, NEW length \in Lengths, MapDemo(mode, length)
  PROVE  DemoCorrect'
<1>1. RoundedLength(length) \in Nat /\ RoundedLength(length) >= 3
  BY UffdAssumption DEF RoundedLength
<1>2. /\ demo' = [mode |-> mode, length |-> RoundedLength(length),
                  touches |-> Touches(RoundedLength(length))]
      /\ main = "none" /\ main' = "init"
      /\ missing' = IF mode = "wp" THEN {} ELSE 0..(RoundedLength(length) - 1)
      /\ UNCHANGED <<touched, protected, registered, queue, shared, handling, polls, faults>>
  BY DEF MapDemo, Main
<1>3. DemoInv'
  <2>1. PICK n \in Nat : n = RoundedLength(length) /\ n >= 3
    BY <1>1
  <2>2. PICK T \in [1..3 -> [page : Nat, write : BOOLEAN]] :
          T = Touches(n) /\ \A k \in 1..3 : T[k].page \in 0..(n - 1)
    BY <2>1, TouchesWithin
  <2>3. demo' = [mode |-> mode, length |-> n, touches |-> T]
    BY <1>2, <2>1, <2>2
  <2>4. /\ demo' \in [mode : {"missing", "wp"}, length : Nat, touches : [1..3 -> [page : Nat, write : BOOLEAN]]]
        /\ demo'.length = n /\ demo'.touches = T
    BY <2>3
  <2>5. DemoType'
    BY <2>2, <2>4 DEF DemoType, AllPages
  <2> QED BY <1>2, <2>5 DEF DemoCorrect, DemoInv, AllTouched, shared, handling
<1>4. PrepareInv'
  BY <1>2 DEF DemoCorrect, PrepareInv, AllPages, shared
<1>5. QueueInv'
  BY <1>2 DEF DemoCorrect, DemoInv, QueueInv, shared, handling
<1>6. TouchInv'
  BY <1>2 DEF TouchInv, Armed
<1> QED BY <1>3, <1>4, <1>5, <1>6 DEF DemoCorrect

(* The preparation, a failure of it, and the start of the handler.          *)
LEMMA PrepareCorrect == ASSUME DemoCorrect, Prepare \/ PrepareFails \/ Start PROVE DemoCorrect'
<1>1. /\ UNCHANGED <<demo, touched, queue, events, faults>>
      /\ main \in {"init", "register", "protect", "start"}
      /\ \/ main' \in {"register", "protect", "start", "touch"} /\ UNCHANGED error
         \/ main' = "done" /\ error' = "setup"
  BY DEF Prepare, PrepareFails, Start, Main, shared, DemoCorrect, DemoInv
<1>2. /\ handler' \in {handler, "loop"} /\ UNCHANGED fault
      /\ handler' # handler => main' = "touch"
  BY DEF Prepare, PrepareFails, Start, Main, handling
<1>3. DemoInv'
  <2>1. touched' = 0 /\ error = "none" /\ handler = "none"
    BY <1>1 DEF DemoCorrect, DemoInv
  <2>2. DemoType'
    BY <1>1 DEF DemoCorrect, DemoInv, DemoType, AllPages
  <2>3. ~AllTouched'
    BY <1>1, <2>1 DEF AllTouched
  <2> QED BY <1>1, <1>2, <2>1, <2>2, <2>3 DEF DemoInv
<1>4. PrepareInv'
  BY <1>1 DEF DemoCorrect, DemoInv, PrepareInv, AllPages, Prepare, PrepareFails, Start, Main, memory
<1>5. QueueInv'
  BY <1>1, <1>2 DEF DemoCorrect, QueueInv
<1>6. TouchInv'
  <2>1. CASE Start
    BY <2>1 DEF DemoCorrect, TouchInv, Armed, Start, Main, memory, Open, AllPages, Faulting
  <2>2. CASE PrepareFails
    BY <2>2 DEF TouchInv, Armed, PrepareFails
  <2>3. CASE Prepare
    <3> SUFFICES ASSUME main' = "start" PROVE TouchInv'
      BY <1>1, <2>3 DEF TouchInv, Armed, DemoCorrect, DemoInv, Prepare, Main
    <3>1. registered' /\ touched' = 0 /\ events' = <<>> /\ faults' = <<>>
      BY <1>1, <2>3 DEF DemoCorrect, DemoInv, PrepareInv, Prepare, Main
    <3>2. /\ demo.mode = "missing" => missing' = AllPages /\ protected' = {}
          /\ demo.mode = "wp" => missing' = {} /\ protected' = AllPages
      BY <1>1, <2>3 DEF DemoCorrect, DemoInv, PrepareInv, Prepare, Main
    <3>3. demo.mode \in {"missing", "wp"}
      BY DEF DemoCorrect, DemoInv, DemoType
    <3>4. \A p \in AllPages' : ~Open(p)'
      BY <1>1, <3>2, <3>3 DEF Open, AllPages
    <3>5. ToSet(events') = {} /\ ToSet(faults') = {} /\ 1..touched' = {}
      BY <3>1, ElementsOf
    <3> QED BY <1>1, <3>1, <3>2, <3>3, <3>4, <3>5 DEF TouchInv
  <2> QED BY <2>1, <2>2, <2>3
<1> QED BY <1>3, <1>4, <1>5, <1>6 DEF DemoCorrect

(* A touch that faults puts its fault behind the events; another counts.    *)
LEMMA TouchCorrect == ASSUME DemoCorrect, Touch PROVE DemoCorrect'
<1> DEFINE touch == demo.touches[touched + 1]
<1>1. /\ main = "touch" /\ touched \in 0..2 /\ demo.mode \in {"missing", "wp"}
      /\ touch.page \in AllPages /\ touch.page \in Nat /\ touch.write \in BOOLEAN
      /\ registered /\ queue = <<>> /\ faults = events /\ handler \notin {"read", "resolve"}
      /\ touched + 1 \in 1..3
  <2>1. /\ main = "touch" /\ touched \in 0..2 /\ registered
    BY DEF Touch, DemoCorrect, DemoInv, TouchInv, Armed
  <2>2. queue = <<>> /\ faults = events /\ handler \notin {"read", "resolve"}
    BY <2>1 DEF DemoCorrect, QueueInv
  <2>3. touched + 1 \in 1..3
    BY <2>1
  <2>4. /\ touch.page \in AllPages /\ touch.page \in Nat /\ touch.write \in BOOLEAN
        /\ demo.mode \in {"missing", "wp"}
    BY <2>3 DEF DemoCorrect, DemoInv, DemoType
  <2> QED BY <2>1, <2>2, <2>3, <2>4
<1>2. UNCHANGED <<demo, memory, shared, handling, polls>>
  BY DEF Touch
<1>3. Armed
  BY <1>1 DEF Armed
<1>4. /\ demo.mode = "missing" => protected = {}
      /\ demo.mode = "wp" => missing = {}
  BY <1>3 DEF DemoCorrect, TouchInv
<1>5. CASE FaultOf(touch) = {}
  <2>1. /\ touched' = touched + 1
        /\ main' = IF touched' = 3 THEN "wait" ELSE "touch"
        /\ UNCHANGED <<queue, faults>>
    BY <1>5 DEF Touch
  <2>2. Faulting(touch) => Open(touch.page)
    BY <1>1, <1>4, <1>5 DEF FaultOf, Faulting, Open
  <2>3. DemoInv'
    <3>1. DemoType'
      BY <1>2 DEF DemoCorrect, DemoInv, DemoType, AllPages
    <3>2. touched' \in 1..3 /\ main' \in {"wait", "touch"} /\ (main' = "wait" <=> touched' = 3)
      BY <1>1, <2>1
    <3> QED BY <1>2, <3>1, <3>2 DEF DemoCorrect, DemoInv, AllTouched, handling
  <2>4. PrepareInv'
    BY <2>1 DEF PrepareInv
  <2>5. QueueInv'
    BY <1>1, <1>2, <2>1 DEF DemoCorrect, QueueInv, shared, handling
  <2>6. TouchInv'
    <3>1. \A k \in 1..touched' : k \in 1..touched \/ k = touched + 1
      BY <1>1, <2>1
    <3>2. \A k \in 1..touched' : Faulting(demo.touches[k]) => Open(demo.touches[k].page)
      BY <1>3, <2>2, <3>1 DEF DemoCorrect, TouchInv
    <3> HIDE DEF touch
    <3> QED BY <1>2, <1>3, <2>1, <3>2
            DEF DemoCorrect, TouchInv, AllPages, Open, Faulting, memory, shared
  <2> QED BY <2>3, <2>4, <2>5, <2>6 DEF DemoCorrect
<1>6. CASE FaultOf(touch) # {}
  <2>1. PICK f \in Fault : /\ FaultOf(touch) = {f} /\ f.page = touch.page
                           /\ f.wp <=> demo.mode = "wp"
                           /\ Faulting(touch)
    <3>1. \A w \in BOOLEAN : [page |-> touch.page, write |-> touch.write, wp |-> w] \in Fault
      BY <1>1 DEF Fault
    <3>2. CASE registered /\ touch.page \in missing
      <4>1. FaultOf(touch) = {[page |-> touch.page, write |-> touch.write, wp |-> FALSE]}
        BY <3>2 DEF FaultOf
      <4> QED BY <1>1, <1>4, <3>1, <3>2, <4>1 DEF Faulting
    <3>3. CASE ~(registered /\ touch.page \in missing)
      <4>1. /\ touch.write /\ touch.page \in protected
            /\ FaultOf(touch) = {[page |-> touch.page, write |-> TRUE, wp |-> TRUE]}
        BY <1>6, <3>3 DEF FaultOf
      <4>2. [page |-> touch.page, write |-> TRUE, wp |-> TRUE] \in Fault
        BY <1>1 DEF Fault
      <4> QED BY <1>1, <1>4, <4>1, <4>2 DEF Faulting
    <3> QED BY <3>2, <3>3
  <2>2. /\ main' = "blocked" /\ UNCHANGED touched
        /\ queue' = queue \o <<f>> /\ faults' = faults \o <<f>>
    BY <1>6, <2>1, SequenceOfOne DEF Touch
  <2>3. queue' = <<f>> /\ faults' = Append(events, f) /\ events \in Seq(Fault)
    BY <1>1, <2>2 DEF DemoCorrect, QueueInv
  <2>4. DemoInv'
    <3>1. DemoType'
      BY <1>2 DEF DemoCorrect, DemoInv, DemoType, AllPages
    <3> QED BY <1>1, <1>2, <2>2, <3>1 DEF DemoCorrect, DemoInv, AllTouched, handling
  <2>5. PrepareInv'
    BY <2>2 DEF PrepareInv
  <2>6. QueueInv'
    <3>1. queue' \in Seq(Fault) /\ faults' \in Seq(Fault) /\ queue' # <<>>
      BY <2>3
    <3> QED BY <1>1, <1>2, <2>2, <2>3, <3>1 DEF DemoCorrect, QueueInv, shared, handling
  <2>7. TouchInv'
    <3>1. ToSet(faults') = ToSet(faults) \cup {f}
      BY <1>1, <2>3, ElementsOf
    <3>2. \E k \in 1..3 : Faulting(demo.touches[k]) /\ f.page = demo.touches[k].page
      BY <1>1, <2>1
    <3> HIDE DEF touch
    <3> QED BY <1>2, <1>3, <2>1, <2>2, <3>1, <3>2
            DEF DemoCorrect, TouchInv, AllPages, Open, Faulting, memory, shared
  <2> QED BY <2>4, <2>5, <2>6, <2>7 DEF DemoCorrect
<1> QED BY <1>5, <1>6

(* What main does after its last touch changes nothing but where it is.     *)
LEMMA EndCorrect ==
  ASSUME DemoCorrect, AwaitEvents \/ StopHandler \/ Join
  PROVE  DemoCorrect'
<1>1. /\ UNCHANGED <<demo, touched, memory, queue, events, error, handling, faults>>
      /\ main \in {"wait", "stop", "notify", "join"}
      /\ main' \in {"wait", "stop", "notify", "join", "done"}
  BY DEF AwaitEvents, StopHandler, Join, Main, shared
<1>2. touched = 3 /\ Armed
  BY <1>1 DEF DemoCorrect, DemoInv, AllTouched, Armed
<1>3. DemoInv'
  <2>1. DemoType'
    BY <1>1 DEF DemoCorrect, DemoInv, DemoType, AllPages
  <2> QED BY <1>1, <1>2, <2>1 DEF DemoCorrect, DemoInv, AllTouched, handling
<1>4. PrepareInv'
  BY <1>1 DEF PrepareInv
<1>5. QueueInv'
  BY <1>1 DEF DemoCorrect, QueueInv, handling
<1>6. TouchInv'
  BY <1>1, <1>2 DEF DemoCorrect, TouchInv, AllPages, Open, Faulting, memory
<1> QED BY <1>3, <1>4, <1>5, <1>6 DEF DemoCorrect

-----------------------------------------------------------------------------
(* The handler.                                                             *)

(* A fault that is read becomes the last event.                             *)
LEMMA ReadFaultCorrect == ASSUME DemoCorrect, ReadFault PROVE DemoCorrect'
<1>1. PICK f \in Fault : queue = <<f>> /\ faults = Append(events, f) /\ main = "blocked"
  BY DEF DemoCorrect, QueueInv, ReadFault
<1>2. /\ fault' = <<f>> /\ queue' = <<>> /\ events' = Append(events, f)
      /\ handler' = "resolve"
      /\ UNCHANGED <<demo, main, touched, memory, running, stopFd, error, polls, faults>>
  BY <1>1 DEF ReadFault, Recorded
<1>3. events \in Seq(Fault) /\ events' \in Seq(Fault) /\ ToSet(events') = ToSet(events) \cup {f}
  BY <1>1, <1>2, ElementsOf DEF DemoCorrect, QueueInv
<1>4. Armed /\ f \in ToSet(faults)
  BY <1>1, <1>2, <1>3 DEF Armed
<1>5. f.wp <=> demo.mode = "wp"
  BY <1>4 DEF DemoCorrect, TouchInv
<1>6. DemoInv'
  <2>1. DemoType'
    BY <1>2 DEF DemoCorrect, DemoInv, DemoType, AllPages
  <2> QED BY <1>1, <1>2, <2>1 DEF DemoCorrect, DemoInv, AllTouched
<1>7. PrepareInv'
  BY <1>1, <1>2 DEF PrepareInv
<1>8. QueueInv'
  <2>1. queue' \in Seq(Fault) /\ faults' \in Seq(Fault) /\ faults' = events'
    BY <1>1, <1>2, <1>3
  <2> QED BY <1>1, <1>2, <1>3, <1>5, <2>1 DEF QueueInv
<1>9. TouchInv'
  BY <1>2, <1>3, <1>4 DEF DemoCorrect, TouchInv, AllPages, Open, Faulting, memory
<1> QED BY <1>6, <1>7, <1>8, <1>9 DEF DemoCorrect

(* A resolved page is open, and its event is recorded.                      *)
LEMMA ResolveCorrect == ASSUME DemoCorrect, Resolve PROVE DemoCorrect'
<1>1. PICK f \in Fault : /\ fault = <<f>> /\ f \in ToSet(events) /\ (f.wp <=> demo.mode = "wp")
                         /\ main = "blocked" /\ queue = <<>> /\ faults = events
  BY DEF DemoCorrect, QueueInv, Resolve
<1>2. /\ UNCHANGED <<demo, touched, registered, queue, events, error, faults, fault>>
      /\ \/ handler' = "resolve" /\ UNCHANGED <<main, missing, protected>>
         \/ /\ handler' = "loop" /\ main' = "touch"
            /\ missing' = IF f.wp THEN missing ELSE missing \ {f.page}
            /\ protected' = IF f.wp THEN protected \ {f.page} ELSE protected
  BY <1>1 DEF Resolve, Resolved, RetryAt
<1>3. Armed /\ touched < 3
  BY <1>1 DEF Armed, DemoCorrect, DemoInv
<1>4. DemoInv'
  <2>1. DemoType'
    BY <1>2 DEF DemoCorrect, DemoInv, DemoType, AllPages
  <2> QED BY <1>1, <1>2, <1>3, <2>1 DEF DemoCorrect, DemoInv, AllTouched
<1>5. PrepareInv'
  BY <1>1, <1>2 DEF PrepareInv
<1>6. QueueInv'
  BY <1>1, <1>2 DEF DemoCorrect, QueueInv
<1>7. TouchInv'
  <2>1. demo.mode \in {"missing", "wp"}
    BY DEF DemoCorrect, DemoInv, DemoType
  <2>2. \A p \in Nat : Open(p) => Open(p)'
    BY <1>2 DEF Open
  <2>3. \A p \in AllPages : Open(p)' => Open(p) \/ p = f.page
    BY <1>1, <1>2, <2>1 DEF Open
  <2>4. \A p \in AllPages : Open(p)' => \E g \in ToSet(events) : g.page = p
    BY <1>1, <1>3, <2>3 DEF DemoCorrect, TouchInv
  <2>5. \A k \in 1..touched : k \in 1..3 /\ demo.touches[k].page \in Nat
    BY <1>3 DEF DemoCorrect, DemoInv, DemoType
  <2>6. \A k \in 1..touched, p \in Nat :
          Faulting(demo.touches[k]) /\ p = demo.touches[k].page => Open(p)'
    BY <1>3, <2>2 DEF DemoCorrect, TouchInv
  <2>7. /\ demo.mode = "missing" => protected' = {}
        /\ demo.mode = "wp" => missing' = {}
    BY <1>2, <1>3 DEF DemoCorrect, TouchInv
  <2> QED BY <1>2, <1>3, <2>4, <2>5, <2>6, <2>7 DEF DemoCorrect, TouchInv, AllPages, Faulting, Open
<1> QED BY <1>4, <1>5, <1>6, <1>7 DEF DemoCorrect

(* The handler waits, ends or gives up: nothing but its place and the error *)
(* changes.                                                                 *)
LEMMA WaitCorrect ==
  ASSUME DemoCorrect, Poll \/ PollReturns \/ PollFails \/ GiveUp
  PROVE  DemoCorrect'
<1>1. /\ UNCHANGED <<demo, main, touched, memory, queue, fault, events, faults>>
      /\ handler \in {"loop", "poll", "resolve"}
      /\ handler' \in {"poll", "read", "ended"}
      /\ handler' = "read" => queue # <<>>
  BY DEF Poll, PollReturns, PollFails, GiveUp, shared
<1>2. /\ error' = "none" => error = "none"
      /\ error = "none" => error' \in {"none", "poll", "resolve"}
  BY DEF Poll, PollReturns, PollFails, GiveUp, shared
<1>3. main \notin {"none", "init", "register", "protect", "start"}
  BY <1>1 DEF DemoCorrect, DemoInv
<1>4. DemoInv'
  <2>1. DemoType'
    BY <1>1 DEF DemoCorrect, DemoInv, DemoType, AllPages
  <2> QED BY <1>1, <1>2, <1>3, <2>1 DEF DemoCorrect, DemoInv, AllTouched
<1>5. PrepareInv'
  BY <1>1, <1>3 DEF PrepareInv
<1>6. QueueInv'
  BY <1>1 DEF DemoCorrect, QueueInv
<1>7. TouchInv'
  <2>1. Armed' => Armed
    BY <1>1, <1>2 DEF Armed
  <2> QED BY <1>1, <2>1 DEF DemoCorrect, TouchInv, AllPages, Open, Faulting, memory
<1> QED BY <1>4, <1>5, <1>6, <1>7 DEF DemoCorrect

-----------------------------------------------------------------------------
(* The demo in mem-map-viewer.                                              *)

(* Whatever the command does, the demo stays correct.                       *)
LEMMA DemoInductive == DemoCorrect /\ [Next]_vars => DemoCorrect'
<1> SUFFICES ASSUME DemoCorrect, [Next]_vars PROVE DemoCorrect'
  OBVIOUS
<1>1. CASE Demo
  BY <1>1, MapDemoCorrect, PrepareCorrect, TouchCorrect, EndCorrect, ReadFaultCorrect,
     ResolveCorrect, WaitCorrect DEF Demo, DemoMain, Handler
<1>2. CASE UNCHANGED uffdVars
  BY <1>2 DEF uffdVars, DemoCorrect, DemoType, DemoInv, PrepareInv, QueueInv, TouchInv,
              AllPages, AllTouched, Armed, Open, Faulting
<1>3. ASSUME Next, ~Demo PROVE UNCHANGED uffdVars
  BY <1>3 DEF Next, ParseArgs, Diff, Cgroup, Limits, Clear, Scan, Move, TakeMaps, TakeSmaps,
              TakeProbe, GoOn, PerfStep, UseSnapshots, Watch, UNCHANGED_Tools
<1> QED BY <1>1, <1>2, <1>3 DEF vars

(* The events are the faults, in their order and once each, and complete    *)
(* when the demo ends without an error: for every length of the mapping,    *)
(* every number of attempts and every number of rounds that main waits.     *)
THEOREM FaultsComplete == Spec => []FaultsReported
<1>1. DemoCorrect => FaultsReported
  <2> SUFFICES ASSUME DemoCorrect PROVE FaultsReported
    OBVIOUS
  <2>1. IsPrefix(events, faults) /\ Len(faults) - Len(events) <= 1
    <3>1. events \in Seq(Fault)
      BY DEF DemoCorrect, QueueInv
    <3>2. CASE faults = events
      BY <3>1, <3>2 DEF IsPrefix
    <3>3. CASE \E f \in Fault : faults = Append(events, f)
      <4>1. PICK f \in Fault : faults = Append(events, f)
        BY <3>3
      <4>2. /\ Len(events) \in Nat /\ Len(faults) = Len(events) + 1
            /\ \A i \in 1..Len(events) : faults[i] = events[i]
        BY <3>1, <4>1
      <4>3. SubSeq(events, 1, Len(events)) = SubSeq(faults, 1, Len(events))
        BY <3>1, <4>1, <4>2
      <4> QED BY <4>2, <4>3 DEF IsPrefix
    <3> QED BY <3>2, <3>3 DEF DemoCorrect, QueueInv
  <2>2. main # "blocked" => events = faults
    BY DEF DemoCorrect, QueueInv
  <2>3. ASSUME main = "done", error = "none"
        PROVE  {f.page : f \in ToSet(events)} =
                 {t.page : t \in {u \in ToSet(demo.touches) : demo.mode = "missing" \/ u.write}}
    <3>1. Armed /\ touched = 3 /\ events = faults
      BY <2>2, <2>3 DEF Armed, AllTouched, DemoCorrect, DemoInv
    <3>2. ToSet(demo.touches) = {demo.touches[k] : k \in 1..3}
      BY DEF DemoCorrect, DemoInv, DemoType, ToSet
    <3>3. \A f \in ToSet(events) :
            \E k \in 1..3 : Faulting(demo.touches[k]) /\ f.page = demo.touches[k].page
      BY <3>1 DEF DemoCorrect, TouchInv
    <3>4. \A k \in 1..3 : Faulting(demo.touches[k]) =>
            \E f \in ToSet(events) : f.page = demo.touches[k].page
      BY <3>1 DEF DemoCorrect, DemoInv, DemoType, TouchInv
    <3> QED BY <3>2, <3>3, <3>4 DEF Faulting
  <2> QED BY <2>1, <2>2, <2>3 DEF FaultsReported
<1> QED BY <1>1, DemoInit, DemoInductive, PTL DEF Spec, Init

-----------------------------------------------------------------------------
(* The command that is run.                                                 *)

(* What is being run is what main chooses for an accepted command.          *)
CommandInv ==
  branch \notin {"parse", "error", "exit"} => Valid(command) /\ branch = Dispatch(command.words)

(* Nothing but parse_args chooses, and every command ends.                  *)
LEMMA CommandInductive == CommandInv /\ [Next]_vars => CommandInv'
<1> SUFFICES ASSUME CommandInv, [Next]_vars PROVE CommandInv'
  OBVIOUS
<1>1. UNCHANGED command /\ (ParseArgs \/ branch' \in {branch, "error", "exit"})
  BY DEF vars, mainVars, Next, Diff, Cgroup, Limits, Clear, Scan, Demo, Move, TakeMaps, TakeSmaps,
         TakeProbe, GoOn, PerfStep, Perf, UseSnapshots, Watch, Keep, Done, ParseArgs
<1>2. CASE ParseArgs
  BY <1>1, <1>2 DEF ParseArgs, CommandInv
<1>3. CASE branch' \in {branch, "error", "exit"}
  BY <1>1, <1>3 DEF CommandInv
<1> QED BY <1>1, <1>2, <1>3

(* Two different options among those that name a target are too many.       *)
LEMMA OneTarget ==
  ASSUME NEW w, OnePrimary(w), NEW a \in Primary(w), NEW b \in Primary(w)
  PROVE  a = b
<1>1. IsFiniteSet({"--pid", "--trace", "--diff", "--uffd-demo", "--cgroup"})
  <2>1. /\ \A x : IsFiniteSet({x})
        /\ \A S, T : IsFiniteSet(S) /\ IsFiniteSet(T) => IsFiniteSet(S \cup T)
    BY FS_Singleton, FS_Union
  <2>2. IsFiniteSet({"--pid"} \cup {"--trace"})
    BY <2>1
  <2>3. IsFiniteSet(({"--pid"} \cup {"--trace"}) \cup {"--diff"})
    BY <2>1, <2>2
  <2>4. IsFiniteSet((({"--pid"} \cup {"--trace"}) \cup {"--diff"}) \cup {"--uffd-demo"})
    BY <2>1, <2>3
  <2>5. IsFiniteSet(((({"--pid"} \cup {"--trace"}) \cup {"--diff"}) \cup {"--uffd-demo"}) \cup {"--cgroup"})
    BY <2>1, <2>4
  <2>6. {"--pid", "--trace", "--diff", "--uffd-demo", "--cgroup"} =
          ((({"--pid"} \cup {"--trace"}) \cup {"--diff"}) \cup {"--uffd-demo"}) \cup {"--cgroup"}
    OBVIOUS
  <2> QED BY <2>5, <2>6
<1>2. IsFiniteSet(Primary(w))
  BY <1>1, FS_Subset DEF Primary
<1>3. \E x : Primary(w) = {x}
  BY <1>2, FS_Singleton DEF OnePrimary, Count
<1> QED BY <1>3

(* Nor is there more than one command on a range.                           *)
LEMMA OnePageMode ==
  ASSUME NEW w, Count(w \cap PageModes) <= 1, NEW a \in w \cap PageModes, NEW b \in w \cap PageModes
  PROVE  a = b
<1>1. IsFiniteSet(PageModes)
  <2>1. PageModes = ({"--pages"} \cup {"--numa"}) \cup {"--page-flags"}
    BY DEF PageModes
  <2> QED BY <2>1, FS_Singleton, FS_Union
<1>2. IsFiniteSet(w \cap PageModes) /\ Cardinality(w \cap PageModes) \in Nat
  BY <1>1, FS_Subset, FS_CardinalityType
<1>3. Cardinality(w \cap PageModes) = 1
  BY <1>2, FS_EmptySet DEF Count
<1>4. \E x : w \cap PageModes = {x}
  BY <1>2, <1>3, FS_Singleton
<1> QED BY <1>4

(* What an accepted command that main chose to run has in it.               *)
LEMMA Served ==
  ASSUME NEW c, Valid(c), NEW w, w = c.words
  PROVE  /\ Dispatch(w) \in {"diff", "uffd", "cgroup", "trace"} \/ "--pid" \in w
         /\ Dispatch(w) \in {"pages", "numa", "page_flags"} => "--range" \in w
         /\ "--diff" \in w <=> Dispatch(w) = "diff"
         /\ "--uffd-demo" \in w <=> Dispatch(w) = "uffd"
         /\ "--trace" \in w <=> Dispatch(w) = "trace"
         /\ "--pages" \in w <=> Dispatch(w) = "pages"
         /\ "--numa" \in w <=> Dispatch(w) = "numa"
         /\ "--page-flags" \in w <=> Dispatch(w) = "page_flags"
         /\ "--clear-soft-dirty" \in w <=> Dispatch(w) = "clear"
         /\ "--reconcile" \in w => Dispatch(w) = "process"
<1> DEFINE two == {"--insights", "--pid", "--cgroup"} \subseteq w
<1>1. /\ OnePrimary(w)
      /\ "--insights" \in w => w \cap {"--trace", "--diff", "--uffd-demo"} = {}
      /\ "--pid" \notin w => w \cap NeedPid = {}
      /\ Count(w \cap PageModes) <= 1
      /\ "--range" \in w <=> w \cap PageModes # {}
      /\ "--clear-soft-dirty" \in w => w \cap PageModes = {}
      /\ "--limits" \in w => w \cap (PageModes \cup {"--clear-soft-dirty", "--reconcile"}) = {}
      /\ "--reconcile" \in w => w \cap (PageModes \cup {"--clear-soft-dirty"}) = {}
  BY DEF Valid
<1>2. \A a, b \in Primary(w) : a = b
  BY <1>1, OneTarget
<1>3. /\ {"--pid", "--trace", "--diff", "--uffd-demo"} \cap w \subseteq Primary(w)
      /\ "--cgroup" \in w /\ ~two => "--cgroup" \in Primary(w)
  BY DEF Primary
<1>4. \E a \in Primary(w) : a \in {"--pid", "--trace", "--diff", "--uffd-demo", "--cgroup"} /\ a \in w
  <2>1. Primary(w) # {}
    BY <1>1, FS_EmptySet DEF OnePrimary, Count
  <2> QED BY <2>1 DEF Primary
<1>5. \A a, b \in w \cap PageModes : a = b
  BY <1>1, OnePageMode
<1>6. CASE "--diff" \in w
  <2>1. w \cap {"--pid", "--trace", "--uffd-demo"} = {}
    BY <1>2, <1>3, <1>6
  <2>2. w \cap NeedPid = {}
    BY <1>1, <2>1
  <2>3. Dispatch(w) = "diff"
    BY <1>6 DEF Dispatch
  <2> QED BY <1>6, <2>1, <2>2, <2>3 DEF NeedPid, PageModes
<1>7. CASE "--diff" \notin w /\ "--uffd-demo" \in w
  <2>1. w \cap {"--pid", "--trace"} = {}
    BY <1>2, <1>3, <1>7
  <2>2. w \cap NeedPid = {}
    BY <1>1, <2>1
  <2>3. Dispatch(w) = "uffd"
    BY <1>7 DEF Dispatch
  <2> QED BY <1>7, <2>1, <2>2, <2>3 DEF NeedPid, PageModes
<1>8. CASE "--diff" \notin w /\ "--uffd-demo" \notin w
  <2>1. Dispatch(w) =
          IF "--cgroup" \in w /\ ~({"--insights", "--pid"} \subseteq w) THEN "cgroup"
          ELSE IF "--trace" \in w THEN "trace"
          ELSE IF "--pages" \in w THEN "pages"
          ELSE IF "--numa" \in w THEN "numa"
          ELSE IF "--page-flags" \in w THEN "page_flags"
          ELSE IF "--clear-soft-dirty" \in w THEN "clear"
          ELSE IF "--limits" \in w /\ "--insights" \notin w THEN "limits"
          ELSE "process"
    BY <1>8 DEF Dispatch
  <2>2. CASE "--cgroup" \in w /\ ~({"--insights", "--pid"} \subseteq w)
    <3>1. "--pid" \notin w /\ "--trace" \notin w
      BY <1>2, <1>3, <2>2
    <3>2. w \cap NeedPid = {}
      BY <1>1, <3>1
    <3>3. Dispatch(w) = "cgroup"
      BY <2>1, <2>2
    <3> QED BY <1>8, <3>1, <3>2, <3>3 DEF NeedPid, PageModes
  <2>3. CASE ~("--cgroup" \in w /\ ~({"--insights", "--pid"} \subseteq w)) /\ "--trace" \in w
    <3>1. "--pid" \notin w
      BY <1>2, <1>3, <2>3
    <3>2. w \cap NeedPid = {}
      BY <1>1, <3>1
    <3>3. Dispatch(w) = "trace"
      BY <2>1, <2>3
    <3> QED BY <1>8, <2>3, <3>1, <3>2, <3>3 DEF NeedPid, PageModes
  <2>4. CASE ~("--cgroup" \in w /\ ~({"--insights", "--pid"} \subseteq w)) /\ "--trace" \notin w
    <3>1. "--pid" \in w
      BY <1>4, <1>8, <2>4
    <3>2. Dispatch(w) \notin {"diff", "uffd", "cgroup", "trace"}
      BY <2>1, <2>4
    <3>3. /\ "--pages" \in w <=> Dispatch(w) = "pages"
          /\ "--numa" \in w <=> Dispatch(w) = "numa"
          /\ "--page-flags" \in w <=> Dispatch(w) = "page_flags"
      BY <1>5, <2>1, <2>4 DEF PageModes
    <3>4. "--clear-soft-dirty" \in w <=> Dispatch(w) = "clear"
      BY <1>1, <2>1, <2>4 DEF PageModes
    <3>5. "--reconcile" \in w => Dispatch(w) = "process"
      BY <1>1, <2>1, <2>4 DEF PageModes
    <3>6. Dispatch(w) \in {"pages", "numa", "page_flags"} => "--range" \in w
      BY <1>1, <3>3 DEF PageModes
    <3> QED BY <1>8, <2>4, <3>1, <3>2, <3>3, <3>4, <3>5, <3>6
  <2> QED BY <2>2, <2>3, <2>4
<1> QED BY <1>6, <1>7, <1>8

(* An accepted command is the one that is run, for every set of options,    *)
(* known or not.                                                            *)
THEOREM CommandsServed == Spec => []CommandServed
<1>1. Init => CommandInv
  BY DEF Init, CommandInv
<1>2. CommandInv => CommandServed
  BY Served DEF CommandInv, CommandServed
<1> QED BY <1>1, <1>2, CommandInductive, PTL DEF Spec

-----------------------------------------------------------------------------
(* A scan of pages beside the process that changes them.                    *)

(* The marks of a page now.                                                 *)
Now(p) == Marks(page, swapped, p)

(* A page in memory is not in swap; and what a scan is compared with: the   *)
(* marks that a page kept all along it has now, and those that it has now   *)
(* it had at some time.                                                     *)
PagesInv ==
  /\ page \in [Pages -> [frame : Nat, dirty : BOOLEAN]]
  /\ \A p \in Pages : Present(p) => p \notin swapped
  /\ \A p \in Pages : always[p] \subseteq Now(p) /\ Now(p) \subseteq ever[p]

(* The fields of a scan.                                                    *)
ShapeInv ==
  /\ scan = [kind |-> scan.kind, begin |-> scan.begin, length |-> scan.length,
             frames |-> scan.frames, first |-> scan.first, total |-> scan.total,
             read |-> scan.read, pfn |-> scan.pfn, counts |-> scan.counts, moved |-> scan.moved,
             state |-> scan.state]
  /\ scan.moved \in Nat /\ IsCounter(scan.counts)

Active == scan.state \in {"reading", "frame", "available"}

(* The pages of a range, and how many of them are read.                     *)
RangeInv ==
  /\ scan.first \in Nat /\ scan.total \in Nat \ {0} /\ scan.read \in 0..scan.total
  /\ scan.first..(scan.first + scan.total - 1) \subseteq Pages
  /\ scan.begin + scan.length <= MaxAddr - PageUnits + 1 =>
       scan.first..(scan.first + scan.total - 1) = Asked(scan)
  /\ scan.state = "available" <=> scan.read = scan.total
  /\ scan.kind \in {"pages", "page_flags", "numa"}
  /\ scan.state = "frame" => scan.kind = "page_flags" /\ Shown /\ scan.pfn # 0

(* Of the pages P, n are between those that had a mark all along and those  *)
(* that had it at some time, give or take off.                              *)
Near(n, off, A, E, P) == Cardinality(A \cap P) <= n + off /\ n <= Cardinality(E \cap P) + off

Met(mark) == Tally(scan.counts, mark)
Bounded(mark, off, P) == Near(Met(mark), off, With(always, mark), With(ever, mark), P)

(* The pages that are done, and those whose entry is read.                  *)
Finished == scan.first..(scan.first + scan.read - 1)
Behind ==
  scan.first..(scan.first + scan.read + (IF scan.state = "frame" THEN 1 ELSE 0) - 1)

PagemapCounts ==
  /\ Bounded(InSwap, 0, Behind) /\ Bounded(SoftDirty, 0, Behind)
  /\ Met(InMemory) + Met(InSwap) <= scan.read
  /\ Met(Visible) = IF Shown THEN Met(InMemory) + Met(InSwap) ELSE 0

FlagCount(f) ==
  IF Shown THEN Bounded(Flag(f), scan.moved, Finished) ELSE Met(Flag(f)) = 0

FlagsCounts ==
  /\ Met(Visible) + If(scan.state = "frame") = IF Shown THEN Met(InMemory) ELSE 0
  /\ \A f : FlagCount(f)

NumaCounts ==
  /\ \A n : Bounded(OnNode(n), 0, Behind)
  /\ IsFiniteSet(DOMAIN scan.counts)
  /\ Total(scan.counts, NodeMarks(scan.counts)) = Met(InMemory)

CountsInv ==
  /\ Bounded(InMemory, 0, Behind)
  /\ scan.kind = "pages" => PagemapCounts
  /\ scan.kind = "page_flags" => FlagsCounts
  /\ scan.kind = "numa" => NumaCounts

ScanInv == PagesInv /\ ShapeInv /\ (Active => RangeInv /\ CountsInv)

-----------------------------------------------------------------------------
(* Whole pages.                                                             *)

LEMMA DivBounds ==
  ASSUME NEW U \in Nat \ {0}, NEW x \in Nat
  PROVE  /\ x \div U \in Nat
         /\ (x \div U) * U <= x /\ x < (x \div U) * U + U
         /\ x % U = x - (x \div U) * U
OBVIOUS

LEMMA MulMono ==
  ASSUME NEW U \in Nat \ {0}, NEW a \in Int, NEW b \in Int, a < b
  PROVE  a * U + U <= b * U
OBVIOUS

LEMMA DivUnique ==
  ASSUME NEW U \in Nat \ {0}, NEW q \in Int, NEW x \in Int, q * U <= x, x < q * U + U
  PROVE  x \div U = q
OBVIOUS

LEMMA ProductInteger == ASSUME NEW a \in Int, NEW b \in Int PROVE a * b \in Int
OBVIOUS

(* The address space is whole pages.                                        *)
LEMMA PagesCount ==
  \E K \in Nat \ {0} : MaxAddr + 1 = K * PageUnits /\ Pages = 0..(K - 1)
<1> DEFINE K == (MaxAddr + 1) \div PageUnits
<1>1. PageUnits \in Nat \ {0} /\ MaxAddr \in Nat /\ MaxAddr + 1 \in Nat /\ (MaxAddr + 1) % PageUnits = 0
  BY PageScansAssumption
<1>2. K \in Nat /\ K * PageUnits \in Int /\ (MaxAddr + 1) % PageUnits = (MaxAddr + 1) - K * PageUnits
  <2>1. K \in Nat /\ (MaxAddr + 1) % PageUnits = (MaxAddr + 1) - K * PageUnits
    BY <1>1, DivBounds
  <2> HIDE DEF K
  <2> QED BY <1>1, <2>1, ProductInteger
<1>3. MaxAddr + 1 = K * PageUnits
  <2> HIDE DEF K
  <2> QED BY <1>1, <1>2
<1>4. K # 0
  <2> HIDE DEF K
  <2> QED BY <1>1, <1>2, <1>3
<1>5. MaxAddr \div PageUnits = K - 1
  <2> HIDE DEF K
  <2>1. (K - 1) * PageUnits = K * PageUnits - PageUnits
    BY <1>1, <1>2
  <2>2. K - 1 \in Int
    BY <1>2
  <2>3. (K - 1) * PageUnits <= MaxAddr /\ MaxAddr < (K - 1) * PageUnits + PageUnits
    BY <1>1, <1>2, <1>3, <2>1
  <2> QED BY <1>1, <2>2, <2>3, DivUnique
<1> QED BY <1>2, <1>3, <1>4, <1>5 DEF Pages

(* A rounded end: whole pages; but the last page of all is left out.        *)
LEMMA RoundedEnd ==
  ASSUME NEW end \in 0..MaxAddr
  PROVE  \E q \in Nat : LET U == PageUnits IN
           \/ RoundUp(end) = q * U /\ (q - 1) * U < end /\ end <= q * U
           \/ RoundUp(end) = q * U + (U - 1) /\ q * U < end /\ MaxAddr = q * U + (U - 1)
<1> DEFINE U == PageUnits
           q == end \div U
<1>1. U \in Nat \ {0} /\ MaxAddr \in Nat /\ end \in Nat
  BY PageScansAssumption
<1>2. q \in Nat /\ q * U \in Int /\ q * U <= end /\ end < q * U + U /\ end % U = end - q * U
  <2>1. q \in Nat /\ q * U <= end /\ end < q * U + U /\ end % U = end - q * U
    BY <1>1, DivBounds
  <2> HIDE DEF q, U
  <2> QED BY <1>1, <2>1, ProductInteger
<1>3. PICK K \in Nat \ {0} : MaxAddr + 1 = K * U /\ K * U \in Int
  BY <1>1, PagesCount, ProductInteger
<1>4. (q + 1) * U = q * U + U /\ (q - 1) * U = q * U - U /\ q + 1 \in Nat
  <2> HIDE DEF q, U
  <2> QED BY <1>1, <1>2
<1>5. CASE end % U = 0
  <2>1. RoundUp(end) = end /\ end = q * U
    <3>1. RoundUp(end) = end
      BY <1>5 DEF RoundUp
    <3> HIDE DEF q, U, RoundUp
    <3> QED BY <1>1, <1>2, <1>5, <3>1
  <2>2. RoundUp(end) = q * U /\ (q - 1) * U < end /\ end <= q * U
    <3> HIDE DEF q, U, RoundUp
    <3> QED BY <1>1, <1>2, <1>4, <2>1
  <2> QED BY <1>2, <2>2
<1>6. CASE end % U # 0 /\ MaxAddr - end < U - (end % U)
  <2>1. RoundUp(end) = MaxAddr
    BY <1>1, <1>6 DEF RoundUp
  <2>2. MaxAddr < q * U + U /\ q * U < end
    <3>1. end % U # 0 /\ MaxAddr - end < U - (end % U)
      BY <1>6
    <3> HIDE DEF q, U, RoundUp
    <3> QED BY <1>1, <1>2, <3>1
  <2>3. ~(q + 1 < K) /\ ~(K < q + 1)
    <3> HIDE DEF q, U, RoundUp
    <3>1. q + 1 < K => (q + 1) * U + U <= K * U
      BY <1>1, <1>2, MulMono
    <3>2. K < q + 1 => K * U + U <= (q + 1) * U
      BY <1>1, <1>2, MulMono
    <3> QED BY <1>1, <1>2, <1>3, <1>4, <2>2, <3>1, <3>2
  <2>4. MaxAddr = q * U + (U - 1)
    <3> HIDE DEF q, U, RoundUp
    <3>1. K = q + 1
      BY <1>2, <2>3
    <3> QED BY <1>1, <1>2, <1>3, <1>4, <3>1
  <2> QED BY <1>2, <2>1, <2>2, <2>4
<1>7. CASE end % U # 0 /\ ~(MaxAddr - end < U - (end % U))
  <2>1. RoundUp(end) = end + (U - (end % U))
    BY <1>1, <1>7 DEF RoundUp
  <2>2. RoundUp(end) = (q + 1) * U /\ (q + 1 - 1) * U < end /\ end <= (q + 1) * U
    <3>2. end % U # 0
      BY <1>7
    <3> HIDE DEF q, U, RoundUp
    <3>1. q + 1 - 1 = q
      BY <1>2
    <3> QED BY <1>1, <1>2, <1>4, <3>2, <2>1, <3>1
  <2>3. PICK r \in Nat : r = q + 1
    <3> HIDE DEF q, U
    <3> QED BY <1>4
  <2>4. RoundUp(end) = r * U /\ (r - 1) * U < end /\ end <= r * U
    <3> HIDE DEF q, U, RoundUp
    <3>1. r * U = q * U + U /\ (r - 1) * U = q * U
      BY <1>1, <1>2, <2>3
    <3>2. (q + 1) * U = q * U + U /\ (q + 1 - 1) * U = q * U
      BY <1>1, <1>2
    <3> QED BY <2>2, <3>1, <3>2
  <2> HIDE DEF q, RoundUp
  <2> QED BY <2>4
<1> QED BY <1>5, <1>6, <1>7

(* A scan that begins reads pages of the process, and those that its range  *)
(* touches.                                                                 *)
Reads(s, kind, begin, length, frames) ==
  /\ s = [kind |-> kind, begin |-> begin, length |-> length, frames |-> frames,
          first |-> s.first, total |-> s.total, read |-> 0, pfn |-> 0, counts |-> <<>>,
          moved |-> 0, state |-> "reading"]
  /\ s.first \in Nat /\ s.total \in Nat \ {0}
  /\ s.first..(s.first + s.total - 1) \subseteq Pages
  /\ begin + length <= MaxAddr - PageUnits + 1 =>
       s.first..(s.first + s.total - 1) = Asked(s)

LEMMA PlannedRange ==
  ASSUME NEW kind, NEW begin \in 0..MaxAddr, NEW length \in 1..(MaxAddr + 1), NEW frames,
         NEW s, s = Planned(kind, begin, length, frames), s.state = "reading"
  PROVE  Reads(s, kind, begin, length, frames)
<1> DEFINE U == PageUnits
           end == begin + length
           b == begin \div U
           total == (RoundUp(end) - b * U) \div U
<1>1. U \in Nat \ {0} /\ MaxAddr \in Nat /\ begin \in Nat /\ length \in Nat \ {0}
  BY PageScansAssumption
<1>2. b \in Nat /\ b * U \in Int /\ b * U <= begin /\ begin < b * U + U
  <2>1. b \in Nat /\ b * U <= begin /\ begin < b * U + U
    BY <1>1, DivBounds
  <2> HIDE DEF b, U
  <2> QED BY <1>1, <2>1, ProductInteger
<1>3. RoundDown(begin) = b * U /\ RoundDown(begin) \div U = b
  <2>1. RoundDown(begin) = b * U
    BY DEF RoundDown
  <2> HIDE DEF b, U
  <2>2. (b * U) \div U = b
    BY <1>1, <1>2, DivUnique
  <2> QED BY <2>1, <2>2
<1>4. /\ ~(MaxAddr - begin < length) /\ total # 0
      /\ s = [kind |-> kind, begin |-> begin, length |-> length, frames |-> frames,
              first |-> b, total |-> total, read |-> 0, pfn |-> 0, counts |-> <<>>,
              moved |-> 0, state |-> "reading"]
  <2>1. ~(MaxAddr - begin < length) /\ total # 0
        /\ s = Report(kind, begin, length, frames, total, "reading")
    <3>1. /\ \A k, B, l, f, t, st : Report(k, B, l, f, t, st).state = st
          /\ total = (RoundUp(begin + length) - RoundDown(begin)) \div PageUnits
      BY <1>3 DEF Report
    <3> HIDE DEF total, b
    <3> QED BY <3>1 DEF Planned
  <2> HIDE DEF b
  <2> QED BY <1>3, <2>1 DEF Report
<1>5. end \in 0..MaxAddr
  BY <1>1, <1>4
<1>6. PICK K \in Nat \ {0} : MaxAddr + 1 = K * U /\ K * U \in Int /\ Pages = 0..(K - 1)
  BY <1>1, PagesCount, ProductInteger
<1>7. PICK q \in Nat :
        \/ RoundUp(end) = q * U /\ (q - 1) * U < end /\ end <= q * U
        \/ RoundUp(end) = q * U + (U - 1) /\ q * U < end /\ MaxAddr = q * U + (U - 1)
  <2> HIDE DEF end
  <2> QED BY <1>5, RoundedEnd
<1>8. q * U \in Int /\ (q - 1) * U = q * U - U /\ (q - b) * U = q * U - b * U /\ q - b \in Int
  <2> HIDE DEF U, b
  <2> QED BY <1>1, <1>2
<1>9. total = q - b
  <2>1. /\ RoundUp(end) - b * U \in Int
        /\ (q - b) * U <= RoundUp(end) - b * U /\ RoundUp(end) - b * U < (q - b) * U + U
    <3> HIDE DEF U, b, end, RoundUp
    <3> QED BY <1>1, <1>2, <1>7, <1>8
  <2> HIDE DEF U, b, end, RoundUp
  <2> QED BY <1>1, <1>8, <2>1, DivUnique
<1> HIDE DEF U, b, end, total
<1>10. end = begin + length /\ U = PageUnits /\ end \in Nat
  BY <1>1 DEF end, U
<1>11. b <= q /\ b < q /\ q <= K
  <2>1. q < b => q * U + U <= b * U
    BY <1>1, <1>2, MulMono
  <2>2. K < q => K * U + U <= q * U
    BY <1>1, MulMono
  <2> QED BY <1>1, <1>2, <1>4, <1>5, <1>6, <1>7, <1>8, <1>9, <1>10, <2>1, <2>2
<1>12. b..(q - 1) \subseteq Pages
  BY <1>2, <1>6, <1>11
<1>13. ASSUME end <= MaxAddr - U + 1 PROVE b..(q - 1) = Asked(s)
  <2>1. (q - 1) * U < end /\ end <= q * U
    BY <1>1, <1>5, <1>7, <1>8, <1>10, <1>13
  <2>2. ASSUME NEW p \in Pages PROVE p \in b..(q - 1) <=> p * U < end /\ begin < (p + 1) * U
    <3>1. p \in Nat /\ p * U \in Int /\ (p + 1) * U = p * U + U
      BY <1>1, <1>6
    <3>2. p < b => p * U + U <= b * U
      BY <1>1, <1>2, <3>1, MulMono
    <3>3. b < p => b * U + U <= p * U
      BY <1>1, <1>2, <3>1, MulMono
    <3>4. p < q - 1 => p * U + U <= (q - 1) * U
      BY <1>1, <3>1, MulMono
    <3>5. q <= p => q * U <= p * U
      <4>1. q < p => q * U + U <= p * U
        BY <1>1, <3>1, MulMono
      <4> QED BY <1>1, <1>8, <3>1, <4>1
    <3>6. CASE p < b
      BY <1>1, <1>2, <3>1, <3>2, <3>6
    <3>7. CASE q <= p
      BY <1>1, <1>2, <1>8, <1>10, <2>1, <3>1, <3>5, <3>7
    <3>8. CASE b <= p /\ p < q
      <4>1. p * U < end
        <5>1. p = q - 1 \/ p < q - 1
          BY <3>1, <3>8
        <5>2. CASE p = q - 1
          BY <2>1, <5>2
        <5>3. CASE p < q - 1
          BY <1>1, <1>8, <1>10, <2>1, <3>1, <3>4, <5>3
        <5> QED BY <5>1, <5>2, <5>3
      <4>2. begin < (p + 1) * U
        <5>1. b = p \/ b < p
          BY <1>2, <3>1, <3>8
        <5>2. CASE b = p
          BY <1>2, <3>1, <5>2
        <5>3. CASE b < p
          BY <1>1, <1>2, <3>1, <3>3, <5>3
        <5> QED BY <5>1, <5>2, <5>3
      <4> QED BY <1>2, <3>1, <3>8, <4>1, <4>2
    <3> QED BY <1>2, <3>1, <3>6, <3>7, <3>8
  <2>3. Asked(s) = {p \in Pages : p * U < end /\ begin < (p + 1) * U}
    BY <1>4, <1>10 DEF Asked
  <2> QED BY <1>12, <2>2, <2>3
<1> QED BY <1>2, <1>4, <1>9, <1>10, <1>11, <1>12, <1>13 DEF Reads

-----------------------------------------------------------------------------
(* Counts between the pages that kept a mark and those that ever had it.    *)

LEMMA NearNone == ASSUME NEW A, NEW E PROVE Near(0, 0, A, E, {})
<1>1. A \cap {} = {} /\ E \cap {} = {}
  OBVIOUS
<1> QED BY <1>1, FS_EmptySet DEF Near

(* One more page is counted if it has the mark now, or what is counted for  *)
(* it is given up.                                                          *)
LEMMA NearNext ==
  ASSUME NEW P, IsFiniteSet(P), NEW p, p \notin P, NEW A, NEW E, NEW n \in Nat, NEW off \in Nat,
         Near(n, off, A, E, P), NEW d \in 0..1, NEW e \in 0..1,
         e = 1 \/ (p \in A => d = 1), e = 1 \/ (d = 1 => p \in E)
  PROVE  Near(n + d, off + e, A, E, P \cup {p})
<1>1. ASSUME NEW B PROVE /\ Cardinality(B \cap P) \in Nat
                         /\ Cardinality(B \cap (P \cup {p})) =
                              Cardinality(B \cap P) + (IF p \in B THEN 1 ELSE 0)
  <2>1. IsFiniteSet(B \cap P) /\ p \notin B \cap P
    BY FS_Intersection
  <2>2. Cardinality(B \cap P) \in Nat /\ Cardinality((B \cap P) \cup {p}) = Cardinality(B \cap P) + 1
    BY <2>1, FS_CardinalityType, FS_AddElement
  <2>3. CASE p \in B
    <3>1. B \cap (P \cup {p}) = (B \cap P) \cup {p}
      BY <2>3
    <3> QED BY <2>2, <2>3, <3>1
  <2>4. CASE p \notin B
    <3>1. B \cap (P \cup {p}) = B \cap P
      BY <2>4
    <3> QED BY <2>2, <2>4, <3>1
  <2> QED BY <2>3, <2>4
<1>2. Cardinality(A \cap P) <= n + off /\ n <= Cardinality(E \cap P) + off
  BY DEF Near
<1>3. Cardinality(A \cap (P \cup {p})) <= (n + d) + (off + e)
  BY <1>1, <1>2
<1>4. n + d <= Cardinality(E \cap (P \cup {p})) + (off + e)
  BY <1>1, <1>2
<1> QED BY <1>3, <1>4 DEF Near

(* The process goes on: fewer pages kept the mark, more ever had it.        *)
LEMMA NearMonotone ==
  ASSUME NEW P, IsFiniteSet(P), NEW A, NEW E, NEW n \in Nat, NEW off \in Nat, Near(n, off, A, E, P),
         NEW B, NEW F, B \subseteq A, E \subseteq F
  PROVE  Near(n, off, B, F, P)
<1>1. /\ IsFiniteSet(A \cap P) /\ IsFiniteSet(B \cap P) /\ IsFiniteSet(E \cap P) /\ IsFiniteSet(F \cap P)
      /\ B \cap P \subseteq A \cap P /\ E \cap P \subseteq F \cap P
  BY FS_Intersection
<1>2. /\ Cardinality(B \cap P) <= Cardinality(A \cap P)
      /\ Cardinality(E \cap P) <= Cardinality(F \cap P)
      /\ Cardinality(A \cap P) \in Nat /\ Cardinality(B \cap P) \in Nat
      /\ Cardinality(E \cap P) \in Nat /\ Cardinality(F \cap P) \in Nat
  BY <1>1, FS_Subset, FS_CardinalityType
<1> QED BY <1>2 DEF Near

-----------------------------------------------------------------------------
(* Marks, and counting them.                                                *)

LEMMA MarksDiffer ==
  /\ InMemory # InSwap /\ InMemory # SoftDirty /\ InMemory # Visible
  /\ InSwap # SoftDirty /\ InSwap # Visible /\ SoftDirty # Visible
  /\ \A f : Flag(f) \notin {InMemory, InSwap, SoftDirty, Visible}
  /\ \A n : OnNode(n) \notin {InMemory, InSwap, SoftDirty, Visible}
  /\ \A f, n : Flag(f) # OnNode(n)
  /\ \A f, g : Flag(f) = Flag(g) => f = g
  /\ \A n, k : OnNode(n) = OnNode(k) => n = k
  /\ \A n : OnNode(n)[1] = "node"
  /\ InMemory[1] # "node"
BY DEF InMemory, InSwap, SoftDirty, Visible, Flag, OnNode

LEMMA MarksOfPage ==
  ASSUME NEW pages, NEW out, NEW p
  PROVE  /\ InMemory \in Marks(pages, out, p) <=> pages[p].frame # 0
         /\ InSwap \in Marks(pages, out, p) <=> p \in out
         /\ SoftDirty \in Marks(pages, out, p) <=> pages[p].dirty
         /\ \A f : Flag(f) \in Marks(pages, out, p) <=> pages[p].frame # 0 /\ f \in FrameFlags[pages[p].frame]
         /\ \A n : OnNode(n) \in Marks(pages, out, p) <=> pages[p].frame # 0 /\ n = Node[pages[p].frame]
<1> HIDE DEF InMemory, InSwap, SoftDirty, Flag, OnNode
<1>1. \A f : Flag(f) \in FlagMarks(pages[p].frame) <=> f \in FrameFlags[pages[p].frame]
  BY MarksDiffer DEF FlagMarks
<1>2. InMemory \notin FlagMarks(pages[p].frame) /\ InSwap \notin FlagMarks(pages[p].frame)
      /\ SoftDirty \notin FlagMarks(pages[p].frame) /\ \A n : OnNode(n) \notin FlagMarks(pages[p].frame)
  BY MarksDiffer DEF FlagMarks
<1> HIDE DEF FlagMarks
<1>3. InMemory \in Marks(pages, out, p) <=> pages[p].frame # 0
  BY <1>1, <1>2, MarksDiffer DEF Marks, When
<1>4. InSwap \in Marks(pages, out, p) <=> p \in out
  BY <1>1, <1>2, MarksDiffer DEF Marks, When
<1>5. SoftDirty \in Marks(pages, out, p) <=> pages[p].dirty
  BY <1>1, <1>2, MarksDiffer DEF Marks, When
<1>6. ASSUME NEW f PROVE Flag(f) \in Marks(pages, out, p) <=> pages[p].frame # 0 /\ f \in FrameFlags[pages[p].frame]
  BY <1>1, <1>2, MarksDiffer DEF Marks, When
<1>7. ASSUME NEW n PROVE OnNode(n) \in Marks(pages, out, p) <=> pages[p].frame # 0 /\ n = Node[pages[p].frame]
  BY <1>1, <1>2, MarksDiffer DEF Marks, When
<1> QED BY <1>3, <1>4, <1>5, <1>6, <1>7

LEMMA TallyNatural == ASSUME NEW b, IsCounter(b), NEW m PROVE Tally(b, m) \in Nat
BY DEF IsCounter, Tally

LEMMA TallyCounted ==
  ASSUME NEW b, IsCounter(b), NEW marks
  PROVE  /\ IsCounter(Counted(b, marks)) /\ DOMAIN Counted(b, marks) = DOMAIN b \cup marks
         /\ \A m : Tally(Counted(b, marks), m) = Tally(b, m) + If(m \in marks)
<1>1. DOMAIN Counted(b, marks) = DOMAIN b \cup marks
  BY DEF Counted
<1>2. \A m \in DOMAIN b \cup marks : Counted(b, marks)[m] = Tally(b, m) + If(m \in marks)
  BY DEF Counted
<1>3. \A m : Tally(b, m) \in Nat /\ If(m \in marks) \in 0..1
  BY TallyNatural DEF If
<1>4. IsCounter(Counted(b, marks))
  BY <1>1, <1>2, <1>3 DEF IsCounter
<1>5. ASSUME NEW m PROVE Tally(Counted(b, marks), m) = Tally(b, m) + If(m \in marks)
  <2>1. CASE m \in DOMAIN b \cup marks
    BY <1>1, <1>2, <2>1 DEF Tally
  <2>2. CASE m \notin DOMAIN b \cup marks
    BY <1>1, <2>2 DEF Tally, If
  <2> QED BY <2>1, <2>2
<1> QED BY <1>1, <1>4, <1>5

(* Pages in memory are counted with the node that each is on.               *)
LEMMA NodesCounted ==
  ASSUME NEW b, IsCounter(b), IsFiniteSet(DOMAIN b), NEW n, NEW c, c = Counted(b, {InMemory, OnNode(n)})
  PROVE  IsFiniteSet(DOMAIN c) /\ Total(c, NodeMarks(c)) = Total(b, NodeMarks(b)) + 1
<1> DEFINE m == OnNode(n)
           N == NodeMarks(b)
<1>1. /\ DOMAIN c = DOMAIN b \cup {InMemory, m} /\ IsCounter(c)
      /\ \A x : Tally(c, x) = Tally(b, x) + If(x \in {InMemory, m})
  BY TallyCounted
<1>2. IsFiniteSet(DOMAIN c)
  <2>1. DOMAIN c = (DOMAIN b \cup {InMemory}) \cup {m}
    BY <1>1
  <2>2. IsFiniteSet(DOMAIN b \cup {InMemory})
    BY FS_AddElement
  <2> QED BY <2>1, <2>2, FS_AddElement
<1>3. m[1] = "node" /\ InMemory[1] # "node"
  BY MarksDiffer
<1> HIDE DEF m
<1>4. NodeMarks(c) = N \cup {m} /\ N \subseteq DOMAIN b /\ (m \in DOMAIN b <=> m \in N)
  BY <1>1, <1>3 DEF NodeMarks
<1>5. IsFiniteSet(N)
  BY <1>4, FS_Subset
<1>6. \A y \in DOMAIN b : b[y] \in Nat
  BY DEF IsCounter
<1>7. \A y \in DOMAIN c : c[y] = Tally(b, y) + If(y \in {InMemory, m})
  BY <1>1 DEF Tally
<1>8. InMemory \notin N
  BY <1>3 DEF NodeMarks
<1>9. /\ \A y \in N : b[y] \in Int /\ c[y] = b[y] + (IF y = m THEN 1 ELSE 0)
      /\ \A y \in N : b[y] \in Int /\ c[y] \in Int
      /\ m \notin N => c[m] = 1
  <2> HIDE DEF N
  <2>1. ASSUME NEW y \in N PROVE b[y] \in Int /\ c[y] = b[y] + (IF y = m THEN 1 ELSE 0)
    <3>1. y \in DOMAIN b /\ y \in DOMAIN c /\ y # InMemory
      BY <1>1, <1>4, <1>8
    <3> QED BY <1>6, <1>7, <3>1 DEF Tally, If
  <2>2. ASSUME m \notin N PROVE c[m] = 1
    <3>1. m \notin DOMAIN b /\ m \in DOMAIN c
      BY <1>1, <1>4, <2>2
    <3> QED BY <1>7, <3>1 DEF Tally, If
  <2>3. ASSUME NEW y \in N PROVE b[y] \in Int /\ c[y] \in Int
    <3>1. b[y] \in Int /\ c[y] = b[y] + (IF y = m THEN 1 ELSE 0)
      BY <2>1
    <3> QED BY <3>1
  <2> QED BY <2>1, <2>2, <2>3
<1> HIDE DEF N
<1>10. CASE m \in N
  <2>1. Total(c, N) = Total(b, N) + 1
    BY <1>5, <1>9, <1>10, TotalGrows
  <2>2. NodeMarks(c) = N
    BY <1>4, <1>10
  <2> QED BY <1>2, <2>1, <2>2 DEF N
<1>11. CASE m \notin N
  <2>1. Total(c, N \cup {m}) = Total(c, N) + c[m]
    <3>1. \A y \in N : c[y] \in Int
      BY <1>9
    <3>2. c[m] \in Int
      BY <1>9, <1>11
    <3> QED BY <1>5, <1>11, <3>1, <3>2, TotalAdd
  <2>2. Total(c, N) = Total(b, N)
    BY <1>5, <1>9, <1>11, TotalSame
  <2> QED BY <1>2, <1>4, <1>9, <1>11, <2>1, <2>2 DEF N
<1> QED BY <1>10, <1>11

-----------------------------------------------------------------------------
(* The pages from first on, one more each time.                             *)
LEMMA NextPage ==
  ASSUME NEW f \in Nat, NEW k \in Nat
  PROVE  /\ IsFiniteSet(f..(f + k - 1)) /\ f + k \notin f..(f + k - 1)
         /\ f..(f + (k + 1) - 1) = (f..(f + k - 1)) \cup {f + k}
         /\ f..(f + 0 - 1) = {}
<1>1. IsFiniteSet(f..(f + k - 1))
  BY FS_Interval
<1>2. f..(f + (k + 1) - 1) = (f..(f + k - 1)) \cup {f + k}
  OBVIOUS
<1> QED BY <1>1, <1>2

LEMMA PagesFinite == IsFiniteSet(Pages)
<1>1. PICK K \in Nat \ {0} : Pages = 0..(K - 1)
  BY PagesCount
<1> QED BY <1>1, FS_Interval

-----------------------------------------------------------------------------
(* What the process does.                                                   *)

(* The frames are shown or not throughout a scan.                           *)
USE DEF Shown

(* The marks that pages kept are marks they have, and these they ever had.  *)
LEMMA KeptAndMet ==
  ASSUME PagesInv, NEW p \in Pages, NEW m
  PROVE  (p \in With(always, m) => m \in Now(p)) /\ (m \in Now(p) => p \in With(ever, m))
BY DEF PagesInv, With

LEMMA BehindFinite ==
  ASSUME RangeInv PROVE IsFiniteSet(Behind) /\ IsFiniteSet(Finished)
<1>1. scan.read + (IF scan.state = "frame" THEN 1 ELSE 0) \in Nat /\ scan.first \in Nat /\ scan.read \in Nat
  BY DEF RangeInv
<1>2. /\ scan.first + (scan.read + (IF scan.state = "frame" THEN 1 ELSE 0)) - 1 \in Int
      /\ scan.first + scan.read - 1 \in Int
  BY <1>1
<1>3. \A a, b \in Int : IsFiniteSet(a..b)
  BY FS_Interval
<1> QED BY <1>1, <1>2, <1>3 DEF Behind, Finished

(* The scan rests and fewer pages kept each mark, and more ever had it.     *)
OnlyMore ==
  /\ UNCHANGED scan
  /\ \A m : With(always', m) \subseteq With(always, m) /\ With(ever, m) \subseteq With(ever', m)

LEMMA PageCountsKept ==
  ASSUME ShapeInv, RangeInv, CountsInv, OnlyMore PROVE CountsInv'
<1>1. Behind' = Behind /\ Finished' = Finished /\ scan' = scan
  BY DEF Behind, Finished, OnlyMore
<1>2. ASSUME NEW m, NEW off \in Nat, NEW P \in {Behind, Finished},
             Near(Tally(scan.counts, m), off, With(always, m), With(ever, m), P)
      PROVE  Near(Tally(scan.counts, m), off, With(always', m), With(ever', m), P)
  <2>1. Tally(scan.counts, m) \in Nat
    BY TallyNatural DEF ShapeInv
  <2>2. IsFiniteSet(P)
    BY <1>2, BehindFinite
  <2> HIDE DEF Near, With, Tally
  <2> QED BY <1>2, <2>1, <2>2, NearMonotone DEF OnlyMore
<1>3. scan.moved \in Nat /\ 0 \in Nat
  BY DEF ShapeInv
<1> HIDE DEF Near, With, Tally, Behind, Finished, Total
<1>4. Bounded(InMemory, 0, Behind)'
  BY <1>1, <1>2, <1>3 DEF CountsInv, Bounded, Met
<1>5. ASSUME scan.kind = "pages" PROVE PagemapCounts'
  BY <1>1, <1>2, <1>3, <1>5 DEF CountsInv, PagemapCounts, Bounded, Met
<1>6. ASSUME scan.kind = "page_flags" PROVE FlagsCounts'
  <2>1. ASSUME NEW f PROVE FlagCount(f)'
    <3>1. FlagCount(f)
      BY <1>6 DEF CountsInv, FlagsCounts
    <3> QED BY <1>1, <1>2, <1>3, <3>1 DEF FlagCount, Bounded, Met
  <2>2. Met(Visible)' + If(scan.state = "frame")' = (IF Shown THEN Met(InMemory) ELSE 0)'
    BY <1>1, <1>6 DEF CountsInv, FlagsCounts, Met
  <2> QED BY <2>1, <2>2 DEF FlagsCounts
<1>7. ASSUME scan.kind = "numa" PROVE NumaCounts'
  <2>1. ASSUME NEW n PROVE Bounded(OnNode(n), 0, Behind)'
    <3>1. Bounded(OnNode(n), 0, Behind)
      BY <1>7 DEF CountsInv, NumaCounts
    <3> QED BY <1>1, <1>2, <1>3, <3>1 DEF Bounded, Met
  <2> QED BY <1>1, <1>7, <2>1 DEF CountsInv, NumaCounts, Met
<1> QED BY <1>1, <1>4, <1>5, <1>6, <1>7 DEF CountsInv

LEMMA ChangeKeeps ==
  ASSUME ScanInv, NEW new \in [Pages -> [frame : Nat, dirty : BOOLEAN]], NEW out,
         \A p \in Pages : new[p].frame # 0 => p \notin out,
         Changed(new, out), UNCHANGED scan
  PROVE  ScanInv'
<1>1. /\ page' = new /\ swapped' = out
      /\ always' = [p \in Pages |-> always[p] \cap Marks(new, out, p)]
      /\ ever' = [p \in Pages |-> ever[p] \cup Marks(new, out, p)]
  BY DEF Changed, Observed
<1>2. PagesInv'
  <2>1. \A p \in Pages : Now(p)' = Marks(new, out, p)
    BY <1>1 DEF Now, Marks, Pages, When, FlagMarks
  <2>2. /\ page' \in [Pages -> [frame : Nat, dirty : BOOLEAN]]
        /\ \A p \in Pages : Present(p)' => p \notin swapped'
    BY <1>1 DEF Present
  <2>3. \A p \in Pages : always'[p] \subseteq Now(p)' /\ Now(p)' \subseteq ever'[p]
    <3> HIDE DEF Marks, Now
    <3> QED BY <1>1, <2>1
  <2> HIDE DEF Now
  <2> QED BY <2>2, <2>3 DEF PagesInv, Pages
<1>3. ShapeInv'
  BY DEF ScanInv, ShapeInv
<1>4. ASSUME Active' PROVE RangeInv' /\ CountsInv'
  <2>1. Active /\ RangeInv /\ CountsInv /\ ShapeInv
    BY <1>4 DEF ScanInv, Active
  <2>2. RangeInv'
    BY <2>1 DEF RangeInv, Asked, Pages
  <2>3. OnlyMore
    <3>1. ASSUME NEW m
          PROVE  With(always', m) \subseteq With(always, m) /\ With(ever, m) \subseteq With(ever', m)
      <4> HIDE DEF Marks
      <4> QED BY <1>1 DEF With
    <3> QED BY <3>1 DEF OnlyMore
  <2>4. CountsInv'
    BY <2>1, <2>3, PageCountsKept
  <2> QED BY <2>2, <2>4
<1> QED BY <1>2, <1>3, <1>4 DEF ScanInv

LEMMA MigrateKeeps == ASSUME ScanInv, NEW p \in Pages, Migrate(p) PROVE ScanInv'
<1>1. page \in [Pages -> [frame : Nat, dirty : BOOLEAN]] /\ \A q \in Pages : page[q].frame # 0 => q \notin swapped
  BY DEF ScanInv, PagesInv, Present
<1>2. PICK f \in FreeFrames : Changed([page EXCEPT ![p].frame = f], swapped) /\ UNCHANGED scan
  BY DEF Migrate
<1> DEFINE new == [page EXCEPT ![p].frame = f]
<1>3. f \in Nat /\ page[p].frame # 0
  BY PageScansAssumption DEF FreeFrames, Migrate, Present
<1>4. new \in [Pages -> [frame : Nat, dirty : BOOLEAN]]
  BY <1>1, <1>3
<1>5. \A q \in Pages : new[q].frame # 0 => q \notin swapped
  BY <1>1, <1>3
<1>6. Changed(new, swapped) /\ UNCHANGED scan
  BY <1>2
<1> HIDE DEF new
<1> QED BY <1>4, <1>5, <1>6, ChangeKeeps

LEMMA WriteKeeps == ASSUME ScanInv, NEW p \in Pages, Write(p) PROVE ScanInv'
<1>1. page \in [Pages -> [frame : Nat, dirty : BOOLEAN]] /\ \A q \in Pages : page[q].frame # 0 => q \notin swapped
  BY DEF ScanInv, PagesInv, Present
<1>2. CASE Present(p)
  <2> DEFINE new == [page EXCEPT ![p].dirty = TRUE]
  <2>1. Changed(new, swapped) /\ UNCHANGED scan
    BY <1>2 DEF Write
  <2>2. new \in [Pages -> [frame : Nat, dirty : BOOLEAN]]
    BY <1>1
  <2>3. \A q \in Pages : new[q].frame # 0 => q \notin swapped
    BY <1>1
  <2> HIDE DEF new
  <2> QED BY <2>1, <2>2, <2>3, ChangeKeeps
<1>3. CASE ~Present(p)
  <2>1. PICK f \in FreeFrames :
          Changed([page EXCEPT ![p] = [frame |-> f, dirty |-> TRUE]], swapped \ {p}) /\ UNCHANGED scan
    BY <1>3 DEF Write
  <2> DEFINE new == [page EXCEPT ![p] = [frame |-> f, dirty |-> TRUE]]
             out == swapped \ {p}
  <2>2. f \in Nat
    BY PageScansAssumption DEF FreeFrames
  <2>3. new \in [Pages -> [frame : Nat, dirty : BOOLEAN]]
    BY <1>1, <2>2
  <2>4. \A q \in Pages : new[q].frame # 0 => q \notin out
    BY <1>1, <2>2
  <2>5. Changed(new, out) /\ UNCHANGED scan
    BY <2>1
  <2> HIDE DEF new, out
  <2> QED BY <2>3, <2>4, <2>5, ChangeKeeps
<1> QED BY <1>2, <1>3

LEMMA SwapOutKeeps == ASSUME ScanInv, NEW p \in Pages, SwapOut(p) PROVE ScanInv'
<1> DEFINE new == [page EXCEPT ![p].frame = 0]
           out == swapped \cup {p}
<1>1. page \in [Pages -> [frame : Nat, dirty : BOOLEAN]] /\ \A q \in Pages : page[q].frame # 0 => q \notin swapped
  BY DEF ScanInv, PagesInv, Present
<1>2. Changed(new, out) /\ UNCHANGED scan
  BY DEF SwapOut
<1>3. new \in [Pages -> [frame : Nat, dirty : BOOLEAN]]
  BY <1>1
<1>4. \A q \in Pages : new[q].frame # 0 => q \notin out
  BY <1>1
<1> HIDE DEF new, out
<1> QED BY <1>2, <1>3, <1>4, ChangeKeeps

LEMMA UnmapKeeps == ASSUME ScanInv, NEW p \in Pages, Unmap(p) PROVE ScanInv'
<1> DEFINE new == [page EXCEPT ![p] = [frame |-> 0, dirty |-> FALSE]]
           out == swapped \ {p}
<1>1. page \in [Pages -> [frame : Nat, dirty : BOOLEAN]] /\ \A q \in Pages : page[q].frame # 0 => q \notin swapped
  BY DEF ScanInv, PagesInv, Present
<1>2. Changed(new, out) /\ UNCHANGED scan
  BY DEF Unmap
<1>3. new \in [Pages -> [frame : Nat, dirty : BOOLEAN]]
  BY <1>1
<1>4. \A q \in Pages : new[q].frame # 0 => q \notin out
  BY <1>1
<1> HIDE DEF new, out
<1> QED BY <1>2, <1>3, <1>4, ChangeKeeps

LEMMA ClearSoftDirtyKeeps == ASSUME ScanInv, ClearSoftDirty PROVE ScanInv'
<1> DEFINE new == [p \in Pages |-> [page[p] EXCEPT !.dirty = FALSE]]
<1>1. page \in [Pages -> [frame : Nat, dirty : BOOLEAN]] /\ \A q \in Pages : page[q].frame # 0 => q \notin swapped
  BY DEF ScanInv, PagesInv, Present
<1>2. Changed(new, swapped) /\ UNCHANGED scan
  BY DEF ClearSoftDirty
<1>3. new \in [Pages -> [frame : Nat, dirty : BOOLEAN]]
  BY <1>1
<1>4. \A q \in Pages : new[q].frame # 0 => q \notin swapped
  BY <1>1
<1> HIDE DEF new
<1> QED BY <1>2, <1>3, <1>4, ChangeKeeps

-----------------------------------------------------------------------------
(* What the tool does.                                                      *)

(* The fields of a report without counts.                                   *)
LEMMA ReportShape ==
  ASSUME NEW kind, NEW begin, NEW length, NEW frames, NEW total, NEW state,
         NEW s, s = Report(kind, begin, length, frames, total, state)
  PROVE  /\ s = [kind |-> s.kind, begin |-> s.begin, length |-> s.length,
                 frames |-> s.frames, first |-> s.first, total |-> s.total,
                 read |-> s.read, pfn |-> s.pfn, counts |-> s.counts, moved |-> s.moved,
                 state |-> s.state]
         /\ s.counts = <<>> /\ s.moved = 0 /\ s.state = state
BY DEF Report

LEMMA StartScanKeeps ==
  ASSUME ScanInv, NEW kind \in {"pages", "numa", "page_flags"}, NEW frames,
         NEW begin \in 0..MaxAddr, NEW length \in 1..(MaxAddr + 1),
         StartScan(kind, begin, length, frames)
  PROVE  ScanInv'
<1>1. /\ scan' = Planned(kind, begin, length, frames)
      /\ always' = Observed(page, swapped) /\ ever' = Observed(page, swapped)
      /\ UNCHANGED <<page, swapped>>
  BY DEF StartScan
<1>2. PagesInv'
  BY <1>1 DEF ScanInv, PagesInv, Observed, Now, Present, Pages, Marks, When, FlagMarks
<1>3. ShapeInv' /\ (Active' => scan'.state = "reading")
  <2>1. PICK total : \/ scan' = Report(kind, begin, length, frames, total, "invalid")
                      \/ scan' = Report(kind, begin, length, frames, total, "empty")
                      \/ scan' = Report(kind, begin, length, frames, total, "oversized")
                      \/ scan' = Report(kind, begin, length, frames, total, "reading")
    <3> DEFINE t == (RoundUp(begin + length) - RoundDown(begin)) \div PageUnits
    <3>1. \/ scan' = Report(kind, begin, length, frames, 0, "invalid")
          \/ scan' = Report(kind, begin, length, frames, t, "empty")
          \/ scan' = Report(kind, begin, length, frames, t, "oversized")
          \/ scan' = Report(kind, begin, length, frames, t, "reading")
      BY <1>1 DEF Planned
    <3> HIDE DEF t
    <3> QED BY <3>1
  <2>2. ASSUME NEW state \in {"invalid", "empty", "oversized", "reading"},
               scan' = Report(kind, begin, length, frames, total, state)
        PROVE  ShapeInv' /\ (Active' => scan'.state = "reading")
    BY <2>2, ReportShape DEF ShapeInv, IsCounter, Active
  <2> QED BY <2>1, <2>2
<1>4. ASSUME Active' PROVE RangeInv' /\ CountsInv'
  <2> DEFINE s == scan'
  <2>1. Reads(s, kind, begin, length, frames)
    <3>1. s = Planned(kind, begin, length, frames) /\ s.state = "reading"
      BY <1>1, <1>3, <1>4
    <3> HIDE DEF s
    <3> QED BY <3>1, PlannedRange
  <2>2. /\ s.kind = kind /\ s.begin = begin /\ s.length = length /\ s.read = 0
        /\ s.counts = <<>> /\ s.state = "reading"
    <3> HIDE DEF s
    <3> QED BY <2>1 DEF Reads
  <2>3. RangeInv'
    <3>1. Asked(s) = Asked(scan)'
      BY DEF Asked, Pages
    <3> HIDE DEF Asked
    <3> QED BY <2>1, <2>2, <3>1 DEF RangeInv, Pages, Reads
  <2>4. Behind' = {} /\ Finished' = {}
    BY <2>1, <2>2 DEF Behind, Finished, Reads
  <2>5. ASSUME NEW m PROVE Tally(s.counts, m) = 0
    BY <2>2 DEF Tally
  <2>6. ASSUME NEW m PROVE Near(Tally(s.counts, m), 0, With(always', m), With(ever', m), {})
    <3> HIDE DEF Tally, With, Near
    <3> QED BY <2>5, NearNone
  <2>7. Total(s.counts, NodeMarks(s.counts)) = 0 /\ IsFiniteSet(DOMAIN s.counts)
    <3>1. DOMAIN s.counts = {} /\ NodeMarks(s.counts) = {}
      BY <2>2 DEF NodeMarks
    <3> HIDE DEF s, Total
    <3> QED BY <3>1, TotalEmpty, FS_EmptySet
  <2>8. s.moved = 0
    <3> HIDE DEF s
    <3> QED BY <2>1 DEF Reads
  <2>9. CountsInv'
    <3> HIDE DEF Near, With, Tally, Behind, Finished, Total
    <3>1. Bounded(InMemory, 0, Behind)'
      BY <2>4, <2>6 DEF Bounded, Met
    <3>2. PagemapCounts'
      BY <2>2, <2>4, <2>5, <2>6 DEF PagemapCounts, Bounded, Met
    <3>3. FlagsCounts'
      <4>1. ASSUME NEW f PROVE FlagCount(f)'
        BY <2>4, <2>5, <2>6, <2>8 DEF FlagCount, Bounded, Met
      <4> QED BY <2>2, <2>5, <4>1 DEF FlagsCounts, If, Met
    <3>4. NumaCounts'
      BY <2>4, <2>5, <2>6, <2>7 DEF NumaCounts, Bounded, Met
    <3> QED BY <3>1, <3>2, <3>3, <3>4 DEF CountsInv
  <2> QED BY <2>3, <2>9
<1> QED BY <1>2, <1>3, <1>4 DEF ScanInv

(* The invariant of the pages does not depend on the scan.                  *)
LEMMA PagesUnread ==
  ASSUME ScanInv, UNCHANGED <<page, swapped, always, ever>> PROVE PagesInv'
BY DEF ScanInv, PagesInv, Now, Present, Pages, Marks, When, FlagMarks

LEMMA ScanFailsKeeps == ASSUME ScanInv, ScanFails PROVE ScanInv'
<1>1. PagesInv'
  BY PagesUnread DEF ScanFails
<1>2. ShapeInv' /\ ~Active'
  BY DEF ScanFails, ScanInv, ShapeInv, Active
<1> QED BY <1>1, <1>2 DEF ScanInv

(* The page that is read next.                                              *)
LEMMA PageRead ==
  ASSUME ScanInv, scan.state \in {"reading", "frame"}
  PROVE  /\ Next1 \in Pages /\ Next1 = scan.first + scan.read
         /\ scan.read \in Nat /\ scan.read + 1 \in 0..scan.total
         /\ Behind = IF scan.state = "frame" THEN Finished \cup {Next1} ELSE Finished
         /\ IsFiniteSet(Finished) /\ Next1 \notin Finished
         /\ scan.first..(scan.first + (scan.read + 1) - 1) = Finished \cup {Next1}
<1>1. Active /\ RangeInv
  BY DEF ScanInv, Active
<1>2. /\ scan.first \in Nat /\ scan.total \in Nat \ {0} /\ scan.read \in 0..scan.total
      /\ scan.first..(scan.first + scan.total - 1) \subseteq Pages /\ scan.read # scan.total
  BY <1>1 DEF RangeInv
<1>3. Next1 \in scan.first..(scan.first + scan.total - 1) /\ scan.read + 1 \in 0..scan.total
      /\ scan.read \in Nat /\ Next1 = scan.first + scan.read
  BY <1>2 DEF Next1
<1>4. /\ IsFiniteSet(Finished) /\ Next1 \notin Finished
      /\ scan.first..(scan.first + (scan.read + 1) - 1) = Finished \cup {Next1}
  BY <1>2, <1>3, NextPage DEF Finished
<1>5. Behind = IF scan.state = "frame" THEN Finished \cup {Next1} ELSE Finished
  <2>1. scan.first + scan.read + 1 - 1 = scan.first + (scan.read + 1) - 1
        /\ scan.first + scan.read + 0 - 1 = scan.first + scan.read - 1
    BY <1>2, <1>3
  <2> QED BY <1>4, <2>1 DEF Behind, Finished
<1> QED BY <1>2, <1>3, <1>4, <1>5

(* What is true of a page now.                                              *)
LEMMA PageNow ==
  ASSUME ScanInv, NEW p \in Pages
  PROVE  /\ InMemory \in Now(p) <=> Present(p)
         /\ InSwap \in Now(p) <=> p \in swapped
         /\ SoftDirty \in Now(p) <=> page[p].dirty
         /\ \A f : Flag(f) \in Now(p) <=> Present(p) /\ f \in FrameFlags[page[p].frame]
         /\ \A n : OnNode(n) \in Now(p) <=> Present(p) /\ n = Node[page[p].frame]
         /\ Present(p) => p \notin swapped
         /\ page[p].frame \in Nat
<1>1. (Present(p) => p \notin swapped) /\ page[p].frame \in Nat
  BY DEF ScanInv, PagesInv
<1> QED BY <1>1, MarksOfPage DEF Now, Present

(* A page is done: what all reads have in common.                           *)
After1(marks, moved) ==
  [kind |-> scan.kind, begin |-> scan.begin, length |-> scan.length,
   frames |-> scan.frames, first |-> scan.first, total |-> scan.total,
   read |-> scan.read + 1, pfn |-> 0, counts |-> Counted(scan.counts, marks), moved |-> moved,
   state |-> IF scan.read + 1 = scan.total THEN "available" ELSE "reading"]

LEMMA ReadIsAfter ==
  ASSUME ShapeInv, NEW marks, NEW moved
  PROVE  /\ Read1(scan, marks) = After1(marks, scan.moved)
         /\ [Read1(scan, marks) EXCEPT !.moved = moved] = After1(marks, moved)
<1>1. scan = [kind |-> scan.kind, begin |-> scan.begin, length |-> scan.length,
             frames |-> scan.frames, first |-> scan.first, total |-> scan.total,
             read |-> scan.read, pfn |-> scan.pfn, counts |-> scan.counts, moved |-> scan.moved,
             state |-> scan.state]
  BY DEF ShapeInv
<1> DEFINE c == Counted(scan.counts, marks)
           st == IF scan.read + 1 = scan.total THEN "available" ELSE "reading"
           half == [kind |-> scan.kind, begin |-> scan.begin, length |-> scan.length,
                    frames |-> scan.frames, first |-> scan.first, total |-> scan.total,
                    read |-> scan.read + 1, pfn |-> 0, counts |-> scan.counts, moved |-> scan.moved,
                    state |-> scan.state]
<1>2. Read1(scan, marks) = [scan EXCEPT !.read = scan.read + 1, !.pfn = 0, !.counts = c, !.state = st]
  BY DEF Read1
<1>3. After1(marks, moved) = [kind |-> scan.kind, begin |-> scan.begin, length |-> scan.length,
        frames |-> scan.frames, first |-> scan.first, total |-> scan.total,
        read |-> scan.read + 1, pfn |-> 0, counts |-> c, moved |-> moved, state |-> st]
      /\ After1(marks, scan.moved) = [kind |-> scan.kind, begin |-> scan.begin, length |-> scan.length,
        frames |-> scan.frames, first |-> scan.first, total |-> scan.total,
        read |-> scan.read + 1, pfn |-> 0, counts |-> c, moved |-> scan.moved, state |-> st]
  BY DEF After1
<1> HIDE DEF c, st, After1, Read1
<1>4. [scan EXCEPT !.read = scan.read + 1, !.pfn = 0] = half
  <2> DEFINE r == scan.read + 1
  <2>1. [scan EXCEPT !.read = r]
          = [kind |-> scan.kind, begin |-> scan.begin, length |-> scan.length,
             frames |-> scan.frames, first |-> scan.first, total |-> scan.total,
             read |-> r, pfn |-> scan.pfn, counts |-> scan.counts, moved |-> scan.moved,
             state |-> scan.state]
    <3> HIDE DEF r
    <3> QED BY <1>1
  <2> HIDE DEF r
  <2>2. ASSUME NEW y,
               y = [kind |-> scan.kind, begin |-> scan.begin, length |-> scan.length,
                    frames |-> scan.frames, first |-> scan.first, total |-> scan.total,
                    read |-> r, pfn |-> scan.pfn, counts |-> scan.counts, moved |-> scan.moved,
                    state |-> scan.state]
        PROVE  [y EXCEPT !.pfn = 0]
                 = [kind |-> scan.kind, begin |-> scan.begin, length |-> scan.length,
                    frames |-> scan.frames, first |-> scan.first, total |-> scan.total,
                    read |-> r, pfn |-> 0, counts |-> scan.counts, moved |-> scan.moved,
                    state |-> scan.state]
    BY <2>2
  <2>3. [[scan EXCEPT !.read = r] EXCEPT !.pfn = 0]
          = [kind |-> scan.kind, begin |-> scan.begin, length |-> scan.length,
             frames |-> scan.frames, first |-> scan.first, total |-> scan.total,
             read |-> r, pfn |-> 0, counts |-> scan.counts, moved |-> scan.moved,
             state |-> scan.state]
    <3> DEFINE y == [scan EXCEPT !.read = r]
    <3>1. y = [kind |-> scan.kind, begin |-> scan.begin, length |-> scan.length,
               frames |-> scan.frames, first |-> scan.first, total |-> scan.total,
               read |-> r, pfn |-> scan.pfn, counts |-> scan.counts, moved |-> scan.moved,
               state |-> scan.state]
      BY <2>1
    <3> HIDE DEF y
    <3>2. [y EXCEPT !.pfn = 0]
            = [kind |-> scan.kind, begin |-> scan.begin, length |-> scan.length,
               frames |-> scan.frames, first |-> scan.first, total |-> scan.total,
               read |-> r, pfn |-> 0, counts |-> scan.counts, moved |-> scan.moved,
               state |-> scan.state]
      BY <2>2, <3>1
    <3> QED BY <3>2 DEF y
  <2> QED BY <2>3 DEF r
<1>5. Read1(scan, marks) = [half EXCEPT !.counts = c, !.state = st]
  <2> HIDE DEF half
  <2> QED BY <1>2, <1>4
<1>6. Read1(scan, marks) = After1(marks, scan.moved)
  BY <1>3, <1>5
<1>7. [Read1(scan, marks) EXCEPT !.moved = moved] = After1(marks, moved)
  BY <1>3, <1>6
<1> QED BY <1>6, <1>7

PageDone(marks, moved) ==
  /\ PagesInv' /\ ShapeInv' /\ RangeInv'
  /\ scan'.kind = scan.kind /\ scan'.read = scan.read + 1 /\ scan'.frames = scan.frames
  /\ scan'.counts = Counted(scan.counts, marks) /\ scan'.moved = moved
  /\ scan'.state \in {"available", "reading"}
  /\ Behind' = Finished \cup {Next1} /\ Finished' = Finished \cup {Next1}
  /\ always' = always /\ ever' = ever

LEMMA OnePageDone ==
  ASSUME ScanInv, scan.state \in {"reading", "frame"}, NEW marks, NEW moved \in Nat,
         scan' = After1(marks, moved), UNCHANGED <<page, swapped, always, ever>>
  PROVE  PageDone(marks, moved)
<1> DEFINE s == scan'
<1>0. s = After1(marks, moved)
  OBVIOUS
<1>1. RangeInv /\ ShapeInv
  BY DEF ScanInv, Active
<1>2. /\ s.kind = scan.kind /\ s.begin = scan.begin /\ s.length = scan.length /\ s.first = scan.first
      /\ s.frames = scan.frames
      /\ s.total = scan.total /\ s.read = scan.read + 1 /\ s.pfn = 0
      /\ s.counts = Counted(scan.counts, marks) /\ s.moved = moved
      /\ s.state = IF scan.read + 1 = scan.total THEN "available" ELSE "reading"
  <2> HIDE DEF s, Counted
  <2> QED BY <1>0 DEF After1
<1>3. PagesInv'
  BY PagesUnread
<1>4. ShapeInv'
  <2>1. s = [kind |-> s.kind, begin |-> s.begin, length |-> s.length,
             frames |-> s.frames, first |-> s.first, total |-> s.total, read |-> s.read,
             pfn |-> s.pfn, counts |-> s.counts, moved |-> s.moved, state |-> s.state]
    <3> HIDE DEF s, Counted
    <3> QED BY <1>0 DEF After1
  <2>2. IsCounter(s.counts)
    <3>1. IsCounter(scan.counts) /\ s.counts = Counted(scan.counts, marks)
      BY <1>1, <1>2 DEF ShapeInv
    <3>2. IsCounter(Counted(scan.counts, marks))
      BY <3>1, TallyCounted
    <3> HIDE DEF s
    <3> QED BY <3>1, <3>2
  <2> QED BY <2>1, <2>2, <1>1, <1>2 DEF ShapeInv
<1>5. scan.read + 1 \in 0..scan.total /\ scan.read + 1 <= scan.total
  BY <1>1 DEF RangeInv
<1>6. RangeInv'
  <2>1. Asked(s) = Asked(scan)
    BY <1>2 DEF Asked
  <2> HIDE DEF Asked
  <2> QED BY <1>1, <1>2, <1>5, <2>1 DEF RangeInv, Pages
<1>7. Behind' = Finished \cup {Next1} /\ Finished' = Finished \cup {Next1}
  <2>1. s.state # "frame" /\ scan.first + (scan.read + 1 + 0) - 1 = scan.first + (scan.read + 1) - 1
        /\ scan.first + (scan.read + 1) + 0 - 1 = scan.first + (scan.read + 1) - 1
    BY <1>1, <1>2 DEF RangeInv
  <2>2. Behind' = s.first..(s.first + s.read + 0 - 1) /\ Finished' = s.first..(s.first + s.read - 1)
    BY <2>1 DEF Behind, Finished
  <2>3. scan.first..(scan.first + (scan.read + 1) - 1) = Finished \cup {Next1}
    BY PageRead
  <2> QED BY <1>1, <1>2, <2>1, <2>2, <2>3 DEF RangeInv
<1> QED BY <1>2, <1>3, <1>4, <1>6, <1>7 DEF PageDone

(* A mark that is counted if the page has it now stays bounded; and one     *)
(* more is given up if a page that has lost its frame is counted.           *)
LEMMA BoundedNext ==
  ASSUME ScanInv, scan.state \in {"reading", "frame"}, NEW marks, NEW m, NEW off \in Nat, NEW e \in 0..1,
         Bounded(m, off, Finished), e = 1 \/ (m \in marks <=> m \in Now(Next1))
  PROVE  Near(Tally(Counted(scan.counts, marks), m), off + e, With(always, m), With(ever, m),
              Finished \cup {Next1})
<1> DEFINE d == If(m \in marks)
           n == Tally(scan.counts, m)
<1>1. d \in 0..1 /\ (d = 1 <=> m \in marks)
  BY DEF If
<1>2. n \in Nat /\ Tally(Counted(scan.counts, marks), m) = n + d
  <2>1. IsCounter(scan.counts)
    BY DEF ScanInv, ShapeInv
  <2>2. n \in Nat
    BY <2>1, TallyNatural
  <2>3. \A x : Tally(Counted(scan.counts, marks), x) = Tally(scan.counts, x) + If(x \in marks)
    <3> HIDE DEF Counted, Tally, If
    <3> QED BY <2>1, TallyCounted
  <2> QED BY <2>2, <2>3
<1> HIDE DEF d
<1>3. Next1 \in Pages /\ IsFiniteSet(Finished) /\ Next1 \notin Finished
  BY PageRead
<1>4. (Next1 \in With(always, m) => m \in Now(Next1)) /\ (m \in Now(Next1) => Next1 \in With(ever, m))
  BY <1>3, KeptAndMet DEF ScanInv
<1>5. Near(n, off, With(always, m), With(ever, m), Finished)
  BY DEF Bounded, Met
<1> HIDE DEF Near, n, With, Finished, Next1, Now
<1>6. /\ e = 1 \/ (Next1 \in With(always, m) => d = 1)
      /\ e = 1 \/ (d = 1 => Next1 \in With(ever, m))
  BY <1>1, <1>4
<1>7. Near(n + d, off + e, With(always, m), With(ever, m), Finished \cup {Next1})
  BY <1>1, <1>2, <1>3, <1>5, <1>6, NearNext
<1> QED BY <1>2, <1>7

(* The same where nothing is given up.                                      *)
LEMMA ExactNext ==
  ASSUME ScanInv, scan.state \in {"reading", "frame"}, NEW marks, NEW m, NEW off \in Nat,
         Bounded(m, off, Finished), m \in marks <=> m \in Now(Next1)
  PROVE  Near(Tally(Counted(scan.counts, marks), m), off, With(always, m), With(ever, m),
              Finished \cup {Next1})
<1>1. 0 \in 0..1 /\ off + 0 = off
  OBVIOUS
<1> HIDE DEF Near, With, Finished, Next1, Now, Counted, Tally
<1>2. Near(Tally(Counted(scan.counts, marks), m), off + 0, With(always, m), With(ever, m),
           Finished \cup {Next1})
  BY <1>1, BoundedNext
<1> QED BY <1>1, <1>2

LEMMA ReadPagemapKeeps == ASSUME ScanInv, ReadPagemap PROVE ScanInv'
<1> DEFINE marks == EntryMarks(Next1)
<1>1. /\ scan.state = "reading" /\ scan.kind = "pages" /\ UNCHANGED <<page, swapped, always, ever>>
      /\ scan' = Read1(scan, marks)
  BY DEF ReadPagemap, Reading, ReadOnly
<1>2. ShapeInv /\ RangeInv /\ CountsInv /\ scan.moved \in Nat
  BY <1>1 DEF ScanInv, Active, ShapeInv
<1>3. PageDone(marks, scan.moved)
  <2> HIDE DEF marks
  <2>1. scan' = After1(marks, scan.moved)
    BY <1>1, <1>2, ReadIsAfter
  <2> QED BY <1>1, <1>2, <2>1, OnePageDone
<1>4. Next1 \in Pages /\ Behind = Finished /\ scan.read \in Nat
  BY <1>1, PageRead
<1>5. /\ InMemory \in marks <=> Present(Next1)
      /\ InSwap \in marks <=> Next1 \in swapped
      /\ SoftDirty \in marks <=> page[Next1].dirty
      /\ Visible \in marks <=> Shown /\ (Present(Next1) \/ Next1 \in swapped)
  <2> HIDE DEF InMemory, InSwap, SoftDirty, Visible, Next1
  <2> QED BY MarksDiffer DEF EntryMarks, When, Pfn, Present
<1> HIDE DEF marks
<1>6. /\ InMemory \in marks <=> InMemory \in Now(Next1)
      /\ InSwap \in marks <=> InSwap \in Now(Next1)
      /\ SoftDirty \in marks <=> SoftDirty \in Now(Next1)
      /\ Present(Next1) => Next1 \notin swapped
  BY <1>4, <1>5, PageNow
<1>7. /\ Bounded(InMemory, 0, Finished) /\ Bounded(InSwap, 0, Finished) /\ Bounded(SoftDirty, 0, Finished)
      /\ Met(InMemory) + Met(InSwap) <= scan.read
      /\ Met(Visible) = IF Shown THEN Met(InMemory) + Met(InSwap) ELSE 0
  <2> HIDE DEF Bounded, Met
  <2> QED BY <1>1, <1>2, <1>4 DEF CountsInv, PagemapCounts
<1> DEFINE c == Counted(scan.counts, marks)
<1>8. ASSUME NEW m \in {InMemory, InSwap, SoftDirty}
      PROVE  Near(Tally(c, m), 0, With(always, m), With(ever, m), Finished \cup {Next1})
  <2> HIDE DEF Near, With, Tally, Counted, Finished, Next1, Bounded
  <2> QED BY <1>1, <1>6, <1>7, ExactNext
<1>9. \A m : Tally(c, m) = Met(m) + If(m \in marks) /\ Met(m) \in Nat
  BY <1>2, TallyNatural, TallyCounted DEF ShapeInv, Met
<1> HIDE DEF c, Near, With, Tally, Finished, Next1, Met, Total
<1>10. Tally(c, InMemory) + Tally(c, InSwap) <= scan.read + 1
  BY <1>4, <1>5, <1>6, <1>7, <1>9 DEF If
<1>11. Tally(c, Visible) = IF Shown THEN Tally(c, InMemory) + Tally(c, InSwap) ELSE 0
  BY <1>5, <1>6, <1>7, <1>9 DEF If
<1>12. scan'.counts = c
  BY <1>3 DEF PageDone, c
<1>13. PagemapCounts' /\ Bounded(InMemory, 0, Behind)'
  BY <1>3, <1>8, <1>10, <1>11, <1>12 DEF PagemapCounts, PageDone, Bounded, Met
<1>14. CountsInv'
  BY <1>1, <1>3, <1>13 DEF CountsInv, PageDone
<1> QED BY <1>3, <1>14 DEF ScanInv, PageDone

(* The entry of a page whose frame is hidden, or that has none.             *)
LEMMA EntryHiddenKeeps ==
  ASSUME ScanInv, Reading("page_flags"), Pfn(Next1) = 0, UNCHANGED <<page, swapped, always, ever>>,
         scan' = Read1(scan, When(Present(Next1), InMemory))
  PROVE  ScanInv'
<1> DEFINE marks == When(Present(Next1), InMemory)
<1>1. scan.state = "reading" /\ scan.kind = "page_flags"
  BY DEF Reading
<1>2. ShapeInv /\ RangeInv /\ CountsInv /\ scan.moved \in Nat
  BY <1>1 DEF ScanInv, Active, ShapeInv
<1>3. PageDone(marks, scan.moved)
  <2>0. scan' = Read1(scan, marks)
    OBVIOUS
  <2> HIDE DEF marks
  <2>1. scan' = After1(marks, scan.moved)
    BY <1>2, <2>0, ReadIsAfter
  <2> QED BY <1>1, <1>2, <2>1, OnePageDone
<1>4. Next1 \in Pages /\ Behind = Finished
  BY <1>1, PageRead
<1>5. /\ InMemory \in marks <=> Present(Next1)
      /\ Visible \notin marks /\ \A f : Flag(f) \notin marks
      /\ Shown => ~Present(Next1)
  <2> HIDE DEF InMemory, Visible, Flag, Next1
  <2> QED BY MarksDiffer DEF When, Pfn, Present
<1> HIDE DEF marks
<1>6. /\ InMemory \in marks <=> InMemory \in Now(Next1)
      /\ \A f : Shown => Flag(f) \notin Now(Next1)
  BY <1>4, <1>5, PageNow
<1>7. /\ Bounded(InMemory, 0, Finished)
      /\ Met(Visible) + 0 = IF Shown THEN Met(InMemory) ELSE 0
      /\ \A f : FlagCount(f)
  <2> HIDE DEF Bounded, Met, FlagCount
  <2> QED BY <1>1, <1>2, <1>4 DEF CountsInv, FlagsCounts, If
<1> DEFINE c == Counted(scan.counts, marks)
<1>8. Near(Tally(c, InMemory), 0, With(always, InMemory), With(ever, InMemory), Finished \cup {Next1})
  <2> HIDE DEF Near, With, Tally, Counted, Finished, Next1, Bounded
  <2> QED BY <1>1, <1>6, <1>7, ExactNext
<1>9. ASSUME NEW f, Shown
      PROVE  Near(Tally(c, Flag(f)), scan.moved, With(always, Flag(f)), With(ever, Flag(f)),
                  Finished \cup {Next1})
  <2>1. Bounded(Flag(f), scan.moved, Finished)
    BY <1>7, <1>9 DEF FlagCount
  <2>2. Flag(f) \in marks <=> Flag(f) \in Now(Next1)
    BY <1>5, <1>6, <1>9
  <2> HIDE DEF Near, With, Tally, Counted, Finished, Next1, Bounded
  <2> QED BY <1>1, <1>2, <2>1, <2>2, ExactNext
<1>10. \A m : Tally(c, m) = Met(m) + If(m \in marks) /\ Met(m) \in Nat
  BY <1>2, TallyNatural, TallyCounted DEF ShapeInv, Met
<1>11. scan'.counts = c
  BY <1>3 DEF PageDone
<1> HIDE DEF c, Near, With, Tally, Finished, Next1, Met, Total
<1>12. Tally(c, Visible) + 0 = IF Shown THEN Tally(c, InMemory) ELSE 0
  <2>1. Tally(c, Visible) = Met(Visible)
    BY <1>5, <1>10 DEF If
  <2>2. Shown => Tally(c, InMemory) = Met(InMemory)
    BY <1>5, <1>10 DEF If
  <2> QED BY <1>7, <2>1, <2>2
<1>13. ASSUME NEW f, ~Shown PROVE Tally(c, Flag(f)) = 0
  <2>1. Met(Flag(f)) = 0
    BY <1>7, <1>13 DEF FlagCount
  <2> QED BY <1>5, <1>10, <2>1 DEF If
<1>14. ASSUME NEW f PROVE FlagCount(f)'
  BY <1>3, <1>9, <1>11, <1>13 DEF FlagCount, PageDone, Bounded, Met
<1>15. FlagsCounts'
  BY <1>3, <1>11, <1>12, <1>14 DEF FlagsCounts, PageDone, Met, If
<1>16. Bounded(InMemory, 0, Behind)'
  BY <1>3, <1>8, <1>11 DEF PageDone, Bounded, Met
<1>17. CountsInv'
  BY <1>1, <1>3, <1>15, <1>16 DEF CountsInv, PageDone
<1> QED BY <1>3, <1>17 DEF ScanInv, PageDone

(* The entry of a page in memory with its frame.                            *)
LEMMA EntryShownKeeps ==
  ASSUME ScanInv, Reading("page_flags"), Pfn(Next1) # 0, UNCHANGED <<page, swapped, always, ever>>,
         scan' = [scan EXCEPT !.counts = Counted(@, {InMemory}), !.pfn = Pfn(Next1), !.state = "frame"]
  PROVE  ScanInv'
<1> DEFINE s == scan'
           c == Counted(scan.counts, {InMemory})
<1>1. scan.state = "reading" /\ scan.kind = "page_flags"
  BY DEF Reading
<1>2. ShapeInv /\ RangeInv /\ CountsInv /\ scan.moved \in Nat
  BY <1>1 DEF ScanInv, Active, ShapeInv
<1>3. Shown /\ Present(Next1)
  BY DEF Pfn, Present
<1>4. Next1 \in Pages /\ Behind = Finished
      /\ scan.first..(scan.first + (scan.read + 1) - 1) = Finished \cup {Next1}
  BY <1>1, PageRead
<1>5. s = [kind |-> scan.kind, begin |-> scan.begin, length |-> scan.length,
           frames |-> scan.frames, first |-> scan.first, total |-> scan.total,
           read |-> scan.read, pfn |-> Pfn(Next1), counts |-> c, moved |-> scan.moved,
           state |-> "frame"]
  <2>1. scan = [kind |-> scan.kind, begin |-> scan.begin, length |-> scan.length,
               frames |-> scan.frames, first |-> scan.first, total |-> scan.total,
               read |-> scan.read, pfn |-> scan.pfn, counts |-> scan.counts, moved |-> scan.moved,
               state |-> scan.state]
    BY <1>2 DEF ShapeInv
  <2>2. s = [scan EXCEPT !.counts = c, !.pfn = Pfn(Next1), !.state = "frame"]
    OBVIOUS
  <2> HIDE DEF s, c, Pfn, Next1
  <2> QED BY <2>1, <2>2
<1> HIDE DEF c
<1>6. /\ s.kind = scan.kind /\ s.begin = scan.begin /\ s.length = scan.length /\ s.first = scan.first
      /\ s.frames = scan.frames /\ s.total = scan.total /\ s.read = scan.read
      /\ s.pfn = Pfn(Next1) /\ s.counts = c /\ s.moved = scan.moved /\ s.state = "frame"
  <2> HIDE DEF s, Pfn, Next1
  <2> QED BY <1>5
<1>7. PagesInv'
  BY PagesUnread
<1>8. ShapeInv'
  <2>1. IsCounter(c)
    BY <1>2, TallyCounted DEF ShapeInv, c
  <2>2. s = [kind |-> s.kind, begin |-> s.begin, length |-> s.length,
             frames |-> s.frames, first |-> s.first, total |-> s.total, read |-> s.read,
             pfn |-> s.pfn, counts |-> s.counts, moved |-> s.moved, state |-> s.state]
    <3> HIDE DEF s, Pfn, Next1
    <3> QED BY <1>5, <1>6
  <2> QED BY <1>2, <1>6, <2>1, <2>2 DEF ShapeInv
<1>9. RangeInv'
  <2>1. Asked(s) = Asked(scan)
    BY <1>6 DEF Asked
  <2> HIDE DEF Asked, Pfn, Next1
  <2> QED BY <1>1, <1>2, <1>3, <1>6, <2>1 DEF RangeInv, Pages
<1>10. Behind' = Finished \cup {Next1} /\ Finished' = Finished
  <2>1. Behind' = scan.first..(scan.first + (scan.read + 1) - 1) /\ Finished' = Finished
    BY <1>2, <1>6 DEF Behind, Finished, RangeInv
  <2> QED BY <1>4, <2>1
<1>11. /\ Bounded(InMemory, 0, Finished)
       /\ Met(Visible) + 0 = Met(InMemory)
       /\ \A f : FlagCount(f)
  <2> HIDE DEF Bounded, Met, FlagCount
  <2> QED BY <1>1, <1>2, <1>3, <1>4 DEF CountsInv, FlagsCounts, If
<1>12. Near(Tally(c, InMemory), 0, With(always, InMemory), With(ever, InMemory), Finished \cup {Next1})
  <2>1. InMemory \in {InMemory} <=> InMemory \in Now(Next1)
    BY <1>3, <1>4, PageNow
  <2> HIDE DEF Near, With, Tally, Counted, Finished, Next1, Bounded, InMemory
  <2> QED BY <1>1, <1>11, <2>1, ExactNext DEF c
<1>13. \A m : Tally(c, m) = Met(m) + If(m \in {InMemory}) /\ Met(m) \in Nat
  BY <1>2, TallyNatural, TallyCounted DEF ShapeInv, Met, c
<1> HIDE DEF Near, With, Tally, Finished, Next1, Met, Total, Pfn
<1>14. /\ Tally(c, InMemory) = Met(InMemory) + 1 /\ Tally(c, Visible) = Met(Visible)
       /\ Met(InMemory) \in Nat /\ Met(Visible) \in Nat
  BY <1>13, MarksDiffer DEF If
<1>15. ASSUME NEW f PROVE FlagCount(f)'
  <2>1. Near(Met(Flag(f)), scan.moved, With(always, Flag(f)), With(ever, Flag(f)), Finished)
    BY <1>3, <1>11 DEF FlagCount, Bounded
  <2>2. Tally(c, Flag(f)) = Met(Flag(f))
    <3>1. Flag(f) \notin {InMemory}
      BY MarksDiffer
    <3> QED BY <1>13, <3>1 DEF If
  <2> QED BY <1>3, <1>6, <1>10, <2>1, <2>2 DEF FlagCount, Bounded, Met
<1>16. FlagsCounts'
  <2>1. Tally(c, Visible) + 1 = Tally(c, InMemory)
    BY <1>11, <1>14
  <2> QED BY <1>3, <1>6, <1>15, <2>1 DEF FlagsCounts, Met, If
<1>17. Bounded(InMemory, 0, Behind)'
  BY <1>6, <1>10, <1>12 DEF Bounded, Met
<1>18. CountsInv'
  BY <1>1, <1>6, <1>16, <1>17 DEF CountsInv
<1> QED BY <1>7, <1>8, <1>9, <1>18 DEF ScanInv

LEMMA ReadEntryKeeps == ASSUME ScanInv, ReadEntry PROVE ScanInv'
BY EntryHiddenKeeps, EntryShownKeeps DEF ReadEntry, ReadOnly

(* The flags of a frame are counted: its page's, or anybody's if the page   *)
(* has lost it.                                                             *)
LEMMA FlagsReadKeeps ==
  ASSUME ScanInv, scan.state = "frame", UNCHANGED <<page, swapped, always, ever>>,
         NEW frame, NEW e \in 0..1, e = 1 \/ page[Next1].frame = frame,
         e = 1 \/ frame = scan.pfn,
         scan' = After1({Visible} \cup FlagMarks(frame), scan.moved + e)
  PROVE  ScanInv'
<1> DEFINE marks == {Visible} \cup FlagMarks(frame)
<1>1. ShapeInv /\ RangeInv /\ CountsInv /\ scan.moved \in Nat /\ scan.kind = "page_flags"
      /\ Shown /\ scan.pfn # 0
  BY DEF ScanInv, Active, ShapeInv, RangeInv
<1>2. PageDone(marks, scan.moved + e)
  <2>1. scan' = After1(marks, scan.moved + e) /\ scan.moved + e \in Nat
    BY <1>1
  <2> HIDE DEF marks
  <2> QED BY <2>1, OnePageDone
<1>3. Next1 \in Pages /\ Behind = Finished \cup {Next1}
  BY PageRead
<1>4. /\ Visible \in marks /\ InMemory \notin marks
      /\ \A f : Flag(f) \in marks <=> f \in FrameFlags[frame]
  <2> HIDE DEF InMemory, Visible, Flag
  <2> QED BY MarksDiffer DEF FlagMarks
<1> HIDE DEF marks
<1>5. /\ Bounded(InMemory, 0, Behind)
      /\ Met(Visible) + 1 = Met(InMemory)
      /\ \A f : FlagCount(f)
  <2> HIDE DEF Bounded, Met, FlagCount
  <2> QED BY <1>1 DEF CountsInv, FlagsCounts, If
<1> DEFINE c == Counted(scan.counts, marks)
<1>6. ASSUME NEW f
      PROVE  Near(Tally(c, Flag(f)), scan.moved + e, With(always, Flag(f)), With(ever, Flag(f)),
                  Finished \cup {Next1})
  <2>1. Bounded(Flag(f), scan.moved, Finished)
    BY <1>1, <1>5 DEF FlagCount
  <2>2. e = 1 \/ (Flag(f) \in marks <=> Flag(f) \in Now(Next1))
    BY <1>1, <1>3, <1>4, PageNow DEF Present
  <2> HIDE DEF Near, With, Tally, Counted, Finished, Next1, Bounded
  <2> QED BY <1>1, <2>1, <2>2, BoundedNext
<1>7. \A m : Tally(c, m) = Met(m) + If(m \in marks) /\ Met(m) \in Nat
  BY <1>1, TallyNatural, TallyCounted DEF ShapeInv, Met
<1>8. scan'.counts = c
  BY <1>2 DEF PageDone
<1> HIDE DEF c, Near, With, Tally, Finished, Next1, Met, Total, Behind
<1>9. Tally(c, InMemory) = Met(InMemory) /\ Tally(c, Visible) = Met(Visible) + 1
  BY <1>4, <1>7 DEF If
<1>10. ASSUME NEW f PROVE FlagCount(f)'
  BY <1>1, <1>2, <1>6, <1>8 DEF FlagCount, PageDone, Bounded, Met
<1>11. FlagsCounts'
  <2>1. Tally(c, Visible) + 0 = Tally(c, InMemory)
    BY <1>5, <1>7, <1>9
  <2> QED BY <1>1, <1>2, <1>8, <1>10, <2>1 DEF FlagsCounts, PageDone, Met, If
<1>12. Bounded(InMemory, 0, Behind)'
  BY <1>2, <1>3, <1>5, <1>8, <1>9 DEF PageDone, Bounded, Met
<1>13. CountsInv'
  BY <1>1, <1>2, <1>11, <1>12 DEF CountsInv, PageDone
<1> QED BY <1>2, <1>13 DEF ScanInv, PageDone

LEMMA ReadFrameKeeps == ASSUME ScanInv, ReadFrame PROVE ScanInv'
<1>1. scan.state = "frame" /\ UNCHANGED <<page, swapped, always, ever>>
  BY DEF ReadFrame, ReadOnly
<1>2. ShapeInv /\ scan.moved \in Nat /\ scan.moved + 0 = scan.moved /\ 0 \in 0..1 /\ 1 \in 0..1
  BY DEF ScanInv, ShapeInv
<1>3. CASE page[Next1].frame = scan.pfn
  <2>1. scan' = Read1(scan, {Visible} \cup FlagMarks(scan.pfn))
    BY <1>3 DEF ReadFrame
  <2> HIDE DEF After1, Read1, Visible, FlagMarks, Next1
  <2>2. scan' = After1({Visible} \cup FlagMarks(scan.pfn), scan.moved + 0)
    BY <1>2, <2>1, ReadIsAfter
  <2> QED BY <1>1, <1>2, <1>3, <2>2, FlagsReadKeeps
<1>4. CASE page[Next1].frame # scan.pfn
  <2>1. PICK other \in Frame :
          scan' = [Read1(scan, {Visible} \cup FlagMarks(other)) EXCEPT !.moved = @ + 1]
    BY <1>4 DEF ReadFrame
  <2>2. scan' = After1({Visible} \cup FlagMarks(other), scan.moved + 1)
    <3> DEFINE marks == {Visible} \cup FlagMarks(other)
    <3>1. Read1(scan, marks).moved = scan.moved
      <4>1. Read1(scan, marks) = After1(marks, scan.moved)
        <5> HIDE DEF marks, Read1, After1
        <5> QED BY <1>2, ReadIsAfter
      <4> HIDE DEF marks, Read1
      <4> QED BY <4>1 DEF After1
    <3>2. scan' = [Read1(scan, marks) EXCEPT !.moved = scan.moved + 1]
      <4>1. scan' = [Read1(scan, marks) EXCEPT !.moved = Read1(scan, marks).moved + 1]
        BY <2>1
      <4> HIDE DEF marks, Read1
      <4> QED BY <3>1, <4>1
    <3> HIDE DEF marks, Read1, After1
    <3>3. scan' = After1(marks, scan.moved + 1)
      BY <1>2, <3>2, ReadIsAfter
    <3> QED BY <3>3 DEF marks
  <2> HIDE DEF After1, Visible, FlagMarks, Next1
  <2> QED BY <1>1, <1>2, <2>2, FlagsReadKeeps
<1> QED BY <1>3, <1>4

LEMMA ReadLocationKeeps == ASSUME ScanInv, ReadLocation PROVE ScanInv'
<1> DEFINE n == Node[page[Next1].frame]
           marks == IF Present(Next1) THEN {InMemory, OnNode(n)} ELSE {}
<1>1. /\ scan.state = "reading" /\ scan.kind = "numa" /\ UNCHANGED <<page, swapped, always, ever>>
      /\ scan' = Read1(scan, marks)
  BY DEF ReadLocation, Reading, ReadOnly
<1>2. ShapeInv /\ RangeInv /\ CountsInv /\ scan.moved \in Nat /\ IsCounter(scan.counts)
  BY <1>1 DEF ScanInv, Active, ShapeInv
<1>3. PageDone(marks, scan.moved)
  <2> HIDE DEF marks
  <2>1. scan' = After1(marks, scan.moved)
    BY <1>1, <1>2, ReadIsAfter
  <2> QED BY <1>1, <1>2, <2>1, OnePageDone
<1>4. Next1 \in Pages /\ Behind = Finished
  BY <1>1, PageRead
<1>5. /\ InMemory \in marks <=> Present(Next1)
      /\ \A k : OnNode(k) \in marks <=> Present(Next1) /\ k = n
  <2> HIDE DEF InMemory, OnNode, Next1, n
  <2> QED BY MarksDiffer
<1>6. /\ InMemory \in marks <=> InMemory \in Now(Next1)
      /\ \A k : OnNode(k) \in marks <=> OnNode(k) \in Now(Next1)
  <2> HIDE DEF marks
  <2> QED BY <1>4, <1>5, PageNow
<1>7. /\ Bounded(InMemory, 0, Finished)
      /\ \A k : Bounded(OnNode(k), 0, Finished)
      /\ IsFiniteSet(DOMAIN scan.counts)
      /\ Total(scan.counts, NodeMarks(scan.counts)) = Met(InMemory)
  <2> HIDE DEF Bounded, Met, Total
  <2> QED BY <1>1, <1>2, <1>4 DEF CountsInv, NumaCounts
<1> DEFINE c == Counted(scan.counts, marks)
<1>8. ASSUME NEW m, m = InMemory \/ \E k : m = OnNode(k)
      PROVE  Near(Tally(c, m), 0, With(always, m), With(ever, m), Finished \cup {Next1})
  <2>1. Bounded(m, 0, Finished) /\ (m \in marks <=> m \in Now(Next1))
    <3> HIDE DEF Bounded, marks
    <3> QED BY <1>6, <1>7, <1>8
  <2> HIDE DEF Near, With, Tally, Counted, Finished, Next1, Bounded, marks
  <2> QED BY <1>1, <2>1, ExactNext
<1>9. Tally(c, InMemory) = Met(InMemory) + If(Present(Next1)) /\ Met(InMemory) \in Nat
  <2> HIDE DEF marks
  <2>1. Tally(c, InMemory) = Met(InMemory) + If(InMemory \in marks) /\ Met(InMemory) \in Nat
    BY <1>2, TallyNatural, TallyCounted DEF Met
  <2> QED BY <1>5, <2>1 DEF If
<1>10. IsFiniteSet(DOMAIN c) /\ Total(c, NodeMarks(c)) = Tally(c, InMemory)
  <2>1. CASE Present(Next1)
    <3>1. c = Counted(scan.counts, {InMemory, OnNode(n)})
      BY <2>1
    <3> HIDE DEF n, c, Total
    <3>2. IsFiniteSet(DOMAIN c) /\ Total(c, NodeMarks(c)) = Total(scan.counts, NodeMarks(scan.counts)) + 1
      BY <1>2, <1>7, <3>1, NodesCounted
    <3> QED BY <1>7, <1>9, <2>1, <3>2 DEF If
  <2>2. CASE ~Present(Next1)
    <3>1. c = Counted(scan.counts, {})
      BY <2>2
    <3>2. DOMAIN c = DOMAIN scan.counts /\ \A m \in DOMAIN c : c[m] = scan.counts[m]
      <4>1. ASSUME NEW m \in DOMAIN scan.counts PROVE c[m] = scan.counts[m] + 0 /\ scan.counts[m] \in Nat
        BY <1>2, <3>1, <4>1 DEF Counted, Tally, If, IsCounter
      <4>2. DOMAIN c = DOMAIN scan.counts
        BY <3>1 DEF Counted
      <4> HIDE DEF c
      <4> QED BY <4>1, <4>2
    <3> HIDE DEF c, Total
    <3>3. NodeMarks(c) = NodeMarks(scan.counts) /\ IsFiniteSet(NodeMarks(c))
      BY <1>7, <3>2, FS_Subset DEF NodeMarks
    <3>4. \A m \in NodeMarks(c) : c[m] = scan.counts[m]
      BY <3>2 DEF NodeMarks
    <3>5. Total(c, NodeMarks(c)) = Total(scan.counts, NodeMarks(c))
      BY <3>3, <3>4, TotalSame
    <3> QED BY <1>7, <1>9, <2>2, <3>2, <3>3, <3>5 DEF If
  <2> QED BY <2>1, <2>2
<1>11. scan'.counts = c
  BY <1>3 DEF PageDone
<1> HIDE DEF c, marks, n, Near, With, Tally, Finished, Next1, Met, Total
<1>12. Bounded(InMemory, 0, Behind)'
  BY <1>3, <1>8, <1>11 DEF PageDone, Bounded, Met
<1>13. ASSUME NEW k PROVE Bounded(OnNode(k), 0, Behind)'
  BY <1>3, <1>8, <1>11 DEF PageDone, Bounded, Met
<1>14. NumaCounts'
  BY <1>10, <1>11, <1>13 DEF NumaCounts, Met
<1>15. CountsInv'
  BY <1>1, <1>3, <1>12, <1>14 DEF CountsInv, PageDone
<1> QED BY <1>3, <1>15 DEF ScanInv, PageDone

-----------------------------------------------------------------------------
(* Scans of every range of every process.                                   *)

LEMMA ScanInitially == ASSUME PageInit PROVE ScanInv
<1>1. PagesInv
  BY DEF PageInit, PagesInv, Observed, Now, Present
<1>2. ShapeInv /\ ~Active
  <2>1. scan = Report("none", 0, 0, "hidden", 0, "none")
    BY DEF PageInit
  <2> QED BY <2>1, ReportShape DEF ShapeInv, IsCounter, Active
<1> QED BY <1>1, <1>2 DEF ScanInv

LEMMA ScanUnchanged == ASSUME ScanInv, UNCHANGED pageVars PROVE ScanInv'
<1>1. UNCHANGED <<page, swapped, scan, always, ever>>
  BY DEF pageVars
<1>2. PagesInv'
  BY <1>1, PagesUnread
<1>3. ShapeInv' /\ (Active' <=> Active)
  BY <1>1 DEF ScanInv, ShapeInv, Active
<1>4. ASSUME Active PROVE RangeInv' /\ CountsInv'
  <2>1. RangeInv /\ CountsInv /\ ShapeInv
    BY <1>4 DEF ScanInv
  <2>2. RangeInv'
    BY <1>1, <2>1 DEF RangeInv, Asked, Pages
  <2>3. OnlyMore
    BY <1>1 DEF OnlyMore, With, Pages
  <2> QED BY <2>1, <2>2, <2>3, PageCountsKept
<1> QED BY <1>2, <1>3, <1>4 DEF ScanInv

LEMMA ScanStep == ASSUME ScanInv, [Next]_vars PROVE ScanInv'
<1>1. CASE UNCHANGED vars
  BY <1>1, ScanUnchanged DEF vars
<1>2. CASE Scan
  <2>1. ASSUME NEW begin \in 0..MaxAddr, NEW length \in 1..(MaxAddr + 1), NEW frames,
               StartScan(branch, begin, length, frames)
        PROVE  ScanInv'
    <3>1. branch \in {"pages", "numa", "page_flags"}
      BY <1>2 DEF Scan
    <3>2. PICK kind \in {"pages", "numa", "page_flags"} : kind = branch
      BY <3>1
    <3>3. StartScan(kind, begin, length, frames)
      BY <2>1, <3>2
    <3> QED BY <3>3, StartScanKeeps
  <2>2. CASE Scanning
    BY <2>2, ScanFailsKeeps, ReadPagemapKeeps, ReadEntryKeeps, ReadFrameKeeps, ReadLocationKeeps DEF Scanning
  <2>3. CASE Process
    BY <2>3, WriteKeeps, SwapOutKeeps, UnmapKeeps, MigrateKeeps DEF Process
  <2>4. CASE ClearSoftDirty
    BY <2>4, ClearSoftDirtyKeeps
  <2> QED BY <1>2, <2>1, <2>2, <2>3, <2>4 DEF Scan
<1>3. CASE Clear
  BY <1>3, ClearSoftDirtyKeeps, ScanUnchanged DEF Clear
<1>4. CASE ParseArgs \/ Diff \/ Cgroup \/ Limits \/ Demo \/ Move \/ TakeMaps \/ TakeSmaps \/ TakeProbe
  <2>1. UNCHANGED pageVars
    BY <1>4 DEF ParseArgs, Diff, Cgroup, Limits, Demo, Move, TakeMaps, TakeSmaps, TakeProbe,
                UNCHANGED_Tools, GoOn
  <2> QED BY <2>1, ScanUnchanged
<1>5. CASE PerfStep \/ UseSnapshots \/ Watch
  <2>1. UNCHANGED pageVars
    BY <1>5 DEF PerfStep, UseSnapshots, Watch, UNCHANGED_Tools
  <2> QED BY <2>1, ScanUnchanged
<1> QED BY <1>1, <1>2, <1>3, <1>4, <1>5 DEF Next

LEMMA ScanSound == ASSUME ScanInv PROVE ScanTrue
<1> SUFFICES ASSUME scan.state = "available" PROVE ScanTrue
  BY DEF ScanTrue
<1>1. RangeInv /\ CountsInv /\ ShapeInv /\ scan.read = scan.total
  BY DEF ScanInv, Active, RangeInv
<1> DEFINE asked == scan.first..(scan.first + scan.total - 1)
<1>2. Behind = asked /\ Finished = asked
  BY <1>1 DEF Behind, Finished, RangeInv
<1>3. scan.begin + scan.length <= MaxAddr - PageUnits + 1 => asked = Asked(scan)
  BY <1>1 DEF RangeInv
<1>4. ASSUME NEW m, NEW off, Bounded(m, off, asked)
      PROVE  /\ Cardinality(With(always, m) \cap asked) <= Tally(scan.counts, m) + off
             /\ Tally(scan.counts, m) <= Cardinality(With(ever, m) \cap asked) + off
  <2> HIDE DEF asked, With, Tally
  <2> QED BY <1>4 DEF Bounded, Near, Met
<1> DEFINE Fine(m, off) == /\ Cardinality(With(always, m) \cap asked) <= Tally(scan.counts, m) + off
                           /\ Tally(scan.counts, m) <= Cardinality(With(ever, m) \cap asked) + off
<1>5. \A m, off : Bounded(m, off, asked) => Fine(m, off)
  BY <1>4
<1> HIDE DEF Fine, asked, Bounded, With, Tally, Behind, Finished, Total
<1>6. Fine(InMemory, 0)
  BY <1>1, <1>2, <1>5 DEF CountsInv
<1>7. scan.kind = "pages" =>
        /\ Fine(InSwap, 0) /\ Fine(SoftDirty, 0)
        /\ Tally(scan.counts, InMemory) + Tally(scan.counts, InSwap) <= scan.total
        /\ Tally(scan.counts, Visible) =
             IF Shown THEN Tally(scan.counts, InMemory) + Tally(scan.counts, InSwap) ELSE 0
  BY <1>1, <1>2, <1>5 DEF CountsInv, PagemapCounts, Met
<1>8. ASSUME scan.kind = "page_flags"
      PROVE  /\ Tally(scan.counts, Visible) =
                  IF Shown THEN Tally(scan.counts, InMemory) ELSE 0
             /\ \A f : IF Shown THEN Fine(Flag(f), scan.moved)
                       ELSE Tally(scan.counts, Flag(f)) = 0
  <2>1. FlagsCounts
    BY <1>1, <1>8 DEF CountsInv
  <2>2. Met(Visible) \in Nat
    BY <1>1, TallyNatural DEF Met, ShapeInv
  <2>3. Met(Visible) + 0 = IF Shown THEN Met(InMemory) ELSE 0
    BY <2>1 DEF FlagsCounts, If
  <2>4. ASSUME NEW f PROVE IF Shown THEN Fine(Flag(f), scan.moved)
                           ELSE Tally(scan.counts, Flag(f)) = 0
    <3>1. FlagCount(f)
      BY <2>1 DEF FlagsCounts
    <3> QED BY <1>2, <1>5, <3>1 DEF FlagCount, Met
  <2> QED BY <2>2, <2>3, <2>4 DEF Met
<1>9. ASSUME scan.kind = "numa"
      PROVE  /\ \A n : Fine(OnNode(n), 0)
             /\ MapThenSumSet(LAMBDA m : scan.counts[m], NodeMarks(scan.counts))
                  = Tally(scan.counts, InMemory)
  <2>1. NumaCounts
    BY <1>1, <1>9 DEF CountsInv
  <2>2. \A n : Fine(OnNode(n), 0)
    BY <1>2, <1>5, <2>1 DEF NumaCounts
  <2>3. Total(scan.counts, NodeMarks(scan.counts)) = Tally(scan.counts, InMemory)
    BY <2>1 DEF NumaCounts, Met
  <2> QED BY <2>2, <2>3 DEF Total
<1> QED BY <1>1, <1>3, <1>6, <1>7, <1>8, <1>9 DEF ScanTrue, Fine, asked

(* A finished scan has read the pages of its range, each once, and no       *)
(* others; and every counter, of the pages in memory, in swap, soft-dirty,  *)
(* on a node or with a flag, is between the pages that were so all along    *)
(* and those that were so at some time - a flag up to the pages that lost   *)
(* their frame between two reads - for every page size, address space and   *)
(* range, privileged or not, and however many changes the process makes in  *)
(* between (sample_pagemap, sample_page_flags, sample_numa).                *)
THEOREM ScansTrue == Spec => []ScanTrue
<1>1. Init => ScanInv
  BY ScanInitially DEF Init
<1>2. ScanInv /\ [Next]_vars => ScanInv'
  BY ScanStep
<1>3. ScanInv => ScanTrue
  BY ScanSound
<1> QED BY <1>1, <1>2, <1>3, PTL DEF Spec
-----------------------------------------------------------------------------
(* The ring: positions less than its size apart have slots of their own.    *)

(* The unit at a position: the ring starts again after its last slot.       *)
UnitAt(r, p) == r[p % RingUnits]

LEMMA SlotsDistinct ==
  ASSUME NEW p \in Nat, NEW q \in Nat, p < q, q - p < RingUnits
  PROVE  p % RingUnits # q % RingUnits
<1> DEFINE dp == p \div RingUnits
           dq == q \div RingUnits
           mp == dp * RingUnits
           mq == dq * RingUnits
<1>1. RingUnits \in Nat \ {0}
  BY PerfAssumption
<1>2. /\ dp \in Nat /\ dq \in Nat /\ p % RingUnits = p - mp /\ q % RingUnits = q - mq
  BY <1>1, DivBounds
<1>3. dp < dq => mp + RingUnits <= mq
  <2> HIDE DEF dp, dq
  <2> QED BY <1>1, <1>2, MulMono
<1>4. dq < dp => mq + RingUnits <= mp
  <2> HIDE DEF dp, dq
  <2> QED BY <1>1, <1>2, MulMono
<1>5. mp \in Int /\ mq \in Int
  <2> HIDE DEF dp, dq
  <2> QED BY <1>1, <1>2, ProductInteger
<1>6. dp = dq => mp = mq
  OBVIOUS
<1>7. p - mp # q - mq
  <2> HIDE DEF dp, dq, mp, mq
  <2> QED BY <1>1, <1>2, <1>3, <1>4, <1>5, <1>6
<1> HIDE DEF dp, dq, mp, mq
<1> QED BY <1>2, <1>7

LEMMA SlotInRing == ASSUME NEW p \in Nat PROVE p % RingUnits \in 0..(RingUnits - 1)
<1>1. RingUnits \in Nat \ {0}
  BY PerfAssumption
<1>2. p % RingUnits = p - (p \div RingUnits) * RingUnits
      /\ (p \div RingUnits) * RingUnits <= p /\ p < (p \div RingUnits) * RingUnits + RingUnits
      /\ p \div RingUnits \in Nat
  BY <1>1, DivBounds
<1>3. (p \div RingUnits) * RingUnits \in Int
  BY <1>1, <1>2, ProductInteger
<1> DEFINE m == (p \div RingUnits) * RingUnits
<1>4. p % RingUnits = p - m /\ m <= p /\ p < m + RingUnits /\ m \in Int
  BY <1>2, <1>3
<1> HIDE DEF m
<1> QED BY <1>1, <1>4

(* What a write leaves, and what it writes.                                 *)
LEMMA WrittenUnits ==
  ASSUME DOMAIN ring = 0..(RingUnits - 1), NEW at \in Nat, NEW units, NEW n \in Nat, n <= RingUnits,
         DOMAIN units = 1..n
  PROVE  /\ DOMAIN Written(at, units) = DOMAIN ring
         /\ \A p \in Nat : p < at /\ at + n - p <= RingUnits =>
              UnitAt(Written(at, units), p) = UnitAt(ring, p)
         /\ \A j \in 1..n : UnitAt(Written(at, units), at + j - 1) = units[j]
<1> DEFINE hits(slot) == {i \in 1..n : (at + i - 1) % RingUnits = slot}
<1>1. RingUnits \in Nat \ {0}
  BY PerfAssumption
<1>2. Written(at, units) = [slot \in 0..(RingUnits - 1) |->
                             IF hits(slot) = {} THEN ring[slot] ELSE units[Max(hits(slot))]]
  BY DEF Written
<1>3. ASSUME NEW p \in Nat, p < at, at + n - p <= RingUnits
      PROVE  UnitAt(Written(at, units), p) = UnitAt(ring, p)
  <2>1. ASSUME NEW i \in 1..n PROVE (at + i - 1) % RingUnits # p % RingUnits
    <3>1. at + i - 1 \in Nat /\ p < at + i - 1 /\ (at + i - 1) - p < RingUnits
      BY <1>1, <1>3
    <3> QED BY <3>1, SlotsDistinct
  <2>2. hits(p % RingUnits) = {}
    BY <2>1
  <2>3. p % RingUnits \in 0..(RingUnits - 1)
    BY SlotInRing
  <2> HIDE DEF hits
  <2> QED BY <1>2, <2>2, <2>3 DEF UnitAt
<1>4. ASSUME NEW j \in 1..n PROVE UnitAt(Written(at, units), at + j - 1) = units[j]
  <2> DEFINE s == (at + j - 1) % RingUnits
  <2>1. ASSUME NEW i \in 1..n, i # j PROVE (at + i - 1) % RingUnits # s
    <3>1. /\ at + i - 1 \in Nat /\ at + j - 1 \in Nat
          /\ i < j => at + i - 1 < at + j - 1 /\ (at + j - 1) - (at + i - 1) < RingUnits
          /\ j < i => at + j - 1 < at + i - 1 /\ (at + i - 1) - (at + j - 1) < RingUnits
          /\ i < j \/ j < i
      BY <1>1, <2>1
    <3> QED BY <3>1, SlotsDistinct
  <2>2. hits(s) = {j}
    BY <2>1
  <2>3. Max({j}) = j
    BY DEF Max
  <2>4. s \in 0..(RingUnits - 1)
    <3>1. at + j - 1 \in Nat
      OBVIOUS
    <3> QED BY <3>1, SlotInRing
  <2> HIDE DEF hits, s
  <2>5. Written(at, units)[s] = units[j]
    BY <1>2, <2>2, <2>3, <2>4
  <2> QED BY <2>5 DEF UnitAt, s
<1>5. DOMAIN Written(at, units) = DOMAIN ring
  <2> HIDE DEF hits
  <2> QED BY <1>2
<1> QED BY <1>3, <1>4, <1>5

-----------------------------------------------------------------------------
(* Whole records: one begins at p and ends at h or before.                  *)

Alike(u, v) == u.of = v.of /\ u.type = v.type /\ u.value = v.value /\ u.size = v.size

RecordAt(r, p, h) ==
  LET u == UnitAt(r, p)
  IN  /\ u.part = 1 /\ u.size \in Nat /\ u.size >= 2 /\ p + u.size <= h
      /\ \/ u.type = "sample" /\ u.value \in Address
         \/ u.type = "lost" /\ u.value \in Nat
      /\ \A i \in 1..u.size : Alike(UnitAt(r, p + i - 1), u) /\ UnitAt(r, p + i - 1).part = i

(* The positions from c to h are records, one after the other.              *)
Covers(r, b, p, h) == RecordAt(r, b, h) /\ p < b + UnitAt(r, b).size
WholeRecords(r, c, h) == \A p \in c..(h - 1) : \E b \in c..p : Covers(r, b, p, h)

(* Where those of a type begin.                                             *)
Starts(r, c, h, type) == {p \in c..(h - 1) : UnitAt(r, p).part = 1 /\ UnitAt(r, p).type = type}

Agree(r, q, c, h) == \A p \in c..(h - 1) : UnitAt(q, p) = UnitAt(r, p)

LEMMA RecordAgrees ==
  ASSUME NEW r, NEW q, NEW c \in Nat, NEW h \in Nat, Agree(r, q, c, h), NEW b \in c..(h - 1), RecordAt(r, b, h)
  PROVE  RecordAt(q, b, h)
<1> DEFINE u == UnitAt(r, b)
<1>1. UnitAt(q, b) = u
  BY DEF Agree
<1>2. u.size \in Nat /\ b + u.size <= h
  BY DEF RecordAt
<1>3. ASSUME NEW i \in 1..u.size PROVE UnitAt(q, b + i - 1) = UnitAt(r, b + i - 1)
  <2>1. b + i - 1 \in c..(h - 1)
    BY <1>2
  <2> QED BY <2>1 DEF Agree
<1>4. \A i \in 1..u.size : Alike(UnitAt(q, b + i - 1), u) /\ UnitAt(q, b + i - 1).part = i
  BY <1>3 DEF RecordAt
<1> QED BY <1>1, <1>4 DEF RecordAt

LEMMA WholeAgrees ==
  ASSUME NEW r, NEW q, NEW c \in Nat, NEW h \in Nat, Agree(r, q, c, h), WholeRecords(r, c, h)
  PROVE  WholeRecords(q, c, h) /\ \A type : Starts(q, c, h, type) = Starts(r, c, h, type)
<1>1. ASSUME NEW p \in c..(h - 1) PROVE \E b \in c..p : Covers(q, b, p, h)
  <2>1. PICK b \in c..p : Covers(r, b, p, h)
    BY DEF WholeRecords
  <2>2. b \in c..(h - 1)
    OBVIOUS
  <2>3. RecordAt(q, b, h) /\ UnitAt(q, b) = UnitAt(r, b)
    BY <2>1, <2>2, RecordAgrees DEF Covers, Agree
  <2> QED BY <2>1, <2>3 DEF Covers
<1>2. ASSUME NEW type PROVE Starts(q, c, h, type) = Starts(r, c, h, type)
  BY DEF Starts, Agree
<1> QED BY <1>1, <1>2 DEF WholeRecords

(* A record more.                                                           *)
Gains(r, c, h, k) ==
  \A type : Starts(r, c, k, type) =
              Starts(r, c, h, type) \cup (IF UnitAt(r, h).type = type THEN {h} ELSE {})

LEMMA RecordAppended ==
  ASSUME NEW r, NEW c \in Nat, NEW h \in Nat, c <= h, WholeRecords(r, c, h),
         NEW k \in Nat, RecordAt(r, h, k), k = h + UnitAt(r, h).size
  PROVE  WholeRecords(r, c, k) /\ Gains(r, c, h, k)
<1> DEFINE n == UnitAt(r, h).size
<1>1. n \in Nat /\ n >= 2 /\ UnitAt(r, h).part = 1
      /\ \A i \in 1..n : Alike(UnitAt(r, h + i - 1), UnitAt(r, h)) /\ UnitAt(r, h + i - 1).part = i
  BY DEF RecordAt
<1>2. ASSUME NEW p \in c..(k - 1) PROVE \E b \in c..p : Covers(r, b, p, k)
  <2>1. CASE p < h
    <3>1. PICK b \in c..p : Covers(r, b, p, h)
      <4>1. p \in c..(h - 1)
        BY <2>1
      <4> QED BY <4>1 DEF WholeRecords
    <3>2. RecordAt(r, b, k)
      BY <1>1, <3>1 DEF Covers, RecordAt
    <3> QED BY <3>1, <3>2 DEF Covers
  <2>2. CASE h <= p
    <3>1. h \in c..p /\ p < h + n
      BY <2>2
    <3> QED BY <3>1 DEF Covers
  <2> QED BY <2>1, <2>2
<1>3. ASSUME NEW p \in h..(k - 1), p # h PROVE UnitAt(r, p).part # 1
  <2> DEFINE i == p - h + 1
  <2>1. i \in 1..n /\ i # 1 /\ p = h + i - 1
    BY <1>1, <1>3
  <2> HIDE DEF i
  <2> QED BY <1>1, <2>1
<1>4. ASSUME NEW type
      PROVE  Starts(r, c, k, type) = Starts(r, c, h, type) \cup (IF UnitAt(r, h).type = type THEN {h} ELSE {})
  <2>1. c..(k - 1) = (c..(h - 1)) \cup (h..(k - 1)) /\ h \in h..(k - 1)
    BY <1>1
  <2> QED BY <1>1, <1>3, <2>1 DEF Starts
<1> QED BY <1>2, <1>4 DEF WholeRecords, Gains

LEMMA GainsOf ==
  ASSUME NEW r, NEW c, NEW h, NEW k, Gains(r, c, h, k), NEW type
  PROVE  /\ UnitAt(r, h).type = type => Starts(r, c, k, type) = Starts(r, c, h, type) \cup {h}
         /\ UnitAt(r, h).type # type => Starts(r, c, k, type) = Starts(r, c, h, type)
<1>1. Starts(r, c, k, type) = Starts(r, c, h, type) \cup (IF UnitAt(r, h).type = type THEN {h} ELSE {})
  BY DEF Gains
<1> QED BY <1>1

(* A record less.                                                           *)
Loses(r, c, h, k) ==
  \A type : /\ Starts(r, k, h, type) = Starts(r, c, h, type) \ {c}
            /\ c \in Starts(r, c, h, type) <=> UnitAt(r, c).type = type

LEMMA RecordConsumed ==
  ASSUME NEW r, NEW c \in Nat, NEW h \in Nat, c < h, WholeRecords(r, c, h),
         NEW k, k = c + UnitAt(r, c).size
  PROVE  /\ RecordAt(r, c, h) /\ k \in Nat /\ k <= h
         /\ WholeRecords(r, k, h) /\ Loses(r, c, h, k)
         /\ \A s \in (c + 1)..h : s = h \/ UnitAt(r, s).part = 1 => k <= s
<1> DEFINE n == UnitAt(r, c).size
<1>1. RecordAt(r, c, h)
  <2>1. c \in c..(h - 1)
    OBVIOUS
  <2>2. PICK b \in c..c : Covers(r, b, c, h)
    BY <2>1 DEF WholeRecords
  <2>3. b = c
    OBVIOUS
  <2> QED BY <2>2, <2>3 DEF Covers
<1>2. n \in Nat /\ n >= 2 /\ c + n <= h /\ UnitAt(r, c).part = 1
      /\ \A i \in 1..n : UnitAt(r, c + i - 1).part = i
  BY <1>1 DEF RecordAt
<1>3. ASSUME NEW p \in c..(k - 1), p # c PROVE UnitAt(r, p).part # 1
  <2> DEFINE i == p - c + 1
  <2>1. i \in 1..n /\ i # 1 /\ p = c + i - 1
    BY <1>2, <1>3
  <2> HIDE DEF i
  <2> QED BY <1>2, <2>1
<1>4. ASSUME NEW p \in k..(h - 1) PROVE \E b \in k..p : Covers(r, b, p, h)
  <2>1. PICK b \in c..p : Covers(r, b, p, h)
    <3>1. p \in c..(h - 1)
      BY <1>2
    <3> QED BY <3>1 DEF WholeRecords
  <2>2. UnitAt(r, b).part = 1 /\ p < b + UnitAt(r, b).size
    BY <2>1 DEF Covers, RecordAt
  <2>3. b # c
    BY <1>2, <2>2
  <2>4. b \in k..p
    BY <1>2, <1>3, <2>2, <2>3
  <2> QED BY <2>1, <2>4
<1>5. ASSUME NEW type
      PROVE  /\ Starts(r, k, h, type) = Starts(r, c, h, type) \ {c}
             /\ c \in Starts(r, c, h, type) <=> UnitAt(r, c).type = type
  <2>1. c..(h - 1) = (c..(k - 1)) \cup (k..(h - 1)) /\ c \in c..(k - 1) /\ c \notin k..(h - 1)
    BY <1>2
  <2> QED BY <1>2, <1>3, <2>1 DEF Starts
<1>6. ASSUME NEW s \in (c + 1)..h, s = h \/ UnitAt(r, s).part = 1 PROVE k <= s
  <2>1. CASE s = h
    BY <1>2, <2>1
  <2>2. CASE UnitAt(r, s).part = 1
    BY <1>2, <1>3, <2>2
  <2> QED BY <1>6, <2>1, <2>2
<1> QED BY <1>1, <1>2, <1>4, <1>5, <1>6 DEF WholeRecords, Loses

-----------------------------------------------------------------------------
(* What holds at any time.                                                  *)

(* A bag: positive counts.                                                  *)
Proper(b) == IsTally(b) /\ IsMap(b) /\ Positive(b)

(* What has not been read lies between tail and head; cursor is where the   *)
(* next record begins.                                                      *)
RingInv ==
  /\ head \in Nat /\ tail \in Nat /\ cursor \in Nat /\ seen \in Nat
  /\ DOMAIN ring = 0..(RingUnits - 1)
  /\ tail <= cursor /\ cursor <= head /\ head - tail <= RingUnits
  /\ WholeRecords(ring, cursor, head)

(* parse_samples stops between two records; outside of it everything that   *)
(* was read is given back.                                                  *)
ReadInv ==
  /\ Parsing => cursor <= seen /\ seen <= head /\ (seen = head \/ UnitAt(ring, seen).part = 1)
  /\ ~Parsing => cursor = tail /\ header = <<>>
  /\ header = <<>> \/ (header = <<UnitAt(ring, cursor)>> /\ cursor < seen)

StateInv ==
  /\ DOMAIN perf = {"state", "event", "hotspots", "samples", "lost", "whole"}
  /\ perf.state \in {"none", "error", "disabled", "last", "available"} => ~enabled
  /\ perf.state = "last" => seen = head
  /\ perf.state = "available" => cursor = head
  /\ perf.state = "none" => perf.samples = EmptyBag /\ perf.hotspots = EmptyBag

(* Every event is in the report, in the ring, or dropped.                   *)
Valued(r, S, a) == {p \in S : UnitAt(r, p).value = a}
AllCopies(t, s, d, r, S) ==
  \A a : Copies0(t, a) = Copies0(s, a) + Cardinality(Valued(r, S, a)) + Copies0(d, a)
AllEvents(t, s, d, S) ==
  Total(t, DOMAIN t) = Total(s, DOMAIN s) + Cardinality(S) + Total(d, DOMAIN d)

(* A drop is in the report, in a LOST record, or still to be told.          *)
LostIn(r, S) == Total([p \in S |-> UnitAt(r, p).value], S)
AllDrops(d, told, due, r, S) == Total(d, DOMAIN d) = told + due + LostIn(r, S)

CountInv ==
  /\ Proper(taken) /\ Proper(dropped) /\ Proper(perf.samples)
  /\ lost \in Nat /\ perf.lost \in Nat
  /\ AllCopies(taken, perf.samples, dropped, ring, Starts(ring, cursor, head, "sample"))
  /\ AllEvents(taken, perf.samples, dropped, Starts(ring, cursor, head, "sample"))
  /\ AllDrops(dropped, perf.lost, lost, ring, Starts(ring, cursor, head, "lost"))

(* The buckets are the samples by region.                                   *)
InRegion(regs, key) == {b \in Address : RegionForAddr(regs, b) = key}
BucketsTrue(hot, s, regs) ==
  \A key : Copies0(hot, key) = Total([a \in Address |-> Copies0(s, a)], InRegion(regs, key))

HotInv == perf.whole /\ IsCounter(perf.hotspots) /\ BucketsTrue(perf.hotspots, perf.samples, regions)

PerfInv == RingInv /\ ReadInv /\ StateInv /\ CountInv /\ HotInv

-----------------------------------------------------------------------------
(* Counting.                                                                *)

LEMMA BagAddIsPlus == ASSUME NEW b, IsCounter(b), NEW x PROVE BagAdd(b, x) = Plus(b, x)
<1>1. CASE x \in DOMAIN b
  <2>1. DOMAIN b \cup {x} = DOMAIN b
    BY <1>1
  <2>2. \A y \in DOMAIN b : Copies0(b, y) + (IF y = x THEN 1 ELSE 0) = (IF y = x THEN b[y] + 1 ELSE b[y])
    BY DEF Copies0, IsCounter
  <2>3. BagAdd(b, x) = [y \in DOMAIN b |-> IF y = x THEN b[y] + 1 ELSE b[y]]
    BY <1>1 DEF BagAdd
  <2>4. Plus(b, x) = [y \in DOMAIN b |-> Copies0(b, y) + (IF y = x THEN 1 ELSE 0)]
    BY <2>1 DEF Plus
  <2> QED BY <2>2, <2>3, <2>4
<1>2. CASE x \notin DOMAIN b
  <2>1. \A y \in DOMAIN b \cup {x} : Copies0(b, y) + (IF y = x THEN 1 ELSE 0) = (IF y = x THEN 1 ELSE b[y])
    BY <1>2 DEF Copies0, IsCounter
  <2>2. BagAdd(b, x) = [y \in DOMAIN b \cup {x} |-> IF y = x THEN 1 ELSE b[y]]
    BY <1>2 DEF BagAdd
  <2>3. Plus(b, x) = [y \in DOMAIN b \cup {x} |-> Copies0(b, y) + (IF y = x THEN 1 ELSE 0)]
    BY DEF Plus
  <2> QED BY <2>1, <2>2, <2>3
<1> QED BY <1>1, <1>2

LEMMA ProperAdded ==
  ASSUME NEW b, Proper(b), NEW x, NEW c, c = BagAdd(b, x)
  PROVE  Proper(c) /\ OneMoreOf(b, c, x) /\ Total(c, DOMAIN c) = Total(b, DOMAIN b) + 1
<1>1. IsTally(b) /\ IsCounter(b) /\ Positive(b)
  BY DEF Proper, IsTally
<1>2. c = Plus(b, x)
  BY <1>1, BagAddIsPlus
<1>3. IsMap(c) /\ OneMoreOf(b, c, x) /\ Positive(c)
  BY <1>1, <1>2, PlusCopies
<1>4. IsTally(c) /\ Total(c, DOMAIN c) = Total(b, DOMAIN b) + 1
  BY <1>1, <1>2, PlusTotal
<1> QED BY <1>3, <1>4 DEF Proper

LEMMA ProperEmpty ==
  /\ Proper(EmptyBag) /\ DOMAIN EmptyBag = {} /\ Total(EmptyBag, DOMAIN EmptyBag) = 0
  /\ \A x : Copies0(EmptyBag, x) = 0
<1>1. DOMAIN EmptyBag = {} /\ EmptyBag = [x \in {} |-> EmptyBag[x]]
  BY DEF EmptyBag, SetToBag
<1>2. Total(EmptyBag, DOMAIN EmptyBag) = 0
  BY <1>1, TotalEmpty
<1> QED BY <1>1, <1>2, FS_EmptySet DEF Proper, IsTally, IsCounter, Copies0, IsMap, Positive

LEMMA ProperTotal == ASSUME NEW b, Proper(b) PROVE Total(b, DOMAIN b) \in Int /\ \A x : Copies0(b, x) \in Nat
<1>1. IsFiniteSet(DOMAIN b) /\ IsCounter(b) /\ \A x \in DOMAIN b : b[x] \in Int
  BY DEF Proper, IsTally, IsCounter
<1> QED BY <1>1, TotalInteger, Copies0InNat

(* Of finitely many positions.                                              *)
LEMMA StartsFinite ==
  ASSUME NEW r, NEW c \in Nat, NEW h \in Nat, NEW type
  PROVE  IsFiniteSet(Starts(r, c, h, type)) /\ h \notin Starts(r, c, h, type)
<1>1. IsFiniteSet(c..(h - 1))
  BY FS_Interval
<1>2. Starts(r, c, h, type) \subseteq c..(h - 1)
  BY DEF Starts
<1>3. h \notin c..(h - 1)
  OBVIOUS
<1> QED BY <1>1, <1>2, <1>3, FS_Subset

(* An event that found room.                                                *)
LEMMA EventKept ==
  ASSUME NEW t, Proper(t), NEW s, Proper(s), NEW d, Proper(d), NEW r, NEW S, IsFiniteSet(S),
         AllCopies(t, s, d, r, S), AllEvents(t, s, d, S),
         NEW q, \A p \in S : UnitAt(q, p) = UnitAt(r, p),
         NEW m, m \notin S, NEW u, u = BagAdd(t, UnitAt(q, m).value)
  PROVE  Proper(u) /\ AllCopies(u, s, d, q, S \cup {m}) /\ AllEvents(u, s, d, S \cup {m})
<1> DEFINE a == UnitAt(q, m).value
<1>1. Proper(u) /\ OneMoreOf(t, u, a) /\ Total(u, DOMAIN u) = Total(t, DOMAIN t) + 1
  BY ProperAdded
<1>2. \A x : Copies0(t, x) \in Nat /\ Copies0(s, x) \in Nat /\ Copies0(d, x) \in Nat
  BY ProperTotal
<1>3. ASSUME NEW x
      PROVE  Copies0(u, x) = Copies0(s, x) + Cardinality(Valued(q, S \cup {m}, x)) + Copies0(d, x)
  <2>1. IsFiniteSet(Valued(r, S, x)) /\ Cardinality(Valued(r, S, x)) \in Nat /\ m \notin Valued(r, S, x)
    <3>1. Valued(r, S, x) \subseteq S
      BY DEF Valued
    <3> QED BY <3>1, FS_Subset, FS_CardinalityType
  <2>2. Copies0(t, x) = Copies0(s, x) + Cardinality(Valued(r, S, x)) + Copies0(d, x)
    BY DEF AllCopies
  <2>3. Copies0(u, x) = Copies0(t, x) + (IF x = a THEN 1 ELSE 0)
    BY <1>1 DEF OneMoreOf
  <2>4. CASE x = a
    <3>1. Valued(q, S \cup {m}, x) = Valued(r, S, x) \cup {m}
      BY <2>4 DEF Valued
    <3>2. Cardinality(Valued(q, S \cup {m}, x)) = Cardinality(Valued(r, S, x)) + 1
      BY <2>1, <3>1, FS_AddElement
    <3> QED BY <1>2, <2>1, <2>2, <2>3, <2>4, <3>2
  <2>5. CASE x # a
    <3>1. Valued(q, S \cup {m}, x) = Valued(r, S, x)
      BY <2>5 DEF Valued
    <3> QED BY <1>2, <2>1, <2>2, <2>3, <2>5, <3>1
  <2> QED BY <2>4, <2>5
<1>4. Cardinality(S \cup {m}) = Cardinality(S) + 1 /\ Cardinality(S) \in Nat
  BY FS_AddElement, FS_CardinalityType
<1>5. Total(s, DOMAIN s) \in Int /\ Total(d, DOMAIN d) \in Int
  BY ProperTotal
<1>6. AllEvents(u, s, d, S \cup {m})
  <2> DEFINE x == Total(s, DOMAIN s)
             y == Total(d, DOMAIN d)
             n == Cardinality(S)
  <2>1. Total(t, DOMAIN t) = x + n + y
    BY DEF AllEvents
  <2>2. x \in Int /\ y \in Int /\ n \in Nat /\ Cardinality(S \cup {m}) = n + 1
    BY <1>4, <1>5
  <2>3. Total(u, DOMAIN u) = (x + n + y) + 1
    BY <1>1, <2>1
  <2> HIDE DEF x, y, n
  <2>4. Total(u, DOMAIN u) = x + Cardinality(S \cup {m}) + y
    BY <2>2, <2>3
  <2> QED BY <2>4 DEF AllEvents, x, y
<1> QED BY <1>1, <1>3, <1>6 DEF AllCopies

(* An event that did not.                                                   *)
LEMMA EventDropped ==
  ASSUME NEW t, Proper(t), NEW s, Proper(s), NEW d, Proper(d), NEW r, NEW S, IsFiniteSet(S),
         AllCopies(t, s, d, r, S), AllEvents(t, s, d, S),
         NEW a, NEW u, u = BagAdd(t, a), NEW e, e = BagAdd(d, a)
  PROVE  Proper(u) /\ Proper(e) /\ AllCopies(u, s, e, r, S) /\ AllEvents(u, s, e, S)
<1>1. /\ Proper(u) /\ OneMoreOf(t, u, a) /\ Total(u, DOMAIN u) = Total(t, DOMAIN t) + 1
      /\ Proper(e) /\ OneMoreOf(d, e, a) /\ Total(e, DOMAIN e) = Total(d, DOMAIN d) + 1
  BY ProperAdded
<1>2. \A x : Copies0(t, x) \in Nat /\ Copies0(s, x) \in Nat /\ Copies0(d, x) \in Nat
  BY ProperTotal
<1>3. ASSUME NEW x
      PROVE  Copies0(u, x) = Copies0(s, x) + Cardinality(Valued(r, S, x)) + Copies0(e, x)
  <2>1. Cardinality(Valued(r, S, x)) \in Nat
    <3>1. Valued(r, S, x) \subseteq S
      BY DEF Valued
    <3> QED BY <3>1, FS_Subset, FS_CardinalityType
  <2>2. Copies0(t, x) = Copies0(s, x) + Cardinality(Valued(r, S, x)) + Copies0(d, x)
    BY DEF AllCopies
  <2>3. /\ Copies0(u, x) = Copies0(t, x) + (IF x = a THEN 1 ELSE 0)
        /\ Copies0(e, x) = Copies0(d, x) + (IF x = a THEN 1 ELSE 0)
    BY <1>1 DEF OneMoreOf
  <2> QED BY <1>2, <2>1, <2>2, <2>3
<1>6. AllEvents(u, s, e, S)
  <2> DEFINE x == Total(s, DOMAIN s)
             y == Total(d, DOMAIN d)
             z == Total(e, DOMAIN e)
             n == Cardinality(S)
  <2>1. Total(t, DOMAIN t) = x + n + y
    BY DEF AllEvents
  <2>2. x \in Int /\ y \in Int /\ n \in Nat /\ z = y + 1
    BY <1>1, ProperTotal, FS_CardinalityType
  <2>3. Total(u, DOMAIN u) = (x + n + y) + 1
    BY <1>1, <2>1
  <2> HIDE DEF x, y, z, n
  <2>4. Total(u, DOMAIN u) = x + n + z
    BY <2>2, <2>3
  <2> QED BY <2>4 DEF AllEvents, x, z, n
<1> QED BY <1>1, <1>3, <1>6 DEF AllCopies

(* An event that is read.                                                   *)
LEMMA EventRead ==
  ASSUME NEW t, Proper(t), NEW s, Proper(s), NEW d, Proper(d), NEW r, NEW S, IsFiniteSet(S),
         AllCopies(t, s, d, r, S), AllEvents(t, s, d, S),
         NEW c \in S, NEW e, e = BagAdd(s, UnitAt(r, c).value)
  PROVE  Proper(e) /\ AllCopies(t, e, d, r, S \ {c}) /\ AllEvents(t, e, d, S \ {c})
<1> DEFINE a == UnitAt(r, c).value
<1>1. Proper(e) /\ OneMoreOf(s, e, a) /\ Total(e, DOMAIN e) = Total(s, DOMAIN s) + 1
  BY ProperAdded
<1>2. \A x : Copies0(t, x) \in Nat /\ Copies0(s, x) \in Nat /\ Copies0(d, x) \in Nat
  BY ProperTotal
<1>3. ASSUME NEW x
      PROVE  Copies0(t, x) = Copies0(e, x) + Cardinality(Valued(r, S \ {c}, x)) + Copies0(d, x)
  <2>1. IsFiniteSet(Valued(r, S, x)) /\ Cardinality(Valued(r, S, x)) \in Nat
    <3>1. Valued(r, S, x) \subseteq S
      BY DEF Valued
    <3> QED BY <3>1, FS_Subset, FS_CardinalityType
  <2>2. Copies0(t, x) = Copies0(s, x) + Cardinality(Valued(r, S, x)) + Copies0(d, x)
    BY DEF AllCopies
  <2>3. Copies0(e, x) = Copies0(s, x) + (IF x = a THEN 1 ELSE 0)
    BY <1>1 DEF OneMoreOf
  <2>4. CASE x = a
    <3>1. Valued(r, S \ {c}, x) = Valued(r, S, x) \ {c} /\ c \in Valued(r, S, x)
      BY <2>4 DEF Valued
    <3>2. Cardinality(Valued(r, S \ {c}, x)) = Cardinality(Valued(r, S, x)) - 1
      BY <2>1, <3>1, FS_RemoveElement
    <3> QED BY <1>2, <2>1, <2>2, <2>3, <2>4, <3>2
  <2>5. CASE x # a
    <3>1. Valued(r, S \ {c}, x) = Valued(r, S, x)
      BY <2>5 DEF Valued
    <3> QED BY <1>2, <2>1, <2>2, <2>3, <2>5, <3>1
  <2> QED BY <2>4, <2>5
<1>6. AllEvents(t, e, d, S \ {c})
  <2> DEFINE x == Total(s, DOMAIN s)
             y == Total(d, DOMAIN d)
             z == Total(e, DOMAIN e)
             n == Cardinality(S)
             l == Cardinality(S \ {c})
  <2>1. Total(t, DOMAIN t) = x + n + y
    BY DEF AllEvents
  <2>2. x \in Int /\ y \in Int /\ n \in Nat /\ z = x + 1 /\ l = n - 1
    BY <1>1, ProperTotal, FS_CardinalityType, FS_RemoveElement
  <2> HIDE DEF x, y, z, n, l
  <2>4. Total(t, DOMAIN t) = z + l + y
    BY <2>1, <2>2
  <2> QED BY <2>4 DEF AllEvents, z, y, l
<1> QED BY <1>1, <1>3, <1>6 DEF AllCopies

(* The LOST records.                                                        *)
LEMMA LostSame ==
  ASSUME NEW r, NEW q, NEW S, IsFiniteSet(S), \A p \in S : UnitAt(q, p) = UnitAt(r, p)
  PROVE  LostIn(q, S) = LostIn(r, S)
<1> DEFINE h == [p \in S |-> UnitAt(r, p).value]
           g == [p \in S |-> UnitAt(q, p).value]
<1>1. \A p \in S : g[p] = h[p]
  OBVIOUS
<1> HIDE DEF h, g
<1>2. Total(g, S) = Total(h, S)
  BY <1>1, TotalSame
<1> QED BY <1>2 DEF LostIn, g, h

LEMMA LostMore ==
  ASSUME NEW r, NEW S, IsFiniteSet(S), NEW m, m \notin S,
         \A p \in S \cup {m} : UnitAt(r, p).value \in Nat
  PROVE  /\ LostIn(r, S \cup {m}) = LostIn(r, S) + UnitAt(r, m).value
         /\ LostIn(r, S) \in Int
<1> DEFINE T == S \cup {m}
           h == [p \in S |-> UnitAt(r, p).value]
           g == [p \in T |-> UnitAt(r, p).value]
<1>1. /\ \A p \in S : h[p] = g[p] /\ h[p] \in Int /\ g[p] \in Int
      /\ g[m] = UnitAt(r, m).value /\ g[m] \in Int
  OBVIOUS
<1> HIDE DEF h, g
<1>2. Total(g, S \cup {m}) = Total(g, S) + g[m]
  BY <1>1, TotalAdd
<1>3. Total(h, S) = Total(g, S) /\ Total(h, S) \in Int
  BY <1>1, TotalSame, TotalInteger
<1> QED BY <1>1, <1>2, <1>3 DEF LostIn, g, h

-----------------------------------------------------------------------------
(* The kernel writes.                                                       *)

(* What an event writes if there is room: Overflow.                         *)
Notice(n) == IF lost > 0 THEN Record(-n, "lost", lost, 1) ELSE <<>>
Units(n, a) == Notice(n) \o Record(n, "sample", a, BodyUnits)
NoticeUnits == IF lost > 0 THEN 2 ELSE 0

LEMMA MapIsSequence ==
  ASSUME NEW T, NEW l \in Nat, NEW f \in [1..l -> T]
  PROVE  f \in Seq(T) /\ Len(f) = l
OBVIOUS

LEMMA Concatenated ==
  ASSUME NEW T, NEW s \in Seq(T), NEW t \in Seq(T)
  PROVE  /\ \A i \in 1..Len(s) : (s \o t)[i] = s[i]
         /\ \A i \in 1..Len(t) : (s \o t)[Len(s) + i] = t[i]
OBVIOUS

LEMMA UnitsShape ==
  ASSUME lost \in Nat, NEW n, NEW a
  PROVE  /\ Len(Units(n, a)) = NoticeUnits + BodyUnits + 1
         /\ DOMAIN Units(n, a) = 1..(NoticeUnits + BodyUnits + 1)
         /\ \A i \in 1..(BodyUnits + 1) : Units(n, a)[NoticeUnits + i] = Record(n, "sample", a, BodyUnits)[i]
         /\ lost > 0 => \A i \in 1..2 : Units(n, a)[i] = Record(-n, "lost", lost, 1)[i]
<1> DEFINE s == Notice(n)
           t == Record(n, "sample", a, BodyUnits)
           T == {s[i] : i \in 1..2} \cup {t[i] : i \in 1..(BodyUnits + 1)}
<1>1. BodyUnits \in Nat
  BY PerfAssumption
<1>2. t \in [1..(BodyUnits + 1) -> T]
  <2>1. DOMAIN t = 1..(BodyUnits + 1) /\ IsMap(t)
    BY DEF Record, IsMap
  <2> HIDE DEF t
  <2> QED BY <2>1 DEF IsMap
<1>3. lost > 0 => s \in [1..2 -> T]
  <2>1. lost > 0 => DOMAIN s = 1..2 /\ IsMap(s)
    BY DEF Record, Notice, IsMap
  <2> HIDE DEF s
  <2> QED BY <2>1 DEF IsMap
<1>4. lost = 0 => s = <<>>
  BY DEF Notice
<1>5. Units(n, a) = s \o t
  BY DEF Units
<1>6. lost > 0 => s = Record(-n, "lost", lost, 1)
  BY DEF Notice
<1> HIDE DEF s, t, T
<1>7. t \in Seq(T) /\ Len(t) = BodyUnits + 1
  BY <1>1, <1>2
<1>8. s \in Seq(T) /\ Len(s) = NoticeUnits
  <2>1. CASE lost > 0
    <3>1. s \in [1..2 -> T] /\ 2 \in Nat
      BY <1>3, <2>1
    <3>2. s \in Seq(T) /\ Len(s) = 2
      BY <3>1, MapIsSequence
    <3> QED BY <2>1, <3>2 DEF NoticeUnits
  <2>2. CASE lost = 0
    BY <1>4, <2>2 DEF NoticeUnits
  <2> QED BY <2>1, <2>2
<1>9. NoticeUnits \in Nat /\ (lost > 0 => NoticeUnits = 2)
  BY DEF NoticeUnits
<1> HIDE DEF NoticeUnits
<1>10. /\ Len(s \o t) = NoticeUnits + BodyUnits + 1
       /\ DOMAIN (s \o t) = 1..(NoticeUnits + BodyUnits + 1)
  BY <1>1, <1>7, <1>8, <1>9
<1>11. \A i \in 1..(BodyUnits + 1) : (s \o t)[NoticeUnits + i] = t[i]
  BY <1>1, <1>7, <1>8, <1>9
<1>12. ASSUME lost > 0, NEW i \in 1..2 PROVE (s \o t)[i] = s[i]
  <2>1. Len(s) = 2 /\ s \in Seq(T) /\ t \in Seq(T)
    BY <1>7, <1>8, <1>9, <1>12
  <2>2. \A j \in 1..Len(s) : (s \o t)[j] = s[j]
    BY <2>1, Concatenated
  <2> QED BY <1>12, <2>1, <2>2
<1> QED BY <1>5, <1>6, <1>10, <1>11, <1>12 DEF t

LEMMA RecordWritten ==
  ASSUME NEW r, NEW p \in Nat, NEW n, NEW type, NEW value, NEW body \in Nat \ {0},
         \/ type = "sample" /\ value \in Address
         \/ type = "lost" /\ value \in Nat,
         \A i \in 1..(body + 1) : UnitAt(r, p + i - 1) = Record(n, type, value, body)[i],
         NEW h \in Nat, h >= p + body + 1
  PROVE  /\ RecordAt(r, p, h)
         /\ UnitAt(r, p).type = type /\ UnitAt(r, p).value = value
         /\ UnitAt(r, p).size = body + 1 /\ UnitAt(r, p).part = 1
<1>1. \A i \in 1..(body + 1) :
        Record(n, type, value, body)[i] = [of |-> n, part |-> i, type |-> type, value |-> value, size |-> body + 1]
  BY DEF Record
<1>2. \A i \in 1..(body + 1) :
        UnitAt(r, p + i - 1) = [of |-> n, part |-> i, type |-> type, value |-> value, size |-> body + 1]
  BY <1>1
<1>3. UnitAt(r, p) = [of |-> n, part |-> 1, type |-> type, value |-> value, size |-> body + 1]
  <2>1. p + 1 - 1 = p /\ 1 \in 1..(body + 1)
    OBVIOUS
  <2> QED BY <1>2, <2>1
<1>4. \A i \in 1..(body + 1) : Alike(UnitAt(r, p + i - 1), UnitAt(r, p)) /\ UnitAt(r, p + i - 1).part = i
  <2> TAKE i \in 1..(body + 1)
  <2> DEFINE w == UnitAt(r, p + i - 1)
             z == UnitAt(r, p)
  <2>1. /\ w = [of |-> n, part |-> i, type |-> type, value |-> value, size |-> body + 1]
        /\ z = [of |-> n, part |-> 1, type |-> type, value |-> value, size |-> body + 1]
    BY <1>2, <1>3
  <2> HIDE DEF w, z
  <2>2. Alike(w, z) /\ w.part = i
    BY <2>1 DEF Alike
  <2> QED BY <2>2 DEF w, z
<1>5. /\ UnitAt(r, p).part = 1 /\ UnitAt(r, p).size = body + 1
      /\ UnitAt(r, p).type = type /\ UnitAt(r, p).value = value
  BY <1>3
<1>6. RecordAt(r, p, h)
  <2>1. p + (body + 1) <= h /\ body + 1 \in Nat /\ body + 1 >= 2
    OBVIOUS
  <2> QED BY <1>4, <1>5, <2>1 DEF RecordAt
<1> QED BY <1>5, <1>6

HoldsLost(r, p, n, value, body) ==
  \A i \in 1..(body + 1) : UnitAt(r, p + i - 1) = Record(n, "lost", value, body)[i]

LEMMA LostWritten ==
  ASSUME NEW r, NEW p \in Nat, NEW n, NEW value \in Nat, NEW body \in Nat \ {0},
         HoldsLost(r, p, n, value, body),
         NEW h \in Nat, h >= p + body + 1
  PROVE  /\ RecordAt(r, p, h)
         /\ UnitAt(r, p).type = "lost" /\ UnitAt(r, p).value = value
         /\ UnitAt(r, p).size = body + 1 /\ UnitAt(r, p).part = 1
<1> PICK type : type = "lost"
  OBVIOUS
<1>1. \A i \in 1..(body + 1) : UnitAt(r, p + i - 1) = Record(n, type, value, body)[i]
  BY DEF HoldsLost
<1>2. \/ type = "sample" /\ value \in Address
      \/ type = "lost" /\ value \in Nat
  OBVIOUS
<1>3. /\ RecordAt(r, p, h)
      /\ UnitAt(r, p).type = type /\ UnitAt(r, p).value = value
      /\ UnitAt(r, p).size = body + 1 /\ UnitAt(r, p).part = 1
  BY <1>1, <1>2, RecordWritten
<1> QED BY <1>3

(* The ring after it: one sample more, and the LOST record that was due.    *)
LEMMA RoomWritten ==
  ASSUME RingInv, lost \in Nat, NEW n, NEW a \in Address,
         NEW k, k = head + Len(Units(n, a)), k - tail <= RingUnits,
         NEW q, q = Written(head, Units(n, a))
  PROVE  /\ k \in Nat /\ head < k /\ DOMAIN q = DOMAIN ring
         /\ Agree(ring, q, cursor, head) /\ UnitAt(q, head).part = 1
         /\ WholeRecords(q, cursor, k)
         /\ \E m \in head..(k - 1) :
              /\ Starts(q, cursor, k, "sample") = Starts(ring, cursor, head, "sample") \cup {m}
              /\ UnitAt(q, m).value = a
         /\ Starts(q, cursor, k, "lost") = Starts(ring, cursor, head, "lost") \cup (IF lost > 0 THEN {head} ELSE {})
         /\ lost > 0 => UnitAt(q, head).value = lost
<1> DEFINE u == Units(n, a)
           l == NoticeUnits + BodyUnits + 1
           m == head + NoticeUnits
<1>1. /\ Len(u) = l /\ DOMAIN u = 1..l
      /\ \A i \in 1..(BodyUnits + 1) : u[NoticeUnits + i] = Record(n, "sample", a, BodyUnits)[i]
      /\ lost > 0 => \A i \in 1..2 : u[i] = Record(-n, "lost", lost, 1)[i]
  BY UnitsShape
<1>2. BodyUnits \in Nat \ {0} /\ NoticeUnits \in Nat /\ RingUnits \in Nat
      /\ (lost > 0 => NoticeUnits = 2) /\ (lost = 0 => NoticeUnits = 0)
  BY PerfAssumption DEF NoticeUnits
<1>3. /\ head \in Nat /\ tail \in Nat /\ cursor \in Nat /\ tail <= cursor /\ cursor <= head
      /\ DOMAIN ring = 0..(RingUnits - 1) /\ WholeRecords(ring, cursor, head)
  BY DEF RingInv
<1> HIDE DEF u, NoticeUnits
<1>4. k = head + l /\ l \in Nat /\ k \in Nat /\ m \in Nat /\ l <= RingUnits /\ m \in head..(k - 1)
      /\ q = Written(head, u) /\ k = m + BodyUnits + 1
  BY <1>1, <1>2, <1>3 DEF u
<1>5. /\ DOMAIN q = DOMAIN ring
      /\ \A p \in Nat : p < head /\ head + l - p <= RingUnits => UnitAt(q, p) = UnitAt(ring, p)
      /\ \A j \in 1..l : UnitAt(q, head + j - 1) = u[j]
  <2> HIDE DEF l, m
  <2> QED BY <1>1, <1>3, <1>4, WrittenUnits
<1>6. Agree(ring, q, cursor, head)
  <2>1. ASSUME NEW p \in cursor..(head - 1) PROVE UnitAt(q, p) = UnitAt(ring, p)
    <3>1. p \in Nat /\ p < head /\ head + l - p <= RingUnits
      <4> HIDE DEF l, m
      <4> QED BY <1>2, <1>3, <1>4
    <3> HIDE DEF l, m
    <3> QED BY <1>5, <3>1
  <2> QED BY <2>1 DEF Agree
<1>7. WholeRecords(q, cursor, head) /\ \A type : Starts(q, cursor, head, type) = Starts(ring, cursor, head, type)
  BY <1>3, <1>6, WholeAgrees
<1>8. /\ RecordAt(q, m, k) /\ UnitAt(q, m).type = "sample" /\ UnitAt(q, m).value = a
      /\ UnitAt(q, m).size = BodyUnits + 1 /\ UnitAt(q, m).part = 1
  <2>1. \A i \in 1..(BodyUnits + 1) : UnitAt(q, m + i - 1) = Record(n, "sample", a, BodyUnits)[i]
    <3> TAKE i \in 1..(BodyUnits + 1)
    <3>1. NoticeUnits + i \in 1..l /\ m + i - 1 = head + (NoticeUnits + i) - 1
      BY <1>2, <1>3
    <3> HIDE DEF l, m
    <3>2. UnitAt(q, head + (NoticeUnits + i) - 1) = u[NoticeUnits + i]
      BY <1>5, <3>1
    <3> QED BY <1>1, <3>1, <3>2
  <2>2. k >= m + BodyUnits + 1
    <3> HIDE DEF l, m
    <3> QED BY <1>2, <1>4
  <2>3. m \in Nat /\ k \in Nat /\ BodyUnits \in Nat \ {0}
    <3> HIDE DEF l, m
    <3> QED BY <1>2, <1>4
  <2> DEFINE w == BodyUnits
  <2>4. \A i \in 1..(w + 1) : UnitAt(q, m + i - 1) = Record(n, "sample", a, w)[i]
    BY <2>1
  <2> HIDE DEF l, m, w
  <2>5. k >= m + w + 1 /\ w \in Nat \ {0} /\ m \in Nat /\ k \in Nat
    BY <2>2, <2>3 DEF w
  <2>6. /\ RecordAt(q, m, k) /\ UnitAt(q, m).type = "sample" /\ UnitAt(q, m).value = a
        /\ UnitAt(q, m).size = w + 1 /\ UnitAt(q, m).part = 1
    BY <2>4, <2>5, RecordWritten
  <2> QED BY <2>6 DEF w
<1>9. CASE lost = 0
  <2>1. m = head
    BY <1>2, <1>3, <1>9
  <2>2. k = head + UnitAt(q, head).size
    <3> HIDE DEF l, m
    <3> QED BY <1>2, <1>4, <1>8, <2>1
  <2> HIDE DEF l, m
  <2>3. RecordAt(q, head, k) /\ UnitAt(q, head).type = "sample"
    BY <1>8, <2>1
  <2>4. WholeRecords(q, cursor, k) /\ Gains(q, cursor, head, k)
    BY <1>3, <1>4, <1>7, <2>2, <2>3, RecordAppended
  <2>5. /\ Starts(q, cursor, k, "sample") = Starts(ring, cursor, head, "sample") \cup {m}
        /\ Starts(q, cursor, k, "lost") = Starts(ring, cursor, head, "lost")
    <3>1. /\ Starts(q, cursor, head, "sample") = Starts(ring, cursor, head, "sample")
          /\ Starts(q, cursor, head, "lost") = Starts(ring, cursor, head, "lost")
      BY <1>7
    <3>2. /\ Starts(q, cursor, k, "sample") = Starts(q, cursor, head, "sample") \cup {head}
          /\ Starts(q, cursor, k, "lost") = Starts(q, cursor, head, "lost")
      <4>1. UnitAt(q, head).type = "sample" /\ UnitAt(q, head).type # "lost"
        BY <2>3
      <4> QED BY <2>4, <4>1, GainsOf
    <3> QED BY <2>1, <3>1, <3>2
  <2>6. head < k /\ UnitAt(q, head).part = 1 /\ k \in Nat
    BY <1>2, <1>3, <1>4, <1>8, <2>1
  <2> QED BY <1>4, <1>5, <1>6, <1>8, <1>9, <2>4, <2>5, <2>6
<1>10. CASE lost > 0
  <2> PICK one \in Nat \ {0} : one = 1
    OBVIOUS
  <2>1. m = head + 2 /\ m \in Nat
    BY <1>2, <1>3, <1>10
  <2>2. \A i \in 1..(one + 1) : UnitAt(q, head + i - 1) = Record(-n, "lost", lost, one)[i]
    <3> TAKE i \in 1..(one + 1)
    <3>1. i \in 1..l /\ i \in 1..2
      BY <1>2, <1>10
    <3> HIDE DEF l, m
    <3> QED BY <1>1, <1>5, <1>10, <3>1
  <2> HIDE DEF l, m
  <2>3. m >= head + one + 1
    BY <1>3, <2>1
  <2>4. /\ RecordAt(q, head, m) /\ UnitAt(q, head).type = "lost" /\ UnitAt(q, head).value = lost
        /\ UnitAt(q, head).size = 2 /\ UnitAt(q, head).part = 1
    <3>1. /\ RecordAt(q, head, m) /\ UnitAt(q, head).type = "lost" /\ UnitAt(q, head).value = lost
          /\ UnitAt(q, head).size = one + 1 /\ UnitAt(q, head).part = 1
      <4>1. head \in Nat /\ lost \in Nat /\ one \in Nat \ {0} /\ m \in Nat /\ m >= head + one + 1
        BY <1>3, <1>10, <2>1, <2>3
      <4> DEFINE notice == -n
      <4>2. HoldsLost(q, head, notice, lost, one)
        BY <2>2 DEF HoldsLost
      <4> HIDE DEF notice
      <4> QED BY <4>1, <4>2, LostWritten
    <3> QED BY <3>1
  <2>5. WholeRecords(q, cursor, m) /\ Gains(q, cursor, head, m)
    BY <1>3, <1>7, <2>1, <2>4, RecordAppended
  <2>6. cursor <= m /\ k = m + UnitAt(q, m).size
    BY <1>2, <1>3, <1>4, <1>8, <2>1
  <2>7. WholeRecords(q, cursor, k) /\ Gains(q, cursor, m, k)
    BY <1>3, <1>4, <1>8, <2>1, <2>5, <2>6, RecordAppended
  <2>8. /\ Starts(q, cursor, k, "sample") = Starts(ring, cursor, head, "sample") \cup {m}
        /\ Starts(q, cursor, k, "lost") = Starts(ring, cursor, head, "lost") \cup {head}
    <3>1. /\ Starts(q, cursor, head, "sample") = Starts(ring, cursor, head, "sample")
          /\ Starts(q, cursor, head, "lost") = Starts(ring, cursor, head, "lost")
      BY <1>7
    <3>2. /\ Starts(q, cursor, m, "sample") = Starts(q, cursor, head, "sample")
          /\ Starts(q, cursor, m, "lost") = Starts(q, cursor, head, "lost") \cup {head}
      BY <2>4, <2>5, GainsOf
    <3>3. /\ Starts(q, cursor, k, "sample") = Starts(q, cursor, m, "sample") \cup {m}
          /\ Starts(q, cursor, k, "lost") = Starts(q, cursor, m, "lost")
      BY <1>8, <2>7, GainsOf
    <3> QED BY <3>1, <3>2, <3>3
  <2>9. head < k /\ k \in Nat
    BY <1>2, <1>3, <1>4, <2>1
  <2> QED BY <1>4, <1>5, <1>6, <1>8, <1>10, <2>4, <2>7, <2>8, <2>9
<1> QED BY <1>9, <1>10

-----------------------------------------------------------------------------
(* Each step keeps it.                                                      *)

(* The records hold what they may.                                          *)
LEMMA StartValues ==
  ASSUME NEW r, NEW c \in Nat, NEW h \in Nat, WholeRecords(r, c, h)
  PROVE  /\ \A p \in Starts(r, c, h, "sample") : RecordAt(r, p, h) /\ UnitAt(r, p).value \in Address
         /\ \A p \in Starts(r, c, h, "lost") : RecordAt(r, p, h) /\ UnitAt(r, p).value \in Nat
<1>1. ASSUME NEW p \in c..(h - 1), UnitAt(r, p).part = 1 PROVE RecordAt(r, p, h)
  <2>1. PICK b \in c..p : Covers(r, b, p, h)
    BY DEF WholeRecords
  <2> DEFINE i == p - b + 1
             n == UnitAt(r, b).size
  <2>2. n \in Nat /\ p < b + n /\ \A j \in 1..n : UnitAt(r, b + j - 1).part = j
    BY <2>1 DEF Covers, RecordAt
  <2>3. i \in 1..n /\ p = b + i - 1
    BY <2>2
  <2>4. UnitAt(r, p).part = i
    <3> HIDE DEF i, n
    <3> QED BY <2>2, <2>3
  <2>5. p = b
    BY <1>1, <2>4
  <2> QED BY <2>1, <2>5 DEF Covers
<1>2. ASSUME NEW p \in Starts(r, c, h, "sample") PROVE RecordAt(r, p, h) /\ UnitAt(r, p).value \in Address
  <2>1. p \in c..(h - 1) /\ UnitAt(r, p).part = 1 /\ UnitAt(r, p).type = "sample"
    BY DEF Starts
  <2>2. RecordAt(r, p, h)
    BY <1>1, <2>1
  <2> QED BY <2>1, <2>2 DEF RecordAt
<1>3. ASSUME NEW p \in Starts(r, c, h, "lost") PROVE RecordAt(r, p, h) /\ UnitAt(r, p).value \in Nat
  <2>1. p \in c..(h - 1) /\ UnitAt(r, p).part = 1 /\ UnitAt(r, p).type = "lost"
    BY DEF Starts
  <2>2. RecordAt(r, p, h)
    BY <1>1, <2>1
  <2> QED BY <2>1, <2>2 DEF RecordAt
<1> QED BY <1>2, <1>3

LEMMA RoomKeepsCounts ==
  ASSUME RingInv, CountInv, NEW a, NEW q, NEW k \in Nat, Agree(ring, q, cursor, head), WholeRecords(q, cursor, k),
         NEW m, m \in head..(k - 1), Starts(q, cursor, k, "sample") = Starts(ring, cursor, head, "sample") \cup {m},
         UnitAt(q, m).value = a,
         Starts(q, cursor, k, "lost") = Starts(ring, cursor, head, "lost") \cup (IF lost > 0 THEN {head} ELSE {}),
         lost > 0 => UnitAt(q, head).value = lost,
         taken' = BagAdd(taken, a)
  PROVE  /\ Proper(taken')
         /\ AllCopies(taken', perf.samples, dropped, q, Starts(q, cursor, k, "sample"))
         /\ AllEvents(taken', perf.samples, dropped, Starts(q, cursor, k, "sample"))
         /\ AllDrops(dropped, perf.lost, 0, q, Starts(q, cursor, k, "lost"))
<1> DEFINE S == Starts(ring, cursor, head, "sample")
           L == Starts(ring, cursor, head, "lost")
           M == Starts(q, cursor, k, "lost")
<1>1. /\ cursor \in Nat /\ head \in Nat /\ WholeRecords(ring, cursor, head)
      /\ Proper(taken) /\ Proper(dropped) /\ Proper(perf.samples) /\ lost \in Nat /\ perf.lost \in Nat
      /\ AllCopies(taken, perf.samples, dropped, ring, S) /\ AllEvents(taken, perf.samples, dropped, S)
      /\ AllDrops(dropped, perf.lost, lost, ring, L)
  BY DEF RingInv, CountInv
<1>2. /\ S \subseteq cursor..(head - 1) /\ L \subseteq cursor..(head - 1)
      /\ \A p \in cursor..(head - 1) : UnitAt(q, p) = UnitAt(ring, p)
  BY DEF Starts, Agree
<1>3. IsFiniteSet(S) /\ IsFiniteSet(L) /\ m \notin S /\ head \notin L
  <2>1. m \notin cursor..(head - 1) /\ head \notin cursor..(head - 1)
    BY <1>1
  <2> QED BY <1>1, <1>2, <2>1, StartsFinite
<1>4. \A p \in M : UnitAt(q, p).value \in Nat
  BY <1>1, StartValues
<1>5. M = L \cup (IF lost > 0 THEN {head} ELSE {})
  OBVIOUS
<1>6. \A p \in S \cup L : UnitAt(q, p) = UnitAt(ring, p)
  BY <1>2
<1> HIDE DEF S, L, M
<1>7. /\ Proper(taken')
      /\ AllCopies(taken', perf.samples, dropped, q, S \cup {m})
      /\ AllEvents(taken', perf.samples, dropped, S \cup {m})
  <2>1. \A p \in S : UnitAt(q, p) = UnitAt(ring, p)
    BY <1>6
  <2>2. taken' = BagAdd(taken, UnitAt(q, m).value)
    OBVIOUS
  <2> QED BY <1>1, <1>3, <2>1, <2>2, EventKept
<1>8. LostIn(q, L) = LostIn(ring, L)
  BY <1>3, <1>6, LostSame
<1>9. AllDrops(dropped, perf.lost, 0, q, M)
  <2> DEFINE x == LostIn(ring, L)
             y == LostIn(q, M)
             z == Total(dropped, DOMAIN dropped)
  <2>1. z = perf.lost + lost + x
    BY <1>1 DEF AllDrops
  <2>2. CASE lost > 0
    <3>1. M = L \cup {head} /\ UnitAt(q, head).value = lost
      BY <1>5, <2>2
    <3>2. y = x + lost /\ x \in Int
      BY <1>3, <1>4, <1>8, <3>1, LostMore
    <3> HIDE DEF x, y, z
    <3>3. z = perf.lost + 0 + y
      BY <1>1, <2>1, <3>2
    <3> QED BY <3>3 DEF AllDrops, z, y
  <2>3. CASE lost = 0
    <3>1. M = L
      BY <1>5, <2>3
    <3>2. y = x
      BY <1>8, <3>1
    <3> HIDE DEF x, y, z
    <3>3. z = perf.lost + 0 + y
      BY <1>1, <2>1, <2>3, <3>2
    <3> QED BY <3>3 DEF AllDrops, z, y
  <2> QED BY <1>1, <2>2, <2>3
<1> QED BY <1>7, <1>9 DEF S, M

(* An event: its record in the ring, or one event dropped.                  *)
LEMMA OverflowKeeps == ASSUME PerfInv, NEW a \in Address, Overflow(a) PROVE PerfInv'
<1>1. RingInv /\ ReadInv /\ StateInv /\ CountInv /\ HotInv
  BY DEF PerfInv
<1> DEFINE n == EventCount(taken) + 1
           k == head + Len(Units(n, a))
           q == Written(head, Units(n, a))
<1>2. /\ enabled /\ taken' = BagAdd(taken, a)
      /\ IF head - tail + Len(Units(n, a)) <= RingUnits
           THEN ring' = q /\ head' = k /\ lost' = 0 /\ UNCHANGED dropped
           ELSE lost' = lost + 1 /\ dropped' = BagAdd(dropped, a) /\ UNCHANGED <<ring, head>>
      /\ UNCHANGED <<tail, enabled, perf, regions, cursor, seen, header, drains>>
  BY DEF Overflow, Units, Notice
<1>3. /\ head \in Nat /\ tail \in Nat /\ cursor \in Nat /\ seen \in Nat /\ lost \in Nat
      /\ tail <= cursor /\ cursor <= head /\ Len(Units(n, a)) \in Nat
  <2>1. lost \in Nat
    BY <1>1 DEF CountInv
  <2>2. Len(Units(n, a)) = NoticeUnits + BodyUnits + 1
    BY <2>1, UnitsShape
  <2>3. NoticeUnits + BodyUnits + 1 \in Nat
    BY PerfAssumption DEF NoticeUnits
  <2> QED BY <1>1, <2>1, <2>2, <2>3 DEF RingInv
<1>4. HotInv'
  BY <1>1, <1>2 DEF HotInv, BucketsTrue, InRegion
<1>5. perf.state \notin {"none", "error", "disabled", "last", "available"}
  BY <1>1, <1>2 DEF StateInv
<1>6. StateInv'
  BY <1>1, <1>2, <1>5 DEF StateInv
<1>7. CASE head - tail + Len(Units(n, a)) <= RingUnits
  <2>1. k - tail <= RingUnits
    <3> DEFINE l == Len(Units(n, a))
    <3> HIDE DEF n
    <3>1. l \in Nat /\ head - tail + l <= RingUnits
      BY <1>3, <1>7
    <3> HIDE DEF l
    <3>2. RingUnits \in Nat
      BY PerfAssumption
    <3> QED BY <1>3, <3>1, <3>2 DEF l
  <2>2. /\ k \in Nat /\ head < k /\ DOMAIN q = DOMAIN ring
        /\ Agree(ring, q, cursor, head) /\ UnitAt(q, head).part = 1
        /\ WholeRecords(q, cursor, k)
        /\ \E m \in head..(k - 1) :
             /\ Starts(q, cursor, k, "sample") = Starts(ring, cursor, head, "sample") \cup {m}
             /\ UnitAt(q, m).value = a
        /\ Starts(q, cursor, k, "lost") = Starts(ring, cursor, head, "lost") \cup (IF lost > 0 THEN {head} ELSE {})
        /\ lost > 0 => UnitAt(q, head).value = lost
    <3> HIDE DEF n
    <3> QED BY <1>1, <1>3, <2>1, RoomWritten
  <2>3. /\ ring' = q /\ head' = k /\ lost' = 0 /\ taken' = BagAdd(taken, a)
        /\ UNCHANGED <<dropped, tail, perf, cursor, seen, header>>
    BY <1>2, <1>7
  <2> HIDE DEF n, k, q
  <2>4. RingInv'
    BY <1>1, <1>3, <2>1, <2>2, <2>3 DEF RingInv
  <2>5. ReadInv'
    <3>1. \A p \in cursor..(head - 1) : UnitAt(q, p) = UnitAt(ring, p)
      BY <2>2 DEF Agree
    <3>2. Parsing' <=> Parsing
      BY <2>3 DEF Parsing
    <3>3. header = <<>> \/ (header = <<UnitAt(q, cursor)>> /\ cursor < seen)
      <4>1. ASSUME header # <<>> PROVE Parsing /\ cursor < seen /\ seen <= head
        BY <1>1, <4>1 DEF ReadInv
      <4>2. ASSUME header # <<>> PROVE cursor \in cursor..(head - 1)
        BY <1>3, <4>1, <4>2
      <4> QED BY <1>1, <3>1, <4>1, <4>2 DEF ReadInv
    <3>4. Parsing => cursor <= seen /\ seen <= k /\ (seen = k \/ UnitAt(q, seen).part = 1)
      <4> SUFFICES ASSUME Parsing PROVE cursor <= seen /\ seen <= k /\ UnitAt(q, seen).part = 1
        OBVIOUS
      <4>1. cursor <= seen /\ seen <= head /\ (seen = head \/ UnitAt(ring, seen).part = 1)
        BY <1>1 DEF ReadInv
      <4>2. seen < head => seen \in cursor..(head - 1)
        BY <1>3, <4>1
      <4>3. seen = head \/ seen < head
        BY <1>3, <4>1
      <4> QED BY <1>3, <2>2, <3>1, <4>1, <4>2, <4>3
    <3>5. ~Parsing => cursor = tail /\ header = <<>>
      BY <1>1 DEF ReadInv
    <3> QED BY <2>3, <3>2, <3>3, <3>4, <3>5 DEF ReadInv
  <2>6. CountInv'
    <3>1. PICK m \in head..(k - 1) :
             /\ Starts(q, cursor, k, "sample") = Starts(ring, cursor, head, "sample") \cup {m}
             /\ UnitAt(q, m).value = a
      BY <2>2
    <3>2. /\ Proper(taken')
          /\ AllCopies(taken', perf.samples, dropped, q, Starts(q, cursor, k, "sample"))
          /\ AllEvents(taken', perf.samples, dropped, Starts(q, cursor, k, "sample"))
          /\ AllDrops(dropped, perf.lost, 0, q, Starts(q, cursor, k, "lost"))
      BY <1>1, <2>2, <2>3, <3>1, RoomKeepsCounts
    <3> QED BY <1>1, <2>3, <3>2 DEF CountInv
  <2> QED BY <1>4, <1>6, <2>4, <2>5, <2>6 DEF PerfInv
<1>8. CASE ~(head - tail + Len(Units(n, a)) <= RingUnits)
  <2>1. /\ lost' = lost + 1 /\ dropped' = BagAdd(dropped, a) /\ taken' = BagAdd(taken, a)
        /\ UNCHANGED <<ring, head, tail, perf, cursor, seen, header>>
    BY <1>2, <1>8
  <2> HIDE DEF n, k, q
  <2>2. RingInv'
    BY <1>1, <2>1 DEF RingInv
  <2>3. ReadInv'
    BY <1>1, <2>1 DEF ReadInv, Parsing
  <2> DEFINE S == Starts(ring, cursor, head, "sample")
             L == Starts(ring, cursor, head, "lost")
  <2>4. /\ Proper(taken) /\ Proper(dropped) /\ Proper(perf.samples) /\ lost \in Nat /\ perf.lost \in Nat
        /\ AllCopies(taken, perf.samples, dropped, ring, S) /\ AllEvents(taken, perf.samples, dropped, S)
        /\ AllDrops(dropped, perf.lost, lost, ring, L)
    BY <1>1 DEF CountInv
  <2>5. IsFiniteSet(S) /\ IsFiniteSet(L)
    BY <1>3, StartsFinite
  <2>6. S' = S /\ L' = L
    BY <2>1
  <2> HIDE DEF S, L
  <2>7. /\ Proper(taken') /\ Proper(dropped')
        /\ AllCopies(taken', perf.samples, dropped', ring, S) /\ AllEvents(taken', perf.samples, dropped', S)
    BY <2>1, <2>4, <2>5, EventDropped
  <2>8. AllDrops(dropped', perf.lost, lost + 1, ring, L)
    <3> DEFINE x == LostIn(ring, L)
               y == Total(dropped, DOMAIN dropped)
               z == Total(dropped', DOMAIN dropped')
    <3>1. y = perf.lost + lost + x /\ z = y + 1 /\ y \in Int
      BY <2>1, <2>4, ProperAdded, ProperTotal DEF AllDrops
    <3>2. x \in Int
      <4>1. \A p \in L : UnitAt(ring, p).value \in Nat
        BY <1>1, <1>3, StartValues DEF L, RingInv
      <4> DEFINE h == [p \in L |-> UnitAt(ring, p).value]
      <4>2. \A p \in L : h[p] \in Int
        BY <4>1
      <4> HIDE DEF h
      <4>3. Total(h, L) \in Int
        BY <2>5, <4>2, TotalInteger
      <4> QED BY <4>3 DEF LostIn, h
    <3> HIDE DEF x, y, z
    <3>3. z = perf.lost + (lost + 1) + x
      BY <2>4, <3>1, <3>2
    <3> QED BY <3>3 DEF AllDrops, x, z
  <2>9. CountInv'
    BY <2>1, <2>4, <2>6, <2>7, <2>8 DEF CountInv, S, L
  <2> QED BY <1>4, <1>6, <2>2, <2>3, <2>9 DEF PerfInv
<1> QED BY <1>7, <1>8

(* A sample is counted in the bucket of its region.                         *)
LEMMA BucketCounted ==
  ASSUME NEW hot, IsCounter(hot), NEW s, Proper(s), NEW regs, BucketsTrue(hot, s, regs), NEW v \in Address,
         NEW hot2, hot2 = BagAdd(hot, RegionForAddr(regs, v)), NEW s2, s2 = BagAdd(s, v)
  PROVE  IsCounter(hot2) /\ BucketsTrue(hot2, s2, regs)
<1> DEFINE room == RegionForAddr(regs, v)
<1>1. IsCounter(hot2) /\ OneMoreOf(hot, hot2, room)
  <2>1. hot2 = Plus(hot, room)
    BY BagAddIsPlus
  <2> QED BY <2>1, PlusCopies
<1>2. OneMoreOf(s, s2, v) /\ \A x : Copies0(s, x) \in Nat
  BY ProperAdded, ProperTotal
<1>3. ASSUME NEW key
      PROVE  Copies0(hot2, key) = Total([a \in Address |-> Copies0(s2, a)], InRegion(regs, key))
  <2> DEFINE f == [a \in Address |-> Copies0(s, a)]
             g == [a \in Address |-> Copies0(s2, a)]
             I == InRegion(regs, key)
  <2>1. IsFiniteSet(I) /\ I \subseteq Address
    <3>1. I \subseteq Address
      BY DEF InRegion
    <3> QED BY <3>1, PerfAssumption, FS_Subset
  <2>2. Copies0(hot, key) = Total(f, I)
    BY DEF BucketsTrue
  <2>3. Copies0(hot2, key) = Copies0(hot, key) + (IF key = room THEN 1 ELSE 0)
    BY <1>1 DEF OneMoreOf
  <2>4. \A a \in I : f[a] \in Int /\ g[a] = f[a] + (IF a = v THEN 1 ELSE 0)
    BY <1>2, <2>1 DEF OneMoreOf
  <2>5. v \in I <=> key = room
    BY DEF InRegion
  <2>6. Total(f, I) \in Int
    <3> HIDE DEF f, I
    <3> QED BY <2>1, <2>4, TotalInteger
  <2> HIDE DEF f, g, I, room
  <2>7. CASE key = room
    <3>1. Total(g, I) = Total(f, I) + 1
      BY <2>1, <2>4, <2>5, <2>7, TotalGrows
    <3> QED BY <2>2, <2>3, <2>7, <3>1 DEF g, I
  <2>8. CASE key # room
    <3>1. \A a \in I : g[a] = f[a]
      BY <2>4, <2>5, <2>8
    <3>2. Total(g, I) = Total(f, I)
      BY <2>1, <3>1, TotalSame
    <3> QED BY <2>2, <2>3, <2>6, <2>8, <3>2 DEF g, I
  <2> QED BY <2>7, <2>8
<1> QED BY <1>1, <1>3 DEF BucketsTrue

(* parse_samples takes a record into the report and frees its units: what was *)
(* in the ring is now in a bucket, or told of.                              *)
LEMMA CopyBodyKeeps == ASSUME PerfInv, CopyBody PROVE PerfInv'
<1>1. RingInv /\ ReadInv /\ StateInv /\ CountInv /\ HotInv
  BY DEF PerfInv
<1> DEFINE h == header[1]
           body == [i \in 1..(h.size - 1) |-> Slot(cursor + i)]
           whole == \A i \in DOMAIN body : body[i].of = h.of /\ body[i].part = i + 1
           value == body[1].value
           k == cursor + h.size
           S == Starts(ring, cursor, head, "sample")
           L == Starts(ring, cursor, head, "lost")
<1>2. /\ Parsing /\ header # <<>>
      /\ perf' = IF h.type = "sample"
                   THEN [perf EXCEPT !.hotspots = BucketFor(@, value), !.samples = BagAdd(@, value),
                                     !.whole = @ /\ whole]
                   ELSE [perf EXCEPT !.lost = @ + value, !.whole = @ /\ whole]
      /\ cursor' = k /\ header' = <<>>
      /\ UNCHANGED <<ring, head, enabled, lost, taken, dropped, tail, regions, seen, drains>>
  BY DEF CopyBody, kernelSide
<1>3. /\ head \in Nat /\ cursor \in Nat /\ tail \in Nat /\ seen \in Nat /\ tail <= cursor
      /\ WholeRecords(ring, cursor, head)
      /\ h = UnitAt(ring, cursor) /\ cursor < seen /\ seen <= head
      /\ seen = head \/ UnitAt(ring, seen).part = 1
  BY <1>1, <1>2 DEF RingInv, ReadInv
<1>4. /\ RecordAt(ring, cursor, head) /\ k \in Nat /\ k <= head
      /\ WholeRecords(ring, k, head) /\ Loses(ring, cursor, head, k)
      /\ \A s \in (cursor + 1)..head : s = head \/ UnitAt(ring, s).part = 1 => k <= s
  <2>1. cursor < head /\ k = cursor + UnitAt(ring, cursor).size
    BY <1>3
  <2> HIDE DEF k
  <2> QED BY <1>3, <2>1, RecordConsumed
<1>5. /\ h.size \in Nat /\ h.size >= 2
      /\ (h.type = "sample" /\ h.value \in Address) \/ (h.type = "lost" /\ h.value \in Nat)
      /\ \A i \in 1..h.size : Alike(UnitAt(ring, cursor + i - 1), h) /\ UnitAt(ring, cursor + i - 1).part = i
  <2> DEFINE u == UnitAt(ring, cursor)
  <2>1. /\ u.size \in Nat /\ u.size >= 2
        /\ (u.type = "sample" /\ u.value \in Address) \/ (u.type = "lost" /\ u.value \in Nat)
        /\ \A i \in 1..u.size : Alike(UnitAt(ring, cursor + i - 1), u) /\ UnitAt(ring, cursor + i - 1).part = i
    BY <1>4 DEF RecordAt
  <2>2. h = u
    BY <1>3
  <2> HIDE DEF h, u
  <2> QED BY <2>1, <2>2
<1>6. ASSUME NEW i \in 1..(h.size - 1) PROVE Alike(body[i], h) /\ body[i].part = i + 1
  <2>1. i + 1 \in 1..h.size /\ cursor + (i + 1) - 1 = cursor + i
    BY <1>3, <1>5
  <2>2. Alike(UnitAt(ring, cursor + (i + 1) - 1), h) /\ UnitAt(ring, cursor + (i + 1) - 1).part = i + 1
    BY <1>5, <2>1
  <2>3. body[i] = UnitAt(ring, cursor + (i + 1) - 1)
    BY <2>1 DEF Slot, UnitAt
  <2> HIDE DEF body, h
  <2> QED BY <2>2, <2>3
<1>7. whole
  <2>1. DOMAIN body = 1..(h.size - 1)
    OBVIOUS
  <2> HIDE DEF body, h
  <2> QED BY <1>6, <2>1 DEF Alike
<1>8. value = h.value
  <2>1. 1 \in 1..(h.size - 1)
    BY <1>5
  <2> HIDE DEF body, h
  <2> QED BY <1>6, <2>1 DEF Alike
<1> HIDE DEF h, body, whole, value, k, S, L
<1>9. k <= seen /\ tail <= k
  <2>1. seen \in (cursor + 1)..head
    BY <1>3
  <2>2. k = cursor + h.size
    BY DEF k
  <2> QED BY <1>3, <1>4, <1>5, <2>1, <2>2
<1>10. RingInv'
  BY <1>1, <1>2, <1>3, <1>4, <1>9 DEF RingInv
<1>11. DOMAIN perf' = DOMAIN perf /\ perf'.state = perf.state /\ (perf'.whole <=> perf.whole)
  BY <1>1, <1>2, <1>7 DEF StateInv, HotInv
<1>12. ReadInv'
  BY <1>2, <1>3, <1>9, <1>11 DEF ReadInv, Parsing
<1>13. StateInv'
  BY <1>1, <1>2, <1>11 DEF StateInv, Parsing
<1>14. /\ Proper(taken) /\ Proper(dropped) /\ Proper(perf.samples) /\ lost \in Nat /\ perf.lost \in Nat
       /\ AllCopies(taken, perf.samples, dropped, ring, S) /\ AllEvents(taken, perf.samples, dropped, S)
       /\ AllDrops(dropped, perf.lost, lost, ring, L)
  BY <1>1 DEF CountInv, S, L
<1>15. IsFiniteSet(S) /\ IsFiniteSet(L)
  BY <1>3, StartsFinite DEF S, L
<1>16. /\ Starts(ring, k, head, "sample") = S \ {cursor}
       /\ Starts(ring, k, head, "lost") = L \ {cursor}
       /\ cursor \in S <=> h.type = "sample"
       /\ cursor \in L <=> h.type = "lost"
  BY <1>3, <1>4 DEF S, L, Loses
<1>17. perf.whole /\ IsCounter(perf.hotspots) /\ BucketsTrue(perf.hotspots, perf.samples, regions)
  BY <1>1 DEF HotInv
<1>18. DOMAIN perf = {"state", "event", "hotspots", "samples", "lost", "whole"}
  BY <1>1 DEF StateInv
<1>19. CASE h.type = "sample"
  <2>1. /\ perf'.samples = BagAdd(perf.samples, value) /\ perf'.lost = perf.lost
        /\ perf'.hotspots = BagAdd(perf.hotspots, RegionForAddr(regions, value))
    BY <1>2, <1>18, <1>19 DEF BucketFor
  <2>2. h.type # "lost" /\ value \in Address
    BY <1>5, <1>8, <1>19
  <2>3. cursor \in S /\ L \ {cursor} = L /\ value = UnitAt(ring, cursor).value
    BY <1>3, <1>8, <1>16, <1>19, <2>2
  <2>4. /\ Proper(perf'.samples)
        /\ AllCopies(taken, perf'.samples, dropped, ring, S \ {cursor})
        /\ AllEvents(taken, perf'.samples, dropped, S \ {cursor})
    BY <1>14, <1>15, <2>1, <2>3, EventRead
  <2>5. CountInv'
    BY <1>2, <1>14, <1>16, <2>1, <2>3, <2>4 DEF CountInv
  <2>6. IsCounter(perf'.hotspots) /\ BucketsTrue(perf'.hotspots, perf'.samples, regions)
    BY <1>14, <1>17, <2>1, <2>2, BucketCounted
  <2>7. HotInv'
    BY <1>2, <1>11, <1>17, <2>6 DEF HotInv
  <2> QED BY <1>10, <1>12, <1>13, <2>5, <2>7 DEF PerfInv
<1>20. CASE h.type = "lost"
  <2>1. /\ perf'.samples = perf.samples /\ perf'.lost = perf.lost + value /\ perf'.hotspots = perf.hotspots
    BY <1>2, <1>18, <1>20
  <2>2. h.type # "sample" /\ value \in Nat
    BY <1>5, <1>8, <1>20
  <2>3. cursor \in L /\ S \ {cursor} = S /\ value = UnitAt(ring, cursor).value
    BY <1>3, <1>8, <1>16, <1>20, <2>2
  <2>4. AllDrops(dropped, perf.lost + value, lost, ring, L \ {cursor})
    <3> DEFINE M == L \ {cursor}
               x == LostIn(ring, M)
               y == LostIn(ring, L)
    <3>1. IsFiniteSet(M) /\ cursor \notin M /\ M \cup {cursor} = L
      BY <1>15, <2>3, FS_RemoveElement
    <3>2. \A p \in L : UnitAt(ring, p).value \in Nat
      BY <1>3, StartValues DEF L
    <3>3. y = x + value /\ x \in Int
      <4> HIDE DEF M
      <4> QED BY <2>3, <3>1, <3>2, LostMore
    <3>4. Total(dropped, DOMAIN dropped) = perf.lost + lost + y
      BY <1>14 DEF AllDrops
    <3> HIDE DEF M, x, y
    <3>5. Total(dropped, DOMAIN dropped) = (perf.lost + value) + lost + x
      BY <1>14, <2>2, <3>3, <3>4
    <3> QED BY <3>5 DEF AllDrops, x, M
  <2>5. perf'.lost \in Nat
    BY <1>14, <2>1, <2>2
  <2>6. CountInv'
    BY <1>2, <1>14, <1>16, <2>1, <2>3, <2>4, <2>5 DEF CountInv
  <2>7. HotInv'
    BY <1>2, <1>11, <1>17, <2>1 DEF HotInv
  <2> QED BY <1>10, <1>12, <1>13, <2>6, <2>7 DEF PerfInv
<1> QED BY <1>5, <1>19, <1>20

(* The steps that move no record.                                           *)
LEMMA CountsKept ==
  ASSUME PerfInv, UNCHANGED <<ring, head, cursor, lost, taken, dropped, regions>>,
         perf'.samples = perf.samples, perf'.lost = perf.lost, perf'.hotspots = perf.hotspots,
         perf'.whole = perf.whole
  PROVE  CountInv' /\ HotInv'
BY DEF PerfInv, CountInv, HotInv

(* The other steps of the sampler move no record.                           *)
LEMMA ParseSamplesKeeps == ASSUME PerfInv, ParseSamples PROVE PerfInv'
<1>1. RingInv /\ ReadInv /\ StateInv
  BY DEF PerfInv
<1>2. /\ ~Parsing /\ cursor' = tail /\ seen' = head
      /\ \/ perf.state = "draining" /\ perf' = [perf EXCEPT !.state = "parsing"]
         \/ perf.state = "disabled" /\ perf' = [perf EXCEPT !.state = "last"]
      /\ UNCHANGED <<ring, head, enabled, lost, taken, dropped, tail, regions, header>>
  BY DEF ParseSamples, kernelSide, Parsing
<1>3. cursor = tail /\ header = <<>>
  BY <1>1, <1>2 DEF ReadInv
<1>4. /\ DOMAIN perf' = DOMAIN perf /\ perf'.state \in {"parsing", "last"}
      /\ perf'.state = "last" => perf.state = "disabled"
      /\ perf'.samples = perf.samples /\ perf'.lost = perf.lost /\ perf'.hotspots = perf.hotspots
      /\ perf'.whole = perf.whole
  BY <1>1, <1>2 DEF StateInv
<1>5. CountInv' /\ HotInv'
  BY <1>2, <1>3, <1>4, CountsKept
<1>6. RingInv'
  BY <1>1, <1>2, <1>3 DEF RingInv
<1>7. ReadInv'
  BY <1>1, <1>2, <1>3, <1>4 DEF ReadInv, RingInv, Parsing
<1>8. StateInv'
  BY <1>1, <1>2, <1>4 DEF StateInv
<1> QED BY <1>5, <1>6, <1>7, <1>8 DEF PerfInv

LEMMA CopyHeaderKeeps == ASSUME PerfInv, CopyHeader PROVE PerfInv'
<1>1. RingInv /\ ReadInv /\ StateInv
  BY DEF PerfInv
<1>2. /\ Parsing /\ header = <<>> /\ cursor + 1 <= seen /\ header' = <<UnitAt(ring, cursor)>>
      /\ UNCHANGED <<ring, head, enabled, lost, taken, dropped, tail, perf, regions, cursor, seen>>
  BY DEF CopyHeader, kernelSide, Slot, UnitAt
<1>3. CountInv' /\ HotInv'
  BY <1>2, CountsKept
<1>4. RingInv'
  BY <1>1, <1>2 DEF RingInv
<1>5. ReadInv'
  <2>1. cursor < seen
    BY <1>1, <1>2 DEF RingInv
  <2> QED BY <1>1, <1>2, <2>1 DEF ReadInv, Parsing
<1>6. StateInv'
  BY <1>1, <1>2 DEF StateInv
<1> QED BY <1>3, <1>4, <1>5, <1>6 DEF PerfInv

LEMMA ConsumedKeeps == ASSUME PerfInv, Consumed PROVE PerfInv'
<1>1. RingInv /\ ReadInv /\ StateInv
  BY DEF PerfInv
<1>2. /\ Parsing /\ header = <<>> /\ cursor + 1 > seen /\ tail' = cursor
      /\ perf' = [perf EXCEPT !.state = IF @ = "last" THEN "available" ELSE "draining"]
      /\ UNCHANGED <<ring, head, enabled, lost, taken, dropped, regions, cursor, seen, header>>
  BY DEF Consumed, kernelSide
<1>3. /\ DOMAIN perf' = DOMAIN perf /\ perf'.state = (IF perf.state = "last" THEN "available" ELSE "draining")
      /\ perf'.samples = perf.samples /\ perf'.lost = perf.lost /\ perf'.hotspots = perf.hotspots
      /\ perf'.whole = perf.whole
  BY <1>1, <1>2 DEF StateInv
<1>4. CountInv' /\ HotInv'
  BY <1>2, <1>3, CountsKept
<1>5. cursor = seen
  BY <1>1, <1>2 DEF ReadInv, RingInv
<1>6. RingInv'
  <2>1. RingUnits \in Nat
    BY PerfAssumption
  <2> QED BY <1>1, <1>2, <2>1 DEF RingInv
<1>7. ReadInv'
  BY <1>1, <1>2, <1>3, <1>5 DEF ReadInv, RingInv, Parsing
<1>8. StateInv'
  BY <1>1, <1>2, <1>3, <1>5 DEF StateInv
<1> QED BY <1>4, <1>6, <1>7, <1>8 DEF PerfInv

LEMMA DeadlineKeeps == ASSUME PerfInv, Deadline PROVE PerfInv'
<1>1. RingInv /\ ReadInv /\ StateInv
  BY DEF PerfInv
<1>2. /\ perf.state = "draining" /\ ~enabled' /\ perf' = [perf EXCEPT !.state = "disabled"]
      /\ UNCHANGED <<ring, head, lost, taken, dropped, tail, regions, cursor, seen, header>>
  BY DEF Deadline
<1>3. /\ DOMAIN perf' = DOMAIN perf /\ perf'.state = "disabled"
      /\ perf'.samples = perf.samples /\ perf'.lost = perf.lost /\ perf'.hotspots = perf.hotspots
      /\ perf'.whole = perf.whole
  BY <1>1, <1>2 DEF StateInv
<1>4. CountInv' /\ HotInv'
  BY <1>2, <1>3, CountsKept
<1>5. RingInv'
  BY <1>1, <1>2 DEF RingInv
<1>6. ReadInv'
  BY <1>1, <1>2, <1>3 DEF ReadInv, Parsing
<1>7. StateInv'
  BY <1>1, <1>2, <1>3 DEF StateInv
<1> QED BY <1>4, <1>5, <1>6, <1>7 DEF PerfInv

(* No bucket has anything before the first sample.                          *)
LEMMA NoBuckets == ASSUME NEW regs PROVE BucketsTrue(EmptyBag, EmptyBag, regs)
<1> SUFFICES ASSUME NEW key
             PROVE  Copies0(EmptyBag, key) = Total([a \in Address |-> Copies0(EmptyBag, a)], InRegion(regs, key))
  BY DEF BucketsTrue
<1> DEFINE f == [a \in Address |-> Copies0(EmptyBag, a)]
           I == InRegion(regs, key)
<1>1. IsFiniteSet(I) /\ I \subseteq Address
  <2>1. I \subseteq Address
    BY DEF InRegion
  <2> QED BY <2>1, PerfAssumption, FS_Subset
<1>2. \A x : Copies0(EmptyBag, x) = 0
  BY ProperEmpty
<1>3. \A a \in I : f[a] = 0
  BY <1>1, <1>2
<1> HIDE DEF f, I
<1>4. Total(f, I) = 0
  BY <1>1, <1>3, TotalZero
<1> QED BY <1>2, <1>4 DEF f, I

(* A sampler that is opened starts with an empty ring and an empty report.  *)
LEMMA OpenSamplerKeeps ==
  ASSUME PerfInv, NEW event, NEW shot, OpenSampler(event, shot) PROVE PerfInv'
<1>1. RingInv /\ ReadInv /\ StateInv /\ CountInv /\ HotInv
  BY DEF PerfInv
<1>2. /\ perf.state = "none" /\ regions' = shot
      /\ \/ perf' = [perf EXCEPT !.event = NormalizeEvent(event), !.state = "draining"]
         \/ perf' = [perf EXCEPT !.event = NormalizeEvent(event), !.state = "error"] /\ UNCHANGED enabled
      /\ UNCHANGED <<ring, head, tail, lost, taken, dropped, cursor, seen, header>>
  BY DEF OpenSampler
<1>3. /\ DOMAIN perf' = DOMAIN perf /\ perf'.state \in {"draining", "error"}
      /\ perf'.state = "error" => enabled' = enabled
      /\ perf'.samples = perf.samples /\ perf'.lost = perf.lost /\ perf'.hotspots = perf.hotspots
      /\ perf'.whole = perf.whole
  BY <1>1, <1>2 DEF StateInv
<1>4. perf.samples = EmptyBag /\ perf.hotspots = EmptyBag
  BY <1>1, <1>2 DEF StateInv
<1>5. HotInv'
  BY <1>1, <1>2, <1>3, <1>4, NoBuckets DEF HotInv
<1>6. CountInv'
  BY <1>1, <1>2, <1>3 DEF CountInv
<1>7. RingInv'
  BY <1>1, <1>2 DEF RingInv
<1>8. ReadInv'
  BY <1>1, <1>2, <1>3 DEF ReadInv, Parsing
<1>9. StateInv'
  BY <1>1, <1>2, <1>3 DEF StateInv
<1> QED BY <1>5, <1>6, <1>7, <1>8, <1>9 DEF PerfInv

(* Of a ring that is new.                                                   *)
LEMMA PerfInitially == PerfInit => PerfInv
<1> SUFFICES ASSUME PerfInit PROVE PerfInv
  OBVIOUS
<1>1. /\ ring = EmptyRing /\ head = 0 /\ tail = 0 /\ ~enabled /\ lost = 0
      /\ taken = EmptyBag /\ dropped = EmptyBag /\ perf = NoReport
      /\ regions = <<>> /\ cursor = 0 /\ seen = 0 /\ header = <<>>
  BY DEF PerfInit
<1>2. /\ DOMAIN perf = {"state", "event", "hotspots", "samples", "lost", "whole"}
      /\ perf.state = "none" /\ perf.hotspots = EmptyBag /\ perf.samples = EmptyBag
      /\ perf.lost = 0 /\ perf.whole
  BY <1>1 DEF NoReport
<1>3. 0..(0 - 1) = {}
  OBVIOUS
<1>4. RingInv
  <2>1. WholeRecords(ring, cursor, head)
    BY <1>1, <1>3 DEF WholeRecords
  <2>2. DOMAIN ring = 0..(RingUnits - 1) /\ RingUnits \in Nat
    BY <1>1, PerfAssumption DEF EmptyRing
  <2> QED BY <1>1, <2>1, <2>2 DEF RingInv
<1>5. ReadInv /\ StateInv
  BY <1>1, <1>2 DEF ReadInv, StateInv, Parsing
<1>6. HotInv
  <2>1. IsCounter(EmptyBag)
    BY ProperEmpty DEF Proper, IsTally
  <2> QED BY <1>1, <1>2, <2>1, NoBuckets DEF HotInv
<1>7. CountInv
  <2>1. \A type : Starts(ring, cursor, head, type) = {}
    BY <1>1, <1>3 DEF Starts
  <2>2. \A a : Valued(ring, {}, a) = {}
    BY DEF Valued
  <2>3. Cardinality({}) = 0 /\ IsFiniteSet({})
    BY FS_EmptySet
  <2>4. LostIn(ring, {}) = 0
    BY TotalEmpty DEF LostIn
  <2>7. Starts(ring, cursor, head, "sample") = {} /\ Starts(ring, cursor, head, "lost") = {}
    BY <2>1
  <2>5. AllCopies(EmptyBag, EmptyBag, EmptyBag, ring, {})
    BY <2>2, <2>3, ProperEmpty DEF AllCopies
  <2>6. AllEvents(EmptyBag, EmptyBag, EmptyBag, {}) /\ AllDrops(EmptyBag, 0, 0, ring, {})
    <3> HIDE DEF Total
    <3> QED BY <2>3, <2>4, ProperEmpty DEF AllEvents, AllDrops
  <2>8. Proper(taken) /\ Proper(dropped) /\ Proper(perf.samples) /\ lost \in Nat /\ perf.lost \in Nat
    BY <1>1, <1>2, ProperEmpty
  <2>9. /\ AllCopies(taken, perf.samples, dropped, ring, Starts(ring, cursor, head, "sample"))
        /\ AllEvents(taken, perf.samples, dropped, Starts(ring, cursor, head, "sample"))
        /\ AllDrops(dropped, perf.lost, lost, ring, Starts(ring, cursor, head, "lost"))
    BY <1>1, <1>2, <2>5, <2>6, <2>7
  <2> QED BY <2>8, <2>9 DEF CountInv
<1> QED BY <1>4, <1>5, <1>6, <1>7 DEF PerfInv

LEMMA PerfResetKeeps == ASSUME PerfReset PROVE PerfInv'
<1>1. PerfInit'
  BY DEF PerfReset, PerfInit, EmptyRing, NoReport
<1>2. (PerfInit => PerfInv)'
  BY PerfInitially, PTL
<1> QED BY <1>1, <1>2

LEMMA PerfUnchanged == ASSUME PerfInv, UNCHANGED perfVars PROVE PerfInv'
<1>1. UNCHANGED <<ring, head, tail, enabled, lost, taken, dropped, perf, regions, cursor, seen, header>>
  BY DEF perfVars
<1>2. CountInv' /\ HotInv'
  BY <1>1, CountsKept
<1>3. RingInv' /\ ReadInv' /\ StateInv'
  BY <1>1 DEF PerfInv, RingInv, ReadInv, StateInv, Parsing
<1> QED BY <1>2, <1>3 DEF PerfInv

(* Every step of the tool, those of the sampler and the others.             *)
LEMMA PerfStepKeeps == ASSUME PerfInv, [Next]_vars PROVE PerfInv'
<1>1. CASE UNCHANGED vars
  BY <1>1, PerfUnchanged DEF vars
<1>2. CASE PerfStep
  <2>1. CASE UNCHANGED perfVars
    BY <2>1, PerfUnchanged
  <2>2. ASSUME NEW event \in {"cpu-clock", "dtlb-miss"}, OpenSampler(event, snapshot) PROVE PerfInv'
    BY <2>2, OpenSamplerKeeps
  <2>3. CASE Sampling
    BY <2>3, OverflowKeeps, ParseSamplesKeeps, CopyHeaderKeeps, CopyBodyKeeps, ConsumedKeeps, DeadlineKeeps
    DEF Sampling
  <2> QED BY <1>2, <2>1, <2>2, <2>3 DEF PerfStep, Perf
<1>3. CASE Watch
  BY <1>3, PerfResetKeeps DEF Watch
<1>4. CASE ParseArgs \/ Diff \/ Cgroup \/ Limits \/ Clear \/ Scan \/ Demo
  <2>1. UNCHANGED perfVars
    BY <1>4 DEF ParseArgs, Diff, Cgroup, Limits, Clear, Scan, Demo, UNCHANGED_Tools
  <2> QED BY <2>1, PerfUnchanged
<1>5. CASE Move \/ TakeMaps \/ TakeSmaps \/ TakeProbe \/ UseSnapshots
  <2>1. UNCHANGED perfVars
    BY <1>5 DEF Move, TakeMaps, TakeSmaps, TakeProbe, UseSnapshots, UNCHANGED_Tools, GoOn
  <2> QED BY <2>1, PerfUnchanged
<1> QED BY <1>1, <1>2, <1>3, <1>4, <1>5 DEF Next

-----------------------------------------------------------------------------
(* What is still in the ring, as a bag.                                     *)

Values(s) == {UnitAt(ring, p).value : p \in s}
Gathered(s) == [x \in Values(s) |-> Cardinality(Valued(ring, s, x))]

LEMMA GatheredCopies ==
  ASSUME NEW s, IsFiniteSet(s)
  PROVE  /\ IsCounter(Gathered(s)) /\ Positive(Gathered(s))
         /\ \A x : Copies0(Gathered(s), x) = Cardinality(Valued(ring, s, x))
<1>1. ASSUME NEW x
      PROVE  /\ IsFiniteSet(Valued(ring, s, x)) /\ Cardinality(Valued(ring, s, x)) \in Nat
             /\ Cardinality(Valued(ring, s, x)) = 0 <=> x \notin Values(s)
  <2>1. IsFiniteSet(Valued(ring, s, x))
    <3>1. Valued(ring, s, x) \subseteq s
      BY DEF Valued
    <3> QED BY <3>1, FS_Subset
  <2>2. Valued(ring, s, x) = {} <=> x \notin Values(s)
    BY DEF Valued, Values
  <2> QED BY <2>1, <2>2, FS_CardinalityType, FS_EmptySet
<1>2. DOMAIN Gathered(s) = Values(s) /\ \A x \in Values(s) : Gathered(s)[x] = Cardinality(Valued(ring, s, x))
  BY DEF Gathered
<1>3. IsCounter(Gathered(s)) /\ Positive(Gathered(s))
  BY <1>1, <1>2 DEF IsCounter, Positive
<1>4. ASSUME NEW x PROVE Copies0(Gathered(s), x) = Cardinality(Valued(ring, s, x))
  BY <1>1, <1>2 DEF Copies0
<1> QED BY <1>3, <1>4

LEMMA GatheredOne ==
  ASSUME NEW s, IsFiniteSet(s), NEW p \in s
  PROVE  Gathered(s) = BagAdd(Gathered(s \ {p}), UnitAt(ring, p).value)
<1> DEFINE v == UnitAt(ring, p).value
           t == s \ {p}
           b == Gathered(t)
<1>1. IsFiniteSet(t)
  BY FS_RemoveElement
<1>2. IsCounter(b) /\ \A x : Copies0(b, x) = Cardinality(Valued(ring, t, x))
  BY <1>1, GatheredCopies
<1>3. BagAdd(b, v) = [x \in DOMAIN b \cup {v} |-> Copies0(b, x) + (IF x = v THEN 1 ELSE 0)]
  <2> HIDE DEF b, v
  <2>1. IsCounter(b)
    BY <1>2
  <2>2. BagAdd(b, v) = Plus(b, v)
    BY <2>1, BagAddIsPlus
  <2> QED BY <2>2, Zenon DEF Plus
<1>4. DOMAIN b \cup {v} = Values(s)
  BY DEF Gathered, Values
<1>5. ASSUME NEW x \in Values(s)
      PROVE  Cardinality(Valued(ring, s, x)) = Copies0(b, x) + (IF x = v THEN 1 ELSE 0)
  <2>1. IsFiniteSet(Valued(ring, t, x)) /\ Cardinality(Valued(ring, t, x)) \in Nat
    <3>1. Valued(ring, t, x) \subseteq t
      BY DEF Valued
    <3> QED BY <1>1, <3>1, FS_Subset, FS_CardinalityType
  <2>2. CASE x = v
    <3>1. Valued(ring, s, x) = Valued(ring, t, x) \cup {p} /\ p \notin Valued(ring, t, x)
      BY <2>2 DEF Valued
    <3>2. Cardinality(Valued(ring, s, x)) = Cardinality(Valued(ring, t, x)) + 1
      BY <2>1, <3>1, FS_AddElement
    <3> HIDE DEF b, v
    <3> QED BY <1>2, <2>2, <3>2
  <2>3. CASE x # v
    <3>1. Valued(ring, s, x) = Valued(ring, t, x)
      BY <2>3 DEF Valued
    <3> HIDE DEF b, v
    <3> QED BY <1>2, <2>1, <2>3, <3>1
  <2> QED BY <2>2, <2>3
<1>6. Gathered(s) = [x \in Values(s) |-> Cardinality(Valued(ring, s, x))]
  BY DEF Gathered
<1> HIDE DEF b, v
<1>7. Gathered(s) = BagAdd(b, v)
  BY <1>3, <1>4, <1>5, <1>6
<1> QED BY <1>7 DEF b, v

LEMMA GatheredNone == Gathered({}) = EmptyBag
<1>1. Values({}) = {}
  BY DEF Values
<1> QED BY <1>1 DEF Gathered, EmptyBag, SetToBag

(* What FoldSet computes, position by position.                             *)
OneRead(f, S) ==
  [s \in SUBSET S |-> IF s = {} THEN EmptyBag
                      ELSE BagAdd(f[s \ {Some(s)}], UnitAt(ring, Some(s)).value)]

LEMMA UnreadIsFixpoint ==
  Unread = (CHOOSE f : f = OneRead(f, Starts(ring, cursor, head, "sample")))[Starts(ring, cursor, head, "sample")]
BY Zenon DEF Unread, FoldSet, MapThenFoldSet, OneRead, Some, Slot, UnitAt, Starts

LEMMA GatheredIsFixpoint ==
  ASSUME NEW S, IsFiniteSet(S), NEW g, g = [s \in SUBSET S |-> Gathered(s)]
  PROVE  g = OneRead(g, S)
<1>1. ASSUME NEW s \in SUBSET S
      PROVE  Gathered(s) = IF s = {} THEN EmptyBag
                           ELSE BagAdd(g[s \ {Some(s)}], UnitAt(ring, Some(s)).value)
  <2>1. CASE s = {}
    BY <2>1, GatheredNone
  <2>2. CASE s # {}
    <3>1. Some(s) \in s
      BY <2>2 DEF Some
    <3>2. IsFiniteSet(s)
      BY FS_Subset
    <3>3. g[s \ {Some(s)}] = Gathered(s \ {Some(s)})
      BY <3>1
    <3>4. Gathered(s) = BagAdd(Gathered(s \ {Some(s)}), UnitAt(ring, Some(s)).value)
      BY <3>1, <3>2, GatheredOne
    <3> QED BY <2>2, <3>3, <3>4
  <2> QED BY <2>1, <2>2
<1> QED BY <1>1 DEF OneRead

LEMMA FixpointIsGathered ==
  ASSUME NEW S, IsFiniteSet(S), NEW f, f = OneRead(f, S)
  PROVE  f[S] = Gathered(S)
<1> DEFINE C == {t \in SUBSET S : f[t] # Gathered(t)}
<1> SUFFICES ASSUME C # {} PROVE FALSE
  OBVIOUS
<1>1. \A t \in C : IsFiniteSet(t)
  BY FS_Subset
<1>2. PICK t \in C : \A u \in C : Cardinality(t) <= Cardinality(u)
  <2> HIDE DEF C
  <2> QED BY <1>1, SmallestSet
<1>3. t \in SUBSET S /\ f[t] # Gathered(t) /\ IsFiniteSet(t)
  BY <1>1, <1>2
<1>4. f[t] = IF t = {} THEN EmptyBag ELSE BagAdd(f[t \ {Some(t)}], UnitAt(ring, Some(t)).value)
  BY <1>3 DEF OneRead
<1>5. CASE t = {}
  BY <1>3, <1>4, <1>5, GatheredNone
<1>6. CASE t # {}
  <2> DEFINE u == t \ {Some(t)}
  <2>1. Some(t) \in t
    BY <1>6 DEF Some
  <2>2. Cardinality(u) = Cardinality(t) - 1 /\ Cardinality(t) \in Nat
    BY <1>3, <2>1, FS_RemoveElement, FS_CardinalityType
  <2>3. u \notin C
    <3> HIDE DEF C, u
    <3> QED BY <1>2, <2>2
  <2>4. f[u] = Gathered(u)
    BY <1>3, <2>3
  <2>5. Gathered(t) = BagAdd(Gathered(u), UnitAt(ring, Some(t)).value)
    BY <1>3, <2>1, GatheredOne
  <2> QED BY <1>3, <1>4, <1>6, <2>4, <2>5
<1> QED BY <1>5, <1>6

LEMMA UnreadGathered ==
  ASSUME RingInv
  PROVE  Unread = Gathered(Starts(ring, cursor, head, "sample"))
<1> DEFINE S == Starts(ring, cursor, head, "sample")
           f == CHOOSE e : e = OneRead(e, S)
           g == [s \in SUBSET S |-> Gathered(s)]
<1>1. IsFiniteSet(S)
  BY StartsFinite DEF RingInv
<1>2. Unread = f[S]
  BY UnreadIsFixpoint
<1>3. g = OneRead(g, S)
  <2> HIDE DEF S
  <2> QED BY <1>1, GatheredIsFixpoint
<1> HIDE DEF S, g
<1>4. f = OneRead(f, S)
  BY <1>3
<1> HIDE DEF f
<1>5. f[S] = Gathered(S)
  BY <1>1, <1>4, FixpointIsGathered
<1> QED BY <1>2, <1>5 DEF S

-----------------------------------------------------------------------------
(* SamplesAccounted itself.                                                 *)
LEMMA EventCountIsTotal == ASSUME NEW b PROVE EventCount(b) = Total(b, DOMAIN b)
BY Zenon DEF EventCount, Total, BagToSet

(* The copies of each address, summed up, are the bags of SamplesAccounted. *)
LEMMA AllEventsBag ==
  ASSUME NEW t, Proper(t), NEW s, Proper(s), NEW d, Proper(d), NEW S, IsFiniteSet(S), AllCopies(t, s, d, ring, S)
  PROVE  t = s (+) Gathered(S) (+) d
<1> DEFINE g == Gathered(S)
           u == s (+) g (+) d
<1>1. /\ IsCounter(t) /\ IsCounter(s) /\ IsCounter(d) /\ IsCounter(g)
      /\ Positive(t) /\ Positive(s) /\ Positive(d) /\ Positive(g)
      /\ IsMap(t)
  BY GatheredCopies DEF Proper, IsTally
<1>2. \A x : Copies0(t, x) = Copies0(s, x) + Copies0(g, x) + Copies0(d, x)
  BY GatheredCopies DEF AllCopies
<1> HIDE DEF g
<1>3. \A x : /\ Copies0(s, x) \in Nat /\ (Copies0(s, x) # 0 <=> x \in DOMAIN s)
             /\ Copies0(g, x) \in Nat /\ (Copies0(g, x) # 0 <=> x \in DOMAIN g)
             /\ Copies0(d, x) \in Nat /\ (Copies0(d, x) # 0 <=> x \in DOMAIN d)
             /\ (Copies0(t, x) # 0 <=> x \in DOMAIN t)
  BY <1>1 DEF Copies0, IsCounter, Positive
<1>4. DOMAIN t = DOMAIN s \cup DOMAIN g \cup DOMAIN d
  <2>1. ASSUME NEW x PROVE x \in DOMAIN t <=> x \in DOMAIN s \cup DOMAIN g \cup DOMAIN d
    <3> DEFINE i == Copies0(s, x)
               j == Copies0(g, x)
               k == Copies0(d, x)
    <3>1. i \in Nat /\ j \in Nat /\ k \in Nat
      BY <1>3
    <3>2. i + j + k # 0 <=> i # 0 \/ j # 0 \/ k # 0
      <4> HIDE DEF i, j, k
      <4> QED BY <3>1
    <3> QED BY <1>2, <1>3, <3>2
  <2> QED BY <2>1
<1>5. u = [x \in DOMAIN s \cup DOMAIN g \cup DOMAIN d |-> Copies0(s, x) + Copies0(g, x) + Copies0(d, x)]
  <2> DEFINE w == s (+) g
  <2>1. w = [x \in DOMAIN s \cup DOMAIN g |-> Copies0(s, x) + Copies0(g, x)]
    BY DEF (+), Copies0
  <2>2. DOMAIN w = DOMAIN s \cup DOMAIN g
    BY <2>1
  <2>3. \A x : Copies0(w, x) = Copies0(s, x) + Copies0(g, x)
    <3> TAKE x
    <3>1. CASE x \in DOMAIN w
      BY <2>1, <2>2, <3>1 DEF Copies0
    <3>2. CASE x \notin DOMAIN w
      BY <2>2, <3>2 DEF Copies0
    <3> QED BY <3>1, <3>2
  <2> HIDE DEF w
  <2>4. w (+) d = [x \in DOMAIN w \cup DOMAIN d |-> Copies0(w, x) + Copies0(d, x)]
    BY DEF (+), Copies0
  <2> QED BY <2>2, <2>3, <2>4 DEF w
<1>6. t = [x \in DOMAIN t |-> Copies0(t, x)]
  BY <1>1 DEF IsMap, Copies0
<1> HIDE DEF u
<1>7. t = u
  BY <1>2, <1>4, <1>5, <1>6
<1> QED BY <1>7 DEF u, g

LEMMA SamplesSound == ASSUME PerfInv PROVE SamplesAccounted
<1> DEFINE S == Starts(ring, cursor, head, "sample")
           L == Starts(ring, cursor, head, "lost")
           copies == [a \in Address |-> IF BagIn(a, perf.samples) THEN perf.samples[a] ELSE 0]
<1>1. RingInv /\ StateInv /\ CountInv /\ HotInv
  BY DEF PerfInv
<1>2. IsFiniteSet(S) /\ IsFiniteSet(L) /\ Unread = Gathered(S)
  BY <1>1, StartsFinite, UnreadGathered DEF RingInv
<1>3. /\ Proper(taken) /\ Proper(dropped) /\ Proper(perf.samples) /\ lost \in Nat /\ perf.lost \in Nat
      /\ AllCopies(taken, perf.samples, dropped, ring, S) /\ AllEvents(taken, perf.samples, dropped, S)
      /\ AllDrops(dropped, perf.lost, lost, ring, L)
  BY <1>1 DEF CountInv
<1>4. taken = perf.samples (+) Unread (+) dropped
  <2> HIDE DEF S, L
  <2> QED BY <1>2, <1>3, AllEventsBag
<1>5. ASSUME NEW key \in BagToSet(perf.hotspots)
      PROVE  perf.hotspots[key] =
               MapThenSumSet(LAMBDA a : copies[a], {b \in Address : RegionForAddr(regions, b) = key})
  <2>1. Copies0(perf.hotspots, key) = Total([a \in Address |-> Copies0(perf.samples, a)], InRegion(regions, key))
    BY <1>1 DEF HotInv, BucketsTrue
  <2>2. copies = [a \in Address |-> Copies0(perf.samples, a)]
    BY DEF Copies0, BagIn, BagToSet
  <2>3. Copies0(perf.hotspots, key) = perf.hotspots[key]
    BY DEF Copies0, BagToSet
  <2> HIDE DEF copies
  <2>4. perf.hotspots[key] = Total(copies, InRegion(regions, key))
    BY <2>1, <2>2, <2>3
  <2> QED BY <2>4, Zenon DEF Total, InRegion
<1>6. ASSUME perf.state = "available"
      PROVE  /\ EventCount(taken) = EventCount(perf.samples) + perf.lost + lost
             /\ Unread = EmptyBag
  <2>1. cursor..(head - 1) = {}
    <3>1. cursor = head /\ head \in Nat
      BY <1>1, <1>6 DEF StateInv, RingInv
    <3> QED BY <3>1
  <2>2. S = {} /\ L = {}
    BY <2>1 DEF Starts
  <2>3. Unread = EmptyBag
    BY <1>2, <2>2, GatheredNone
  <2> DEFINE x == Total(taken, DOMAIN taken)
             y == Total(perf.samples, DOMAIN perf.samples)
             z == Total(dropped, DOMAIN dropped)
  <2>4. Cardinality(S) = 0 /\ LostIn(ring, L) = 0
    BY <2>2, FS_EmptySet, TotalEmpty DEF LostIn
  <2>5. x = y + 0 + z /\ z = perf.lost + lost + 0 /\ y \in Int
    BY <1>3, <2>4, ProperTotal DEF AllEvents, AllDrops
  <2>6. EventCount(taken) = x /\ EventCount(perf.samples) = y
    BY EventCountIsTotal
  <2> HIDE DEF x, y, z
  <2>7. x = y + perf.lost + lost
    BY <1>3, <2>5
  <2> QED BY <2>3, <2>6, <2>7
<1>7. perf.whole
  BY <1>1 DEF HotInv
<1> QED BY <1>4, <1>5, <1>6, <1>7 DEF SamplesAccounted

(* The kernel writes records while parse_samples copies them, and loses     *)
(* events when the ring is full, yet no record is copied torn; every event  *)
(* is in the report, in the ring or among the dropped ones, and in one of   *)
(* these only; the buckets are sums of what was sampled in their regions;   *)
(* and when the sampler has finished, nothing is left in the ring and the   *)
(* LOST records told of all drops but those after the last record that found *)
(* room (sample_perf_events, parse_samples).  For every size of the ring and *)
(* of the records, and however many events there are.                       *)
THEOREM SamplesCounted == Spec => []SamplesAccounted
<1>1. Init => PerfInv
  BY PerfInitially DEF Init
<1>2. PerfInv /\ [Next]_vars => PerfInv'
  BY PerfStepKeeps
<1>3. PerfInv => SamplesAccounted
  BY SamplesSound
<1> QED BY <1>1, <1>2, <1>3, PTL DEF Spec
=============================================================================
