----------------------------- MODULE PerfSampler -----------------------------
(***************************************************************************)
(* --perf-sample of mem-map-viewer (perf_sampler.cpp): the kernel writes   *)
(* records into a ring that the tool maps, the tool reads them and gives   *)
(* their room back by moving data_tail.                                    *)
(*                                                                         *)
(* The ring is a function from slots to units.  A record is a header,      *)
(* which knows the record's size, followed by its body; `of' is the record *)
(* that a unit belongs to, which the tool does not see.  Positions grow    *)
(* for ever, as data_head does.  `taken' counts the events of each         *)
(* address, `dropped' those that found no room.                            *)
(*                                                                         *)
(* Bounds: MaxEvents events; Drains drains before the deadline at most.    *)
(***************************************************************************)
EXTENDS Snapshots, Bags

LOCAL INSTANCE BagsExt

CONSTANTS
  RingUnits,  \* data_size
  BodyUnits,  \* units of a sample's body; that of a LOST record is one
  Address,    \* where the program may be sampled: 64 bits, so finitely many
  MaxEvents, Drains

ASSUME PerfAssumption ==
  /\ RingUnits \in Nat /\ BodyUnits \in Nat \ {0} /\ RingUnits > BodyUnits
  /\ IsFiniteSet(Address)

VARIABLES
  ring, head, tail,   \* the kernel's: slots, data_head, data_tail
  enabled, lost,      \* sampling is on; events lost and not yet told of
  taken, dropped,     \* see above
  perf,               \* the tool's report, `state' included
  regions,            \* the snapshot's regions
  cursor, seen,       \* the tail and the head that parse_samples works on
  header, drains

perfVars == <<ring, head, tail, enabled, lost, taken, dropped, perf, regions, cursor, seen, header, drains>>

kernelSide == <<ring, head, enabled, lost, taken, dropped>>

-----------------------------------------------------------------------------
(* The kernel.                                                             *)

\* How many events a bag holds.
EventCount(bag) == MapThenSumSet(LAMBDA a : bag[a], BagToSet(bag))

Written(at, units) ==
  [slot \in DOMAIN ring |->
     LET hits == {i \in DOMAIN units : (at + i - 1) % RingUnits = slot}
     IN  IF hits = {} THEN ring[slot] ELSE units[Max(hits)]]

Record(n, type, value, body) ==
  [i \in 1..(body + 1) |-> [of |-> n, part |-> i, type |-> type, value |-> value, size |-> body + 1]]

\* An event finds room for its record, and for the LOST record that is due, or is lost.
Overflow(a) ==
  LET n == EventCount(taken) + 1
      notice == IF lost > 0 THEN Record(-n, "lost", lost, 1) ELSE <<>>
      units == notice \o Record(n, "sample", a, BodyUnits)
  IN  /\ enabled /\ EventCount(taken) < MaxEvents
      /\ taken' = BagAdd(taken, a)
      /\ IF head - tail + Len(units) <= RingUnits
           THEN /\ ring' = Written(head, units)
                /\ head' = head + Len(units)
                /\ lost' = 0
                /\ UNCHANGED dropped
           ELSE /\ lost' = lost + 1
                /\ dropped' = BagAdd(dropped, a)
                /\ UNCHANGED <<ring, head>>
      /\ UNCHANGED <<tail, enabled, perf, regions, cursor, seen, header, drains>>

-----------------------------------------------------------------------------
(* The tool.                                                               *)

NormalizeEvent(event) == IF event \in {"cache-miss", "cpu-clock"} THEN event ELSE "dtlb-miss"

\* open_sampler, the mapping of the ring and the two ioctls: any of them may fail
\* (Linux refuses to map an event that is inherited, as the hardware events are).
OpenSampler(event, snapshot) ==
  /\ perf.state = "none"
  /\ regions' = snapshot
  /\ \/ /\ enabled' = TRUE
        /\ perf' = [perf EXCEPT !.event = NormalizeEvent(event), !.state = "draining"]
     \/ /\ perf' = [perf EXCEPT !.event = NormalizeEvent(event), !.state = "error"]
        /\ UNCHANGED enabled
  /\ UNCHANGED <<ring, head, tail, lost, taken, dropped, cursor, seen, header, drains>>

\* parse_samples takes data_tail and data_head once, then record by record.
ParseSamples ==
  /\ \/ perf.state = "draining" /\ drains < Drains /\ drains' = drains + 1
        /\ perf' = [perf EXCEPT !.state = "parsing"]
     \/ perf.state = "disabled" /\ perf' = [perf EXCEPT !.state = "last"] /\ UNCHANGED drains
  /\ cursor' = tail /\ seen' = head
  /\ UNCHANGED <<kernelSide, tail, regions, header>>

Parsing == perf.state \in {"parsing", "last"}
Slot(position) == ring[position % RingUnits]

\* Fault: the room of a record is given back before its body is copied.
HeaderReleasesRecord ==
  /\ Parsing /\ header = <<>> /\ cursor + 1 <= seen
  /\ header' = <<Slot(cursor)>>
  /\ tail' = cursor + Slot(cursor).size
  /\ UNCHANGED <<kernelSide, perf, regions, cursor, seen, drains>>

\* copy_from_ring: the header, which says how much there is to copy.
CopyHeader ==
  /\ Parsing /\ header = <<>> /\ cursor + 1 <= seen
  /\ header' = <<Slot(cursor)>>
  /\ UNCHANGED <<kernelSide, tail, perf, regions, cursor, seen, drains>>

\* The address is what the body says, `ip' as well as `addr'.
BucketFor(hotspots, a) == BagAdd(hotspots, RegionForAddr(regions, a))

\* The body; a record in more pieces than its own would be torn.
CopyBody ==
  LET h == header[1]
      body == [i \in 1..(h.size - 1) |-> Slot(cursor + i)]
      whole == \A i \in DOMAIN body : body[i].of = h.of /\ body[i].part = i + 1
      value == body[1].value
  IN  /\ Parsing /\ header # <<>>
      /\ perf' = IF h.type = "sample"
                   THEN [perf EXCEPT !.hotspots = BucketFor(@, value), !.samples = BagAdd(@, value),
                                     !.whole = @ /\ whole]
                   ELSE [perf EXCEPT !.lost = @ + value, !.whole = @ /\ whole]
      /\ cursor' = cursor + h.size
      /\ header' = <<>>
      /\ UNCHANGED <<kernelSide, tail, regions, seen, drains>>

\* data_tail moves when everything up to `seen' is copied.
Consumed ==
  /\ Parsing /\ header = <<>> /\ cursor + 1 > seen
  /\ tail' = cursor
  /\ perf' = [perf EXCEPT !.state = IF @ = "last" THEN "available" ELSE "draining"]
  /\ UNCHANGED <<kernelSide, regions, cursor, seen, header, drains>>

\* The deadline: sampling is switched off, and the ring drained once more.
Deadline ==
  /\ perf.state = "draining"
  /\ enabled' = FALSE
  /\ perf' = [perf EXCEPT !.state = "disabled"]
  /\ UNCHANGED <<ring, head, lost, taken, dropped, tail, regions, cursor, seen, header, drains>>

-----------------------------------------------------------------------------

EmptyRing == [slot \in 0..(RingUnits - 1) |-> [of |-> 0, part |-> 0, type |-> "", value |-> 0, size |-> 1]]
NoReport == [state |-> "none", event |-> "", hotspots |-> EmptyBag, samples |-> EmptyBag,
             lost |-> 0, whole |-> TRUE]

PerfInit ==
  /\ ring = EmptyRing /\ head = 0 /\ tail = 0 /\ enabled = FALSE /\ lost = 0
  /\ taken = EmptyBag /\ dropped = EmptyBag /\ perf = NoReport
  /\ regions = <<>> /\ cursor = 0 /\ seen = 0 /\ header = <<>> /\ drains = 0

\* Every call of sample_perf_event opens a ring of its own.
PerfReset ==
  /\ ring' = EmptyRing /\ head' = 0 /\ tail' = 0 /\ enabled' = FALSE /\ lost' = 0
  /\ taken' = EmptyBag /\ dropped' = EmptyBag /\ perf' = NoReport
  /\ regions' = <<>> /\ cursor' = 0 /\ seen' = 0 /\ header' = <<>> /\ drains' = 0

Sampling ==
  \/ \E a \in Address : Overflow(a)
  \/ ParseSamples \/ CopyHeader \/ CopyBody \/ Consumed \/ Deadline

-----------------------------------------------------------------------------

\* The samples that are still in the ring.
Unread ==
  LET positions == {p \in cursor..(head - 1) : Slot(p).part = 1 /\ Slot(p).type = "sample"}
  IN  FoldSet(LAMBDA p, bag : BagAdd(bag, Slot(p).value), EmptyBag, positions)

\* No record is torn, though the kernel writes while parse_samples copies; every
\* event is counted once, in the bucket of the region that the snapshot has at its
\* address, or was dropped for want of room; and at the end all that is missing
\* from the report are the drops after the last record that found room, for which
\* no LOST record was written.
SamplesAccounted ==
  LET state == perf.state
      copies == [a \in Address |-> IF BagIn(a, perf.samples) THEN perf.samples[a] ELSE 0]
  IN  /\ perf.whole
      /\ ~Parsing /\ state # "none" => taken = perf.samples (+) Unread (+) dropped
      /\ \A key \in BagToSet(perf.hotspots) :
           perf.hotspots[key] =
             MapThenSumSet(LAMBDA a : copies[a], {b \in Address : RegionForAddr(regions, b) = key})
      /\ state = "available" =>
           /\ EventCount(taken) = EventCount(perf.samples) + perf.lost + lost
           /\ Unread = EmptyBag
=============================================================================
