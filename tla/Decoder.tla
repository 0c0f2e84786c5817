------------------------------- MODULE Decoder -------------------------------
(***************************************************************************)
(* How mini-strace reads the memory behind the arguments of one call       *)
(* (memory_reader.cpp, decoder.cpp and the decode_*.cpp): execve at its    *)
(* entry stop, every other call at its exit stop, once for the state       *)
(* tracker and once for the output.  Meanwhile the other threads of the    *)
(* process run: they write, unmap and protect what is being read, or end   *)
(* the process.                                                            *)
(*                                                                         *)
(* Memory is a row of units: a unit is a character, a pointer, a length or *)
(* a field, and 0 is NUL and NULL.  A page is "open", "hidden" (mapped     *)
(* without permission) or "none".  Names of flags and numbers that are     *)
(* printed as they are have no text here.  `open' stands for open, openat  *)
(* and creat, `statx' for newfstatat too, `connect' for bind, `accept' for *)
(* accept4, `pipe' for pipe2 and socketpair, `ppoll' for poll.             *)
(*                                                                         *)
(* Bounds: one call; MaxRaces writes and changes of pages by other threads.*)
(***************************************************************************)
EXTENDS Integers, SequencesExt

CONSTANTS
  Top, PageUnits, WordUnits,  \* the units of memory, of a page and of a word
  Fresh,        \* what the kernel stores
  Memories,     \* what the process may have in memory
  NewImage,     \* what it has after an execve
  Calls,        \* its calls: a name and raw_args
  Settings,     \* the options to try: limit (--strings), raw, and shown
  MaxShown,     \* kMaxIovecs, kMaxPollFds and kMaxItems
  PeerUnits, StorageUnits,  \* a whole socket address, and a sockaddr_storage
  StructUnits,  \* an open_how or clone_args
  Races, MaxRaces  \* what other threads do

ASSUME DecoderAssumption ==
  /\ {Top, PageUnits, WordUnits, MaxShown, PeerUnits, StructUnits} \subseteq Nat \ {0}
  /\ PeerUnits <= StorageUnits /\ MaxRaces \in Nat
  /\ Settings \subseteq [limit : Nat, raw : BOOLEAN, shown : BOOLEAN]

VARIABLES
  settings,   \* the string limit, --raw, whether the call passes the filter
  syscall, ret,  \* the call, and what it returned
  at,         \* where it is: see DecoderNext
  memory, alive,
  todo,       \* the reads that are left of this decoding
  reading,    \* the units PTRACE_PEEKDATA has read, if it is used
  text,       \* decoded_args
  told,       \* decoded_args when the state tracker got them
  seen, stored,  \* for the properties: the memory the kernel found, what it stored
  raced, races   \* and the addresses that other threads changed since the entry

tracee == <<memory, alive, seen, stored, raced, races>>
decoding == <<todo, reading, text, told>>
decoderVars == <<settings, syscall, ret, at, tracee, decoding>>

-----------------------------------------------------------------------------
(* Memory.                                                                 *)

Smaller(a, b) == IF a < b THEN a ELSE b
PageOf(a) == (a - 1) \div PageUnits
Readable(m, a) == a \in 1..Top /\ m.page[PageOf(a)] = "open"
Peekable(m, a) == a \in 1..Top /\ m.page[PageOf(a)] # "none"

\* How many of the units from an address can be read without a fault.
Run(m, from, max) ==
  CHOOSE n \in 0..max : /\ \A i \in 0..(n - 1) : Readable(m, from + i)
                        /\ n = max \/ ~Readable(m, from + n)

Units(m, from, n) == [i \in 1..n |-> m.unit[from + i - 1]]
ZeroAt(row) == SelectInSeq(row, LAMBDA unit : unit = 0)
UpToZero(row) == IF ZeroAt(row) = 0 THEN row ELSE SubSeq(row, 1, ZeroAt(row) - 1)

-----------------------------------------------------------------------------
(* What is read for an argument, and what is printed of it.                *)

Read(form, from, len, extra) ==
  [form |-> IF from = 0 /\ form # "peer" THEN "null" ELSE form, from |-> from, len |-> len, extra |-> extra]

AsNumber(raw) == Read(IF raw = 0 THEN "null" ELSE "hex", raw, 0, 0)
String(from) == Read("string", from, 0, 0)
Buffer(from, len) == Read("buffer", from, Smaller(len, settings.limit), 0)
Fixed(from, len) == Read("fixed", from, len, 0)
Struct(from, size) == IF size = 0 THEN AsNumber(from) ELSE Read("struct", from, size, 0)
Entries(from, count) == Read("entries", from, count, 0)
Vector(from) == Read("vector", from, 0, 0)
Sockaddr(from, len) == Read(IF len = 0 THEN "null" ELSE "sockaddr", from, len, 0)
Iovecs(from, count, payload) == Read("iovecs", from, count, IF payload THEN 1 ELSE 0)
Msghdr(from, payload) == Read("msghdr", from, 0, IF payload THEN 1 ELSE 0)

\* The length is read first; `extra' is the address.
Peer(address, lengthAt) ==
  IF address = 0 THEN AsNumber(0) ELSE Read("peer", lengthAt, 0, address)

\* How much read_remote_bytes is asked for.
Wanted(r) ==
  CASE r.form \in {"null", "hex"} -> 0
    [] r.form = "string" -> settings.limit + 1
    [] r.form \in {"buffer", "fixed"} -> r.len
    [] r.form = "struct" -> Smaller(r.len, StructUnits)
    [] r.form = "entries" -> Smaller(r.len, MaxShown)
    [] r.form = "vector" -> MaxShown + 1
    [] r.form = "sockaddr" -> Smaller(r.len, StorageUnits)
    [] r.form = "iovecs" -> 2 * Smaller(r.len, MaxShown)
    [] r.form = "msghdr" -> 4
    [] r.form = "peer" -> 1

Shown(kind, units, dots) == [kind |-> kind, is |-> units, dots |-> dots]

\* At least one character is printed, whatever the limit.
ShownString(data) ==
  LET most == IF settings.limit = 0 THEN 1 ELSE settings.limit
      whole == UpToZero(data)
  IN  Shown("text", SubSeq(whole, 1, Smaller(Len(whole), most)),
            ~(Len(whole) < most /\ ZeroAt(data) # 0))

\* A peer of which too little was read is told by its family.
ShownSockaddr(data) ==
  Shown("text", SubSeq(data, 1, IF Len(data) >= PeerUnits THEN PeerUnits ELSE 1), FALSE)

ShownStruct(r, data) ==
  Shown("text", [i \in 1..Wanted(r) |-> IF i <= Len(data) THEN data[i] ELSE 0], FALSE)

ShownVector(data) ==
  LET items == UpToZero(data)
  IN  Shown("text", SubSeq(items, 1, Smaller(Len(items), MaxShown)), ZeroAt(data) = 0)

Formatted(r, data) ==
  LET nothing == data = <<>> /\ Wanted(r) > 0
      hex == Shown("hex", <<>>, FALSE)
      unreadable == Shown("unreadable", <<>>, FALSE)
  IN  CASE r.form = "null" -> Shown("null", <<>>, FALSE)
        [] r.form = "hex" -> hex
        [] r.form = "string" -> IF nothing THEN unreadable ELSE ShownString(data)
        [] r.form = "buffer" -> IF nothing THEN unreadable ELSE Shown("text", data, Len(data) < r.len)
        [] r.form = "sockaddr" -> IF nothing THEN unreadable ELSE ShownSockaddr(data)
        [] r.form = "struct" -> IF nothing THEN unreadable ELSE ShownStruct(r, data)
        [] r.form = "fixed" -> IF Len(data) < r.len THEN hex ELSE Shown("text", data, FALSE)
        [] r.form = "entries" -> IF nothing THEN hex ELSE Shown("text", data, Len(data) < r.len)
        [] r.form = "vector" -> IF nothing THEN hex ELSE ShownVector(data)
        [] r.form = "iovecs" -> IF nothing \/ Len(data) = 1 THEN hex
                                ELSE Shown("text", SubSeq(data, 1, 2 * (Len(data) \div 2)), Len(data) \div 2 < r.len)
        [] r.form = "msghdr" -> IF Len(data) < 4 THEN hex ELSE Shown("text", data, FALSE)
        [] r.form = "peer" -> IF nothing THEN hex ELSE Shown("text", data, FALSE)

\* What is read next because of what was read.
Further(r, data) ==
  CASE r.form = "vector" /\ data # <<>> ->
         [i \in DOMAIN ShownVector(data).is |-> String(ShownVector(data).is[i])]
    [] r.form = "iovecs" /\ Len(data) > 1 /\ r.extra = 1 /\ data[1] # 0 /\ data[2] > 0 ->
         <<Buffer(data[1], data[2])>>
    [] r.form = "msghdr" /\ Len(data) = 4 ->
         <<Sockaddr(data[1], data[2]), Iovecs(data[3], data[4], r.extra = 1)>>
    [] r.form = "peer" /\ data # <<>> -> <<Sockaddr(r.extra, data[1])>>
    [] OTHER -> <<>>

-----------------------------------------------------------------------------
(* The arguments of each call.                                             *)

\* Fault: the whole buffer is read, however much the call put there.
FilledToCount(from, count, result) == Buffer(from, count)

Filled(from, count, result) == IF result > 0 THEN Buffer(from, result) ELSE AsNumber(from)

PlanFile(raw, result) ==
  [open    |-> <<String(raw[2])>>,
   openat2 |-> <<String(raw[2]), Struct(raw[3], raw[4])>>,
   read    |-> <<Filled(raw[2], raw[3], result)>>,
   write   |-> <<Buffer(raw[2], raw[3])>>,
   pipe    |-> <<IF result = 0 THEN Fixed(raw[1], 2) ELSE AsNumber(raw[1])>>]

\* The address of a peer and its length are read once the call has succeeded.
From(address, lengthAt, result) ==
  IF result >= 0 THEN <<Peer(address, lengthAt), Fixed(lengthAt, 1)>>
  ELSE <<AsNumber(address), AsNumber(lengthAt)>>

PlanNet(raw, result) ==
  [connect    |-> <<Sockaddr(raw[2], raw[3])>>,
   accept     |-> From(raw[2], raw[3], result),
   sendto     |-> <<Buffer(raw[2], raw[3]), Sockaddr(raw[5], raw[6])>>,
   recvfrom   |-> <<Filled(raw[2], raw[3], result)>> \o From(raw[5], raw[6], result),
   sendmsg    |-> <<Msghdr(raw[2], TRUE)>>,
   recvmsg    |-> <<Msghdr(raw[2], result > 0)>>,
   setsockopt |-> <<IF raw[5] > 0 THEN Fixed(raw[4], 1) ELSE AsNumber(raw[4])>>]

PlanProcess(raw, result) ==
  [execve    |-> <<String(raw[1]), Vector(raw[2])>>,
   clone3    |-> <<Struct(raw[1], raw[2])>>,
   wait4     |-> <<IF result > 0 THEN Fixed(raw[2], 1) ELSE AsNumber(raw[2])>>,
   prlimit64 |-> <<Fixed(raw[3], 2), IF result >= 0 THEN Fixed(raw[4], 2) ELSE AsNumber(raw[4])>>,
   statx     |-> <<String(raw[2])>>]

PlanPoll(raw) ==
  [ppoll     |-> <<Entries(raw[1], raw[2]), Fixed(raw[3], 1)>>,
   epoll_ctl |-> <<Fixed(raw[4], 1)>>]

\* decode_event asks one file after the other.
Plan(c, result) ==
  (PlanFile(c.args, result) @@ PlanNet(c.args, result)
     @@ PlanProcess(c.args, result) @@ PlanPoll(c.args))[c.name]

\* decode_event_for_state, predecode_entry_event and decode_event.
NeedsState == {"open", "openat2", "connect", "accept"}

\* Fault: an execve is decoded at its exit like every other call.
NothingPredecoded == FALSE

Predecoded == syscall.name = "execve" /\ ~settings.raw

Decode(c, result) == todo' = Plan(c, result) /\ text' = <<>> /\ UNCHANGED reading
NoDecode == UNCHANGED <<todo, reading, text>>

-----------------------------------------------------------------------------
(* read_remote_bytes.                                                      *)

Decoding == at \in {"entry", "exit", "print"}
Finish(r, data) ==
  /\ text' = Append(text, [of |-> r] @@ Formatted(r, data))
  /\ todo' = Further(r, data) \o Tail(todo)
  /\ reading' = <<>>

\* process_vm_readv reads up to the first page it cannot read.
VmReadv ==
  /\ Decoding /\ todo # <<>> /\ reading = <<>>
  /\ LET r == Head(todo)
         n == Run(memory, r.from, Wanted(r))
     IN  IF n > 0 \/ Wanted(r) = 0
           THEN Finish(r, Units(memory, r.from, n))
           ELSE reading' = << <<>> >> /\ UNCHANGED <<todo, text>>
  /\ UNCHANGED <<settings, syscall, ret, at, tracee, told>>

\* If it could read nothing, PTRACE_PEEKDATA is tried word by word, which looks
\* into pages without permission too.
PeekData ==
  /\ Decoding /\ reading # <<>>
  /\ LET r == Head(todo)
         data == reading[1]
         left == Wanted(r) - Len(data)
         next == r.from + Len(data)
     IN  IF left > 0 /\ r.from > 0 /\ \A a \in next..(next + WordUnits - 1) : Peekable(memory, a)
           THEN reading' = <<data \o Units(memory, next, Smaller(WordUnits, left))>>
                /\ UNCHANGED <<todo, text>>
           ELSE Finish(r, data)
  /\ UNCHANGED <<settings, syscall, ret, at, tracee, told>>

Decoded == todo = <<>> /\ reading = <<>>

-----------------------------------------------------------------------------
(* The stops of the call.                                                  *)

\* begin_syscall: the entry stop ends, and the tracee goes on if it still lives.
Resume ==
  /\ at = "entry" /\ Decoded
  /\ at' = IF alive THEN "kernel" ELSE "gone"
  /\ UNCHANGED <<settings, syscall, ret, tracee, decoding>>

\* What the kernel loads, and what it may store; a ppoll stores the time left.
Terminated(m, from) == \E n \in 0..Top : Run(m, from, n + 1) = n + 1 /\ m.unit[from + n] = 0
Loads(m, r) ==
  \/ r.form \in {"null", "hex"}
  \/ r.form \in {"string", "vector"} /\ Terminated(m, r.from)
  \/ r.form \notin {"null", "hex", "string", "vector"} /\ Run(m, r.from, Wanted(r)) = Wanted(r)

Stores(from, n) == [a \in IF from = 0 THEN {} ELSE from..(from + n - 1) |-> Fresh]

\* A peer's address is stored as far as it fits, its length always.
StoresPeer(m, from, lengthAt) ==
  IF from = 0 \/ ~Readable(m, lengthAt) THEN <<>>
  ELSE Stores(from, Smaller(m.unit[lengthAt], PeerUnits)) @@ (lengthAt :> PeerUnits)

Effects(m) ==
  LET raw == syscall.args
      iov == m.unit[raw[2] + 2]
      nothing == {<<0, <<>>>>}
  IN  CASE syscall.name \in {"read", "recvfrom"} ->
             {<<n, Stores(raw[2], n) @@ StoresPeer(m, raw[5], raw[6])>> : n \in 0..raw[3]}
        [] syscall.name = "accept" -> {<<0, StoresPeer(m, raw[2], raw[3])>>}
        [] syscall.name = "recvmsg" -> IF iov \notin 1..(Top - 1) THEN nothing
                                    ELSE {<<n, Stores(m.unit[iov], n)>> : n \in 0..m.unit[iov + 1]}
        [] syscall.name = "ppoll" -> {<<n, Stores(raw[1], n) @@ Stores(raw[3], 1)>> : n \in 0..1}
        [] syscall.name = "wait4" -> nothing \cup {<<1, Stores(raw[2], 1)>>}
        [] syscall.name = "prlimit64" -> {<<0, Stores(raw[4], 2)>>}
        [] syscall.name = "pipe" -> {<<0, Stores(raw[1], 2)>>}
        [] OTHER -> nothing

Outcomes(m) ==
  {<<-1, <<>>>>}
    \cup {e \in (IF \A r \in ToSet(Plan(syscall, -1)) : Loads(m, r) THEN Effects(m) ELSE {}) :
            \A a \in DOMAIN e[2] : Readable(m, a)}

ExecuteCall ==
  /\ at = "kernel" /\ at' = "exit"
  /\ \E outcome \in Outcomes(memory) :
       /\ ret' = outcome[1]
       /\ stored' = outcome[2]
       /\ memory' = IF syscall.name = "execve" /\ outcome[1] = 0 THEN NewImage
                    ELSE [memory EXCEPT !.unit = outcome[2] @@ @]
       /\ IF ~settings.raw /\ syscall.name \in NeedsState THEN Decode(syscall, outcome[1]) ELSE NoDecode
  /\ seen' = memory
  /\ UNCHANGED <<settings, syscall, alive, raced, races, told>>

\* emit_event: the state tracker has its arguments; those of the output are read anew.
Told ==
  /\ at = "exit" /\ Decoded
  /\ told' = text
  /\ at' = IF settings.shown THEN "print" ELSE "dropped"
  /\ IF ~settings.shown \/ settings.raw \/ Predecoded THEN NoDecode ELSE Decode(syscall, ret)
  /\ UNCHANGED <<settings, syscall, ret, tracee>>

PrintEvent ==
  /\ at = "print" /\ Decoded
  /\ at' = "reported"
  /\ UNCHANGED <<settings, syscall, ret, tracee, decoding>>

-----------------------------------------------------------------------------
(* The other threads.                                                      *)

Over == at \in {"reported", "dropped", "gone"}

Race ==
  /\ ~Over /\ alive /\ races < MaxRaces
  /\ ~(syscall.name = "execve" /\ at # "entry" /\ ret = 0)  \* an execve ends them
  /\ \E x \in Races :
       /\ memory' = [unit |-> x.unit @@ memory.unit, page |-> x.page @@ memory.page]
       /\ raced' = raced \cup DOMAIN x.unit \cup {a \in 1..Top : PageOf(a) \in DOMAIN x.page}
  /\ races' = races + 1
  /\ UNCHANGED <<settings, syscall, ret, at, alive, seen, stored, decoding>>

\* The process is killed while mini-strace reads.
Kill ==
  /\ Decoding /\ alive
  /\ alive' = FALSE
  /\ memory' = [memory EXCEPT !.page = [p \in DOMAIN @ |-> "none"]]
  /\ raced' = 1..Top
  /\ UNCHANGED <<settings, syscall, ret, at, seen, stored, races, decoding>>

-----------------------------------------------------------------------------

DecoderInit ==
  /\ settings \in Settings
  /\ syscall \in Calls /\ ret = -1
  /\ at = "entry"
  /\ memory \in Memories /\ alive = TRUE
  /\ todo = IF Predecoded THEN Plan(syscall, -1) ELSE <<>>
  /\ reading = <<>> /\ text = <<>> /\ told = <<>>
  /\ seen = memory /\ stored = <<>> /\ raced = {} /\ races = 0

DecoderNext ==
  VmReadv \/ PeekData \/ Resume \/ ExecuteCall \/ Told \/ PrintEvent \/ Race \/ Kill

-----------------------------------------------------------------------------
(* Properties.                                                             *)

Span(r) == r.from..(r.from + Wanted(r) - 1)
Printed == at = "reported" /\ ~settings.raw

\* What is printed of an argument that no other thread touched during the call is
\* what the kernel found there, though it is read at another time, and for an
\* execve in an address space that is gone at its exit: a prefix of it, the whole
\* string where no dots follow it, and something at all wherever the kernel could
\* read.  An argument is never missing, and the path that the state tracker was
\* given is the one that is printed (memory_reader.cpp, emit_event).
InputsTrue ==
  Printed =>
    /\ ToSet(Plan(syscall, ret)) \subseteq {t.of : t \in ToSet(text)}
    /\ syscall.name \in NeedsState /\ raced = {} => told = text
    /\ \A t \in ToSet(text) :
         LET r == t.of
         IN  Span(r) \cap (raced \cup DOMAIN stored) = {} =>
               /\ \A i \in DOMAIN t.is :
                    \/ t.is[i] = seen.unit[r.from + i - 1]
                    \/ r.form = "struct" /\ ~Readable(seen, r.from + i - 1) /\ t.is[i] = 0
               /\ r.form = "string" /\ t.kind = "text" /\ ~t.dots =>
                    t.is = UpToZero(Units(seen, r.from, Len(t.is) + 1))
               /\ Readable(seen, r.from) /\ Run(seen, r.from, Wanted(r)) = Wanted(r) /\ Wanted(r) > 0 =>
                    t.kind = "text"
               /\ Readable(seen, r.from) /\ r.form \in {"string", "buffer"} /\ Wanted(r) > 0 =>
                    t.kind = "text"

\* What is printed as the result of a call was stored by that call, nothing that
\* was there before: not more than it returned, and nothing if it failed.  A peer
\* that did not fit is excepted (its length is that of the whole address), and the
\* length where no address was asked for, which is printed though not stored.  Of a
\* recvmsg the first buffer is printed in full: it begins with what was received.
IsOutput(t) ==
  \/ syscall.name \in {"read", "wait4", "pipe"}
  \/ syscall.name = "prlimit64" /\ t.of.from = syscall.args[4]
  \/ syscall.name = "accept" /\ syscall.args[2] # 0
  \/ syscall.name = "recvfrom" /\ (t.of.form = "buffer" \/ syscall.args[5] # 0)

Fits(t) ==
  t.of.form = "sockaddr" =>
    LET lengthAt == syscall.args[IF syscall.name = "accept" THEN 3 ELSE 6]
    IN  seen.unit[lengthAt] >= PeerUnits /\ lengthAt \notin raced

FirstReceived(t) ==
  /\ syscall.name = "recvmsg" /\ t.of.form = "buffer"
  /\ t.of.from = seen.unit[seen.unit[syscall.args[2] + 2]]

OutputsTrue ==
  Printed =>
    \A t \in ToSet(text) :
      LET stays == {i \in DOMAIN t.is : t.of.from + i - 1 \notin raced}
          storedAt(i) == t.of.from + i - 1 \in DOMAIN stored /\ t.is[i] = stored[t.of.from + i - 1]
      IN  /\ IsOutput(t) /\ Fits(t) => \A i \in stays : storedAt(i)
          /\ FirstReceived(t) => \A i \in stays : i <= ret => storedAt(i)
=============================================================================
