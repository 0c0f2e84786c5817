----------------------------- MODULE Symbolizer -----------------------------
(***************************************************************************)
(* fd-leak-tracer around its events: the start of a run, and how the call  *)
(* stacks of reported descriptors get their names from the maps of the     *)
(* process and the symbols of its files (fd_leak_tracer.cpp).  The events, *)
(* the ring buffer and the table of descriptors are FdLeakTracer; here     *)
(* every allocation has its own descriptor and none is lost.               *)
(*                                                                         *)
(* An address is a number, as is an offset in a file.  A stack is one      *)
(* address: its frames are treated alike, up to the first zero.            *)
(*                                                                         *)
(* Bounds: MaxAllocs reported calls, MaxRemaps changes of the maps.        *)
(***************************************************************************)
EXTENDS Integers, Sequences, FiniteSets, SequencesExt

CONSTANTS
  TracerLines,  \* the options to try
  Programs,     \* BPF program -> its tracepoint
  Tracepoints,  \* those this kernel has
  Images,       \* what the process may have mapped: sets of maps
  FirstImage,
  ElfFiles,     \* object -> the function symbols of its file
  Stacks,       \* the addresses that calls are made from
  KernelBase,   \* 2^48: addresses from here on are not the program's
  MaxAllocs, MaxRemaps

ASSUME SymbolizerAssumption ==
  /\ FirstImage \in Images
  /\ KernelBase \in Nat /\ Stacks \subseteq Nat
  /\ MaxAllocs \in Nat /\ MaxRemaps \in Nat

VARIABLES
  phase, options,  \* where main is; CliOptions
  loaded, links,   \* the programs loaded and attached
  image, epoch,    \* what is mapped, and how many times the process did exec
  events,          \* the ring buffer
  remaps,
  mapsByPid,       \* maps_by_pid of the process, or NoMaps
  symbolCache,     \* symbol_cache: <<object, offset>> -> symbol
  elfSymbols,      \* elf_symbols: the objects whose file was read
  named            \* open_fds, as the frames of its stacks

symbolVars == <<phase, options, loaded, links, image, epoch, events, remaps, mapsByPid, symbolCache,
                elfSymbols, named>>

NoMaps == [read |-> FALSE]
NoName == "??"

-----------------------------------------------------------------------------
(* Files and maps.                                                         *)

Precedes(a, b) == a.address < b.address \/ (a.address = b.address /\ a.size > b.size)

\* load_elf_symbols: STT_FUNC symbols with an address and a name, sorted.  An object
\* that is no absolute path has none.
LoadElfSymbols(object) ==
  IF object \notin DOMAIN ElfFiles THEN << >>
  ELSE SetToSortSeq({s \in ElfFiles[object] : s.address # 0 /\ s.name # ""}, Precedes)

\* resolve_elf_symbol_at: the last symbol that starts no later; one of size zero
\* covers everything up to the next.
ResolveElfSymbolAt(symbols, address) ==
  LET before == SelectSeq(symbols, LAMBDA s : s.address <= address)
      nearest == before[Len(before)]
  IN  IF before = << >> \/ (nearest.size # 0 /\ address >= nearest.address + nearest.size)
        THEN NoName ELSE nearest.name

\* An address that is none of the object's offsets is tried as it is.
DecorateWithElfSymbols(object, offset, ip) ==
  LET symbols == LoadElfSymbols(object)
      name == ResolveElfSymbolAt(symbols, offset)
  IN  IF name # NoName THEN name ELSE ResolveElfSymbolAt(symbols, ip)

FindMap(maps, ip) == {m \in maps : m.begin <= ip /\ ip < m.end}

-----------------------------------------------------------------------------
(* The start.                                                              *)

\* parse_args, and opening the object.
ParseTracerArgs ==
  /\ phase = "parse"
  /\ IF options.pid <= 0 \/ options.seconds <= 0 \/ options.object = ""
       THEN phase' = "error" /\ UNCHANGED options
       ELSE /\ phase' = "open"
            /\ options' = [options EXCEPT !.verbose = @ /\ ~options.json,
                                          !.addr2line = @ /\ options.symbols]
  /\ UNCHANGED <<loaded, links, image, epoch, events, remaps, mapsByPid, symbolCache, elfSymbols, named>>

\* Programs whose tracepoint is missing are not loaded; if any other does not
\* load, none does.
LoadObject ==
  /\ phase = "open"
  /\ \/ phase' = "error" /\ UNCHANGED loaded
     \/ phase' = "attach" /\ loaded' = {p \in DOMAIN Programs : Programs[p] \in Tracepoints}
  /\ UNCHANGED <<options, links, image, epoch, events, remaps, mapsByPid, symbolCache, elfSymbols, named>>

\* Programs that do not attach are skipped, unless all are.
AttachPrograms ==
  /\ phase = "attach"
  /\ \E attached \in SUBSET loaded :
       IF attached = {} THEN phase' = "error" /\ UNCHANGED links
       ELSE phase' = "poll" /\ links' = attached
  /\ UNCHANGED <<options, loaded, image, epoch, events, remaps, mapsByPid, symbolCache, elfSymbols, named>>

-----------------------------------------------------------------------------
(* The process.                                                            *)

Traces(program) == phase = "poll" /\ program \in links

Reports(event) == events' = Append(events, event)

\* A call that returns a descriptor; user_stack is where it was made.
Allocates(ip) ==
  /\ Traces("sys_exit_openat") /\ Cardinality(named) + Len(events) < MaxAllocs
  /\ FindMap(image, ip) # {} \/ ip >= KernelBase
  /\ Reports([type |-> "open", ip |-> ip, image |-> image, epoch |-> epoch])
  /\ UNCHANGED <<image, epoch, remaps>>

\* dlopen or dlclose.
Remaps ==
  /\ phase = "poll" /\ remaps < MaxRemaps
  /\ image' \in Images /\ image' # image
  /\ remaps' = remaps + 1
  /\ UNCHANGED <<epoch, events>>

Execs ==
  /\ Traces("sys_exit_execve") /\ remaps < MaxRemaps
  /\ image' \in Images
  /\ epoch' = epoch + 1 /\ remaps' = remaps + 1
  /\ Reports([type |-> "exec", epoch |-> epoch'])

TracedProcess ==
  /\ (\E ip \in Stacks : Allocates(ip)) \/ Remaps \/ Execs
  /\ UNCHANGED <<phase, options, loaded, links, mapsByPid, symbolCache, elfSymbols, named>>

-----------------------------------------------------------------------------
(* handle_event.                                                           *)

\* Fault: the key forgets which object the offset is in.
KeyWithoutObject(object, offset) == <<"", offset>>

CacheKey(object, offset) == <<object, offset>>

\* symbolize_ip, in the maps that are cached.  addr2line, where it is used, names the
\* same symbol; outside of every map dladdr asks about the tracer's own address space.
SymbolizeIp(maps, event) ==
  LET m == CHOOSE found \in FindMap(maps.set, event.ip) : TRUE
      offset == event.ip - m.begin + m.offset
      key == CacheKey(m.object, offset)
      name == IF key \in DOMAIN symbolCache THEN symbolCache[key]
              ELSE DecorateWithElfSymbols(m.object, offset, event.ip)
      frame(object, symbol) == [event |-> event, maps |-> maps, object |-> object, symbol |-> symbol]
  IN  IF ~options.symbols \/ FindMap(maps.set, event.ip) = {}
        THEN /\ named' = named \cup {frame("", NoName)}
             /\ UNCHANGED <<symbolCache, elfSymbols>>
        ELSE /\ named' = named \cup {frame(m.object, name)}
             /\ symbolCache' = [k \in DOMAIN symbolCache \cup {key} |->
                                  IF k = key THEN name ELSE symbolCache[k]]
             /\ elfSymbols' = elfSymbols \cup ({m.object} \cap DOMAIN ElfFiles)

\* The maps are read at the first event of the process, and kept.
OpenEvent ==
  /\ Head(events).type = "open"
  /\ LET maps == IF mapsByPid # NoMaps THEN mapsByPid
                 ELSE [read |-> TRUE, set |-> image, epoch |-> epoch]
     IN  /\ mapsByPid' = maps
         /\ IF Head(events).ip >= KernelBase
              THEN UNCHANGED <<named, symbolCache, elfSymbols>>
              ELSE SymbolizeIp(maps, Head(events))

\* Until an exec: the descriptors it closed are gone from /proc, whatever is left keeps
\* its names.
ExecEvent ==
  /\ Head(events).type = "exec"
  /\ mapsByPid' = NoMaps
  /\ \E open \in SUBSET named : named' = open
  /\ UNCHANGED <<symbolCache, elfSymbols>>

HandleEvent ==
  /\ phase = "poll" /\ events # << >>
  /\ OpenEvent \/ ExecEvent
  /\ events' = Tail(events)
  /\ UNCHANGED <<phase, options, loaded, links, image, epoch, remaps>>

\* The deadline or a signal: what is still in the ring buffer is not read.
PrintReport ==
  /\ phase = "poll" /\ phase' = "report"
  /\ UNCHANGED <<options, loaded, links, image, epoch, events, remaps, mapsByPid, symbolCache,
                 elfSymbols, named>>

-----------------------------------------------------------------------------

SymbolInit ==
  /\ phase = "parse" /\ options \in TracerLines
  /\ loaded = {} /\ links = {}
  /\ image = FirstImage /\ epoch = 0 /\ events = << >> /\ remaps = 0
  /\ mapsByPid = NoMaps /\ symbolCache = << >> /\ elfSymbols = {} /\ named = {}

SymbolNext ==
  \/ ParseTracerArgs \/ LoadObject \/ AttachPrograms
  \/ TracedProcess \/ HandleEvent \/ PrintReport

-----------------------------------------------------------------------------

\* The symbols of a file that an address is in.
Covering(object, offset) ==
  IF object \notin DOMAIN ElfFiles THEN {}
  ELSE {s \in ElfFiles[object] : s.address <= offset /\ offset < s.address + s.size}

\* A name in a report is the name of the code that made the call, if the maps the
\* tracer had then were those of the call: caching by object and offset survives
\* exec and other libraries at the same addresses.  Maps are never older than
\* the last exec before the call (handle_event, symbolize_ip); a library that is
\* loaded after the first event may be taken for another.
NamesTrue ==
  \A f \in named :
    /\ f.maps.epoch >= f.event.epoch
    /\ f.maps.set = f.event.image /\ f.object # "" =>
         \E m \in FindMap(f.event.image, f.event.ip) :
           LET covering == Covering(m.object, f.event.ip - m.begin + m.offset)
           IN  /\ f.object = m.object
               /\ covering # {} => f.symbol \in {s.name : s \in covering}
=============================================================================
