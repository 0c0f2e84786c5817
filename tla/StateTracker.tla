---------------------------- MODULE StateTracker ----------------------------
(***************************************************************************)
(* StateTracker of mini-strace (state.cpp): what it believes of the        *)
(* traced command's descriptors.  `fds' is the map fds_, a function from   *)
(* the descriptors that have an entry.  An event is a completed call:      *)
(*   fd    its first descriptor argument                                   *)
(*   on    the descriptors that it created, closed or changed              *)
(*   flag  the close-on-exec flag among its arguments                      *)
(*   arg   its path, or the peer's address, as the decoder prints it       *)
(*   err   "ok", or the errno                                              *)
(* `open' stands for open, openat, openat2 and creat, `dup2' for dup2 and  *)
(* dup3, `pipe' for pipe, pipe2 and socketpair, `accept' for both accepts, *)
(* `write' for every call whose descriptor is only looked up.  The list    *)
(* vmas_ is left out: it is written and never read.                        *)
(***************************************************************************)
EXTENDS Integers, FiniteSets, Sequences, FiniteSetsExt

\* What the tracker says where it does not know a path.
NoPath == "no path"

Context(kind, path, cloexec) ==
  [kind |-> kind, path |-> path, peer |-> NoPath, cloexec |-> cloexec, known |-> TRUE]

NoContext == [Context("none", NoPath, FALSE) EXCEPT !.known = FALSE]

Succeeded(ev) == ev.err = "ok"

Lookup(fds, f) == IF f \in DOMAIN fds THEN fds[f] ELSE NoContext

Forget(fds, S) == [f \in DOMAIN fds \ S |-> fds[f]]

Remember(fds, S, ctx) ==
  [f \in S \cup DOMAIN fds |-> IF f \in S THEN ctx ELSE fds[f]]

\* The descriptor that a call with one new descriptor returned.
NewFd(ev) == CHOOSE f \in ev.on : TRUE

\* Every descriptor that /proc/<pid>/fd lists, with no close-on-exec flag.
SeedFromProc(links) ==
  [f \in DOMAIN links |-> Context(links[f].kind, links[f].path, FALSE)]

OnExec(fds) == Forget(fds, {f \in DOMAIN fds : fds[f].cloexec})

\* With --raw no argument is decoded, the pathname included.
PathOf(ev, raw) == IF raw THEN NoPath ELSE ev.arg

ApplyOpen(fds, ev, raw) ==
  Remember(fds, ev.on, Context("file", PathOf(ev, raw), ev.flag))

\* Fault: the entry of a closed descriptor stays.
CloseIgnored(fds, ev) == fds

ApplyClose(fds, ev) == Forget(fds, {ev.fd})

\* CLOSE_RANGE_CLOEXEC marks the range, else its entries go.
ApplyCloseRange(fds, ev) ==
  IF ev.flag
    THEN [f \in DOMAIN fds |->
            IF f \in ev.on THEN [fds[f] EXCEPT !.cloexec = TRUE] ELSE fds[f]]
    ELSE Forget(fds, ev.on)

\* dup copies the entry whole, its flag included.
ApplyDup(fds, ev) ==
  IF ev.fd \in DOMAIN fds THEN Remember(fds, ev.on, fds[ev.fd]) ELSE fds

\* Fault: the target takes over the flag of its source.
Dup2CopiesFlag(fds, ev) ==
  IF ev.fd \in DOMAIN fds THEN Remember(fds, ev.on, fds[ev.fd]) ELSE fds

ApplyDup2(fds, ev) ==
  IF ev.fd \in DOMAIN fds
    THEN Remember(fds, ev.on, [fds[ev.fd] EXCEPT !.cloexec = ev.flag])
    ELSE fds

\* The type argument, and SOCK_CLOEXEC in it, is not read.
ApplySocket(fds, ev) == Remember(fds, ev.on, Context("socket", "socket", FALSE))

\* Fault: only one end of a pipe gets an entry.
PipeReadEnd(fds, ev) == Remember(fds, {NewFd(ev)}, Context("pipe", "pipe", ev.flag))

ApplyPipe(fds, ev) == Remember(fds, ev.on, Context("pipe", "pipe", ev.flag))

\* connect gives an entry to a descriptor that has none.
ApplyConnect(fds, ev, raw) ==
  LET old == Lookup(fds, ev.fd)
  IN  Remember(fds, {ev.fd},
        [old EXCEPT !.kind = "socket", !.known = TRUE,
                    !.peer = IF raw THEN old.peer ELSE ev.arg])

ApplyAccept(fds, ev, raw) ==
  Remember(fds, ev.on, [Context("socket", "socket", FALSE)
                          EXCEPT !.peer = PathOf(ev, raw)])

\* F_DUPFD and F_DUPFD_CLOEXEC: the copy of an unknown descriptor gets an entry
\* too, named after the number of its source.
ApplyFcntlDup(fds, ev) ==
  LET unknown == [NoContext EXCEPT !.kind = "fd", !.path = "fd"]
      source == IF ev.fd \in DOMAIN fds THEN fds[ev.fd] ELSE unknown
  IN  Remember(fds, ev.on, [source EXCEPT !.cloexec = ev.flag])

ApplySetFd(fds, ev) ==
  IF ev.fd \in DOMAIN fds
    THEN [fds EXCEPT ![ev.fd].cloexec = ev.flag]
    ELSE fds

\* StateTracker::apply.
Applied(fds, ev, raw) ==
  IF ~Succeeded(ev) THEN fds
  ELSE CASE ev.name = "open" -> ApplyOpen(fds, ev, raw)
         [] ev.name = "close" -> ApplyClose(fds, ev)
         [] ev.name = "close_range" -> ApplyCloseRange(fds, ev)
         [] ev.name = "dup" -> ApplyDup(fds, ev)
         [] ev.name = "dup2" -> ApplyDup2(fds, ev)
         [] ev.name = "socket" -> ApplySocket(fds, ev)
         [] ev.name = "pipe" -> ApplyPipe(fds, ev)
         [] ev.name = "connect" -> ApplyConnect(fds, ev, raw)
         [] ev.name = "accept" -> ApplyAccept(fds, ev, raw)
         [] ev.name = "fcntl_dup" -> ApplyFcntlDup(fds, ev)
         [] ev.name = "fcntl_setfd" -> ApplySetFd(fds, ev)
         [] OTHER -> fds

Enriched == {"write", "close", "connect", "accept", "fcntl_dup", "fcntl_setfd", "sendto"}

\* The context that an event is printed with: what enrich_before finds before
\* the call is applied, what apply leaves when it sets one.  For mmap it is the
\* entry that gives the mapping its source.
EventContext(fds, ev, raw) ==
  LET after == Applied(fds, ev, raw)
      sets == Succeeded(ev)
              /\ \/ ev.name \in {"open", "socket", "pipe", "accept", "fcntl_dup"}
                 \/ ev.name \in {"dup", "dup2"} /\ ev.fd \in DOMAIN fds
  IN  IF sets THEN after[NewFd(ev)]
      ELSE IF Succeeded(ev) /\ ev.name \in {"connect", "fcntl_setfd"} THEN Lookup(after, ev.fd)
      ELSE IF ev.name \in Enriched \/ (Succeeded(ev) /\ ev.name = "mmap")
        THEN Lookup(fds, ev.fd)
      ELSE NoContext
=============================================================================
