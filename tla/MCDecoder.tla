------------------------------ MODULE MCDecoder ------------------------------
(* Three pages of four units, with strings and structures that end at, or    *)
(* run over, the end of a page.                                              *)
EXTENDS Decoder

Pages(first, second) == (0 :> first) @@ (1 :> second) @@ (2 :> "open")
SomePages == {Pages("open", "open"), Pages("hidden", "open"), Pages("open", "none"), Pages("open", "hidden")}

\* Strings at 1 and 4, a vector or an iovec at 7, a msghdr at 9.
SomeUnits == {<<7, 7, 0, 6, 6, 0, 1, 0, 3, 2, 7, 1>>, <<7, 7, 0, 6, 6, 0, 1, 2, 3, 2, 7, 1>>}
SomeMemories == [unit : SomeUnits, page : SomePages]
SomeImage == [unit |-> <<5, 5, 5, 0, 5, 0, 5, 0, 5, 5, 5, 5>>, page |-> Pages("open", "open")]

Called(name, args) == [name |-> name, args |-> args]
SomeCalls ==
  {Called("open", <<0, path, 0, 0, 0, 0>>) : path \in {0, 1, 4}}
  \cup {Called("openat2", <<0, 1, how, size, 0, 0>>) : how \in {4, 11}, size \in {0, 2}}
  \cup {Called("statx", <<0, 4, 0, 0, 0, 0>>)}
  \cup {Called("execve", <<path, 7, 0, 0, 0, 0>>) : path \in {1, 4}}
  \cup {Called(name, <<0, buf, 3, 0, 0, 0>>) : name \in {"read", "write"}, buf \in {1, 3}}
  \cup {Called("sendto", <<0, 1, 2, 0, 4, len>>) : len \in {0, 2}}
  \cup {Called("recvfrom", <<0, 1, 1, 0, 3, len>>) : len \in {0, 10, 12}}
  \cup {Called("connect", <<0, 4, len, 0, 0, 0>>) : len \in {1, 2, 3}}
  \cup {Called("accept", <<0, addr, len, 0, 0, 0>>) : addr \in {0, 1}, len \in {10, 12}}
  \cup {Called(name, <<0, 9, 0, 0, 0, 0>>) : name \in {"sendmsg", "recvmsg"}}
  \cup {Called("setsockopt", <<0, 0, 0, 4, len, 0>>) : len \in {0, 1}}
  \cup {Called("ppoll", <<fds, 3, 12, 0, 0, 0>>) : fds \in {1, 4}}
  \cup {Called("epoll_ctl", <<0, 0, 0, 4, 0, 0>>)}
  \cup {Called("clone3", <<4, size, 0, 0, 0, 0>>) : size \in {1, 3}}
  \cup {Called("wait4", <<0, status, 0, 0, 0, 0>>) : status \in {0, 1}}
  \cup {Called("prlimit64", <<0, 0, new, 5, 0, 0>>) : new \in {0, 1}}
  \cup {Called("pipe", <<fds, 0, 0, 0, 0, 0>>) : fds \in {1, 4}}

Setting(limit, raw, shown) == [limit |-> limit, raw |-> raw, shown |-> shown]
SomeSettings ==
  {Setting(0, FALSE, TRUE), Setting(2, FALSE, TRUE), Setting(2, FALSE, FALSE), Setting(2, TRUE, TRUE)}

Raced(unit, page) == [unit |-> unit, page |-> page]
SomeRaces ==
  {Raced(1 :> 8, <<>>), Raced(4 :> 0, <<>>), Raced(7 :> 4, <<>>), Raced(10 :> 1, <<>>),
   Raced(<<>>, 1 :> "none"), Raced(<<>>, 0 :> "hidden"), Raced(<<>>, 0 :> "open")}
=============================================================================
