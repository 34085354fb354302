---------------------------- MODULE MCKeyspace ----------------------------
(* Finite instances of Keyspace.                                           *)
EXTENDS Keyspace, TLC

CONSTANTS c1, c2, k1, k2, v1, v2

Two == {c1, c2}
Sym == Permutations(Two)

Set(k, v)      == [op |-> "set", k |-> k, arg |-> v]
OnKey(op, k)   == [op |-> op, k |-> k]
Expire(k, s)   == [op |-> "expire", k |-> k, arg |-> s]
OnTwo(op, k, a) == [op |-> op, k |-> k, arg |-> a]
Select(d)      == [op |-> "select", arg |-> d]
Plain(op)      == [op |-> op]

\* All that moves a key, between names and between databases.
DataCommands ==
  {Set(k1, v1), Set(k2, v2), OnKey("get", k1), OnKey("del", k2)}
    \cup {Expire(k1, 0), Expire(k1, 1), OnKey("persist", k1)}
    \cup {OnTwo(op, k1, k2) : op \in {"rename", "renamenx"}}
    \cup {OnTwo("move", k1, 1), Select(0), Select(1)}
    \cup {Plain("flushdb"), Plain("flushall")}

\* What may change a key while another client watches it.
WatchCommands ==
  {Set(k1, v1), OnKey("get", k1), OnKey("del", k1), Expire(k1, 1)}
    \cup {Select(0), Select(1), Plain("flushdb"), Plain("flushall"),
          Plain("unwatch")}
=============================================================================
