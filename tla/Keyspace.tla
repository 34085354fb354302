----------------------------- MODULE Keyspace -----------------------------
(***************************************************************************)
(* The key space of the Redis 2.4.7 server: db.c (keys, values, expires),  *)
(* multi.c (MULTI/EXEC/WATCH), the dispatch of commands and the eviction   *)
(* of keys in redis.c, and what all of them send to the slaves and to the  *)
(* AOF.                                                                    *)
(*                                                                         *)
(* Commands run one at a time.  EXEC is a loop over the queued commands,   *)
(* and RANDOMKEY a loop over random picks: each pass is one step, and no   *)
(* other command runs in between.                                          *)
(***************************************************************************)
EXTENDS Integers, Sequences, FiniteSets

CONSTANTS
  Clients, Keys, Vals,
  Dbs,        \* numbers of the databases
  Commands,   \* the commands clients may send, beside those of multi.c
  Watchable,  \* the keys clients may name in WATCH
  None,       \* no value: the key is not in db->dict
  Nobody,     \* no client
  MaxTime,    \* bound: seconds on the clock
  MaxQueue,   \* bound: commands in a MULTI block
  Slave,      \* server.masterhost != NULL
  Policy      \* maxmemory-policy: what freeMemoryIfNeeded() may delete

Command ==
  [op : {"set"}, k : Keys, arg : Vals]
    \cup [op : {"get", "del", "persist"}, k : Keys]
    \cup [op : {"expire"}, k : Keys, arg : Int]
    \cup [op : {"rename", "renamenx"}, k : Keys, arg : Keys]
    \cup [op : {"move"}, k : Keys, arg : Dbs]
    \cup [op : {"select"}, arg : Dbs]
    \cup [op : {"flushdb", "flushall", "unwatch"}]

ASSUME CommandsAssumption == Commands \subseteq Command
ASSUME WatchableAssumption == Watchable \subseteq Keys
ASSUME DbsAssumption == Dbs \subseteq Nat /\ 0 \in Dbs
ASSUME NoneAssumption == None \notin Vals
ASSUME NobodyAssumption == Nobody \notin Clients
ASSUME BoundsAssumption == MaxTime \in Nat /\ MaxQueue \in Nat
ASSUME SlaveAssumption == Slave \in BOOLEAN
ASSUME PolicyAssumption == Policy \in {"noeviction", "volatile", "allkeys"}

VARIABLES
  clock,      \* time(NULL)
  val,        \* db->dict of every database
  exp,        \* db->expires of every database
  cdb,        \* per client, c->db
  multi,      \* clients with REDIS_MULTI
  dirtycas,   \* clients with REDIS_DIRTY_CAS
  queue,      \* per client, c->mstate
  cwatch,     \* per client, c->watched_keys
  dwatch,     \* per database and key, the list in db->watched_keys
  exec,       \* the client whose EXEC is running, or Nobody
  random,     \* the client whose RANDOMKEY is running, or Nobody
  rep,        \* the values a slave that received everything so far has
  rtxn,       \* the values it will have after the block it is receiving
  stale       \* clients one of whose watched keys a command has changed

watching == <<cwatch, dwatch>>
vars == <<clock, val, exp, cdb, multi, dirtycas, queue, watching, exec, random,
          rep, rtxn, stale>>

NoExpire == -1
Slot     == Dbs \X Keys

TypeOK ==
  /\ clock \in Nat
  /\ val \in [Slot -> Vals \cup {None}]
  /\ exp \in [Slot -> Int]
  /\ cdb \in [Clients -> Dbs]
  /\ multi \subseteq Clients /\ dirtycas \subseteq Clients
  /\ queue \in [Clients -> Seq(Commands)]
  /\ cwatch \in [Clients -> SUBSET Slot]
  /\ dwatch \in [Slot -> SUBSET Clients]
  /\ exec \in Clients \cup {Nobody} /\ random \in Clients \cup {Nobody}
  /\ rep \in [Slot -> Vals \cup {None}] /\ rtxn \in [Slot -> Vals \cup {None}]
  /\ stale \subseteq Clients

Init ==
  /\ clock = 0
  /\ val = [p \in Slot |-> None] /\ exp = [p \in Slot |-> NoExpire]
  /\ cdb = [c \in Clients |-> 0]
  /\ multi = {} /\ dirtycas = {} /\ queue = [c \in Clients |-> <<>>]
  /\ cwatch = [c \in Clients |-> {}] /\ dwatch = [p \in Slot |-> {}]
  /\ exec = Nobody /\ random = Nobody
  /\ rep = val /\ rtxn = val
  /\ stale = {}

-----------------------------------------------------------------------------
(* Expires: getExpire(), expireIfNeeded(), dbDelete().                     *)

PastExpire(p) == exp[p] # NoExpire /\ clock > exp[p]

\* dbDelete() of every slot of P; the expires follow the dict.
Without(f, P, empty) == [p \in Slot |-> IF p \in P THEN empty ELSE f[p]]

\* The slots a command looks up, in the order of its code: the second one
\* only if the first one holds a key that has not expired.
Present(p) == val[p] # None /\ (Slave \/ ~PastExpire(p))

Lookups(cmd, d) ==
  CASE cmd.op \in {"set", "get"} -> {<<d, cmd.k>>}
    [] cmd.op \in {"rename", "renamenx"} /\ cmd.k # cmd.arg ->
         {<<d, cmd.k>>} \cup {p \in {<<d, cmd.arg>>} : Present(<<d, cmd.k>>)}
    [] cmd.op = "move" /\ d # cmd.arg ->
         {<<d, cmd.k>>} \cup {p \in {<<cmd.arg, cmd.k>>} : Present(<<d, cmd.k>>)}
    [] OTHER -> {}

\* expireIfNeeded() on them: what a master deletes, and propagates as DELs.
ExpiredBy(cmd, d) == {p \in Lookups(cmd, d) : ~Slave /\ PastExpire(p)}

-----------------------------------------------------------------------------
(* The commands.  v and e are db->dict and db->expires after the lookups.  *)

\* The command passes its checks and increments server.dirty.
Dirties(cmd, d, v, e) ==
  CASE cmd.op \in {"set", "flushall"} -> TRUE
    [] cmd.op \in {"del", "expire"} -> v[<<d, cmd.k>>] # None
    [] cmd.op = "persist" -> v[<<d, cmd.k>>] # None /\ e[<<d, cmd.k>>] # NoExpire
    [] cmd.op = "rename" -> cmd.k # cmd.arg /\ v[<<d, cmd.k>>] # None
    [] cmd.op = "renamenx" -> /\ cmd.k # cmd.arg
                              /\ v[<<d, cmd.k>>] # None /\ v[<<d, cmd.arg>>] = None
    [] cmd.op = "move" -> /\ d # cmd.arg
                          /\ v[<<d, cmd.k>>] # None /\ v[<<cmd.arg, cmd.k>>] = None
    [] cmd.op = "flushdb" -> \E k \in Keys : v[<<d, k>>] # None
    [] OTHER -> FALSE

\* EXPIRE with no time left deletes, except on a slave.
ExpireDeletes(cmd) == cmd.op = "expire" /\ cmd.arg <= 0 /\ ~Slave

InDb(d) == {d} \X Keys

\* db->dict and db->expires after a command that dirties.
NewVal(cmd, d, v) ==
  CASE cmd.op = "set" -> [v EXCEPT ![<<d, cmd.k>>] = cmd.arg]
    [] cmd.op = "del" \/ ExpireDeletes(cmd) -> Without(v, {<<d, cmd.k>>}, None)
    [] cmd.op \in {"rename", "renamenx"} ->
         [v EXCEPT ![<<d, cmd.arg>>] = v[<<d, cmd.k>>], ![<<d, cmd.k>>] = None]
    [] cmd.op = "move" ->
         [v EXCEPT ![<<cmd.arg, cmd.k>>] = v[<<d, cmd.k>>], ![<<d, cmd.k>>] = None]
    [] cmd.op = "flushdb" -> Without(v, InDb(d), None)
    [] cmd.op = "flushall" -> Without(v, Slot, None)
    [] OTHER -> v

NewExp(cmd, d, e) ==
  CASE cmd.op \in {"set", "del", "persist", "move"} \/ ExpireDeletes(cmd) ->
         Without(e, {<<d, cmd.k>>}, NoExpire)
    [] cmd.op = "expire" /\ ~ExpireDeletes(cmd) ->
         [e EXCEPT ![<<d, cmd.k>>] = clock + cmd.arg]
    [] cmd.op \in {"rename", "renamenx"} ->
         [e EXCEPT ![<<d, cmd.arg>>] = e[<<d, cmd.k>>], ![<<d, cmd.k>>] = NoExpire]
    [] cmd.op = "flushdb" -> Without(e, InDb(d), NoExpire)
    [] cmd.op = "flushall" -> Without(e, Slot, NoExpire)
    [] OTHER -> e

\* The slots for which the command calls signalModifiedKey(), or which
\* touchWatchedKeysOnFlush() finds in the dict.  MOVE and PERSIST call none.
Signals(cmd, d, v) ==
  CASE cmd.op \in {"set", "del", "expire"} -> {<<d, cmd.k>>}
    [] cmd.op \in {"rename", "renamenx"} -> {<<d, cmd.k>>, <<d, cmd.arg>>}
    [] cmd.op = "flushdb" -> {p \in InDb(d) : v[p] # None}
    [] cmd.op = "flushall" -> {p \in Slot : v[p] # None}
    [] OTHER -> {}

\* touchWatchedKey() goes through db->watched_keys, touchWatchedKeysOnFlush()
\* through the clients.
Touched(cmd, P) ==
  IF cmd.op \in {"flushdb", "flushall"}
  THEN {c \in Clients : cwatch[c] \cap P # {}}
  ELSE UNION {dwatch[p] : p \in P}

-----------------------------------------------------------------------------
(* Propagation: call(), propagateExpire(), rewriteClientCommandVector().   *)

\* Mutant: the command is sent as the client wrote it.
SentAsWritten(cmd) == cmd

\* EXPIRE that deleted is sent as a DEL.
SentAs(cmd) == IF ExpireDeletes(cmd) THEN [op |-> "del", k |-> cmd.k] ELSE cmd

\* What a command does to the values of a slave: it never expires a key by
\* itself, and EXPIRE only sets an expire there.
OnSlave(cmd, d, r) ==
  IF cmd.op \notin {"expire", "persist"} /\ Dirties(cmd, d, r, exp)
  THEN NewVal(cmd, d, r) ELSE r

-----------------------------------------------------------------------------
(* WATCH.                                                                  *)

\* Mutants: the client remembers the name without the database; the client
\* is left in the lists of the databases.
WatchForName(c, p) ==
  /\ cwatch' = [cwatch EXCEPT ![c] = @ \cup {p[2]}]
  /\ dwatch' = [dwatch EXCEPT ![p] = @ \cup {c}]
UnwatchClientOnly(c) ==
  cwatch' = [cwatch EXCEPT ![c] = {}] /\ UNCHANGED dwatch

\* watchForKey()
WatchForKey(c, p) ==
  /\ cwatch' = [cwatch EXCEPT ![c] = @ \cup {p}]
  /\ dwatch' = [dwatch EXCEPT ![p] = @ \cup {c}]

\* unwatchAllKeys(): the client leaves the list of every key it watches.
UnwatchAllKeys(c) ==
  /\ cwatch' = [cwatch EXCEPT ![c] = {}]
  /\ dwatch' = [p \in Slot |-> IF p \in cwatch[c] THEN dwatch[p] \ {c}
                               ELSE dwatch[p]]

-----------------------------------------------------------------------------
(* Running a command.                                                      *)

\* Clients watching a slot of P.
Watchers(P) == {c \in Clients : cwatch[c] \cap P # {}}

\* The command procedure and call(): everything but when it is propagated.
run(c, cmd) ==
  LET d     == cdb[c]
      gone  == ExpiredBy(cmd, d)
      v     == Without(val, gone, None)
      e     == Without(exp, gone, NoExpire)
      r     == Without(rtxn, gone, None)
      dirty == Dirties(cmd, d, v, e)
      vNew  == IF dirty THEN NewVal(cmd, d, v) ELSE v
      eNew  == IF dirty THEN NewExp(cmd, d, e) ELSE e
      self  == IF cmd.op = "unwatch" THEN {c} ELSE {}
  IN /\ val' = vNew /\ exp' = eNew
     /\ rtxn' = IF dirty THEN OnSlave(SentAs(cmd), d, r) ELSE r
     /\ cdb' = IF cmd.op = "select" THEN [cdb EXCEPT ![c] = cmd.arg] ELSE cdb
     /\ dirtycas' = (IF dirty THEN dirtycas \cup Touched(cmd, Signals(cmd, d, v))
                     ELSE dirtycas) \ self
     /\ IF cmd.op = "unwatch" THEN UnwatchAllKeys(c) ELSE UNCHANGED watching
     /\ stale' = (stale \cup Watchers({p \in Slot : vNew[p] # v[p] \/ eNew[p] # e[p]}))
                   \ self

Idle == exec = Nobody /\ random = Nobody

\* processCommand(): run at once, or queued inside MULTI.
call(c, cmd) ==
  /\ Idle /\ c \notin multi
  /\ run(c, cmd) /\ rep' = rtxn'
  /\ UNCHANGED <<clock, multi, queue, exec, random>>

queueMultiCommand(c, cmd) ==
  /\ Idle /\ c \in multi /\ Len(queue[c]) < MaxQueue
  /\ queue' = [queue EXCEPT ![c] = Append(@, cmd)]
  /\ UNCHANGED <<clock, val, exp, cdb, multi, dirtycas, watching, exec, random,
                 rep, rtxn, stale>>

multiCommand(c) ==
  /\ Idle /\ c \notin multi
  /\ multi' = multi \cup {c}
  /\ UNCHANGED <<clock, val, exp, cdb, dirtycas, queue, watching, exec, random,
                 rep, rtxn, stale>>

\* Mutant: WATCH starts afresh.
watchResetsDirty(c, k) ==
  /\ Idle /\ c \notin multi
  /\ WatchForKey(c, <<cdb[c], k>>)
  /\ dirtycas' = dirtycas \ {c}
  /\ UNCHANGED <<clock, val, exp, cdb, multi, queue, exec, random, rep, rtxn,
                 stale>>

watchCommand(c, k) ==
  /\ Idle /\ c \notin multi
  /\ WatchForKey(c, <<cdb[c], k>>)
  /\ UNCHANGED <<clock, val, exp, cdb, multi, dirtycas, queue, exec, random,
                 rep, rtxn, stale>>

\* The end of a transaction that does not run: DISCARD, or EXEC on a client
\* that is dirty.
ForgetTransaction(c) ==
  /\ queue' = [queue EXCEPT ![c] = <<>>]
  /\ multi' = multi \ {c} /\ dirtycas' = dirtycas \ {c}
  /\ UnwatchAllKeys(c) /\ stale' = stale \ {c}

discardCommand(c) ==
  /\ Idle /\ c \in multi
  /\ ForgetTransaction(c)
  /\ UNCHANGED <<clock, val, exp, cdb, exec, random, rep, rtxn>>

execAborts(c) ==
  /\ Idle /\ c \in multi /\ c \in dirtycas
  /\ ForgetTransaction(c)
  /\ UNCHANGED <<clock, val, exp, cdb, exec, random, rep, rtxn>>

\* execCommand(): MULTI is propagated, then the keys are unwatched ...
execStarts(c) ==
  /\ Idle /\ c \in multi /\ c \notin dirtycas
  /\ exec' = c
  /\ UnwatchAllKeys(c) /\ stale' = stale \ {c}
  /\ UNCHANGED <<clock, val, exp, cdb, multi, dirtycas, queue, random, rep, rtxn>>

\* ... every queued command runs ...
execRuns ==
  /\ exec # Nobody /\ queue[exec] # <<>>
  /\ run(exec, Head(queue[exec]))
  /\ queue' = [queue EXCEPT ![exec] = Tail(@)]
  /\ UNCHANGED <<clock, multi, exec, random, rep>>

\* ... and EXEC itself is propagated: a slave now runs the block.
execEnds ==
  /\ exec # Nobody /\ queue[exec] = <<>>
  /\ multi' = multi \ {exec} /\ dirtycas' = dirtycas \ {exec}
  /\ exec' = Nobody
  /\ rep' = rtxn
  /\ UNCHANGED <<clock, val, exp, cdb, queue, watching, random, rtxn, stale>>

\* freeClient(), and a new connection in its place.
freeClient(c) ==
  /\ Idle
  /\ ForgetTransaction(c)
  /\ cdb' = [cdb EXCEPT ![c] = 0]
  /\ UNCHANGED <<clock, val, exp, exec, random, rep, rtxn>>

\* Mutants: db->expires keeps the key; only a DEL is sent.
ExpireKeyInDict(p) ==
  /\ val' = Without(val, {p}, None) /\ exp' = exp
  /\ rtxn' = Without(rtxn, {p}, None) /\ rep' = rtxn'
ExpireKeyOnSlaves(p) ==
  UNCHANGED <<val, exp>> /\ rtxn' = Without(rtxn, {p}, None) /\ rep' = rtxn'

\* A key is deleted because its time has come, and a DEL is propagated.
ExpireKey(p) ==
  /\ val' = Without(val, {p}, None) /\ exp' = Without(exp, {p}, NoExpire)
  /\ rtxn' = Without(rtxn, {p}, None) /\ rep' = rtxn'

activeExpireCycle(p) ==
  /\ Idle /\ ~Slave /\ PastExpire(p)
  /\ ExpireKey(p)
  /\ UNCHANGED <<clock, cdb, multi, dirtycas, queue, watching, exec, random, stale>>

\* Mutant: the key is deleted as if the dict of values were all there is.
evictFromDict(p) ==
  /\ Idle /\ Policy # "noeviction" /\ val[p] # None
  /\ Policy = "volatile" => exp[p] # NoExpire
  /\ val' = Without(val, {p}, None)
  /\ rtxn' = Without(rtxn, {p}, None) /\ rep' = rtxn'
  /\ UNCHANGED <<clock, exp, cdb, multi, dirtycas, queue, watching, exec, random,
                 stale>>

\* processCommand() finds that too much memory is used, whatever the command,
\* and deletes keys by the policy, on a slave too.  It samples them, so any key
\* may be one.  A DEL is propagated; clients that watch the key are not told.
freeMemoryIfNeeded(p) ==
  /\ Idle /\ Policy # "noeviction" /\ val[p] # None
  /\ Policy = "volatile" => exp[p] # NoExpire
  /\ ExpireKey(p)
  /\ UNCHANGED <<clock, cdb, multi, dirtycas, queue, watching, exec, random, stale>>

randomkeyCommand(c) ==
  /\ Idle /\ c \notin multi
  /\ random' = c
  /\ UNCHANGED <<clock, val, exp, cdb, multi, dirtycas, queue, watching, exec,
                 rep, rtxn, stale>>

\* One pass of the loop of dbRandomKey(): no key at all, a key to return, or
\* an expired one, after which it tries again.
dbRandomKey ==
  /\ random # Nobody
  /\ LET present == {p \in InDb(cdb[random]) : val[p] # None} IN
     \/ /\ present = {} \/ \E p \in present : ~PastExpire(p)
        /\ random' = Nobody
        /\ UNCHANGED <<val, exp, rep, rtxn>>
     \/ \E p \in present :
          /\ PastExpire(p) /\ UNCHANGED random
          /\ IF Slave THEN UNCHANGED <<val, exp, rep, rtxn>> ELSE ExpireKey(p)
  /\ UNCHANGED <<clock, cdb, multi, dirtycas, queue, watching, exec, stale>>

Tick ==
  /\ clock < MaxTime /\ clock' = clock + 1
  /\ UNCHANGED <<val, exp, cdb, multi, dirtycas, queue, watching, exec, random,
                 rep, rtxn, stale>>

ClientNext(c) ==
  \/ \E cmd \in Commands : call(c, cmd) \/ queueMultiCommand(c, cmd)
  \/ multiCommand(c) \/ discardCommand(c) \/ execAborts(c) \/ execStarts(c)
  \/ \E k \in Watchable : watchCommand(c, k)
  \/ randomkeyCommand(c)
  \/ freeClient(c)

Next ==
  \/ \E c \in Clients : ClientNext(c)
  \/ execRuns \/ execEnds \/ dbRandomKey
  \/ \E p \in Slot : activeExpireCycle(p) \/ freeMemoryIfNeeded(p)
  \/ Tick

Spec == Init /\ [][Next]_vars

-----------------------------------------------------------------------------
(* Properties.                                                             *)

\* Every key of db->expires is a key of db->dict: what removeExpire(),
\* setExpire() and getExpire() assert, through RENAME, MOVE, FLUSHDB, lazy
\* and active expiry, inside and outside of transactions.
ExpiresInDict == \A p \in Slot : exp[p] # NoExpire => val[p] # None

\* The lists of clients per key and of keys per client say the same: what
\* unwatchAllKeys() asserts.
WatchListsMirror ==
  \A c \in Clients, p \in Slot : c \in dwatch[p] <=> p \in cwatch[c]

\* Check and set: when a command has changed the value or the expire of a key
\* after a client started to watch it, its EXEC will abort.
ChangedWatchAborts == stale \subseteq dirtycas

\* A slave that has received all that was propagated has the values of the
\* master, whenever no EXEC is running.
SlaveAgrees == exec = Nobody => rep = val

\* RANDOMKEY returns.
RandomKeyReturns == random # Nobody ~> random = Nobody

\* The loop of dbRandomKey() runs in the only thread.
FairSpec == Spec /\ WF_vars(dbRandomKey)
=============================================================================
