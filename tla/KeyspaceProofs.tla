-------------------------- MODULE KeyspaceProofs --------------------------
(***************************************************************************)
(* Proofs about Keyspace, for every set of clients, keys, databases and    *)
(* commands, on a master.                                                  *)
(***************************************************************************)
EXTENDS Keyspace, TLAPS

\* What run() needs to know of the command it is given.
CmdOK(cmd) ==
  /\ cmd.op \in {"set", "get", "del", "persist", "expire", "rename",
                 "renamenx", "move", "select", "flushdb", "flushall",
                 "unwatch"}
  /\ cmd.op \in {"set", "get", "del", "persist", "expire", "rename",
                 "renamenx", "move"} => cmd.k \in Keys
  /\ cmd.op = "set" => cmd.arg \in Vals
  /\ cmd.op = "expire" => cmd.arg \in Int
  /\ cmd.op \in {"rename", "renamenx"} => cmd.arg \in Keys
  /\ cmd.op \in {"move", "select"} => cmd.arg \in Dbs

\* Every command a client may send is well formed.
LEMMA CommandsAreOK == \A cmd \in Commands : CmdOK(cmd)
  BY CommandsAssumption DEF Command, CmdOK

\* Deleting keys keeps the type of a dict.
LEMMA WithoutType ==
  ASSUME NEW S, NEW f \in [Slot -> S], NEW P, NEW empty \in S
  PROVE  Without(f, P, empty) \in [Slot -> S]
  BY DEF Without

\* A command turns a dict into a dict.
LEMMA NewValType ==
  ASSUME NEW cmd, CmdOK(cmd), NEW d \in Dbs,
         NEW v \in [Slot -> Vals \cup {None}]
  PROVE  NewVal(cmd, d, v) \in [Slot -> Vals \cup {None}]
  BY DEF NewVal, CmdOK, Without, Slot, ExpireDeletes, InDb

\* ... and the expires into expires.
LEMMA NewExpType ==
  ASSUME NEW cmd, CmdOK(cmd), NEW d \in Dbs, clock \in Nat,
         NEW e \in [Slot -> Int]
  PROVE  NewExp(cmd, d, e) \in [Slot -> Int]
  BY DEF NewExp, CmdOK, Without, Slot, ExpireDeletes, InDb, NoExpire

\* Leaving the lists of all its keys keeps the types.
LEMMA UnwatchType ==
  ASSUME TypeOK, NEW c \in Clients, UnwatchAllKeys(c)
  PROVE  /\ cwatch' \in [Clients -> SUBSET Slot]
         /\ dwatch' \in [Slot -> SUBSET Clients]
  BY DEF TypeOK, UnwatchAllKeys

LEMMA NoExpireType == NoExpire \in Int
  BY DEF NoExpire

\* Running a command keeps every variable it changes in its type.
LEMMA RunType ==
  ASSUME TypeOK, NEW c \in Clients, NEW cmd, CmdOK(cmd), run(c, cmd)
  PROVE  /\ val' \in [Slot -> Vals \cup {None}]
         /\ exp' \in [Slot -> Int]
         /\ rtxn' \in [Slot -> Vals \cup {None}]
         /\ cdb' \in [Clients -> Dbs]
         /\ dirtycas' \subseteq Clients /\ stale' \subseteq Clients
         /\ cwatch' \in [Clients -> SUBSET Slot]
         /\ dwatch' \in [Slot -> SUBSET Clients]
<1> DEFINE d    == cdb[c]
           gone == ExpiredBy(cmd, d)
           v    == Without(val, gone, None)
           e    == Without(exp, gone, NoExpire)
           r    == Without(rtxn, gone, None)
<1>1. d \in Dbs
  BY DEF TypeOK
<1>2. v \in [Slot -> Vals \cup {None}] /\ r \in [Slot -> Vals \cup {None}]
  BY WithoutType DEF TypeOK
<1>3. e \in [Slot -> Int]
  BY WithoutType, NoExpireType DEF TypeOK
<1>4. CmdOK(SentAs(cmd))
  BY DEF SentAs, CmdOK, ExpireDeletes
<1>5. val' \in [Slot -> Vals \cup {None}]
  BY <1>1, <1>2, NewValType DEF run
<1>6. exp' \in [Slot -> Int]
  BY <1>1, <1>3, NewExpType DEF run, TypeOK
<1>7. rtxn' \in [Slot -> Vals \cup {None}]
  <2>1. OnSlave(SentAs(cmd), d, r) \in [Slot -> Vals \cup {None}]
    BY <1>1, <1>2, <1>4, NewValType DEF OnSlave
  <2> QED BY <1>2, <2>1 DEF run
<1>8. cdb' \in [Clients -> Dbs]
  BY DEF run, CmdOK, TypeOK
<1>9. dirtycas' \subseteq Clients /\ stale' \subseteq Clients
  <2>1. \A P : P \subseteq Slot => Touched(cmd, P) \subseteq Clients
    BY DEF Touched, TypeOK
  <2>2. Signals(cmd, d, v) \subseteq Slot
    BY <1>1 DEF Signals, CmdOK, Slot, InDb
  <2>3. \A P : Watchers(P) \subseteq Clients
    BY DEF Watchers
  <2> QED BY <2>1, <2>2, <2>3 DEF run, TypeOK
<1>10. cwatch' \in [Clients -> SUBSET Slot] /\ dwatch' \in [Slot -> SUBSET Clients]
  <2>1. UnwatchAllKeys(c) \/ UNCHANGED <<cwatch, dwatch>>
    BY DEF run, watching
  <2> QED BY <2>1, UnwatchType DEF TypeOK
<1> QED BY <1>5, <1>6, <1>7, <1>8, <1>9, <1>10

\* So does the expiry of a key.
LEMMA ExpireKeyType ==
  ASSUME TypeOK, NEW p \in Slot, ExpireKey(p)
  PROVE  /\ val' \in [Slot -> Vals \cup {None}]
         /\ exp' \in [Slot -> Int]
         /\ rtxn' \in [Slot -> Vals \cup {None}]
         /\ rep' \in [Slot -> Vals \cup {None}]
  BY WithoutType, NoExpireType DEF TypeOK, ExpireKey

\* No step takes a variable out of its type.
LEMMA TypeStep == TypeOK /\ [Next]_vars => TypeOK'
<1> SUFFICES ASSUME TypeOK, [Next]_vars PROVE TypeOK'
  OBVIOUS
<1>1. ASSUME NEW c \in Clients, NEW cmd \in Commands, call(c, cmd)
      PROVE  TypeOK'
  <2>1. CmdOK(cmd) /\ run(c, cmd)
    BY <1>1, CommandsAreOK DEF call
  <2> QED BY <1>1, <2>1, RunType DEF call, TypeOK
<1>2. ASSUME NEW c \in Clients, NEW cmd \in Commands, queueMultiCommand(c, cmd)
      PROVE  TypeOK'
  BY <1>2 DEF queueMultiCommand, TypeOK, watching
<1>3. ASSUME NEW c \in Clients, multiCommand(c) PROVE TypeOK'
  BY <1>3 DEF multiCommand, TypeOK, watching
<1>4. ASSUME NEW c \in Clients, NEW k \in Keys, watchCommand(c, k)
      PROVE  TypeOK'
  <2>1. <<cdb[c], k>> \in Slot
    BY DEF TypeOK, Slot
  <2> QED BY <1>4, <2>1 DEF watchCommand, WatchForKey, TypeOK
<1>5. ASSUME NEW c \in Clients, discardCommand(c) \/ execAborts(c)
      PROVE  TypeOK'
  <2>1. ForgetTransaction(c) /\ UNCHANGED <<clock, val, exp, cdb, exec, random, rep, rtxn>>
    BY <1>5 DEF discardCommand, execAborts
  <2> QED BY <2>1, UnwatchType DEF ForgetTransaction, TypeOK
<1>6. ASSUME NEW c \in Clients, execStarts(c) PROVE TypeOK'
  BY <1>6, UnwatchType DEF execStarts, TypeOK
<1>7. CASE execRuns
  <2>1. exec \in Clients /\ queue[exec] \in Seq(Commands) /\ queue[exec] # <<>>
    BY <1>7, NobodyAssumption DEF execRuns, TypeOK
  <2>2. Head(queue[exec]) \in Commands /\ Tail(queue[exec]) \in Seq(Commands)
    BY <2>1
  <2>3. CmdOK(Head(queue[exec])) /\ run(exec, Head(queue[exec]))
    BY <1>7, <2>2, CommandsAreOK DEF execRuns
  <2> QED BY <1>7, <2>1, <2>2, <2>3, RunType DEF execRuns, TypeOK
<1>8. CASE execEnds
  BY <1>8 DEF execEnds, TypeOK, watching
<1>9. ASSUME NEW c \in Clients, freeClient(c) PROVE TypeOK'
  BY <1>9, UnwatchType, DbsAssumption DEF freeClient, ForgetTransaction, TypeOK
<1>10. ASSUME NEW p \in Slot, activeExpireCycle(p) \/ freeMemoryIfNeeded(p)
       PROVE  TypeOK'
  BY <1>10, ExpireKeyType DEF activeExpireCycle, freeMemoryIfNeeded, TypeOK, watching
<1>11. ASSUME NEW c \in Clients, randomkeyCommand(c) PROVE TypeOK'
  BY <1>11 DEF randomkeyCommand, TypeOK, watching
<1>12. CASE dbRandomKey
  <2>1. UNCHANGED <<val, exp, rep, rtxn>> \/ \E p \in Slot : ExpireKey(p)
    <3>1. random \in Clients /\ InDb(cdb[random]) \subseteq Slot
      BY <1>12 DEF dbRandomKey, TypeOK, InDb, Slot
    <3> QED BY <1>12, <3>1 DEF dbRandomKey
  <2>2. random' \in {random, Nobody}
    BY <1>12 DEF dbRandomKey
  <2> QED BY <1>12, <2>1, <2>2, ExpireKeyType DEF dbRandomKey, TypeOK, watching
<1>13. CASE Tick
  BY <1>13 DEF Tick, TypeOK, watching
<1>14. CASE UNCHANGED vars
  BY <1>14 DEF vars, watching, TypeOK
<1> QED
  BY <1>1, <1>2, <1>3, <1>4, <1>5, <1>6, <1>7, <1>8, <1>9, <1>10, <1>11,
     <1>12, <1>13, <1>14, WatchableAssumption DEF Next, ClientNext

\* Every variable keeps its type: the state of db.c and multi.c is well
\* formed after any sequence of commands, transactions and expiries.
THEOREM TypeCorrect == Spec => []TypeOK
<1>1. Init => TypeOK
  BY DbsAssumption DEF Init, TypeOK, NoExpire
<1> QED BY <1>1, TypeStep, PTL DEF Spec

-----------------------------------------------------------------------------
(* What a command does to the dict and to the expires.                     *)

\* A command that dirties leaves no expire without its key.
LEMMA NewExpInDict ==
  ASSUME NEW cmd, CmdOK(cmd), NEW d \in Dbs,
         NEW v \in [Slot -> Vals \cup {None}], NEW e \in [Slot -> Int],
         \A p \in Slot : e[p] # NoExpire => v[p] # None,
         Dirties(cmd, d, v, e), NEW p \in Slot,
         NewExp(cmd, d, e)[p] # NoExpire
  PROVE  NewVal(cmd, d, v)[p] # None
<1>1. CASE cmd.op \in {"set", "del", "persist"}
  BY <1>1, NoneAssumption DEF NewVal, NewExp, Dirties, Without, ExpireDeletes, CmdOK, Slot
<1>2. CASE cmd.op = "expire"
  BY <1>2 DEF NewVal, NewExp, Dirties, Without, ExpireDeletes, CmdOK, Slot
<1>3. CASE cmd.op \in {"rename", "renamenx"}
  BY <1>3 DEF NewVal, NewExp, Dirties, Without, ExpireDeletes, CmdOK, Slot
<1>4. CASE cmd.op = "move"
  BY <1>4 DEF NewVal, NewExp, Dirties, Without, ExpireDeletes, CmdOK, Slot
<1>5. CASE cmd.op \in {"flushdb", "flushall"}
  BY <1>5 DEF NewVal, NewExp, Dirties, Without, ExpireDeletes, CmdOK, Slot, InDb
<1>6. CASE cmd.op \in {"get", "select", "unwatch"}
  BY <1>6 DEF Dirties
<1> QED BY <1>1, <1>2, <1>3, <1>4, <1>5, <1>6 DEF CmdOK

\* What is sent for a command has on a slave with the same values the effect
\* the command had on the master.
LEMMA OnSlaveAgrees ==
  ASSUME NEW cmd, CmdOK(cmd), NEW d \in Dbs,
         NEW v \in [Slot -> Vals \cup {None}], NEW e \in [Slot -> Int],
         Dirties(cmd, d, v, e)
  PROVE  OnSlave(SentAs(cmd), d, v) = NewVal(cmd, d, v)
<1>1. CASE cmd.op = "expire" /\ ExpireDeletes(cmd)
  BY <1>1 DEF OnSlave, SentAs, NewVal, Dirties, ExpireDeletes
<1>2. CASE cmd.op = "expire" /\ ~ExpireDeletes(cmd)
  BY <1>2 DEF OnSlave, SentAs, NewVal
<1>3. CASE cmd.op = "persist"
  BY <1>3 DEF OnSlave, SentAs, NewVal, ExpireDeletes
<1>4. CASE cmd.op \notin {"expire", "persist"}
  <2>1. SentAs(cmd) = cmd
    BY <1>4 DEF SentAs, ExpireDeletes
  <2>2. Dirties(cmd, d, v, exp)
    BY <1>4 DEF Dirties, CmdOK
  <2> QED BY <1>4, <2>1, <2>2 DEF OnSlave
<1> QED BY <1>1, <1>2, <1>3, <1>4

\* Every slot a command changes is one it signals, but for MOVE and PERSIST.
LEMMA ChangedAreSignalled ==
  ASSUME NEW cmd, CmdOK(cmd), cmd.op \notin {"move", "persist"},
         NEW d \in Dbs,
         NEW v \in [Slot -> Vals \cup {None}], NEW e \in [Slot -> Int],
         \A p \in Slot : e[p] # NoExpire => v[p] # None,
         Dirties(cmd, d, v, e), NEW p \in Slot,
         NewVal(cmd, d, v)[p] # v[p] \/ NewExp(cmd, d, e)[p] # e[p]
  PROVE  p \in Signals(cmd, d, v)
<1>1. CASE cmd.op \in {"set", "del", "expire"}
  BY <1>1 DEF NewVal, NewExp, Signals, Without, ExpireDeletes, CmdOK, Slot
<1>2. CASE cmd.op \in {"rename", "renamenx"}
  BY <1>2 DEF NewVal, NewExp, Signals, Without, ExpireDeletes, CmdOK, Slot
<1>3. CASE cmd.op \in {"flushdb", "flushall"}
  BY <1>3 DEF NewVal, NewExp, Signals, Without, ExpireDeletes, CmdOK, Slot, InDb
<1>4. CASE cmd.op \in {"get", "select", "unwatch"}
  BY <1>4 DEF Dirties
<1> QED BY <1>1, <1>2, <1>3, <1>4 DEF CmdOK

-----------------------------------------------------------------------------
(* The dict, the expires and the slaves.                                   *)

\* The slave that receives a transaction is in step with the master command
\* by command; outside of transactions it has run everything.
InStep == rtxn = val /\ (exec = Nobody => rep = val)

\* What a step may do to the data.
LEMMA DataSteps ==
  ASSUME TypeOK, [Next]_vars
  PROVE  \/ \E c \in Clients, cmd \in Commands :
              run(c, cmd) /\ (rep' = rtxn' \/ exec' # Nobody)
         \/ \E p \in Slot : ExpireKey(p)
         \/ /\ UNCHANGED <<val, exp, rtxn>>
            /\ \/ UNCHANGED <<exec, rep>>
               \/ exec' # Nobody
               \/ rep' = rtxn
<1>1. ASSUME NEW c \in Clients, NEW cmd \in Commands,
             call(c, cmd) \/ queueMultiCommand(c, cmd)
      PROVE  \/ run(c, cmd) /\ rep' = rtxn'
             \/ UNCHANGED <<val, exp, rtxn, exec, rep>>
  BY <1>1 DEF call, queueMultiCommand
<1>2. ASSUME NEW c \in Clients,
             \/ multiCommand(c) \/ discardCommand(c) \/ execAborts(c)
             \/ randomkeyCommand(c) \/ freeClient(c)
             \/ \E k \in Keys : watchCommand(c, k)
      PROVE  UNCHANGED <<val, exp, rtxn, exec, rep>>
  BY <1>2 DEF multiCommand, discardCommand, execAborts, randomkeyCommand,
              freeClient, watchCommand
<1>3. ASSUME NEW c \in Clients, execStarts(c)
      PROVE  UNCHANGED <<val, exp, rtxn>> /\ exec' # Nobody
  BY <1>3, NobodyAssumption DEF execStarts
<1>4. CASE execRuns
  <2>1. exec \in Clients /\ Head(queue[exec]) \in Commands
    BY <1>4 DEF execRuns, TypeOK
  <2> QED BY <1>4, <2>1 DEF execRuns
<1>5. CASE execEnds
  BY <1>5 DEF execEnds
<1>6. CASE dbRandomKey
  <2>1. random \in Clients /\ InDb(cdb[random]) \subseteq Slot
    BY <1>6 DEF dbRandomKey, TypeOK, InDb, Slot
  <2> QED BY <1>6, <2>1 DEF dbRandomKey
<1>7. CASE \E p \in Slot : activeExpireCycle(p) \/ freeMemoryIfNeeded(p)
  BY <1>7 DEF activeExpireCycle, freeMemoryIfNeeded
<1>8. CASE Tick \/ UNCHANGED vars
  BY <1>8 DEF Tick, vars
<1> QED
  BY <1>1, <1>2, <1>3, <1>4, <1>5, <1>6, <1>7, <1>8,
     WatchableAssumption DEF Next, ClientNext

\* A command keeps the expires in the dict and the slave in step.
LEMMA RunKeepsData ==
  ASSUME TypeOK, ExpiresInDict, rtxn = val,
         NEW c \in Clients, NEW cmd \in Commands, run(c, cmd)
  PROVE  ExpiresInDict' /\ rtxn' = val'
<1> DEFINE d    == cdb[c]
           gone == ExpiredBy(cmd, d)
           v    == Without(val, gone, None)
           e    == Without(exp, gone, NoExpire)
<1>1. d \in Dbs /\ CmdOK(cmd)
  BY CommandsAreOK DEF TypeOK
<1>2. v \in [Slot -> Vals \cup {None}] /\ e \in [Slot -> Int]
  BY WithoutType, NoExpireType DEF TypeOK
<1>3. \A p \in Slot : e[p] # NoExpire => v[p] # None
  BY DEF ExpiresInDict, Without
<1>4. /\ val' = IF Dirties(cmd, d, v, e) THEN NewVal(cmd, d, v) ELSE v
      /\ exp' = IF Dirties(cmd, d, v, e) THEN NewExp(cmd, d, e) ELSE e
      /\ rtxn' = IF Dirties(cmd, d, v, e) THEN OnSlave(SentAs(cmd), d, v) ELSE v
  BY DEF run
<1> HIDE DEF d, v, e
<1>5. ExpiresInDict'
  BY <1>1, <1>2, <1>3, <1>4, NewExpInDict DEF ExpiresInDict
<1>6. rtxn' = val'
  BY <1>1, <1>2, <1>4, OnSlaveAgrees
<1> QED BY <1>5, <1>6

LEMMA DataStep ==
  TypeOK /\ ExpiresInDict /\ InStep /\ [Next]_vars => ExpiresInDict' /\ InStep'
<1> SUFFICES ASSUME TypeOK, ExpiresInDict, InStep, [Next]_vars
             PROVE  ExpiresInDict' /\ InStep'
  OBVIOUS
<1>1. ASSUME NEW c \in Clients, NEW cmd \in Commands, run(c, cmd),
             rep' = rtxn' \/ exec' # Nobody
      PROVE  ExpiresInDict' /\ InStep'
  BY <1>1, RunKeepsData DEF InStep
<1>2. ASSUME NEW p \in Slot, ExpireKey(p)
      PROVE  ExpiresInDict' /\ InStep'
  BY <1>2 DEF ExpireKey, ExpiresInDict, InStep, Without
<1>3. CASE /\ UNCHANGED <<val, exp, rtxn>>
           /\ UNCHANGED <<exec, rep>> \/ exec' # Nobody \/ rep' = rtxn
  BY <1>3 DEF ExpiresInDict, InStep
<1> QED BY <1>1, <1>2, <1>3, DataSteps

LEMMA DataInit == Init => ExpiresInDict /\ InStep
  BY DEF Init, ExpiresInDict, InStep

\* removeExpire(), setExpire() and getExpire() never meet an expire whose key
\* is not in the dict, whatever the commands, their order and their moment.
THEOREM ExpiresAlwaysInDict == Spec => []ExpiresInDict
<1>1. Spec => [](TypeOK /\ ExpiresInDict /\ InStep)
  BY TypeCorrect, DataInit, DataStep, PTL DEF Spec
<1> QED BY <1>1, PTL

\* DELs for expired keys, EXPIREs turned into DELs and transactions keep a
\* slave, which never expires a key by itself, equal to its master.
THEOREM SlaveAlwaysAgrees == Spec => []SlaveAgrees
<1>1. Spec => [](TypeOK /\ ExpiresInDict /\ InStep)
  BY TypeCorrect, DataInit, DataStep, PTL DEF Spec
<1>2. InStep => SlaveAgrees
  BY DEF InStep, SlaveAgrees
<1> QED BY <1>1, <1>2, PTL

-----------------------------------------------------------------------------
(* WATCH.                                                                  *)

\* What a step may do to the watched keys.
LEMMA WatchSteps ==
  ASSUME TypeOK, [Next]_vars
  PROVE  \/ \E c \in Clients : UnwatchAllKeys(c)
         \/ \E c \in Clients, p \in Slot : WatchForKey(c, p)
         \/ UNCHANGED <<cwatch, dwatch>>
<1>1. ASSUME NEW c \in Clients, NEW cmd \in Commands,
             call(c, cmd) \/ queueMultiCommand(c, cmd)
      PROVE  UnwatchAllKeys(c) \/ UNCHANGED <<cwatch, dwatch>>
  BY <1>1 DEF call, run, queueMultiCommand, watching
<1>2. ASSUME NEW c \in Clients, multiCommand(c) \/ randomkeyCommand(c)
      PROVE  UNCHANGED <<cwatch, dwatch>>
  BY <1>2 DEF multiCommand, randomkeyCommand, watching
<1>3. ASSUME NEW c \in Clients,
             discardCommand(c) \/ execAborts(c) \/ execStarts(c) \/ freeClient(c)
      PROVE  UnwatchAllKeys(c)
  BY <1>3 DEF discardCommand, execAborts, execStarts, freeClient, ForgetTransaction
<1>4. ASSUME NEW c \in Clients, NEW k \in Keys, watchCommand(c, k)
      PROVE  \E p \in Slot : WatchForKey(c, p)
  BY <1>4 DEF watchCommand, TypeOK, Slot
<1>5. CASE execRuns
  <2>1. exec \in Clients
    BY <1>5 DEF execRuns, TypeOK
  <2> QED BY <1>5, <2>1 DEF execRuns, run, watching
<1>6. CASE \/ execEnds \/ dbRandomKey \/ Tick \/ UNCHANGED vars
           \/ \E p \in Slot : activeExpireCycle(p) \/ freeMemoryIfNeeded(p)
  BY <1>6 DEF execEnds, dbRandomKey, activeExpireCycle, freeMemoryIfNeeded, Tick,
              vars, watching
<1> QED
  BY <1>1, <1>2, <1>3, <1>4, <1>5, <1>6,
     WatchableAssumption DEF Next, ClientNext

LEMMA MirrorStep ==
  TypeOK /\ WatchListsMirror /\ [Next]_vars => WatchListsMirror'
<1> SUFFICES ASSUME TypeOK, WatchListsMirror, [Next]_vars
             PROVE  WatchListsMirror'
  OBVIOUS
<1>1. ASSUME NEW c \in Clients, UnwatchAllKeys(c) PROVE WatchListsMirror'
  BY <1>1 DEF UnwatchAllKeys, WatchListsMirror, TypeOK
<1>2. ASSUME NEW c \in Clients, NEW p \in Slot, WatchForKey(c, p)
      PROVE  WatchListsMirror'
  BY <1>2 DEF WatchForKey, WatchListsMirror, TypeOK
<1>3. CASE UNCHANGED <<cwatch, dwatch>>
  BY <1>3 DEF WatchListsMirror
<1> QED BY <1>1, <1>2, <1>3, WatchSteps

\* The assertion of unwatchAllKeys() never fails: a client is in the list of
\* a key exactly when the key is in the list of the client.
THEOREM WatchListsAlwaysMirror == Spec => []WatchListsMirror
<1>1. Init => WatchListsMirror
  BY DEF Init, WatchListsMirror
<1> QED BY <1>1, TypeCorrect, MirrorStep, PTL DEF Spec

\* A client in EXEC watches nothing any more.
ExecUnwatched == exec # Nobody => cwatch[exec] = {} /\ exec \notin stale

\* The commands that change a key without signalModifiedKey() are not sent.
NoSilentCommand == \A cmd \in Commands : cmd.op \notin {"move", "persist"}

\* A command that changes a watched key makes its watcher dirty.
LEMMA RunSignals ==
  ASSUME NoSilentCommand, TypeOK, ExpiresInDict, WatchListsMirror,
         ExecUnwatched, ChangedWatchAborts,
         NEW c \in Clients, NEW cmd \in Commands, run(c, cmd), exec' = exec
  PROVE  ChangedWatchAborts' /\ ExecUnwatched'
<1> DEFINE d    == cdb[c]
           gone == ExpiredBy(cmd, d)
           v    == Without(val, gone, None)
           e    == Without(exp, gone, NoExpire)
           dirty == Dirties(cmd, d, v, e)
           vNew   == IF dirty THEN NewVal(cmd, d, v) ELSE v
           eNew   == IF dirty THEN NewExp(cmd, d, e) ELSE e
           self == IF cmd.op = "unwatch" THEN {c} ELSE {}
           changed == {p \in Slot : vNew[p] # v[p] \/ eNew[p] # e[p]}
<1>1. d \in Dbs /\ CmdOK(cmd) /\ cmd.op \notin {"move", "persist"}
  BY CommandsAreOK DEF TypeOK, NoSilentCommand
<1>2. v \in [Slot -> Vals \cup {None}] /\ e \in [Slot -> Int]
  BY WithoutType, NoExpireType DEF TypeOK
<1>3. \A p \in Slot : e[p] # NoExpire => v[p] # None
  BY DEF ExpiresInDict, Without
<1>4. /\ dirtycas' = (IF dirty THEN dirtycas \cup Touched(cmd, Signals(cmd, d, v))
                      ELSE dirtycas) \ self
      /\ stale' = (stale \cup Watchers(changed)) \ self
      /\ UnwatchAllKeys(c) \/ UNCHANGED cwatch
  BY DEF run, watching
<1> HIDE DEF d, v, e
<1>5. changed \subseteq (IF dirty THEN Signals(cmd, d, v) ELSE {})
  BY <1>1, <1>2, <1>3, ChangedAreSignalled
<1>6. dirty => Watchers(changed) \subseteq Touched(cmd, Signals(cmd, d, v))
  <2> SUFFICES ASSUME dirty, NEW w \in Watchers(changed)
               PROVE  w \in Touched(cmd, Signals(cmd, d, v))
    OBVIOUS
  <2>1. PICK p \in changed : w \in Clients /\ p \in cwatch[w]
    BY DEF Watchers
  <2>2. p \in Slot /\ p \in Signals(cmd, d, v) /\ w \in dwatch[p]
    BY <1>5, <2>1 DEF WatchListsMirror
  <2> QED BY <2>1, <2>2 DEF Touched
<1>7. ~dirty => Watchers(changed) = {}
  BY <1>5 DEF Watchers
<1>8. ChangedWatchAborts'
  BY <1>4, <1>6, <1>7 DEF ChangedWatchAborts
<1>9. ExecUnwatched'
  <2>1. exec # Nobody => exec \notin Watchers(changed)
    BY DEF Watchers, ExecUnwatched
  <2>2. exec # Nobody => cwatch'[exec] = {}
    BY <1>4 DEF ExecUnwatched, UnwatchAllKeys, TypeOK
  <2> QED BY <1>4, <2>1, <2>2 DEF ExecUnwatched
<1> QED BY <1>8, <1>9

\* Ending a transaction, or starting to run one, forgets what was watched.
LEMMA WatchStep ==
  ASSUME NoSilentCommand
  PROVE  /\ TypeOK /\ ExpiresInDict /\ WatchListsMirror
         /\ ExecUnwatched /\ ChangedWatchAborts /\ [Next]_vars
         => ExecUnwatched' /\ ChangedWatchAborts'
<1> SUFFICES ASSUME TypeOK, ExpiresInDict, WatchListsMirror, ExecUnwatched,
                    ChangedWatchAborts, [Next]_vars
             PROVE  ExecUnwatched' /\ ChangedWatchAborts'
  OBVIOUS
<1>1. ASSUME NEW c \in Clients, NEW cmd \in Commands, call(c, cmd)
      PROVE  ExecUnwatched' /\ ChangedWatchAborts'
  BY <1>1, RunSignals DEF call
<1>2. ASSUME NEW c \in Clients,
             \/ multiCommand(c) \/ randomkeyCommand(c)
             \/ \E cmd \in Commands : queueMultiCommand(c, cmd)
      PROVE  ExecUnwatched' /\ ChangedWatchAborts'
  BY <1>2 DEF multiCommand, randomkeyCommand, queueMultiCommand, watching,
              ExecUnwatched, ChangedWatchAborts
<1>3. ASSUME NEW c \in Clients,
             discardCommand(c) \/ execAborts(c) \/ freeClient(c)
      PROVE  ExecUnwatched' /\ ChangedWatchAborts'
  <2>1. exec = Nobody /\ exec' = Nobody /\ ForgetTransaction(c)
    BY <1>3 DEF discardCommand, execAborts, freeClient, Idle
  <2> QED BY <2>1 DEF ForgetTransaction, ExecUnwatched, ChangedWatchAborts
<1>4. ASSUME NEW c \in Clients, NEW k \in Keys, watchCommand(c, k)
      PROVE  ExecUnwatched' /\ ChangedWatchAborts'
  <2>1. exec = Nobody /\ exec' = Nobody /\ UNCHANGED <<stale, dirtycas>>
    BY <1>4 DEF watchCommand, Idle
  <2> QED BY <2>1 DEF ExecUnwatched, ChangedWatchAborts
<1>5. ASSUME NEW c \in Clients, execStarts(c)
      PROVE  ExecUnwatched' /\ ChangedWatchAborts'
  <2>1. exec' = c /\ cwatch'[c] = {} /\ stale' = stale \ {c} /\ dirtycas' = dirtycas
    BY <1>5 DEF execStarts, UnwatchAllKeys, TypeOK
  <2> QED BY <2>1 DEF ExecUnwatched, ChangedWatchAborts
<1>6. CASE execRuns
  <2>1. exec \in Clients /\ Head(queue[exec]) \in Commands
    BY <1>6 DEF execRuns, TypeOK
  <2> QED BY <1>6, <2>1, RunSignals DEF execRuns
<1>7. CASE execEnds
  BY <1>7 DEF execEnds, ExecUnwatched, ChangedWatchAborts
<1>8. CASE \/ dbRandomKey \/ Tick \/ UNCHANGED vars
           \/ \E p \in Slot : activeExpireCycle(p) \/ freeMemoryIfNeeded(p)
  BY <1>8 DEF dbRandomKey, activeExpireCycle, freeMemoryIfNeeded, Tick, vars,
              watching, ExecUnwatched, ChangedWatchAborts
<1> QED
  BY <1>1, <1>2, <1>3, <1>4, <1>5, <1>6, <1>7, <1>8,
     WatchableAssumption DEF Next, ClientNext

\* Without MOVE and PERSIST, which do not signal, EXEC aborts whenever a
\* command changed a watched key after it was watched: SET, DEL, EXPIRE,
\* RENAME, FLUSHDB and FLUSHALL all reach their watchers.
THEOREM ChangedWatchAlwaysAborts ==
  ASSUME NoSilentCommand
  PROVE  Spec => []ChangedWatchAborts
<1>1. Init => ExecUnwatched /\ ChangedWatchAborts
  BY DEF Init, ExecUnwatched, ChangedWatchAborts
<1>2. /\ TypeOK /\ ExpiresInDict /\ WatchListsMirror
      /\ ExecUnwatched /\ ChangedWatchAborts /\ [Next]_vars
      => ExecUnwatched' /\ ChangedWatchAborts'
  BY WatchStep
<1> QED
  BY <1>1, <1>2, TypeCorrect, ExpiresAlwaysInDict, WatchListsAlwaysMirror, PTL
     DEF Spec
=============================================================================
