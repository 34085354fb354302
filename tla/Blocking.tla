------------------------------ MODULE Blocking ------------------------------
(***************************************************************************)
(* The blocking list operations of t_list.c with the parts of the event    *)
(* loop they live in: pushes handed to waiting clients, BRPOPLPUSH waiters *)
(* that push again, time outs, clients killed or gone while they wait, and *)
(* the list of unblocked clients that beforeSleep() serves.                *)
(*                                                                         *)
(* One iteration of the event loop is beforeSleep(), then at most one read *)
(* per ready socket, then serverCron().  A read executes every command it  *)
(* received until the client blocks; the rest stays in its query buffer.   *)
(*                                                                         *)
(* An element is the number of the push that brought it, so each element   *)
(* is one of a kind and can be followed.                                   *)
(***************************************************************************)
EXTENDS Naturals, Sequences, FiniteSets, SequencesExt

CONSTANTS
    Clients,            \* the connections
    ListKeys,           \* the keys of the selected database
    NoTarget,           \* bpop.target == NULL
    Str,                \* the value of a key that does not hold a list
    Kinds,              \* the commands clients use
    KeyTuples,          \* the keys clients give to BLPOP
    Timeouts,           \* how they block: "never" and "later" time out, "multi": in EXEC
    MaxElems,           \* bound: elements ever pushed
    MaxArgs,            \* bound: elements in one LPUSH or RPUSH
    MaxRead,            \* bound: commands in one read, and in a query buffer
    MaxIssued           \* bound: commands ever sent

ASSUME BlockingAssumption ==
    /\ MaxElems \in Nat /\ MaxIssued \in Nat /\ MaxArgs \in Nat \ {0} /\ MaxRead \in Nat \ {0}
    /\ NoTarget \notin ListKeys /\ KeyTuples \subseteq Seq(ListKeys) \ {<<>>}
    /\ Timeouts \subseteq {"never", "later", "multi"}

VARIABLES
    lists,              \* the key space: <<>> is a missing key
    blocking_keys,      \* db->blocking_keys: key -> clients in order of arrival
    bpop,               \* c->bpop of every client; keys = <<>>: not blocked
    unblocked_clients,  \* server.unblocked_clients
    unblockedFlag,      \* the clients with REDIS_UNBLOCKED
    querybuf,           \* commands received and not executed yet
    connected,          \* server.clients
    loop,               \* the phase of the event loop
    polled,             \* clients whose socket may still be served this time
    pushed,             \* history: elements pushed so far
    taken,              \* history: how often each element was popped by, handed to
                        \*          a client for good, or deleted
    dropped,            \* history: elements no list and no client ever got
    tickets,            \* history: how often a client has blocked
    since,              \* history: the ticket of each blocked client, or 0
    lastServed,         \* history: per key, the ticket served last by a push
    replica,            \* the key space of a slave fed with what call() sends
    diverged,           \* history: call() sent something that leaves a waiter out
    renamed,            \* history: keys whose list came from RENAME
    issued              \* commands sent so far

blockingVars == <<lists, blocking_keys, bpop, unblocked_clients, unblockedFlag,
                  querybuf, connected, loop, polled, pushed, taken, dropped,
                  tickets, since, lastServed, replica, diverged, renamed, issued>>

Elems == 1..MaxElems
Idle == [keys |-> <<>>, target |-> NoTarget, timeout |-> "never"]
IsList(v) == v # Str /\ v # <<>>
Blocked(c) == bpop[c].keys # <<>>

\* The commands of a client, with their arguments; CLIENT KILL is of another one.
Commands ==
    {q \in ({"lpush", "rpush"} \X ListKeys \X (1..MaxArgs))
             \cup ({"lpop", "rpop", "set", "del"} \X ListKeys)
             \cup ({"rpoplpush", "rename"} \X ListKeys \X ListKeys)
             \cup ({"blpop"} \X KeyTuples \X Timeouts)
             \cup ({"brpoplpush"} \X ListKeys \X ListKeys \X Timeouts)
             \cup ({"kill"} \X Clients) : q[1] \in Kinds}

BlockingTypeOK ==
    /\ lists \in [ListKeys -> Seq(Elems) \cup {Str}]
    /\ blocking_keys \in [ListKeys -> Seq(Clients)]
    /\ bpop \in [Clients -> [keys: Seq(ListKeys), target: ListKeys \cup {NoTarget},
                             timeout: {"never", "later"}]]
    /\ unblocked_clients \in Seq(Clients)
    /\ unblockedFlag \subseteq Clients /\ connected \subseteq Clients
    /\ polled \subseteq Clients
    /\ querybuf \in [Clients -> Seq(Commands)]
    /\ loop \in {"sleep", "poll", "crashed"}
    /\ pushed \in 0..MaxElems
    /\ taken \in [Elems -> Nat] /\ dropped \subseteq Elems
    /\ tickets \in Nat /\ diverged \in BOOLEAN
    /\ since \in [Clients -> Nat] /\ lastServed \in [ListKeys -> Nat]
    /\ replica \in [ListKeys -> Seq(Elems) \cup {Str}]
    /\ renamed \subseteq ListKeys /\ issued \in 0..MaxIssued

-----------------------------------------------------------------------------
(***************************************************************************)
(* The state a command works on: the variables, argv as call() will        *)
(* propagate it, the change of server.dirty, and the result of             *)
(* handleClientsWaitingListPush().                                         *)
(***************************************************************************)
Current == [db |-> lists, wait |-> blocking_keys, bpop |-> bpop,
            unblocked |-> unblocked_clients, flag |-> unblockedFlag,
            buf |-> querybuf, live |-> connected, pushed |-> pushed,
            taken |-> taken, dropped |-> dropped, tickets |-> tickets,
            since |-> since, last |-> lastServed, replica |-> replica,
            diverged |-> diverged, renamed |-> renamed,
            argv |-> <<>>, dirty |-> 0, served |-> FALSE]

Becomes(s) ==
    /\ lists' = s.db /\ blocking_keys' = s.wait /\ bpop' = s.bpop
    /\ unblocked_clients' = s.unblocked /\ unblockedFlag' = s.flag
    /\ querybuf' = s.buf /\ connected' = s.live /\ pushed' = s.pushed
    /\ taken' = s.taken /\ dropped' = s.dropped /\ tickets' = s.tickets
    /\ since' = s.since /\ lastServed' = s.last /\ replica' = s.replica
    /\ diverged' = s.diverged /\ renamed' = s.renamed

\* listDelNode(l, listSearchKey(l, c)): the first node that holds c.
DelClient(l, c) ==
    LET i == SelectInSeq(l, LAMBDA d : d = c) IN
    IF i = 0 THEN l ELSE RemoveAt(l, i)

\* c waits for every key of the command, in the order of its arguments; a key
\* named twice lists the client twice.
blockForKeys(s, c, keys, timeout, target) ==
    [s EXCEPT !.bpop[c] = [keys |-> keys, target |-> target, timeout |-> timeout],
              !.wait = FoldLeft(LAMBDA w, k : [w EXCEPT ![k] = Append(@, c)],
                                s.wait, keys),
              !.tickets = @ + 1, !.since[c] = s.tickets + 1]

\* Mutant: the client is not put on the list of the unblocked ones.
unblockUnlisted(s, c) ==
    [s EXCEPT !.wait = FoldLeft(LAMBDA w, k : [w EXCEPT ![k] = DelClient(@, c)],
                                s.wait, s.bpop[c].keys),
              !.bpop[c] = Idle]

\* c leaves the queue of every key it waits for, once per mention of the key.
unblockClientWaitingData(s, c) ==
    [s EXCEPT !.wait = FoldLeft(LAMBDA w, k : [w EXCEPT ![k] = DelClient(@, c)],
                                s.wait, s.bpop[c].keys),
              !.bpop[c] = Idle, !.since[c] = 0,
              !.flag = @ \cup {c},
              !.unblocked = Append(@, c)]

RECURSIVE handleClientsWaitingListPush(_, _, _, _), rpoplpushHandlePush(_, _, _, _, _, _)

Took(s, eles) == [s EXCEPT !.taken = [e \in Elems |-> @[e] + IF e \in eles THEN 1 ELSE 0]]

\* Mutant: an element handed over is offered to the next one too.
ServeAndGoOn(s, c, receiver, dstkey, key, ele) ==
    IF dstkey = NoTarget
    THEN [handleClientsWaitingListPush(Took(s, {ele}), c, key, ele) EXCEPT !.served = TRUE]
    ELSE handleClientsWaitingListPush(s, c, key, ele)

\* The receiver, unblocked, is replied to; a BRPOPLPUSH client whose target holds
\* no list gets an error, and the next one is tried.  The value that a BRPOPLPUSH
\* client is sent stays in the target list or goes to who waits there.
ServeReceiver(s, c, receiver, dstkey, key, ele) ==
    CASE dstkey = NoTarget -> [Took(s, {ele}) EXCEPT !.served = TRUE]
      [] dstkey # NoTarget /\ s.db[dstkey] # Str ->
           [rpoplpushHandlePush(s, c, receiver, <<>>, dstkey, ele) EXCEPT !.served = TRUE]
      [] OTHER -> handleClientsWaitingListPush(s, c, key, ele)

Serve(s, c, receiver, key, ele) ==
    ServeReceiver(unblockClientWaitingData([s EXCEPT !.last[key] = s.since[receiver]], receiver),
                  c, receiver, s.bpop[receiver].target, key, ele)

\* Mutant: the client that came last is served first.
serveNewest(s, c, key, ele) ==
    IF s.wait[key] = <<>> THEN [s EXCEPT !.served = FALSE]
    ELSE Serve(s, c, Last(s.wait[key]), key, ele)

\* The element goes to the first client in the queue of the key.
handleClientsWaitingListPush(s, c, key, ele) ==
    IF s.wait[key] = <<>> THEN [s EXCEPT !.served = FALSE]
    ELSE Serve(s, c, Head(s.wait[key]), key, ele)

\* Mutant: the command is propagated as the pushing client sent it.
pushNotRewritten(s, orig, c, srckey, dstkey, ele) ==
    LET push(h) == IF h.served THEN h
                   ELSE [h EXCEPT !.db[dstkey] = <<ele>> \o @, !.dirty = @ + 1] IN
    push(handleClientsWaitingListPush(s, orig, dstkey, ele))

\* Push ele on dstkey, or hand it on.  The command of the client that started
\* it all is rewritten to what a slave has to do.
rpoplpushHandlePush(s, orig, c, srckey, dstkey, ele) ==
    LET push(h) ==
          IF h.served THEN h
          ELSE [h EXCEPT !.db[dstkey] = <<ele>> \o @,
                         !.dirty = @ + 1,
                         !.argv = IF c # orig THEN <<"lpush", dstkey, <<ele>>>>
                                  ELSE <<"rpoplpush", srckey, dstkey>>] IN
    push(handleClientsWaitingListPush(s, orig, dstkey, ele))

Push(l, ele, cmd) == IF cmd = "lpush" THEN <<ele>> \o l ELSE Append(l, ele)

\* The loop of pushGenericCommand over c->argv.  Clients can only be waiting as
\* long as the key had no list.  When a waiter's own push rewrote c->argv, the
\* loop goes on over the new, shorter vector: it ends, and the elements it had
\* not reached are dropped.
RECURSIVE PushLoop(_, _, _, _, _, _)
PushLoop(s, c, cmd, key, eles, mayWait) ==
    LET goOn(h) ==
          CASE h.served /\ h.argv # s.argv ->
                 [h EXCEPT !.dropped = @ \cup ToSet(Tail(eles))]
            [] h.served /\ h.argv = s.argv -> PushLoop(h, c, cmd, key, Tail(eles), TRUE)
            [] OTHER -> PushLoop([h EXCEPT !.db[key] = Push(@, Head(eles), cmd), !.dirty = @ + 1],
                                 c, cmd, key, Tail(eles), FALSE) IN
    IF eles = <<>> THEN s
    ELSE goOn(IF mayWait THEN handleClientsWaitingListPush(s, c, key, Head(eles))
                         ELSE [s EXCEPT !.served = FALSE])

\* LPUSH and RPUSH of n new elements.  When waiting clients take the first ones
\* and the rest becomes a list, the command is still propagated whole: diverged.
pushGenericCommand(s, c, cmd, key, n) ==
    LET eles == [i \in 1..n |-> s.pushed + i]
        whole == <<cmd, key, eles>>
        noted(t) == [t EXCEPT !.diverged = @ \/ (t.argv = whole /\ t.dirty \in 1..(n - 1))] IN
    IF s.db[key] = Str \/ s.pushed + n > MaxElems THEN s
    ELSE noted(PushLoop([s EXCEPT !.pushed = @ + n, !.argv = whole],
                        c, cmd, key, eles, s.db[key] = <<>>))

\* LPOP and RPOP; an emptied list is deleted.
popGenericCommand(s, cmd, key) ==
    IF ~IsList(s.db[key]) THEN s
    ELSE LET l == s.db[key]
             head == cmd \in {"lpop", "blpop"} IN
         [Took(s, {IF head THEN Head(l) ELSE Last(l)})
            EXCEPT !.db[key] = IF head THEN Tail(l) ELSE Front(l),
                   !.renamed = IF Len(l) = 1 THEN @ \ {key} ELSE @,
                   !.dirty = @ + 1]

\* RPOPLPUSH: the popped element goes to a client that waits for the target,
\* or to the target.  In the first case what is propagated is the command as it
\* came, or the LPUSH of a further waiter: diverged.
rpoplpushCommand(s, c, src, dst) ==
    LET noted(t) == [t EXCEPT !.dirty = @ + 1, !.diverged = @ \/ t.served,
                              !.renamed = {k \in @ : t.db[k] # <<>>}] IN
    IF ~IsList(s.db[src]) \/ s.db[dst] = Str THEN s
    ELSE noted(rpoplpushHandlePush([s EXCEPT !.db[src] = Front(@)], c, c, src, dst, Last(s.db[src])))

\* BLPOP: the first key that exists decides; with none the client blocks.
blockingPopGenericCommand(s, c, keys, timeout) ==
    LET exists == SelectSeq(keys, LAMBDA k : s.db[k] # <<>>) IN
    CASE exists # <<>> ->
           popGenericCommand([s EXCEPT !.argv = <<"blpop", keys>>], "blpop", Head(exists))
      [] exists = <<>> /\ timeout = "multi" -> s
      [] OTHER -> blockForKeys(s, c, keys, timeout, NoTarget)

\* BRPOPLPUSH: as RPOPLPUSH when there is a source, else the client blocks.
brpoplpushCommand(s, c, src, dst, timeout) ==
    CASE s.db[src] = <<>> /\ timeout = "multi" -> s
      [] s.db[src] = <<>> /\ timeout # "multi" -> blockForKeys(s, c, <<src>>, timeout, dst)
      [] OTHER -> rpoplpushCommand(s, c, src, dst)

\* freeClient(): a blocked client is unblocked first, then one node of
\* server.unblocked_clients is removed.
freeClient(s, c) ==
    LET forget(u) == [u EXCEPT !.unblocked = IF c \in u.flag THEN DelClient(@, c) ELSE @,
                               !.flag = @ \ {c}, !.buf[c] = <<>>, !.live = @ \ {c}]
    IN  forget(IF s.bpop[c].keys # <<>> THEN unblockClientWaitingData(s, c) ELSE s)

\* RENAME replaces the target and wakes nobody.
renameCommand(s, src, dst) ==
    IF src = dst \/ s.db[src] = <<>> THEN s
    ELSE [Took(s, IF IsList(s.db[dst]) THEN ToSet(s.db[dst]) ELSE {})
            EXCEPT !.db = [@ EXCEPT ![dst] = s.db[src], ![src] = <<>>],
                   !.renamed = (@ \ {src, dst}) \cup (IF IsList(s.db[src]) THEN {dst} ELSE {}),
                   !.dirty = @ + 1]

\* SET and DEL overwrite or delete whatever the key holds.
overwriteCommand(s, key, v) ==
    IF s.db[key] = v /\ v = <<>> THEN s
    ELSE [Took(s, IF IsList(s.db[key]) THEN ToSet(s.db[key]) ELSE {})
            EXCEPT !.db[key] = v,
                   !.renamed = @ \ {key},
                   !.dirty = @ + 1]

Proc(s, c, q) ==
    CASE q[1] \in {"lpush", "rpush"} -> pushGenericCommand(s, c, q[1], q[2], q[3])
      [] q[1] \in {"lpop", "rpop"} -> popGenericCommand(s, q[1], q[2])
      [] q[1] = "set" -> overwriteCommand(s, q[2], Str)
      [] q[1] = "del" -> overwriteCommand(s, q[2], <<>>)
      [] q[1] = "rpoplpush" -> rpoplpushCommand(s, c, q[2], q[3])
      [] q[1] = "rename" -> renameCommand(s, q[2], q[3])
      [] q[1] = "blpop" -> blockingPopGenericCommand(s, c, q[2], q[3])
      [] q[1] = "brpoplpush" -> brpoplpushCommand(s, c, q[2], q[3], q[4])
      [] q[1] = "kill" /\ q[2] \in s.live \ {c} -> freeClient(s, q[2])
      [] OTHER -> s

\* What a slave does with a propagated command: nobody waits there.
Applied(db, q) ==
    CASE q[1] = "lpush" -> [db EXCEPT ![q[2]] = Reverse(q[3]) \o @]
      [] q[1] = "rpush" -> [db EXCEPT ![q[2]] = @ \o q[3]]
      [] q[1] \in {"lpop", "rpop"} -> [db EXCEPT ![q[2]] = IF q[1] = "lpop" THEN Tail(@) ELSE Front(@)]
      [] q[1] = "blpop" -> LET k == Head(SelectSeq(q[2], LAMBDA i : db[i] # <<>>)) IN
                           [db EXCEPT ![k] = Tail(@)]
      [] q[1] = "set" -> [db EXCEPT ![q[2]] = Str]
      [] q[1] = "del" -> [db EXCEPT ![q[2]] = <<>>]
      [] q[1] = "rename" -> [db EXCEPT ![q[3]] = db[q[2]], ![q[2]] = <<>>]
      [] q[1] \in {"rpoplpush", "brpoplpush"} ->
           LET p == [db EXCEPT ![q[2]] = Front(@)] IN
           [p EXCEPT ![q[3]] = <<Last(db[q[2]])>> \o @]

\* call(): run the command and propagate its argument vector if it changed
\* something.  A slave that has diverged is not followed any further.
call(s, c, q) ==
    LET propagate(t) ==
          [t EXCEPT !.replica = IF t.dirty > 0 /\ ~t.diverged THEN Applied(@, t.argv) ELSE @] IN
    propagate(Proc([s EXCEPT !.argv = q, !.dirty = 0], c, q))

\* processInputBuffer(): as long as there is a command and c does not block.
RECURSIVE processInputBuffer(_, _)
processInputBuffer(s, c) ==
    IF s.buf[c] = <<>> \/ s.bpop[c].keys # <<>> \/ c \notin s.live THEN s
    ELSE processInputBuffer(call([s EXCEPT !.buf[c] = Tail(@)], c, Head(s.buf[c])), c)

-----------------------------------------------------------------------------
BlockingInit ==
    /\ lists \in [ListKeys -> {<<>>, Str}]
    /\ blocking_keys = [k \in ListKeys |-> <<>>]
    /\ bpop = [c \in Clients |-> Idle]
    /\ unblocked_clients = <<>> /\ unblockedFlag = {}
    /\ querybuf = [c \in Clients |-> <<>>]
    /\ connected = Clients
    /\ loop = "sleep" /\ polled = {}
    /\ pushed = 0 /\ taken = [e \in Elems |-> 0] /\ dropped = {}
    /\ tickets = 0 /\ since = [c \in Clients |-> 0]
    /\ lastServed = [k \in ListKeys |-> 0]
    /\ replica = lists /\ diverged = FALSE /\ renamed = {} /\ issued = 0

\* aeProcessEvents() calls readQueryFromClient() once for each ready client.
readQueryFromClient(c) ==
    /\ loop = "poll" /\ c \in polled /\ c \in connected
    /\ \E chunk \in SeqOf(Commands, MaxRead - Len(querybuf[c])) \ {<<>>} :
         /\ issued' = issued + Len(chunk) /\ issued' <= MaxIssued
         /\ Becomes(processInputBuffer([Current EXCEPT !.buf[c] = @ \o chunk], c))
    /\ polled' = polled \ {c}
    /\ UNCHANGED loop

\* read() returns 0: the client has gone.
clientClosed(c) ==
    /\ loop = "poll" /\ c \in polled /\ c \in connected
    /\ Becomes(freeClient(Current, c))
    /\ polled' = polled \ {c}
    /\ UNCHANGED <<loop, issued>>

\* serverCron() and closeTimedoutClients(): some blocked clients' time is up;
\* they get a nil, and the loop starts over.
closeTimedoutClients ==
    /\ loop = "poll"
    /\ \E S \in SUBSET {c \in connected : Blocked(c) /\ bpop[c].timeout = "later"} :
         \E due \in SetToSeqs(S) :
            S # {} /\ Becomes(FoldLeft(unblockClientWaitingData, Current, due))
    /\ loop' = "sleep" /\ polled' = {} /\ UNCHANGED issued

\* aeProcessEvents() returns without a time event being due.
eventsServed ==
    /\ loop = "poll"
    /\ loop' = "sleep" /\ polled' = {}
    /\ UNCHANGED <<lists, blocking_keys, bpop, unblocked_clients, unblockedFlag, querybuf,
                   connected, pushed, taken, dropped, tickets, since, lastServed,
                   replica, diverged, renamed, issued>>

\* beforeSleep() serves the buffers of the unblocked clients until the list is
\* empty.  A node of a client that was freed is a read of freed memory.
RECURSIVE ServeUnblocked(_)
ServeUnblocked(s) ==
    IF s.unblocked = <<>> \/ Head(s.unblocked) \notin s.live THEN s
    ELSE LET c == Head(s.unblocked) IN
         ServeUnblocked(processInputBuffer(
            [s EXCEPT !.unblocked = Tail(@), !.flag = @ \ {c}], c))

beforeSleep ==
    /\ loop = "sleep"
    /\ \E s \in {ServeUnblocked(Current)} :
         /\ Becomes(s)
         /\ loop' = IF s.unblocked = <<>> THEN "poll" ELSE "crashed"
    /\ polled' = Clients /\ UNCHANGED issued

BlockingNext ==
    \/ \E c \in Clients : readQueryFromClient(c) \/ clientClosed(c)
    \/ closeTimedoutClients
    \/ eventsServed
    \/ beforeSleep
    \/ loop = "crashed" /\ UNCHANGED blockingVars

BlockingSpec == BlockingInit /\ [][BlockingNext]_blockingVars

-----------------------------------------------------------------------------
\* db->blocking_keys and c->bpop.keys are two views of one relation, whatever
\* the order in which clients block, are served, time out, are killed or leave:
\* a client stands in the queue of a key once per mention of the key.
WaitersMatch ==
    \A k \in ListKeys, c \in Clients :
        Cardinality({i \in DOMAIN blocking_keys[k] : blocking_keys[k][i] = c})
          = Cardinality({i \in DOMAIN bpop[c].keys : bpop[c].keys[i] = k})

\* An element pushed is in one place of one list, or was handed to one client
\* for good or deleted, once, or is one of those a rewritten LPUSH never reached:
\* no hand over between waiting clients serves it twice or loses it otherwise.
ElementsOnce ==
    \A e \in 1..pushed :
        Cardinality({p \in ListKeys \X (1..MaxElems) :
                        /\ IsList(lists[p[1]]) /\ p[2] \in DOMAIN lists[p[1]]
                        /\ lists[p[1]][p[2]] = e})
          + taken[e] + (IF e \in dropped THEN 1 ELSE 0) = 1

\* A client waits for a key that holds a list only if the list came there by
\* RENAME, which serves nobody: every push serves the waiting clients first.
WaitedKeysHoldNoList ==
    \A k \in ListKeys : blocking_keys[k] # <<>> /\ IsList(lists[k]) => k \in renamed

\* When the event loop waits for sockets, a command that was received is still
\* unexecuted only if its client is blocked: being unblocked, by whatever event,
\* gets the rest of a pipeline executed without new input.
NoStuckInput ==
    loop = "poll" => \A c \in connected : querybuf[c] # <<>> =>
        Blocked(c) \/ c \in unblockedFlag

\* A slave that executes what call() propagates has the same key space, also when
\* the elements of a push went to waiting clients or on through BRPOPLPUSH clients
\* to other lists, until one of two things happens: waiters take a part only of
\* the elements of a push, or the element of an RPOPLPUSH.
ReplicaFollows == ~diverged => replica = lists

\* The bookkeeping of blocked clients in t_list.c is right between any two events:
\* nobody is waiting without being listed, nor for what is there, nor forgotten.
BlockingSound ==
    BlockingTypeOK /\ WaitersMatch /\ WaitedKeysHoldNoList /\ NoStuckInput

\* A freed client is not in server.unblocked_clients any more (networking.c:501).
UnblockedAreConnected == ToSet(unblocked_clients) \subseteq connected

\* A push serves the client that has waited longest for its key (t_list.c:739):
\* nobody who still waits for the key blocked before the client served last,
\* through whatever time outs, other keys and hand overs they all went.
ServedInOrder ==
    \A k \in ListKeys : \A c \in ToSet(blocking_keys[k]) : since[c] > lastServed[k]
=============================================================================
