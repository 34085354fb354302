-------------------------------- MODULE Dict --------------------------------
(***************************************************************************)
(* The hash table (dict.c): two tables of chains, the second one there     *)
(* while the entries move to it bucket by bucket, one bucket with every    *)
(* operation and some more with every run of serverCron(), and iterators   *)
(* that walk both tables.  Seen from outside it is the function of Map.    *)
(*                                                                         *)
(* An entry is <<key, value>>; its address is its key, which no two        *)
(* entries share.  A key that is deleted is freed.  Only one caller        *)
(* iterates at a time, inside one command, so serverCron() never runs      *)
(* during an iteration.                                                    *)
(***************************************************************************)
EXTENDS Integers, Sequences, FiniteSets, SequencesExt, FiniteSetsExt

CONSTANTS
    DictKeys,           \* the keys
    DictVals,           \* the values each key may be given
    DictHash,           \* dictHashKey(): a function from keys to numbers
    InitialSize,        \* DICT_HT_INITIAL_SIZE
    ForceRatio,         \* dict_force_resize_ratio
    MinFill,            \* REDIS_HT_MINFILL, a percentage
    RehashBatch,        \* the buckets dictRehashMilliseconds() moves at once
    ExpiredKeys         \* keys KEYS may find expired when it meets them

ASSUME DictAssumption ==
    /\ IsFiniteSet(DictKeys) /\ DictHash \in [DictKeys -> Nat] /\ ExpiredKeys \subseteq DictKeys
    /\ InitialSize \in Nat \ {0} /\ ForceRatio \in Nat /\ MinFill \in Nat
    /\ RehashBatch \in Nat \ {0}

VARIABLES
    ht,                 \* the two tables
    rehashidx,          \* next bucket of ht[0] to move, -1: not rehashing
    iterators,          \* safe iterators running
    dictCanResize,      \* dict_can_resize: FALSE while a child is running
    iter,               \* the iterator of the command, or NoIter
    dictReply           \* what the last operation returned, until it is used

dictVars == <<ht, rehashidx, iterators, dictCanResize, iter, dictReply>>

\* The state the functions of dict.c work on.
dct == [ht |-> ht, rehashidx |-> rehashidx]

NoKey == <<>>           \* NULL as an entry
NoIter == [on |-> FALSE, safe |-> FALSE, table |-> 0, index |-> -1, next |-> NoKey,
           entry |-> NoKey, stable |-> {}, seen |-> {}, twice |-> FALSE, done |-> FALSE]

NewTable(size) == [size |-> size, used |-> 0, table |-> [b \in 0..(size - 1) |-> <<>>]]

\* _dictReset()
NoTable == NewTable(0)

IsRehashing(d) == d.rehashidx # -1

\* dictHashKey(d, k) & sizemask; sizes are powers of two times InitialSize.
Bucket(t, k) == DictHash[k] % t.size

DictChain(t, k) == IF t.size = 0 THEN <<>> ELSE t.table[Bucket(t, k)]

KeysIn(chain) == {e[1] : e \in Range(chain)}
TableKeys(t) == UNION {KeysIn(t.table[b]) : b \in DOMAIN t.table}

Tables(d) == IF IsRehashing(d) THEN {1, 2} ELSE {1}

\* The tables in which the key is found; 1 and 2 stand for ht[0] and ht[1].
Where(d, k) == {i \in Tables(d) : k \in KeysIn(DictChain(d.ht[i], k))}

\* The first node of a chain that holds the key, and the chain unlinked from it.
NodeOf(chain, k) == SelectInSeq(chain, LAMBDA e : e[1] = k)
Without(chain, k) == RemoveAt(chain, NodeOf(chain, k))

Entry(d, k) ==
    LET c == DictChain(d.ht[Min(Where(d, k))], k) IN c[NodeOf(c, k)]

-----------------------------------------------------------------------------
(* Sizes. *)

\* The smallest power of two, from InitialSize on, that is at least size.
_dictNextPower(size) ==
    LET f[i \in Nat] == IF i >= size THEN i ELSE f[2 * i] IN f[InitialSize]

dictExpand(d, size) ==
    LET n == NewTable(_dictNextPower(size)) IN
    CASE IsRehashing(d) \/ d.ht[1].used > size -> d
      [] ~IsRehashing(d) /\ d.ht[1].used <= size /\ d.ht[1].size = 0 ->
           [d EXCEPT !.ht[1] = n]
      [] OTHER -> [d EXCEPT !.ht[2] = n, !.rehashidx = 0]

_dictExpandIfNeeded(d) ==
    LET t == d.ht[1] IN
    CASE IsRehashing(d) -> d
      [] ~IsRehashing(d) /\ t.size = 0 -> dictExpand(d, InitialSize)
      [] ~IsRehashing(d) /\ t.size > 0 /\ t.used >= t.size
         /\ (dictCanResize \/ t.used \div t.size > ForceRatio) ->
           dictExpand(d, Max({t.size, t.used}) * 2)
      [] OTHER -> d

dictResize(d) ==
    IF ~dictCanResize \/ IsRehashing(d) THEN d
    ELSE dictExpand(d, Max({d.ht[1].used, InitialSize}))

dictSlots(d) == d.ht[1].size + d.ht[2].size
dictSize(d) == d.ht[1].used + d.ht[2].used

htNeedsResize(d) ==
    /\ dictSlots(d) > InitialSize /\ dictSize(d) > 0
    /\ (dictSize(d) * 100) \div dictSlots(d) < MinFill

-----------------------------------------------------------------------------
(* Moving the entries to the second table. *)

\* The table with an entry more, at the front of its chain.
Linked(t, e) == [t EXCEPT !.table[Bucket(t, e[1])] = <<e>> \o @, !.used = @ + 1]

\* The entries of a chain go to the table one by one.
MovedTo(t, chain) == FoldLeft(Linked, t, chain)

\* One turn of the loop of dictRehash(): the tables are swapped when the first
\* one is empty, else the first chain left is moved.
RehashBucket(d) ==
    IF d.ht[1].used = 0 THEN [ht |-> <<d.ht[2], NoTable>>, rehashidx |-> -1]
    ELSE LET idx == Min({b \in DOMAIN d.ht[1].table :
                            b >= d.rehashidx /\ d.ht[1].table[b] # <<>>})
             chain == d.ht[1].table[idx]
         IN [ht |-> << [d.ht[1] EXCEPT !.table[idx] = <<>>, !.used = @ - Len(chain)],
                       MovedTo(d.ht[2], chain) >>,
             rehashidx |-> idx + 1]

dictRehash(d, n) ==
    LET f[i \in 0..n] ==
            IF i = 0 THEN d
            ELSE IF IsRehashing(f[i - 1]) THEN RehashBucket(f[i - 1]) ELSE f[i - 1]
    IN  f[n]

\* Mutant: a step is taken whether or not an iterator is running.
_dictRehashStepAlways(d) == IF IsRehashing(d) THEN dictRehash(d, 1) ELSE d

\* The step every operation takes, unless a safe iterator is running.
_dictRehashStep(d) == IF IsRehashing(d) /\ iterators = 0 THEN dictRehash(d, 1) ELSE d

-----------------------------------------------------------------------------
(* The operations.  Each one is a new state of the tables and a reply. *)

NotFound == <<"NULL">>
Result(d, reply) == [d |-> d, reply |-> reply]

\* Mutant: during a rehash the new entry goes to the first table.
InsertTableOld(d) == 1

\* The table dictAdd() puts a new entry into.
InsertTable(d) == IF IsRehashing(d) THEN 2 ELSE 1

dictAdd(k, v) ==
    LET d == _dictExpandIfNeeded(_dictRehashStep(dct))
        i == InsertTable(d) IN
    IF Where(d, k) # {} THEN Result(d, <<"ERR">>)
    ELSE Result([d EXCEPT !.ht[i] = Linked(@, <<k, v>>)], <<"OK">>)

\* Mutant: the first table alone is searched.
dictFindFirstTable(d0, k) ==
    LET d == _dictRehashStep(d0) IN
    Result(d, IF d.ht[1].size > 0 /\ k \in KeysIn(DictChain(d.ht[1], k)) THEN Entry(d, k) ELSE NotFound)

dictFind(d0, k) ==
    LET d == _dictRehashStep(d0) IN
    IF d0.ht[1].size = 0 THEN Result(d0, NotFound)
    ELSE Result(d, IF Where(d, k) = {} THEN NotFound ELSE Entry(d, k))

\* The table with another value in the entry of the key.
WithValue(t, k, v) ==
    [t EXCEPT !.table[Bucket(t, k)] = [@ EXCEPT ![NodeOf(@, k)] = <<k, v>>]]

\* dictAdd(), and where the key is there dictFind() and the new value.
dictReplace(k, v) ==
    LET r == dictAdd(k, v)
        d == dictFind(r.d, k).d
        i == Min(Where(d, k)) IN
    IF r.reply = <<"OK">> THEN Result(r.d, <<"added">>)
    ELSE Result([d EXCEPT !.ht[i] = WithValue(@, k, v)], <<"updated">>)

\* The table without the entry of the key.
Unlinked(t, k) == [t EXCEPT !.table[Bucket(t, k)] = Without(@, k), !.used = @ - 1]

dictGenericDelete(k) ==
    LET d == _dictRehashStep(dct)
        i == Min(Where(d, k)) IN
    IF ht[1].size = 0 THEN Result(dct, <<"ERR">>)
    ELSE IF Where(d, k) = {} THEN Result(d, <<"ERR">>)
    ELSE Result([d EXCEPT !.ht[i] = Unlinked(@, k)], <<"OK">>)

-----------------------------------------------------------------------------
(* The iterator. *)

\* The entry after e in its chain.
NextInChain(d, e) ==
    LET c == DictChain(d.ht[Min(Where(d, e))], e)
        i == NodeOf(c, e) IN
    IF i = Len(c) THEN NoKey ELSE <<c[i + 1][1]>>

\* The buckets of table t, from index b on, that hold an entry.
FullFrom(d, t, b) == {i \in DOMAIN d.ht[t + 1].table : i >= b /\ d.ht[t + 1].table[i] # <<>>}

\* dictNext(): the next entry of the chain as it was saved, else the head of the
\* next chain, first of the table the iterator is in, then of the second one.
AtEntry(it, d, t, b, k) ==
    [it EXCEPT !.table = t, !.index = b, !.entry = <<k>>, !.next = NextInChain(d, k),
               !.seen = @ \cup ({k} \cap it.stable), !.twice = @ \/ k \in it.seen]

AtHead(it, d, t, b) == AtEntry(it, d, t, b, Head(d.ht[t + 1].table[b])[1])

AtEnd(it) == [it EXCEPT !.done = TRUE, !.entry = NoKey, !.next = NoKey,
                        !.index = IF @ = -1 THEN 0 ELSE @]

dictNext(it, d) ==
    LET here == FullFrom(d, it.table, it.index + 1)
        there == FullFrom(d, 1, 0) IN
    CASE it.next # NoKey -> AtEntry(it, d, it.table, it.index, it.next[1])
      [] it.next = NoKey /\ here # {} -> AtHead(it, d, it.table, Min(here))
      [] it.next = NoKey /\ here = {} /\ it.table = 0 /\ IsRehashing(d) /\ there # {} ->
           AtHead(it, d, 1, Min(there))
      [] OTHER -> AtEnd(it)

-----------------------------------------------------------------------------
DictInit ==
    /\ ht = <<NoTable, NoTable>> /\ rehashidx = -1 /\ iterators = 0
    /\ dictCanResize = TRUE /\ iter = NoIter /\ dictReply = <<>>

DictBecomes(r) ==
    ht' = r.d.ht /\ rehashidx' = r.d.rehashidx /\ dictReply' = r.reply

DictIdle == ~iter.on

\* A safe iterator lets its user search and add, and delete the entry it is at.
MayUse == DictIdle \/ iter.safe

Adds == \E k \in DictKeys : \E v \in DictVals[k] :
    /\ MayUse
    /\ DictBecomes(dictAdd(k, v)) \/ DictBecomes(dictReplace(k, v))
    /\ UNCHANGED <<iterators, dictCanResize, iter>>

Finds == \E k \in DictKeys :
    /\ MayUse /\ DictBecomes(dictFind(dct, k))
    /\ UNCHANGED <<iterators, dictCanResize, iter>>

\* Deletions outside an iteration; those of the data types shrink the table.
Deletes == \E k \in DictKeys, resize \in BOOLEAN :
    LET r == dictGenericDelete(k) IN
    /\ DictIdle
    /\ DictBecomes(IF resize /\ r.reply = <<"OK">> /\ htNeedsResize(r.d)
               THEN [r EXCEPT !.d = dictResize(@)] ELSE r)
    /\ UNCHANGED <<iterators, dictCanResize, iter>>

\* dictGetRandomKey()
RandomKey ==
    LET d == _dictRehashStep(dct)
        all == {Entry(d, k) : k \in UNION {TableKeys(d.ht[i]) : i \in Tables(d)}} IN
    /\ DictIdle
    /\ IF dictSize(dct) = 0 THEN dictReply' = NotFound /\ UNCHANGED <<ht, rehashidx>>
       ELSE \E e \in all : DictBecomes(Result(d, e))
    /\ UNCHANGED <<iterators, dictCanResize, iter>>

\* dictEmpty(), of FLUSHDB and FLUSHALL
dictEmpty ==
    /\ DictIdle /\ ht' = <<NoTable, NoTable>> /\ rehashidx' = -1 /\ iterators' = 0
    /\ dictReply' = <<>> /\ UNCHANGED <<dictCanResize, iter>>

\* A table created for a known number of entries (rdbLoadObject,
\* setTypeConvert).
Presize == \E n \in 1..Cardinality(DictKeys) :
    /\ DictIdle /\ ht[1].size = 0
    /\ DictBecomes(Result(dictExpand(dct, n), <<>>))
    /\ UNCHANGED <<iterators, dictCanResize, iter>>

\* serverCron(), when no child is saving: tryResizeHashTables(), every tenth time.
tryResizeHashTables ==
    /\ DictIdle /\ dictCanResize /\ htNeedsResize(dct)
    /\ DictBecomes(Result(dictResize(dct), <<>>))
    /\ UNCHANGED <<iterators, dictCanResize, iter>>

\* serverCron(): incrementallyRehash(), for about a millisecond.
incrementallyRehash ==
    /\ DictIdle /\ dictCanResize /\ IsRehashing(dct)
    /\ DictBecomes(Result(dictRehash(dct, RehashBatch), <<>>))
    /\ UNCHANGED <<iterators, dictCanResize, iter>>

\* updateDictResizePolicy(), when a child starts and when it ends.
updateDictResizePolicy ==
    /\ DictIdle /\ dictCanResize' = ~dictCanResize
    /\ dictReply' = <<>> /\ UNCHANGED <<ht, rehashidx, iterators, iter>>

dictGetIterator == \E safe \in BOOLEAN :
    /\ DictIdle
    /\ iter' = [NoIter EXCEPT !.on = TRUE, !.safe = safe,
                              !.stable = TableKeys(ht[1]) \cup TableKeys(ht[2])]
    /\ dictReply' = <<>> /\ UNCHANGED <<ht, rehashidx, iterators, dictCanResize>>

iterNext ==
    /\ iter.on /\ ~iter.done
    /\ iter' = dictNext(iter, dct)
    /\ iterators' = iterators + IF iter.safe /\ iter.index = -1 /\ iter.table = 0 THEN 1 ELSE 0
    /\ dictReply' = <<>> /\ UNCHANGED <<ht, rehashidx, dictCanResize>>

\* The user of the iterator deletes the entry it is at: UNSUBSCRIBE of all
\* channels with a safe iterator; KEYS, whose iterator is not safe, when the key
\* has expired (expireIfNeeded).
DeletesCurrent ==
    LET k == iter.entry[1] IN
    /\ iter.on /\ iter.entry # NoKey /\ Where(dct, k) # {}
    /\ iter.safe \/ k \in ExpiredKeys
    /\ DictBecomes(dictGenericDelete(k))
    /\ iter' = [iter EXCEPT !.stable = @ \ {k}, !.seen = @ \ {k}]
    /\ UNCHANGED <<iterators, dictCanResize>>

\* The user may release the iterator before the end.
dictReleaseIterator ==
    /\ iter.on /\ iter' = NoIter
    /\ iterators' = iterators
         - IF iter.safe /\ ~(iter.index = -1 /\ iter.table = 0) THEN 1 ELSE 0
    /\ dictReply' = <<>> /\ UNCHANGED <<ht, rehashidx, dictCanResize>>

DictNext ==
    \/ Adds \/ Finds \/ Deletes \/ RandomKey \/ dictEmpty \/ Presize
    \/ tryResizeHashTables \/ incrementallyRehash \/ updateDictResizePolicy
    \/ dictGetIterator \/ iterNext \/ DeletesCurrent \/ dictReleaseIterator

DictSpec == DictInit /\ [][DictNext]_dictVars

-----------------------------------------------------------------------------
(* Properties. *)

\* Every entry is in the chain its hash names, once; used counts the entries; and
\* what lies before rehashidx has been moved.
DictSound ==
    /\ \A i \in {1, 2} : \A b \in DOMAIN ht[i].table : \A e \in Range(ht[i].table[b]) :
         Bucket(ht[i], e[1]) = b
    /\ \A i \in {1, 2} :
         ht[i].used = Cardinality(UNION {{b} \X DOMAIN ht[i].table[b] : b \in DOMAIN ht[i].table})
    /\ Cardinality(TableKeys(ht[1]) \cup TableKeys(ht[2])) = dictSize(dct)
    /\ rehashidx = -1 => ht[2] = NoTable
    /\ \A b \in 0..(rehashidx - 1) : b \in DOMAIN ht[1].table => ht[1].table[b] = <<>>

\* A key that stays in the table for the whole of an iteration is returned once.
IterationComplete ==
    iter.on => /\ ~iter.twice
               /\ iter.done => iter.stable \subseteq iter.seen

\* The tables of dict.c are well formed while they are rehashed, and an iteration
\* over them meets every entry that stays.
TableSound == DictSound /\ IterationComplete

\* The table behaves as the function it represents, for every result it gives.
Contents(d) ==
    UNION {UNION {Range(d.ht[i].table[b]) : b \in DOMAIN d.ht[i].table} : i \in {1, 2}}

M == INSTANCE Map WITH contents <- Contents(dct), reply <- dictReply

ImplementsMap == M!MapSpec
=============================================================================
