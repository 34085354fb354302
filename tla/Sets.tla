-------------------------------- MODULE Sets --------------------------------
(***************************************************************************)
(* Sets (t_set.c) in their two encodings: the hash table, and the intset   *)
(* of intset.c, a sorted array of integers of one width that is widened in *)
(* place.  The array is modelled down to the cells that a width takes, so  *)
(* a value that is cut, overwritten or read at the wrong width shows.      *)
(*                                                                         *)
(* Elements are integers; those of SetWords stand for strings that are no  *)
(* integers.  A command with several elements does them one after the      *)
(* other, so the model gives each command one.  The hash table is a set:   *)
(* module Dict is about it.                                                *)
(***************************************************************************)
EXTENDS Integers, Sequences, FiniteSets, SequencesExt, FiniteSetsExt

CONSTANTS
    SetKeys,
    SetElems, SetWords,
    Max16, Max32,           \* INT16_MAX and INT32_MAX
    SetMaxIntset            \* set-max-intset-entries

ASSUME SetsAssumption ==
    /\ SetElems \subseteq Int /\ SetWords \subseteq SetElems
    /\ Max16 \in Nat /\ Max32 \in Nat /\ Max16 < Max32 /\ SetMaxIntset \in Nat

VARIABLES
    sobjs,                  \* the objects of the keys
    smembers                \* what they should hold

setsVars == <<sobjs, smembers>>

-----------------------------------------------------------------------------
(* The intset: its encoding in cells of 16 bits, its length, and the cells. *)

_intsetValueEncoding(v) ==
    CASE v < -Max32 - 1 \/ v > Max32 -> 4
      [] v \in -(Max32 + 1)..(-Max16 - 2) \/ v \in (Max16 + 1)..Max32 -> 2
      [] OTHER -> 1

Cut(v, max) == ((v + max + 1) % (2 * (max + 1))) - (max + 1)
CutTo(v, enc) == CASE enc = 1 -> Cut(v, Max16) [] enc = 2 -> Cut(v, Max32) [] enc = 4 -> v

\* What is read from cells that were not written as one value.
Torn == 1000000

\* Positions count from 0, cells from 1.
_intsetGetEncoded(cells, pos, enc) ==
    LET v == cells[pos * enc + 1][1] IN
    IF \A j \in 1..enc : cells[pos * enc + j] = <<v, enc, j>> THEN v ELSE Torn

_intsetGet(is, pos) == _intsetGetEncoded(is.cells, pos, is.enc)

_intsetSet(is, pos, v) ==
    [is EXCEPT !.cells = [i \in DOMAIN @ |->
        LET j == i - pos * is.enc IN
        IF j \in 1..is.enc THEN <<CutTo(v, is.enc), is.enc, j>> ELSE @[i]]]

intsetNew == [enc |-> 1, length |-> 0, cells |-> <<>>]

\* Room for len values; new cells hold nothing anybody wrote.
intsetResize(is, len) ==
    [is EXCEPT !.cells = [i \in 1..(len * is.enc) |->
        IF i <= Len(@) THEN @[i] ELSE <<Torn, 0, 0>>]]

RECURSIVE Bisect(_, _, _, _)
Bisect(is, v, min, max) ==
    LET mid == (min + max) \div 2
        cur == _intsetGet(is, mid) IN
    CASE max < min -> [found |-> FALSE, pos |-> min]
      [] max >= min /\ v > cur -> Bisect(is, v, mid + 1, max)
      [] max >= min /\ v < cur -> Bisect(is, v, min, mid - 1)
      [] OTHER -> [found |-> TRUE, pos |-> mid]

\* Where v is, or where it belongs.
intsetSearch(is, v) ==
    CASE is.length = 0 -> [found |-> FALSE, pos |-> 0]
      [] is.length > 0 /\ v > _intsetGet(is, is.length - 1) -> [found |-> FALSE, pos |-> is.length]
      [] is.length > 0 /\ v < _intsetGet(is, 0) -> [found |-> FALSE, pos |-> 0]
      [] OTHER -> Bisect(is, v, 0, is.length - 1)

\* Mutant: the values are widened from the front.
WidenFromFront(is, curenc, prepend) ==
    FoldLeft(LAMBDA acc, i : _intsetSet(acc, i - 1 + prepend,
                                        _intsetGetEncoded(acc.cells, i - 1, curenc)),
             is, [i \in 1..is.length |-> i])

\* From the back, so that no value is overwritten before it is read.
Widen(is, curenc, prepend) ==
    FoldLeft(LAMBDA acc, i : _intsetSet(acc, is.length - i + prepend,
                                        _intsetGetEncoded(acc.cells, is.length - i, curenc)),
             is, [i \in 1..is.length |-> i])

\* A value of a wider encoding is beyond all others: it goes to one of the ends.
intsetUpgradeAndAdd(is, v) ==
    LET prepend == IF v < 0 THEN 1 ELSE 0
        wide == intsetResize([is EXCEPT !.enc = _intsetValueEncoding(v)], is.length + 1)
        moved == Widen(wide, is.enc, prepend)
        set == _intsetSet(moved, IF prepend = 1 THEN 0 ELSE is.length, v)
    IN  [set EXCEPT !.length = @ + 1]

\* memmove() of the values from position from on to position to.
intsetMoveTail(is, from, to) ==
    [is EXCEPT !.cells = [i \in DOMAIN @ |->
        IF i \in (to * is.enc + 1)..((to + is.length - from) * is.enc)
        THEN @[i + (from - to) * is.enc] ELSE @[i]]]

intsetAdd(is, v) ==
    LET at == intsetSearch(is, v)
        room == intsetResize(is, is.length + 1)
        moved == IF at.pos < is.length THEN intsetMoveTail(room, at.pos, at.pos + 1) ELSE room IN
    CASE _intsetValueEncoding(v) > is.enc -> intsetUpgradeAndAdd(is, v)
      [] _intsetValueEncoding(v) <= is.enc /\ at.found -> is
      [] OTHER -> [_intsetSet(moved, at.pos, v) EXCEPT !.length = @ + 1]

\* Mutant: any width is looked for.
intsetFindAnyWidth(is, v) == intsetSearch(is, CutTo(v, is.enc)).found

intsetFind(is, v) == _intsetValueEncoding(v) <= is.enc /\ intsetSearch(is, v).found

\* The tail moves over the value, and the array is cut.
intsetRemove(is, v) ==
    LET at == intsetSearch(is, v)
        moved == IF at.pos < is.length - 1 THEN intsetMoveTail(is, at.pos + 1, at.pos) ELSE is IN
    IF ~intsetFind(is, v) THEN is
    ELSE [intsetResize(moved, is.length - 1) EXCEPT !.length = @ - 1]

-----------------------------------------------------------------------------
(* The object. *)

NoSet == [enc |-> "none", is |-> intsetNew, ht |-> {}]
Other == [NoSet EXCEPT !.enc = "other"]        \* a value of another type
createIntsetObject == [NoSet EXCEPT !.enc = "intset"]
createSetObject == [NoSet EXCEPT !.enc = "ht"]
IsSet(o) == o.enc \in {"intset", "ht"}

setTypeCreate(v) == IF v \in SetWords THEN createSetObject ELSE createIntsetObject

\* The elements as the iterator gives them.
setTypeNext(o) ==
    IF o.enc = "ht" THEN o.ht ELSE {_intsetGet(o.is, i) : i \in 0..(o.is.length - 1)}

setTypeSize(o) == IF o.enc = "ht" THEN Cardinality(o.ht) ELSE o.is.length

setTypeConvert(o) == [createSetObject EXCEPT !.ht = setTypeNext(o)]

\* Mutant: the limit is looked at before the element is in.
setTypeAddLate(o, v) ==
    LET is == intsetAdd(o.is, v)
        s == [o EXCEPT !.is = is] IN
    CASE o.enc = "ht" -> [o EXCEPT !.ht = @ \cup {v}]
      [] o.enc = "intset" /\ v \notin SetWords ->
           IF is.length > o.is.length /\ o.is.length > SetMaxIntset THEN setTypeConvert(s) ELSE s
      [] OTHER -> [setTypeConvert(o) EXCEPT !.ht = @ \cup {v}]

\* An intset with too many elements, or with one that is no integer, becomes a
\* hash table, and stays one.
setTypeAdd(o, v) ==
    LET is == intsetAdd(o.is, v)
        s == [o EXCEPT !.is = is] IN
    CASE o.enc = "ht" -> [o EXCEPT !.ht = @ \cup {v}]
      [] o.enc = "intset" /\ v \notin SetWords ->
           IF is.length > o.is.length /\ is.length > SetMaxIntset THEN setTypeConvert(s) ELSE s
      [] OTHER -> [setTypeConvert(o) EXCEPT !.ht = @ \cup {v}]

setTypeRemove(o, v) ==
    CASE o.enc = "ht" -> [o EXCEPT !.ht = @ \ {v}]
      [] o.enc = "intset" /\ v \notin SetWords -> [o EXCEPT !.is = intsetRemove(@, v)]
      [] OTHER -> o

setTypeIsMember(o, v) ==
    CASE o.enc = "ht" -> v \in o.ht
      [] o.enc = "intset" /\ v \notin SetWords -> intsetFind(o.is, v)
      [] OTHER -> FALSE

\* A set without elements is deleted from the key space.
Kept(o) == IF IsSet(o) /\ setTypeSize(o) = 0 THEN NoSet ELSE o

-----------------------------------------------------------------------------
(* The commands. *)

saddCommand(k, v) ==
    LET o == IF sobjs[k] = NoSet THEN setTypeCreate(v) ELSE sobjs[k] IN
    /\ sobjs[k] # Other
    /\ sobjs' = [sobjs EXCEPT ![k] = setTypeAdd(o, v)]
    /\ smembers' = [smembers EXCEPT ![k] = @ \cup {v}]

sremCommand(k, v) ==
    /\ IsSet(sobjs[k])
    /\ sobjs' = [sobjs EXCEPT ![k] = Kept(setTypeRemove(@, v))]
    /\ smembers' = [smembers EXCEPT ![k] = @ \ {v}]

\* The element is looked for in the source only; it may be in the target already.
smoveCommand(src, dst, v) ==
    LET d == IF sobjs[dst] = NoSet THEN setTypeCreate(v) ELSE sobjs[dst] IN
    /\ IsSet(sobjs[src]) /\ sobjs[dst] # Other
    /\ src # dst /\ setTypeIsMember(sobjs[src], v)
    /\ sobjs' = [sobjs EXCEPT ![src] = Kept(setTypeRemove(@, v)), ![dst] = setTypeAdd(d, v)]
    /\ smembers' = [smembers EXCEPT ![src] = @ \ {v}, ![dst] = @ \cup {v}]

\* Any element may be the one; it is sent on as an SREM of it.
spopCommand(k) ==
    /\ IsSet(sobjs[k])
    /\ \E v \in setTypeNext(sobjs[k]) :
         /\ sobjs' = [sobjs EXCEPT ![k] = Kept(setTypeRemove(@, v))]
         /\ smembers' = [smembers EXCEPT ![k] = @ \ {v}]

\* DEL, of a set or of any other value.
delCommand(k) ==
    /\ sobjs[k] # NoSet
    /\ sobjs' = [sobjs EXCEPT ![k] = NoSet]
    /\ smembers' = [smembers EXCEPT ![k] = {}]

\* The elements of a result added one by one; the order does not matter for what
\* the result is in the end.
AddAll(o, S) == FoldSet(LAMBDA v, acc : setTypeAdd(acc, v), o, S)
RemoveAll(o, S) == FoldSet(LAMBDA v, acc : setTypeRemove(acc, v), o, S)

\* The result of SINTER: the elements of the smallest set that all others have.
sinterGenericCommand(sets) ==
    LET smallest == CHOOSE i \in DOMAIN sets :
            \A j \in DOMAIN sets : setTypeSize(sets[i]) <= setTypeSize(sets[j]) IN
    IF \E i \in DOMAIN sets : sets[i] = NoSet THEN NoSet
    ELSE AddAll(createIntsetObject,
                {v \in setTypeNext(sets[smallest]) :
                    \A j \in DOMAIN sets : setTypeIsMember(sets[j], v)})

\* SUNION and SDIFF: keys that do not exist are empty sets; the difference ends
\* when nothing is left.
sunionDiffGenericCommand(sets, op) ==
    LET present(i) == IF sets[i] = NoSet THEN {} ELSE setTypeNext(sets[i])
        first == AddAll(createIntsetObject, present(1)) IN
    FoldLeft(LAMBDA acc, i :
                CASE op = "union" -> AddAll(acc, present(i))
                  [] op = "diff" /\ setTypeSize(acc) > 0 -> RemoveAll(acc, present(i))
                  [] OTHER -> acc,
             first, [i \in 1..(Len(sets) - 1) |-> i + 1])

\* Mutant: an empty result leaves the target as it was.
StoreUnlessEmpty(dst, o) == IF Kept(o) = NoSet THEN sobjs ELSE [sobjs EXCEPT ![dst] = o]

\* A result replaces whatever the target held, or deletes it.
Store(dst, o) == [sobjs EXCEPT ![dst] = Kept(o)]

\* SINTERSTORE, SUNIONSTORE and SDIFFSTORE.  SINTERSTORE stops at the first key
\* that is missing, before it has seen the type of the later ones.
storeCommand(op, dst, keys) ==
    LET sets == [i \in DOMAIN keys |-> sobjs[keys[i]]]
        held == [i \in DOMAIN keys |-> smembers[keys[i]]]
        early == op = "inter" /\ sets[1] = NoSet IN
    /\ early \/ Other \notin Range(sets)
    /\ sobjs' = Store(dst, CASE early -> NoSet
                             [] ~early /\ op = "inter" -> sinterGenericCommand(sets)
                             [] OTHER -> sunionDiffGenericCommand(sets, op))
    /\ smembers' = [smembers EXCEPT ![dst] =
            CASE op = "inter" -> held[1] \cap held[2]
              [] op = "union" -> held[1] \cup held[2]
              [] op = "diff" -> held[1] \ held[2]]

SetsInit ==
    /\ sobjs \in [SetKeys -> {NoSet, Other}]
    /\ smembers = [k \in SetKeys |-> {}]

SetsNext ==
    \/ \E k \in SetKeys, v \in SetElems : saddCommand(k, v)
    \/ \E k \in SetKeys, v \in SetElems : sremCommand(k, v)
    \/ \E src, dst \in SetKeys, v \in SetElems : smoveCommand(src, dst, v)
    \/ \E k \in SetKeys : spopCommand(k) \/ delCommand(k)
    \/ \E op \in {"inter", "union", "diff"}, dst \in SetKeys, keys \in [1..2 -> SetKeys] :
         storeCommand(op, dst, keys)

SetsSpec == SetsInit /\ [][SetsNext]_setsVars

-----------------------------------------------------------------------------
\* A set holds exactly what the commands left in it, whatever the history of
\* additions, removals, widenings and conversions; a lookup finds exactly these
\* elements; and a key without elements is gone.
SetsHold ==
    \A k \in SetKeys : LET o == sobjs[k] IN
        IF IsSet(o) THEN /\ setTypeNext(o) = smembers[k] /\ smembers[k] # {}
                         /\ setTypeSize(o) = Cardinality(smembers[k])
                    ELSE smembers[k] = {}

\* SISMEMBER, SREM and SMOVE find the elements that are there and no others, also
\* when an element is wider than the array.
LookupsFind ==
    \A k \in SetKeys : IsSet(sobjs[k]) =>
        \A v \in SetElems : setTypeIsMember(sobjs[k], v) <=> v \in smembers[k]

\* An intset is strictly sorted, holds integers only, no more than the limit, and
\* its memory is as long as its values need.
IntsetsAreSmall ==
    \A k \in SetKeys : sobjs[k].enc = "intset" =>
        LET is == sobjs[k].is IN
        /\ is.length <= SetMaxIntset /\ smembers[k] \cap SetWords = {}
        /\ Len(is.cells) = is.length * is.enc
        /\ \A i \in 1..(is.length - 1) : _intsetGet(is, i - 1) < _intsetGet(is, i)

\* Sets are right in both encodings of t_set.c: contents, lookups and the array.
SetsSound == SetsHold /\ LookupsFind /\ IntsetsAreSmall
=============================================================================
