-------------------------------- MODULE Lists --------------------------------
(***************************************************************************)
(* Lists (t_list.c, without blocking: see Blocking) in their two           *)
(* encodings: the linked list, and the ziplist of ziplist.c, a block of    *)
(* memory in which every entry begins with the length of the entry before  *)
(* it.  That length takes one byte or five, so an insertion or a deletion  *)
(* may resize the next entry, and that one the entry after it.             *)
(*                                                                         *)
(* Values are numbers; ZlBody gives the bytes of a value with its encoding *)
(* byte.  A pointer into a ziplist is the number of the entry it points    *)
(* to, the one after the last being the end mark.                          *)
(***************************************************************************)
EXTENDS Integers, Sequences, FiniteSets, SequencesExt, FiniteSetsExt

CONSTANTS
    ListVals,           \* the values clients push
    ZlBody,             \* value -> bytes it takes in a ziplist, without prevlen
    ZlBig,              \* ZIP_BIGLEN
    ZlMaxLen,           \* UINT16_MAX, where the counter of entries stops
    ListLong,           \* the values longer than list-max-ziplist-value
    ListMaxZiplist,     \* list-max-ziplist-entries
    MaxListLen          \* bound: elements in the list

ASSUME ListsAssumption ==
    /\ ListVals \subseteq Nat \ {0} /\ ZlBody \in [ListVals -> Nat \ {0}]
    /\ ListLong \subseteq ListVals /\ ZlBig \in Nat /\ ZlMaxLen \in Nat
    /\ ListMaxZiplist \in Nat /\ MaxListLen \in Nat

VARIABLES
    lobj,               \* the object of the key
    lvals               \* the list it should be

listsVars == <<lobj, lvals>>

-----------------------------------------------------------------------------
(* The ziplist: zlbytes, zltail, zllen and the entries, each with its       *)
(* prevlen field, the size of that field, the bytes that follow, the value. *)

HeaderSize == 10
Damaged == 0            \* a value of which bytes were lost

RawLen(e) == e.psize + e.body

Sizes(es) == FoldLeft(LAMBDA acc, e : acc + RawLen(e), 0, es)

\* Where entry i, or the end mark, begins.
Offset(zl, i) == HeaderSize + Sizes(SubSeq(zl.es, 1, i - 1))
EntryAt(zl, offset) == SelectInSeq([i \in 1..(Len(zl.es) + 1) |-> Offset(zl, i)],
                                   LAMBDA o : o = offset)
End(zl) == Len(zl.es) + 1
IsEnd(zl, p) == p = End(zl)

\* zipPrevEncodeLength(NULL, len)
PrevSize(len) == IF len < ZlBig THEN 1 ELSE 5

ziplistNew == [bytes |-> HeaderSize + 1, tail |-> HeaderSize, len |-> 0, es |-> <<>>]

\* ZIPLIST_INCR_LENGTH
IncrLen(len, incr) == IF len < ZlMaxLen THEN len + incr ELSE len

\* Mutant: only the entry after p is looked at.
CascadeOnce(zl, p) ==
    LET rawlen == RawLen(zl.es[p]) IN
    IF p >= Len(zl.es) \/ zl.es[p + 1].plen = rawlen THEN zl
    ELSE LET extra == IF zl.es[p + 1].psize < PrevSize(rawlen) THEN 4 ELSE 0 IN
         [zl EXCEPT !.es[p + 1].psize = @ + extra, !.es[p + 1].plen = rawlen,
                    !.bytes = @ + extra,
                    !.tail = IF @ # Offset(zl, p + 1) THEN @ + extra ELSE @]

\* The entry after p gets the new length of p; if its field has to grow, it has a
\* new length itself.  A field that could shrink stays as large as it is.
RECURSIVE __ziplistCascadeUpdate(_, _)
__ziplistCascadeUpdate(zl, p) ==
    LET rawlen == RawLen(zl.es[p])
        grown == [zl EXCEPT
            !.es[p + 1].psize = 5, !.es[p + 1].plen = rawlen, !.bytes = @ + 4,
            !.tail = IF @ # Offset(zl, p + 1) THEN @ + 4 ELSE @] IN
    CASE p >= Len(zl.es) -> zl
      [] p < Len(zl.es) /\ zl.es[p + 1].plen = rawlen -> zl
      [] p < Len(zl.es) /\ zl.es[p + 1].plen # rawlen /\ zl.es[p + 1].psize < PrevSize(rawlen) ->
           __ziplistCascadeUpdate(grown, p + 1)
      [] OTHER -> [zl EXCEPT !.es[p + 1].plen = rawlen]

\* Delete num entries from p on.
__ziplistDelete(zl, p, num) ==
    LET n == Min({num, End(zl) - p})
        first == zl.es[p]
        next == p + n
        nextdiff == PrevSize(first.plen) - zl.es[next].psize
        tail(totlen) == IF IsEnd(zl, next) THEN Offset(zl, p) - first.plen
                        ELSE zl.tail - totlen + (IF next = Len(zl.es) THEN 0 ELSE nextdiff)
        cut(totlen) == [bytes |-> zl.bytes - totlen, tail |-> tail(totlen),
                        len |-> IncrLen(zl.len, -n),
                        es |-> SubSeq(zl.es, 1, p - 1) \o SubSeq(zl.es, next, Len(zl.es))]
        linked(c) == [c EXCEPT !.bytes = @ + nextdiff, !.es[p].plen = first.plen,
                               !.es[p].psize = PrevSize(first.plen)]
        relink(c) == CASE IsEnd(zl, next) -> c
                       [] ~IsEnd(zl, next) /\ nextdiff = 0 -> linked(c)
                       [] OTHER -> __ziplistCascadeUpdate(linked(c), p) IN
    IF n = 0 THEN zl ELSE relink(cut(Offset(zl, next) - Offset(zl, p)))

\* The tail entry through its offset.
Tail1(zl) == EntryAt(zl, zl.tail)

\* Insert v before p.  When the prevlen field of p shrinks by more bytes than the
\* new entry takes, the block is cut before its end has moved: the last entry
\* loses bytes.
__ziplistInsert(zl, p, v) ==
    LET prevlen == CASE ~IsEnd(zl, p) -> zl.es[p].plen
                     [] IsEnd(zl, p) /\ ~IsEnd(zl, Tail1(zl)) -> RawLen(zl.es[Tail1(zl)])
                     [] OTHER -> 0
        entry(plen) == [psize |-> PrevSize(plen), plen |-> plen, body |-> ZlBody[v], val |-> v]
        new(e, reqlen, nextdiff) ==
          [bytes |-> zl.bytes + reqlen + nextdiff, len |-> IncrLen(zl.len, 1),
           tail |-> IF IsEnd(zl, p) THEN Offset(zl, p)
                    ELSE zl.tail + reqlen + (IF p = Len(zl.es) THEN 0 ELSE nextdiff),
           es |-> InsertAt(zl.es, p, e)]
        linked(n, reqlen, nextdiff) ==
          [n EXCEPT !.es[p + 1].plen = reqlen, !.es[p + 1].psize = @ + nextdiff,
                    !.es[Len(n.es)].val = IF reqlen + nextdiff < 0 THEN Damaged ELSE @]
        insert(e, reqlen, nextdiff) ==
          CASE IsEnd(zl, p) -> new(e, reqlen, 0)
            [] ~IsEnd(zl, p) /\ nextdiff = 0 -> linked(new(e, reqlen, 0), reqlen, 0)
            [] OTHER -> __ziplistCascadeUpdate(
                          linked(new(e, reqlen, nextdiff), reqlen, nextdiff), p + 1)
        put(e) == insert(e, RawLen(e), PrevSize(RawLen(e)) - zl.es[p].psize) IN
    put(entry(prevlen))

ziplistPush(zl, v, where) == __ziplistInsert(zl, IF where = "head" THEN 1 ELSE End(zl), v)

\* NULL is 0; so is an entry that no prevlen or offset leads to.
ziplistPrev(zl, p) ==
    CASE IsEnd(zl, p) -> IF IsEnd(zl, Tail1(zl)) THEN 0 ELSE Tail1(zl)
      [] p = 1 -> 0
      [] OTHER -> EntryAt(zl, Offset(zl, p) - zl.es[p].plen)

ziplistNext(zl, p) == IF p >= Len(zl.es) THEN 0 ELSE p + 1

RECURSIVE Backward(_, _, _)
Backward(zl, p, index) ==
    CASE p = 0 \/ IsEnd(zl, p) -> 0
      [] index = 0 -> p
      [] OTHER -> Backward(zl, ziplistPrev(zl, p), index - 1)

ziplistIndex(zl, index) ==
    CASE index < 0 -> Backward(zl, Tail1(zl), -index - 1)
      [] index >= Len(zl.es) -> 0
      [] OTHER -> index + 1

ziplistDeleteRange(zl, index, num) ==
    LET p == ziplistIndex(zl, index) IN IF p = 0 THEN zl ELSE __ziplistDelete(zl, p, num)

\* Mutant: the counter is believed also when it is full.
ziplistLenField(zl) == zl.len

\* A full counter says nothing: the entries are counted.
ziplistLen(zl) == IF zl.len < ZlMaxLen THEN zl.len ELSE Len(zl.es)

\* The counter is set again when it can hold the count.
Recounted(zl) == [zl EXCEPT !.len = IF ziplistLen(zl) < ZlMaxLen THEN ziplistLen(zl) ELSE @]

-----------------------------------------------------------------------------
(* The object. *)

NoList == [enc |-> "none", zl |-> ziplistNew, ll |-> <<>>]
createZiplistObject == [NoList EXCEPT !.enc = "ziplist"]
IsZl(o) == o.enc = "ziplist"

ZlVals(zl) == [i \in DOMAIN zl.es |-> zl.es[i].val]

listTypeConvert(o) == [NoList EXCEPT !.enc = "linkedlist", !.ll = ZlVals(o.zl)]

\* Mutant: the length of the value is not looked at.
listTypeNoConversion(o, v) == o

listTypeTryConversion(o, v) == IF IsZl(o) /\ v \in ListLong THEN listTypeConvert(o) ELSE o

listTypeLength(o) == IF IsZl(o) THEN ziplistLen(o.zl) ELSE Len(o.ll)

listTypePush(o, v, where) ==
    LET t == listTypeTryConversion(o, v)
        u == IF IsZl(t) /\ ziplistLen(t.zl) >= ListMaxZiplist THEN listTypeConvert(t) ELSE t IN
    IF IsZl(u) THEN [u EXCEPT !.zl = ziplistPush(Recounted(@), v, where)]
    ELSE [u EXCEPT !.ll = IF where = "head" THEN <<v>> \o @ ELSE Append(@, v)]

listTypePop(o, where) ==
    IF IsZl(o) THEN [o EXCEPT !.zl = __ziplistDelete(@, ziplistIndex(@, IF where = "head" THEN 0 ELSE -1), 1)]
    ELSE [o EXCEPT !.ll = IF where = "head" THEN Tail(@) ELSE Front(@)]

\* Insert v before or after entry p.
listTypeInsert(o, p, v, where) ==
    CASE IsZl(o) /\ where = "head" -> [o EXCEPT !.zl = __ziplistInsert(@, p, v)]
      [] IsZl(o) /\ where = "tail" ->
           LET next == ziplistNext(o.zl, p) IN
           [o EXCEPT !.zl = IF next = 0 THEN ziplistPush(@, v, "tail") ELSE __ziplistInsert(@, next, v)]
      [] OTHER -> [o EXCEPT !.ll = InsertAt(@, IF where = "head" THEN p ELSE p + 1, v)]

listTypeEqual(o, p, v) == (IF IsZl(o) THEN o.zl.es[p].val ELSE o.ll[p]) = v

\* Mutant: the iterator steps on from the place of the deleted entry.
listTypeDeleteSkips(o, p, direction) ==
    LET n == IF IsZl(o) THEN Len(o.zl.es) ELSE Len(o.ll) IN
    [obj |-> IF IsZl(o) THEN [o EXCEPT !.zl = __ziplistDelete(@, p, 1)]
             ELSE [o EXCEPT !.ll = RemoveAt(@, p)],
     next |-> IF direction = "head" THEN p - 1 ELSE IF p + 1 < n THEN p + 1 ELSE 0]

\* Delete entry p; the iterator goes on with what follows in its direction.
listTypeDelete(o, p, direction) ==
    IF IsZl(o)
    THEN LET zl == __ziplistDelete(o.zl, p, 1) IN
         [obj |-> [o EXCEPT !.zl = zl],
          next |-> IF direction = "head" THEN ziplistPrev(zl, p)
                   ELSE IF IsEnd(zl, p) THEN 0 ELSE p]
    ELSE [obj |-> [o EXCEPT !.ll = RemoveAt(@, p)],
          next |-> IF direction = "head" THEN p - 1 ELSE IF p = Len(o.ll) THEN 0 ELSE p]

\* listTypeNext(): the entry after p in the direction of the iterator, or 0.
listTypeNext(o, p, direction) ==
    CASE IsZl(o) -> IF direction = "head" THEN ziplistPrev(o.zl, p) ELSE ziplistNext(o.zl, p)
      [] ~IsZl(o) /\ direction = "head" -> p - 1
      [] OTHER -> IF p = Len(o.ll) THEN 0 ELSE p + 1

\* What is left after a command; an empty list is deleted.
Left(o) == IF listTypeLength(o) = 0 THEN NoList
           ELSE IF IsZl(o) THEN [o EXCEPT !.zl = Recounted(@)] ELSE o

-----------------------------------------------------------------------------
(* The commands. *)

LPut(l, v, where) == IF where = "head" THEN <<v>> \o l ELSE Append(l, v)

\* LPUSH and RPUSH, LPUSHX and RPUSHX (only on a list).
pushCommand(v, where) ==
    /\ Len(lvals) < MaxListLen
    /\ lobj' = listTypePush(IF lobj.enc = "none" THEN createZiplistObject ELSE lobj, v, where)
    /\ lvals' = LPut(lvals, v, where)

\* The end of pushxGenericCommand: the number of entries is looked at last.
LimitEntries(o) == IF IsZl(o) /\ ziplistLen(o.zl) > ListMaxZiplist THEN listTypeConvert(o)
                   ELSE Left(o)

\* Its loop looks for the pivot and inserts there.
InsertAtPivot(o, pivot, v, where) ==
    LET at == {p \in 1..(IF IsZl(o) THEN Len(o.zl.es) ELSE Len(o.ll)) : listTypeEqual(o, p, pivot)} IN
    IF at = {} THEN o ELSE LimitEntries(listTypeInsert(o, Min(at), v, where))

\* LINSERT: the list is converted for a long value before it is known whether
\* the pivot is there.
linsertCommand(pivot, v, where) ==
    LET i == SelectInSeq(lvals, LAMBDA x : x = pivot) IN
    /\ lobj.enc # "none" /\ Len(lvals) < MaxListLen
    /\ lobj' = InsertAtPivot(listTypeTryConversion(lobj, v), pivot, v, where)
    /\ lvals' = IF i = 0 THEN lvals ELSE InsertAt(lvals, IF where = "head" THEN i ELSE i + 1, v)

\* LSET: in a ziplist the entry is deleted and a new one inserted in its place.
lsetCommand(index, v) ==
    LET o == listTypeTryConversion(lobj, v)
        n == Len(lvals)
        i == IF index < 0 THEN n + index + 1 ELSE index + 1
        p == ziplistIndex(o.zl, index) IN
    /\ lobj.enc # "none"
    /\ lobj' = CASE IsZl(o) /\ p = 0 -> o
                 [] IsZl(o) /\ p # 0 ->
                      [o EXCEPT !.zl = __ziplistInsert(__ziplistDelete(@, p, 1), p, v)]
                 [] ~IsZl(o) /\ i \in 1..n -> [o EXCEPT !.ll[i] = v]
                 [] OTHER -> o
    /\ lvals' = IF i \in 1..n THEN [lvals EXCEPT ![i] = v] ELSE lvals

popCommand(where) ==
    /\ lobj.enc # "none"
    /\ lobj' = Left(listTypePop(lobj, where))
    /\ lvals' = IF where = "head" THEN Tail(lvals) ELSE Front(lvals)

\* Negative indexes count from the end; the result is 0-based, or empty.
Range0(start, end, llen) ==
    LET s == Max({0, IF start < 0 THEN llen + start ELSE start})
        e == IF end < 0 THEN llen + end ELSE end IN
    IF s > e \/ s >= llen THEN <<>> ELSE <<s, Min({e, llen - 1})>>

\* LTRIM: cut ltrim elements from the head, then rtrim from the tail.
ltrimCommand(start, end) ==
    LET llen == listTypeLength(lobj)
        r == Range0(start, end, llen)
        ltrim == IF r = <<>> THEN llen ELSE r[1]
        rtrim == IF r = <<>> THEN 0 ELSE llen - r[2] - 1
        zl == ziplistDeleteRange(ziplistDeleteRange(lobj.zl, 0, ltrim), -rtrim, rtrim) IN
    /\ lobj.enc # "none"
    /\ lobj' = Left(IF IsZl(lobj) THEN [lobj EXCEPT !.zl = zl]
                    ELSE [lobj EXCEPT !.ll = SubSeq(@, ltrim + 1, llen - rtrim)])
    /\ lvals' = IF r = <<>> THEN <<>> ELSE SubSeq(lvals, r[1] + 1, r[2] + 1)

\* The loop of LREM from entry p on; toremove = 0: all.
RECURSIVE LremLoop(_, _, _, _, _)
LremLoop(o, p, v, direction, toremove) ==
    IF p = 0 THEN o
    ELSE IF ~listTypeEqual(o, p, v)
         THEN LremLoop(o, listTypeNext(o, p, direction), v, direction, toremove)
    ELSE LET d == listTypeDelete(o, p, direction) IN
         IF toremove = 1 THEN d.obj
         ELSE LremLoop(d.obj, d.next, v, direction, IF toremove = 0 THEN 0 ELSE toremove - 1)

\* What LREM promises: the first, or last, toremove occurrences go.
Removed(l, v, toremove) ==
    LET occ == {i \in DOMAIN l : l[i] = v}
        gone == {i \in occ : \/ toremove = 0
                             \/ toremove > 0 /\ Cardinality({j \in occ : j <= i}) <= toremove
                             \/ toremove < 0 /\ Cardinality({j \in occ : j >= i}) <= -toremove}
        left == SetToSortSeq(DOMAIN l \ gone, <) IN
    [i \in DOMAIN left |-> l[left[i]]]

lremCommand(v, toremove) ==
    LET direction == IF toremove < 0 THEN "head" ELSE "tail"
        n == listTypeLength(lobj)
        from == CASE toremove >= 0 -> 1
                  [] toremove < 0 /\ IsZl(lobj) -> ziplistIndex(lobj.zl, -1)
                  [] OTHER -> n IN
    /\ lobj.enc # "none"
    /\ lobj' = Left(LremLoop(lobj, from, v, direction, IF toremove < 0 THEN -toremove ELSE toremove))
    /\ lvals' = Removed(lvals, v, toremove)

-----------------------------------------------------------------------------
(* The commands that read. *)

lindexCommand(o, index) ==
    LET n == Len(o.ll)
        i == IF index < 0 THEN n + index + 1 ELSE index + 1
        p == ziplistIndex(o.zl, index) IN
    CASE IsZl(o) /\ p # 0 -> o.zl.es[p].val
      [] ~IsZl(o) /\ i \in 1..n -> o.ll[i]
      [] OTHER -> -1

\* LRANGE goes forward from the start of the range.
lrangeCommand(o, start, end) ==
    LET r == Range0(start, end, listTypeLength(o))
        p == ziplistIndex(o.zl, r[1])
        vals == IF IsZl(o) THEN ZlVals(o.zl) ELSE o.ll
        from == IF IsZl(o) THEN p ELSE r[1] + 1 IN
    IF r = <<>> THEN <<>> ELSE SubSeq(vals, from, from + r[2] - r[1])

ListsInit == lobj = NoList /\ lvals = <<>>

ListsNext ==
    \/ \E v \in ListVals, where \in {"head", "tail"} : pushCommand(v, where)
    \/ \E pivot, v \in ListVals, where \in {"head", "tail"} : linsertCommand(pivot, v, where)
    \/ \E v \in ListVals, index \in -(MaxListLen + 1)..MaxListLen : lsetCommand(index, v)
    \/ \E where \in {"head", "tail"} : popCommand(where)
    \/ \E start, end \in -(MaxListLen + 1)..MaxListLen : ltrimCommand(start, end)
    \/ \E v \in ListVals, toremove \in -2..2 : lremCommand(v, toremove)

ListsSpec == ListsInit /\ [][ListsNext]_listsVars

-----------------------------------------------------------------------------
\* The list holds what the commands left in it, in order, in both encodings: no
\* entry is lost, repeated or damaged when its neighbours change their size.
ListHolds ==
    /\ lobj.enc = "none" <=> lvals = <<>>
    /\ IsZl(lobj) => ZlVals(lobj.zl) = lvals
    /\ lobj.enc = "linkedlist" => lobj.ll = lvals

\* The lengths in a ziplist agree: every prevlen is the length of the entry
\* before, in a field large enough for it; zltail is where the last entry is,
\* zlbytes the length of it all, and the counter right as long as it is not full.
ZiplistLinked ==
    IsZl(lobj) => LET zl == lobj.zl IN
        /\ \A i \in DOMAIN zl.es :
             /\ zl.es[i].plen = IF i = 1 THEN 0 ELSE RawLen(zl.es[i - 1])
             /\ zl.es[i].psize >= PrevSize(zl.es[i].plen)
        /\ zl.tail = Offset(zl, Len(zl.es)) /\ zl.bytes = Offset(zl, End(zl)) + 1
        /\ zl.len < ZlMaxLen => zl.len = Len(zl.es)

\* LINDEX, LRANGE and LLEN give what they would on the list itself, with negative
\* indexes and ones that are out of range.
ListReadsAgree ==
    lobj.enc # "none" => LET n == Len(lvals) IN
        /\ listTypeLength(lobj) = n
        /\ \A index \in -(n + 1)..n :
             lindexCommand(lobj, index)
               = IF index < -n \/ index >= n THEN -1
                 ELSE lvals[IF index < 0 THEN n + index + 1 ELSE index + 1]
        /\ \A start, end \in -(n + 1)..n : LET at(i) == IF i < 0 THEN n + i ELSE i IN
             lrangeCommand(lobj, start, end)
               = SubSeq(lvals, Max({0, at(start)}) + 1, Min({n - 1, at(end)}) + 1)

\* Only a short list of short values is a ziplist.
ZiplistsAreSmall ==
    IsZl(lobj) => Len(lvals) <= ListMaxZiplist /\ Range(lvals) \cap ListLong = {}

\* A list is right in both encodings of t_list.c: contents, the lengths that link
\* a ziplist, what every read gives, and when it is a ziplist at all.
ListSound == ListHolds /\ ZiplistLinked /\ ListReadsAgree /\ ZiplistsAreSmall
=============================================================================
