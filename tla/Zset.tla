-------------------------------- MODULE Zset --------------------------------
(***************************************************************************)
(* A sorted set (t_zset.c) in its two encodings: the ziplist of            *)
(* (element, score) pairs, and the dict with the skip list, whose spans    *)
(* give the ranks.  The structure is modelled node by node, and every      *)
(* command of the type works on it as the code does; a function from       *)
(* elements to scores says what it should hold.                            *)
(*                                                                         *)
(* Elements are numbers, compared as compareStringObjects() compares them. *)
(* Scores are integers: infinities, and the NaN their sum gives, are left  *)
(* out.  A command with several elements does them one after the other, so *)
(* the model gives each command one.                                       *)
(***************************************************************************)
EXTENDS Integers, Sequences, FiniteSets, SequencesExt, FiniteSetsExt

CONSTANTS
    Members,            \* the elements
    LongMembers,        \* those longer than zset-max-ziplist-value
    Scores,             \* the scores clients use; bounds ZINCRBY as well
    ZsetMaxZiplist,     \* zset-max-ziplist-entries
    MaxLevel,           \* ZSKIPLIST_MAXLEVEL
    OtherZset           \* a second source of ZUNIONSTORE and ZINTERSTORE

ASSUME ZsetAssumption ==
    /\ Members \subseteq Nat \ {0} /\ LongMembers \subseteq Members
    /\ Scores \subseteq Int /\ ZsetMaxZiplist \in Nat /\ MaxLevel \in Nat \ {0}
    /\ DOMAIN OtherZset \subseteq Members

VARIABLES
    zobj,               \* the object: its encoding and the structures of it
    zscores             \* what it should hold: a function element -> score

zsetVars == <<zobj, zscores>>

Header == 0             \* zsl->header; NULL is -1
NULL == -1
Levels == 1..MaxLevel
Before(s1, m1, s2, m2) == s1 < s2 \/ (s1 = s2 /\ m1 < m2)

Put(f, m, s) == [x \in DOMAIN f \cup {m} |-> IF x = m THEN s ELSE f[x]]
Drop(f, S) == [x \in DOMAIN f \ S |-> f[x]]

\* The elements of f in the order of the sorted set.
Sorted(f) ==
    [i \in 1..Cardinality(DOMAIN f) |->
        CHOOSE m \in DOMAIN f :
            Cardinality({n \in DOMAIN f : Before(f[n], n, f[m], m)}) = i - 1]

-----------------------------------------------------------------------------
(* The skip list. *)

zslCreate ==
    [level |-> 1, length |-> 0, tail |-> NULL,
     node |-> [n \in {Header} |->
        [score |-> 0, backward |-> NULL,
         level |-> [i \in Levels |-> [forward |-> NULL, span |-> 0]]]]]

Forward(z, x, i) == z.node[x].level[i].forward
Span(z, x, i) == z.node[x].level[i].span

\* Walk on level i while the next node is in S, or while at most max nodes are
\* passed; p counts the nodes passed.
RECURSIVE Walk(_, _, _, _, _)
Walk(z, i, p, S, max) ==
    LET f == Forward(z, p.x, i)
        n == p.n + Span(z, p.x, i) IN
    IF f # NULL /\ f \in S /\ n <= max THEN Walk(z, i, [x |-> f, n |-> n], S, max) ELSE p

\* The search of every function of the skip list, from level i down: where it
\* leaves each level (update[i]) and the nodes passed until there (rank[i]).
RECURSIVE Descend(_, _, _, _, _)
Descend(z, i, p, S, max) ==
    IF i = 0 THEN <<>>
    ELSE LET q == Walk(z, i, p, S, max) IN Append(Descend(z, i - 1, q, S, max), q)

Path(z, S, max) == Descend(z, z.level, [x |-> Header, n |-> 0], S, max)

Nodes(z) == DOMAIN z.node \ {Header}
NodesBefore(z, s, m) == {n \in Nodes(z) : Before(z.node[n].score, n, s, m)}

\* Mutant: the links above the new node are left alone.
PassedOverNot(link) == link

\* A link that now passes over one more node.
PassedOver(link) == [link EXCEPT !.span = @ + 1]

\* zslInsert(), with the level that zslRandomLevel() returned.
zslInsert(z, s, m, level) ==
    LET path == Path(z, NodesBefore(z, s, m), z.length)
        update(i) == IF i <= z.level THEN path[i].x ELSE Header
        rank(i) == IF i <= z.level THEN path[i].n ELSE 0
        span(i) == IF i <= z.level THEN Span(z, update(i), i) ELSE z.length
        next == Forward(z, update(1), 1)
        x == [score |-> s,
              backward |-> IF update(1) = Header THEN NULL ELSE update(1),
              level |-> [i \in 1..level |->
                  [forward |-> Forward(z, update(i), i),
                   span |-> span(i) - (rank(1) - rank(i))]]]
        link(n, i) ==
            CASE n = update(i) /\ i <= level ->
                   [forward |-> m, span |-> (rank(1) - rank(i)) + 1]
              [] n = update(i) /\ i \in (level + 1)..z.level -> PassedOver(z.node[n].level[i])
              [] OTHER -> z.node[n].level[i]
        linked == [n \in DOMAIN z.node |-> [z.node[n] EXCEPT
            !.level = [i \in DOMAIN @ |-> link(n, i)],
            !.backward = IF n = next THEN m ELSE @]]
    IN  [level |-> IF level > z.level THEN level ELSE z.level,
         length |-> z.length + 1,
         tail |-> IF next = NULL THEN m ELSE z.tail,
         node |-> [n \in DOMAIN z.node \cup {m} |-> IF n = m THEN x ELSE linked[n]]]

\* zslDeleteNode() of x, whose predecessors are update.
zslDeleteNode(z, x, update) ==
    LET next == Forward(z, x, 1)
        link(n, i) ==
            CASE i <= z.level /\ n = update[i] /\ Forward(z, n, i) = x ->
                   [forward |-> Forward(z, x, i), span |-> Span(z, n, i) + Span(z, x, i) - 1]
              [] i <= z.level /\ n = update[i] /\ Forward(z, n, i) # x ->
                   [forward |-> Forward(z, n, i), span |-> Span(z, n, i) - 1]
              [] OTHER -> z.node[n].level[i]
        node == [n \in DOMAIN z.node \ {x} |-> [z.node[n] EXCEPT
            !.level = [i \in DOMAIN @ |-> link(n, i)],
            !.backward = IF n = next THEN z.node[x].backward ELSE @]]
        used == {i \in 2..z.level : node[Header].level[i].forward # NULL}
    IN  [level |-> IF used = {} THEN 1 ELSE Max(used),
         length |-> z.length - 1,
         tail |-> IF next = NULL THEN z.node[x].backward ELSE z.tail,
         node |-> node]

Xs(z, path) == [i \in 1..z.level |-> path[i].x]

\* Mutant: the element is looked for by its score alone.
zslDeleteByScore(z, s, m) ==
    LET path == Path(z, {n \in Nodes(z) : z.node[n].score < s}, z.length)
        x == Forward(z, path[1].x, 1) IN
    IF x = NULL THEN z ELSE zslDeleteNode(z, x, Xs(z, path))

\* Delete the element m with score s.
zslDelete(z, s, m) ==
    LET path == Path(z, NodesBefore(z, s, m), z.length)
        x == Forward(z, path[1].x, 1) IN
    IF x = m /\ z.node[x].score = s THEN zslDeleteNode(z, x, Xs(z, path)) ELSE z

\* Delete forward from the end of the path while the node is in S and num > 0;
\* the predecessors stay the same from node to node.
RECURSIVE DeleteWhile(_, _, _, _)
DeleteWhile(z, update, S, num) ==
    LET x == Forward(z, update[1], 1) IN
    IF x = NULL \/ x \notin S \/ num = 0 THEN z
    ELSE DeleteWhile(zslDeleteNode(z, x, update), update, S, num - 1)

ValueGteMin(s, r) == IF r.minex THEN s > r.min ELSE s >= r.min
ValueLteMax(s, r) == IF r.maxex THEN s < r.max ELSE s <= r.max

zslDeleteRangeByScore(z, r) ==
    LET path == Path(z, {n \in Nodes(z) : ~ValueGteMin(z.node[n].score, r)}, z.length) IN
    DeleteWhile(z, Xs(z, path), {n \in Nodes(z) : ValueLteMax(z.node[n].score, r)}, z.length)

\* start and end are ranks from 1.
zslDeleteRangeByRank(z, start, end) ==
    DeleteWhile(z, Xs(z, Path(z, Nodes(z), start - 1)), Nodes(z), end - start + 1)

\* Both encodings first rule out the ranges that hold nothing.
IsInRange(first, last, r) ==
    /\ ~(r.min > r.max \/ (r.min = r.max /\ (r.minex \/ r.maxex)))
    /\ ValueGteMin(last, r) /\ ValueLteMax(first, r)

zslIsInRange(z, r) ==
    z.tail # NULL /\ IsInRange(z.node[Forward(z, Header, 1)].score, z.node[z.tail].score, r)

zslFirstInRange(z, r) ==
    LET below == {n \in Nodes(z) : ~ValueGteMin(z.node[n].score, r)}
        x == Forward(z, Path(z, below, z.length)[1].x, 1) IN
    IF ~zslIsInRange(z, r) \/ ~ValueLteMax(z.node[x].score, r) THEN NULL ELSE x

zslLastInRange(z, r) ==
    LET x == Path(z, {n \in Nodes(z) : ValueLteMax(z.node[n].score, r)}, z.length)[1].x IN
    IF ~zslIsInRange(z, r) \/ ~ValueGteMin(z.node[x].score, r) THEN NULL ELSE x

\* Mutant: the walk stops before the element.
zslGetRankBefore(z, s, m) ==
    LET path == Path(z, NodesBefore(z, s, m), z.length)
        at == {i \in 1..z.level : path[i].x = m} IN
    IF at = {} THEN 0 ELSE path[Max(at)].n

\* The first level, from above, on which the walk ends at m gives its rank.
zslGetRank(z, s, m) ==
    LET path == Path(z, NodesBefore(z, s, m) \cup ({m} \cap Nodes(z)), z.length)
        at == {i \in 1..z.level : path[i].x = m} IN
    IF at = {} THEN 0 ELSE path[Max(at)].n

zslGetElementByRank(z, rank) ==
    LET path == Path(z, Nodes(z), rank)
        at == {i \in 1..z.level : path[i].n = rank} IN
    IF at = {} THEN NULL ELSE path[Max(at)].x

-----------------------------------------------------------------------------
(* The ziplist: a sequence of <<element, score>>. *)

\* The pair takes the place of the first one that is greater.
zzlInsert(zl, s, m) ==
    LET i == SelectInSeq(zl, LAMBDA p : p[2] > s \/ (p[2] = s /\ p[1] > m)) IN
    IF i = 0 THEN Append(zl, <<m, s>>) ELSE InsertAt(zl, i, <<m, s>>)

zzlFind(zl, m) == SelectInSeq(zl, LAMBDA p : p[1] = m)
zzlDelete(zl, i) == RemoveAt(zl, i)

zzlIsInRange(zl, r) == IsInRange(zl[1][2], Last(zl)[2], r)

\* 0 stands for NULL.
zzlFirstInRange(zl, r) ==
    LET i == SelectInSeq(zl, LAMBDA p : ValueGteMin(p[2], r)) IN
    IF ~zzlIsInRange(zl, r) \/ i = 0 \/ ~ValueLteMax(zl[i][2], r) THEN 0 ELSE i

zzlLastInRange(zl, r) ==
    LET i == SelectLastInSeq(zl, LAMBDA p : ValueLteMax(p[2], r)) IN
    IF ~zzlIsInRange(zl, r) \/ i = 0 \/ ~ValueGteMin(zl[i][2], r) THEN 0 ELSE i

\* From the first in range on, delete as long as the maximum is not passed.
zzlDeleteRangeByScore(zl, r) ==
    LET i == zzlFirstInRange(zl, r)
        past == {j \in DOMAIN zl : j >= i /\ ~ValueLteMax(zl[j][2], r)}
        end == IF past = {} THEN Len(zl) ELSE Min(past) - 1 IN
    IF i = 0 THEN zl ELSE SubSeq(zl, 1, i - 1) \o SubSeq(zl, end + 1, Len(zl))

\* ziplistDeleteRange() of the pairs start to end, counted from 1.
zzlDeleteRangeByRank(zl, start, end) ==
    SubSeq(zl, 1, start - 1) \o SubSeq(zl, end + 1, Len(zl))

-----------------------------------------------------------------------------
(* The object. *)

NoZset == [enc |-> "none", zl |-> <<>>, dict |-> <<>>, zsl |-> zslCreate]
Ziplist(zl) == [NoZset EXCEPT !.enc = "ziplist", !.zl = zl]
Skiplist(dict, z) == [NoZset EXCEPT !.enc = "skiplist", !.dict = dict, !.zsl = z]

\* The nodes of level 0 from the head.
RECURSIVE Chain(_, _)
Chain(z, x) == IF x = NULL THEN <<>> ELSE <<x>> \o Chain(z, Forward(z, x, 1))

zsetLength(o) == IF o.enc = "ziplist" THEN Len(o.zl) ELSE o.zsl.length

\* Pairs inserted in a new skip list one by one, with their random levels.
FromPairs(pairs, lv) ==
    LET z == FoldLeft(LAMBDA acc, p : zslInsert(acc, p[2], p[1], lv[p[1]]), zslCreate, pairs)
        dict == FoldLeft(LAMBDA acc, p : Put(acc, p[1], p[2]), <<>>, pairs)
    IN  Skiplist(dict, z)

\* zsetConvert() in both directions.
ToSkiplist(o, lv) == IF o.enc = "skiplist" THEN o ELSE FromPairs(o.zl, lv)
ToZiplist(o) == LET c == Chain(o.zsl, Forward(o.zsl, Header, 1)) IN
                Ziplist([i \in DOMAIN c |-> <<c[i], o.zsl.node[c[i]].score>>])

\* A command that leaves nothing deletes the key.
Stored(o) == IF zsetLength(o) = 0 THEN NoZset ELSE o

\* What is in the object, by the structure that finds an element.
Content(o) ==
    IF o.enc = "skiplist" THEN o.dict
    ELSE [m \in {o.zl[i][1] : i \in DOMAIN o.zl} |-> o.zl[zzlFind(o.zl, m)][2]]

Random(S) == [S -> Levels]

\* Mutant: the length of the element is not looked at.
zaddAnyLength(o, m, s, lv) ==
    LET i == zzlFind(o.zl, m)
        n == Ziplist(zzlInsert(o.zl, s, m)) IN
    CASE i # 0 /\ o.zl[i][2] = s -> o
      [] i # 0 /\ o.zl[i][2] # s -> Ziplist(zzlInsert(zzlDelete(o.zl, i), s, m))
      [] i = 0 /\ Len(n.zl) > ZsetMaxZiplist -> ToSkiplist(n, lv)
      [] OTHER -> n

\* ZADD and ZINCRBY of one element.
zaddZiplist(o, m, s, lv) ==
    LET i == zzlFind(o.zl, m)
        n == Ziplist(zzlInsert(o.zl, s, m)) IN
    CASE i # 0 /\ o.zl[i][2] = s -> o
      [] i # 0 /\ o.zl[i][2] # s -> Ziplist(zzlInsert(zzlDelete(o.zl, i), s, m))
      [] i = 0 /\ (Len(n.zl) > ZsetMaxZiplist \/ m \in LongMembers) -> ToSkiplist(n, lv)
      [] OTHER -> n

zaddSkiplist(o, m, s, lv) ==
    CASE m \in DOMAIN o.dict /\ o.dict[m] = s -> o
      [] m \in DOMAIN o.dict /\ o.dict[m] # s ->
           Skiplist([o.dict EXCEPT ![m] = s],
                    zslInsert(zslDelete(o.zsl, o.dict[m], m), s, m, lv[m]))
      [] OTHER -> Skiplist(Put(o.dict, m, s), zslInsert(o.zsl, s, m, lv[m]))

zaddGenericCommand(m, s, incr) ==
    LET created == IF ZsetMaxZiplist = 0 \/ m \in LongMembers
                   THEN Skiplist(<<>>, zslCreate) ELSE Ziplist(<<>>)
        o == IF zobj.enc = "none" THEN created ELSE zobj
        new == IF incr /\ m \in DOMAIN zscores THEN zscores[m] + s ELSE s IN
    /\ new \in Scores
    /\ \E lv \in Random(IF o.enc = "ziplist" THEN DOMAIN zscores \cup {m} ELSE {m}) :
         zobj' = IF o.enc = "ziplist" THEN zaddZiplist(o, m, new, lv)
                                      ELSE zaddSkiplist(o, m, new, lv)
    /\ zscores' = Put(zscores, m, new)

zremCommand(m) ==
    LET o == zobj IN
    /\ m \in DOMAIN Content(o)
    /\ zobj' = Stored(IF o.enc = "ziplist" THEN Ziplist(zzlDelete(o.zl, zzlFind(o.zl, m)))
                      ELSE Skiplist(Drop(o.dict, {m}), zslDelete(o.zsl, o.dict[m], m)))
    /\ zscores' = Drop(zscores, {m})

Ranges == [min: Scores, max: Scores, minex: BOOLEAN, maxex: BOOLEAN]
InRange(s, r) == ValueGteMin(s, r) /\ ValueLteMax(s, r)

\* The elements a skip list lost are deleted from the dict with their nodes.
Shrunk(o, z) == Skiplist(Drop(o.dict, Nodes(o.zsl) \ Nodes(z)), z)

zremrangebyscoreCommand(r) ==
    LET o == zobj IN
    /\ o.enc # "none"
    /\ zobj' = Stored(IF o.enc = "ziplist" THEN Ziplist(zzlDeleteRangeByScore(o.zl, r))
                      ELSE Shrunk(o, zslDeleteRangeByScore(o.zsl, r)))
    /\ zscores' = Drop(zscores, {m \in DOMAIN zscores : InRange(zscores[m], r)})

\* Negative indexes count from the end; the result is 0-based, or empty.
Sanitized(start, end, llen) ==
    LET s == IF start < 0 THEN llen + start ELSE start
        e == IF end < 0 THEN llen + end ELSE end
        s0 == IF s < 0 THEN 0 ELSE s IN
    IF s0 > e \/ s0 >= llen THEN <<>>
    ELSE <<s0, IF e >= llen THEN llen - 1 ELSE e>>

zremrangebyrankCommand(start, end) ==
    LET o == zobj
        se == Sanitized(start, end, zsetLength(o))
        sorted == Sorted(zscores) IN
    /\ o.enc # "none" /\ se # <<>>
    /\ zobj' = Stored(
         IF o.enc = "ziplist" THEN Ziplist(zzlDeleteRangeByRank(o.zl, se[1] + 1, se[2] + 1))
         ELSE Shrunk(o, zslDeleteRangeByRank(o.zsl, se[1] + 1, se[2] + 1)))
    /\ zscores' = Drop(zscores, {sorted[i] : i \in (se[1] + 1)..(se[2] + 1)})

\* ZUNIONSTORE and ZINTERSTORE over the sources, smallest first: an element is
\* taken from the first source that has it and looked up in the later ones.
Aggregated(a, b, aggr) ==
    CASE aggr = "sum" -> a + b [] aggr = "min" -> (IF b < a THEN b ELSE a)
      [] aggr = "max" -> (IF b > a THEN b ELSE a)

AggregateFrom(src, m, i, aggr) ==
    LET later == SelectSeq(SubSeq(src, i + 1, Len(src)), LAMBDA f : m \in DOMAIN f.map)
        score(f) == f.weight * f.map[m] IN
    FoldLeft(LAMBDA acc, f : Aggregated(acc, score(f), aggr), score(src[i]), later)

zunionInter(src, op, aggr) ==
    LET first(m) == SelectInSeq(src, LAMBDA f : m \in DOMAIN f.map)
        all == UNION {DOMAIN src[i].map : i \in DOMAIN src}
        kept == IF op = "union" THEN all
                ELSE {m \in DOMAIN src[1].map : \A i \in DOMAIN src : m \in DOMAIN src[i].map}
    IN  [m \in kept |-> AggregateFrom(src, m, first(m), aggr)]

\* What the two commands promise, for two sources.
UnionInter(f, g, op, aggr, w1, w2) ==
    [m \in IF op = "union" THEN DOMAIN f \cup DOMAIN g ELSE DOMAIN f \cap DOMAIN g |->
        IF m \notin DOMAIN g THEN w1 * f[m]
        ELSE IF m \notin DOMAIN f THEN w2 * g[m]
        ELSE Aggregated(w1 * f[m], w2 * g[m], aggr)]

zunionInterGenericCommand(op, aggr, w1, w2) ==
    LET s1 == [map |-> Content(zobj), weight |-> w1]
        s2 == [map |-> OtherZset, weight |-> w2]
        src == IF Cardinality(DOMAIN s2.map) < Cardinality(DOMAIN s1.map)
               THEN <<s2, s1>> ELSE <<s1, s2>>
        dst == zunionInter(src, op, aggr)
        sorted == Sorted(dst)
        pairs == [i \in DOMAIN sorted |-> <<sorted[i], dst[sorted[i]]>>]
    IN  /\ \A m \in DOMAIN dst : dst[m] \in Scores
        /\ \E lv \in Random(DOMAIN dst) :
             LET o == FromPairs(pairs, lv) IN
             zobj' = IF /\ o.zsl.length \in 1..ZsetMaxZiplist
                        /\ DOMAIN dst \cap LongMembers = {}
                     THEN ToZiplist(o) ELSE Stored(o)
        /\ zscores' = UnionInter(zscores, OtherZset, op, aggr, w1, w2)

-----------------------------------------------------------------------------
(* The commands that read. *)

\* The elements from x on, in the direction of the command.
RECURSIVE Follow(_, _, _)
Follow(z, x, reverse) ==
    IF x = NULL THEN <<>>
    ELSE <<x>> \o Follow(z, IF reverse THEN z.node[x].backward ELSE Forward(z, x, 1), reverse)

FollowZl(zl, i, reverse) ==
    [j \in 1..(IF reverse THEN i ELSE Len(zl) - i + 1) |->
        zl[IF reverse THEN i - j + 1 ELSE i + j - 1][1]]

\* ZRANGE and ZREVRANGE.
zrangeGenericCommand(o, start, end, reverse) ==
    LET llen == zsetLength(o)
        se == Sanitized(start, end, llen)
        ln == CASE reverse /\ se[1] = 0 -> o.zsl.tail
                [] reverse /\ se[1] > 0 -> zslGetElementByRank(o.zsl, llen - se[1])
                [] ~reverse /\ se[1] = 0 -> Forward(o.zsl, Header, 1)
                [] OTHER -> zslGetElementByRank(o.zsl, se[1] + 1)
        from == IF o.enc = "skiplist" THEN Follow(o.zsl, ln, reverse)
                ELSE FollowZl(o.zl, IF reverse THEN llen - se[1] ELSE se[1] + 1, reverse) IN
    IF se = <<>> THEN <<>> ELSE SubSeq(from, 1, se[2] - se[1] + 1)

\* ZRANGEBYSCORE, ZREVRANGEBYSCORE and ZCOUNT: from the first element in range,
\* skip offset elements, and go on while in range, limit times at most.
genericZrangebyscoreCommand(o, r, reverse, offset, limit) ==
    LET first == IF o.enc = "ziplist"
                 THEN IF reverse THEN zzlLastInRange(o.zl, r) ELSE zzlFirstInRange(o.zl, r)
                 ELSE IF reverse THEN zslLastInRange(o.zsl, r) ELSE zslFirstInRange(o.zsl, r)
        from == IF o.enc = "ziplist" THEN FollowZl(o.zl, first, reverse)
                                     ELSE Follow(o.zsl, first, reverse)
        rest == IF offset < 0 THEN <<>> ELSE SubSeq(from, offset + 1, Len(from))
        score(m) == Content(o)[m]
        out == {i \in DOMAIN rest : IF reverse THEN ~ValueGteMin(score(rest[i]), r)
                                               ELSE ~ValueLteMax(score(rest[i]), r)}
        n == IF out = {} THEN Len(rest) ELSE Min(out) - 1 IN
    IF first \in {0, NULL} THEN <<>>
    ELSE SubSeq(rest, 1, IF limit < 0 \/ limit > n THEN n ELSE limit)

\* ZRANK and ZREVRANK.
zrankGenericCommand(o, m, reverse) ==
    LET rank == IF o.enc = "ziplist" THEN zzlFind(o.zl, m)
                                     ELSE zslGetRank(o.zsl, o.dict[m], m) IN
    IF reverse THEN zsetLength(o) - rank ELSE rank - 1

-----------------------------------------------------------------------------
ZsetInit == zobj = NoZset /\ zscores = <<>>

ZsetNext ==
    \/ \E m \in Members, s \in Scores, incr \in BOOLEAN : zaddGenericCommand(m, s, incr)
    \/ \E m \in Members : zremCommand(m)
    \/ \E r \in Ranges : zremrangebyscoreCommand(r)
    \/ \E start, end \in -(Cardinality(Members) + 1)..Cardinality(Members) :
         zremrangebyrankCommand(start, end)
    \/ \E op \in {"union", "inter"}, aggr \in {"sum", "min", "max"}, w \in {1, 2} :
         zunionInterGenericCommand(op, aggr, w, 1)

ZsetSpec == ZsetInit /\ [][ZsetNext]_zsetVars

-----------------------------------------------------------------------------
\* The structures hold what the commands stored, in order, whatever the history
\* of insertions, score changes, range deletions and conversions: the dict, the
\* chain of nodes or the ziplist, and the scores of both.
ZsetHolds ==
    LET sorted == Sorted(zscores)
        o == zobj IN
    CASE o.enc = "none" -> sorted = <<>>
      [] o.enc = "ziplist" -> o.zl = [i \in DOMAIN sorted |-> <<sorted[i], zscores[sorted[i]]>>]
      [] o.enc = "skiplist" ->
           /\ o.dict = zscores
           /\ Chain(o.zsl, Forward(o.zsl, Header, 1)) = sorted
           /\ \A m \in Nodes(o.zsl) : o.zsl.node[m].score = zscores[m]
           /\ Nodes(o.zsl) = DOMAIN zscores /\ o.zsl.length = Len(sorted)

\* The pointers of the skip list agree with one another: every level skips
\* forward, a span is the number of nodes its link passes (to the end of the
\* list when there is no next node), the backward chain and the tail mirror
\* level 0, and the level of the list is that of its highest node.
SpansCount ==
    zobj.enc = "skiplist" =>
    LET z == zobj.zsl
        sorted == Sorted(zscores)
        rank(x) == IF x = Header THEN 0 ELSE SelectInSeq(sorted, LAMBDA m : m = x) IN
    /\ \A x \in DOMAIN z.node : \A i \in DOMAIN z.node[x].level : i <= z.level =>
         LET f == Forward(z, x, i)
             higher == {m \in Nodes(z) : rank(m) > rank(x) /\ i \in DOMAIN z.node[m].level} IN
         /\ f = (IF higher = {} THEN NULL ELSE CHOOSE m \in higher : \A n \in higher : rank(m) <= rank(n))
         /\ Span(z, x, i) = (IF f = NULL THEN z.length ELSE rank(f)) - rank(x)
    /\ z.tail = Last(sorted)
    /\ \A m \in Nodes(z) : z.node[m].backward = IF rank(m) = 1 THEN NULL ELSE sorted[rank(m) - 1]
    /\ z.level = Max({1} \cup {Len(z.node[m].level) : m \in Nodes(z)})

\* Only a small sorted set of short elements stays a ziplist, and a key with no
\* element left is deleted.
EncodingFits ==
    /\ zobj.enc = "ziplist" => /\ Len(zobj.zl) \in 1..ZsetMaxZiplist
                               /\ DOMAIN zscores \cap LongMembers = {}
    /\ zobj.enc = "skiplist" => zobj.zsl.length > 0

\* Every read gives the same as on the sorted sequence of elements: ZRANK and
\* ZREVRANK are positions, and ZRANGE and ZRANGEBYSCORE slices, from both ends,
\* with negative and too large indexes, exclusive bounds, offset and limit.
ReadsAgree ==
    zobj.enc # "none" =>
    LET sorted == Sorted(zscores)
        n == Len(sorted)
        dir(rev) == IF rev THEN Reverse(sorted) ELSE sorted
        slice(q, from, num) == SubSeq(q, from + 1, IF num < 0 THEN Len(q) ELSE Min({Len(q), from + num}))
        at(i) == IF i < 0 THEN n + i ELSE i IN
    \A rev \in BOOLEAN :
      /\ \A m \in DOMAIN zscores : zrankGenericCommand(zobj, m, rev) = SelectInSeq(dir(rev), LAMBDA e : e = m) - 1
      /\ \A start, end \in -(n + 1)..n :
           zrangeGenericCommand(zobj, start, end, rev)
             = SubSeq(dir(rev), Max({0, at(start)}) + 1, Min({n - 1, at(end)}) + 1)
      /\ \A r \in Ranges, offset \in -1..n, limit \in -1..n :
           genericZrangebyscoreCommand(zobj, r, rev, offset, limit)
             = IF offset < 0 THEN <<>>
               ELSE slice(SelectSeq(dir(rev), LAMBDA m : InRange(zscores[m], r)), offset, limit)

\* A sorted set is right: what it holds, how it is linked, how it is encoded and
\* what every read of t_zset.c gives.
SortedSetSound == ZsetHolds /\ SpansCount /\ EncodingFits /\ ReadsAgree
=============================================================================
