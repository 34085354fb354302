---------------------------- MODULE TableProofs ----------------------------
(***************************************************************************)
(* Proofs about the tables of the server: those of publish and subscribe,  *)
(* and the hash tables all others are made of.                             *)
(*                                                                         *)
(* Publish and subscribe: the two indices always agree, and the commands   *)
(* implement the relation of Subscriptions.  A command is a fold over its  *)
(* arguments, so what it does is proved by induction over them.  The       *)
(* induction is about the set of the positions up to which the claim holds *)
(* (UpTo), and a fold is made explicit as the function from positions to   *)
(* the states it goes through (FoldRuns).                                  *)
(*                                                                         *)
(* The hash table: it always is the function it represents (Map), its      *)
(* chains and counters agree at any point of a rehash, and an iteration    *)
(* meets every entry that stays once.  For every set of keys, every hash   *)
(* function, any sizes and any number of buckets moved at once.            *)
(***************************************************************************)
EXTENDS PubSub, Dict, TLAPS, FiniteSetTheorems, WellFoundedInduction, FunctionTheorems

(* Every set of naturals that is not empty has a least element.            *)
LEMMA LeastNat ==
    ASSUME NEW T \in SUBSET Nat, T # {}
    PROVE  \E m \in T : \A i \in T : m <= i
  <1> DEFINE R == {p \in Nat \X Nat : p[1] < p[2]}
  <1>1. R = OpToRel(<, Nat)
    BY Zenon DEF OpToRel
  <1>0. \A i, j \in Nat : i < j => <<i, j>> \in R
    OBVIOUS
  <1> HIDE DEF R
  <1>2. IsWellFoundedOn(R, Nat)
    BY <1>1, NatLessThanWellFounded, Zenon
  <1>3. PICK m \in T : \A i \in T : ~(<<i, m>> \in R)
    BY <1>2, WFMin, Zenon
  <1>4. ASSUME NEW i \in T PROVE m <= i
    <2>1. i \in Nat /\ m \in Nat
      OBVIOUS
    <2>2. ~(i < m)
      BY <2>1, <1>0, <1>3, Zenon
    <2> QED BY <2>1, <2>2
  <1> QED BY <1>4

(* Induction up to n, about a set.                                         *)
LEMMA UpTo ==
    ASSUME NEW n \in Nat, NEW Y, 0 \in Y, \A i \in 0..(n - 1) : i \in Y => i + 1 \in Y
    PROVE  \A i \in 0..n : i \in Y
  <1> DEFINE T == {i \in 0..n : i \notin Y}
  <1> SUFFICES ASSUME T # {} PROVE FALSE
    OBVIOUS
  <1>1. PICK m \in T : \A i \in T : m <= i
    <2>1. T \in SUBSET Nat
      OBVIOUS
    <2> HIDE DEF T
    <2> QED BY <2>1, LeastNat
  <1>2. m # 0 /\ m - 1 \in 0..(n - 1)
    OBVIOUS
  <1>3. m - 1 \in Y
    BY <1>1, <1>2
  <1> QED BY <1>2, <1>3

(* The maximum of a set of positions that has the last of them.            *)
LEMMA MaxUpTo == ASSUME NEW m \in Nat, NEW x \in SUBSET (1..m), m \in x PROVE Max(x) = m
  <1>1. \A y \in x : m >= y
    OBVIOUS
  <1>2. \A z \in x : (\A y \in x : z >= y) => z = m
    OBVIOUS
  <1> QED BY <1>1, <1>2, Zenon DEF Max

(* A set of positions that is not empty has its maximum.                   *)
LEMMA MaxIn == ASSUME NEW n \in Nat, NEW x \in SUBSET (1..n), x # {} PROVE Max(x) \in x
  <1> DEFINE U == {i \in Nat : \A j \in x : j <= i}
  <1>1. U \in SUBSET Nat /\ n \in U
    OBVIOUS
  <1>2. PICK m \in U : \A i \in U : m <= i
    <2> HIDE DEF U
    <2> QED BY <1>1, LeastNat
  <1>3. m \in Nat /\ \A j \in x : m >= j
    OBVIOUS
  <1>4. m \in x
    <2> SUFFICES ASSUME m \notin x PROVE FALSE
      OBVIOUS
    <2>1. \A j \in x : j \in Nat /\ j >= 1 /\ j <= m - 1
      BY <1>3
    <2>2. m - 1 \in U
      <3>1. PICK j \in x : TRUE
        OBVIOUS
      <3>2. m - 1 \in Nat
        BY <1>3, <2>1, <3>1
      <3> QED BY <2>1, <3>2
    <2> HIDE DEF U
    <2> QED BY <1>2, <1>3, <2>2
  <1> QED BY <1>3, <1>4, Zenon DEF Max

(* F says what the i-th of n elements makes of a state from X.             *)
IsFold(X, n, F) == n \in Nat /\ F \in [X \X (1..n) -> X]

(* The iteration of FoldLeft, from the state d: h has the result for every *)
(* subset of the elements.                                                 *)
Iterates(X, d, n, F, h) ==
    /\ h \in [SUBSET (1..n) -> X]
    /\ \A x \in SUBSET (1..n) :
          h[x] = IF x = {} THEN d ELSE F[<<h[x \ {Max(x)}], Max(x)>>]

(* There is such an iteration.                                             *)
LEMMA FoldExists ==
    ASSUME NEW X, NEW n, NEW F, IsFold(X, n, F), NEW d \in X
    PROVE  \E h : Iterates(X, d, n, F, h)
  <1> n \in Nat /\ F \in [X \X (1..n) -> X]
    BY DEF IsFold
  <1> DEFINE Is(m, h) == \A x \in SUBSET (1..m) :
                 h[x] = IF x = {} THEN d ELSE F[<<h[x \ {Max(x)}], Max(x)>>]
             Y == {m \in 0..n : \E h \in [SUBSET (1..m) -> X] : Is(m, h)}
  <1>1. 0 \in Y
    <2>1. 1..0 = {} /\ SUBSET (1..0) = {{}}
      OBVIOUS
    <2>2. [x \in {{}} |-> d] \in [SUBSET (1..0) -> X]
      BY <2>1
    <2>3. Is(0, [x \in {{}} |-> d])
      BY <2>1
    <2>4. 0 \in 0..n
      OBVIOUS
    <2> QED BY <2>2, <2>3, <2>4, Zenon
  <1>2. ASSUME NEW m \in 0..(n - 1), m \in Y PROVE m + 1 \in Y
    <2>1. PICK h \in [SUBSET (1..m) -> X] : Is(m, h)
      BY <1>2
    <2> DEFINE g == [x \in SUBSET (1..(m + 1)) |->
                        IF m + 1 \in x THEN F[<<h[x \ {m + 1}], m + 1>>] ELSE h[x]]
    <2>2. \A x \in SUBSET (1..(m + 1)) :
             /\ m + 1 \in x => x \ {m + 1} \in SUBSET (1..m)
             /\ m + 1 \notin x => x \in SUBSET (1..m)
      OBVIOUS
    <2>3. g \in [SUBSET (1..(m + 1)) -> X]
      <3>1. ASSUME NEW x \in SUBSET (1..(m + 1)), m + 1 \in x
            PROVE  F[<<h[x \ {m + 1}], m + 1>>] \in X
        <4>1. h[x \ {m + 1}] \in X /\ m + 1 \in 1..n
          BY <2>2, <3>1
        <4> QED BY <4>1
      <3>2. ASSUME NEW x \in SUBSET (1..(m + 1)), m + 1 \notin x PROVE h[x] \in X
        BY <2>2, <3>2
      <3> QED BY <3>1, <3>2, Zenon
    <2>4. Is(m + 1, g)
      <3> SUFFICES ASSUME NEW x \in SUBSET (1..(m + 1))
                   PROVE  g[x] = IF x = {} THEN d ELSE F[<<g[x \ {Max(x)}], Max(x)>>]
        OBVIOUS
      <3>1. CASE m + 1 \in x
        <4>1. Max(x) = m + 1
          BY <3>1, MaxUpTo
        <4>2. x \ {m + 1} \in SUBSET (1..(m + 1)) /\ m + 1 \notin x \ {m + 1}
          OBVIOUS
        <4>3. g[x \ {m + 1}] = h[x \ {m + 1}]
          BY <4>2, Zenon
        <4> QED BY <3>1, <4>1, <4>3, Zenon
      <3>2. CASE m + 1 \notin x
        <4>1. x \in SUBSET (1..m) /\ g[x] = h[x]
          BY <2>2, <3>2
        <4>2. x \ {Max(x)} \in SUBSET (1..(m + 1)) /\ m + 1 \notin x \ {Max(x)}
          BY <3>2
        <4>3. g[x \ {Max(x)}] = h[x \ {Max(x)}]
          BY <4>2, Zenon
        <4> QED BY <2>1, <4>1, <4>3, Zenon
      <3> QED BY <3>1, <3>2
    <2>5. m + 1 \in 0..n
      OBVIOUS
    <2> QED BY <2>3, <2>4, <2>5, Zenon
  <1>3. n \in Y
    <2> HIDE DEF Y
    <2>1. \A i \in 0..n : i \in Y
      BY <1>1, <1>2, UpTo
    <2> QED BY <2>1
  <1> QED BY <1>3, Zenon DEF Iterates

(* The minimum of a single position.                                       *)
LEMMA MinSingleton == ASSUME NEW i, i <= i PROVE Min({i}) = i
  BY Zenon DEF Min

(* RemoveAt takes one element out.                                         *)
LEMMA Removed ==
    ASSUME NEW S, NEW l \in Seq(S), NEW i \in 1..Len(l)
    PROVE  /\ RemoveAt(l, i) \in Seq(S) /\ Len(RemoveAt(l, i)) = Len(l) - 1
           /\ \A j \in 1..(Len(l) - 1) : RemoveAt(l, i)[j] = IF j < i THEN l[j] ELSE l[j + 1]
  <1> DEFINE a == SubSeq(l, 1, i - 1)
             b == SubSeq(l, i + 1, Len(l))
  <1>1. a \in Seq(S) /\ Len(a) = i - 1 /\ \A j \in 1..(i - 1) : a[j] = l[j]
    OBVIOUS
  <1>2. b \in Seq(S) /\ Len(b) = Len(l) - i /\ \A j \in 1..(Len(l) - i) : b[j] = l[i + j]
    OBVIOUS
  <1> HIDE DEF a, b
  <1>3. /\ a \o b \in Seq(S) /\ Len(a \o b) = Len(l) - 1
        /\ \A j \in 1..(Len(l) - 1) : (a \o b)[j] = IF j < i THEN l[j] ELSE l[j + 1]
    <2>1. a \o b \in Seq(S) /\ Len(a \o b) = Len(l) - 1
      BY <1>1, <1>2
    <2>2. ASSUME NEW j \in 1..(Len(l) - 1), j < i PROVE (a \o b)[j] = l[j]
      BY <1>1, <1>2, <2>2
    <2>3. ASSUME NEW j \in 1..(Len(l) - 1), ~(j < i) PROVE (a \o b)[j] = l[j + 1]
      <3>1. (a \o b)[j] = b[j - (i - 1)]
        BY <1>1, <1>2, <2>3
      <3>2. j - (i - 1) \in 1..(Len(l) - i) /\ i + (j - (i - 1)) = j + 1
        BY <2>3
      <3> QED BY <3>1, <3>2, <1>2
    <2> QED BY <2>1, <2>2, <2>3
  <1> QED BY <1>3 DEF RemoveAt, a, b

(* listDelNode() of an element that is there once.                         *)
LEMMA Deleted ==
    ASSUME NEW S, NEW l \in Seq(S), IsInjective(l), NEW e \in Range(l)
    PROVE  /\ DelFirst(l, e) \in Seq(S) /\ IsInjective(DelFirst(l, e))
           /\ Range(DelFirst(l, e)) = Range(l) \ {e}
  <1>1. PICK i \in 1..Len(l) : l[i] = e
    BY DEF Range
  <1>2. {j \in 1..Len(l) : l[j] = e} = {i}
    BY <1>1 DEF IsInjective
  <1>3. Min({i}) = i
    <2>1. i <= i
      OBVIOUS
    <2> QED BY <2>1, MinSingleton
  <1>4. DelFirst(l, e) = RemoveAt(l, i)
    BY <1>2, <1>3, Zenon DEF DelFirst, SelectInSeq
  <1> DEFINE r == RemoveAt(l, i)
  <1> HIDE DEF r
  <1>5. /\ r \in Seq(S) /\ Len(r) = Len(l) - 1
        /\ \A j \in 1..(Len(l) - 1) : r[j] = IF j < i THEN l[j] ELSE l[j + 1]
    BY Removed DEF r
  <1> DEFINE f(j) == IF j < i THEN j ELSE j + 1
  <1>a. ASSUME NEW j \in 1..Len(r)
        PROVE  f(j) \in 1..Len(l) /\ f(j) # i /\ r[j] = l[f(j)]
    <2>1. CASE j < i
      BY <1>5, <2>1
    <2>2. CASE ~(j < i)
      BY <1>5, <2>2
    <2> QED BY <2>1, <2>2
  <1>b. ASSUME NEW j \in 1..Len(r), NEW k \in 1..Len(r), f(j) = f(k) PROVE j = k
    BY <1>5, <1>b
  <1>c. ASSUME NEW j \in 1..Len(l), NEW k \in 1..Len(l), l[j] = l[k] PROVE j = k
    BY <1>c DEF IsInjective
  <1>d. DOMAIN r = 1..Len(r) /\ DOMAIN l = 1..Len(l)
    BY <1>5
  <1> HIDE DEF f
  <1>6. IsInjective(r)
    <2>1. ASSUME NEW j \in 1..Len(r), NEW k \in 1..Len(r), r[j] = r[k] PROVE j = k
      BY <1>a, <1>b, <1>c, <2>1, Zenon
    <2> QED BY <1>d, <2>1 DEF IsInjective
  <1>7. Range(r) \subseteq Range(l) \ {e}
    <2>1. ASSUME NEW j \in 1..Len(r) PROVE r[j] \in Range(l) /\ r[j] # e
      BY <1>1, <1>a, <1>c, <1>d, Zenon DEF Range
    <2> QED BY <1>d, <2>1, Zenon DEF Range
  <1>8. ASSUME NEW j \in 1..Len(l), l[j] # e PROVE l[j] \in Range(r)
    <2>1. CASE j < i
      <3>1. j \in DOMAIN r /\ r[j] = l[j]
        BY <1>5, <2>1
      <3> QED BY <3>1 DEF Range
    <2>2. CASE j > i
      <3>1. j - 1 \in DOMAIN r /\ r[j - 1] = l[j]
        BY <1>5, <2>2
      <3> QED BY <3>1 DEF Range
    <2> QED BY <1>1, <1>8, <2>1, <2>2
  <1>9. Range(l) \ {e} \subseteq Range(r)
    BY <1>8 DEF Range
  <1> QED BY <1>4, <1>5, <1>6, <1>7, <1>9 DEF r

(* An element that is not there is put at the end.                         *)
LEMMA Appended ==
    ASSUME NEW S, NEW l \in Seq(S), IsInjective(l), NEW e \in S, e \notin Range(l)
    PROVE  /\ Append(l, e) \in Seq(S) /\ IsInjective(Append(l, e))
           /\ Range(Append(l, e)) = Range(l) \cup {e} /\ Append(l, e) # <<>>
  <1> DEFINE r == Append(l, e)
  <1>1. /\ r \in Seq(S) /\ Len(r) = Len(l) + 1 /\ r # <<>>
        /\ \A j \in 1..Len(l) : r[j] = l[j]
        /\ r[Len(l) + 1] = e
    OBVIOUS
  <1> HIDE DEF r
  <1>2. IsInjective(r)
    BY <1>1 DEF IsInjective, Range
  <1>3. Range(r) = Range(l) \cup {e}
    BY <1>1 DEF Range
  <1> QED BY <1>1, <1>2, <1>3 DEF r

(* A sequence without repetitions is as long as it has elements.           *)
LEMMA LengthOfInjective ==
    ASSUME NEW S, NEW l \in Seq(S), IsInjective(l)
    PROVE  IsFiniteSet(Range(l)) /\ Cardinality(Range(l)) = Len(l)
  <1>1. l \in Bijection(1..Len(l), Range(l))
    BY DEF Bijection, Injection, Surjection, IsInjective, Range
  <1>2. IsFiniteSet(1..Len(l)) /\ Cardinality(1..Len(l)) = Len(l)
    <2>1. Len(l) \in Nat /\ 1 \in Int /\ Len(l) \in Int
      OBVIOUS
    <2>2. /\ IsFiniteSet(1..Len(l))
          /\ Cardinality(1..Len(l)) = IF 1 > Len(l) THEN 0 ELSE Len(l) - 1 + 1
      BY <2>1, FS_Interval, Zenon
    <2> QED BY <2>1, <2>2
  <1> QED BY <1>1, <1>2, FS_Bijection, Zenon DEF ExistsBijection

(* SetToSeq lists the elements of a finite set.                            *)
LEMMA Listed ==
    ASSUME NEW S, IsFiniteSet(S)
    PROVE  /\ SetToSeq(S) \in Seq(S) /\ IsInjective(SetToSeq(S)) /\ Range(SetToSeq(S)) = S
  <1> DEFINE l == SetToSeq(S)
             n == Cardinality(S)
  <1>1. n \in Nat /\ ExistsBijection(1..n, S)
    BY FS_CardinalityType
  <1>2. PICK f : f \in [1..n -> S] /\ IsInjective(f)
    BY <1>1, Zenon DEF ExistsBijection, Bijection, Injection
  <1>3. l \in [1..n -> S] /\ IsInjective(l)
    BY <1>2, Zenon DEF SetToSeq
  <1> HIDE DEF l
  <1>4. l \in Injection(1..n, S) /\ Cardinality(1..n) = n
    BY <1>1, <1>3, FS_Interval DEF Injection
  <1>5. l \in Surjection(1..n, S)
    BY <1>4, FS_Injection
  <1>6. Range(l) = S
    BY <1>3, <1>5 DEF Range, Surjection
  <1>7. l \in Seq(S)
    BY <1>1, <1>3
  <1> QED BY <1>3, <1>6, <1>7 DEF l

-----------------------------------------------------------------------------
PsLists == UNION {[D -> Seq(PsClients)] : D \in SUBSET Channels}

PsStates == [chans : PsLists, pats : Seq(PsClients \X Patterns),
             cc : [PsClients -> SUBSET Channels], cp : [PsClients -> Seq(Patterns)]]

(* The two indices of the channels agree.                                  *)
ChannelsAgree(s) ==
    \A ch \in Channels : LET l == ClientsOn(s, ch) IN
        /\ IsInjective(l) /\ Range(l) = {c \in PsClients : ch \in s.cc[c]}
        /\ ch \in DOMAIN s.chans => l # <<>>

(* And those of the patterns.                                              *)
PatternsAgree(s) ==
    /\ IsInjective(s.pats)
    /\ \A c \in PsClients, p \in Patterns : <<c, p>> \in Range(s.pats) <=> p \in Range(s.cp[c])
    /\ \A c \in PsClients : IsInjective(s.cp[c])

Good == {s \in PsStates : /\ ChannelsAgree(s) /\ PatternsAgree(s)
                          /\ \A c \in PsClients : IsFiniteSet(s.cc[c])}

(* WithList changes the entry of one channel, and drops it with its last   *)
(* client.                                                                 *)
LEMMA Relisted ==
    ASSUME NEW chans \in PsLists, NEW ch \in Channels, NEW l \in Seq(PsClients)
    PROVE  LET w == WithList(chans, ch, l) IN
           /\ w \in PsLists
           /\ ch \in DOMAIN w <=> l # <<>>
           /\ l # <<>> => w[ch] = l
           /\ \A x : x # ch => /\ x \in DOMAIN w <=> x \in DOMAIN chans
                               /\ x \in DOMAIN chans => w[x] = chans[x]
  <1> DEFINE w == WithList(chans, ch, l)
             D == (DOMAIN chans \cup {ch}) \ (IF l = <<>> THEN {ch} ELSE {})
  <1>1. DOMAIN chans \in SUBSET Channels /\ \A x \in DOMAIN chans : chans[x] \in Seq(PsClients)
    BY DEF PsLists
  <1>2. w = [x \in D |-> IF x = ch THEN l ELSE chans[x]]
    BY DEF WithList
  <1>3. D \in SUBSET Channels /\ w \in [D -> Seq(PsClients)]
    BY <1>1, <1>2
  <1>4. w \in PsLists
    BY <1>3 DEF PsLists
  <1> QED BY <1>2, <1>4

(* What is kept for a channel.                                             *)
LEMMA ListType ==
    ASSUME NEW s \in PsStates, NEW ch \in Channels PROVE ClientsOn(s, ch) \in Seq(PsClients)
  BY DEF PsStates, PsLists, ClientsOn

(* s with the channels C for the client c and the list l for a channel.    *)
Relist(s, c, C, ch, l) == [s EXCEPT !.cc[c] = C, !.chans = WithList(@, ch, l)]

(* l lists the patterns of s, for the client c those of q.                 *)
PatternList(s, c, q, l) ==
    /\ q \in Seq(Patterns) /\ IsInjective(q)
    /\ l \in Seq(PsClients \X Patterns) /\ IsInjective(l)
    /\ \A d \in PsClients, p \in Patterns :
          <<d, p>> \in Range(l) <=> IF d = c THEN p \in Range(q) ELSE <<d, p>> \in Range(s.pats)

(* s with the patterns q for the client c and the list l for all.          *)
Repattern(s, c, q, l) == [s EXCEPT !.cp[c] = q, !.pats = l]

(* A channel and a client change together: the indices still agree.        *)
LEMMA ChannelChanged ==
    ASSUME NEW s \in Good, NEW c \in PsClients, NEW ch \in Channels,
           NEW C \in SUBSET Channels, IsFiniteSet(C),
           \A x \in Channels \ {ch} : x \in C <=> x \in s.cc[c],
           NEW l \in Seq(PsClients), IsInjective(l),
           Range(l) = {d \in PsClients : IF d = c THEN ch \in C ELSE ch \in s.cc[d]}
    PROVE  LET u == Relist(s, c, C, ch, l)
           IN  u \in Good /\ u.cc = [s.cc EXCEPT ![c] = C] /\ u.pats = s.pats /\ u.cp = s.cp
  <1> DEFINE u == Relist(s, c, C, ch, l)
             w == WithList(s.chans, ch, l)
  <1>1. /\ s \in PsStates /\ ChannelsAgree(s) /\ PatternsAgree(s)
        /\ \A d \in PsClients : IsFiniteSet(s.cc[d])
    BY DEF Good
  <1>2. /\ u.cc = [s.cc EXCEPT ![c] = C] /\ u.pats = s.pats /\ u.cp = s.cp /\ u.chans = w
    BY <1>1 DEF PsStates, Relist
  <1>3. /\ w \in PsLists
        /\ ch \in DOMAIN w <=> l # <<>>
        /\ l # <<>> => w[ch] = l
        /\ \A x : x # ch => /\ x \in DOMAIN w <=> x \in DOMAIN s.chans
                            /\ x \in DOMAIN s.chans => w[x] = s.chans[x]
    <2>1. s.chans \in PsLists
      BY <1>1 DEF PsStates
    <2> QED BY <2>1, Relisted
  <1>4. u \in PsStates
    BY <1>1, <1>2, <1>3 DEF PsStates, Relist
  <1> HIDE DEF w, u
  <1>5. ClientsOn(u, ch) = l
    BY <1>2, <1>3 DEF ClientsOn
  <1>6. \A x \in Channels \ {ch} : ClientsOn(u, x) = ClientsOn(s, x)
    BY <1>2, <1>3 DEF ClientsOn
  <1>7. \A d \in PsClients : u.cc[d] = IF d = c THEN C ELSE s.cc[d]
    BY <1>1, <1>2 DEF PsStates
  <1>8. ChannelsAgree(u)
    <2> SUFFICES ASSUME NEW x \in Channels
                 PROVE  /\ IsInjective(ClientsOn(u, x))
                        /\ Range(ClientsOn(u, x)) = {d \in PsClients : x \in u.cc[d]}
                        /\ x \in DOMAIN u.chans => ClientsOn(u, x) # <<>>
      BY DEF ChannelsAgree
    <2>1. CASE x = ch
      BY <2>1, <1>2, <1>3, <1>5, <1>7
    <2>2. CASE x # ch
      <3>1. ClientsOn(u, x) = ClientsOn(s, x) /\ (x \in DOMAIN u.chans <=> x \in DOMAIN s.chans)
        BY <2>2, <1>6, <1>2, <1>3
      <3>2. {d \in PsClients : x \in u.cc[d]} = {d \in PsClients : x \in s.cc[d]}
        BY <2>2, <1>7
      <3> QED BY <3>1, <3>2, <1>1 DEF ChannelsAgree
    <2> QED BY <2>1, <2>2
  <1>9. PatternsAgree(u)
    BY <1>1, <1>2 DEF PatternsAgree
  <1>10. \A d \in PsClients : IsFiniteSet(u.cc[d])
    BY <1>1, <1>7
  <1> QED BY <1>2, <1>4, <1>8, <1>9, <1>10 DEF Good, u

(* pubsubSubscribeChannel() of one channel.                                *)
LEMMA Subscribed ==
    ASSUME NEW s \in Good, NEW c \in PsClients, NEW ch \in Channels
    PROVE  LET u == pubsubSubscribeChannel(s, c, ch)
           IN  /\ u \in Good /\ u.cc = [s.cc EXCEPT ![c] = @ \cup {ch}]
               /\ u.pats = s.pats /\ u.cp = s.cp
  <1> DEFINE C == s.cc[c] \cup {ch}
             l == Append(ClientsOn(s, ch), c)
  <1>1. s \in PsStates /\ ChannelsAgree(s) /\ IsFiniteSet(s.cc[c])
    BY DEF Good
  <1>2. s.cc \in [PsClients -> SUBSET Channels]
    BY <1>1 DEF PsStates
  <1>3. CASE ch \in s.cc[c]
    <2>1. s.cc = [s.cc EXCEPT ![c] = @ \cup {ch}]
      BY <1>2, <1>3
    <2> QED BY <1>3, <2>1 DEF pubsubSubscribeChannel
  <1>4. CASE ch \notin s.cc[c]
    <2>1. C \in SUBSET Channels /\ \A x \in Channels \ {ch} : x \in C <=> x \in s.cc[c]
      BY <1>2
    <2>2. IsFiniteSet(C)
      BY <1>1, FS_AddElement
    <2>3. /\ ClientsOn(s, ch) \in Seq(PsClients) /\ IsInjective(ClientsOn(s, ch))
          /\ Range(ClientsOn(s, ch)) = {d \in PsClients : ch \in s.cc[d]}
      BY <1>1, ListType DEF ChannelsAgree
    <2>4. c \notin Range(ClientsOn(s, ch))
      BY <1>4, <2>3
    <2>5. l \in Seq(PsClients) /\ IsInjective(l) /\ Range(l) = Range(ClientsOn(s, ch)) \cup {c}
      BY <2>3, <2>4, Appended
    <2>6. Range(l) = {d \in PsClients : IF d = c THEN ch \in C ELSE ch \in s.cc[d]}
      BY <2>3, <2>5
    <2> DEFINE u == Relist(s, c, C, ch, l)
    <2>7. u \in Good /\ u.cc = [s.cc EXCEPT ![c] = C] /\ u.pats = s.pats /\ u.cp = s.cp
      <3> HIDE DEF C, l
      <3> QED BY <2>1, <2>2, <2>5, <2>6, ChannelChanged
    <2>8. pubsubSubscribeChannel(s, c, ch) = u
      BY <1>4 DEF pubsubSubscribeChannel, Relist
    <2> QED BY <2>7, <2>8
  <1> QED BY <1>3, <1>4

(* pubsubUnsubscribeChannel() of one channel.                              *)
LEMMA Unsubscribed ==
    ASSUME NEW s \in Good, NEW c \in PsClients, NEW ch \in Channels
    PROVE  LET u == pubsubUnsubscribeChannel(s, c, ch)
           IN  /\ u \in Good /\ u.cc = [s.cc EXCEPT ![c] = @ \ {ch}]
               /\ u.pats = s.pats /\ u.cp = s.cp
  <1> DEFINE C == s.cc[c] \ {ch}
             l == DelFirst(ClientsOn(s, ch), c)
  <1>1. s \in PsStates /\ ChannelsAgree(s) /\ IsFiniteSet(s.cc[c])
    BY DEF Good
  <1>2. s.cc \in [PsClients -> SUBSET Channels]
    BY <1>1 DEF PsStates
  <1>3. CASE ch \notin s.cc[c]
    <2>1. s.cc = [s.cc EXCEPT ![c] = @ \ {ch}]
      BY <1>2, <1>3
    <2> QED BY <1>3, <2>1 DEF pubsubUnsubscribeChannel
  <1>4. CASE ch \in s.cc[c]
    <2>1. C \in SUBSET Channels /\ \A x \in Channels \ {ch} : x \in C <=> x \in s.cc[c]
      BY <1>2
    <2>2. IsFiniteSet(C)
      BY <1>1, FS_RemoveElement
    <2>3. /\ ClientsOn(s, ch) \in Seq(PsClients) /\ IsInjective(ClientsOn(s, ch))
          /\ Range(ClientsOn(s, ch)) = {d \in PsClients : ch \in s.cc[d]}
      BY <1>1, ListType DEF ChannelsAgree
    <2>4. c \in Range(ClientsOn(s, ch))
      BY <1>4, <2>3
    <2>5. l \in Seq(PsClients) /\ IsInjective(l) /\ Range(l) = Range(ClientsOn(s, ch)) \ {c}
      BY <2>3, <2>4, Deleted
    <2>6. Range(l) = {d \in PsClients : IF d = c THEN ch \in C ELSE ch \in s.cc[d]}
      <3> HIDE DEF l
      <3> QED BY <2>3, <2>5
    <2> DEFINE u == Relist(s, c, C, ch, l)
    <2>7. u \in Good /\ u.cc = [s.cc EXCEPT ![c] = C] /\ u.pats = s.pats /\ u.cp = s.cp
      <3> HIDE DEF C, l
      <3> QED BY <2>1, <2>2, <2>5, <2>6, ChannelChanged
    <2>8. pubsubUnsubscribeChannel(s, c, ch) = u
      BY <1>4 DEF pubsubUnsubscribeChannel, Relist
    <2> QED BY <2>7, <2>8
  <1> QED BY <1>3, <1>4

(* A client and the list of the patterns change together: they still       *)
(* agree.                                                                  *)
LEMMA PatternChanged ==
    ASSUME NEW s \in Good, NEW c \in PsClients, NEW q, NEW l, PatternList(s, c, q, l)
    PROVE  /\ Repattern(s, c, q, l) \in Good
           /\ Repattern(s, c, q, l).cc = s.cc /\ Repattern(s, c, q, l).pats = l
  <1> DEFINE u == Repattern(s, c, q, l)
  <1>1. /\ s \in PsStates /\ ChannelsAgree(s) /\ PatternsAgree(s)
        /\ \A d \in PsClients : IsFiniteSet(s.cc[d])
    BY DEF Good
  <1>2. /\ u.cp = [s.cp EXCEPT ![c] = q] /\ u.pats = l /\ u.cc = s.cc /\ u.chans = s.chans
    BY <1>1 DEF PsStates, Repattern
  <1>3. u \in PsStates
    BY <1>1, <1>2 DEF PsStates, Repattern, PatternList
  <1> HIDE DEF u
  <1>4. \A d \in PsClients : u.cp[d] = IF d = c THEN q ELSE s.cp[d]
    BY <1>1, <1>2 DEF PsStates
  <1>5. ChannelsAgree(u)
    BY <1>1, <1>2 DEF ChannelsAgree, ClientsOn
  <1>6. PatternsAgree(u)
    BY <1>1, <1>2, <1>4 DEF PatternsAgree, PatternList
  <1> QED BY <1>1, <1>2, <1>3, <1>5, <1>6 DEF Good, u

(* pubsubSubscribePattern() of one pattern.                                *)
LEMMA PatternSubscribed ==
    ASSUME NEW s \in Good, NEW c \in PsClients, NEW p \in Patterns
    PROVE  LET u == pubsubSubscribePattern(s, c, p)
           IN  /\ u \in Good /\ u.cc = s.cc
               /\ Range(u.pats) = Range(s.pats) \cup {<<c, p>>}
  <1> DEFINE q == Append(s.cp[c], p)
             l == Append(s.pats, <<c, p>>)
  <1>1. s \in PsStates /\ PatternsAgree(s)
    BY DEF Good
  <1>2. /\ s.cp[c] \in Seq(Patterns) /\ s.pats \in Seq(PsClients \X Patterns)
        /\ IsInjective(s.cp[c]) /\ IsInjective(s.pats)
    BY <1>1 DEF PsStates, PatternsAgree
  <1>3. CASE p \in Range(s.cp[c])
    <2>1. <<c, p>> \in Range(s.pats)
      BY <1>1, <1>3 DEF PatternsAgree
    <2> QED BY <1>3, <2>1 DEF pubsubSubscribePattern
  <1>4. CASE p \notin Range(s.cp[c])
    <2>1. <<c, p>> \notin Range(s.pats) /\ <<c, p>> \in PsClients \X Patterns
      BY <1>1, <1>4 DEF PatternsAgree
    <2>2. q \in Seq(Patterns) /\ IsInjective(q) /\ Range(q) = Range(s.cp[c]) \cup {p}
      BY <1>2, <1>4, Appended
    <2>3. /\ l \in Seq(PsClients \X Patterns) /\ IsInjective(l)
          /\ Range(l) = Range(s.pats) \cup {<<c, p>>}
      BY <1>2, <2>1, Appended
    <2> DEFINE u == Repattern(s, c, q, l)
    <2>4. u \in Good /\ u.cc = s.cc /\ u.pats = l
      <3> HIDE DEF q, l
      <3>1. PatternList(s, c, q, l)
        BY <1>1, <2>2, <2>3 DEF PatternsAgree, PatternList
      <3> QED BY <3>1, PatternChanged
    <2>5. pubsubSubscribePattern(s, c, p) = u
      BY <1>4 DEF pubsubSubscribePattern, Repattern
    <2> QED BY <2>3, <2>4, <2>5
  <1> QED BY <1>3, <1>4

(* pubsubUnsubscribePattern() of one pattern.                              *)
LEMMA PatternUnsubscribed ==
    ASSUME NEW s \in Good, NEW c \in PsClients, NEW p \in Patterns
    PROVE  LET u == pubsubUnsubscribePattern(s, c, p)
           IN  /\ u \in Good /\ u.cc = s.cc
               /\ Range(u.pats) = Range(s.pats) \ {<<c, p>>}
  <1> DEFINE q == DelFirst(s.cp[c], p)
             l == DelFirst(s.pats, <<c, p>>)
  <1>1. s \in PsStates /\ PatternsAgree(s)
    BY DEF Good
  <1>2. /\ s.cp[c] \in Seq(Patterns) /\ s.pats \in Seq(PsClients \X Patterns)
        /\ IsInjective(s.cp[c]) /\ IsInjective(s.pats)
    BY <1>1 DEF PsStates, PatternsAgree
  <1>3. CASE p \notin Range(s.cp[c])
    <2>1. <<c, p>> \notin Range(s.pats)
      BY <1>1, <1>3 DEF PatternsAgree
    <2> QED BY <1>3, <2>1 DEF pubsubUnsubscribePattern
  <1>4. CASE p \in Range(s.cp[c])
    <2>1. <<c, p>> \in Range(s.pats)
      BY <1>1, <1>4 DEF PatternsAgree
    <2>2. q \in Seq(Patterns) /\ IsInjective(q) /\ Range(q) = Range(s.cp[c]) \ {p}
      BY <1>2, <1>4, Deleted
    <2>3. /\ l \in Seq(PsClients \X Patterns) /\ IsInjective(l)
          /\ Range(l) = Range(s.pats) \ {<<c, p>>}
      BY <1>2, <2>1, Deleted
    <2> DEFINE u == Repattern(s, c, q, l)
    <2>4. u \in Good /\ u.cc = s.cc /\ u.pats = l
      <3> HIDE DEF q, l
      <3>1. PatternList(s, c, q, l)
        BY <1>1, <2>2, <2>3 DEF PatternsAgree, PatternList
      <3> QED BY <3>1, PatternChanged
    <2>5. pubsubUnsubscribePattern(s, c, p) = u
      BY <1>4 DEF pubsubUnsubscribePattern, Repattern
    <2> QED BY <2>3, <2>4, <2>5
  <1> QED BY <1>3, <1>4

-----------------------------------------------------------------------------
(* The fold of the first i elements takes the i-th last.                   *)
LEMMA FoldSteps ==
    ASSUME NEW n \in Nat, NEW i \in 1..n
    PROVE  /\ 1..i \in SUBSET (1..n) /\ 1..i # {} /\ Max(1..i) = i
           /\ (1..i) \ {Max(1..i)} = 1..(i - 1) /\ 1..(i - 1) \in SUBSET (1..n)
  <1>1. Max(1..i) = i
    <2>1. i \in Nat /\ 1..i \in SUBSET (1..i) /\ i \in 1..i
      OBVIOUS
    <2> QED BY <2>1, MaxUpTo
  <1> QED BY <1>1

(* it agrees with F where it is at a state of X, and starts with d.        *)
Follows(X, d, n, F, it) ==
    /\ d \in X /\ it[{}] = d
    /\ \A x \in SUBSET (1..n) : x # {} /\ it[x \ {Max(x)}] \in X
          => it[x] = F[<<it[x \ {Max(x)}], Max(x)>>]

(* g has the states one after the other.                                   *)
Runs(X, d, n, F, g) ==
    g \in [0..n -> X] /\ g[0] = d /\ \A i \in 1..n : g[i] = F[<<g[i - 1], i>>]

(* Such an iteration goes through the elements in their order.             *)
LEMMA FoldRuns ==
    ASSUME NEW X, NEW n, NEW F, IsFold(X, n, F), NEW d, NEW it, Follows(X, d, n, F, it)
    PROVE  \E g : Runs(X, d, n, F, g) /\ g[n] = it[1..n]
  <1> /\ n \in Nat /\ F \in [X \X (1..n) -> X] /\ d \in X /\ it[{}] = d
      /\ \A x \in SUBSET (1..n) : x # {} /\ it[x \ {Max(x)}] \in X
              => it[x] = F[<<it[x \ {Max(x)}], Max(x)>>]
    BY DEF IsFold, Follows
  <1> DEFINE Y == {i \in 0..n : it[1..i] \in X}
             g == [i \in 0..n |-> it[1..i]]
  <1>1. 1..0 = {} /\ 0 \in 0..n
    OBVIOUS
  <1>2. 0 \in Y
    BY <1>1
  <1>3. ASSUME NEW i \in 1..n, it[1..(i - 1)] \in X
        PROVE  it[1..i] = F[<<it[1..(i - 1)], i>>] /\ it[1..i] \in X
    <2>1. it[1..i] = F[<<it[1..(i - 1)], i>>]
      BY <1>3, FoldSteps, Zenon
    <2>2. F[<<it[1..(i - 1)], i>>] \in X
      BY <1>3
    <2> QED BY <2>1, <2>2
  <1>4. ASSUME NEW i \in 0..(n - 1), i \in Y PROVE i + 1 \in Y
    <2>1. i + 1 \in 1..n /\ (i + 1) - 1 = i /\ i + 1 \in 0..n /\ it[1..i] \in X
      BY <1>4
    <2>2. it[1..((i + 1) - 1)] \in X
      BY <2>1
    <2>3. it[1..(i + 1)] \in X
      BY <1>3, <2>1, <2>2
    <2> QED BY <2>1, <2>3
  <1>5. \A i \in 0..n : it[1..i] \in X
    <2>1. \A i \in 0..n : i \in Y
      <3> HIDE DEF Y
      <3> QED BY <1>2, <1>4, UpTo
    <2> QED BY <2>1
  <1>6. g \in [0..n -> X]
    BY <1>5
  <1>7. g[0] = d /\ g[n] = it[1..n]
    BY <1>1
  <1>8. ASSUME NEW i \in 1..n PROVE g[i] = F[<<g[i - 1], i>>]
    <2>1. i - 1 \in 0..n /\ i \in 0..n
      OBVIOUS
    <2>2. g[i] = it[1..i] /\ g[i - 1] = it[1..(i - 1)]
      BY <2>1
    <2> QED BY <1>3, <1>5, <2>1, <2>2
  <1> HIDE DEF g
  <1> QED BY <1>6, <1>7, <1>8 DEF Runs

(* SUBSCRIBE goes through the channels in their order.                     *)
LEMMA SubscribeRuns ==
    ASSUME NEW s \in Good, NEW c \in PsClients, NEW t \in Seq(Channels)
    PROVE  \E g \in [0..Len(t) -> Good] :
              /\ g[0] = s
              /\ g[Len(t)] = FoldLeft(LAMBDA v, ch : pubsubSubscribeChannel(v, c, ch), s, t)
              /\ \A i \in 1..Len(t) : g[i] = pubsubSubscribeChannel(g[i - 1], c, t[i])
  <1> DEFINE n == Len(t)
             F == [a \in Good \X (1..n) |-> pubsubSubscribeChannel(a[1], c, t[a[2]])]
             Eq(it) == it = [x \in SUBSET (1..n) |-> IF x = {} THEN s
                               ELSE pubsubSubscribeChannel(it[x \ {Max(x)}], c, t[Max(x)])]
             it == CHOOSE it : Eq(it)
  <1>1. n \in Nat /\ DOMAIN t = 1..n /\ \A i \in 1..n : t[i] \in Channels
    OBVIOUS
  <1>2. IsFold(Good, n, F)
    BY <1>1, Subscribed DEF IsFold
  <1>3. \A v \in Good, i \in 1..n : F[<<v, i>>] = pubsubSubscribeChannel(v, c, t[i])
    OBVIOUS
  <1>4. FoldLeft(LAMBDA v, ch : pubsubSubscribeChannel(v, c, ch), s, t) = it[1..n]
    BY <1>1, Zenon DEF FoldLeft, MapThenFoldSet
  <1> HIDE DEF F, n
  <1>5. \A x \in SUBSET (1..n) : x # {} => Max(x) \in 1..n
    BY <1>1, MaxIn
  <1>6. PICK h : Iterates(Good, s, n, F, h)
    BY <1>2, FoldExists
  <1>7. Eq(h)
    BY <1>3, <1>5, <1>6 DEF Iterates
  <1>8. Eq(it)
    <2> HIDE DEF Eq
    <2> QED BY <1>7, Zenon
  <1> HIDE DEF it
  <1>9. Follows(Good, s, n, F, it)
    BY <1>3, <1>5, <1>8 DEF Follows
  <1>10. PICK g : Runs(Good, s, n, F, g) /\ g[n] = it[1..n]
    BY <1>2, <1>9, FoldRuns
  <1>11. \A i \in 1..n : g[i] = pubsubSubscribeChannel(g[i - 1], c, t[i])
    <2>1. \A i \in 1..n : i - 1 \in 0..n
      BY <1>1
    <2>2. \A i \in 1..n : g[i - 1] \in Good
      BY <2>1, <1>10 DEF Runs
    <2> QED BY <1>3, <1>10, <2>2, Zenon DEF Runs
  <1> QED BY <1>4, <1>10, <1>11, Zenon DEF n, Runs

(* And leaves the client subscribed to all of them.                        *)
LEMMA SubscribeFold ==
    ASSUME NEW s \in Good, NEW c \in PsClients, NEW t \in Seq(Channels)
    PROVE  LET u == FoldLeft(LAMBDA v, ch : pubsubSubscribeChannel(v, c, ch), s, t)
           IN  /\ u \in Good /\ u.cc = [s.cc EXCEPT ![c] = @ \cup Range(t)]
               /\ u.pats = s.pats /\ u.cp = s.cp
  <1> DEFINE n == Len(t)
             u == FoldLeft(LAMBDA v, ch : pubsubSubscribeChannel(v, c, ch), s, t)
  <1>1. n \in Nat /\ DOMAIN t = 1..n /\ \A i \in 1..n : t[i] \in Channels
    OBVIOUS
  <1>2. PICK g \in [0..n -> Good] :
              /\ g[0] = s /\ g[n] = u
              /\ \A i \in 1..n : g[i] = pubsubSubscribeChannel(g[i - 1], c, t[i])
    BY SubscribeRuns, ZenonT(60)
  <1> HIDE DEF u, n
  <1> DEFINE Y == {i \in 0..n : /\ g[i].cc = [s.cc EXCEPT ![c] = @ \cup {t[j] : j \in 1..i}]
                                /\ g[i].pats = s.pats /\ g[i].cp = s.cp}
  <1>3. s.cc \in [PsClients -> SUBSET Channels]
    BY DEF Good, PsStates
  <1>4. \A i \in 0..n : i \in Y
    <2>1. 0 \in Y
      <3>1. {t[j] : j \in 1..0} = {} /\ 0 \in 0..n
        BY <1>1
      <3>2. s.cc = [s.cc EXCEPT ![c] = @ \cup {t[j] : j \in 1..0}]
        BY <1>3, <3>1
      <3> QED BY <1>2, <3>1, <3>2, Zenon
    <2>2. ASSUME NEW i \in 0..(n - 1), i \in Y PROVE i + 1 \in Y
      <3> DEFINE v == g[i]
                 w == g[i + 1]
      <3>1. i + 1 \in 1..n /\ (i + 1) - 1 = i
        BY <1>1
      <3>2. w = pubsubSubscribeChannel(v, c, t[i + 1]) /\ v \in Good /\ t[i + 1] \in Channels
        BY <1>1, <1>2, <3>1
      <3> HIDE DEF v, w
      <3>3. w.cc = [v.cc EXCEPT ![c] = @ \cup {t[i + 1]}] /\ w.pats = v.pats /\ w.cp = v.cp
        BY <3>2, Subscribed
      <3>4. /\ v.cc = [s.cc EXCEPT ![c] = @ \cup {t[j] : j \in 1..i}]
            /\ v.pats = s.pats /\ v.cp = s.cp
        BY <2>2 DEF v
      <3>5. {t[j] : j \in 1..i} \cup {t[i + 1]} = {t[j] : j \in 1..(i + 1)}
        BY <1>1
      <3>6. w.cc = [s.cc EXCEPT ![c] = @ \cup {t[j] : j \in 1..(i + 1)}]
        BY <1>3, <3>3, <3>4, <3>5
      <3> QED BY <1>1, <3>1, <3>3, <3>4, <3>6 DEF w
    <2> HIDE DEF Y
    <2> QED BY <1>1, <2>1, <2>2, UpTo
  <1>5. n \in Y
    BY <1>1, <1>4
  <1>6. Range(t) = {t[j] : j \in 1..n}
    BY <1>1 DEF Range
  <1>7. u \in Good
    BY <1>1, <1>2
  <1> QED BY <1>2, <1>5, <1>6, <1>7, Zenon DEF u

(* UNSUBSCRIBE goes through the channels in their order.                   *)
LEMMA UnsubscribeRuns ==
    ASSUME NEW s \in Good, NEW c \in PsClients, NEW t \in Seq(Channels)
    PROVE  \E g \in [0..Len(t) -> Good] :
              /\ g[0] = s
              /\ g[Len(t)] = FoldLeft(LAMBDA v, ch : pubsubUnsubscribeChannel(v, c, ch), s, t)
              /\ \A i \in 1..Len(t) : g[i] = pubsubUnsubscribeChannel(g[i - 1], c, t[i])
  <1> DEFINE n == Len(t)
             F == [a \in Good \X (1..n) |-> pubsubUnsubscribeChannel(a[1], c, t[a[2]])]
             Eq(it) == it = [x \in SUBSET (1..n) |-> IF x = {} THEN s
                               ELSE pubsubUnsubscribeChannel(it[x \ {Max(x)}], c, t[Max(x)])]
             it == CHOOSE it : Eq(it)
  <1>1. n \in Nat /\ DOMAIN t = 1..n /\ \A i \in 1..n : t[i] \in Channels
    OBVIOUS
  <1>2. IsFold(Good, n, F)
    BY <1>1, Unsubscribed DEF IsFold
  <1>3. \A v \in Good, i \in 1..n : F[<<v, i>>] = pubsubUnsubscribeChannel(v, c, t[i])
    OBVIOUS
  <1>4. FoldLeft(LAMBDA v, ch : pubsubUnsubscribeChannel(v, c, ch), s, t) = it[1..n]
    BY <1>1, Zenon DEF FoldLeft, MapThenFoldSet
  <1> HIDE DEF F, n
  <1>5. \A x \in SUBSET (1..n) : x # {} => Max(x) \in 1..n
    BY <1>1, MaxIn
  <1>6. PICK h : Iterates(Good, s, n, F, h)
    BY <1>2, FoldExists
  <1>7. Eq(h)
    BY <1>3, <1>5, <1>6 DEF Iterates
  <1>8. Eq(it)
    <2> HIDE DEF Eq
    <2> QED BY <1>7, Zenon
  <1> HIDE DEF it
  <1>9. Follows(Good, s, n, F, it)
    BY <1>3, <1>5, <1>8 DEF Follows
  <1>10. PICK g : Runs(Good, s, n, F, g) /\ g[n] = it[1..n]
    BY <1>2, <1>9, FoldRuns
  <1>11. \A i \in 1..n : g[i] = pubsubUnsubscribeChannel(g[i - 1], c, t[i])
    <2>1. \A i \in 1..n : i - 1 \in 0..n
      BY <1>1
    <2>2. \A i \in 1..n : g[i - 1] \in Good
      BY <2>1, <1>10 DEF Runs
    <2> QED BY <1>3, <1>10, <2>2, Zenon DEF Runs
  <1> QED BY <1>4, <1>10, <1>11, Zenon DEF n, Runs

(* And leaves the client subscribed to none of them.                       *)
LEMMA UnsubscribeFold ==
    ASSUME NEW s \in Good, NEW c \in PsClients, NEW t \in Seq(Channels)
    PROVE  LET u == FoldLeft(LAMBDA v, ch : pubsubUnsubscribeChannel(v, c, ch), s, t)
           IN  /\ u \in Good /\ u.cc = [s.cc EXCEPT ![c] = @ \ Range(t)]
               /\ u.pats = s.pats /\ u.cp = s.cp
  <1> DEFINE n == Len(t)
             u == FoldLeft(LAMBDA v, ch : pubsubUnsubscribeChannel(v, c, ch), s, t)
  <1>1. n \in Nat /\ DOMAIN t = 1..n /\ \A i \in 1..n : t[i] \in Channels
    OBVIOUS
  <1>2. PICK g \in [0..n -> Good] :
              /\ g[0] = s /\ g[n] = u
              /\ \A i \in 1..n : g[i] = pubsubUnsubscribeChannel(g[i - 1], c, t[i])
    BY UnsubscribeRuns, ZenonT(60)
  <1> HIDE DEF u, n
  <1> DEFINE Y == {i \in 0..n : /\ g[i].cc = [s.cc EXCEPT ![c] = @ \ {t[j] : j \in 1..i}]
                                /\ g[i].pats = s.pats /\ g[i].cp = s.cp}
  <1>3. s.cc \in [PsClients -> SUBSET Channels]
    BY DEF Good, PsStates
  <1>4. \A i \in 0..n : i \in Y
    <2>1. 0 \in Y
      <3>1. {t[j] : j \in 1..0} = {} /\ 0 \in 0..n
        BY <1>1
      <3>2. s.cc = [s.cc EXCEPT ![c] = @ \ {t[j] : j \in 1..0}]
        BY <1>3, <3>1
      <3> QED BY <1>2, <3>1, <3>2, Zenon
    <2>2. ASSUME NEW i \in 0..(n - 1), i \in Y PROVE i + 1 \in Y
      <3> DEFINE v == g[i]
                 w == g[i + 1]
      <3>1. i + 1 \in 1..n /\ (i + 1) - 1 = i
        BY <1>1
      <3>2. w = pubsubUnsubscribeChannel(v, c, t[i + 1]) /\ v \in Good /\ t[i + 1] \in Channels
        BY <1>1, <1>2, <3>1
      <3> HIDE DEF v, w
      <3>3. w.cc = [v.cc EXCEPT ![c] = @ \ {t[i + 1]}] /\ w.pats = v.pats /\ w.cp = v.cp
        BY <3>2, Unsubscribed
      <3>4. /\ v.cc = [s.cc EXCEPT ![c] = @ \ {t[j] : j \in 1..i}]
            /\ v.pats = s.pats /\ v.cp = s.cp
        BY <2>2 DEF v
      <3>5. {t[j] : j \in 1..i} \cup {t[i + 1]} = {t[j] : j \in 1..(i + 1)}
        BY <1>1
      <3>6. w.cc = [s.cc EXCEPT ![c] = @ \ {t[j] : j \in 1..(i + 1)}]
        BY <1>3, <3>3, <3>4, <3>5
      <3> QED BY <1>1, <3>1, <3>3, <3>4, <3>6 DEF w
    <2> HIDE DEF Y
    <2> QED BY <1>1, <2>1, <2>2, UpTo
  <1>5. n \in Y
    BY <1>1, <1>4
  <1>6. Range(t) = {t[j] : j \in 1..n}
    BY <1>1 DEF Range
  <1>7. u \in Good
    BY <1>1, <1>2
  <1> QED BY <1>2, <1>5, <1>6, <1>7, Zenon DEF u

(* PSUBSCRIBE goes through the patterns in their order.                    *)
LEMMA PsubscribeRuns ==
    ASSUME NEW s \in Good, NEW c \in PsClients, NEW t \in Seq(Patterns)
    PROVE  \E g \in [0..Len(t) -> Good] :
              /\ g[0] = s
              /\ g[Len(t)] = FoldLeft(LAMBDA v, p : pubsubSubscribePattern(v, c, p), s, t)
              /\ \A i \in 1..Len(t) : g[i] = pubsubSubscribePattern(g[i - 1], c, t[i])
  <1> DEFINE n == Len(t)
             F == [a \in Good \X (1..n) |-> pubsubSubscribePattern(a[1], c, t[a[2]])]
             Eq(it) == it = [x \in SUBSET (1..n) |-> IF x = {} THEN s
                               ELSE pubsubSubscribePattern(it[x \ {Max(x)}], c, t[Max(x)])]
             it == CHOOSE it : Eq(it)
  <1>1. n \in Nat /\ DOMAIN t = 1..n /\ \A i \in 1..n : t[i] \in Patterns
    OBVIOUS
  <1>2. IsFold(Good, n, F)
    BY <1>1, PatternSubscribed DEF IsFold
  <1>3. \A v \in Good, i \in 1..n : F[<<v, i>>] = pubsubSubscribePattern(v, c, t[i])
    OBVIOUS
  <1>4. FoldLeft(LAMBDA v, p : pubsubSubscribePattern(v, c, p), s, t) = it[1..n]
    BY <1>1, Zenon DEF FoldLeft, MapThenFoldSet
  <1> HIDE DEF F, n
  <1>5. \A x \in SUBSET (1..n) : x # {} => Max(x) \in 1..n
    BY <1>1, MaxIn
  <1>6. PICK h : Iterates(Good, s, n, F, h)
    BY <1>2, FoldExists
  <1>7. Eq(h)
    BY <1>3, <1>5, <1>6 DEF Iterates
  <1>8. Eq(it)
    <2> HIDE DEF Eq
    <2> QED BY <1>7, Zenon
  <1> HIDE DEF it
  <1>9. Follows(Good, s, n, F, it)
    BY <1>3, <1>5, <1>8 DEF Follows
  <1>10. PICK g : Runs(Good, s, n, F, g) /\ g[n] = it[1..n]
    BY <1>2, <1>9, FoldRuns
  <1>11. \A i \in 1..n : g[i] = pubsubSubscribePattern(g[i - 1], c, t[i])
    <2>1. \A i \in 1..n : i - 1 \in 0..n
      BY <1>1
    <2>2. \A i \in 1..n : g[i - 1] \in Good
      BY <2>1, <1>10 DEF Runs
    <2> QED BY <1>3, <1>10, <2>2, Zenon DEF Runs
  <1> QED BY <1>4, <1>10, <1>11, Zenon DEF n, Runs

(* And leaves the client subscribed to all of them.                        *)
LEMMA PsubscribeFold ==
    ASSUME NEW s \in Good, NEW c \in PsClients, NEW t \in Seq(Patterns)
    PROVE  LET u == FoldLeft(LAMBDA v, p : pubsubSubscribePattern(v, c, p), s, t)
           IN  /\ u \in Good /\ u.cc = s.cc
               /\ Range(u.pats) = Range(s.pats) \cup ({c} \X Range(t))
  <1> DEFINE n == Len(t)
             u == FoldLeft(LAMBDA v, p : pubsubSubscribePattern(v, c, p), s, t)
  <1>1. n \in Nat /\ DOMAIN t = 1..n /\ \A i \in 1..n : t[i] \in Patterns
    OBVIOUS
  <1>2. PICK g \in [0..n -> Good] :
              /\ g[0] = s /\ g[n] = u
              /\ \A i \in 1..n : g[i] = pubsubSubscribePattern(g[i - 1], c, t[i])
    BY PsubscribeRuns, ZenonT(60)
  <1> HIDE DEF u, n
  <1> DEFINE Y == {i \in 0..n :
                /\ g[i].cc = s.cc
                /\ Range(g[i].pats) = Range(s.pats) \cup ({c} \X {t[j] : j \in 1..i})}
  <1>3. \A i \in 0..n : i \in Y
    <2>1. 0 \in Y
      <3>1. {t[j] : j \in 1..0} = {} /\ 0 \in 0..n
        BY <1>1
      <3>2. Range(s.pats) = Range(s.pats) \cup ({c} \X {t[j] : j \in 1..0})
        BY <3>1
      <3> QED BY <1>2, <3>1, <3>2, Zenon
    <2>2. ASSUME NEW i \in 0..(n - 1), i \in Y PROVE i + 1 \in Y
      <3> DEFINE v == g[i]
                 w == g[i + 1]
      <3>1. i + 1 \in 1..n /\ (i + 1) - 1 = i /\ i + 1 \in 0..n
        BY <1>1
      <3>2. w = pubsubSubscribePattern(v, c, t[i + 1]) /\ v \in Good /\ t[i + 1] \in Patterns
        BY <1>1, <1>2, <3>1
      <3> HIDE DEF v, w
      <3>3. w.cc = v.cc /\ Range(w.pats) = Range(v.pats) \cup {<<c, t[i + 1]>>}
        BY <3>2, PatternSubscribed
      <3>4. /\ v.cc = s.cc
            /\ Range(v.pats) = Range(s.pats) \cup ({c} \X {t[j] : j \in 1..i})
        BY <2>2 DEF v
      <3>5. ({c} \X {t[j] : j \in 1..i}) \cup {<<c, t[i + 1]>>} = {c} \X {t[j] : j \in 1..(i + 1)}
        BY <1>1
      <3>6. Range(w.pats) = Range(s.pats) \cup ({c} \X {t[j] : j \in 1..(i + 1)})
        BY <3>3, <3>4, <3>5
      <3> QED BY <3>1, <3>3, <3>4, <3>6, Zenon DEF w
    <2> HIDE DEF Y
    <2> QED BY <1>1, <2>1, <2>2, UpTo
  <1>4. n \in Y
    BY <1>1, <1>3
  <1>5. Range(t) = {t[j] : j \in 1..n}
    BY <1>1 DEF Range
  <1>6. u \in Good
    BY <1>1, <1>2
  <1> QED BY <1>2, <1>4, <1>5, <1>6, Zenon DEF u

(* PUNSUBSCRIBE goes through the patterns in their order.                  *)
LEMMA PunsubscribeRuns ==
    ASSUME NEW s \in Good, NEW c \in PsClients, NEW t \in Seq(Patterns)
    PROVE  \E g \in [0..Len(t) -> Good] :
              /\ g[0] = s
              /\ g[Len(t)] = FoldLeft(LAMBDA v, p : pubsubUnsubscribePattern(v, c, p), s, t)
              /\ \A i \in 1..Len(t) : g[i] = pubsubUnsubscribePattern(g[i - 1], c, t[i])
  <1> DEFINE n == Len(t)
             F == [a \in Good \X (1..n) |-> pubsubUnsubscribePattern(a[1], c, t[a[2]])]
             Eq(it) == it = [x \in SUBSET (1..n) |-> IF x = {} THEN s
                               ELSE pubsubUnsubscribePattern(it[x \ {Max(x)}], c, t[Max(x)])]
             it == CHOOSE it : Eq(it)
  <1>1. n \in Nat /\ DOMAIN t = 1..n /\ \A i \in 1..n : t[i] \in Patterns
    OBVIOUS
  <1>2. IsFold(Good, n, F)
    BY <1>1, PatternUnsubscribed DEF IsFold
  <1>3. \A v \in Good, i \in 1..n : F[<<v, i>>] = pubsubUnsubscribePattern(v, c, t[i])
    OBVIOUS
  <1>4. FoldLeft(LAMBDA v, p : pubsubUnsubscribePattern(v, c, p), s, t) = it[1..n]
    BY <1>1, Zenon DEF FoldLeft, MapThenFoldSet
  <1> HIDE DEF F, n
  <1>5. \A x \in SUBSET (1..n) : x # {} => Max(x) \in 1..n
    BY <1>1, MaxIn
  <1>6. PICK h : Iterates(Good, s, n, F, h)
    BY <1>2, FoldExists
  <1>7. Eq(h)
    BY <1>3, <1>5, <1>6 DEF Iterates
  <1>8. Eq(it)
    <2> HIDE DEF Eq
    <2> QED BY <1>7, Zenon
  <1> HIDE DEF it
  <1>9. Follows(Good, s, n, F, it)
    BY <1>3, <1>5, <1>8 DEF Follows
  <1>10. PICK g : Runs(Good, s, n, F, g) /\ g[n] = it[1..n]
    BY <1>2, <1>9, FoldRuns
  <1>11. \A i \in 1..n : g[i] = pubsubUnsubscribePattern(g[i - 1], c, t[i])
    <2>1. \A i \in 1..n : i - 1 \in 0..n
      BY <1>1
    <2>2. \A i \in 1..n : g[i - 1] \in Good
      BY <2>1, <1>10 DEF Runs
    <2> QED BY <1>3, <1>10, <2>2, Zenon DEF Runs
  <1> QED BY <1>4, <1>10, <1>11, Zenon DEF n, Runs

(* And leaves the client subscribed to none of them.                       *)
LEMMA PunsubscribeFold ==
    ASSUME NEW s \in Good, NEW c \in PsClients, NEW t \in Seq(Patterns)
    PROVE  LET u == FoldLeft(LAMBDA v, p : pubsubUnsubscribePattern(v, c, p), s, t)
           IN  /\ u \in Good /\ u.cc = s.cc
               /\ Range(u.pats) = Range(s.pats) \ ({c} \X Range(t))
  <1> DEFINE n == Len(t)
             u == FoldLeft(LAMBDA v, p : pubsubUnsubscribePattern(v, c, p), s, t)
  <1>1. n \in Nat /\ DOMAIN t = 1..n /\ \A i \in 1..n : t[i] \in Patterns
    OBVIOUS
  <1>2. PICK g \in [0..n -> Good] :
              /\ g[0] = s /\ g[n] = u
              /\ \A i \in 1..n : g[i] = pubsubUnsubscribePattern(g[i - 1], c, t[i])
    BY PunsubscribeRuns, ZenonT(60)
  <1> HIDE DEF u, n
  <1> DEFINE Y == {i \in 0..n :
                /\ g[i].cc = s.cc
                /\ Range(g[i].pats) = Range(s.pats) \ ({c} \X {t[j] : j \in 1..i})}
  <1>3. \A i \in 0..n : i \in Y
    <2>1. 0 \in Y
      <3>1. {t[j] : j \in 1..0} = {} /\ 0 \in 0..n
        BY <1>1
      <3>2. Range(s.pats) = Range(s.pats) \ ({c} \X {t[j] : j \in 1..0})
        BY <3>1
      <3> QED BY <1>2, <3>1, <3>2, Zenon
    <2>2. ASSUME NEW i \in 0..(n - 1), i \in Y PROVE i + 1 \in Y
      <3> DEFINE v == g[i]
                 w == g[i + 1]
      <3>1. i + 1 \in 1..n /\ (i + 1) - 1 = i /\ i + 1 \in 0..n
        BY <1>1
      <3>2. w = pubsubUnsubscribePattern(v, c, t[i + 1]) /\ v \in Good /\ t[i + 1] \in Patterns
        BY <1>1, <1>2, <3>1
      <3> HIDE DEF v, w
      <3>3. w.cc = v.cc /\ Range(w.pats) = Range(v.pats) \ {<<c, t[i + 1]>>}
        BY <3>2, PatternUnsubscribed
      <3>4. /\ v.cc = s.cc
            /\ Range(v.pats) = Range(s.pats) \ ({c} \X {t[j] : j \in 1..i})
        BY <2>2 DEF v
      <3>5. ({c} \X {t[j] : j \in 1..i}) \cup {<<c, t[i + 1]>>} = {c} \X {t[j] : j \in 1..(i + 1)}
        BY <1>1
      <3>6. Range(w.pats) = Range(s.pats) \ ({c} \X {t[j] : j \in 1..(i + 1)})
        BY <3>3, <3>4, <3>5
      <3> QED BY <3>1, <3>3, <3>4, <3>6, Zenon DEF w
    <2> HIDE DEF Y
    <2> QED BY <1>1, <2>1, <2>2, UpTo
  <1>4. n \in Y
    BY <1>1, <1>3
  <1>5. Range(t) = {t[j] : j \in 1..n}
    BY <1>1 DEF Range
  <1>6. u \in Good
    BY <1>1, <1>2
  <1> QED BY <1>2, <1>4, <1>5, <1>6, Zenon DEF u

-----------------------------------------------------------------------------
(* The patterns of l that a message on ch goes to.                         *)
MatchedBy(ch, l) ==
    FoldLeft(LAMBDA m, p : IF ch \in Matching[p[2]] THEN Append(m, p) ELSE m, <<>>, l)

(* PUBLISH goes through the patterns in their order.                       *)
LEMMA MatchedRuns ==
    ASSUME NEW ch \in Channels, NEW l \in Seq(PsClients \X Patterns)
    PROVE  \E g \in [0..Len(l) -> Seq(PsClients \X Patterns)] :
              /\ g[0] = <<>> /\ g[Len(l)] = MatchedBy(ch, l)
              /\ \A i \in 1..Len(l) :
                    g[i] = IF ch \in Matching[l[i][2]] THEN Append(g[i - 1], l[i]) ELSE g[i - 1]
  <1> DEFINE X == Seq(PsClients \X Patterns)
             n == Len(l)
             F == [a \in X \X (1..n) |->
                     IF ch \in Matching[l[a[2]][2]] THEN Append(a[1], l[a[2]]) ELSE a[1]]
             Eq(it) == it = [x \in SUBSET (1..n) |-> IF x = {} THEN <<>>
                               ELSE IF ch \in Matching[l[Max(x)][2]]
                                    THEN Append(it[x \ {Max(x)}], l[Max(x)])
                                    ELSE it[x \ {Max(x)}]]
             it == CHOOSE it : Eq(it)
  <1>1. n \in Nat /\ DOMAIN l = 1..n /\ \A i \in 1..n : l[i] \in PsClients \X Patterns
    OBVIOUS
  <1>2. IsFold(X, n, F)
    <2>1. \A m \in X, i \in 1..n : Append(m, l[i]) \in X
      BY <1>1
    <2> HIDE DEF X
    <2> QED BY <1>1, <2>1 DEF IsFold
  <1>3. \A m \in X, i \in 1..n :
           F[<<m, i>>] = IF ch \in Matching[l[i][2]] THEN Append(m, l[i]) ELSE m
    <2> HIDE DEF X
    <2> QED OBVIOUS
  <1>4. MatchedBy(ch, l) = it[1..n]
    BY <1>1, Zenon DEF MatchedBy, FoldLeft, MapThenFoldSet
  <1>0. <<>> \in X
    OBVIOUS
  <1> HIDE DEF F, n, X
  <1>5. \A x \in SUBSET (1..n) : x # {} => Max(x) \in 1..n
    BY <1>1, MaxIn
  <1>6. PICK h : Iterates(X, <<>>, n, F, h)
    BY <1>0, <1>2, FoldExists
  <1>7. Eq(h)
    BY <1>3, <1>5, <1>6 DEF Iterates
  <1>8. Eq(it)
    <2> HIDE DEF Eq
    <2> QED BY <1>7, Zenon
  <1> HIDE DEF it
  <1>9. Follows(X, <<>>, n, F, it)
    BY <1>0, <1>3, <1>5, <1>8 DEF Follows
  <1>10. PICK g : Runs(X, <<>>, n, F, g) /\ g[n] = it[1..n]
    BY <1>2, <1>9, FoldRuns
  <1>11. \A i \in 1..n :
            g[i] = IF ch \in Matching[l[i][2]] THEN Append(g[i - 1], l[i]) ELSE g[i - 1]
    <2>1. \A i \in 1..n : i - 1 \in 0..n
      BY <1>1
    <2>2. \A i \in 1..n : g[i - 1] \in X
      BY <2>1, <1>10 DEF Runs
    <2> QED BY <1>3, <1>10, <2>2, Zenon DEF Runs
  <1> QED BY <1>4, <1>10, <1>11, Zenon DEF n, Runs, X

(* And takes every one that matches, once.                                 *)
LEMMA MatchedFold ==
    ASSUME NEW ch \in Channels, NEW l \in Seq(PsClients \X Patterns), IsInjective(l)
    PROVE  /\ MatchedBy(ch, l) \in Seq(PsClients \X Patterns) /\ IsInjective(MatchedBy(ch, l))
           /\ Range(MatchedBy(ch, l)) = {p \in Range(l) : ch \in Matching[p[2]]}
  <1> DEFINE n == Len(l)
             X == Seq(PsClients \X Patterns)
             m == MatchedBy(ch, l)
             R(i) == {p \in {l[j] : j \in 1..i} : ch \in Matching[p[2]]}
  <1>1. n \in Nat /\ DOMAIN l = 1..n /\ \A i \in 1..n : l[i] \in PsClients \X Patterns
    OBVIOUS
  <1>2. PICK g \in [0..n -> X] :
              /\ g[0] = <<>> /\ g[n] = m
              /\ \A i \in 1..n :
                    g[i] = IF ch \in Matching[l[i][2]] THEN Append(g[i - 1], l[i]) ELSE g[i - 1]
    BY MatchedRuns, Zenon
  <1> HIDE DEF n, m
  <1> DEFINE Y == {i \in 0..n : IsInjective(g[i]) /\ Range(g[i]) = R(i)}
  <1>3. \A i \in 0..n : i \in Y
    <2>1. 0 \in Y
      <3>1. R(0) = {} /\ Range(<<>>) = {} /\ IsInjective(<<>>) /\ 0 \in 0..n
        BY <1>1 DEF Range, IsInjective
      <3> HIDE DEF R
      <3> QED BY <1>2, <3>1, Zenon
    <2>2. ASSUME NEW i \in 0..(n - 1), i \in Y PROVE i + 1 \in Y
      <3> DEFINE v == g[i]
                 w == g[i + 1]
                 e == l[i + 1]
      <3>1. i + 1 \in 1..n /\ (i + 1) - 1 = i /\ i + 1 \in 0..n /\ i \in 0..n
        BY <1>1
      <3>2. /\ w = IF ch \in Matching[e[2]] THEN Append(v, e) ELSE v
            /\ v \in X /\ e \in PsClients \X Patterns
        BY <1>1, <1>2, <3>1
      <3>3. IsInjective(v) /\ Range(v) = R(i)
        BY <2>2
      <3>4. e \notin R(i)
        <4>1. ASSUME NEW j \in 1..i PROVE l[j] # e
          <5>1. j \in DOMAIN l /\ i + 1 \in DOMAIN l /\ j # i + 1
            BY <1>1, <3>1
          <5> QED BY <5>1 DEF IsInjective
        <4> QED BY <4>1
      <3>5. R(i + 1) = IF ch \in Matching[e[2]] THEN R(i) \cup {e} ELSE R(i)
        <4>1. {l[j] : j \in 1..(i + 1)} = {l[j] : j \in 1..i} \cup {e}
          BY <1>1
        <4> QED BY <4>1
      <3> HIDE DEF v, w, e, R
      <3>6. IsInjective(w) /\ Range(w) = R(i + 1)
        <4>1. CASE ch \in Matching[e[2]]
          <5>1. w = Append(v, e) /\ R(i + 1) = R(i) \cup {e} /\ e \notin Range(v)
            BY <4>1, <3>2, <3>3, <3>4, <3>5
          <5>2. IsInjective(Append(v, e)) /\ Range(Append(v, e)) = Range(v) \cup {e}
            BY <3>2, <3>3, <5>1, Appended
          <5> QED BY <3>3, <5>1, <5>2
        <4>2. CASE ch \notin Matching[e[2]]
          BY <4>2, <3>2, <3>3, <3>5
        <4> QED BY <4>1, <4>2
      <3> QED BY <3>1, <3>6 DEF w
    <2> HIDE DEF Y
    <2> QED BY <1>1, <2>1, <2>2, UpTo
  <1>4. n \in Y /\ g[n] \in X
    BY <1>1, <1>2, <1>3
  <1>5. {l[j] : j \in 1..n} = Range(l)
    BY <1>1 DEF Range
  <1> QED BY <1>2, <1>4, <1>5 DEF m

(* What two sequences hold together.                                       *)
LEMMA Concatenated ==
    ASSUME NEW S, NEW a \in Seq(S), NEW b \in Seq(S)
    PROVE  a \o b \in Seq(S) /\ Range(a \o b) = Range(a) \cup Range(b)
  <1> DEFINE r == a \o b
  <1>1. /\ r \in Seq(S) /\ Len(r) = Len(a) + Len(b)
        /\ \A i \in 1..Len(a) : r[i] = a[i]
        /\ \A i \in 1..Len(b) : r[Len(a) + i] = b[i]
    OBVIOUS
  <1> HIDE DEF r
  <1>2. Range(a) \subseteq Range(r) /\ Range(b) \subseteq Range(r)
    <2>1. ASSUME NEW i \in 1..Len(a) PROVE a[i] \in Range(r)
      <3>1. i \in DOMAIN r /\ r[i] = a[i]
        BY <1>1
      <3> QED BY <3>1 DEF Range
    <2>2. ASSUME NEW i \in 1..Len(b) PROVE b[i] \in Range(r)
      <3>1. Len(a) + i \in DOMAIN r /\ r[Len(a) + i] = b[i]
        BY <1>1
      <3> QED BY <3>1 DEF Range
    <2> QED BY <2>1, <2>2 DEF Range
  <1>3. ASSUME NEW i \in 1..Len(r) PROVE r[i] \in Range(a) \cup Range(b)
    <2>1. CASE i <= Len(a)
      BY <1>1, <2>1 DEF Range
    <2>2. CASE i > Len(a)
      <3>1. i - Len(a) \in 1..Len(b) /\ Len(a) + (i - Len(a)) = i
        BY <1>1, <2>2
      <3>2. r[i] = b[i - Len(a)]
        BY <1>1, <3>1
      <3> QED BY <3>1, <3>2 DEF Range
    <2> QED BY <1>1, <2>1, <2>2
  <1>4. Range(r) \subseteq Range(a) \cup Range(b)
    BY <1>1, <1>3 DEF Range
  <1> QED BY <1>1, <1>2, <1>4 DEF r

SubsOf(s) == (UNION {{c} \X s.cc[c] : c \in PsClients}) \cup Range(s.pats)

(* pubsubPublishMessage() reaches the pairs of the relation that the       *)
(* channel concerns, each once, and counts them.                           *)
LEMMA Published ==
    ASSUME NEW s \in Good, NEW ch \in Channels
    PROVE  LET reached == {x \in SubsOf(s) :
                              x[2] = ch \/ (x[2] \in Patterns /\ ch \in Matching[x[2]])}
           IN  /\ Range(pubsubPublishMessage(s, ch).to) = reached
               /\ pubsubPublishMessage(s, ch).receivers = Cardinality(reached)
  <1> DEFINE l == ClientsOn(s, ch)
             direct == [i \in DOMAIN l |-> <<l[i], ch>>]
             matched == MatchedBy(ch, s.pats)
             S == PsClients \X (Channels \cup Patterns)
             reached == {x \in SubsOf(s) :
                           x[2] = ch \/ (x[2] \in Patterns /\ ch \in Matching[x[2]])}
             D == {d \in PsClients : ch \in s.cc[d]} \X {ch}
             Q == {p \in Range(s.pats) : ch \in Matching[p[2]]}
  <1>1. s \in PsStates /\ ChannelsAgree(s) /\ PatternsAgree(s)
    BY DEF Good
  <1>2. /\ l \in Seq(PsClients) /\ IsInjective(l)
        /\ Range(l) = {d \in PsClients : ch \in s.cc[d]}
    BY <1>1, ListType DEF ChannelsAgree
  <1>3. s.pats \in Seq(PsClients \X Patterns) /\ IsInjective(s.pats)
    BY <1>1 DEF PsStates, PatternsAgree
  <1>4. pubsubPublishMessage(s, ch)
          = [to |-> direct \o matched, receivers |-> Len(direct) + Len(matched)]
    BY Zenon DEF pubsubPublishMessage, MatchedBy
  <1> HIDE DEF l
  <1>5. direct \in Seq(S) /\ IsInjective(direct) /\ Range(direct) = D
    <2>1. Len(l) \in Nat /\ DOMAIN l = 1..Len(l) /\ \A i \in 1..Len(l) : l[i] \in PsClients
      BY <1>2
    <2>2. direct \in Seq(S)
      BY <2>1
    <2>3. IsInjective(direct)
      BY <1>2 DEF IsInjective
    <2>4. Range(direct) = {<<l[i], ch>> : i \in DOMAIN l}
      BY DEF Range
    <2>5. {<<l[i], ch>> : i \in DOMAIN l} = Range(l) \X {ch}
      BY DEF Range
    <2> QED BY <1>2, <2>2, <2>3, <2>4, <2>5
  <1>6. matched \in Seq(PsClients \X Patterns) /\ IsInjective(matched) /\ Range(matched) = Q
    BY <1>3, MatchedFold
  <1> HIDE DEF direct, matched
  <1>7. matched \in Seq(S)
    BY <1>6
  <1>8. reached = D \cup Q
    <2>1. s.cc \in [PsClients -> SUBSET Channels] /\ Range(s.pats) \subseteq PsClients \X Patterns
      BY <1>1 DEF PsStates, Range
    <2>2. Channels \cap Patterns = {}
      BY PubSubAssumption
    <2>3. ASSUME NEW x \in D PROVE x \in reached
      <3>1. PICK d \in PsClients : x = <<d, ch>> /\ ch \in s.cc[d]
        OBVIOUS
      <3>2. x \in {d} \X s.cc[d] /\ x[2] = ch
        BY <3>1
      <3> QED BY <3>2 DEF SubsOf
    <2>4. ASSUME NEW x \in Q PROVE x \in reached
      <3>1. x \in SubsOf(s)
        BY Zenon DEF SubsOf
      <3>2. x[2] \in Patterns
        BY <2>1
      <3> QED BY <3>1, <3>2
    <2>5. ASSUME NEW x \in reached PROVE x \in D \cup Q
      <3>1. CASE x \in Range(s.pats)
        BY <2>1, <2>2, <3>1
      <3>2. CASE x \notin Range(s.pats)
        <4>1. PICK d \in PsClients : x \in {d} \X s.cc[d]
          <5>1. x \in SubsOf(s)
            OBVIOUS
          <5> QED BY <3>2, <5>1, Zenon DEF SubsOf
        <4>2. x = <<d, x[2]>> /\ x[2] \in s.cc[d] /\ x[2] \in Channels
          BY <2>1, <4>1
        <4>3. x[2] = ch
          BY <2>2, <4>2
        <4> QED BY <4>2, <4>3
      <3> QED BY <3>1, <3>2
    <2> HIDE DEF D, Q, reached
    <2> QED BY <2>3, <2>4, <2>5
  <1>9. D \cap Q = {}
    <2>1. \A p \in Q : p[2] \in Patterns
      BY <1>3 DEF Range
    <2>2. \A x \in D : x[2] = ch
      OBVIOUS
    <2> QED BY <2>1, <2>2, PubSubAssumption
  <1>10. /\ IsFiniteSet(D) /\ Cardinality(D) = Len(direct)
         /\ IsFiniteSet(Q) /\ Cardinality(Q) = Len(matched)
    BY <1>5, <1>6, LengthOfInjective
  <1> HIDE DEF D, Q, S, reached
  <1>11. Cardinality(reached) = Len(direct) + Len(matched)
    <2>1. Cardinality(D \cup Q) = Cardinality(D) + Cardinality(Q) - Cardinality(D \cap Q)
      BY <1>10, FS_Union
    <2>2. Len(direct) \in Nat /\ Len(matched) \in Nat
      BY <1>5, <1>7
    <2>3. Cardinality({}) = 0
      BY FS_EmptySet
    <2>4. Cardinality(reached) = Cardinality(D) + Cardinality(Q) - 0
      BY <1>8, <1>9, <2>1, <2>3, Zenon
    <2> QED BY <1>10, <2>2, <2>4
  <1>12. Range(direct \o matched) = reached
    BY <1>5, <1>6, <1>7, <1>8, Concatenated
  <1> QED BY <1>4, <1>11, <1>12 DEF reached

-----------------------------------------------------------------------------
(* The relation, pair by pair.                                             *)
LEMMA InSubs ==
    ASSUME NEW s \in Good, NEW x
    PROVE  x \in SubsOf(s) <=> \/ x \in PsClients \X Channels /\ x[2] \in s.cc[x[1]]
                               \/ x \in Range(s.pats)
  <1> DEFINE R == Range(s.pats)
             U == UNION {{c} \X s.cc[c] : c \in PsClients}
  <1>1. s.cc \in [PsClients -> SUBSET Channels]
    BY DEF Good, PsStates
  <1>2. x \in U <=> \E c \in PsClients : x \in {c} \X s.cc[c]
    OBVIOUS
  <1>3. (\E c \in PsClients : x \in {c} \X s.cc[c])
           <=> x \in PsClients \X Channels /\ x[2] \in s.cc[x[1]]
    BY <1>1
  <1>4. SubsOf(s) = U \cup R
    BY DEF SubsOf
  <1> HIDE DEF U, R
  <1>5. x \in U \cup R <=> \/ x \in PsClients \X Channels /\ x[2] \in s.cc[x[1]]
                           \/ x \in R
    BY <1>2, <1>3
  <1> QED BY <1>4, <1>5 DEF R

(* What the patterns of the server are pairs of.                           *)
LEMMA PatternPairs ==
    ASSUME NEW s \in Good, NEW x \in Range(s.pats)
    PROVE  x \in PsClients \X Patterns /\ x[2] \notin Channels
  <1>1. s.pats \in Seq(PsClients \X Patterns)
    BY DEF Good, PsStates
  <1>2. x \in PsClients \X Patterns
    BY <1>1 DEF Range
  <1> QED BY <1>2, PubSubAssumption

(* SUBSCRIBE adds pairs to the relation.                                   *)
LEMMA ChannelsAdded ==
    ASSUME NEW s \in Good, NEW u \in Good, NEW c \in PsClients, NEW C \in SUBSET Channels,
           u.pats = s.pats, u.cc = [s.cc EXCEPT ![c] = @ \cup C]
    PROVE  SubsOf(u) = SubsOf(s) \cup ({c} \X C)
  <1>1. s.cc \in [PsClients -> SUBSET Channels]
    BY DEF Good, PsStates
  <1>2. \A x \in PsClients \X Channels :
           x[2] \in u.cc[x[1]] <=> x[2] \in s.cc[x[1]] \/ x \in {c} \X C
    BY <1>1
  <1>3. \A x \in {c} \X C : x \in PsClients \X Channels
    OBVIOUS
  <1>4. ASSUME NEW x PROVE x \in SubsOf(u) <=> x \in SubsOf(s) \/ x \in {c} \X C
    BY <1>2, <1>3, InSubs, Zenon
  <1> QED BY <1>4

(* UNSUBSCRIBE takes pairs from it.                                        *)
LEMMA ChannelsRemoved ==
    ASSUME NEW s \in Good, NEW u \in Good, NEW c \in PsClients, NEW C \in SUBSET Channels,
           u.pats = s.pats, u.cc = [s.cc EXCEPT ![c] = @ \ C]
    PROVE  SubsOf(u) = SubsOf(s) \ ({c} \X C)
  <1>1. s.cc \in [PsClients -> SUBSET Channels]
    BY DEF Good, PsStates
  <1>2. \A x \in PsClients \X Channels :
           x[2] \in u.cc[x[1]] <=> x[2] \in s.cc[x[1]] /\ x \notin {c} \X C
    BY <1>1
  <1>3. \A x \in Range(s.pats) : x \notin {c} \X C
    BY PatternPairs
  <1>4. ASSUME NEW x PROVE x \in SubsOf(u) <=> x \in SubsOf(s) /\ x \notin {c} \X C
    BY <1>2, <1>3, InSubs, Zenon
  <1> QED BY <1>4

(* PSUBSCRIBE adds pairs to the relation.                                  *)
LEMMA PatternsAdded ==
    ASSUME NEW s \in Good, NEW u \in Good, NEW c \in PsClients, NEW Q \in SUBSET Patterns,
           u.cc = s.cc, Range(u.pats) = Range(s.pats) \cup ({c} \X Q)
    PROVE  SubsOf(u) = SubsOf(s) \cup ({c} \X Q)
  <1>1. \A x : x \in Range(u.pats) <=> x \in Range(s.pats) \/ x \in {c} \X Q
    OBVIOUS
  <1>2. ASSUME NEW x PROVE x \in SubsOf(u) <=> x \in SubsOf(s) \/ x \in {c} \X Q
    BY <1>1, InSubs, Zenon
  <1> QED BY <1>2

(* PUNSUBSCRIBE takes pairs from it.                                       *)
LEMMA PatternsRemoved ==
    ASSUME NEW s \in Good, NEW u \in Good, NEW c \in PsClients, NEW Q \in SUBSET Patterns,
           u.cc = s.cc, Range(u.pats) = Range(s.pats) \ ({c} \X Q)
    PROVE  SubsOf(u) = SubsOf(s) \ ({c} \X Q)
  <1>1. \A x : x \in Range(u.pats) <=> x \in Range(s.pats) /\ x \notin {c} \X Q
    OBVIOUS
  <1>2. \A x \in PsClients \X Channels : x \notin {c} \X Q
    BY PubSubAssumption
  <1>3. ASSUME NEW x PROVE x \in SubsOf(u) <=> x \in SubsOf(s) /\ x \notin {c} \X Q
    BY <1>1, <1>2, InSubs, Zenon
  <1> QED BY <1>3

(* A client without pairs in the relation has nothing in its own indices.  *)
LEMMA NoPairs ==
    ASSUME NEW s \in Good, NEW c \in PsClients
    PROVE  (s.cc[c] = {} /\ s.cp[c] = <<>>) <=> \A x \in SubsOf(s) : x[1] # c
  <1>1. /\ s.cc \in [PsClients -> SUBSET Channels] /\ s.cp \in [PsClients -> Seq(Patterns)]
        /\ PatternsAgree(s)
    BY DEF Good, PsStates
  <1>2. ASSUME s.cc[c] = {}, s.cp[c] = <<>>, NEW x \in SubsOf(s) PROVE x[1] # c
    <2>1. CASE x \in PsClients \X Channels /\ x[2] \in s.cc[x[1]]
      BY <1>2, <2>1
    <2>2. CASE x \in Range(s.pats)
      <3>1. x \in PsClients \X Patterns
        BY <2>2, PatternPairs
      <3>2. x = <<x[1], x[2]>> /\ x[1] \in PsClients /\ x[2] \in Patterns
        BY <3>1
      <3>3. x[2] \in Range(s.cp[x[1]])
        BY <1>1, <2>2, <3>2 DEF PatternsAgree
      <3>4. Range(<<>>) = {}
        BY DEF Range
      <3> QED BY <1>2, <3>3, <3>4
    <2> QED BY <1>2, <2>1, <2>2, InSubs
  <1>3. ASSUME \A x \in SubsOf(s) : x[1] # c PROVE s.cc[c] = {}
    <2>1. ASSUME NEW ch \in s.cc[c] PROVE FALSE
      <3>1. <<c, ch>> \in PsClients \X Channels /\ <<c, ch>>[1] = c /\ <<c, ch>>[2] = ch
        BY <1>1
      <3>2. <<c, ch>> \in SubsOf(s)
        BY <3>1, InSubs
      <3> QED BY <1>3, <3>1, <3>2
    <2> QED BY <2>1
  <1>4. ASSUME \A x \in SubsOf(s) : x[1] # c PROVE s.cp[c] = <<>>
    <2>1. s.cp[c] \in Seq(Patterns)
      BY <1>1
    <2>2. ASSUME s.cp[c] # <<>> PROVE FALSE
      <3>1. s.cp[c][1] \in Range(s.cp[c]) /\ s.cp[c][1] \in Patterns
        BY <2>1, <2>2 DEF Range
      <3>2. <<c, s.cp[c][1]>> \in Range(s.pats)
        BY <1>1, <3>1 DEF PatternsAgree
      <3>3. <<c, s.cp[c][1]>> \in SubsOf(s) /\ <<c, s.cp[c][1]>>[1] = c
        BY <3>2, InSubs
      <3> QED BY <1>4, <3>3
    <2> QED BY <2>2
  <1> QED BY <1>2, <1>3, <1>4

(* UNSUBSCRIBE without arguments.                                          *)
LEMMA AllChannelsRemoved ==
    ASSUME NEW s \in Good, NEW c \in PsClients
    PROVE  LET u == pubsubUnsubscribeAllChannels(s, c)
           IN  /\ u \in Good /\ SubsOf(u) = SubsOf(s) \ ({c} \X s.cc[c])
               /\ u.cc[c] = {} /\ u.cp = s.cp
  <1> DEFINE t == SetToSeq(s.cc[c])
             u == pubsubUnsubscribeAllChannels(s, c)
  <1>1. s.cc \in [PsClients -> SUBSET Channels] /\ IsFiniteSet(s.cc[c])
    BY DEF Good, PsStates
  <1>2. t \in Seq(s.cc[c]) /\ Range(t) = s.cc[c]
    BY <1>1, Listed
  <1>3. u = FoldLeft(LAMBDA v, ch : pubsubUnsubscribeChannel(v, c, ch), s, t)
    BY Zenon DEF pubsubUnsubscribeAllChannels
  <1> HIDE DEF t, u
  <1>4. t \in Seq(Channels)
    BY <1>1, <1>2
  <1>5. /\ u \in Good /\ u.cc = [s.cc EXCEPT ![c] = @ \ Range(t)]
        /\ u.pats = s.pats /\ u.cp = s.cp
    BY <1>3, <1>4, UnsubscribeFold, ZenonT(60)
  <1>6. u.cc[c] = {}
    BY <1>1, <1>2, <1>5
  <1>7. SubsOf(u) = SubsOf(s) \ ({c} \X s.cc[c])
    <2>1. s.cc[c] \in SUBSET Channels /\ u.cc = [s.cc EXCEPT ![c] = @ \ s.cc[c]]
      BY <1>1, <1>2, <1>5
    <2> QED BY <1>5, <2>1, ChannelsRemoved
  <1> QED BY <1>5, <1>6, <1>7 DEF u

(* PUNSUBSCRIBE without arguments.                                         *)
LEMMA AllPatternsRemoved ==
    ASSUME NEW s \in Good, NEW c \in PsClients
    PROVE  LET u == pubsubUnsubscribeAllPatterns(s, c)
           IN  u \in Good /\ SubsOf(u) = SubsOf(s) \ ({c} \X Range(s.cp[c])) /\ u.cc = s.cc
  <1> DEFINE t == s.cp[c]
             u == pubsubUnsubscribeAllPatterns(s, c)
  <1>1. t \in Seq(Patterns)
    BY DEF Good, PsStates
  <1>2. u = FoldLeft(LAMBDA v, p : pubsubUnsubscribePattern(v, c, p), s, t)
    BY Zenon DEF pubsubUnsubscribeAllPatterns
  <1> HIDE DEF u
  <1>3. Range(t) \in SUBSET Patterns
    BY <1>1 DEF Range
  <1> HIDE DEF t
  <1>4. u \in Good /\ u.cc = s.cc /\ Range(u.pats) = Range(s.pats) \ ({c} \X Range(t))
    BY <1>1, <1>2, PunsubscribeFold, ZenonT(60)
  <1>5. SubsOf(u) = SubsOf(s) \ ({c} \X Range(t))
    BY <1>3, <1>4, PatternsRemoved
  <1> QED BY <1>4, <1>5 DEF t, u

(* freeClient() takes every pair of the client.                            *)
LEMMA AllRemoved ==
    ASSUME NEW s \in Good, NEW c \in PsClients
    PROVE  LET u == pubsubUnsubscribeAllPatterns(pubsubUnsubscribeAllChannels(s, c), c)
           IN  u \in Good /\ SubsOf(u) = {x \in SubsOf(s) : x[1] # c}
  <1> DEFINE v == pubsubUnsubscribeAllChannels(s, c)
             u == pubsubUnsubscribeAllPatterns(v, c)
  <1>1. v \in Good /\ SubsOf(v) = SubsOf(s) \ ({c} \X s.cc[c]) /\ v.cc[c] = {}
    BY AllChannelsRemoved
  <1> HIDE DEF v
  <1>2. u \in Good /\ SubsOf(u) = SubsOf(v) \ ({c} \X Range(v.cp[c])) /\ u.cc = v.cc
    BY <1>1, AllPatternsRemoved
  <1> HIDE DEF u
  <1>3. ASSUME NEW x \in SubsOf(s), x[1] # c PROVE x \in SubsOf(u)
    BY <1>1, <1>2, <1>3
  <1>4. ASSUME NEW x \in SubsOf(u) PROVE x \in SubsOf(s) /\ x[1] # c
    <2>1. x \in SubsOf(s) /\ x \in SubsOf(v) /\ x \notin {c} \X Range(v.cp[c])
      BY <1>1, <1>2
    <2>2. CASE x \in PsClients \X Channels /\ x[2] \in u.cc[x[1]]
      BY <1>1, <1>2, <2>1, <2>2
    <2>3. CASE x \in Range(u.pats)
      <3>1. x \in PsClients \X Patterns /\ x[2] \notin Channels
        BY <1>2, <2>3, PatternPairs
      <3>2. x \in Range(v.pats)
        BY <1>1, <2>1, <3>1, InSubs
      <3>3. x = <<x[1], x[2]>> /\ x[1] \in PsClients /\ x[2] \in Patterns
        BY <3>1
      <3>4. x[2] \in Range(v.cp[x[1]])
        BY <1>1, <3>2, <3>3 DEF Good, PatternsAgree
      <3> QED BY <2>1, <3>3, <3>4
    <2> QED BY <1>2, <2>2, <2>3, InSubs
  <1>5. SubsOf(u) = {x \in SubsOf(s) : x[1] # c}
    BY <1>3, <1>4
  <1> QED BY <1>2, <1>5 DEF u, v

-----------------------------------------------------------------------------
(* The inductive invariant: the indices are in a good state and a client   *)
(* that is gone has no subscriptions.                                      *)
PsInv ==
    /\ Ps \in Good /\ psLive \in SUBSET PsClients
    /\ \A c \in PsClients \ psLive : cliChannels[c] = {} /\ cliPatterns[c] = <<>>

(* The inductive invariant implies the property.                           *)
LEMMA PsInvIsEnough == PsInv => IndicesAgree
  <1> SUFFICES ASSUME PsInv PROVE IndicesAgree
    OBVIOUS
  <1> DEFINE U == UNION {{c} \X Range(cliPatterns[c]) : c \in PsClients}
  <1>1. /\ Ps \in PsStates /\ ChannelsAgree(Ps) /\ PatternsAgree(Ps) /\ Ps \in Good
        /\ \A c \in PsClients \ psLive : cliChannels[c] = {} /\ cliPatterns[c] = <<>>
    BY DEF PsInv, Good
  <1>2. /\ Ps.cc = cliChannels /\ Ps.cp = cliPatterns /\ Ps.pats = psPatterns
        /\ Ps.chans = psChannels
    BY DEF Ps
  <1>3. cliPatterns \in [PsClients -> Seq(Patterns)]
    BY <1>1, <1>2 DEF PsStates
  <1>4. \A ch \in Channels : LET l == ClientsOn(Ps, ch) IN
         /\ IsInjective(l) /\ Range(l) = {c \in PsClients : ch \in cliChannels[c]}
         /\ ch \in DOMAIN psChannels => l # <<>>
    BY <1>1, <1>2 DEF ChannelsAgree
  <1>5. \A x : x \in U <=> \E c \in PsClients : x \in {c} \X Range(cliPatterns[c])
    OBVIOUS
  <1>6. \A x : x \in U <=> x \in PsClients \X Patterns /\ x[2] \in Range(cliPatterns[x[1]])
    <2>1. \A c \in PsClients : Range(cliPatterns[c]) \subseteq Patterns
      BY <1>3 DEF Range
    <2> HIDE DEF U
    <2> QED BY <1>5, <2>1
  <1> HIDE DEF U
  <1>7. ASSUME NEW x \in Range(psPatterns) PROVE x \in U
    <2>1. x \in PsClients \X Patterns
      BY <1>1, <1>2, PatternPairs
    <2>2. x = <<x[1], x[2]>> /\ x[1] \in PsClients /\ x[2] \in Patterns
      BY <2>1
    <2> QED BY <1>1, <1>2, <1>6, <2>1, <2>2 DEF PatternsAgree
  <1>8. ASSUME NEW x \in U PROVE x \in Range(psPatterns)
    <2>1. x \in PsClients \X Patterns /\ x[2] \in Range(cliPatterns[x[1]])
      BY <1>6
    <2>2. x = <<x[1], x[2]>> /\ x[1] \in PsClients /\ x[2] \in Patterns
      BY <2>1
    <2> QED BY <1>1, <1>2, <2>1, <2>2 DEF PatternsAgree
  <1>9. IsInjective(psPatterns) /\ Range(psPatterns) = U
    BY <1>1, <1>2, <1>7, <1>8 DEF PatternsAgree
  <1> QED BY <1>1, <1>4, <1>9 DEF IndicesAgree, U

(* The state an action makes.                                              *)
LEMMA Became ==
    ASSUME NEW u \in Good, PsBecomes(u)
    PROVE  Ps' = u
  <1>1. u = [chans |-> u.chans, pats |-> u.pats, cc |-> u.cc, cp |-> u.cp]
    BY DEF Good, PsStates
  <1>2. Ps' = [chans |-> psChannels', pats |-> psPatterns',
               cc |-> cliChannels', cp |-> cliPatterns']
    BY DEF Ps
  <1> QED BY <1>1, <1>2 DEF PsBecomes

-----------------------------------------------------------------------------
(* The refinement mapping: the relation that the indices hold, and the     *)
(* messages as a set.                                                      *)
Pairs == SubsOf(Ps)
Message == [to |-> Range(psSent.to), receivers |-> psSent.receivers]

(* The relation that Subscriptions sees.                                   *)
LEMMA MappedPairs ==
    Pairs = (UNION {{c} \X cliChannels[c] : c \in PsClients}) \cup Range(psPatterns)
  BY DEF Pairs, SubsOf, Ps

(* The relation after a step, mapped.                                      *)
LEMMA MappedPairsNext ==
    Pairs' = (UNION {{c} \X cliChannels'[c] : c \in PsClients}) \cup Range(psPatterns')
  BY DEF Pairs, SubsOf, Ps

(* A command without a message.                                            *)
LEMMA NoMessage ==
    ASSUME psSent' = NothingSent
    PROVE  [to |-> Range(psSent'.to), receivers |-> psSent'.receivers]
             = [to |-> {}, receivers |-> 0]
  <1>1. psSent'.to = <<>> /\ psSent'.receivers = 0
    BY DEF NothingSent
  <1>2. Range(<<>>) = {}
    BY DEF Range
  <1> QED BY <1>1, <1>2, Zenon

(* (P)SUBSCRIBE of the relation, and a connection, which adds nothing.     *)
LEMMA AddsPairs ==
    ASSUME NEW c \in PsClients, NEW T \in (SUBSET Channels) \cup (SUBSET Patterns),
           Pairs' = Pairs \cup ({c} \X T), psSent' = NothingSent
    PROVE  Subs!SubsNext
  <1>1. Subs!Subscribe(c, T)
    BY MappedPairs, MappedPairsNext, Zenon DEF Subs!Subscribe
  <1> QED BY <1>1, NoMessage, Zenon DEF Subs!SubsNext

(* (P)UNSUBSCRIBE.                                                         *)
LEMMA RemovesPairs ==
    ASSUME NEW c \in PsClients, NEW T \in (SUBSET Channels) \cup (SUBSET Patterns),
           Pairs' = Pairs \ ({c} \X T), psSent' = NothingSent
    PROVE  Subs!SubsNext
  <1>1. Subs!Unsubscribe(c, T)
    BY MappedPairs, MappedPairsNext, Zenon DEF Subs!Unsubscribe
  <1> QED BY <1>1, NoMessage, Zenon DEF Subs!SubsNext

(* A client that goes.                                                     *)
LEMMA RemovesClient ==
    ASSUME NEW c \in PsClients, Pairs' = {x \in Pairs : x[1] # c}, psSent' = NothingSent
    PROVE  Subs!SubsNext
  <1>1. Pairs' = Pairs \ {x \in Pairs : x[1] = c}
    OBVIOUS
  <1>2. \E d \in PsClients : Pairs' = Pairs \ {x \in Pairs : x[1] = d}
    BY <1>1
  <1> QED BY <1>2, MappedPairs, MappedPairsNext, NoMessage, Zenon DEF Subs!SubsNext, Subs!Of

(* PUBLISH.                                                                *)
LEMMA SendsMessage ==
    ASSUME NEW ch \in Channels, Pairs' = Pairs,
           Range(psSent'.to)
             = {x \in Pairs : x[2] = ch \/ (x[2] \in Patterns /\ ch \in Matching[x[2]])},
           psSent'.receivers = Cardinality(Range(psSent'.to))
    PROVE  Subs!SubsNext
  <1>1. Subs!Reached(ch) = Range(psSent'.to)
    BY MappedPairs, Zenon DEF Subs!Reached
  <1>0. \A S : Subs!Cardinality(S) = Cardinality(S)
    BY Zenon DEF Cardinality, Subs!Cardinality
  <1>2. Subs!Publish(ch)
    BY <1>0, <1>1, MappedPairs, MappedPairsNext, Zenon DEF Subs!Publish
  <1> QED BY <1>2, Zenon DEF Subs!SubsNext

-----------------------------------------------------------------------------
(* The indices become u, with new pairs for the client c at most: those of *)
(* the clients that are gone stay empty.                                   *)
LEMMA Kept ==
    ASSUME PsInv, NEW c, NEW u \in Good, PsBecomes(u), psLive' \in SUBSET PsClients,
           \A x \in SubsOf(u) : x \in Pairs \/ x[1] = c,
           \A d \in PsClients \ psLive' : (\A x \in Pairs : x[1] # d) /\ d # c
    PROVE  PsInv' /\ Pairs' = SubsOf(u)
  <1>1. Ps' = u
    BY Became
  <1>2. Pairs' = SubsOf(u)
    BY <1>1 DEF Pairs
  <1>3. ASSUME NEW d \in PsClients \ psLive' PROVE cliChannels'[d] = {} /\ cliPatterns'[d] = <<>>
    <2>1. u.cc[d] = {} /\ u.cp[d] = <<>>
      <3>1. \A x \in SubsOf(u) : x[1] # d
        OBVIOUS
      <3> QED BY <3>1, NoPairs
    <2> QED BY <2>1 DEF PsBecomes
  <1> QED BY <1>1, <1>2, <1>3 DEF PsInv

(* What PsInv says of the relation.                                        *)
LEMMA PsInvPairs ==
    ASSUME PsInv
    PROVE  /\ Ps \in Good /\ psLive \in SUBSET PsClients
           /\ \A d \in PsClients \ psLive, x \in Pairs : x[1] # d
  <1>1. Ps \in Good /\ psLive \in SUBSET PsClients
    BY DEF PsInv
  <1>2. ASSUME NEW d \in PsClients \ psLive PROVE \A x \in Pairs : x[1] # d
    <2>1. Ps.cc[d] = {} /\ Ps.cp[d] = <<>>
      BY DEF PsInv, Ps
    <2> QED BY <1>1, <2>1, NoPairs DEF Pairs
  <1> QED BY <1>1, <1>2

(* The arguments of a command.                                             *)
LEMMA Arguments ==
    ASSUME NEW S, NEW t \in Topics(S) PROVE t \in Seq(S) /\ Range(t) \in SUBSET S
  <1>1. PICK n \in 1..MaxTopics : t \in [1..n -> S]
    BY DEF Topics
  <1>2. n \in Nat
    BY PubSubAssumption
  <1> QED BY <1>1, <1>2 DEF Range

(* subscribeCommand() keeps the invariant and is a step of the relation.   *)
LEMMA SubscribeStep ==
    ASSUME PsInv, subscribeCommand
    PROVE  PsInv' /\ Subs!SubsNext
  <1>1. /\ Ps \in Good /\ psLive \in SUBSET PsClients
        /\ \A d \in PsClients \ psLive, x \in Pairs : x[1] # d
    BY PsInvPairs
  <1>2. PICK c \in psLive, t \in Topics(Channels) :
           /\ PsBecomes(FoldLeft(LAMBDA s, ch : pubsubSubscribeChannel(s, c, ch), Ps, t))
           /\ psSent' = NothingSent /\ UNCHANGED psLive
    BY Zenon DEF subscribeCommand
  <1> DEFINE u == FoldLeft(LAMBDA s, ch : pubsubSubscribeChannel(s, c, ch), Ps, t)
  <1>3. c \in PsClients /\ t \in Seq(Channels) /\ Range(t) \in SUBSET Channels
    BY <1>1, Arguments
  <1>4. /\ u \in Good /\ u.cc = [Ps.cc EXCEPT ![c] = @ \cup Range(t)] /\ u.pats = Ps.pats
    BY <1>1, <1>3, SubscribeFold, ZenonT(60)
  <1>5. PsBecomes(u)
    BY <1>2
  <1> HIDE DEF u
  <1>6. SubsOf(u) = Pairs \cup ({c} \X Range(t))
    <2> DEFINE C == Range(t)
    <2>1. C \in SUBSET Channels /\ u.cc = [Ps.cc EXCEPT ![c] = @ \cup C] /\ u.pats = Ps.pats
      BY <1>3, <1>4
    <2> HIDE DEF C
    <2>2. SubsOf(u) = SubsOf(Ps) \cup ({c} \X C)
      BY <1>1, <1>3, <1>4, <2>1, ChannelsAdded
    <2> QED BY <2>2 DEF C, Pairs
  <1>7. PsInv' /\ Pairs' = SubsOf(u)
    BY <1>1, <1>2, <1>4, <1>5, <1>6, Kept
  <1>8. Subs!SubsNext
    BY <1>2, <1>3, <1>6, <1>7, AddsPairs
  <1> QED BY <1>7, <1>8

(* unsubscribeCommand(), with and without arguments.                       *)
LEMMA UnsubscribeStep ==
    ASSUME PsInv, unsubscribeCommand
    PROVE  PsInv' /\ Subs!SubsNext
  <1>1. /\ Ps \in Good /\ psLive \in SUBSET PsClients
        /\ \A d \in PsClients \ psLive, x \in Pairs : x[1] # d
    BY PsInvPairs
  <1>2. PICK c \in psLive :
           /\ \/ PsBecomes(pubsubUnsubscribeAllChannels(Ps, c))
              \/ \E t \in Topics(Channels) :
                   PsBecomes(FoldLeft(LAMBDA s, ch : pubsubUnsubscribeChannel(s, c, ch), Ps, t))
           /\ psSent' = NothingSent /\ UNCHANGED psLive
    BY Zenon DEF unsubscribeCommand
  <1>3. c \in PsClients
    BY <1>1
  <1>4. ASSUME NEW u \in Good, NEW T \in SUBSET Channels, PsBecomes(u),
               SubsOf(u) = Pairs \ ({c} \X T)
        PROVE  PsInv' /\ Subs!SubsNext
    <2>1. PsInv' /\ Pairs' = SubsOf(u)
      BY <1>1, <1>2, <1>4, Kept
    <2> QED BY <1>2, <1>3, <1>4, <2>1, RemovesPairs
  <1>5. CASE PsBecomes(pubsubUnsubscribeAllChannels(Ps, c))
    <2>1. Ps.cc[c] \in SUBSET Channels
      BY <1>1, <1>3 DEF Good, PsStates
    <2> QED BY <1>1, <1>3, <1>4, <1>5, <2>1, AllChannelsRemoved DEF Pairs
  <1>6. ASSUME NEW t \in Topics(Channels),
               PsBecomes(FoldLeft(LAMBDA s, ch : pubsubUnsubscribeChannel(s, c, ch), Ps, t))
        PROVE  PsInv' /\ Subs!SubsNext
    <2> DEFINE u == FoldLeft(LAMBDA s, ch : pubsubUnsubscribeChannel(s, c, ch), Ps, t)
    <2>1. t \in Seq(Channels) /\ Range(t) \in SUBSET Channels
      BY Arguments
    <2>2. u \in Good /\ u.cc = [Ps.cc EXCEPT ![c] = @ \ Range(t)] /\ u.pats = Ps.pats
      BY <1>1, <1>3, <2>1, UnsubscribeFold, ZenonT(60)
    <2>3. PsBecomes(u)
      BY <1>6
    <2> HIDE DEF u
    <2>4. SubsOf(u) = Pairs \ ({c} \X Range(t))
      <3> DEFINE C == Range(t)
      <3>1. C \in SUBSET Channels /\ u.cc = [Ps.cc EXCEPT ![c] = @ \ C] /\ u.pats = Ps.pats
        BY <2>1, <2>2
      <3> HIDE DEF C
      <3>2. u \in Good
        BY <2>2
      <3>3. SubsOf(u) = SubsOf(Ps) \ ({c} \X C)
        BY <1>1, <1>3, <3>1, <3>2, ChannelsRemoved
      <3> QED BY <3>3 DEF C, Pairs
    <2> QED BY <1>4, <2>1, <2>2, <2>3, <2>4
  <1> QED BY <1>2, <1>5, <1>6, Zenon

(* psubscribeCommand().                                                    *)
LEMMA PsubscribeStep ==
    ASSUME PsInv, psubscribeCommand
    PROVE  PsInv' /\ Subs!SubsNext
  <1>1. /\ Ps \in Good /\ psLive \in SUBSET PsClients
        /\ \A d \in PsClients \ psLive, x \in Pairs : x[1] # d
    BY PsInvPairs
  <1>2. PICK c \in psLive, t \in Topics(Patterns) :
           /\ PsBecomes(FoldLeft(LAMBDA s, p : pubsubSubscribePattern(s, c, p), Ps, t))
           /\ psSent' = NothingSent /\ UNCHANGED psLive
    BY Zenon DEF psubscribeCommand
  <1> DEFINE u == FoldLeft(LAMBDA s, p : pubsubSubscribePattern(s, c, p), Ps, t)
  <1>3. c \in PsClients /\ t \in Seq(Patterns) /\ Range(t) \in SUBSET Patterns
    BY <1>1, Arguments
  <1>4. /\ u \in Good /\ u.cc = Ps.cc /\ Range(u.pats) = Range(Ps.pats) \cup ({c} \X Range(t))
    BY <1>1, <1>3, PsubscribeFold, ZenonT(60)
  <1>5. PsBecomes(u)
    BY <1>2
  <1> HIDE DEF u
  <1>6. SubsOf(u) = Pairs \cup ({c} \X Range(t))
    <2> DEFINE C == Range(t)
    <2>1. /\ C \in SUBSET Patterns /\ u.cc = Ps.cc
          /\ Range(u.pats) = Range(Ps.pats) \cup ({c} \X C)
      BY <1>3, <1>4
    <2> HIDE DEF C
    <2>2. SubsOf(u) = SubsOf(Ps) \cup ({c} \X C)
      BY <1>1, <1>3, <1>4, <2>1, PatternsAdded
    <2> QED BY <2>2 DEF C, Pairs
  <1>7. PsInv' /\ Pairs' = SubsOf(u)
    BY <1>1, <1>2, <1>4, <1>5, <1>6, Kept
  <1>8. Subs!SubsNext
    BY <1>2, <1>3, <1>6, <1>7, AddsPairs
  <1> QED BY <1>7, <1>8

(* punsubscribeCommand(), with and without arguments.                      *)
LEMMA PunsubscribeStep ==
    ASSUME PsInv, punsubscribeCommand
    PROVE  PsInv' /\ Subs!SubsNext
  <1>1. /\ Ps \in Good /\ psLive \in SUBSET PsClients
        /\ \A d \in PsClients \ psLive, x \in Pairs : x[1] # d
    BY PsInvPairs
  <1>2. PICK c \in psLive :
           /\ \/ PsBecomes(pubsubUnsubscribeAllPatterns(Ps, c))
              \/ \E t \in Topics(Patterns) :
                   PsBecomes(FoldLeft(LAMBDA s, p : pubsubUnsubscribePattern(s, c, p), Ps, t))
           /\ psSent' = NothingSent /\ UNCHANGED psLive
    BY Zenon DEF punsubscribeCommand
  <1>3. c \in PsClients
    BY <1>1
  <1>4. ASSUME NEW u \in Good, NEW T \in SUBSET Patterns, PsBecomes(u),
               SubsOf(u) = Pairs \ ({c} \X T)
        PROVE  PsInv' /\ Subs!SubsNext
    <2>1. PsInv' /\ Pairs' = SubsOf(u)
      BY <1>1, <1>2, <1>4, Kept
    <2> QED BY <1>2, <1>3, <1>4, <2>1, RemovesPairs
  <1>5. CASE PsBecomes(pubsubUnsubscribeAllPatterns(Ps, c))
    <2>1. Range(Ps.cp[c]) \in SUBSET Patterns
      BY <1>1, <1>3 DEF Good, PsStates, Range
    <2> QED BY <1>1, <1>3, <1>4, <1>5, <2>1, AllPatternsRemoved DEF Pairs
  <1>6. ASSUME NEW t \in Topics(Patterns),
               PsBecomes(FoldLeft(LAMBDA s, p : pubsubUnsubscribePattern(s, c, p), Ps, t))
        PROVE  PsInv' /\ Subs!SubsNext
    <2> DEFINE u == FoldLeft(LAMBDA s, p : pubsubUnsubscribePattern(s, c, p), Ps, t)
    <2>1. t \in Seq(Patterns) /\ Range(t) \in SUBSET Patterns
      BY Arguments
    <2>2. u \in Good /\ u.cc = Ps.cc /\ Range(u.pats) = Range(Ps.pats) \ ({c} \X Range(t))
      BY <1>1, <1>3, <2>1, PunsubscribeFold, ZenonT(60)
    <2>3. PsBecomes(u)
      BY <1>6
    <2> HIDE DEF u
    <2>4. SubsOf(u) = Pairs \ ({c} \X Range(t))
      <3> DEFINE C == Range(t)
      <3>1. /\ C \in SUBSET Patterns /\ u.cc = Ps.cc
            /\ Range(u.pats) = Range(Ps.pats) \ ({c} \X C)
        BY <2>1, <2>2
      <3> HIDE DEF C
      <3>2. u \in Good
        BY <2>2
      <3>3. SubsOf(u) = SubsOf(Ps) \ ({c} \X C)
        BY <1>1, <1>3, <3>1, <3>2, PatternsRemoved
      <3> QED BY <3>3 DEF C, Pairs
    <2> QED BY <1>4, <2>1, <2>2, <2>3, <2>4
  <1> QED BY <1>2, <1>5, <1>6, Zenon

(* publishCommand().                                                       *)
LEMMA PublishStep ==
    ASSUME PsInv, publishCommand
    PROVE  PsInv' /\ Subs!SubsNext
  <1>1. Ps \in Good
    BY DEF PsInv
  <1>2. PICK ch \in Channels :
           /\ psSent' = pubsubPublishMessage(Ps, ch)
           /\ UNCHANGED <<psChannels, psPatterns, cliChannels, cliPatterns, psLive>>
    BY Zenon DEF publishCommand
  <1>3. Ps' = Ps
    BY <1>2 DEF Ps
  <1>4. PsInv'
    BY <1>2, <1>3 DEF PsInv
  <1>5. Pairs' = Pairs
    BY <1>3 DEF Pairs
  <1>6. /\ Range(psSent'.to)
              = {x \in Pairs : x[2] = ch \/ (x[2] \in Patterns /\ ch \in Matching[x[2]])}
        /\ psSent'.receivers = Cardinality(Range(psSent'.to))
    BY <1>1, <1>2, Published, Zenon DEF Pairs
  <1>7. Subs!SubsNext
    BY <1>5, <1>6, SendsMessage
  <1> QED BY <1>4, <1>7

(* freeClient(): the client that goes has nothing left in either index.    *)
LEMMA FreeStep ==
    ASSUME PsInv, psFreeClient
    PROVE  PsInv' /\ Subs!SubsNext
  <1>1. /\ Ps \in Good /\ psLive \in SUBSET PsClients
        /\ \A d \in PsClients \ psLive, x \in Pairs : x[1] # d
    BY PsInvPairs
  <1>2. PICK c \in psLive :
           /\ PsBecomes(pubsubUnsubscribeAllPatterns(pubsubUnsubscribeAllChannels(Ps, c), c))
           /\ psLive' = psLive \ {c} /\ psSent' = NothingSent
    BY Zenon DEF psFreeClient
  <1> DEFINE u == pubsubUnsubscribeAllPatterns(pubsubUnsubscribeAllChannels(Ps, c), c)
  <1>3. u \in Good /\ SubsOf(u) = {x \in Pairs : x[1] # c}
    BY <1>1, AllRemoved DEF Pairs
  <1>4. PsBecomes(u)
    BY <1>2
  <1> HIDE DEF u
  <1>5. Ps' = u /\ Pairs' = SubsOf(u)
    BY <1>3, <1>4, Became DEF Pairs
  <1>6. ASSUME NEW d \in PsClients \ psLive' PROVE cliChannels'[d] = {} /\ cliPatterns'[d] = <<>>
    <2>1. \A x \in SubsOf(u) : x[1] # d
      BY <1>1, <1>2, <1>3
    <2>2. u.cc[d] = {} /\ u.cp[d] = <<>>
      BY <1>3, <2>1, NoPairs
    <2> QED BY <1>4, <2>2 DEF PsBecomes
  <1>7. PsInv'
    BY <1>1, <1>2, <1>3, <1>5, <1>6 DEF PsInv
  <1>8. Subs!SubsNext
    BY <1>1, <1>2, <1>3, <1>5, RemovesClient
  <1> QED BY <1>7, <1>8

(* A client that comes back starts without subscriptions.                  *)
LEMMA ConnectStep ==
    ASSUME PsInv, psConnect
    PROVE  PsInv' /\ Subs!SubsNext
  <1>1. PICK c \in PsClients \ psLive :
           /\ psLive' = psLive \cup {c} /\ psSent' = NothingSent
           /\ UNCHANGED <<psChannels, psPatterns, cliChannels, cliPatterns>>
    BY Zenon DEF psConnect
  <1>2. Ps' = Ps
    BY <1>1 DEF Ps
  <1>3. PsInv'
    BY <1>1, <1>2 DEF PsInv
  <1>4. Pairs' = Pairs \cup ({c} \X {})
    BY <1>2 DEF Pairs
  <1>5. Subs!SubsNext
    <2>1. {} \in (SUBSET Channels) \cup (SUBSET Patterns)
      OBVIOUS
    <2> QED BY <1>1, <1>4, <2>1, AddsPairs, Zenon
  <1> QED BY <1>3, <1>5

(* Every step.                                                             *)
LEMMA PubSubStep ==
    ASSUME PsInv, PubSubNext
    PROVE  PsInv' /\ Subs!SubsNext
  BY SubscribeStep, UnsubscribeStep, PsubscribeStep, PunsubscribeStep, PublishStep, FreeStep,
     ConnectStep, Zenon DEF PubSubNext

(* And no step.                                                            *)
LEMMA PubSubStutter ==
    ASSUME PsInv, UNCHANGED pubsubVars
    PROVE  PsInv' /\ UNCHANGED <<Pairs, Message>>
  <1>1. Ps' = Ps /\ psLive' = psLive /\ cliChannels' = cliChannels /\ cliPatterns' = cliPatterns
        /\ psSent' = psSent
    BY DEF pubsubVars, Ps
  <1> QED BY <1>1 DEF PsInv, Pairs, Message

(* The start.                                                              *)
LEMMA PubSubStart ==
    ASSUME PubSubInit PROVE PsInv /\ Subs!SubsInit
  <1> /\ psChannels = <<>> /\ psPatterns = <<>>
      /\ cliChannels = [c \in PsClients |-> {}] /\ cliPatterns = [c \in PsClients |-> <<>>]
      /\ psLive = PsClients /\ psSent = NothingSent
    BY DEF PubSubInit
  <1>1. /\ Ps.cc = cliChannels /\ Ps.cp = cliPatterns /\ Ps.pats = psPatterns
        /\ Ps.chans = psChannels
    BY DEF Ps
  <1>2. Range(<<>>) = {} /\ IsInjective(<<>>) /\ DOMAIN <<>> = {}
    BY DEF Range, IsInjective
  <1>3. Ps \in PsStates
    <2>1. <<>> \in [{} -> Seq(PsClients)] /\ {} \in SUBSET Channels
      OBVIOUS
    <2>2. psChannels \in PsLists
      BY <2>1 DEF PsLists
    <2> QED BY <2>2 DEF PsStates, Ps
  <1>4. ChannelsAgree(Ps)
    BY <1>1, <1>2 DEF ChannelsAgree, ClientsOn
  <1>5. PatternsAgree(Ps)
    BY <1>1, <1>2 DEF PatternsAgree
  <1>6. \A c \in PsClients : IsFiniteSet(Ps.cc[c])
    BY <1>1, FS_EmptySet
  <1>7. PsInv
    BY <1>3, <1>4, <1>5, <1>6 DEF PsInv, Good
  <1>8. Pairs = {}
    <2>1. \A x \in Pairs : FALSE
      BY <1>1, <1>2, <1>7, InSubs DEF PsInv, Pairs
    <2> QED BY <2>1
  <1>9. Message = [to |-> {}, receivers |-> 0]
    BY <1>2 DEF Message, NothingSent
  <1> QED BY <1>7, <1>8, <1>9, MappedPairs, Zenon DEF Subs!SubsInit, Message

(* The index by channel and pattern and the index by client hold the same  *)
(* subscriptions, each once, and none of a client that is gone, whatever   *)
(* the commands and the connections that come and go (pubsub.c,            *)
(* freeClient() of networking.c).                                          *)
THEOREM IndicesAlwaysAgree == PubSubSpec => []IndicesAgree
  <1>1. PubSubInit => PsInv
    BY PubSubStart
  <1>2. PsInv /\ [PubSubNext]_pubsubVars => PsInv'
    BY PubSubStep, PubSubStutter, Zenon
  <1> QED BY <1>1, <1>2, PsInvIsEnough, PTL DEF PubSubSpec

(* Every command of pubsub.c is the operation on the relation of clients   *)
(* and topics, and PUBLISH sends to exactly the pairs of the relation that *)
(* match and replies their number: the run checks it for a few clients,    *)
(* here it holds for any.                                                  *)
THEOREM PubSubIsARelation == PubSubSpec => ImplementsSubscriptions
  <1>1. PubSubInit => PsInv /\ Subs!SubsInit
    BY PubSubStart
  <1>2. PsInv /\ [PubSubNext]_pubsubVars => PsInv'
    BY PubSubStep, PubSubStutter, Zenon
  <1>3. PsInv /\ [PubSubNext]_pubsubVars =>
          [Subs!SubsNext]_<<
             (UNION {{c} \X cliChannels[c] : c \in PsClients}) \cup Range(psPatterns),
             [to |-> Range(psSent.to), receivers |-> psSent.receivers]>>
    <2>1. CASE PubSubNext
      BY <2>1, PubSubStep
    <2>2. CASE UNCHANGED pubsubVars
      BY <2>2 DEF pubsubVars
    <2> QED BY <2>1, <2>2
  <1> QED BY <1>1, <1>2, <1>3, PTL DEF PubSubSpec, ImplementsSubscriptions, Subs!SubsSpec

-----------------------------------------------------------------------------
(* One table.                                                              *)

(* The entries there can be.                                               *)
DictEntries == DictKeys \X UNION {DictVals[k] : k \in DictKeys}

(* A table of n chains.                                                    *)
TablesOf(n) == [size : {n}, used : Nat, table : [0..(n - 1) -> Seq(DictEntries)]]
AnyTable == UNION {TablesOf(n) : n \in Nat}

(* Every entry is in its chain, and no key is there twice.                 *)
InItsChain(t) ==
    \A b \in 0..(t.size - 1) : \A j \in 1..Len(t.table[b]) : Bucket(t, t.table[b][j][1]) = b
KeysDiffer(t) ==
    \A b \in 0..(t.size - 1) : \A i, j \in 1..Len(t.table[b]) :
        t.table[b][i][1] = t.table[b][j][1] => i = j

Tidy(t) == t \in AnyTable /\ InItsChain(t) /\ KeysDiffer(t)

Counted(t) == IsFiniteSet(TableKeys(t)) /\ t.used = Cardinality(TableKeys(t))

(* What a table holds.                                                     *)
EntriesOf(t) == UNION {Range(t.table[b]) : b \in DOMAIN t.table}

LEMMA TableType ==
    ASSUME NEW t \in AnyTable
    PROVE  /\ t.size \in Nat /\ t.used \in Nat /\ t \in TablesOf(t.size)
           /\ t.table \in [0..(t.size - 1) -> Seq(DictEntries)] /\ DOMAIN t.table = 0..(t.size - 1)
           /\ \A b \in 0..(t.size - 1) :
                 /\ t.table[b] \in Seq(DictEntries) /\ Len(t.table[b]) \in Nat
                 /\ DOMAIN t.table[b] = 1..Len(t.table[b])
                 /\ \A j \in 1..Len(t.table[b]) : t.table[b][j] \in DictEntries
  <1>1. PICK n \in Nat : t \in TablesOf(n)
    BY DEF AnyTable
  <1>2. t.size = n /\ t.used \in Nat /\ t.table \in [0..(n - 1) -> Seq(DictEntries)]
    BY <1>1 DEF TablesOf
  <1>3. DOMAIN t.table = 0..(n - 1) /\ \A b \in 0..(n - 1) : t.table[b] \in Seq(DictEntries)
    BY <1>2
  <1>4. ASSUME NEW c \in Seq(DictEntries)
        PROVE  Len(c) \in Nat /\ DOMAIN c = 1..Len(c) /\ \A j \in 1..Len(c) : c[j] \in DictEntries
    OBVIOUS
  <1> QED BY <1>1, <1>2, <1>3, <1>4

LEMMA EntryKey ==
    ASSUME NEW e \in DictEntries PROVE e[1] \in DictKeys /\ e = <<e[1], e[2]>>
  BY DEF DictEntries

LEMMA BucketIn ==
    ASSUME NEW t \in AnyTable, t.size > 0, NEW k \in DictKeys
    PROVE  Bucket(t, k) \in 0..(t.size - 1)
  <1>1. t.size \in Nat /\ DictHash[k] \in Nat
    BY TableType, DictAssumption
  <1> QED BY <1>1 DEF Bucket

(* The entries of a table, by the places they are in.                      *)
LEMMA InEntries ==
    ASSUME NEW t \in AnyTable, NEW e
    PROVE  e \in EntriesOf(t) <=>
              \E b \in 0..(t.size - 1) : \E j \in 1..Len(t.table[b]) : e = t.table[b][j]
  <1>1. DOMAIN t.table = 0..(t.size - 1)
    BY TableType
  <1>2. \A b \in 0..(t.size - 1) : DOMAIN t.table[b] = 1..Len(t.table[b])
    BY TableType
  <1> QED BY <1>1, <1>2 DEF EntriesOf, Range

LEMMA EntriesTyped ==
    ASSUME NEW t \in AnyTable PROVE EntriesOf(t) \subseteq DictEntries
  BY TableType, InEntries

LEMMA KeysOfEntries ==
    ASSUME NEW t PROVE TableKeys(t) = {e[1] : e \in EntriesOf(t)}
  BY DEF TableKeys, KeysIn, EntriesOf

LEMMA InKeys ==
    ASSUME NEW t \in AnyTable, NEW k
    PROVE  k \in TableKeys(t) <=>
              \E b \in 0..(t.size - 1) : \E j \in 1..Len(t.table[b]) : k = t.table[b][j][1]
  <1>1. k \in TableKeys(t) <=> \E e \in EntriesOf(t) : k = e[1]
    BY KeysOfEntries
  <1>2. \A e : e \in EntriesOf(t) <=>
              \E b \in 0..(t.size - 1) : \E j \in 1..Len(t.table[b]) : e = t.table[b][j]
    BY InEntries
  <1> QED BY <1>1, <1>2

(* The node of a key that is there.                                        *)
LEMMA Node ==
    ASSUME NEW t, Tidy(t), NEW k \in TableKeys(t)
    PROVE  LET b == Bucket(t, k)
               c == t.table[b]
               i == NodeOf(c, k)
           IN  /\ t.size > 0 /\ k \in DictKeys /\ b \in 0..(t.size - 1)
               /\ i \in 1..Len(c) /\ c[i][1] = k /\ c[i] \in EntriesOf(t)
               /\ \A j \in 1..Len(c) : c[j][1] = k => j = i
  <1> DEFINE b == Bucket(t, k)
             c == t.table[b]
             i == NodeOf(c, k)
  <1>1. t \in AnyTable /\ t.size \in Nat
    BY TableType DEF Tidy
  <1>a. PICK a \in 0..(t.size - 1) : \E j \in 1..Len(t.table[a]) : k = t.table[a][j][1]
    BY <1>1, InKeys
  <1>2. PICK j \in 1..Len(t.table[a]) : k = t.table[a][j][1]
    BY <1>a
  <1>3. a = b
    BY <1>2 DEF Tidy, InItsChain
  <1>4. b \in 0..(t.size - 1) /\ j \in 1..Len(c) /\ c[j][1] = k /\ t.size > 0
    <2>1. t.size > 0
      BY <1>1
    <2>2. j \in 1..Len(t.table[a]) /\ t.table[a][j][1] = k
      BY <1>2
    <2> HIDE DEF b
    <2> QED BY <1>3, <2>1, <2>2
  <1>5. k \in DictKeys
    BY <1>1, <1>4, TableType, EntryKey
  <1> HIDE DEF b
  <1>6. {n \in 1..Len(c) : c[n][1] = k} = {j}
    BY <1>4 DEF Tidy, KeysDiffer
  <1>7. i = j
    <2>1. j <= j
      BY <1>1, <1>4, TableType
    <2>2. Min({j}) = j
      BY <2>1, MinSingleton
    <2> QED BY <1>6, <2>2, Zenon DEF NodeOf, SelectInSeq
  <1>8. c[j] \in EntriesOf(t)
    BY <1>1, <1>4, InEntries
  <1>9. \A n \in 1..Len(c) : c[n][1] = k => n = j
    BY <1>6
  <1> HIDE DEF c, i
  <1> QED BY <1>4, <1>5, <1>7, <1>8, <1>9 DEF i, c, b

(* An entry is the only one of its key.                                    *)
LEMMA OneEntry ==
    ASSUME NEW t, Tidy(t), NEW e \in EntriesOf(t), NEW f \in EntriesOf(t), e[1] = f[1]
    PROVE  e = f
  <1>1. t \in AnyTable
    BY DEF Tidy
  <1>a. PICK a \in 0..(t.size - 1) : \E i \in 1..Len(t.table[a]) : e = t.table[a][i]
    BY <1>1, InEntries
  <1>2. PICK i \in 1..Len(t.table[a]) : e = t.table[a][i]
    BY <1>a
  <1>b. PICK b \in 0..(t.size - 1) : \E j \in 1..Len(t.table[b]) : f = t.table[b][j]
    BY <1>1, InEntries
  <1>3. PICK j \in 1..Len(t.table[b]) : f = t.table[b][j]
    BY <1>b
  <1>4. a = b
    BY <1>2, <1>3 DEF Tidy, InItsChain
  <1> QED BY <1>2, <1>3, <1>4 DEF Tidy, KeysDiffer

(* x is in the chain of n, at n or after it.                               *)
InFrom(t, n, x) ==
    \E b \in 0..(t.size - 1) : \E i, j \in 1..Len(t.table[b]) :
        i <= j /\ t.table[b][i][1] = n /\ t.table[b][j][1] = x

(* The keys of a chain from n on.                                          *)
From(t, n) == {x \in TableKeys(t) : InFrom(t, n, x)}

LEMMA InFromKey ==
    ASSUME NEW t \in AnyTable, NEW n, NEW x, InFrom(t, n, x)
    PROVE  n \in TableKeys(t) /\ x \in TableKeys(t)
  BY InKeys DEF InFrom

LEMMA SameFrom ==
    ASSUME NEW t \in AnyTable, NEW u \in AnyTable, NEW n,
           \A x : InFrom(u, n, x) <=> InFrom(t, n, x)
    PROVE  From(u, n) = From(t, n)
  BY InFromKey DEF From

(* A key that is not there.                                                *)
LEMMA NoNode ==
    ASSUME NEW t \in AnyTable, NEW k, k \notin TableKeys(t), NEW b \in 0..(t.size - 1)
    PROVE  \A j \in 1..Len(t.table[b]) : t.table[b][j][1] # k
  BY InKeys

(* A chain with an entry put to its front.                                 *)
LEMMA Prepended ==
    ASSUME NEW S, NEW c \in Seq(S), NEW e \in S
    PROVE  /\ <<e>> \o c \in Seq(S) /\ Len(<<e>> \o c) = Len(c) + 1 /\ (<<e>> \o c)[1] = e
           /\ \A j \in 1..Len(c) : (<<e>> \o c)[j + 1] = c[j]
           /\ \A j \in 2..(Len(c) + 1) : (<<e>> \o c)[j] = c[j - 1]
  OBVIOUS

(* The fields of a table in which one chain has been changed.              *)
IsChanged(t, b, c, n, u) == u = [t EXCEPT !.table[b] = c, !.used = n]

LEMMA Changed ==
    ASSUME NEW t \in AnyTable, NEW b \in 0..(t.size - 1), NEW c \in Seq(DictEntries),
           NEW n \in Nat, NEW u, IsChanged(t, b, c, n, u)
    PROVE  /\ u \in AnyTable /\ u.size = t.size /\ u.used = n /\ u.table[b] = c
           /\ \A a \in 0..(t.size - 1) : a # b => u.table[a] = t.table[a]
           /\ \A k : Bucket(u, k) = Bucket(t, k)
  <1>1. /\ t.size \in Nat /\ t \in TablesOf(t.size)
        /\ t.table \in [0..(t.size - 1) -> Seq(DictEntries)]
    BY TableType
  <1>2. /\ u \in TablesOf(t.size) /\ u.size = t.size /\ u.used = n
        /\ u.table = [t.table EXCEPT ![b] = c]
    BY <1>1 DEF TablesOf, IsChanged
  <1>3. u \in AnyTable
    BY <1>1, <1>2 DEF AnyTable
  <1> QED BY <1>1, <1>2, <1>3 DEF Bucket

(* Linked() puts one entry more into a table.                              *)
LEMMA LinkedTable ==
    ASSUME NEW t, Tidy(t), t.size > 0, NEW e \in DictEntries, e[1] \notin TableKeys(t)
    PROVE  /\ Tidy(Linked(t, e)) /\ Linked(t, e).size = t.size
           /\ Linked(t, e).used = t.used + 1
           /\ EntriesOf(Linked(t, e)) = EntriesOf(t) \cup {e}
           /\ \A k : Bucket(Linked(t, e), k) = Bucket(t, k)
           /\ \A n : n # e[1] => From(Linked(t, e), n) = From(t, n)
  <1> DEFINE k == e[1]
             b == Bucket(t, k)
             c == t.table[b]
             d == <<e>> \o c
             u == Linked(t, e)
  <1>1. t \in AnyTable /\ t.size \in Nat /\ t.used \in Nat /\ k \in DictKeys
    BY TableType, EntryKey DEF Tidy
  <1>2. b \in 0..(t.size - 1)
    BY <1>1, BucketIn
  <1>3. c \in Seq(DictEntries) /\ Len(c) \in Nat
    BY <1>1, <1>2, TableType
  <1>4. u = [t EXCEPT !.table[b] = d, !.used = t.used + 1]
    BY DEF Linked
  <1>5. /\ d \in Seq(DictEntries) /\ Len(d) = Len(c) + 1 /\ d[1] = e
        /\ \A j \in 1..Len(c) : d[j + 1] = c[j]
        /\ \A j \in 2..(Len(c) + 1) : d[j] = c[j - 1]
    <2> HIDE DEF c
    <2> QED BY <1>3, Prepended
  <1>6. /\ \A j \in 1..Len(c) : c[j][1] # k /\ Bucket(t, c[j][1]) = b
        /\ Bucket(t, e[1]) = b
    BY <1>1, <1>2, NoNode DEF Tidy, InItsChain
  <1> HIDE DEF d, u, b
  <1>7. /\ u \in AnyTable /\ u.size = t.size /\ u.used = t.used + 1 /\ u.table[b] = d
        /\ \A a \in 0..(t.size - 1) : a # b => u.table[a] = t.table[a]
        /\ \A x : Bucket(u, x) = Bucket(t, x)
    <2> DEFINE n == t.used + 1
    <2>1. n \in Nat /\ IsChanged(t, b, d, n, u)
      BY <1>1, <1>4 DEF IsChanged
    <2>2. d \in Seq(DictEntries)
      BY <1>5
    <2> HIDE DEF n
    <2>3. /\ u \in AnyTable /\ u.size = t.size /\ u.used = n /\ u.table[b] = d
          /\ \A a \in 0..(t.size - 1) : a # b => u.table[a] = t.table[a]
          /\ \A x : Bucket(u, x) = Bucket(t, x)
      BY <1>1, <1>2, <2>1, <2>2, Changed
    <2> QED BY <2>3 DEF n
  <1>8. ASSUME NEW j \in 1..Len(d)
        PROVE  \/ j = 1 /\ d[j] = e
               \/ j # 1 /\ j - 1 \in 1..Len(c) /\ d[j] = c[j - 1]
    <2>1. CASE j = 1
      BY <1>5, <2>1
    <2>2. CASE j # 1
      <3>1. j \in 2..(Len(c) + 1) /\ j - 1 \in 1..Len(c)
        BY <1>3, <1>5, <2>2
      <3> QED BY <1>5, <2>2, <3>1
    <2> QED BY <2>1, <2>2
  <1>9. ASSUME NEW a \in 0..(t.size - 1), NEW j \in 1..Len(u.table[a])
        PROVE  Bucket(u, u.table[a][j][1]) = a
    <2>1. CASE a = b
      <3>1. j \in 1..Len(d) /\ u.table[a][j] = d[j]
        BY <1>7, <1>9, <2>1
      <3>2. d[j] = e \/ (j - 1 \in 1..Len(c) /\ d[j] = c[j - 1])
        BY <1>8, <3>1
      <3>3. Bucket(t, d[j][1]) = b
        BY <1>6, <3>2
      <3> QED BY <1>7, <2>1, <3>1, <3>3
    <2>2. CASE a # b
      BY <1>7, <1>9, <2>2 DEF Tidy, InItsChain
    <2> QED BY <2>1, <2>2
  <1>10. ASSUME NEW a \in 0..(t.size - 1), NEW i \in 1..Len(u.table[a]),
                NEW j \in 1..Len(u.table[a]), u.table[a][i][1] = u.table[a][j][1]
         PROVE  i = j
    <2>1. CASE a = b
      <3>0. i \in 1..Len(d) /\ j \in 1..Len(d) /\ d[i][1] = d[j][1]
        BY <1>7, <1>10, <2>1
      <3>1. CASE i = 1 \/ j = 1
        <4>1. ASSUME NEW l \in 1..Len(d), l # 1 PROVE d[l][1] # k
          <5>1. l - 1 \in 1..Len(c) /\ d[l] = c[l - 1]
            BY <1>8, <4>1
          <5> QED BY <1>6, <5>1
        <4>2. d[1][1] = k
          BY <1>5
        <4> QED BY <3>0, <3>1, <4>1, <4>2
      <3>2. CASE i # 1 /\ j # 1
        <4>1. /\ i - 1 \in 1..Len(c) /\ j - 1 \in 1..Len(c)
              /\ c[i - 1][1] = c[j - 1][1]
          BY <1>8, <3>0, <3>2
        <4>3. i - 1 = j - 1
          BY <1>2, <4>1 DEF Tidy, KeysDiffer
        <4> QED BY <1>3, <1>5, <3>0, <4>3
      <3> QED BY <3>1, <3>2
    <2>2. CASE a # b
      BY <1>7, <1>10, <2>2 DEF Tidy, KeysDiffer
    <2> QED BY <2>1, <2>2
  <1>11. Tidy(u)
    BY <1>7, <1>9, <1>10 DEF Tidy, InItsChain, KeysDiffer
  <1>12. ASSUME NEW x PROVE x \in EntriesOf(u) <=> x \in EntriesOf(t) \cup {e}
    <2>1. ASSUME x \in EntriesOf(u) PROVE x \in EntriesOf(t) \cup {e}
      <3>1. PICK a \in 0..(t.size - 1) : \E j \in 1..Len(u.table[a]) : x = u.table[a][j]
        BY <1>7, <2>1, InEntries
      <3>2. PICK j \in 1..Len(u.table[a]) : x = u.table[a][j]
        BY <3>1
      <3>3. CASE a = b
        BY <1>1, <1>2, <1>7, <1>8, <3>2, <3>3, InEntries
      <3>4. CASE a # b
        BY <1>1, <1>7, <3>2, <3>4, InEntries
      <3> QED BY <3>3, <3>4
    <2>2. ASSUME x \in EntriesOf(t) PROVE x \in EntriesOf(u)
      <3>1. PICK a \in 0..(t.size - 1) : \E j \in 1..Len(t.table[a]) : x = t.table[a][j]
        BY <1>1, <2>2, InEntries
      <3>2. PICK j \in 1..Len(t.table[a]) : x = t.table[a][j]
        BY <3>1
      <3>3. CASE a = b
        <4>1. j + 1 \in 1..Len(d) /\ x = d[j + 1]
          BY <1>3, <1>5, <3>2, <3>3
        <4> QED BY <1>2, <1>7, <4>1, InEntries
      <3>4. CASE a # b
        BY <1>7, <3>2, <3>4, InEntries
      <3> QED BY <3>3, <3>4
    <2>3. e \in EntriesOf(u)
      <3>1. 1 \in 1..Len(d) /\ e = d[1]
        BY <1>3, <1>5
      <3> QED BY <1>2, <1>7, <3>1, InEntries
    <2> QED BY <2>1, <2>2, <2>3
  <1>13. ASSUME NEW n, n # e[1], NEW x PROVE InFrom(u, n, x) <=> InFrom(t, n, x)
    <2>1. ASSUME NEW a \in 0..(t.size - 1), NEW i \in 1..Len(u.table[a]),
                 NEW j \in 1..Len(u.table[a]), i <= j, u.table[a][i][1] = n, u.table[a][j][1] = x
          PROVE  InFrom(t, n, x)
      <3>1. CASE a = b
        <4>1. i \in 1..Len(d) /\ j \in 1..Len(d) /\ d[i][1] = n /\ d[j][1] = x
          BY <1>7, <2>1, <3>1
        <4>2. i # 1 /\ i - 1 \in 1..Len(c) /\ d[i] = c[i - 1]
          BY <1>8, <1>13, <4>1
        <4>3. j # 1 /\ j - 1 \in 1..Len(c) /\ d[j] = c[j - 1] /\ i - 1 <= j - 1
          BY <1>8, <2>1, <4>1, <4>2
        <4>4. c[i - 1][1] = n /\ c[j - 1][1] = x
          BY <4>1, <4>2, <4>3
        <4> QED BY <1>2, <4>2, <4>3, <4>4 DEF InFrom
      <3>2. CASE a # b
        BY <1>7, <2>1, <3>2 DEF InFrom
      <3> QED BY <3>1, <3>2
    <2>2. ASSUME NEW a \in 0..(t.size - 1), NEW i \in 1..Len(t.table[a]),
                 NEW j \in 1..Len(t.table[a]), i <= j, t.table[a][i][1] = n, t.table[a][j][1] = x
          PROVE  InFrom(u, n, x)
      <3>1. CASE a = b
        <4>1. /\ i + 1 \in 1..Len(d) /\ j + 1 \in 1..Len(d) /\ i + 1 <= j + 1
              /\ d[i + 1] = c[i] /\ d[j + 1] = c[j] /\ c[i][1] = n /\ c[j][1] = x
          BY <1>3, <1>5, <2>2, <3>1
        <4>2. \E l, m \in 1..Len(u.table[b]) :
                 l <= m /\ u.table[b][l][1] = n /\ u.table[b][m][1] = x
          BY <1>7, <4>1
        <4> QED BY <1>2, <1>7, <4>2 DEF InFrom
      <3>2. CASE a # b
        BY <1>7, <2>2, <3>2 DEF InFrom
      <3> QED BY <3>1, <3>2
    <2> QED BY <1>7, <2>1, <2>2 DEF InFrom
  <1>14. \A n : n # e[1] => From(u, n) = From(t, n)
    BY <1>1, <1>7, <1>13, SameFrom
  <1> QED BY <1>7, <1>11, <1>12, <1>14 DEF u

(* Unlinked() takes the entry of a key out.                                *)
LEMMA UnlinkedTable ==
    ASSUME NEW t, Tidy(t), t.used > 0, NEW k \in TableKeys(t)
    PROVE  /\ Tidy(Unlinked(t, k)) /\ Unlinked(t, k).size = t.size
           /\ Unlinked(t, k).used = t.used - 1
           /\ EntriesOf(Unlinked(t, k)) = {e \in EntriesOf(t) : e[1] # k}
           /\ \A x : Bucket(Unlinked(t, k), x) = Bucket(t, x)
           /\ \A n : n # k => From(Unlinked(t, k), n) = From(t, n) \ {k}
  <1> DEFINE b == Bucket(t, k)
             c == t.table[b]
             p == NodeOf(c, k)
             d == Without(c, k)
             u == Unlinked(t, k)
             f(j) == IF j < p THEN j ELSE j + 1
  <1>1. t \in AnyTable /\ t.size \in Nat /\ t.used \in Nat
    BY TableType DEF Tidy
  <1>2. /\ b \in 0..(t.size - 1) /\ p \in 1..Len(c) /\ c[p][1] = k
        /\ \A j \in 1..Len(c) : c[j][1] = k => j = p
    BY Node
  <1>3. c \in Seq(DictEntries) /\ Len(c) \in Nat
    BY <1>1, <1>2, TableType
  <1>4. u = [t EXCEPT !.table[b] = d, !.used = t.used - 1]
    BY DEF Unlinked
  <1>5. /\ d \in Seq(DictEntries) /\ Len(d) = Len(c) - 1
        /\ \A j \in 1..(Len(c) - 1) : d[j] = IF j < p THEN c[j] ELSE c[j + 1]
    <2>1. d = RemoveAt(c, p)
      BY DEF Without
    <2> HIDE DEF c, p, d
    <2> QED BY <1>2, <1>3, <2>1, Removed
  <1> HIDE DEF d, u, b, p
  <1>6. ASSUME NEW j \in 1..Len(d)
        PROVE  f(j) \in 1..Len(c) /\ f(j) # p /\ d[j] = c[f(j)] /\ c[f(j)][1] # k
    <2>1. f(j) \in 1..Len(c) /\ f(j) # p
      BY <1>2, <1>3, <1>5
    <2>2. d[j] = c[f(j)]
      BY <1>3, <1>5
    <2> QED BY <1>2, <2>1, <2>2
  <1>7. ASSUME NEW i \in 1..Len(c), i # p
        PROVE  \E j \in 1..Len(d) : f(j) = i
    <2>1. CASE i < p
      <3>1. i \in 1..Len(d) /\ f(i) = i
        BY <1>2, <1>3, <1>5, <2>1
      <3> QED BY <3>1
    <2>2. CASE i > p
      <3>1. i - 1 \in 1..Len(d) /\ f(i - 1) = i
        BY <1>2, <1>3, <1>5, <2>2
      <3> QED BY <3>1
    <2> QED BY <1>2, <1>7, <2>1, <2>2
  <1>8. ASSUME NEW i \in 1..Len(d), NEW j \in 1..Len(d)
        PROVE  (f(i) <= f(j) <=> i <= j) /\ (f(i) = f(j) => i = j)
    BY <1>2, <1>3, <1>5
  <1>9. /\ u \in AnyTable /\ u.size = t.size /\ u.used = t.used - 1 /\ u.table[b] = d
        /\ \A a \in 0..(t.size - 1) : a # b => u.table[a] = t.table[a]
        /\ \A x : Bucket(u, x) = Bucket(t, x)
    <2> DEFINE n == t.used - 1
    <2>1. n \in Nat /\ IsChanged(t, b, d, n, u)
      BY <1>1, <1>4 DEF IsChanged
    <2>2. d \in Seq(DictEntries)
      BY <1>5
    <2> HIDE DEF n
    <2>3. /\ u \in AnyTable /\ u.size = t.size /\ u.used = n /\ u.table[b] = d
          /\ \A a \in 0..(t.size - 1) : a # b => u.table[a] = t.table[a]
          /\ \A x : Bucket(u, x) = Bucket(t, x)
      BY <1>1, <1>2, <2>1, <2>2, Changed
    <2> QED BY <2>3 DEF n
  <1> HIDE DEF f
  <1>10. ASSUME NEW a \in 0..(t.size - 1), a # b, NEW j \in 1..Len(t.table[a])
         PROVE  t.table[a][j][1] # k
    BY <1>10 DEF Tidy, InItsChain, b
  <1>11. ASSUME NEW a \in 0..(t.size - 1), NEW j \in 1..Len(u.table[a])
         PROVE  Bucket(u, u.table[a][j][1]) = a
    <2>1. CASE a = b
      <3>1. j \in 1..Len(d) /\ u.table[a][j] = d[j]
        BY <1>9, <1>11, <2>1
      <3>2. Bucket(t, c[f(j)][1]) = b
        BY <1>2, <1>6, <3>1 DEF Tidy, InItsChain
      <3> QED BY <1>6, <1>9, <2>1, <3>1, <3>2
    <2>2. CASE a # b
      BY <1>9, <1>11, <2>2 DEF Tidy, InItsChain
    <2> QED BY <2>1, <2>2
  <1>12. ASSUME NEW a \in 0..(t.size - 1), NEW i \in 1..Len(u.table[a]),
                NEW j \in 1..Len(u.table[a]), u.table[a][i][1] = u.table[a][j][1]
         PROVE  i = j
    <2>1. CASE a = b
      <3>1. i \in 1..Len(d) /\ j \in 1..Len(d) /\ d[i][1] = d[j][1]
        BY <1>9, <1>12, <2>1
      <3>2. f(i) \in 1..Len(c) /\ f(j) \in 1..Len(c) /\ c[f(i)][1] = c[f(j)][1]
        BY <1>6, <3>1
      <3>3. f(i) = f(j)
        BY <1>2, <3>2 DEF Tidy, KeysDiffer
      <3> QED BY <1>8, <3>1, <3>3
    <2>2. CASE a # b
      BY <1>9, <1>12, <2>2 DEF Tidy, KeysDiffer
    <2> QED BY <2>1, <2>2
  <1>13. Tidy(u)
    BY <1>9, <1>11, <1>12 DEF Tidy, InItsChain, KeysDiffer
  <1>14. ASSUME NEW x PROVE x \in EntriesOf(u) <=> x \in EntriesOf(t) /\ x[1] # k
    <2>1. ASSUME x \in EntriesOf(u) PROVE x \in EntriesOf(t) /\ x[1] # k
      <3>1. PICK a \in 0..(t.size - 1) : \E j \in 1..Len(u.table[a]) : x = u.table[a][j]
        BY <1>9, <2>1, InEntries
      <3>2. PICK j \in 1..Len(u.table[a]) : x = u.table[a][j]
        BY <3>1
      <3>3. CASE a = b
        <4>1. j \in 1..Len(d) /\ x = d[j]
          BY <1>9, <3>2, <3>3
        <4>2. f(j) \in 1..Len(c) /\ x = c[f(j)] /\ x[1] # k
          BY <1>6, <4>1
        <4> QED BY <1>1, <1>2, <4>2, InEntries
      <3>4. CASE a # b
        <4>1. j \in 1..Len(t.table[a]) /\ x = t.table[a][j]
          BY <1>9, <3>2, <3>4
        <4>2. x[1] # k
          BY <1>10, <3>4, <4>1
        <4>3. x \in EntriesOf(t)
          BY <1>1, <4>1, InEntries
        <4> QED BY <4>2, <4>3
      <3> QED BY <3>3, <3>4
    <2>2. ASSUME x \in EntriesOf(t), x[1] # k PROVE x \in EntriesOf(u)
      <3>1. PICK a \in 0..(t.size - 1) : \E j \in 1..Len(t.table[a]) : x = t.table[a][j]
        BY <1>1, <2>2, InEntries
      <3>2. PICK j \in 1..Len(t.table[a]) : x = t.table[a][j]
        BY <3>1
      <3>3. CASE a = b
        <4>1. j \in 1..Len(c) /\ j # p /\ x = c[j]
          BY <1>2, <2>2, <3>2, <3>3
        <4>2. PICK i \in 1..Len(d) : f(i) = j
          BY <1>7, <4>1
        <4>3. x = d[i]
          BY <1>6, <4>1, <4>2
        <4> QED BY <1>2, <1>9, <4>3, InEntries
      <3>4. CASE a # b
        BY <1>9, <3>2, <3>4, InEntries
      <3> QED BY <3>3, <3>4
    <2> QED BY <2>1, <2>2
  <1>15. ASSUME NEW n, n # k, NEW x PROVE InFrom(u, n, x) <=> InFrom(t, n, x) /\ x # k
    <2>1. ASSUME NEW a \in 0..(t.size - 1), NEW i \in 1..Len(u.table[a]),
                 NEW j \in 1..Len(u.table[a]), i <= j, u.table[a][i][1] = n, u.table[a][j][1] = x
          PROVE  InFrom(t, n, x) /\ x # k
      <3>1. CASE a = b
        <4>1. i \in 1..Len(d) /\ j \in 1..Len(d) /\ d[i][1] = n /\ d[j][1] = x
          BY <1>9, <2>1, <3>1
        <4>2. f(i) \in 1..Len(c) /\ c[f(i)][1] = n
          BY <1>6, <4>1
        <4>3. f(j) \in 1..Len(c) /\ c[f(j)][1] = x /\ x # k
          BY <1>6, <4>1
        <4>4. f(i) <= f(j)
          BY <1>8, <2>1, <4>1
        <4> QED BY <1>2, <4>2, <4>3, <4>4 DEF InFrom
      <3>2. CASE a # b
        BY <1>9, <1>10, <2>1, <3>2 DEF InFrom
      <3> QED BY <3>1, <3>2
    <2>2. ASSUME NEW a \in 0..(t.size - 1), NEW i \in 1..Len(t.table[a]), x # k,
                 NEW j \in 1..Len(t.table[a]), i <= j, t.table[a][i][1] = n, t.table[a][j][1] = x
          PROVE  InFrom(u, n, x)
      <3>1. CASE a = b
        <4>1. /\ i \in 1..Len(c) /\ j \in 1..Len(c) /\ i # p /\ j # p
              /\ c[i][1] = n /\ c[j][1] = x
          BY <1>2, <1>15, <2>2, <3>1
        <4>2. PICK l \in 1..Len(d) : f(l) = i
          BY <1>7, <4>1
        <4>3. PICK m \in 1..Len(d) : f(m) = j
          BY <1>7, <4>1
        <4>4. l <= m
          BY <1>8, <2>2, <4>2, <4>3
        <4>5. d[l][1] = n /\ d[m][1] = x
          BY <1>6, <4>1, <4>2, <4>3
        <4>6. \E y, z \in 1..Len(u.table[b]) :
                 y <= z /\ u.table[b][y][1] = n /\ u.table[b][z][1] = x
          BY <1>9, <4>4, <4>5
        <4> QED BY <1>2, <1>9, <4>6 DEF InFrom
      <3>2. CASE a # b
        BY <1>9, <2>2, <3>2 DEF InFrom
      <3> QED BY <3>1, <3>2
    <2> QED BY <1>9, <2>1, <2>2 DEF InFrom
  <1>16. ASSUME NEW n, n # k PROVE From(u, n) = From(t, n) \ {k}
    BY <1>1, <1>9, <1>15, <1>16, InFromKey DEF From
  <1> QED BY <1>9, <1>13, <1>14, <1>16 DEF u

(* WithValue() gives the entry of a key another value.                     *)
LEMMA ValuedTable ==
    ASSUME NEW t, Tidy(t), NEW k \in TableKeys(t), NEW v, <<k, v>> \in DictEntries
    PROVE  /\ Tidy(WithValue(t, k, v)) /\ WithValue(t, k, v).size = t.size
           /\ WithValue(t, k, v).used = t.used
           /\ EntriesOf(WithValue(t, k, v)) = {e \in EntriesOf(t) : e[1] # k} \cup {<<k, v>>}
           /\ \A x : Bucket(WithValue(t, k, v), x) = Bucket(t, x)
           /\ \A n : From(WithValue(t, k, v), n) = From(t, n)
  <1> DEFINE b == Bucket(t, k)
             c == t.table[b]
             p == NodeOf(c, k)
             d == [c EXCEPT ![p] = <<k, v>>]
             u == WithValue(t, k, v)
  <1>1. t \in AnyTable /\ t.size \in Nat /\ t.used \in Nat
    BY TableType DEF Tidy
  <1>2. /\ b \in 0..(t.size - 1) /\ p \in 1..Len(c) /\ c[p][1] = k
        /\ \A j \in 1..Len(c) : c[j][1] = k => j = p
    BY Node
  <1>3. c \in Seq(DictEntries) /\ Len(c) \in Nat
    BY <1>1, <1>2, TableType
  <1>4. u = [t EXCEPT !.table[b] = d]
    BY DEF WithValue
  <1>5. /\ d \in Seq(DictEntries) /\ Len(d) = Len(c) /\ d[p] = <<k, v>>
        /\ \A j \in 1..Len(c) : (j # p => d[j] = c[j]) /\ d[j][1] = c[j][1]
    <2>1. /\ d \in Seq(DictEntries) /\ Len(d) = Len(c) /\ d[p] = <<k, v>>
          /\ \A j \in 1..Len(c) : j # p => d[j] = c[j]
      <3> HIDE DEF c, p
      <3> QED BY <1>2, <1>3
    <2> HIDE DEF d, c, p
    <2> QED BY <1>2, <2>1
  <1> HIDE DEF d, u, b, p
  <1>6. /\ u \in AnyTable /\ u.size = t.size /\ u.used = t.used /\ u.table[b] = d
        /\ \A a \in 0..(t.size - 1) : a # b => u.table[a] = t.table[a]
        /\ \A x : Bucket(u, x) = Bucket(t, x)
    <2> DEFINE n == t.used
    <2>1. n \in Nat /\ IsChanged(t, b, d, n, u)
      <3>1. t \in TablesOf(t.size)
        BY <1>1, TableType
      <3> QED BY <1>1, <1>4, <3>1 DEF IsChanged, TablesOf
    <2>2. d \in Seq(DictEntries)
      BY <1>5
    <2> HIDE DEF n
    <2>3. /\ u \in AnyTable /\ u.size = t.size /\ u.used = n /\ u.table[b] = d
          /\ \A a \in 0..(t.size - 1) : a # b => u.table[a] = t.table[a]
          /\ \A x : Bucket(u, x) = Bucket(t, x)
      BY <1>1, <1>2, <2>1, <2>2, Changed
    <2> QED BY <2>3 DEF n
  <1>7. ASSUME NEW a \in 0..(t.size - 1)
        PROVE  /\ Len(u.table[a]) = Len(t.table[a])
               /\ \A j \in 1..Len(t.table[a]) : u.table[a][j][1] = t.table[a][j][1]
    <2>1. CASE a = b
      BY <1>5, <1>6, <2>1
    <2>2. CASE a # b
      BY <1>6, <2>2
    <2> QED BY <2>1, <2>2
  <1>8. Tidy(u)
    <2>1. InItsChain(u)
      BY <1>6, <1>7 DEF Tidy, InItsChain
    <2>2. KeysDiffer(u)
      BY <1>6, <1>7 DEF Tidy, KeysDiffer
    <2> QED BY <1>6, <2>1, <2>2 DEF Tidy
  <1>9. ASSUME NEW n, NEW x PROVE InFrom(u, n, x) <=> InFrom(t, n, x)
    <2>1. ASSUME NEW a \in 0..(t.size - 1)
          PROVE  (\E i, j \in 1..Len(u.table[a]) :
                     i <= j /\ u.table[a][i][1] = n /\ u.table[a][j][1] = x)
                 <=> (\E i, j \in 1..Len(t.table[a]) :
                     i <= j /\ t.table[a][i][1] = n /\ t.table[a][j][1] = x)
      <3> DEFINE y == u.table[a]
                 z == t.table[a]
      <3>1. Len(y) = Len(z) /\ \A j \in 1..Len(z) : y[j][1] = z[j][1]
        BY <1>7
      <3> HIDE DEF y, z
      <3>2. (\E i, j \in 1..Len(y) : i <= j /\ y[i][1] = n /\ y[j][1] = x)
            <=> (\E i, j \in 1..Len(z) : i <= j /\ z[i][1] = n /\ z[j][1] = x)
        BY <3>1
      <3> QED BY <3>2 DEF y, z
    <2> QED BY <1>6, <2>1, Zenon DEF InFrom
  <1>10. \A n : From(u, n) = From(t, n)
    BY <1>1, <1>6, <1>9, SameFrom
  <1>11. ASSUME NEW a \in 0..(t.size - 1), a # b, NEW j \in 1..Len(t.table[a])
         PROVE  t.table[a][j][1] # k
    BY <1>11 DEF Tidy, InItsChain, b
  <1>12. ASSUME NEW x
         PROVE  x \in EntriesOf(u) <=> (x \in EntriesOf(t) /\ x[1] # k) \/ x = <<k, v>>
    <2>1. ASSUME x \in EntriesOf(u) PROVE (x \in EntriesOf(t) /\ x[1] # k) \/ x = <<k, v>>
      <3>1. PICK a \in 0..(t.size - 1) : \E j \in 1..Len(u.table[a]) : x = u.table[a][j]
        BY <1>6, <2>1, InEntries
      <3>2. PICK j \in 1..Len(u.table[a]) : x = u.table[a][j]
        BY <3>1
      <3>3. CASE a = b
        <4>1. j \in 1..Len(c) /\ x = d[j]
          BY <1>5, <1>6, <3>2, <3>3
        <4>2. CASE j = p
          BY <1>5, <4>1, <4>2
        <4>3. CASE j # p
          <5>1. x = c[j] /\ x[1] # k
            BY <1>2, <1>5, <4>1, <4>3
          <5> QED BY <1>1, <1>2, <4>1, <5>1, InEntries
        <4> QED BY <4>2, <4>3
      <3>4. CASE a # b
        BY <1>1, <1>6, <1>11, <3>2, <3>4, InEntries
      <3> QED BY <3>3, <3>4
    <2>2. ASSUME x \in EntriesOf(t), x[1] # k PROVE x \in EntriesOf(u)
      <3>1. PICK a \in 0..(t.size - 1) : \E j \in 1..Len(t.table[a]) : x = t.table[a][j]
        BY <1>1, <2>2, InEntries
      <3>2. PICK j \in 1..Len(t.table[a]) : x = t.table[a][j]
        BY <3>1
      <3>3. CASE a = b
        <4>1. j \in 1..Len(d) /\ x = d[j]
          BY <1>2, <1>5, <2>2, <3>2, <3>3
        <4> QED BY <1>2, <1>6, <4>1, InEntries
      <3>4. CASE a # b
        BY <1>6, <3>2, <3>4, InEntries
      <3> QED BY <3>3, <3>4
    <2>3. <<k, v>> \in EntriesOf(u)
      <3>1. p \in 1..Len(d) /\ <<k, v>> = d[p]
        BY <1>2, <1>5
      <3> QED BY <1>2, <1>6, <3>1, InEntries
    <2> QED BY <2>1, <2>2, <2>3
  <1> QED BY <1>6, <1>8, <1>10, <1>12 DEF u

(* A table that is well formed and counts its entries.                     *)
Sound(t) == Tidy(t) /\ Counted(t)

LEMMA LinkedSound ==
    ASSUME NEW t, Sound(t), t.size > 0, NEW e \in DictEntries, e[1] \notin TableKeys(t)
    PROVE  Sound(Linked(t, e)) /\ TableKeys(Linked(t, e)) = TableKeys(t) \cup {e[1]}
  <1> DEFINE u == Linked(t, e)
  <1>1. Tidy(u) /\ u.used = t.used + 1 /\ EntriesOf(u) = EntriesOf(t) \cup {e}
    BY LinkedTable DEF Sound
  <1> HIDE DEF u
  <1>2. TableKeys(u) = TableKeys(t) \cup {e[1]}
    BY <1>1, KeysOfEntries
  <1>3. Counted(u)
    BY <1>1, <1>2, FS_AddElement DEF Sound, Counted
  <1> QED BY <1>1, <1>2, <1>3 DEF Sound, u

LEMMA UnlinkedSound ==
    ASSUME NEW t, Sound(t), NEW k \in TableKeys(t)
    PROVE  Sound(Unlinked(t, k)) /\ TableKeys(Unlinked(t, k)) = TableKeys(t) \ {k} /\ t.used > 0
  <1> DEFINE u == Unlinked(t, k)
  <1>1. t.used > 0
    <2>1. IsFiniteSet(TableKeys(t)) /\ Cardinality(TableKeys(t)) \in Nat /\ TableKeys(t) # {}
      BY FS_CardinalityType DEF Sound, Counted
    <2>2. Cardinality(TableKeys(t)) # 0
      BY <2>1, FS_EmptySet
    <2> QED BY <2>1, <2>2 DEF Sound, Counted
  <1>2. Tidy(u) /\ u.used = t.used - 1 /\ EntriesOf(u) = {e \in EntriesOf(t) : e[1] # k}
    BY <1>1, UnlinkedTable DEF Sound
  <1> HIDE DEF u
  <1>3. TableKeys(u) = TableKeys(t) \ {k}
    <2>1. ASSUME NEW x PROVE x \in TableKeys(u) <=> x \in TableKeys(t) \ {k}
      <3>1. x \in TableKeys(u) <=> \E e \in EntriesOf(u) : x = e[1]
        BY KeysOfEntries
      <3>2. x \in TableKeys(t) <=> \E e \in EntriesOf(t) : x = e[1]
        BY KeysOfEntries
      <3>3. \A e : e \in EntriesOf(u) <=> e \in EntriesOf(t) /\ e[1] # k
        BY <1>2
      <3> QED BY <3>1, <3>2, <3>3
    <2> QED BY <2>1
  <1>4. Counted(u)
    BY <1>2, <1>3, FS_RemoveElement DEF Sound, Counted
  <1> QED BY <1>1, <1>2, <1>3, <1>4 DEF Sound, u

LEMMA ValuedSound ==
    ASSUME NEW t, Sound(t), NEW k \in TableKeys(t), NEW v, <<k, v>> \in DictEntries
    PROVE  Sound(WithValue(t, k, v)) /\ TableKeys(WithValue(t, k, v)) = TableKeys(t)
  <1> DEFINE u == WithValue(t, k, v)
             e == <<k, v>>
  <1>1. /\ Tidy(u) /\ u.used = t.used
        /\ EntriesOf(u) = {x \in EntriesOf(t) : x[1] # k} \cup {e} /\ e[1] = k
    BY ValuedTable DEF Sound
  <1> HIDE DEF u, e
  <1>2. TableKeys(u) = TableKeys(t)
    <2>1. \A x \in TableKeys(u) : x \in TableKeys(t)
      BY <1>1, KeysOfEntries
    <2>2. ASSUME NEW x \in TableKeys(t) PROVE x \in TableKeys(u)
      <3>1. PICK y \in EntriesOf(t) : x = y[1]
        BY KeysOfEntries
      <3>2. \E z \in EntriesOf(u) : x = z[1]
        BY <1>1, <3>1
      <3> QED BY <3>2, KeysOfEntries
    <2> QED BY <2>1, <2>2
  <1>3. Counted(u)
    BY <1>1, <1>2 DEF Sound, Counted
  <1> QED BY <1>1, <1>2, <1>3 DEF Sound, u

(* A new table holds nothing.                                              *)
LEMMA NewTableSound ==
    ASSUME NEW n \in Nat
    PROVE  /\ Sound(NewTable(n)) /\ NewTable(n).size = n
           /\ EntriesOf(NewTable(n)) = {} /\ TableKeys(NewTable(n)) = {}
           /\ \A b \in 0..(n - 1) : NewTable(n).table[b] = <<>>
  <1> DEFINE t == NewTable(n)
  <1>1. /\ t \in TablesOf(n) /\ t.size = n /\ t.used = 0
        /\ \A b \in 0..(n - 1) : t.table[b] = <<>>
    BY DEF NewTable, TablesOf
  <1> HIDE DEF t
  <1>2. t \in AnyTable
    BY <1>1 DEF AnyTable
  <1>3. \A b \in 0..(n - 1) : 1..Len(t.table[b]) = {}
    BY <1>1
  <1>4. Tidy(t)
    BY <1>1, <1>2, <1>3 DEF Tidy, InItsChain, KeysDiffer
  <1>5. EntriesOf(t) = {}
    BY <1>1, <1>2, <1>3, InEntries
  <1>6. TableKeys(t) = {}
    BY <1>5, KeysOfEntries
  <1>7. Counted(t)
    BY <1>1, <1>6, FS_EmptySet DEF Counted
  <1> QED BY <1>1, <1>4, <1>5, <1>6, <1>7 DEF Sound, t

(* A table that counts nothing is empty.                                   *)
LEMMA EmptyTable ==
    ASSUME NEW t, Sound(t), t.used = 0 \/ t.size = 0
    PROVE  EntriesOf(t) = {} /\ TableKeys(t) = {}
  <1>1. t \in AnyTable /\ t.size \in Nat /\ Counted(t)
    BY TableType DEF Sound, Tidy
  <1>2. CASE t.used = 0
    <2>1. TableKeys(t) = {}
      BY <1>1, <1>2, FS_EmptySet DEF Counted
    <2> QED BY <2>1, KeysOfEntries
  <1>3. CASE t.size = 0
    <2>1. 0..(t.size - 1) = {}
      BY <1>1, <1>3
    <2>2. EntriesOf(t) = {}
      BY <1>1, <2>1, InEntries
    <2> QED BY <2>2, KeysOfEntries
  <1> QED BY <1>2, <1>3

(* The keys of a chain, as many as it is long.                             *)
LEMMA ChainKeys ==
    ASSUME NEW t, Tidy(t), NEW b \in 0..(t.size - 1)
    PROVE  LET K == {t.table[b][j][1] : j \in 1..Len(t.table[b])}
           IN  IsFiniteSet(K) /\ Cardinality(K) = Len(t.table[b])
  <1> DEFINE c == t.table[b]
             n == Len(c)
             K == {c[j][1] : j \in 1..n}
             f == [j \in 1..n |-> c[j][1]]
  <1>1. n \in Nat
    BY TableType DEF Tidy
  <1>2. \A i, j \in 1..n : c[i][1] = c[j][1] => i = j
    BY DEF Tidy, KeysDiffer
  <1> HIDE DEF c, n
  <1>3. f \in Bijection(1..n, K)
    <2>1. f \in [1..n -> K] /\ \A j \in 1..n : f[j] = c[j][1]
      OBVIOUS
    <2>2. \A i, j \in 1..n : f[i] = f[j] => i = j
      BY <1>2, <2>1
    <2>3. \A x \in K : \E j \in 1..n : f[j] = x
      BY <2>1
    <2> HIDE DEF f, K
    <2>4. IsInjective(f)
      BY <2>1, <2>2 DEF IsInjective
    <2> QED BY <2>1, <2>3, <2>4 DEF Bijection, Injection, Surjection
  <1>4. ExistsBijection(1..n, K)
    BY <1>3 DEF ExistsBijection
  <1>5. IsFiniteSet(1..n) /\ Cardinality(1..n) = n
    BY <1>1, FS_Interval
  <1>6. IsFiniteSet(K) /\ Cardinality(K) = n
    <2> HIDE DEF K
    <2> QED BY <1>4, <1>5, FS_Bijection
  <1> QED BY <1>6 DEF K, n, c

(* A table from which a chain has been taken.                              *)
IsEmptied(t, b, u) == IsChanged(t, b, <<>>, t.used - Len(t.table[b]), u)

LEMMA EmptiedSound ==
    ASSUME NEW t, Sound(t), NEW b \in 0..(t.size - 1), NEW u,
           IsEmptied(t, b, u)
    PROVE  /\ Sound(u) /\ u.size = t.size /\ u.table[b] = <<>>
           /\ \A a \in 0..(t.size - 1) : a # b => u.table[a] = t.table[a]
           /\ EntriesOf(u) = EntriesOf(t) \ Range(t.table[b])
           /\ Range(t.table[b]) \subseteq EntriesOf(t)
           /\ TableKeys(u) = {k \in TableKeys(t) : \A j \in 1..Len(t.table[b]) : t.table[b][j][1] # k}
  <1> DEFINE c == t.table[b]
             K == {c[j][1] : j \in 1..Len(c)}
  <1>1. t \in AnyTable /\ t.size \in Nat /\ t.used \in Nat /\ Tidy(t) /\ Counted(t)
    BY TableType DEF Sound, Tidy
  <1>2. c \in Seq(DictEntries) /\ Len(c) \in Nat /\ DOMAIN c = 1..Len(c)
    BY <1>1, TableType
  <1>3. IsFiniteSet(K) /\ Cardinality(K) = Len(c)
    BY <1>1, ChainKeys
  <1>4. K \subseteq TableKeys(t)
    BY <1>1, InKeys
  <1> DEFINE n == t.used - Len(c)
             L == TableKeys(t) \ K
  <1>5. n \in Nat /\ n = Cardinality(L) /\ IsFiniteSet(L)
    <2> HIDE DEF K, c
    <2>1. IsFiniteSet(L)
      BY <1>1, FS_Subset DEF Counted
    <2>2. L \cup K = TableKeys(t) /\ L \cap K = {}
      BY <1>4
    <2>3. Cardinality(TableKeys(t)) = Cardinality(L) + Cardinality(K) - Cardinality({})
      BY <1>3, <2>1, <2>2, FS_Union
    <2>4. Cardinality({}) = 0 /\ Cardinality(L) \in Nat
      BY <2>1, FS_EmptySet, FS_CardinalityType
    <2> HIDE DEF L
    <2> QED BY <1>1, <1>2, <1>3, <2>1, <2>3, <2>4 DEF Counted
  <1>6. IsChanged(t, b, <<>>, n, u)
    BY DEF IsEmptied
  <1> HIDE DEF n
  <1>7. /\ u \in AnyTable /\ u.size = t.size /\ u.used = n /\ u.table[b] = <<>>
        /\ \A a \in 0..(t.size - 1) : a # b => u.table[a] = t.table[a]
        /\ \A x : Bucket(u, x) = Bucket(t, x)
    <2> DEFINE e == <<>>
    <2>1. e \in Seq(DictEntries) /\ IsChanged(t, b, e, n, u)
      BY <1>6
    <2> HIDE DEF e
    <2>2. /\ u \in AnyTable /\ u.size = t.size /\ u.used = n /\ u.table[b] = e
          /\ \A a \in 0..(t.size - 1) : a # b => u.table[a] = t.table[a]
          /\ \A x : Bucket(u, x) = Bucket(t, x)
      BY <1>1, <1>5, <2>1, Changed
    <2> QED BY <2>2 DEF e
  <1>8. 1..Len(u.table[b]) = {}
    BY <1>7
  <1>9. Tidy(u)
    <2>1. InItsChain(u)
      BY <1>1, <1>7, <1>8 DEF Tidy, InItsChain
    <2>2. KeysDiffer(u)
      BY <1>1, <1>7, <1>8 DEF Tidy, KeysDiffer
    <2> QED BY <1>7, <2>1, <2>2 DEF Tidy
  <1>10. ASSUME NEW a \in 0..(t.size - 1), NEW j \in 1..Len(t.table[a])
         PROVE  t.table[a][j][1] \in K <=> a = b
    <2>1. CASE a = b
      BY <2>1
    <2>2. CASE a # b
      <3>1. Bucket(t, t.table[a][j][1]) = a
        BY <1>1 DEF Tidy, InItsChain
      <3>2. \A x \in K : Bucket(t, x) = b
        BY <1>1 DEF Tidy, InItsChain
      <3> HIDE DEF K
      <3> QED BY <2>2, <3>1, <3>2
    <2> QED BY <2>1, <2>2
  <1>11. ASSUME NEW x PROVE x \in Range(c) <=> \E j \in 1..Len(c) : x = c[j]
    BY <1>2 DEF Range
  <1>12. ASSUME NEW x \in Range(c) PROVE x \in EntriesOf(t)
    BY <1>1, <1>11, InEntries
  <1>13. ASSUME NEW x \in EntriesOf(t) PROVE x \in Range(c) <=> x[1] \in K
    <2>1. PICK a \in 0..(t.size - 1) : \E j \in 1..Len(t.table[a]) : x = t.table[a][j]
      BY <1>1, InEntries
    <2>2. PICK j \in 1..Len(t.table[a]) : x = t.table[a][j]
      BY <2>1
    <2>3. CASE a = b
      BY <1>10, <1>11, <2>2, <2>3
    <2>4. CASE a # b
      <3>1. x[1] \notin K
        BY <1>10, <2>2, <2>4
      <3> QED BY <1>11, <3>1
    <2> QED BY <2>3, <2>4
  <1>14. ASSUME NEW x PROVE x \in EntriesOf(u) <=> x \in EntriesOf(t) /\ x[1] \notin K
    <2>1. ASSUME x \in EntriesOf(u) PROVE x \in EntriesOf(t) /\ x[1] \notin K
      <3>1. PICK a \in 0..(t.size - 1) : \E j \in 1..Len(u.table[a]) : x = u.table[a][j]
        BY <1>7, <2>1, InEntries
      <3>2. PICK j \in 1..Len(u.table[a]) : x = u.table[a][j]
        BY <3>1
      <3>3. a # b
        BY <1>8, <3>2
      <3>4. j \in 1..Len(t.table[a]) /\ x = t.table[a][j]
        BY <1>7, <3>2, <3>3
      <3>5. x[1] \notin K
        BY <1>10, <3>3, <3>4
      <3> QED BY <1>1, <3>4, <3>5, InEntries
    <2>2. ASSUME x \in EntriesOf(t), x[1] \notin K PROVE x \in EntriesOf(u)
      <3>1. PICK a \in 0..(t.size - 1) : \E j \in 1..Len(t.table[a]) : x = t.table[a][j]
        BY <1>1, <2>2, InEntries
      <3>2. PICK j \in 1..Len(t.table[a]) : x = t.table[a][j]
        BY <3>1
      <3>3. a # b
        BY <1>10, <2>2, <3>2
      <3> QED BY <1>7, <3>2, <3>3, InEntries
    <2> QED BY <2>1, <2>2
  <1> HIDE DEF K, c
  <1>15. TableKeys(u) = TableKeys(t) \ K
    <2>1. ASSUME NEW x PROVE x \in TableKeys(u) <=> x \in TableKeys(t) \ K
      <3>1. x \in TableKeys(u) <=> \E e \in EntriesOf(u) : x = e[1]
        BY KeysOfEntries
      <3>2. x \in TableKeys(t) <=> \E e \in EntriesOf(t) : x = e[1]
        BY KeysOfEntries
      <3> QED BY <1>14, <3>1, <3>2
    <2> QED BY <2>1
  <1>16. Counted(u)
    BY <1>5, <1>7, <1>15 DEF Counted
  <1>17. EntriesOf(u) = EntriesOf(t) \ Range(c)
    BY <1>13, <1>14
  <1>18. TableKeys(u) = {k \in TableKeys(t) : \A j \in 1..Len(c) : c[j][1] # k}
    BY <1>15 DEF K
  <1> QED BY <1>7, <1>9, <1>12, <1>16, <1>17, <1>18 DEF Sound, c

(* The least of a set of numbers.                                          *)
LEMMA MinIn ==
    ASSUME NEW T \in SUBSET Nat, T # {}
    PROVE  Min(T) \in T /\ \A i \in T : Min(T) <= i
  <1>1. \E m \in T : \A i \in T : m <= i
    BY LeastNat
  <1> QED BY <1>1, Zenon DEF Min

(* The greater of two numbers.                                             *)
LEMMA MaxPair ==
    ASSUME NEW a \in Nat, NEW b \in Nat
    PROVE  Max({a, b}) \in {a, b} /\ Max({a, b}) >= a /\ Max({a, b}) >= b
  <1>1. \E m \in {a, b} : \A i \in {a, b} : m >= i
    OBVIOUS
  <1>2. Max({a, b}) \in {a, b} /\ \A i \in {a, b} : Max({a, b}) >= i
    BY <1>1, Zenon DEF Max
  <1> QED BY <1>2

-----------------------------------------------------------------------------
(* A chain that is moved.                                                  *)

LEMMA LinkedType ==
    ASSUME NEW m \in Nat \ {0}, NEW t \in TablesOf(m), NEW e \in DictEntries
    PROVE  Linked(t, e) \in TablesOf(m)
  <1> DEFINE b == Bucket(t, e[1])
             d == <<e>> \o t.table[b]
  <1>1. /\ t.size = m /\ t.used \in Nat /\ t.table \in [0..(m - 1) -> Seq(DictEntries)]
    BY DEF TablesOf
  <1>2. b \in 0..(m - 1)
    <2>1. DictHash[e[1]] \in Nat
      BY EntryKey, DictAssumption
    <2> QED BY <1>1, <2>1 DEF Bucket
  <1>3. t \in AnyTable /\ t.used + 1 \in Nat
    BY <1>1 DEF AnyTable
  <1>4. d \in Seq(DictEntries)
    <2>1. t.table[b] \in Seq(DictEntries)
      BY <1>1, <1>2
    <2> HIDE DEF b
    <2> QED BY <2>1
  <1> DEFINE u == Linked(t, e)
             n == t.used + 1
  <1>5. IsChanged(t, b, d, n, u)
    BY DEF Linked, IsChanged
  <1> HIDE DEF b, d, u, n
  <1>6. u \in AnyTable /\ u.size = m
    <2>1. n \in Nat /\ b \in 0..(t.size - 1)
      BY <1>1, <1>2, <1>3 DEF n
    <2>2. u \in AnyTable /\ u.size = t.size
      BY <1>3, <1>4, <1>5, <2>1, Changed
    <2> QED BY <1>1, <2>2
  <1>7. u \in TablesOf(u.size)
    BY <1>6, TableType
  <1> QED BY <1>6, <1>7 DEF u

(* The entries are linked one after the other.                             *)
LEMMA LinkRuns ==
    ASSUME NEW m \in Nat \ {0}, NEW t \in TablesOf(m), NEW c \in Seq(DictEntries)
    PROVE  \E g \in [0..Len(c) -> TablesOf(m)] :
              /\ g[0] = t
              /\ g[Len(c)] = MovedTo(t, c)
              /\ \A i \in 1..Len(c) : g[i] = Linked(g[i - 1], c[i])
  <1> DEFINE n == Len(c)
             X == TablesOf(m)
             F == [a \in X \X (1..n) |-> Linked(a[1], c[a[2]])]
             Eq(it) == it = [x \in SUBSET (1..n) |-> IF x = {} THEN t
                               ELSE Linked(it[x \ {Max(x)}], c[Max(x)])]
             it == CHOOSE it : Eq(it)
  <1>1. n \in Nat /\ DOMAIN c = 1..n /\ \A i \in 1..n : c[i] \in DictEntries
    OBVIOUS
  <1>0. ASSUME NEW v \in X, NEW i \in 1..n PROVE Linked(v, c[i]) \in X
    BY <1>1, LinkedType
  <1> HIDE DEF X
  <1>2. IsFold(X, n, F)
    BY <1>0, <1>1 DEF IsFold
  <1>3. \A v \in X, i \in 1..n : F[<<v, i>>] = Linked(v, c[i])
    OBVIOUS
  <1>4. MovedTo(t, c) = it[1..n]
    BY <1>1, Zenon DEF MovedTo, FoldLeft, MapThenFoldSet
  <1> HIDE DEF F, n
  <1>5. \A x \in SUBSET (1..n) : x # {} => Max(x) \in 1..n
    BY <1>1, MaxIn
  <1>6. PICK h : Iterates(X, t, n, F, h)
    <2>1. t \in X
      BY DEF X
    <2> QED BY <1>2, <2>1, FoldExists
  <1>7. Eq(h)
    BY <1>3, <1>5, <1>6 DEF Iterates
  <1>8. Eq(it)
    <2> HIDE DEF Eq
    <2> QED BY <1>7, Zenon
  <1> HIDE DEF it
  <1>9. Follows(X, t, n, F, it)
    BY <1>3, <1>5, <1>8 DEF Follows, X
  <1>10. PICK g : Runs(X, t, n, F, g) /\ g[n] = it[1..n]
    BY <1>2, <1>9, FoldRuns
  <1>11. \A i \in 1..n : g[i] = Linked(g[i - 1], c[i])
    <2>1. \A i \in 1..n : i - 1 \in 0..n
      BY <1>1
    <2>2. \A i \in 1..n : g[i - 1] \in X
      BY <2>1, <1>10 DEF Runs
    <2> QED BY <1>3, <1>10, <2>2, Zenon DEF Runs
  <1> QED BY <1>4, <1>10, <1>11, Zenon DEF n, Runs, X

(* And are all there in the end.                                           *)
LEMMA LinkFold ==
    ASSUME NEW t, Sound(t), t.size > 0, NEW c \in Seq(DictEntries),
           \A i, j \in 1..Len(c) : c[i][1] = c[j][1] => i = j,
           \A j \in 1..Len(c) : c[j][1] \notin TableKeys(t)
    PROVE  LET u == MovedTo(t, c)
           IN  /\ Sound(u) /\ u.size = t.size /\ EntriesOf(u) = EntriesOf(t) \cup Range(c)
               /\ TableKeys(u) = TableKeys(t) \cup {c[j][1] : j \in 1..Len(c)}
  <1> DEFINE n == Len(c)
             m == t.size
             u == MovedTo(t, c)
  <1>1. n \in Nat /\ DOMAIN c = 1..n /\ \A i \in 1..n : c[i] \in DictEntries
    OBVIOUS
  <1>2. m \in Nat \ {0} /\ t \in TablesOf(m)
    BY TableType DEF Sound, Tidy
  <1>3. PICK g \in [0..n -> TablesOf(m)] :
              /\ g[0] = t /\ g[n] = u
              /\ \A i \in 1..n : g[i] = Linked(g[i - 1], c[i])
    <2> HIDE DEF m
    <2> QED BY <1>2, LinkRuns
  <1> HIDE DEF u, n, m
  <1> DEFINE E(i) == {c[j] : j \in 1..i}
             K(i) == {c[j][1] : j \in 1..i}
             Y == {i \in 0..n : /\ Sound(g[i]) /\ g[i].size = m
                                /\ EntriesOf(g[i]) = EntriesOf(t) \cup E(i)
                                /\ TableKeys(g[i]) = TableKeys(t) \cup K(i)}
  <1>4. \A i \in 0..n : i \in Y
    <2>1. 0 \in Y
      <3>1. E(0) = {} /\ K(0) = {} /\ 0 \in 0..n
        BY <1>1
      <3>2. Sound(t) /\ t.size = m
        BY DEF m
      <3> HIDE DEF E, K
      <3> QED BY <1>3, <3>1, <3>2, Zenon
    <2>2. ASSUME NEW i \in 0..(n - 1), i \in Y PROVE i + 1 \in Y
      <3> DEFINE v == g[i]
                 w == g[i + 1]
                 e == c[i + 1]
      <3>1. i + 1 \in 1..n /\ i + 1 \in 0..n /\ (i + 1) - 1 = i /\ i \in Nat
        BY <1>1
      <3>2. w = Linked(v, e) /\ e \in DictEntries
        BY <1>1, <1>3, <3>1
      <3>3. /\ Sound(v) /\ v.size = m /\ EntriesOf(v) = EntriesOf(t) \cup E(i)
            /\ TableKeys(v) = TableKeys(t) \cup K(i)
        BY <2>2
      <3>4. E(i + 1) = E(i) \cup {e} /\ K(i + 1) = K(i) \cup {e[1]}
        <4>1. 1..(i + 1) = (1..i) \cup {i + 1}
          BY <3>1
        <4>2. E(i + 1) = E(i) \cup {e}
          BY <4>1
        <4>3. K(i + 1) = K(i) \cup {e[1]}
          BY <4>1
        <4> QED BY <4>2, <4>3
      <3>5. e[1] \notin TableKeys(t) /\ e[1] \notin K(i)
        <4>1. ASSUME NEW j \in 1..i PROVE c[j][1] # e[1]
          BY <1>1, <3>1 DEF n
        <4>2. e[1] \notin TableKeys(t)
          BY <3>1 DEF n
        <4> QED BY <4>1, <4>2
      <3> HIDE DEF v, w, e, E, K
      <3>6. Tidy(v) /\ v.size > 0
        BY <1>2, <3>3 DEF Sound
      <3>7. e[1] \notin TableKeys(v)
        BY <3>3, <3>5
      <3>8. w.size = v.size /\ EntriesOf(w) = EntriesOf(v) \cup {e}
        BY <3>2, <3>6, <3>7, LinkedTable
      <3>9. Sound(w) /\ TableKeys(w) = TableKeys(v) \cup {e[1]}
        BY <3>2, <3>3, <3>6, <3>7, LinkedSound
      <3>10. /\ Sound(w) /\ w.size = m /\ EntriesOf(w) = EntriesOf(t) \cup E(i + 1)
             /\ TableKeys(w) = TableKeys(t) \cup K(i + 1)
        BY <3>3, <3>4, <3>8, <3>9
      <3> QED BY <3>1, <3>10 DEF w
    <2> HIDE DEF Y
    <2> QED BY <1>1, <2>1, <2>2, UpTo
  <1>5. n \in Y
    BY <1>1, <1>4
  <1>6. Range(c) = E(n)
    BY <1>1 DEF Range
  <1>7. /\ Sound(u) /\ u.size = m /\ EntriesOf(u) = EntriesOf(t) \cup E(n)
        /\ TableKeys(u) = TableKeys(t) \cup K(n)
    <2> HIDE DEF E, K
    <2> QED BY <1>3, <1>5
  <1> QED BY <1>6, <1>7, Zenon DEF u, n, m

-----------------------------------------------------------------------------
(* Both tables.                                                            *)

DictStates == [ht : [1..2 -> AnyTable], rehashidx : Nat \cup {-1}]

(* Two tables a and b and the next bucket r to be moved: the tables share  *)
(* no key, the second one is there during a rehash only, and what lies     *)
(* before r has been moved.                                                *)
SoundParts(a, b, r) ==
    /\ Sound(a) /\ Sound(b) /\ r \in Nat \cup {-1}
    /\ TableKeys(a) \cap TableKeys(b) = {}
    /\ r = -1 => b = NoTable
    /\ r # -1 => a.size > 0 /\ b.size > 0
    /\ \A i \in 0..(a.size - 1) : i < r => a.table[i] = <<>>

DSound(d) == d \in DictStates /\ SoundParts(d.ht[1], d.ht[2], d.rehashidx)

(* The state made of its parts.                                            *)
Made(a, b, r) == [ht |-> <<a, b>>, rehashidx |-> r]

LEMMA MadeParts ==
    ASSUME NEW a, NEW b, NEW r
    PROVE  Made(a, b, r).ht[1] = a /\ Made(a, b, r).ht[2] = b /\ Made(a, b, r).rehashidx = r
  BY DEF Made

LEMMA MadeSound ==
    ASSUME NEW a, NEW b, NEW r, SoundParts(a, b, r)
    PROVE  DSound(Made(a, b, r))
  <1>1. a \in AnyTable /\ b \in AnyTable /\ r \in Nat \cup {-1}
    BY DEF SoundParts, Sound, Tidy
  <1>2. Made(a, b, r) \in DictStates
    BY <1>1 DEF Made, DictStates
  <1> QED BY <1>2, MadeParts DEF DSound

LEMMA PartsMade ==
    ASSUME NEW d, DSound(d)
    PROVE  /\ d = Made(d.ht[1], d.ht[2], d.rehashidx)
           /\ \A t : [d EXCEPT !.ht[1] = t] = Made(t, d.ht[2], d.rehashidx)
           /\ \A t : [d EXCEPT !.ht[2] = t] = Made(d.ht[1], t, d.rehashidx)
           /\ \A t : [d EXCEPT !.ht[2] = t, !.rehashidx = 0] = Made(d.ht[1], t, 0)
  <1>1. d \in DictStates
    BY DEF DSound
  <1>2. d.ht \in [1..2 -> AnyTable]
    BY <1>1 DEF DictStates
  <1>3. d.ht = <<d.ht[1], d.ht[2]>>
    BY <1>2
  <1>4. d = [ht |-> d.ht, rehashidx |-> d.rehashidx]
    BY <1>1 DEF DictStates
  <1>5. ASSUME NEW t PROVE [d EXCEPT !.ht[1] = t] = Made(t, d.ht[2], d.rehashidx)
    <2>1. [d.ht EXCEPT ![1] = t] = <<t, d.ht[2]>>
      BY <1>2
    <2>2. [d EXCEPT !.ht[1] = t] = [ht |-> [d.ht EXCEPT ![1] = t], rehashidx |-> d.rehashidx]
      BY <1>1 DEF DictStates
    <2> QED BY <2>1, <2>2 DEF Made
  <1>6. ASSUME NEW t
        PROVE  /\ [d EXCEPT !.ht[2] = t] = Made(d.ht[1], t, d.rehashidx)
               /\ [d EXCEPT !.ht[2] = t, !.rehashidx = 0] = Made(d.ht[1], t, 0)
    <2>1. [d.ht EXCEPT ![2] = t] = <<d.ht[1], t>>
      BY <1>2
    <2>2. [d EXCEPT !.ht[2] = t] = [ht |-> [d.ht EXCEPT ![2] = t], rehashidx |-> d.rehashidx]
      BY <1>1 DEF DictStates
    <2>3. [d EXCEPT !.ht[2] = t, !.rehashidx = 0] =
             [ht |-> [d.ht EXCEPT ![2] = t], rehashidx |-> 0]
      <3> DEFINE h == [d.ht EXCEPT ![2] = t]
      <3>1. [d EXCEPT !.ht[2] = t, !.rehashidx = 0] = [d EXCEPT !.ht = h, !.rehashidx = 0]
        BY <1>1 DEF DictStates
      <3> HIDE DEF h
      <3> DEFINE e == [d EXCEPT !.ht = h, !.rehashidx = 0]
      <3>2. e \in [ht : {h}, rehashidx : {0}] /\ e.ht = h /\ e.rehashidx = 0
        BY <1>1 DEF DictStates
      <3> HIDE DEF e
      <3>3. e = [ht |-> e.ht, rehashidx |-> e.rehashidx]
        BY <3>2
      <3> QED BY <3>1, <3>2, <3>3 DEF e, h
    <2> QED BY <2>1, <2>2, <2>3 DEF Made
  <1>7. d = Made(d.ht[1], d.ht[2], d.rehashidx)
    BY <1>3, <1>4 DEF Made
  <1> QED BY <1>5, <1>6, <1>7

LEMMA ContentsAre ==
    ASSUME NEW d PROVE Contents(d) = EntriesOf(d.ht[1]) \cup EntriesOf(d.ht[2])
  BY DEF Contents, EntriesOf

LEMMA NoTableSound ==
    /\ Sound(NoTable) /\ NoTable.size = 0 /\ EntriesOf(NoTable) = {} /\ TableKeys(NoTable) = {}
  BY NewTableSound DEF NoTable

(* The state that has the same contents.                                   *)
Same(d, e) == DSound(e) /\ Contents(e) = Contents(d)

LEMMA RehashBucketKeeps ==
    ASSUME NEW d, DSound(d), IsRehashing(d) PROVE Same(d, RehashBucket(d))
  <1> DEFINE a == d.ht[1]
             b == d.ht[2]
             r == d.rehashidx
  <1>1. SoundParts(a, b, r) /\ r \in Nat
    BY DEF DSound, SoundParts, IsRehashing
  <1>2. Sound(a) /\ Sound(b) /\ TableKeys(a) \cap TableKeys(b) = {} /\ a.size > 0 /\ b.size > 0
    BY <1>1 DEF SoundParts
  <1>c. Contents(d) = EntriesOf(a) \cup EntriesOf(b)
    BY ContentsAre
  <1>3. CASE a.used = 0
    <2>1. RehashBucket(d) = Made(b, NoTable, -1)
      BY <1>3 DEF RehashBucket, Made
    <2>2. EntriesOf(a) = {}
      BY <1>2, <1>3, EmptyTable
    <2> HIDE DEF a, b, r
    <2>3. b.size \in Nat
      BY <1>2, TableType DEF Sound, Tidy
    <2>4. SoundParts(b, NoTable, -1)
      BY <1>2, <2>3, NoTableSound DEF SoundParts
    <2>5. EntriesOf(b) \cup EntriesOf(NoTable) = EntriesOf(a) \cup EntriesOf(b)
      BY <2>2, NoTableSound
    <2> QED BY <1>c, <2>1, <2>4, <2>5, MadeSound, MadeParts, ContentsAre DEF Same
  <1>4. CASE a.used # 0
    <2> DEFINE full == {i \in DOMAIN a.table : i >= r /\ a.table[i] # <<>>}
               idx == Min(full)
               c == a.table[idx]
               u == [a EXCEPT !.table[idx] = <<>>, !.used = @ - Len(c)]
               w == MovedTo(b, c)
    <2>1. RehashBucket(d) = Made(u, w, idx + 1)
      BY <1>4 DEF RehashBucket, Made
    <2> HIDE DEF a, b, r
    <2>2. a \in AnyTable /\ a.size \in Nat /\ DOMAIN a.table = 0..(a.size - 1)
      BY <1>2, TableType DEF Sound, Tidy
    <2>3. full # {} /\ full \in SUBSET Nat
      <3>1. TableKeys(a) # {}
        BY <1>2, <1>4, FS_EmptySet DEF Sound, Counted
      <3>2. PICK k : k \in TableKeys(a)
        BY <3>1
      <3>3. PICK i \in 0..(a.size - 1) : \E j \in 1..Len(a.table[i]) : k = a.table[i][j][1]
        BY <2>2, <3>2, InKeys
      <3>4. a.table[i] # <<>>
        BY <3>3
      <3>5. i >= r
        BY <1>1, <2>2, <3>4 DEF SoundParts
      <3> QED BY <2>2, <3>4, <3>5
    <2>4. idx \in full /\ \A i \in full : idx <= i
      <3> HIDE DEF full
      <3> QED BY <2>3, MinIn
    <2>5. idx \in 0..(a.size - 1) /\ idx >= r
      BY <2>2, <2>4
    <2>6. \A i \in 0..(a.size - 1) : i < idx => a.table[i] = <<>>
      <3> SUFFICES ASSUME NEW i \in 0..(a.size - 1), i < idx, a.table[i] # <<>> PROVE FALSE
        OBVIOUS
      <3>1. i >= r
        BY <1>1, <2>2 DEF SoundParts
      <3>2. i \in full
        BY <2>2, <3>1
      <3> HIDE DEF idx, full
      <3> QED BY <2>2, <2>4, <2>5, <3>2
    <2> HIDE DEF idx, full
    <2>7. IsEmptied(a, idx, u)
      BY DEF IsEmptied, IsChanged
    <2> HIDE DEF u
    <2>8. /\ Sound(u) /\ u.size = a.size /\ u.table[idx] = <<>>
          /\ \A i \in 0..(a.size - 1) : i # idx => u.table[i] = a.table[i]
          /\ EntriesOf(u) = EntriesOf(a) \ Range(a.table[idx])
          /\ Range(a.table[idx]) \subseteq EntriesOf(a)
          /\ TableKeys(u) =
                {k \in TableKeys(a) : \A j \in 1..Len(a.table[idx]) : a.table[idx][j][1] # k}
      BY <1>2, <2>5, <2>7, EmptiedSound
    <2> DEFINE K == {c[j][1] : j \in 1..Len(c)}
    <2>9. K \subseteq TableKeys(a) /\ TableKeys(u) = TableKeys(a) \ K
      <3>1. K \subseteq TableKeys(a)
        BY <2>2, <2>5, InKeys
      <3> QED BY <2>8, <3>1
    <2>10. /\ c \in Seq(DictEntries) /\ \A i, j \in 1..Len(c) : c[i][1] = c[j][1] => i = j
           /\ \A j \in 1..Len(c) : c[j][1] \notin TableKeys(b)
      <3>1. c \in Seq(DictEntries)
        BY <2>2, <2>5, TableType
      <3>2. \A i, j \in 1..Len(c) : c[i][1] = c[j][1] => i = j
        BY <1>2, <2>5 DEF Sound, Tidy, KeysDiffer
      <3>3. \A j \in 1..Len(c) : c[j][1] \in K
        OBVIOUS
      <3> HIDE DEF K
      <3> QED BY <1>2, <2>9, <3>1, <3>2, <3>3
    <2>11. /\ Sound(w) /\ w.size = b.size /\ EntriesOf(w) = EntriesOf(b) \cup Range(c)
           /\ TableKeys(w) = TableKeys(b) \cup K
      <3> HIDE DEF c
      <3> QED BY <1>2, <2>10, LinkFold
    <2> HIDE DEF K, c, w
    <2>12. TableKeys(u) \cap TableKeys(w) = {}
      BY <1>2, <2>9, <2>11
    <2>13. \A i \in 0..(u.size - 1) : i < idx + 1 => u.table[i] = <<>>
      BY <2>2, <2>5, <2>6, <2>8
    <2>14. SoundParts(u, w, idx + 1)
      BY <1>2, <2>2, <2>5, <2>8, <2>11, <2>12, <2>13 DEF SoundParts
    <2>15. EntriesOf(u) \cup EntriesOf(w) = EntriesOf(a) \cup EntriesOf(b)
      BY <2>8, <2>11 DEF c
    <2> QED BY <1>c, <2>1, <2>14, <2>15, MadeSound, MadeParts, ContentsAre DEF Same
  <1> QED BY <1>3, <1>4

(* A function applied n times.                                             *)
Repeats(X, G, d, n, g) ==
    g \in [0..n -> X] /\ g[0] = d /\ \A i \in 1..n : g[i] = G[g[i - 1]]

LEMMA RepeatExists ==
    ASSUME NEW X, NEW G \in [X -> X], NEW d \in X, NEW n \in Nat
    PROVE  \E g : Repeats(X, G, d, n, g)
  <1> DEFINE Y == {m \in 0..n : \E g : Repeats(X, G, d, m, g)}
  <1>1. 0 \in Y
    <2> DEFINE g == [i \in 0..0 |-> d]
    <2>1. Repeats(X, G, d, 0, g)
      BY DEF Repeats
    <2> HIDE DEF g
    <2> QED BY <2>1
  <1>2. ASSUME NEW m \in 0..(n - 1), m \in Y PROVE m + 1 \in Y
    <2>1. PICK g : Repeats(X, G, d, m, g)
      BY <1>2
    <2> DEFINE h == [i \in 0..(m + 1) |-> IF i = m + 1 THEN G[g[m]] ELSE g[i]]
    <2>2. m \in Nat /\ g \in [0..m -> X] /\ g[0] = d /\ g[m] \in X
      BY <2>1 DEF Repeats
    <2>3. /\ h \in [0..(m + 1) -> X] /\ h[0] = d /\ h[m + 1] = G[g[m]]
          /\ \A i \in 0..m : h[i] = g[i]
      BY <2>2
    <2> HIDE DEF h
    <2>4. ASSUME NEW i \in 1..(m + 1) PROVE h[i] = G[h[i - 1]]
      <3>1. CASE i = m + 1
        <4>1. h[i - 1] = g[m]
          BY <2>2, <2>3, <3>1
        <4> QED BY <2>3, <3>1, <4>1
      <3>2. CASE i # m + 1
        <4>1. i \in 1..m /\ i - 1 \in 0..m /\ i \in 0..m
          BY <2>2, <3>2
        <4> QED BY <2>1, <2>3, <4>1 DEF Repeats
      <3> QED BY <3>1, <3>2
    <2>5. Repeats(X, G, d, m + 1, h)
      BY <2>3, <2>4 DEF Repeats
    <2>6. m + 1 \in 0..n
      OBVIOUS
    <2> QED BY <2>5, <2>6
  <1>3. \A i \in 0..n : i \in Y
    <2> HIDE DEF Y
    <2> QED BY <1>1, <1>2, UpTo
  <1>4. n \in Y
    BY <1>3
  <1> QED BY <1>4

LEMMA dictRehashKeeps ==
    ASSUME NEW d, DSound(d), NEW n \in Nat PROVE Same(d, dictRehash(d, n))
  <1> DEFINE X == {e \in DictStates : Same(d, e)}
             S(e) == IF IsRehashing(e) THEN RehashBucket(e) ELSE e
             G == [e \in X |-> S(e)]
             Eq(f) == f = [i \in 0..n |-> IF i = 0 THEN d
                             ELSE IF IsRehashing(f[i - 1]) THEN RehashBucket(f[i - 1])
                             ELSE f[i - 1]]
             f == CHOOSE f : Eq(f)
  <1>1. dictRehash(d, n) = f[n]
    BY Zenon DEF dictRehash
  <1>2. d \in X
    BY DEF Same, DSound
  <1>3. ASSUME NEW e \in X PROVE S(e) \in X
    <2>1. Same(d, e) /\ DSound(e)
      BY DEF Same
    <2>2. Same(e, S(e))
      <3>1. CASE IsRehashing(e)
        BY <2>1, <3>1, RehashBucketKeeps
      <3>2. CASE ~IsRehashing(e)
        BY <2>1, <3>2 DEF Same
      <3> QED BY <3>1, <3>2
    <2> HIDE DEF S
    <2> QED BY <2>1, <2>2 DEF Same, DSound
  <1>4. G \in [X -> X] /\ \A e \in X : G[e] = S(e)
    <2> HIDE DEF X, S
    <2> QED BY <1>3
  <1> HIDE DEF G, X
  <1>5. PICK g : Repeats(X, G, d, n, g)
    BY <1>2, <1>4, RepeatExists
  <1>6. Eq(g)
    <2>1. g \in [0..n -> X] /\ g[0] = d
      BY <1>5 DEF Repeats
    <2>2. ASSUME NEW i \in 0..n, i # 0 PROVE g[i] = S(g[i - 1])
      <3>1. i \in 1..n /\ i - 1 \in 0..n
        BY <2>2
      <3>2. g[i - 1] \in X
        BY <2>1, <3>1
      <3> HIDE DEF S
      <3> QED BY <1>4, <1>5, <3>1, <3>2 DEF Repeats
    <2>3. g = [i \in 0..n |-> g[i]]
      BY <2>1
    <2> QED BY <2>1, <2>2, <2>3, Zenon
  <1>7. Eq(f)
    <2> HIDE DEF Eq
    <2> QED BY <1>6, Zenon
  <1> HIDE DEF f
  <1>8. /\ f[0] = d
        /\ \A i \in 0..n : i # 0 => f[i] = S(f[i - 1])
    <2>1. \A i \in 0..n : f[i] = IF i = 0 THEN d ELSE S(f[i - 1])
      BY <1>7, Zenon
    <2>2. 0 \in 0..n
      OBVIOUS
    <2> HIDE DEF S
    <2> QED BY <2>1, <2>2
  <1> DEFINE Y == {i \in 0..n : f[i] \in X}
  <1>9. \A i \in 0..n : i \in Y
    <2>1. 0 \in Y
      BY <1>2, <1>8
    <2>2. ASSUME NEW i \in 0..(n - 1), i \in Y PROVE i + 1 \in Y
      <3>1. i + 1 \in 0..n /\ i + 1 # 0 /\ (i + 1) - 1 = i
        OBVIOUS
      <3>2. f[i + 1] = S(f[i])
        <4> HIDE DEF S
        <4> QED BY <1>8, <3>1
      <3>3. S(f[i]) \in X
        BY <1>3, <2>2
      <3> HIDE DEF S
      <3> QED BY <3>1, <3>2, <3>3
    <2> HIDE DEF Y
    <2> QED BY <2>1, <2>2, UpTo
  <1>10. f[n] \in X
    BY <1>9
  <1> QED BY <1>1, <1>10 DEF X

(* Sizes are found by doubling.                                            *)
LEMMA Powers ==
    ASSUME NEW size \in Nat PROVE _dictNextPower(size) \in Nat \ {0}
  <1> DEFINE P == Nat \ {0}
             Eq(f) == f = [i \in Nat |-> IF i >= size THEN i ELSE f[2 * i]]
             f == CHOOSE f : Eq(f)
             Is(m, g) == /\ g \in [Nat -> P]
                         /\ \A i \in P : i >= size - m => g[i] = IF i >= size THEN i ELSE g[2 * i]
             Y == {m \in 0..size : \E g : Is(m, g)}
  <1>1. _dictNextPower(size) = f[InitialSize]
    BY Zenon DEF _dictNextPower
  <1>2. \A m \in 0..size : m \in Y
    <2>1. 0 \in Y
      <3> DEFINE g == [i \in Nat |-> IF i = 0 THEN 1 ELSE i]
      <3>1. Is(0, g)
        OBVIOUS
      <3> HIDE DEF g, Is
      <3> QED BY <3>1
    <2>2. ASSUME NEW m \in 0..(size - 1), m \in Y PROVE m + 1 \in Y
      <3>1. PICK g : Is(m, g)
        BY <2>2
      <3> DEFINE k == size - (m + 1)
                 h == [i \in Nat |-> IF i = k THEN g[2 * i] ELSE g[i]]
      <3>2. k \in Nat /\ size - m = k + 1 /\ k < size
        OBVIOUS
      <3> HIDE DEF k
      <3>3. h \in [Nat -> P] /\ h[k] = g[2 * k] /\ \A i \in Nat : i # k => h[i] = g[i]
        BY <3>1, <3>2
      <3> HIDE DEF h
      <3>4. ASSUME NEW i \in P, i >= k PROVE h[i] = IF i >= size THEN i ELSE h[2 * i]
        <4>1. 2 * i \in Nat /\ 2 * i # k /\ h[2 * i] = g[2 * i]
          BY <3>2, <3>3, <3>4
        <4>2. CASE i = k
          BY <3>2, <3>3, <4>1, <4>2
        <4>3. CASE i # k
          <5>1. i >= size - m
            BY <3>2, <3>4, <4>3
          <5> QED BY <3>1, <3>3, <4>1, <4>3, <5>1
        <4> QED BY <4>2, <4>3
      <3>5. Is(m + 1, h)
        BY <3>3, <3>4 DEF k
      <3>6. m + 1 \in 0..size
        OBVIOUS
      <3> HIDE DEF Is
      <3> QED BY <3>5, <3>6
    <2> HIDE DEF Y
    <2> QED BY <2>1, <2>2, UpTo
  <1>3. PICK g : Is(size, g)
    <2>1. size \in Y
      BY <1>2
    <2> HIDE DEF Is
    <2> QED BY <2>1
  <1>4. \E h : Eq(h)
    <2> DEFINE h == [i \in Nat |-> IF i = 0 /\ size = 0 THEN 0 ELSE g[i]]
    <2>1. \A i \in Nat : h[i] = IF i >= size THEN i ELSE h[2 * i]
      <3> SUFFICES ASSUME NEW i \in Nat PROVE h[i] = IF i >= size THEN i ELSE h[2 * i]
        OBVIOUS
      <3>1. CASE i = 0
        BY <3>1
      <3>2. CASE i # 0
        <4>1. i \in P /\ i >= size - size /\ 2 * i \in Nat /\ 2 * i # 0
          BY <3>2
        <4>2. g[i] = IF i >= size THEN i ELSE g[2 * i]
          BY <1>3, <4>1
        <4> QED BY <3>2, <4>1, <4>2
      <3> QED BY <3>1, <3>2
    <2>2. h = [i \in Nat |-> h[i]]
      OBVIOUS
    <2> HIDE DEF h
    <2>3. Eq(h)
      BY <2>1, <2>2, Zenon
    <2> HIDE DEF Eq
    <2> QED BY <2>3
  <1>5. Eq(f)
    <2> HIDE DEF Eq
    <2> QED BY <1>4, Zenon
  <1> HIDE DEF f
  <1>6. \A i \in Nat : f[i] = IF i >= size THEN i ELSE f[2 * i]
    BY <1>5, Zenon
  <1> DEFINE Z == {m \in 0..size : \A i \in P : i >= size - m => f[i] \in P}
  <1>7. \A m \in 0..size : m \in Z
    <2>1. 0 \in Z
      BY <1>6
    <2>2. ASSUME NEW m \in 0..(size - 1), m \in Z PROVE m + 1 \in Z
      <3>1. ASSUME NEW i \in P, i >= size - (m + 1) PROVE f[i] \in P
        <4>1. CASE i >= size - m
          BY <2>2, <4>1
        <4>2. CASE ~(i >= size - m)
          <5>1. 2 * i \in P /\ 2 * i >= size - m /\ ~(i >= size)
            BY <3>1, <4>2
          <5>2. f[2 * i] \in P
            BY <2>2, <5>1
          <5> QED BY <1>6, <5>1, <5>2
        <4> QED BY <4>1, <4>2
      <3> QED BY <3>1
    <2> HIDE DEF Z
    <2> QED BY <2>1, <2>2, UpTo
  <1>8. size \in Z
    BY <1>7
  <1>9. InitialSize \in P /\ InitialSize >= size - size
    BY DictAssumption
  <1> QED BY <1>1, <1>8, <1>9

LEMMA dictRehashStepKeeps ==
    ASSUME NEW d, DSound(d) PROVE Same(d, _dictRehashStep(d))
  <1>1. Same(d, d)
    BY DEF Same
  <1>2. Same(d, dictRehash(d, 1))
    BY dictRehashKeeps
  <1> QED BY <1>1, <1>2 DEF _dictRehashStep

(* A second table, or the first one, is made.                              *)
LEMMA dictExpandKeeps ==
    ASSUME NEW d, DSound(d), NEW size \in Nat
    PROVE  /\ Same(d, dictExpand(d, size))
           /\ ~IsRehashing(d) => dictExpand(d, size).ht[1].size > 0
  <1> DEFINE a == d.ht[1]
             b == d.ht[2]
             r == d.rehashidx
             n == NewTable(_dictNextPower(size))
  <1>1. SoundParts(a, b, r) /\ Sound(a) /\ Sound(b) /\ a.size \in Nat /\ a.used \in Nat
    BY TableType DEF DSound, SoundParts, Sound, Tidy
  <1>2. /\ Sound(n) /\ n.size \in Nat /\ n.size > 0 /\ EntriesOf(n) = {} /\ TableKeys(n) = {}
        /\ \A i \in 0..(n.size - 1) : n.table[i] = <<>>
    <2>1. _dictNextPower(size) \in Nat /\ _dictNextPower(size) > 0
      BY Powers
    <2> QED BY <2>1, NewTableSound
  <1>3. a.size = 0 => a.used = 0
    BY <1>1, EmptyTable, FS_EmptySet DEF Sound, Counted
  <1>4. CASE IsRehashing(d) \/ a.used > size
    <2>1. dictExpand(d, size) = d
      BY <1>1, <1>4 DEF dictExpand
    <2> QED BY <1>1, <1>3, <1>4, <2>1 DEF Same
  <1>5. CASE ~IsRehashing(d) /\ ~(a.used > size)
    <2>1. r = -1 /\ b = NoTable /\ a.used <= size
      BY <1>1, <1>5 DEF IsRehashing, SoundParts
    <2>2. Contents(d) = EntriesOf(a)
      BY <2>1, ContentsAre, NoTableSound
    <2>3. CASE a.size = 0
      <3>1. dictExpand(d, size) = [d EXCEPT !.ht[1] = n]
        BY <1>5, <2>1, <2>3 DEF dictExpand
      <3>2. dictExpand(d, size) = Made(n, b, r)
        BY <3>1, PartsMade
      <3>3. EntriesOf(a) = {}
        BY <1>1, <2>3, EmptyTable
      <3> HIDE DEF n, a, b, r
      <3>4. SoundParts(n, b, r)
        BY <1>2, <2>1, NoTableSound DEF SoundParts
      <3>5. EntriesOf(n) \cup EntriesOf(b) = EntriesOf(a)
        BY <1>2, <2>1, <3>3, NoTableSound
      <3>6. dictExpand(d, size).ht[1] = n /\ dictExpand(d, size).ht[2] = b
        BY <3>2, MadeParts
      <3>7. Contents(dictExpand(d, size)) = Contents(d)
        BY <2>2, <3>5, <3>6, ContentsAre
      <3>8. DSound(dictExpand(d, size))
        BY <3>2, <3>4, MadeSound
      <3> QED BY <1>2, <3>6, <3>7, <3>8 DEF Same
    <2>4. CASE a.size # 0
      <3>1. dictExpand(d, size) = [d EXCEPT !.ht[2] = n, !.rehashidx = 0]
        BY <1>5, <2>1, <2>4 DEF dictExpand
      <3>2. dictExpand(d, size) = Made(a, n, 0)
        BY <3>1, PartsMade
      <3> HIDE DEF n, a, b, r
      <3>4. SoundParts(a, n, 0)
        BY <1>1, <1>2, <2>4 DEF SoundParts
      <3>5. EntriesOf(a) \cup EntriesOf(n) = EntriesOf(a)
        BY <1>2
      <3>6. dictExpand(d, size).ht[1] = a /\ dictExpand(d, size).ht[2] = n
        BY <3>2, MadeParts
      <3>7. Contents(dictExpand(d, size)) = Contents(d)
        BY <2>2, <3>5, <3>6, ContentsAre
      <3>8. DSound(dictExpand(d, size))
        BY <3>2, <3>4, MadeSound
      <3> QED BY <1>1, <2>4, <3>6, <3>7, <3>8 DEF Same
    <2> QED BY <2>3, <2>4
  <1> QED BY <1>4, <1>5

LEMMA dictExpandIfNeededKeeps ==
    ASSUME NEW d, DSound(d)
    PROVE  LET e == _dictExpandIfNeeded(d)
           IN  /\ Same(d, e) /\ InsertTable(e) \in {1, 2} /\ e.ht[InsertTable(e)].size > 0
               /\ InsertTable(e) = 2 <=> IsRehashing(e)
  <1> DEFINE e == _dictExpandIfNeeded(d)
             t == d.ht[1]
  <1>1. t.size \in Nat /\ t.used \in Nat /\ Same(d, d)
    BY TableType DEF DSound, SoundParts, Sound, Tidy, Same
  <1>2. Same(d, e) /\ (~IsRehashing(d) => e.ht[1].size > 0)
    <2>1. CASE IsRehashing(d)
      BY <1>1, <2>1 DEF _dictExpandIfNeeded
    <2>2. CASE ~IsRehashing(d) /\ t.size = 0
      <3>1. e = dictExpand(d, InitialSize) /\ InitialSize \in Nat
        BY <2>2, DictAssumption DEF _dictExpandIfNeeded
      <3> QED BY <2>2, <3>1, dictExpandKeeps
    <2>3. CASE /\ ~IsRehashing(d) /\ t.size > 0 /\ t.used >= t.size
               /\ (dictCanResize \/ t.used \div t.size > ForceRatio)
      <3> DEFINE m == Max({t.size, t.used}) * 2
      <3>1. e = dictExpand(d, m)
        BY <1>1, <2>3 DEF _dictExpandIfNeeded
      <3>2. m \in Nat
        BY <1>1, MaxPair
      <3> HIDE DEF m
      <3> QED BY <2>3, <3>1, <3>2, dictExpandKeeps
    <2>4. CASE ~IsRehashing(d) /\ t.size # 0 /\
               ~(t.used >= t.size /\ (dictCanResize \/ t.used \div t.size > ForceRatio))
      <3>1. e = d
        BY <1>1, <2>4 DEF _dictExpandIfNeeded
      <3> QED BY <1>1, <2>4, <3>1
    <2> QED BY <1>1, <2>1, <2>2, <2>3, <2>4
  <1>3. IsRehashing(d) => IsRehashing(e) /\ e = d
    BY DEF _dictExpandIfNeeded
  <1> HIDE DEF e
  <1>4. IsRehashing(e) => e.ht[2].size > 0
    BY <1>2 DEF Same, DSound, SoundParts, IsRehashing
  <1> QED BY <1>2, <1>3, <1>4 DEF InsertTable, e

LEMMA dictResizeKeeps ==
    ASSUME NEW d, DSound(d) PROVE Same(d, dictResize(d))
  <1> DEFINE m == Max({d.ht[1].used, InitialSize})
  <1>1. d.ht[1].used \in Nat /\ InitialSize \in Nat
    BY TableType, DictAssumption DEF DSound, SoundParts, Sound, Tidy
  <1>2. m \in Nat
    BY <1>1, MaxPair
  <1>3. Same(d, d)
    BY DEF Same
  <1>4. dictResize(d) = d \/ dictResize(d) = dictExpand(d, m)
    BY DEF dictResize
  <1> HIDE DEF m
  <1> QED BY <1>2, <1>3, <1>4, dictExpandKeeps

-----------------------------------------------------------------------------
(* Finding a key.                                                          *)

LEMMA InChain ==
    ASSUME NEW t, Tidy(t), NEW k \in DictKeys
    PROVE  k \in KeysIn(DictChain(t, k)) <=> k \in TableKeys(t)
  <1>1. t \in AnyTable /\ t.size \in Nat
    BY TableType DEF Tidy
  <1>2. CASE t.size = 0
    <2>1. DictChain(t, k) = <<>>
      BY <1>2 DEF DictChain
    <2>2. KeysIn(<<>>) = {}
      BY DEF KeysIn, Range
    <2>3. 0..(t.size - 1) = {}
      BY <1>1, <1>2
    <2>4. k \notin TableKeys(t)
      BY <1>1, <2>3, InKeys
    <2> QED BY <2>1, <2>2, <2>4
  <1>3. CASE t.size # 0
    <2> DEFINE b == Bucket(t, k)
               c == t.table[b]
    <2>1. b \in 0..(t.size - 1)
      BY <1>1, <1>3, BucketIn
    <2>2. DictChain(t, k) = c
      BY <1>3 DEF DictChain
    <2>3. DOMAIN c = 1..Len(c)
      BY <1>1, <2>1, TableType
    <2>4. k \in KeysIn(c) <=> \E j \in 1..Len(c) : k = c[j][1]
      BY <2>3 DEF KeysIn, Range
    <2>5. k \in TableKeys(t) => \E j \in 1..Len(c) : k = c[j][1]
      BY Node
    <2>6. (\E j \in 1..Len(c) : k = c[j][1]) => k \in TableKeys(t)
      BY <1>1, <2>1, InKeys
    <2> QED BY <2>2, <2>4, <2>5, <2>6
  <1> QED BY <1>2, <1>3

(* The table of a key: none, or one.                                       *)
Absent(d, k) == Where(d, k) = {} /\ k \notin TableKeys(d.ht[1]) /\ k \notin TableKeys(d.ht[2])

Present(d, k, i) ==
    /\ i \in {1, 2} /\ Where(d, k) = {i} /\ Min(Where(d, k)) = i /\ k \in TableKeys(d.ht[i])
    /\ i = 1 => k \notin TableKeys(d.ht[2])
    /\ i = 2 => k \notin TableKeys(d.ht[1]) /\ IsRehashing(d)

LEMMA Somewhere ==
    ASSUME NEW d, DSound(d), NEW k \in DictKeys
    PROVE  Absent(d, k) \/ \E i \in {1, 2} : Present(d, k, i)
  <1> DEFINE a == d.ht[1]
             b == d.ht[2]
  <1>1. Tidy(a) /\ Tidy(b) /\ TableKeys(a) \cap TableKeys(b) = {}
    BY DEF DSound, SoundParts, Sound
  <1>2. ~IsRehashing(d) => TableKeys(b) = {}
    BY NoTableSound DEF DSound, SoundParts, IsRehashing
  <1>3. /\ k \in KeysIn(DictChain(a, k)) <=> k \in TableKeys(a)
        /\ k \in KeysIn(DictChain(b, k)) <=> k \in TableKeys(b)
    BY <1>1, InChain
  <1>4. Where(d, k) = {i \in {1, 2} : k \in TableKeys(d.ht[i])}
    BY <1>2, <1>3 DEF Where, Tables
  <1>5. Min({1}) = 1 /\ Min({2}) = 2
    BY MinSingleton
  <1>6. CASE k \in TableKeys(a)
    <2>1. Where(d, k) = {1} /\ k \notin TableKeys(b)
      BY <1>1, <1>4, <1>6
    <2>2. Present(d, k, 1)
      BY <1>5, <1>6, <2>1 DEF Present
    <2> QED BY <2>2
  <1>7. CASE k \notin TableKeys(a) /\ k \in TableKeys(b)
    <2>1. Where(d, k) = {2} /\ IsRehashing(d)
      BY <1>2, <1>4, <1>7
    <2>2. Present(d, k, 2)
      BY <1>5, <1>7, <2>1 DEF Present
    <2> QED BY <2>2
  <1>8. CASE k \notin TableKeys(a) /\ k \notin TableKeys(b)
    BY <1>4, <1>8 DEF Absent
  <1> QED BY <1>6, <1>7, <1>8

(* The entries of a key in the contents.                                   *)
EntriesAt(d, k) == {e \in Contents(d) : e[1] = k}

LEMMA AbsentEntries ==
    ASSUME NEW d, DSound(d), NEW k, Absent(d, k)
    PROVE  EntriesAt(d, k) = {}
  BY ContentsAre, KeysOfEntries DEF Absent, EntriesAt

LEMMA PresentEntry ==
    ASSUME NEW d, DSound(d), NEW k, NEW i, Present(d, k, i)
    PROVE  /\ Entry(d, k) \in EntriesOf(d.ht[i]) /\ Entry(d, k)[1] = k
           /\ EntriesAt(d, k) = {Entry(d, k)} /\ Where(d, k) # {} /\ d.ht[1].size > 0
  <1> DEFINE t == d.ht[i]
             c == DictChain(t, k)
             e == c[NodeOf(c, k)]
  <1>1. Tidy(d.ht[1]) /\ Tidy(d.ht[2]) /\ Tidy(t) /\ k \in TableKeys(t) /\ i \in {1, 2}
    BY DEF DSound, SoundParts, Sound, Present
  <1>2. Entry(d, k) = e
    BY DEF Entry, Present
  <1>3. t.size > 0 /\ e \in EntriesOf(t) /\ e[1] = k
    <2>1. t.size > 0
      BY <1>1, Node
    <2>2. c = t.table[Bucket(t, k)]
      BY <2>1 DEF DictChain
    <2> HIDE DEF t
    <2>3. c[NodeOf(c, k)] \in EntriesOf(t) /\ c[NodeOf(c, k)][1] = k
      BY <1>1, <2>2, Node
    <2> QED BY <2>1, <2>3
  <1> HIDE DEF e
  <1>4. Contents(d) = EntriesOf(d.ht[1]) \cup EntriesOf(d.ht[2])
    BY ContentsAre
  <1>5. ASSUME NEW f \in Contents(d), f[1] = k PROVE f = e
    <2>1. f \in EntriesOf(t)
      <3>1. \A x \in EntriesOf(d.ht[1]) : x[1] \in TableKeys(d.ht[1])
        BY KeysOfEntries
      <3>2. \A x \in EntriesOf(d.ht[2]) : x[1] \in TableKeys(d.ht[2])
        BY KeysOfEntries
      <3> QED BY <1>1, <1>4, <1>5, <3>1, <3>2 DEF Present
    <2> HIDE DEF t
    <2> QED BY <1>1, <1>3, <1>5, <2>1, OneEntry
  <1>6. EntriesAt(d, k) = {e}
    BY <1>1, <1>3, <1>4, <1>5 DEF EntriesAt
  <1>7. d.ht[1].size > 0
    BY <1>1, <1>3 DEF DSound, SoundParts, Present, IsRehashing
  <1> QED BY <1>2, <1>3, <1>6, <1>7 DEF Present

-----------------------------------------------------------------------------
(* The operations.                                                         *)

(* A chain that is empty stays so when no key is added.                    *)
LEMMA StaysEmpty ==
    ASSUME NEW t, Tidy(t), NEW u, Tidy(u), u.size = t.size, TableKeys(u) \subseteq TableKeys(t),
           NEW b \in 0..(t.size - 1), t.table[b] = <<>>
    PROVE  u.table[b] = <<>>
  <1>1. t \in AnyTable /\ u \in AnyTable /\ b \in 0..(u.size - 1)
    BY DEF Tidy
  <1>2. u.table[b] \in Seq(DictEntries)
    BY <1>1, TableType
  <1>3. ASSUME 1 \in 1..Len(u.table[b]) PROVE FALSE
    <2> DEFINE k == u.table[b][1][1]
    <2>1. k \in TableKeys(u) /\ Bucket(u, k) = b
      BY <1>1, <1>3, InKeys DEF Tidy, InItsChain
    <2>2. k \in TableKeys(t) /\ Bucket(t, k) = b
      BY <2>1 DEF Bucket
    <2> HIDE DEF k
    <2>3. NodeOf(t.table[b], k) \in 1..Len(t.table[b])
      BY <2>2, Node
    <2> QED BY <2>3
  <1> QED BY <1>2, <1>3

(* What becomes of the state when one of its tables changes.               *)
With(d, i, t) == [d EXCEPT !.ht[i] = t]

LEMMA WithParts ==
    ASSUME NEW d, DSound(d), NEW i \in {1, 2}, NEW t
    PROVE  /\ With(d, i, t).ht[i] = t /\ With(d, i, t).rehashidx = d.rehashidx
           /\ i = 1 => With(d, i, t).ht[2] = d.ht[2]
           /\ i = 2 => With(d, i, t).ht[1] = d.ht[1]
           /\ i = 1 => With(d, i, t) = Made(t, d.ht[2], d.rehashidx)
           /\ i = 2 => With(d, i, t) = Made(d.ht[1], t, d.rehashidx)
  <1>1. i = 1 => With(d, i, t) = Made(t, d.ht[2], d.rehashidx)
    BY PartsMade DEF With
  <1>2. i = 2 => With(d, i, t) = Made(d.ht[1], t, d.rehashidx)
    BY PartsMade DEF With
  <1> QED BY <1>1, <1>2, MadeParts

LEMMA Added ==
    ASSUME NEW d, DSound(d), NEW i \in {1, 2}, i = 2 <=> IsRehashing(d), d.ht[i].size > 0,
           NEW e \in DictEntries, Absent(d, e[1])
    PROVE  /\ DSound(With(d, i, Linked(d.ht[i], e)))
           /\ Contents(With(d, i, Linked(d.ht[i], e))) = Contents(d) \cup {e}
  <1> DEFINE t == d.ht[i]
             u == Linked(t, e)
             a == d.ht[1]
             b == d.ht[2]
             r == d.rehashidx
             f == With(d, i, u)
  <1>1. SoundParts(a, b, r) /\ Sound(t)
    BY DEF DSound, SoundParts
  <1>2. e[1] \notin TableKeys(a) /\ e[1] \notin TableKeys(b) /\ e[1] \notin TableKeys(t)
    BY DEF Absent
  <1>3. /\ Sound(u) /\ TableKeys(u) = TableKeys(t) \cup {e[1]}
        /\ u.size = t.size /\ EntriesOf(u) = EntriesOf(t) \cup {e}
    <2> HIDE DEF t
    <2>1. Sound(u) /\ TableKeys(u) = TableKeys(t) \cup {e[1]}
      BY <1>1, <1>2, LinkedSound DEF t
    <2>2. u.size = t.size /\ EntriesOf(u) = EntriesOf(t) \cup {e}
      BY <1>1, <1>2, LinkedTable DEF Sound, t
    <2> QED BY <2>1, <2>2
  <1> HIDE DEF u
  <1>4. CASE i = 1
    <2>1. f = Made(u, b, r) /\ f.ht[1] = u /\ f.ht[2] = b /\ r = -1
      BY <1>4, WithParts DEF IsRehashing
    <2>2. u.size \in Nat
      BY <1>3, TableType DEF Sound, Tidy
    <2>3. SoundParts(u, b, r)
      BY <1>1, <1>2, <1>3, <1>4, <2>1, <2>2 DEF SoundParts
    <2> HIDE DEF f
    <2>4. Contents(f) = EntriesOf(u) \cup EntriesOf(b) /\ Contents(d) = EntriesOf(a) \cup EntriesOf(b)
      BY <2>1, ContentsAre
    <2>5. DSound(f) /\ Contents(f) = Contents(d) \cup {e}
      BY <1>3, <1>4, <2>1, <2>3, <2>4, MadeSound
    <2> QED BY <2>5 DEF f, u
  <1>5. CASE i = 2
    <2>1. f = Made(a, u, r) /\ f.ht[1] = a /\ f.ht[2] = u /\ r # -1
      BY <1>5, WithParts DEF IsRehashing
    <2>3. SoundParts(a, u, r)
      BY <1>1, <1>2, <1>3, <1>5, <2>1 DEF SoundParts
    <2> HIDE DEF f
    <2>4. Contents(f) = EntriesOf(a) \cup EntriesOf(u) /\ Contents(d) = EntriesOf(a) \cup EntriesOf(b)
      BY <2>1, ContentsAre
    <2>5. DSound(f) /\ Contents(f) = Contents(d) \cup {e}
      BY <1>3, <1>5, <2>1, <2>3, <2>4, MadeSound
    <2> QED BY <2>5 DEF f, u
  <1> QED BY <1>4, <1>5

(* One table of the two is changed, and no key added.                      *)
LEMMA Lessened ==
    ASSUME NEW d, DSound(d), NEW i \in {1, 2}, NEW u, Sound(u), u.size = d.ht[i].size,
           TableKeys(u) \subseteq TableKeys(d.ht[i]), d.ht[i].size > 0
    PROVE  /\ DSound(With(d, i, u))
           /\ Contents(With(d, i, u)) = EntriesOf(u) \cup EntriesOf(d.ht[3 - i])
  <1> DEFINE a == d.ht[1]
             b == d.ht[2]
             r == d.rehashidx
             f == With(d, i, u)
  <1>1. SoundParts(a, b, r)
    BY DEF DSound
  <1>2. Tidy(a) /\ Tidy(b) /\ Tidy(u)
    BY <1>1 DEF SoundParts, Sound
  <1>4. CASE i = 1
    <2>1. f = Made(u, b, r) /\ f.ht[1] = u /\ f.ht[2] = b
      BY <1>4, WithParts
    <2>2. \A j \in 0..(u.size - 1) : j < r => u.table[j] = <<>>
      BY <1>1, <1>2, <1>4, StaysEmpty DEF SoundParts
    <2>3. SoundParts(u, b, r)
      BY <1>1, <1>4, <2>2 DEF SoundParts
    <2> HIDE DEF f
    <2>4. Contents(f) = EntriesOf(u) \cup EntriesOf(b)
      BY <2>1, ContentsAre
    <2>5. DSound(f)
      BY <2>1, <2>3, MadeSound
    <2> QED BY <1>4, <2>4, <2>5 DEF f
  <1>5. CASE i = 2
    <2>1. f = Made(a, u, r) /\ f.ht[1] = a /\ f.ht[2] = u
      BY <1>5, WithParts
    <2>2. r # -1
      BY <1>1, <1>5, NoTableSound DEF SoundParts
    <2>3. SoundParts(a, u, r)
      BY <1>1, <1>5, <2>2 DEF SoundParts
    <2> HIDE DEF f
    <2>4. Contents(f) = EntriesOf(a) \cup EntriesOf(u)
      BY <2>1, ContentsAre
    <2>5. DSound(f)
      BY <2>1, <2>3, MadeSound
    <2> QED BY <1>5, <2>4, <2>5 DEF f
  <1> QED BY <1>4, <1>5

(* The entries of the other table are not the key's.                       *)
LEMMA OtherTable ==
    ASSUME NEW d, DSound(d), NEW k, NEW i, Present(d, k, i)
    PROVE  /\ i \in {1, 2} /\ Sound(d.ht[i]) /\ k \in TableKeys(d.ht[i])
           /\ Contents(d) = EntriesOf(d.ht[i]) \cup EntriesOf(d.ht[3 - i])
           /\ \A e \in EntriesOf(d.ht[3 - i]) : e[1] # k
           /\ d.ht[i].size > 0
  <1>1. i \in {1, 2} /\ Sound(d.ht[i]) /\ k \in TableKeys(d.ht[i]) /\ k \notin TableKeys(d.ht[3 - i])
    BY DEF Present, DSound, SoundParts
  <1>2. Contents(d) = EntriesOf(d.ht[i]) \cup EntriesOf(d.ht[3 - i])
    BY <1>1, ContentsAre
  <1>3. \A e \in EntriesOf(d.ht[3 - i]) : e[1] # k
    BY <1>1, KeysOfEntries
  <1>4. d.ht[i].size > 0
    BY <1>1, Node DEF Sound
  <1> QED BY <1>1, <1>2, <1>3, <1>4

LEMMA Dropped ==
    ASSUME NEW d, DSound(d), NEW k, NEW i, Present(d, k, i)
    PROVE  /\ DSound(With(d, i, Unlinked(d.ht[i], k)))
           /\ Contents(With(d, i, Unlinked(d.ht[i], k))) = Contents(d) \ EntriesAt(d, k)
  <1> DEFINE t == d.ht[i]
             u == Unlinked(t, k)
             f == With(d, i, u)
  <1>1. /\ i \in {1, 2} /\ Sound(t) /\ k \in TableKeys(t)
        /\ Contents(d) = EntriesOf(t) \cup EntriesOf(d.ht[3 - i])
        /\ \A e \in EntriesOf(d.ht[3 - i]) : e[1] # k
        /\ t.size > 0
    BY OtherTable
  <1>2. /\ Sound(u) /\ TableKeys(u) = TableKeys(t) \ {k} /\ t.used > 0
    <2> HIDE DEF t
    <2> QED BY <1>1, UnlinkedSound
  <1>3. u.size = t.size /\ EntriesOf(u) = {e \in EntriesOf(t) : e[1] # k}
    <2> HIDE DEF t
    <2> QED BY <1>1, <1>2, UnlinkedTable DEF Sound
  <1> HIDE DEF u
  <1>4. DSound(f) /\ Contents(f) = EntriesOf(u) \cup EntriesOf(d.ht[3 - i])
    BY <1>1, <1>2, <1>3, Lessened
  <1> HIDE DEF f, t
  <1>5. Contents(f) = Contents(d) \ EntriesAt(d, k)
    BY <1>1, <1>3, <1>4 DEF EntriesAt
  <1> QED BY <1>4, <1>5 DEF f, u, t

LEMMA Revalued ==
    ASSUME NEW d, DSound(d), NEW k, NEW i, Present(d, k, i), NEW v, <<k, v>> \in DictEntries
    PROVE  /\ DSound(With(d, i, WithValue(d.ht[i], k, v)))
           /\ Contents(With(d, i, WithValue(d.ht[i], k, v)))
                 = (Contents(d) \ EntriesAt(d, k)) \cup {<<k, v>>}
  <1> DEFINE t == d.ht[i]
             u == WithValue(t, k, v)
             f == With(d, i, u)
             x == <<k, v>>
  <1>1. /\ i \in {1, 2} /\ Sound(t) /\ k \in TableKeys(t)
        /\ Contents(d) = EntriesOf(t) \cup EntriesOf(d.ht[3 - i])
        /\ \A e \in EntriesOf(d.ht[3 - i]) : e[1] # k
        /\ t.size > 0
    BY OtherTable
  <1>2. Sound(u) /\ TableKeys(u) = TableKeys(t)
    <2> HIDE DEF t
    <2> QED BY <1>1, ValuedSound
  <1>3. u.size = t.size /\ EntriesOf(u) = {e \in EntriesOf(t) : e[1] # k} \cup {x}
    <2> HIDE DEF t
    <2> QED BY <1>1, ValuedTable DEF Sound
  <1> HIDE DEF u, x
  <1>4. DSound(f) /\ Contents(f) = EntriesOf(u) \cup EntriesOf(d.ht[3 - i])
    BY <1>1, <1>2, <1>3, Lessened
  <1> HIDE DEF f, t
  <1>5. Contents(f) = (Contents(d) \ EntriesAt(d, k)) \cup {x}
    BY <1>1, <1>3, <1>4 DEF EntriesAt
  <1> QED BY <1>4, <1>5 DEF f, u, t, x

LEMMA SameEntries ==
    ASSUME NEW d, NEW e, Same(d, e), NEW k PROVE EntriesAt(e, k) = EntriesAt(d, k)
  BY DEF Same, EntriesAt

LEMMA ResultParts ==
    ASSUME NEW d, NEW r PROVE Result(d, r).d = d /\ Result(d, r).reply = r
  BY DEF Result

(* The state dictAdd() works on, once it has moved a bucket and made room. *)
Ready(d) == _dictExpandIfNeeded(_dictRehashStep(d))

LEMMA ReadyKeeps ==
    ASSUME NEW d, DSound(d)
    PROVE  LET e == Ready(d)
           IN  /\ Same(d, e) /\ DSound(e) /\ InsertTable(e) \in {1, 2}
               /\ e.ht[InsertTable(e)].size > 0
               /\ InsertTable(e) = 2 <=> IsRehashing(e)
  <1> DEFINE s == _dictRehashStep(d)
             e == _dictExpandIfNeeded(s)
  <1>1. Same(d, s) /\ DSound(s)
    BY dictRehashStepKeeps DEF Same
  <1> HIDE DEF s
  <1>2. /\ Same(s, e) /\ InsertTable(e) \in {1, 2} /\ e.ht[InsertTable(e)].size > 0
        /\ InsertTable(e) = 2 <=> IsRehashing(e)
    BY <1>1, dictExpandIfNeededKeeps
  <1> HIDE DEF e
  <1>3. Same(d, e) /\ DSound(e)
    BY <1>1, <1>2 DEF Same
  <1> QED BY <1>2, <1>3 DEF Ready, e, s

LEMMA dictAddResult ==
    ASSUME DSound(dct), NEW k \in DictKeys, NEW v, <<k, v>> \in DictEntries
    PROVE  LET r == dictAdd(k, v)
           IN  \/ /\ r.reply = <<"OK">> /\ EntriesAt(dct, k) = {} /\ DSound(r.d)
                  /\ Contents(r.d) = Contents(dct) \cup {<<k, v>>}
               \/ r.reply = <<"ERR">> /\ EntriesAt(dct, k) # {} /\ Same(dct, r.d)
  <1> DEFINE d0 == dct
             d == Ready(d0)
             i == InsertTable(d)
             e == <<k, v>>
             r == dictAdd(k, v)
             f == With(d, i, Linked(d.ht[i], e))
  <1>1. /\ Same(d0, d) /\ DSound(d) /\ i \in {1, 2} /\ d.ht[i].size > 0
        /\ i = 2 <=> IsRehashing(d)
    <2>1. DSound(d0)
      OBVIOUS
    <2> HIDE DEF d0
    <2> QED BY <2>1, ReadyKeeps
  <1>2. r = IF Where(d, k) # {} THEN Result(d, <<"ERR">>) ELSE Result(f, <<"OK">>)
    BY DEF dictAdd, With, Ready
  <1>3. e \in DictEntries /\ e[1] = k
    OBVIOUS
  <1> HIDE DEF d0, d, i, e, r
  <1>4. EntriesAt(d, k) = EntriesAt(d0, k)
    BY <1>1, SameEntries
  <1>5. CASE Absent(d, k)
    <2>1. r = Result(f, <<"OK">>)
      BY <1>2, <1>5 DEF Absent
    <2>2. DSound(f) /\ Contents(f) = Contents(d) \cup {e}
      BY <1>1, <1>3, <1>5, Added
    <2> HIDE DEF f
    <2>3. r.d = f /\ r.reply = <<"OK">>
      BY <2>1, ResultParts
    <2>4. EntriesAt(d0, k) = {}
      BY <1>1, <1>4, <1>5, AbsentEntries
    <2>5. Contents(r.d) = Contents(d0) \cup {e}
      BY <1>1, <2>2, <2>3 DEF Same
    <2> QED BY <2>2, <2>3, <2>4, <2>5 DEF r, d0, e
  <1>6. CASE \E j \in {1, 2} : Present(d, k, j)
    <2>1. PICK j \in {1, 2} : Present(d, k, j)
      BY <1>6
    <2>2. EntriesAt(d, k) = {Entry(d, k)} /\ Where(d, k) # {}
      BY <1>1, <2>1, PresentEntry
    <2>3. r.d = d /\ r.reply = <<"ERR">>
      BY <1>2, <2>2, ResultParts
    <2> QED BY <1>1, <1>4, <2>2, <2>3 DEF r, d0
  <1> QED BY <1>1, <1>5, <1>6, Somewhere

(* A table without chains holds nothing.                                   *)
LEMMA NoChains ==
    ASSUME NEW d, DSound(d), d.ht[1].size = 0
    PROVE  /\ Contents(d) = {} /\ \A k : EntriesAt(d, k) = {}
           /\ \A k : k \notin TableKeys(d.ht[1]) /\ k \notin TableKeys(d.ht[2])
  <1>1. EntriesOf(d.ht[1]) = {} /\ TableKeys(d.ht[1]) = {}
    BY EmptyTable DEF DSound, SoundParts
  <1>2. d.ht[2] = NoTable
    BY DEF DSound, SoundParts
  <1>3. Contents(d) = {}
    BY <1>1, <1>2, NoTableSound, ContentsAre
  <1> QED BY <1>1, <1>2, <1>3, NoTableSound DEF EntriesAt

LEMMA dictFindResult ==
    ASSUME NEW d0, DSound(d0), NEW k \in DictKeys
    PROVE  LET r == dictFind(d0, k)
           IN  /\ Same(d0, r.d)
               /\ \/ r.reply = <<"NULL">> /\ EntriesAt(d0, k) = {}
                  \/ r.reply \in EntriesAt(d0, k)
  <1> DEFINE d == _dictRehashStep(d0)
             r == dictFind(d0, k)
  <1>1. Same(d0, d) /\ DSound(d) /\ Same(d0, d0)
    BY dictRehashStepKeeps DEF Same
  <1>2. r = IF d0.ht[1].size = 0 THEN Result(d0, NotFound)
            ELSE Result(d, IF Where(d, k) = {} THEN NotFound ELSE Entry(d, k))
    BY DEF dictFind
  <1> HIDE DEF d, r
  <1>3. EntriesAt(d, k) = EntriesAt(d0, k)
    BY <1>1, SameEntries
  <1>4. CASE d0.ht[1].size = 0
    <2>1. r.d = d0 /\ r.reply = <<"NULL">>
      BY <1>2, <1>4, ResultParts DEF NotFound
    <2> QED BY <1>1, <1>4, <2>1, NoChains DEF r
  <1>5. CASE d0.ht[1].size # 0 /\ Absent(d, k)
    <2>1. r.d = d /\ r.reply = <<"NULL">>
      BY <1>2, <1>5, ResultParts DEF NotFound, Absent
    <2>2. EntriesAt(d0, k) = {}
      BY <1>1, <1>3, <1>5, AbsentEntries
    <2> QED BY <1>1, <2>1, <2>2 DEF r
  <1>6. CASE d0.ht[1].size # 0 /\ \E j \in {1, 2} : Present(d, k, j)
    <2>1. PICK j \in {1, 2} : Present(d, k, j)
      BY <1>6
    <2>2. EntriesAt(d, k) = {Entry(d, k)} /\ Where(d, k) # {}
      BY <1>1, <2>1, PresentEntry
    <2>3. r.d = d /\ r.reply = Entry(d, k)
      BY <1>2, <1>6, <2>2, ResultParts
    <2> QED BY <1>1, <1>3, <2>2, <2>3 DEF r
  <1> QED BY <1>1, <1>4, <1>5, <1>6, Somewhere

LEMMA dictReplaceResult ==
    ASSUME DSound(dct), NEW k \in DictKeys, NEW v, <<k, v>> \in DictEntries
    PROVE  LET r == dictReplace(k, v)
           IN  /\ \/ r.reply = <<"added">> /\ EntriesAt(dct, k) = {}
                  \/ r.reply = <<"updated">> /\ EntriesAt(dct, k) # {}
               /\ DSound(r.d)
               /\ Contents(r.d) = (Contents(dct) \ EntriesAt(dct, k)) \cup {<<k, v>>}
  <1> DEFINE d0 == dct
             a == dictAdd(k, v)
             d == dictFind(a.d, k).d
             i == Min(Where(d, k))
             x == <<k, v>>
             f == With(d, i, WithValue(d.ht[i], k, v))
             r == dictReplace(k, v)
  <1>1. \/ /\ a.reply = <<"OK">> /\ EntriesAt(d0, k) = {} /\ DSound(a.d)
           /\ Contents(a.d) = Contents(d0) \cup {x}
        \/ a.reply = <<"ERR">> /\ EntriesAt(d0, k) # {} /\ Same(d0, a.d)
    BY dictAddResult
  <1>2. r = IF a.reply = <<"OK">> THEN Result(a.d, <<"added">>) ELSE Result(f, <<"updated">>)
    BY DEF dictReplace, With
  <1>0. <<"OK">> # <<"ERR">>
    OBVIOUS
  <1> HIDE DEF d0, a, r
  <1>3. CASE a.reply = <<"OK">>
    <2> HIDE DEF x
    <2>1. r.d = a.d /\ r.reply = <<"added">>
      BY <1>2, <1>3, ResultParts
    <2>2. /\ EntriesAt(d0, k) = {} /\ DSound(a.d) /\ Contents(a.d) = Contents(d0) \cup {x}
      BY <1>0, <1>1, <1>3
    <2> QED BY <2>1, <2>2 DEF r, d0, x
  <1>4. CASE a.reply # <<"OK">>
    <2>1. EntriesAt(d0, k) # {} /\ Same(d0, a.d) /\ DSound(a.d)
      BY <1>1, <1>4 DEF Same
    <2>2. Same(a.d, d) /\ DSound(d)
      BY <2>1, dictFindResult DEF Same
    <2> HIDE DEF d
    <2>3. Same(d0, d)
      BY <2>1, <2>2 DEF Same
    <2>4. EntriesAt(d, k) = EntriesAt(d0, k)
      BY <2>3, SameEntries
    <2>5. ~Absent(d, k)
      BY <2>1, <2>2, <2>4, AbsentEntries
    <2>6. PICK j \in {1, 2} : Present(d, k, j)
      BY <2>2, <2>5, Somewhere
    <2>7. i = j
      BY <2>6 DEF Present
    <2> HIDE DEF i
    <2>8. DSound(f) /\ Contents(f) = (Contents(d) \ EntriesAt(d, k)) \cup {<<k, v>>}
      BY <2>2, <2>6, <2>7, Revalued
    <2> HIDE DEF f, x
    <2>9. r.d = f /\ r.reply = <<"updated">>
      BY <1>2, <1>4, ResultParts
    <2>10. Contents(f) = (Contents(d0) \ EntriesAt(d0, k)) \cup {<<k, v>>}
      BY <2>3, <2>4, <2>8 DEF Same
    <2> QED BY <2>1, <2>8, <2>9, <2>10 DEF r, d0
  <1> QED BY <1>3, <1>4

LEMMA dictDeleteResult ==
    ASSUME DSound(dct), NEW k \in DictKeys
    PROVE  LET r == dictGenericDelete(k)
           IN  \/ /\ r.reply = <<"OK">> /\ EntriesAt(dct, k) # {} /\ DSound(r.d)
                  /\ Contents(r.d) = Contents(dct) \ EntriesAt(dct, k)
               \/ r.reply = <<"ERR">> /\ EntriesAt(dct, k) = {} /\ Same(dct, r.d)
  <1> DEFINE d0 == dct
             d == _dictRehashStep(d0)
             i == Min(Where(d, k))
             f == With(d, i, Unlinked(d.ht[i], k))
             r == dictGenericDelete(k)
  <1>1. Same(d0, d) /\ DSound(d) /\ Same(d0, d0)
    <2> HIDE DEF d0
    <2> QED BY dictRehashStepKeeps DEF Same, d0
  <1>2. r = IF d0.ht[1].size = 0 THEN Result(d0, <<"ERR">>)
            ELSE IF Where(d, k) = {} THEN Result(d, <<"ERR">>) ELSE Result(f, <<"OK">>)
    BY DEF dictGenericDelete, With, dct
  <1>0. DSound(d0)
    OBVIOUS
  <1> HIDE DEF d0, d, r
  <1>3. EntriesAt(d, k) = EntriesAt(d0, k)
    BY <1>1, SameEntries
  <1>4. CASE d0.ht[1].size = 0
    <2>1. r.d = d0 /\ r.reply = <<"ERR">>
      BY <1>2, <1>4, ResultParts
    <2> QED BY <1>0, <1>1, <1>4, <2>1, NoChains DEF r, d0
  <1>5. CASE d0.ht[1].size # 0 /\ Absent(d, k)
    <2>1. r.d = d /\ r.reply = <<"ERR">>
      BY <1>2, <1>5, ResultParts DEF Absent
    <2>2. EntriesAt(d0, k) = {}
      BY <1>1, <1>3, <1>5, AbsentEntries
    <2> QED BY <1>1, <2>1, <2>2 DEF r, d0
  <1>6. CASE d0.ht[1].size # 0 /\ \E j \in {1, 2} : Present(d, k, j)
    <2>1. PICK j \in {1, 2} : Present(d, k, j)
      BY <1>6
    <2>2. EntriesAt(d, k) = {Entry(d, k)} /\ Where(d, k) # {} /\ i = j
      BY <1>1, <2>1, PresentEntry DEF Present
    <2> HIDE DEF i
    <2>3. DSound(f) /\ Contents(f) = Contents(d) \ EntriesAt(d, k)
      BY <1>1, <2>1, <2>2, Dropped
    <2> HIDE DEF f
    <2>4. r.d = f /\ r.reply = <<"OK">>
      BY <1>2, <1>6, <2>2, ResultParts
    <2>5. EntriesAt(d0, k) # {} /\ Contents(f) = Contents(d0) \ EntriesAt(d0, k)
      BY <1>1, <1>3, <2>2, <2>3 DEF Same
    <2> QED BY <2>3, <2>4, <2>5 DEF r, d0
  <1> QED BY <1>1, <1>4, <1>5, <1>6, Somewhere

-----------------------------------------------------------------------------
(* The iterator.                                                           *)

KeysOf(d) == {e[1] : e \in Contents(d)}

LEMMA KeysAre ==
    ASSUME NEW d PROVE KeysOf(d) = TableKeys(d.ht[1]) \cup TableKeys(d.ht[2])
  BY ContentsAre, KeysOfEntries DEF KeysOf

LEMMA KeysTyped ==
    ASSUME NEW d, DSound(d) PROVE KeysOf(d) \subseteq DictKeys
  <1>1. Tidy(d.ht[1]) /\ Tidy(d.ht[2])
    BY DEF DSound, SoundParts, Sound
  <1> QED BY <1>1, KeysAre, Node

LEMMA KeyPresent ==
    ASSUME NEW d, DSound(d), NEW k \in KeysOf(d) PROVE \E i \in {1, 2} : Present(d, k, i)
  <1>1. k \in DictKeys /\ ~Absent(d, k)
    BY KeysTyped, KeysAre DEF Absent
  <1> QED BY <1>1, Somewhere

(* The entry after k in its chain.                                         *)
After(t, k) ==
    LET c == t.table[Bucket(t, k)]
        i == NodeOf(c, k) IN
    IF i = Len(c) THEN NoKey ELSE <<c[i + 1][1]>>

LEMMA NextAfter ==
    ASSUME NEW d, DSound(d), NEW k, NEW i, Present(d, k, i)
    PROVE  NextInChain(d, k) = After(d.ht[i], k)
  <1>1. Min(Where(d, k)) = i /\ d.ht[i].size > 0
    BY OtherTable DEF Present
  <1> QED BY <1>1 DEF NextInChain, After, DictChain

(* Where a key is in its chain.                                            *)
LEMMA InFromNodes ==
    ASSUME NEW t, Tidy(t), NEW n \in TableKeys(t), NEW x \in TableKeys(t)
    PROVE  InFrom(t, n, x) <=>
              /\ Bucket(t, n) = Bucket(t, x)
              /\ NodeOf(t.table[Bucket(t, n)], n) <= NodeOf(t.table[Bucket(t, n)], x)
  <1> DEFINE b == Bucket(t, n)
             c == t.table[b]
             i == NodeOf(c, n)
  <1>1. /\ b \in 0..(t.size - 1) /\ i \in 1..Len(c) /\ c[i][1] = n
        /\ \A j \in 1..Len(c) : c[j][1] = n => j = i
    BY Node
  <1>2. ASSUME Bucket(t, x) = b
        PROVE  /\ NodeOf(c, x) \in 1..Len(c) /\ c[NodeOf(c, x)][1] = x
               /\ \A j \in 1..Len(c) : c[j][1] = x => j = NodeOf(c, x)
    <2> HIDE DEF b
    <2> QED BY <1>2, Node
  <1> HIDE DEF i
  <1>3. ASSUME InFrom(t, n, x) PROVE Bucket(t, x) = b /\ i <= NodeOf(c, x)
    <2>1. PICK a \in 0..(t.size - 1) : \E l, m \in 1..Len(t.table[a]) :
              l <= m /\ t.table[a][l][1] = n /\ t.table[a][m][1] = x
      BY <1>3 DEF InFrom
    <2>2. PICK l \in 1..Len(t.table[a]), m \in 1..Len(t.table[a]) :
              l <= m /\ t.table[a][l][1] = n /\ t.table[a][m][1] = x
      BY <2>1
    <2>3. Bucket(t, n) = a /\ Bucket(t, x) = a
      BY <2>2 DEF Tidy, InItsChain
    <2>4. l \in 1..Len(c) /\ m \in 1..Len(c) /\ c[l][1] = n /\ c[m][1] = x
      BY <2>2, <2>3
    <2>5. l = i /\ m = NodeOf(c, x)
      BY <1>1, <1>2, <2>3, <2>4
    <2> QED BY <2>2, <2>3, <2>5
  <1>4. ASSUME Bucket(t, x) = b, i <= NodeOf(c, x) PROVE InFrom(t, n, x)
    <2> DEFINE j == NodeOf(c, x)
    <2>1. j \in 1..Len(c) /\ c[j][1] = x /\ i <= j
      BY <1>2, <1>4
    <2> HIDE DEF j
    <2>2. \E l, m \in 1..Len(c) : l <= m /\ c[l][1] = n /\ c[m][1] = x
      BY <1>1, <2>1
    <2> QED BY <1>1, <2>2 DEF InFrom
  <1> QED BY <1>3, <1>4 DEF i

(* The rest of a chain is an entry and what comes after it.                *)
LEMMA AfterRest ==
    ASSUME NEW t, Tidy(t), NEW k \in TableKeys(t)
    PROVE  \/ After(t, k) = NoKey /\ From(t, k) = {k}
           \/ \E y \in TableKeys(t) :
                /\ After(t, k) = <<y>> /\ y # k /\ Bucket(t, y) = Bucket(t, k)
                /\ From(t, k) = {k} \cup From(t, y) /\ k \notin From(t, y)
  <1> DEFINE b == Bucket(t, k)
             c == t.table[b]
             i == NodeOf(c, k)
  <1>1. /\ b \in 0..(t.size - 1) /\ i \in 1..Len(c) /\ c[i][1] = k
        /\ \A j \in 1..Len(c) : c[j][1] = k => j = i
    BY Node
  <1>2. t \in AnyTable /\ Len(c) \in Nat
    BY <1>1, TableType DEF Tidy
  <1>3. ASSUME NEW x \in TableKeys(t), Bucket(t, x) = b
        PROVE  NodeOf(c, x) \in 1..Len(c) /\ c[NodeOf(c, x)][1] = x
    <2> HIDE DEF b
    <2> QED BY <1>3, Node
  <1>4. ASSUME NEW x \in TableKeys(t)
        PROVE  x \in From(t, k) <=> Bucket(t, x) = b /\ i <= NodeOf(c, x)
    BY InFromNodes DEF From
  <1>5. CASE i = Len(c)
    <2>1. After(t, k) = NoKey
      BY <1>5 DEF After
    <2> HIDE DEF i, c, b
    <2>2. ASSUME NEW x \in From(t, k) PROVE x = k
      <3>1. x \in TableKeys(t)
        BY DEF From
      <3>2. Bucket(t, x) = b /\ i <= NodeOf(c, x)
        BY <1>4, <3>1
      <3>3. NodeOf(c, x) \in 1..Len(c) /\ c[NodeOf(c, x)][1] = x
        BY <1>3, <3>1, <3>2
      <3>4. NodeOf(c, x) = i
        BY <1>2, <1>5, <3>2, <3>3
      <3> QED BY <1>1, <3>3, <3>4
    <2>3. k \in From(t, k)
      BY <1>1, <1>2, <1>4 DEF b, c, i
    <2> QED BY <2>1, <2>2, <2>3
  <1>6. CASE i # Len(c)
    <2> DEFINE y == c[i + 1][1]
    <2>1. After(t, k) = <<y>>
      BY <1>6 DEF After
    <2>2. i + 1 \in 1..Len(c)
      BY <1>1, <1>2, <1>6
    <2>3. y \in TableKeys(t) /\ Bucket(t, y) = b
      BY <1>1, <1>2, <2>2, InKeys DEF Tidy, InItsChain
    <2>4. NodeOf(c, y) = i + 1
      <3>1. NodeOf(c, y) \in 1..Len(c) /\ c[NodeOf(c, y)][1] = y
        BY <1>3, <2>3
      <3>2. \A l, m \in 1..Len(c) : c[l][1] = c[m][1] => l = m
        BY <1>1 DEF Tidy, KeysDiffer
      <3> QED BY <2>2, <3>1, <3>2
    <2>5. ASSUME NEW x \in TableKeys(t)
          PROVE  x \in From(t, y) <=> Bucket(t, x) = b /\ i + 1 <= NodeOf(c, x)
      <3> HIDE DEF y
      <3>1. InFrom(t, y, x) <=>
              /\ Bucket(t, y) = Bucket(t, x)
              /\ NodeOf(t.table[Bucket(t, y)], y) <= NodeOf(t.table[Bucket(t, y)], x)
        BY <2>3, InFromNodes
      <3> QED BY <2>3, <2>4, <3>1 DEF From
    <2>6. y # k
      <3>1. i + 1 # i
        BY <1>1, <1>2
      <3> QED BY <1>1, <2>2, <3>1
    <2> HIDE DEF i, c, b, y
    <2>7. Bucket(t, k) = b /\ NodeOf(c, k) = i
      BY DEF b, c, i
    <2>8. k \notin From(t, y) /\ k \in From(t, k)
      BY <1>1, <1>2, <1>4, <2>5, <2>7
    <2>9. ASSUME NEW x \in TableKeys(t), x # k PROVE x \in From(t, k) <=> x \in From(t, y)
      <3>1. CASE Bucket(t, x) = b
        <4>1. NodeOf(c, x) \in 1..Len(c) /\ NodeOf(c, x) # i
          BY <1>1, <1>3, <2>9, <3>1
        <4> QED BY <1>1, <1>2, <1>4, <2>5, <4>1
      <3>2. CASE Bucket(t, x) # b
        BY <1>4, <2>5, <3>2
      <3> QED BY <3>1, <3>2
    <2>10. From(t, k) \subseteq TableKeys(t) /\ From(t, y) \subseteq TableKeys(t)
      BY DEF From
    <2>11. From(t, k) = {k} \cup From(t, y)
      BY <2>8, <2>9, <2>10
    <2> QED BY <2>1, <2>3, <2>6, <2>7, <2>8, <2>11
  <1> QED BY <1>5, <1>6

(* From its head on a chain has all keys of its bucket.                    *)
LEMMA HeadRest ==
    ASSUME NEW t, Tidy(t), NEW b \in 0..(t.size - 1), t.table[b] # <<>>
    PROVE  LET h == Head(t.table[b])[1]
           IN  /\ h \in TableKeys(t) /\ Bucket(t, h) = b
               /\ From(t, h) = {x \in TableKeys(t) : Bucket(t, x) = b}
  <1> DEFINE c == t.table[b]
             h == Head(c)[1]
  <1>1. t \in AnyTable /\ c \in Seq(DictEntries)
    BY TableType DEF Tidy
  <1>2. 1 \in 1..Len(c) /\ Head(c) = c[1] /\ Len(c) \in Nat
    BY <1>1
  <1>3. h \in TableKeys(t) /\ Bucket(t, h) = b
    <2>1. 1 \in 1..Len(t.table[b]) /\ h = t.table[b][1][1]
      BY <1>2
    <2> HIDE DEF h
    <2>2. h \in TableKeys(t)
      BY <1>1, <2>1, InKeys
    <2>3. Bucket(t, t.table[b][1][1]) = b
      BY <2>1 DEF Tidy, InItsChain
    <2> QED BY <2>1, <2>2, <2>3
  <1>4. NodeOf(c, h) = 1
    <2> DEFINE j == NodeOf(c, h)
    <2>1. j \in 1..Len(c) /\ c[j][1] = h
      <3> HIDE DEF h
      <3> QED BY <1>3, Node
    <2>2. c[1][1] = h
      BY <1>2
    <2> HIDE DEF j, h, c
    <2>3. j = 1
      BY <1>2, <2>1, <2>2 DEF Tidy, KeysDiffer, c
    <2> QED BY <2>3 DEF j
  <1>5. ASSUME NEW x \in TableKeys(t) PROVE InFrom(t, h, x) <=> Bucket(t, x) = b
    <2> HIDE DEF h
    <2>1. InFrom(t, h, x) <=> Bucket(t, x) = b /\ 1 <= NodeOf(c, x)
      BY <1>3, <1>4, InFromNodes
    <2>2. ASSUME Bucket(t, x) = b PROVE NodeOf(c, x) \in 1..Len(c)
      BY <2>2, Node
    <2> QED BY <1>2, <2>1, <2>2
  <1> HIDE DEF h
  <1>6. From(t, h) = {x \in TableKeys(t) : Bucket(t, x) = b}
    BY <1>5 DEF From
  <1> QED BY <1>3, <1>6 DEF h

(* What the iterator refers to: a key it has returned, and a key that is   *)
(* still there and another one.                                            *)
Keyed == {NoKey} \cup {<<k>> : k \in DictKeys}

IterTypes ==
    [on : BOOLEAN, safe : BOOLEAN, table : {0, 1}, index : Nat \cup {-1},
     next : Keyed, entry : Keyed, stable : SUBSET DictKeys, seen : SUBSET DictKeys,
     twice : BOOLEAN, done : BOOLEAN]

IterOk(it, K) ==
    /\ it \in IterTypes /\ (~it.on => it = NoIter)
    /\ it.next # NoKey => it.next[1] \in K /\ it.next # it.entry

DictInv == DSound(dct) /\ IterOk(iter, KeysOf(dct))

LEMMA NoIterOk == ASSUME NEW K PROVE IterOk(NoIter, K)
  <1>1. NoIter \in IterTypes
    BY DEF NoIter, IterTypes, Keyed
  <1> QED BY <1>1 DEF IterOk, NoIter

LEMMA KeyedKey ==
    ASSUME NEW x \in Keyed, x # NoKey PROVE x[1] \in DictKeys /\ x = <<x[1]>>
  BY DEF Keyed

LEMMA KeyedIn ==
    ASSUME NEW k \in DictKeys PROVE <<k>> \in Keyed /\ <<k>> # NoKey /\ <<k>>[1] = k
  BY DEF Keyed, NoKey

(* The iterator after it has returned k.                                   *)
IsAt(it, d, t, b, k, f) ==
    /\ f \in IterTypes /\ f.on = it.on /\ f.safe = it.safe /\ f.table = t /\ f.index = b
    /\ f.entry = <<k>> /\ f.next = NextInChain(d, k) /\ f.stable = it.stable
    /\ f.seen = it.seen \cup ({k} \cap it.stable)
    /\ f.twice = (it.twice \/ k \in it.seen) /\ f.done = it.done

LEMMA AtEntryFields ==
    ASSUME NEW it \in IterTypes, NEW d, NEW t \in {0, 1}, NEW b \in Nat \cup {-1},
           NEW k \in DictKeys, NextInChain(d, k) \in Keyed
    PROVE  IsAt(it, d, t, b, k, AtEntry(it, d, t, b, k))
  <1>1. <<k>> \in Keyed
    BY KeyedIn
  <1>2. it.seen \cup ({k} \cap it.stable) \in SUBSET DictKeys
    BY DEF IterTypes
  <1> QED BY <1>1, <1>2 DEF IsAt, AtEntry, IterTypes

LEMMA AtEndFields ==
    ASSUME NEW it \in IterTypes
    PROVE  LET f == AtEnd(it)
           IN  /\ f \in IterTypes /\ f.on = it.on /\ f.safe = it.safe /\ f.table = it.table
               /\ f.index = (IF it.index = -1 THEN 0 ELSE it.index)
               /\ f.entry = NoKey /\ f.next = NoKey /\ f.stable = it.stable
               /\ f.seen = it.seen /\ f.twice = it.twice /\ f.done = TRUE
  <1>1. NoKey \in Keyed
    BY DEF Keyed
  <1> QED BY <1>1 DEF AtEnd, IterTypes

(* What dictNext() does: it is at the next entry of the chain, at the head *)
(* of the next chain, at the head of the first chain of the second table,  *)
(* or at the end.                                                          *)
GoesOn(it, d, f) ==
    it.next # NoKey /\ f = AtEntry(it, d, it.table, it.index, it.next[1])

(* The head of the first chain, from bucket b on, of table t.              *)
IsFirst(d, t, b, m) ==
    /\ m \in 0..(d.ht[t + 1].size - 1) /\ m >= b /\ d.ht[t + 1].table[m] # <<>>
    /\ \A i \in 0..(d.ht[t + 1].size - 1) : i >= b /\ d.ht[t + 1].table[i] # <<>> => m <= i

NoneFrom(d, t, b) ==
    \A i \in 0..(d.ht[t + 1].size - 1) : i >= b => d.ht[t + 1].table[i] = <<>>

GoesTo(it, d, f) ==
    \E t \in {0, 1} : \E m \in Nat :
        /\ it.next = NoKey /\ f = AtHead(it, d, t, m)
        /\ \/ t = it.table /\ IsFirst(d, t, it.index + 1, m)
           \/ /\ t = 1 /\ it.table = 0 /\ NoneFrom(d, 0, it.index + 1)
              /\ IsRehashing(d) /\ IsFirst(d, 1, 0, m)

Ends(it, d, f) ==
    /\ it.next = NoKey /\ f = AtEnd(it) /\ NoneFrom(d, it.table, it.index + 1)
    /\ it.table = 0 => ~IsRehashing(d) \/ NoneFrom(d, 1, 0)

LEMMA FullFromCases ==
    ASSUME NEW d, DSound(d), NEW t \in {0, 1}, NEW b \in Nat
    PROVE  /\ FullFrom(d, t, b) = {} => NoneFrom(d, t, b)
           /\ FullFrom(d, t, b) # {} =>
                 Min(FullFrom(d, t, b)) \in Nat /\ IsFirst(d, t, b, Min(FullFrom(d, t, b)))
  <1> DEFINE u == d.ht[t + 1]
             F == FullFrom(d, t, b)
  <1>1. u.size \in Nat /\ DOMAIN u.table = 0..(u.size - 1)
    <2>1. t + 1 \in {1, 2}
      OBVIOUS
    <2>2. u \in AnyTable
      BY <2>1 DEF DSound, DictStates
    <2> HIDE DEF u
    <2> QED BY <2>2, TableType
  <1>2. F = {i \in 0..(u.size - 1) : i >= b /\ u.table[i] # <<>>}
    BY <1>1 DEF FullFrom
  <1>3. F \in SUBSET Nat
    BY <1>1, <1>2
  <1>4. F # {} => Min(F) \in F /\ \A i \in F : Min(F) <= i
    <2> HIDE DEF F
    <2> QED BY <1>3, MinIn
  <1>5. F = {} => NoneFrom(d, t, b)
    BY <1>2 DEF NoneFrom
  <1>6. ASSUME F # {} PROVE Min(F) \in Nat /\ IsFirst(d, t, b, Min(F))
    <2> DEFINE m == Min(F)
    <2>1. m \in F /\ \A i \in F : m <= i
      BY <1>4, <1>6
    <2> HIDE DEF m, F
    <2>2. m \in Nat /\ IsFirst(d, t, b, m)
      BY <1>2, <1>3, <2>1 DEF IsFirst
    <2> QED BY <2>2 DEF m
  <1> QED BY <1>5, <1>6

LEMMA dictNextCases ==
    ASSUME NEW d, DSound(d), NEW it \in IterTypes
    PROVE  LET f == dictNext(it, d) IN GoesOn(it, d, f) \/ GoesTo(it, d, f) \/ Ends(it, d, f)
  <1> DEFINE f == dictNext(it, d)
             b == it.index + 1
             here == FullFrom(d, it.table, b)
             there == FullFrom(d, 1, 0)
  <1>1. it.table \in {0, 1} /\ b \in Nat
    BY DEF IterTypes
  <1>2. f = CASE it.next # NoKey -> AtEntry(it, d, it.table, it.index, it.next[1])
              [] it.next = NoKey /\ here # {} -> AtHead(it, d, it.table, Min(here))
              [] it.next = NoKey /\ here = {} /\ it.table = 0 /\ IsRehashing(d) /\ there # {} ->
                   AtHead(it, d, 1, Min(there))
              [] OTHER -> AtEnd(it)
    BY DEF dictNext
  <1>3. /\ here = {} => NoneFrom(d, it.table, b)
        /\ here # {} => Min(here) \in Nat /\ IsFirst(d, it.table, b, Min(here))
    <2> HIDE DEF b
    <2> QED BY <1>1, FullFromCases
  <1>4. /\ there = {} => NoneFrom(d, 1, 0)
        /\ there # {} => Min(there) \in Nat /\ IsFirst(d, 1, 0, Min(there))
    BY FullFromCases
  <1> HIDE DEF f, here, there
  <1>5. CASE it.next # NoKey
    <2>1. f = AtEntry(it, d, it.table, it.index, it.next[1])
      BY <1>2, <1>5
    <2> QED BY <1>5, <2>1 DEF GoesOn, f
  <1>6. CASE it.next = NoKey /\ here # {}
    <2>1. f = AtHead(it, d, it.table, Min(here))
      BY <1>2, <1>6
    <2>2. GoesTo(it, d, f)
      BY <1>1, <1>3, <1>6, <2>1 DEF GoesTo
    <2> QED BY <2>2 DEF f
  <1>7. CASE it.next = NoKey /\ here = {} /\ it.table = 0 /\ IsRehashing(d) /\ there # {}
    <2>1. f = AtHead(it, d, 1, Min(there))
      BY <1>2, <1>7
    <2>2. GoesTo(it, d, f)
      BY <1>1, <1>3, <1>4, <1>7, <2>1 DEF GoesTo
    <2> QED BY <2>2 DEF f
  <1>8. CASE it.next = NoKey /\ here = {} /\ ~(it.table = 0 /\ IsRehashing(d) /\ there # {})
    <2>1. f = AtEnd(it)
      BY <1>2, <1>8
    <2>2. Ends(it, d, f)
      BY <1>1, <1>3, <1>4, <1>8, <2>1 DEF Ends
    <2> QED BY <2>2 DEF f
  <1> QED BY <1>5, <1>6, <1>7, <1>8

(* The entry that the iterator is at next is another one.                  *)
LEMMA NextKeyed ==
    ASSUME NEW d, DSound(d), NEW k \in KeysOf(d)
    PROVE  /\ k \in DictKeys /\ NextInChain(d, k) \in Keyed
           /\ NextInChain(d, k) # NoKey => NextInChain(d, k)[1] \in KeysOf(d) \ {k}
  <1>1. k \in DictKeys
    BY KeysTyped
  <1>2. PICK i \in {1, 2} : Present(d, k, i)
    BY KeyPresent
  <1> DEFINE t == d.ht[i]
             n == NextInChain(d, k)
  <1>3. Tidy(t) /\ k \in TableKeys(t) /\ n = After(t, k)
    BY <1>2, OtherTable, NextAfter DEF Sound
  <1>4. TableKeys(t) \subseteq KeysOf(d)
    BY KeysAre
  <1> HIDE DEF t, n
  <1>5. n = NoKey \/ \E y \in TableKeys(t) : n = <<y>> /\ y # k
    BY <1>3, AfterRest
  <1>6. CASE n = NoKey
    BY <1>1, <1>6 DEF n, Keyed
  <1>7. CASE \E y \in TableKeys(t) : n = <<y>> /\ y # k
    <2>1. PICK y \in TableKeys(t) : n = <<y>> /\ y # k
      BY <1>7
    <2>2. y \in KeysOf(d) /\ y \in DictKeys
      BY <1>4, KeysTyped
    <2>3. n \in Keyed /\ n[1] = y
      BY <2>1, <2>2, KeyedIn
    <2> QED BY <1>1, <2>1, <2>2, <2>3 DEF n
  <1> QED BY <1>5, <1>6, <1>7

LEMMA AtEntryOk ==
    ASSUME NEW d, DSound(d), NEW it \in IterTypes, it.on, NEW t \in {0, 1},
           NEW b \in Nat \cup {-1}, NEW k \in KeysOf(d)
    PROVE  IterOk(AtEntry(it, d, t, b, k), KeysOf(d))
  <1> DEFINE f == AtEntry(it, d, t, b, k)
             n == NextInChain(d, k)
  <1>1. k \in DictKeys /\ n \in Keyed /\ (n # NoKey => n[1] \in KeysOf(d) \ {k})
    BY NextKeyed
  <1>2. f \in IterTypes /\ f.on = it.on /\ f.entry = <<k>> /\ f.next = n
    <2>1. k \in DictKeys /\ NextInChain(d, k) \in Keyed
      BY <1>1
    <2>2. IsAt(it, d, t, b, k, f)
      BY <2>1, AtEntryFields
    <2> QED BY <2>2 DEF IsAt
  <1>3. <<k>>[1] = k
    OBVIOUS
  <1> HIDE DEF f, n
  <1>4. n # NoKey => n # <<k>>
    BY <1>1, <1>3
  <1>5. IterOk(f, KeysOf(d))
    BY <1>1, <1>2, <1>4 DEF IterOk
  <1> QED BY <1>5 DEF f

(* The head of a chain is a key that is there.                             *)
HeadIs(d, t, m) ==
    LET u == d.ht[t + 1]
        h == Head(u.table[m])[1]
    IN  /\ Tidy(u) /\ h \in TableKeys(u) /\ h \in KeysOf(d) /\ Bucket(u, h) = m
        /\ From(u, h) = {x \in TableKeys(u) : Bucket(u, x) = m}

LEMMA HeadThere ==
    ASSUME NEW d, DSound(d), NEW t \in {0, 1}, NEW b, NEW m, IsFirst(d, t, b, m)
    PROVE  HeadIs(d, t, m)
  <1> DEFINE u == d.ht[t + 1]
             h == Head(u.table[m])[1]
  <1>1. Tidy(u) /\ TableKeys(u) \subseteq KeysOf(d)
    <2>1. t + 1 = 1 \/ t + 1 = 2
      OBVIOUS
    <2> QED BY <2>1, KeysAre DEF DSound, SoundParts, Sound
  <1>2. m \in 0..(u.size - 1) /\ u.table[m] # <<>>
    BY DEF IsFirst
  <1> HIDE DEF u
  <1>3. /\ h \in TableKeys(u) /\ Bucket(u, h) = m
        /\ From(u, h) = {x \in TableKeys(u) : Bucket(u, x) = m}
    BY <1>1, <1>2, HeadRest
  <1> QED BY <1>1, <1>3 DEF u, HeadIs

LEMMA dictNextOk ==
    ASSUME NEW d, DSound(d), NEW it, IterOk(it, KeysOf(d)), it.on
    PROVE  IterOk(dictNext(it, d), KeysOf(d))
  <1> DEFINE f == dictNext(it, d)
  <1>1. it \in IterTypes /\ it.table \in {0, 1} /\ it.index \in Nat \cup {-1}
    BY DEF IterOk, IterTypes
  <1>2. GoesOn(it, d, f) \/ GoesTo(it, d, f) \/ Ends(it, d, f)
    BY <1>1, dictNextCases
  <1> HIDE DEF f
  <1>3. CASE GoesOn(it, d, f)
    <2>1. it.next[1] \in KeysOf(d) /\ f = AtEntry(it, d, it.table, it.index, it.next[1])
      BY <1>3 DEF GoesOn, IterOk
    <2> DEFINE k == it.next[1]
    <2> HIDE DEF k
    <2>2. IterOk(AtEntry(it, d, it.table, it.index, k), KeysOf(d))
      BY <1>1, <2>1, AtEntryOk DEF k
    <2> QED BY <2>1, <2>2 DEF f, k
  <1>4. CASE GoesTo(it, d, f)
    <2>1. PICK t \in {0, 1}, m \in Nat : /\ f = AtHead(it, d, t, m)
                                         /\ \/ IsFirst(d, t, it.index + 1, m)
                                            \/ IsFirst(d, t, 0, m)
      BY <1>4 DEF GoesTo
    <2> DEFINE h == Head(d.ht[t + 1].table[m])[1]
    <2>2. h \in KeysOf(d)
      BY <2>1, HeadThere DEF HeadIs
    <2>3. f = AtEntry(it, d, t, m, h)
      BY <2>1 DEF AtHead
    <2> HIDE DEF h
    <2>4. IterOk(AtEntry(it, d, t, m, h), KeysOf(d))
      BY <1>1, <2>2, AtEntryOk
    <2> QED BY <2>3, <2>4 DEF f
  <1>5. CASE Ends(it, d, f)
    <2>1. f = AtEnd(it)
      BY <1>5 DEF Ends
    <2>2. f \in IterTypes /\ f.on = it.on /\ f.next = NoKey
      BY <1>1, <2>1, AtEndFields
    <2> QED BY <2>2 DEF IterOk, f
  <1> QED BY <1>2, <1>3, <1>4, <1>5

-----------------------------------------------------------------------------
(* The steps, and the function they are steps of.                          *)

LEMMA Becomes ==
    ASSUME NEW r, DSound(r.d), DictBecomes(r) PROVE dct' = r.d /\ dictReply' = r.reply
  <1>1. r.d = [ht |-> r.d.ht, rehashidx |-> r.d.rehashidx]
    BY DEF DSound, DictStates
  <1> QED BY <1>1 DEF DictBecomes, dct

(* The state does not change.                                              *)
LEMMA SameState ==
    ASSUME UNCHANGED <<ht, rehashidx>> PROVE dct' = dct
  BY DEF dct

Now == Contents(dct)

LEMMA NowNext == ASSUME NEW d, dct' = d PROVE Now' = Contents(d)
  BY DEF Now

LEMMA MapUsed == ASSUME dictReply' = <<>>, Now' = Now PROVE M!MapNext
  BY DEF M!MapNext, M!Used, Now

LEMMA MapAdd ==
    ASSUME NEW k \in DictKeys, NEW v \in DictVals[k],
           \/ dictReply' = <<"OK">> /\ EntriesAt(dct, k) = {} /\ Now' = Now \cup {<<k, v>>}
           \/ dictReply' = <<"ERR">> /\ EntriesAt(dct, k) # {} /\ Now' = Now
    PROVE  M!MapNext
  <1>1. M!Add(k, v)
    BY DEF M!Add, M!Of, Now, EntriesAt
  <1> QED BY <1>1, Zenon DEF M!MapNext

LEMMA MapReplace ==
    ASSUME NEW k \in DictKeys, NEW v \in DictVals[k],
           \/ dictReply' = <<"added">> /\ EntriesAt(dct, k) = {}
           \/ dictReply' = <<"updated">> /\ EntriesAt(dct, k) # {},
           Now' = (Now \ EntriesAt(dct, k)) \cup {<<k, v>>}
    PROVE  M!MapNext
  <1>1. M!Replace(k, v)
    BY DEF M!Replace, M!Of, Now, EntriesAt
  <1> QED BY <1>1, Zenon DEF M!MapNext

LEMMA MapDelete ==
    ASSUME NEW k \in DictKeys,
           \/ dictReply' = <<"OK">> /\ EntriesAt(dct, k) # {} /\ Now' = Now \ EntriesAt(dct, k)
           \/ dictReply' = <<"ERR">> /\ EntriesAt(dct, k) = {} /\ Now' = Now
    PROVE  M!MapNext
  <1>1. M!Delete(k)
    BY DEF M!Delete, M!Of, Now, EntriesAt
  <1> QED BY <1>1, Zenon DEF M!MapNext

LEMMA MapFind ==
    ASSUME NEW k \in DictKeys, Now' = Now,
           (dictReply' = <<"NULL">> /\ EntriesAt(dct, k) = {}) \/ dictReply' \in EntriesAt(dct, k)
    PROVE  M!MapNext
  <1>1. M!Find(k)
    BY DEF M!Find, M!Of, Now, EntriesAt
  <1> QED BY <1>1, Zenon DEF M!MapNext

LEMMA MapRandomKey ==
    ASSUME Now' = Now, (dictReply' = <<"NULL">> /\ Now = {}) \/ dictReply' \in Now
    PROVE  M!MapNext
  <1>1. M!RandomKey
    BY DEF M!RandomKey, Now
  <1> QED BY <1>1, Zenon DEF M!MapNext

LEMMA MapClear == ASSUME Now' = {}, dictReply' = <<>> PROVE M!MapNext
  BY DEF M!MapNext, M!Clear, Now

(* The iterator stays, and no key goes unless it is off.                   *)
LEMMA IterStays ==
    ASSUME NEW it, NEW K, NEW L, IterOk(it, K), K \subseteq L \/ ~it.on PROVE IterOk(it, L)
  BY DEF IterOk, NoIter

LEMMA KeysGrow ==
    ASSUME NEW d, NEW e, Contents(d) \subseteq Contents(e) PROVE KeysOf(d) \subseteq KeysOf(e)
  BY DEF KeysOf

(* The state becomes d, with all the keys there were, or no iterator.      *)
LEMMA InvStays ==
    ASSUME DictInv, NEW d, DSound(d), dct' = d, iter' = iter,
           KeysOf(dct) \subseteq KeysOf(d) \/ ~iter.on
    PROVE  DictInv'
  <1>1. IterOk(iter, KeysOf(d))
    BY IterStays DEF DictInv
  <1> QED BY <1>1 DEF DictInv

LEMMA ValueEntry ==
    ASSUME NEW k \in DictKeys, NEW v \in DictVals[k] PROVE <<k, v>> \in DictEntries
  BY DEF DictEntries

(* The key of the new value is there, and so are all others.               *)
LEMMA ReplacedKeys ==
    ASSUME NEW d, NEW e, NEW k, NEW v, Contents(e) = (Contents(d) \ EntriesAt(d, k)) \cup {<<k, v>>}
    PROVE  KeysOf(d) \subseteq KeysOf(e)
  <1>1. ASSUME NEW x \in Contents(d) PROVE x[1] \in KeysOf(e)
    <2>1. CASE x[1] = k
      <3>1. <<k, v>> \in Contents(e) /\ <<k, v>>[1] = k
        OBVIOUS
      <3> QED BY <2>1, <3>1 DEF KeysOf
    <2>2. CASE x[1] # k
      <3>1. x \in Contents(e)
        BY <2>2 DEF EntriesAt
      <3> QED BY <3>1 DEF KeysOf
    <2> QED BY <2>1, <2>2
  <1> QED BY <1>1 DEF KeysOf

LEMMA AddsStep ==
    ASSUME DictInv, Adds PROVE DictInv' /\ M!MapNext
  <1>1. PICK k \in DictKeys : \E v \in DictVals[k] :
          /\ DictBecomes(dictAdd(k, v)) \/ DictBecomes(dictReplace(k, v))
          /\ iter' = iter
    BY DEF Adds
  <1>2. PICK v \in DictVals[k] :
          /\ DictBecomes(dictAdd(k, v)) \/ DictBecomes(dictReplace(k, v))
          /\ iter' = iter
    BY <1>1
  <1>3. <<k, v>> \in DictEntries /\ DSound(dct)
    BY ValueEntry DEF DictInv
  <1>4. CASE DictBecomes(dictAdd(k, v))
    <2> DEFINE r == dictAdd(k, v)
    <2>1. \/ /\ r.reply = <<"OK">> /\ EntriesAt(dct, k) = {} /\ DSound(r.d)
             /\ Contents(r.d) = Contents(dct) \cup {<<k, v>>}
          \/ r.reply = <<"ERR">> /\ EntriesAt(dct, k) # {} /\ Same(dct, r.d)
      BY <1>3, dictAddResult
    <2>2. DictBecomes(r)
      BY <1>4
    <2> HIDE DEF r
    <2>3. DSound(r.d) /\ Contents(dct) \subseteq Contents(r.d)
      BY <2>1 DEF Same
    <2>4. dct' = r.d /\ dictReply' = r.reply
      BY <2>2, <2>3, Becomes
    <2>5. Now' = Contents(r.d) /\ Now = Contents(dct)
      BY <2>4, NowNext DEF Now
    <2>6. DictInv'
      BY <1>2, <2>3, <2>4, InvStays, KeysGrow
    <2>7. \/ dictReply' = <<"OK">> /\ EntriesAt(dct, k) = {} /\ Now' = Now \cup {<<k, v>>}
          \/ dictReply' = <<"ERR">> /\ EntriesAt(dct, k) # {} /\ Now' = Now
      BY <2>1, <2>4, <2>5 DEF Same
    <2> QED BY <2>6, <2>7, MapAdd
  <1>5. CASE DictBecomes(dictReplace(k, v))
    <2> DEFINE r == dictReplace(k, v)
    <2>1. /\ \/ r.reply = <<"added">> /\ EntriesAt(dct, k) = {}
             \/ r.reply = <<"updated">> /\ EntriesAt(dct, k) # {}
          /\ DSound(r.d)
          /\ Contents(r.d) = (Contents(dct) \ EntriesAt(dct, k)) \cup {<<k, v>>}
      BY <1>3, dictReplaceResult
    <2>2. DictBecomes(r)
      BY <1>5
    <2> HIDE DEF r
    <2>3. KeysOf(dct) \subseteq KeysOf(r.d)
      BY <2>1, ReplacedKeys
    <2>4. dct' = r.d /\ dictReply' = r.reply
      BY <2>1, <2>2, Becomes
    <2>5. Now' = Contents(r.d) /\ Now = Contents(dct)
      BY <2>4, NowNext DEF Now
    <2>6. DictInv'
      BY <1>2, <2>1, <2>3, <2>4, InvStays
    <2>7. /\ \/ dictReply' = <<"added">> /\ EntriesAt(dct, k) = {}
             \/ dictReply' = <<"updated">> /\ EntriesAt(dct, k) # {}
          /\ Now' = (Now \ EntriesAt(dct, k)) \cup {<<k, v>>}
      BY <2>1, <2>4, <2>5
    <2> QED BY <2>6, <2>7, MapReplace
  <1> QED BY <1>2, <1>4, <1>5

(* The contents stay.                                                      *)
LEMMA StepSame ==
    ASSUME DictInv, NEW r, Same(dct, r.d), DictBecomes(r), iter' = iter
    PROVE  DictInv' /\ dct' = r.d /\ dictReply' = r.reply /\ Now' = Now
  <1>1. DSound(r.d) /\ Contents(r.d) = Contents(dct)
    BY DEF Same
  <1>2. dct' = r.d /\ dictReply' = r.reply
    BY <1>1, Becomes
  <1>3. Now' = Now
    BY <1>1, <1>2, NowNext DEF Now
  <1>4. DictInv'
    BY <1>1, <1>2, InvStays, KeysGrow
  <1> QED BY <1>2, <1>3, <1>4

LEMMA FindsStep ==
    ASSUME DictInv, Finds PROVE DictInv' /\ M!MapNext
  <1>1. PICK k \in DictKeys : DictBecomes(dictFind(dct, k)) /\ iter' = iter
    BY DEF Finds
  <1> DEFINE d0 == dct
             r == dictFind(d0, k)
  <1>2. DSound(d0)
    BY DEF DictInv
  <1>3. DictBecomes(r)
    BY <1>1
  <1>4. /\ Same(d0, r.d)
        /\ \/ r.reply = <<"NULL">> /\ EntriesAt(d0, k) = {}
           \/ r.reply \in EntriesAt(d0, k)
    <2> HIDE DEF d0
    <2> QED BY <1>2, dictFindResult
  <1> HIDE DEF r
  <1>5. DictInv' /\ dictReply' = r.reply /\ Now' = Now
    BY <1>1, <1>3, <1>4, StepSame
  <1> QED BY <1>4, <1>5, MapFind

LEMMA DeletesStep ==
    ASSUME DictInv, Deletes PROVE DictInv' /\ M!MapNext
  <1>1. PICK k \in DictKeys, resize \in BOOLEAN :
          LET r == dictGenericDelete(k) IN
            /\ DictIdle
            /\ DictBecomes(IF resize /\ r.reply = <<"OK">> /\ htNeedsResize(r.d)
                           THEN [r EXCEPT !.d = dictResize(@)] ELSE r)
            /\ iter' = iter
    BY DEF Deletes
  <1> DEFINE r == dictGenericDelete(k)
             d == r.d
             R == Result(dictResize(d), r.reply)
  <1>2. DSound(dct) /\ ~iter.on /\ iter' = iter
    BY <1>1 DEF DictInv, DictIdle
  <1>3. \/ /\ r.reply = <<"OK">> /\ EntriesAt(dct, k) # {} /\ DSound(r.d)
           /\ Contents(r.d) = Contents(dct) \ EntriesAt(dct, k)
        \/ r.reply = <<"ERR">> /\ EntriesAt(dct, k) = {} /\ Same(dct, r.d)
    BY <1>2, dictDeleteResult
  <1>4. r = Result(r.d, r.reply)
    BY DEF dictGenericDelete, Result
  <1>5. DictBecomes(r) \/ DictBecomes(R)
    <2>1. [r EXCEPT !.d = dictResize(@)] = R
      <3> HIDE DEF r
      <3> QED BY <1>4 DEF Result
    <2> QED BY <1>1, <2>1
  <1> HIDE DEF r, d, R
  <1>6. DSound(d) /\ R.reply = r.reply /\ R.d = dictResize(d) /\ d = r.d
    BY <1>3, ResultParts DEF Same, R, d
  <1>7. Same(d, dictResize(d))
    BY <1>6, dictResizeKeeps
  <1>8. DSound(dct') /\ Contents(dct') = Contents(r.d) /\ dictReply' = r.reply
    <2>1. CASE DictBecomes(r)
      BY <1>6, <2>1, Becomes
    <2>2. CASE DictBecomes(R)
      <3>1. DSound(R.d)
        BY <1>6, <1>7 DEF Same
      <3>2. dct' = R.d /\ dictReply' = R.reply
        BY <2>2, <3>1, Becomes
      <3> QED BY <1>6, <1>7, <3>1, <3>2 DEF Same
    <2> QED BY <1>5, <2>1, <2>2
  <1>9. DictInv'
    BY <1>2, <1>8, InvStays
  <1>10. Now' = Contents(r.d) /\ Now = Contents(dct)
    BY <1>8 DEF Now
  <1>11. \/ dictReply' = <<"OK">> /\ EntriesAt(dct, k) # {} /\ Now' = Now \ EntriesAt(dct, k)
         \/ dictReply' = <<"ERR">> /\ EntriesAt(dct, k) = {} /\ Now' = Now
    BY <1>3, <1>8, <1>10 DEF Same
  <1> QED BY <1>9, <1>11, MapDelete

LEMMA RandomKeyStep ==
    ASSUME DictInv, RandomKey PROVE DictInv' /\ M!MapNext
  <1> DEFINE d0 == dct
             d == _dictRehashStep(d0)
             K == UNION {TableKeys(d.ht[i]) : i \in Tables(d)}
             all == {Entry(d, k) : k \in K}
  <1>1. DSound(d0)
    BY DEF DictInv
  <1>2. Same(d0, d) /\ DSound(d)
    <2> HIDE DEF d0
    <2> QED BY <1>1, dictRehashStepKeeps DEF Same
  <1>3. /\ iter' = iter
        /\ IF dictSize(d0) = 0 THEN dictReply' = NotFound /\ UNCHANGED <<ht, rehashidx>>
           ELSE \E e \in all : DictBecomes(Result(d, e))
    BY DEF RandomKey
  <1>4. CASE dictSize(d0) = 0
    <2>1. dictReply' = <<"NULL">> /\ dct' = dct
      BY <1>3, <1>4, SameState DEF NotFound
    <2>2. Now' = Now /\ DictInv'
      BY <1>3, <2>1 DEF Now, DictInv
    <2>3. Now = {}
      <3>1. Sound(d0.ht[1]) /\ Sound(d0.ht[2])
        BY <1>1 DEF DSound, SoundParts
      <3>2. d0.ht[1].used \in Nat /\ d0.ht[2].used \in Nat
        BY <3>1, TableType DEF Sound, Tidy
      <3>3. d0.ht[1].used = 0 /\ d0.ht[2].used = 0
        BY <1>4, <3>2 DEF dictSize
      <3>4. EntriesOf(d0.ht[1]) = {} /\ EntriesOf(d0.ht[2]) = {}
        BY <3>1, <3>3, EmptyTable
      <3> QED BY <3>4, ContentsAre DEF Now
    <2> QED BY <2>1, <2>2, <2>3, MapRandomKey
  <1>5. CASE dictSize(d0) # 0
    <2>1. PICK e \in all : DictBecomes(Result(d, e))
      BY <1>3, <1>5
    <2>2. PICK k \in K : e = Entry(d, k)
      OBVIOUS
    <2> HIDE DEF d
    <2>3. k \in KeysOf(d)
      <3>1. K \subseteq TableKeys(d.ht[1]) \cup TableKeys(d.ht[2])
        BY DEF Tables
      <3> QED BY <3>1, KeysAre
    <2>4. PICK i \in {1, 2} : Present(d, k, i)
      BY <1>2, <2>3, KeyPresent
    <2>5. e \in EntriesOf(d.ht[i])
      BY <1>2, <2>2, <2>4, PresentEntry
    <2>6. e \in Contents(d)
      BY <2>5, ContentsAre
    <2> DEFINE r == Result(d, e)
    <2>7. r.d = d /\ r.reply = e /\ DictBecomes(r)
      BY <2>1, ResultParts
    <2> HIDE DEF r
    <2>8. DictInv' /\ dictReply' = e /\ Now' = Now
      BY <1>2, <1>3, <2>7, StepSame
    <2>9. Contents(d) = Now
      BY <1>2 DEF Same, Now
    <2> QED BY <2>6, <2>8, <2>9, MapRandomKey
  <1> QED BY <1>4, <1>5

(* A dictionary that has just been made.                                   *)
LEMMA FreshSound ==
    DSound(Made(NoTable, NoTable, -1)) /\ Contents(Made(NoTable, NoTable, -1)) = {}
  <1>1. SoundParts(NoTable, NoTable, -1)
    BY NoTableSound DEF SoundParts
  <1>2. DSound(Made(NoTable, NoTable, -1))
    BY <1>1, MadeSound
  <1> QED BY <1>2, MadeParts, ContentsAre, NoTableSound

LEMMA EmptyStep ==
    ASSUME DictInv, dictEmpty PROVE DictInv' /\ M!MapNext
  <1>1. dct' = Made(NoTable, NoTable, -1) /\ dictReply' = <<>> /\ iter' = iter /\ ~iter.on
    BY DEF dictEmpty, dct, Made, DictIdle
  <1>2. DictInv'
    BY <1>1, FreshSound, InvStays
  <1>3. Now' = {}
    BY <1>1, FreshSound, NowNext
  <1> QED BY <1>1, <1>2, <1>3, MapClear

(* A step that changes the tables and not what they hold.                  *)
LEMMA QuietStep ==
    ASSUME DictInv, NEW d, Same(dct, d), DictBecomes(Result(d, <<>>)), iter' = iter
    PROVE  DictInv' /\ M!MapNext
  <1> DEFINE r == Result(d, <<>>)
  <1>1. r.d = d /\ r.reply = <<>> /\ DictBecomes(r)
    BY ResultParts
  <1> HIDE DEF r
  <1>2. DictInv' /\ dictReply' = <<>> /\ Now' = Now
    BY <1>1, StepSame
  <1> QED BY <1>2, MapUsed

LEMMA PresizeStep ==
    ASSUME DictInv, Presize PROVE DictInv' /\ M!MapNext
  <1>1. PICK n \in 1..Cardinality(DictKeys) :
          DictBecomes(Result(dictExpand(dct, n), <<>>)) /\ iter' = iter
    BY DEF Presize
  <1>2. n \in Nat
    BY FS_CardinalityType, DictAssumption
  <1> DEFINE d0 == dct
             d == dictExpand(d0, n)
  <1>3. DSound(d0) /\ DictBecomes(Result(d, <<>>))
    BY <1>1 DEF DictInv
  <1>4. Same(d0, d)
    <2> HIDE DEF d0
    <2> QED BY <1>2, <1>3, dictExpandKeeps
  <1> HIDE DEF d
  <1> QED BY <1>1, <1>3, <1>4, QuietStep

LEMMA ResizeStep ==
    ASSUME DictInv, tryResizeHashTables PROVE DictInv' /\ M!MapNext
  <1> DEFINE d0 == dct
             d == dictResize(d0)
  <1>1. DSound(d0) /\ DictBecomes(Result(d, <<>>)) /\ iter' = iter
    BY DEF tryResizeHashTables, DictInv
  <1>2. Same(d0, d)
    <2> HIDE DEF d0
    <2> QED BY <1>1, dictResizeKeeps
  <1> HIDE DEF d
  <1> QED BY <1>1, <1>2, QuietStep

LEMMA RehashStep ==
    ASSUME DictInv, incrementallyRehash PROVE DictInv' /\ M!MapNext
  <1> DEFINE d0 == dct
             d == dictRehash(d0, RehashBatch)
  <1>1. DSound(d0) /\ DictBecomes(Result(d, <<>>)) /\ iter' = iter
    BY DEF incrementallyRehash, DictInv
  <1>2. Same(d0, d)
    <2>1. RehashBatch \in Nat
      BY DictAssumption
    <2> HIDE DEF d0
    <2> QED BY <1>1, <2>1, dictRehashKeeps
  <1> HIDE DEF d
  <1> QED BY <1>1, <1>2, QuietStep

(* The tables stay.                                                        *)
LEMMA StillStep ==
    ASSUME DictInv, UNCHANGED <<ht, rehashidx>>, dictReply' = <<>>, IterOk(iter', KeysOf(dct))
    PROVE  DictInv' /\ M!MapNext
  <1>1. dct' = dct
    BY SameState
  <1>2. Now' = Now /\ DictInv'
    BY <1>1 DEF Now, DictInv
  <1> QED BY <1>2, MapUsed

LEMMA PolicyStep ==
    ASSUME DictInv, updateDictResizePolicy PROVE DictInv' /\ M!MapNext
  <1>1. UNCHANGED <<ht, rehashidx>> /\ dictReply' = <<>> /\ iter' = iter
    BY DEF updateDictResizePolicy
  <1>2. IterOk(iter', KeysOf(dct))
    BY <1>1 DEF DictInv
  <1> QED BY <1>1, <1>2, StillStep

(* A new iterator.                                                         *)
Begun(safe, K) == [NoIter EXCEPT !.on = TRUE, !.safe = safe, !.stable = K]

IsBegun(safe, K, f) ==
    /\ f \in IterTypes /\ f.on = TRUE /\ f.safe = safe /\ f.table = 0 /\ f.index = -1
    /\ f.next = NoKey /\ f.entry = NoKey /\ f.stable = K /\ f.seen = {}
    /\ f.twice = FALSE /\ f.done = FALSE

LEMMA BegunFields ==
    ASSUME NEW safe \in BOOLEAN, NEW K \in SUBSET DictKeys
    PROVE  IsBegun(safe, K, Begun(safe, K))
  <1>1. /\ NoIter \in IterTypes /\ NoIter.table = 0 /\ NoIter.index = -1
        /\ NoIter.next = NoKey /\ NoIter.entry = NoKey /\ NoIter.seen = {}
        /\ NoIter.twice = FALSE /\ NoIter.done = FALSE
    BY DEF NoIter, IterTypes, Keyed
  <1> QED BY <1>1 DEF IsBegun, Begun, IterTypes

LEMMA GetIteratorStep ==
    ASSUME DictInv, dictGetIterator PROVE DictInv' /\ M!MapNext
  <1>1. PICK safe \in BOOLEAN :
          /\ iter' = [NoIter EXCEPT !.on = TRUE, !.safe = safe,
                                    !.stable = TableKeys(ht[1]) \cup TableKeys(ht[2])]
          /\ dictReply' = <<>> /\ UNCHANGED <<ht, rehashidx>>
    BY DEF dictGetIterator
  <1> DEFINE K == KeysOf(dct)
  <1>2. K = TableKeys(ht[1]) \cup TableKeys(ht[2])
    <2>1. dct.ht = ht
      BY DEF dct
    <2> QED BY <2>1, KeysAre
  <1>3. iter' = Begun(safe, K)
    BY <1>1, <1>2 DEF Begun
  <1>4. K \in SUBSET DictKeys
    BY KeysTyped DEF DictInv
  <1> HIDE DEF K
  <1>5. iter' \in IterTypes /\ iter'.on = TRUE /\ iter'.next = NoKey
    <2>1. IsBegun(safe, K, iter')
      BY <1>3, <1>4, BegunFields
    <2> QED BY <2>1 DEF IsBegun
  <1>6. IterOk(iter', K)
    BY <1>5 DEF IterOk
  <1> QED BY <1>1, <1>6, StillStep DEF K

LEMMA NextStep ==
    ASSUME DictInv, iterNext PROVE DictInv' /\ M!MapNext
  <1>1. /\ iter.on /\ iter' = dictNext(iter, dct)
        /\ dictReply' = <<>> /\ UNCHANGED <<ht, rehashidx>>
    BY DEF iterNext
  <1>2. IterOk(dictNext(iter, dct), KeysOf(dct))
    BY <1>1, dictNextOk DEF DictInv
  <1> QED BY <1>1, <1>2, StillStep

LEMMA ReleaseStep ==
    ASSUME DictInv, dictReleaseIterator PROVE DictInv' /\ M!MapNext
  <1>1. iter' = NoIter /\ dictReply' = <<>> /\ UNCHANGED <<ht, rehashidx>>
    BY DEF dictReleaseIterator
  <1> QED BY <1>1, NoIterOk, StillStep

(* The iterator after its user has deleted the key it is at.               *)
Passed(it, k) == [it EXCEPT !.stable = @ \ {k}, !.seen = @ \ {k}]

LEMMA PassedFields ==
    ASSUME NEW it \in IterTypes, NEW k
    PROVE  LET f == Passed(it, k)
           IN  /\ f \in IterTypes /\ f.on = it.on /\ f.safe = it.safe /\ f.table = it.table
               /\ f.index = it.index /\ f.next = it.next /\ f.entry = it.entry
               /\ f.stable = it.stable \ {k} /\ f.seen = it.seen \ {k}
               /\ f.twice = it.twice /\ f.done = it.done
  BY DEF Passed, IterTypes

LEMMA DeletesCurrentStep ==
    ASSUME DictInv, DeletesCurrent PROVE DictInv' /\ M!MapNext
  <1> DEFINE k == iter.entry[1]
             r == dictGenericDelete(k)
  <1>1. iter.on /\ iter.entry # NoKey /\ DictBecomes(r) /\ iter' = Passed(iter, k)
    BY DEF DeletesCurrent, Passed
  <1>2. iter \in IterTypes /\ iter.entry \in Keyed /\ DSound(dct) /\ iter.next \in Keyed
    BY DEF DictInv, IterOk, IterTypes
  <1>3. k \in DictKeys /\ iter.entry = <<k>>
    BY <1>1, <1>2, KeyedKey
  <1> HIDE DEF k
  <1>4. \/ /\ r.reply = <<"OK">> /\ EntriesAt(dct, k) # {} /\ DSound(r.d)
           /\ Contents(r.d) = Contents(dct) \ EntriesAt(dct, k)
        \/ r.reply = <<"ERR">> /\ EntriesAt(dct, k) = {} /\ Same(dct, r.d)
    BY <1>2, <1>3, dictDeleteResult
  <1> HIDE DEF r
  <1>5. dct' = r.d /\ dictReply' = r.reply /\ DSound(r.d)
    BY <1>1, <1>4, Becomes DEF Same
  <1>6. Now' = Contents(r.d) /\ Now = Contents(dct)
    BY <1>5, NowNext DEF Now
  <1>7. M!MapNext
    <2>1. \/ dictReply' = <<"OK">> /\ EntriesAt(dct, k) # {} /\ Now' = Now \ EntriesAt(dct, k)
          \/ dictReply' = <<"ERR">> /\ EntriesAt(dct, k) = {} /\ Now' = Now
      BY <1>4, <1>5, <1>6 DEF Same
    <2> QED BY <1>3, <2>1, MapDelete
  <1> DEFINE f == Passed(iter, k)
  <1>8. f \in IterTypes /\ f.on = iter.on /\ f.next = iter.next /\ f.entry = iter.entry
    BY <1>2, PassedFields
  <1> HIDE DEF f
  <1>9. ASSUME f.next # NoKey PROVE f.next[1] \in KeysOf(r.d) /\ f.next # f.entry
    <2>1. f.next[1] \in KeysOf(dct) /\ f.next # f.entry
      BY <1>8, <1>9 DEF DictInv, IterOk
    <2>2. f.next = <<f.next[1]>>
      BY <1>2, <1>8, <1>9, KeyedKey
    <2>3. f.next[1] # k
      BY <1>3, <1>8, <2>1, <2>2
    <2>4. \A x \in KeysOf(dct) : x # k => x \in KeysOf(r.d)
      BY <1>4 DEF KeysOf, EntriesAt, Same
    <2> QED BY <2>1, <2>3, <2>4
  <1>10. IterOk(f, KeysOf(r.d))
    BY <1>1, <1>8, <1>9 DEF IterOk
  <1>11. DictInv'
    BY <1>1, <1>5, <1>10 DEF DictInv, f
  <1> QED BY <1>7, <1>11

LEMMA DictStep ==
    ASSUME DictInv, DictNext PROVE DictInv' /\ M!MapNext
  BY AddsStep, FindsStep, DeletesStep, RandomKeyStep, EmptyStep, PresizeStep, ResizeStep,
     RehashStep, PolicyStep, GetIteratorStep, NextStep, DeletesCurrentStep, ReleaseStep, Zenon
     DEF DictNext

LEMMA DictStutter ==
    ASSUME DictInv, UNCHANGED dictVars PROVE DictInv' /\ UNCHANGED <<Now, dictReply>>
  <1>1. dct' = dct /\ iter' = iter /\ dictReply' = dictReply
    BY DEF dictVars, dct
  <1> QED BY <1>1 DEF DictInv, Now

LEMMA DictStart ==
    ASSUME DictInit PROVE DictInv /\ M!MapInit
  <1>1. dct = Made(NoTable, NoTable, -1) /\ iter = NoIter /\ dictReply = <<>>
    BY DEF DictInit, dct, Made
  <1>2. DictInv
    BY <1>1, FreshSound, NoIterOk DEF DictInv
  <1>3. Now = {}
    BY <1>1, FreshSound DEF Now
  <1> QED BY <1>1, <1>2, <1>3 DEF M!MapInit, Now

(* Every operation of dict.c gives the result of the function from keys to *)
(* values that the table represents and changes it as that function, at    *)
(* any point of a rehash, with any hash function and with iterators that   *)
(* are safe or not.                                                        *)
THEOREM DictIsAMap == DictSpec => ImplementsMap
  <1>1. DictInit => DictInv /\ M!MapInit
    BY DictStart
  <1>2. DictInv /\ [DictNext]_dictVars => DictInv'
    BY DictStep, DictStutter, Zenon
  <1>3. DictInv /\ [DictNext]_dictVars => [M!MapNext]_<<Contents(dct), dictReply>>
    <2>1. CASE DictNext
      BY <2>1, DictStep
    <2>2. CASE UNCHANGED dictVars
      BY <2>2, DictStutter DEF Now
    <2> QED BY <2>1, <2>2
  <1> QED BY <1>1, <1>2, <1>3, PTL DEF DictSpec, ImplementsMap, M!MapSpec

-----------------------------------------------------------------------------
(* The counters.                                                           *)

(* A table has as many places as keys.                                     *)
LEMMA PlacesCounted ==
    ASSUME NEW t, Sound(t)
    PROVE  t.used = Cardinality(UNION {{b} \X DOMAIN t.table[b] : b \in DOMAIN t.table})
  <1> DEFINE P == UNION {{b} \X DOMAIN t.table[b] : b \in DOMAIN t.table}
             K == TableKeys(t)
             f == [p \in P |-> t.table[p[1]][p[2]][1]]
  <1>1. t \in AnyTable /\ Tidy(t) /\ DOMAIN t.table = 0..(t.size - 1)
    BY TableType DEF Sound, Tidy
  <1>2. \A b \in 0..(t.size - 1) : DOMAIN t.table[b] = 1..Len(t.table[b])
    BY <1>1, TableType
  <1>3. ASSUME NEW p
        PROVE  p \in P <=> \E b \in 0..(t.size - 1) : \E j \in 1..Len(t.table[b]) : p = <<b, j>>
    BY <1>1, <1>2
  <1> HIDE DEF P
  <1>4. ASSUME NEW p \in P
        PROVE  /\ p[1] \in 0..(t.size - 1) /\ p[2] \in 1..Len(t.table[p[1]]) /\ p = <<p[1], p[2]>>
               /\ f[p] = t.table[p[1]][p[2]][1]
    BY <1>3
  <1>5. ASSUME NEW p \in P PROVE f[p] \in K
    BY <1>1, <1>4, InKeys
  <1>6. ASSUME NEW p \in P, NEW q \in P, f[p] = f[q] PROVE p = q
    <2>1. p[1] = q[1]
      BY <1>1, <1>4, <1>6 DEF Tidy, InItsChain
    <2>2. p[2] = q[2]
      BY <1>1, <1>4, <1>6, <2>1 DEF Tidy, KeysDiffer
    <2> QED BY <1>4, <2>1, <2>2
  <1>7. ASSUME NEW k \in K PROVE \E p \in P : f[p] = k
    <2>1. PICK b \in 0..(t.size - 1) : \E j \in 1..Len(t.table[b]) : k = t.table[b][j][1]
      BY <1>1, InKeys
    <2>2. PICK j \in 1..Len(t.table[b]) : k = t.table[b][j][1]
      BY <2>1
    <2> DEFINE p == <<b, j>>
    <2>3. p \in P /\ p[1] = b /\ p[2] = j
      BY <1>3
    <2> HIDE DEF p
    <2> QED BY <1>4, <2>2, <2>3
  <1>8. f \in [P -> K]
    <2>1. f \in [P -> {f[p] : p \in P}]
      OBVIOUS
    <2> HIDE DEF f, K
    <2> QED BY <1>5, <2>1
  <1> HIDE DEF f, K
  <1>9. f \in Bijection(P, K)
    <2>1. IsInjective(f)
      BY <1>6, <1>8 DEF IsInjective
    <2> QED BY <1>7, <1>8, <2>1 DEF Bijection, Injection, Surjection
  <1>10. ExistsBijection(K, P)
    <2>1. ExistsBijection(P, K)
      BY <1>9 DEF ExistsBijection
    <2> QED BY <2>1, Fun_ExistsBijSymmetric
  <1>11. IsFiniteSet(K) /\ t.used = Cardinality(K)
    BY DEF Sound, Counted, K
  <1>12. Cardinality(P) = Cardinality(K)
    BY <1>10, <1>11, FS_Bijection
  <1> QED BY <1>11, <1>12 DEF P

LEMMA DictInvIsSound == DictInv => DictSound
  <1> SUFFICES ASSUME DictInv PROVE DictSound
    OBVIOUS
  <1> DEFINE d == dct
             a == ht[1]
             b == ht[2]
  <1>1. d.ht[1] = a /\ d.ht[2] = b /\ d.rehashidx = rehashidx /\ DSound(d)
    BY DEF dct, DictInv
  <1>2. SoundParts(a, b, rehashidx)
    BY <1>1 DEF DSound
  <1>3. Sound(a) /\ Sound(b) /\ TableKeys(a) \cap TableKeys(b) = {} /\ a.size \in Nat
    BY <1>2, TableType DEF SoundParts, Sound, Tidy
  <1>4. ASSUME NEW i \in {1, 2}, NEW c \in DOMAIN ht[i].table, NEW e \in Range(ht[i].table[c])
        PROVE  Bucket(ht[i], e[1]) = c
    <2> DEFINE t == ht[i]
    <2>1. Tidy(t) /\ t \in AnyTable
      BY <1>3 DEF Sound, Tidy
    <2>2. c \in DOMAIN t.table /\ e \in Range(t.table[c])
      OBVIOUS
    <2> HIDE DEF t
    <2>3. c \in 0..(t.size - 1) /\ DOMAIN t.table[c] = 1..Len(t.table[c])
      BY <2>1, <2>2, TableType
    <2>4. PICK j \in 1..Len(t.table[c]) : e = t.table[c][j]
      BY <2>2, <2>3 DEF Range
    <2>5. Bucket(t, e[1]) = c
      BY <2>1, <2>3, <2>4 DEF Tidy, InItsChain
    <2> QED BY <2>5 DEF t
  <1>5. ASSUME NEW i \in {1, 2}
        PROVE  ht[i].used
                 = Cardinality(UNION {{c} \X DOMAIN ht[i].table[c] : c \in DOMAIN ht[i].table})
    <2> DEFINE t == ht[i]
    <2>1. Sound(t)
      BY <1>3
    <2> HIDE DEF t
    <2>2. t.used = Cardinality(UNION {{c} \X DOMAIN t.table[c] : c \in DOMAIN t.table})
      BY <2>1, PlacesCounted
    <2> QED BY <2>2 DEF t
  <1>6. Cardinality(TableKeys(a) \cup TableKeys(b)) = dictSize(d)
    <2> DEFINE A == TableKeys(a)
               B == TableKeys(b)
    <2>1. IsFiniteSet(A) /\ IsFiniteSet(B) /\ a.used = Cardinality(A) /\ b.used = Cardinality(B)
      BY <1>3 DEF Sound, Counted
    <2>2. A \cap B = {}
      BY <1>3
    <2> HIDE DEF A, B
    <2>3. Cardinality(A \cup B) = Cardinality(A) + Cardinality(B) - Cardinality(A \cap B)
      BY <2>1, FS_Union
    <2>4. Cardinality(A \cap B) = 0 /\ Cardinality(A) \in Nat /\ Cardinality(B) \in Nat
      BY <2>1, <2>2, FS_EmptySet, FS_CardinalityType
    <2>5. Cardinality(A \cup B) = a.used + b.used
      BY <2>1, <2>3, <2>4
    <2> QED BY <1>1, <2>5 DEF dictSize, A, B
  <1>7. rehashidx = -1 => ht[2] = NoTable
    BY <1>2 DEF SoundParts
  <1>8. \A c \in 0..(rehashidx - 1) : c \in DOMAIN ht[1].table => ht[1].table[c] = <<>>
    <2>1. DOMAIN a.table = 0..(a.size - 1)
      BY <1>3, TableType DEF Sound, Tidy
    <2>2. \A c \in 0..(rehashidx - 1) : c < rehashidx
      BY <1>2 DEF SoundParts
    <2> QED BY <1>2, <2>1, <2>2 DEF SoundParts
  <1> QED BY <1>4, <1>5, <1>6, <1>7, <1>8 DEF DictSound

-----------------------------------------------------------------------------
(* The keys an iteration has still to meet.                                *)

Started(it) == ~(it.index = -1 /\ it.table = 0)

(* Those of the rest of the chain, of the buckets after it, and, while it  *)
(* is in the first table, of the second one.                               *)
Rest(it, d) ==
    (IF it.next = NoKey THEN {} ELSE From(d.ht[it.table + 1], it.next[1]))
    \cup {x \in TableKeys(d.ht[it.table + 1]) : Bucket(d.ht[it.table + 1], x) > it.index}
    \cup (IF it.table = 0 THEN TableKeys(d.ht[2]) ELSE {})

OnCourse(it, d) ==
    /\ it.next # NoKey => /\ it.next[1] \in TableKeys(d.ht[it.table + 1])
                          /\ Bucket(d.ht[it.table + 1], it.next[1]) = it.index
    /\ it.table = 1 => IsRehashing(d)
    /\ it.seen = it.stable \ Rest(it, d)

(* What an iteration has met, with n safe iterators running.               *)
Met(it, d, n) ==
    /\ n = IF it.on /\ it.safe /\ Started(it) THEN 1 ELSE 0
    /\ it.on =>
         /\ it.stable \subseteq KeysOf(d) /\ it.seen \subseteq it.stable /\ it.twice = FALSE
         /\ it.done => it.stable \subseteq it.seen /\ it.next = NoKey /\ it.entry = NoKey
         /\ ~Started(it) => it.next = NoKey /\ it.entry = NoKey /\ ~it.done
         /\ ~it.done => OnCourse(it, d)

IterInv == DictInv /\ Met(iter, dct, iterators)

LEMMA FromKeys == ASSUME NEW t, NEW n PROVE From(t, n) \subseteq TableKeys(t)
  BY DEF From

(* Before it has started an iteration has all keys to meet.                *)
LEMMA RestAtStart ==
    ASSUME NEW d, DSound(d), NEW it, ~Started(it), it.next = NoKey PROVE Rest(it, d) = KeysOf(d)
  <1>1. it.index = -1 /\ it.table = 0 /\ it.table + 1 = 1
    BY DEF Started
  <1>2. Tidy(d.ht[1])
    BY DEF DSound, SoundParts, Sound
  <1>3. \A x \in TableKeys(d.ht[1]) : Bucket(d.ht[1], x) > -1
    <2>1. \A x \in TableKeys(d.ht[1]) : Bucket(d.ht[1], x) \in 0..(d.ht[1].size - 1)
      BY <1>2, Node
    <2>2. d.ht[1].size \in Nat
      BY <1>2, TableType DEF Tidy
    <2> QED BY <2>1, <2>2
  <1>4. Rest(it, d) = TableKeys(d.ht[1]) \cup TableKeys(d.ht[2])
    BY <1>1, <1>3 DEF Rest
  <1> QED BY <1>4, KeysAre

LEMMA MetAtStart ==
    ASSUME NEW d, DSound(d), NEW it, it.on, ~Started(it), it.next = NoKey, it.entry = NoKey,
           ~it.done, it.twice = FALSE, it.stable \subseteq KeysOf(d), it.seen = {}
    PROVE  Met(it, d, 0)
  <1>1. Rest(it, d) = KeysOf(d)
    BY RestAtStart
  <1>2. it.table # 1
    BY DEF Started
  <1>3. OnCourse(it, d)
    BY <1>1, <1>2 DEF OnCourse
  <1> QED BY <1>3 DEF Met

(* A table after an operation that keeps the order of the chains: only the *)
(* keys of K may have come or gone.                                        *)
TableLater(t, u, K) ==
    /\ \A x : x \notin K => (x \in TableKeys(u) <=> x \in TableKeys(t))
    /\ u.size = t.size \/ TableKeys(t) = {}
    /\ \A n, x : n \notin K /\ x \notin K => (x \in From(u, n) <=> x \in From(t, n))

(* Both tables after an operation under a safe iterator.                   *)
Later(d, e, K) ==
    /\ TableLater(d.ht[1], e.ht[1], K) /\ TableLater(d.ht[2], e.ht[2], K)
    /\ IsRehashing(d) => IsRehashing(e)

LEMMA LaterSame == ASSUME NEW d PROVE Later(d, d, {})
  BY DEF Later, TableLater

LEMMA LaterThen ==
    ASSUME NEW d, NEW e, NEW f, NEW K, Later(d, e, {}), Later(e, f, K) PROVE Later(d, f, K)
  <1>1. ASSUME NEW i \in {1, 2}
        PROVE  /\ \A x : x \notin K => (x \in TableKeys(f.ht[i]) <=> x \in TableKeys(d.ht[i]))
               /\ f.ht[i].size = d.ht[i].size \/ TableKeys(d.ht[i]) = {}
               /\ \A n, x : n \notin K /\ x \notin K =>
                               (x \in From(f.ht[i], n) <=> x \in From(d.ht[i], n))
    <2>1. /\ \A x : x \in TableKeys(e.ht[i]) <=> x \in TableKeys(d.ht[i])
          /\ e.ht[i].size = d.ht[i].size \/ TableKeys(d.ht[i]) = {}
          /\ \A n, x : x \in From(e.ht[i], n) <=> x \in From(d.ht[i], n)
      BY DEF Later, TableLater
    <2>2. /\ \A x : x \notin K => (x \in TableKeys(f.ht[i]) <=> x \in TableKeys(e.ht[i]))
          /\ f.ht[i].size = e.ht[i].size \/ TableKeys(e.ht[i]) = {}
          /\ \A n, x : n \notin K /\ x \notin K =>
                          (x \in From(f.ht[i], n) <=> x \in From(e.ht[i], n))
      BY DEF Later, TableLater
    <2>3. TableKeys(e.ht[i]) = TableKeys(d.ht[i])
      BY <2>1
    <2> QED BY <2>1, <2>2, <2>3
  <1>2. IsRehashing(d) => IsRehashing(f)
    BY DEF Later, TableLater
  <1> QED BY <1>1, <1>2 DEF Later, TableLater

(* What is left to meet is the same, but for the keys of K.                *)
LEMMA RestLater ==
    ASSUME NEW d, NEW e, NEW K, Later(d, e, K), NEW it, it.table \in {0, 1},
           it.next = NoKey \/ it.next[1] \notin K, NEW x, x \notin K
    PROVE  x \in Rest(it, e) <=> x \in Rest(it, d)
  <1> DEFINE i == it.table + 1
             a == d.ht[i]
             b == e.ht[i]
  <1>1. i \in {1, 2}
    OBVIOUS
  <1>2. /\ x \in TableKeys(b) <=> x \in TableKeys(a)
        /\ b.size = a.size \/ TableKeys(a) = {}
        /\ \A n : n \notin K => (x \in From(b, n) <=> x \in From(a, n))
    BY <1>1 DEF Later, TableLater
  <1>3. x \in TableKeys(e.ht[2]) <=> x \in TableKeys(d.ht[2])
    BY DEF Later, TableLater
  <1>4. x \in TableKeys(a) => Bucket(b, x) = Bucket(a, x)
    BY <1>2 DEF Bucket
  <1> HIDE DEF a, b
  <1>5. /\ x \in Rest(it, d) <=>
              \/ it.next # NoKey /\ x \in From(a, it.next[1])
              \/ x \in TableKeys(a) /\ Bucket(a, x) > it.index
              \/ it.table = 0 /\ x \in TableKeys(d.ht[2])
        /\ x \in Rest(it, e) <=>
              \/ it.next # NoKey /\ x \in From(b, it.next[1])
              \/ x \in TableKeys(b) /\ Bucket(b, x) > it.index
              \/ it.table = 0 /\ x \in TableKeys(e.ht[2])
    BY DEF Rest, a, b
  <1> QED BY <1>2, <1>3, <1>4, <1>5

(* The iteration goes on, without the keys of K.                           *)
LEMMA MetLater ==
    ASSUME NEW d, NEW e, NEW K, Later(d, e, K), NEW n, NEW it, Met(it, d, n), it.on,
           it.table \in {0, 1}, it.next = NoKey \/ it.next[1] \notin K, NEW f,
           f.on = it.on, f.safe = it.safe, f.table = it.table, f.index = it.index,
           f.next = it.next, f.entry = it.entry, f.stable = it.stable \ K,
           f.seen = it.seen \ K, f.twice = it.twice, f.done = it.done
    PROVE  Met(f, e, n)
  <1>1. /\ n = IF it.on /\ it.safe /\ Started(it) THEN 1 ELSE 0
        /\ it.stable \subseteq KeysOf(d) /\ it.seen \subseteq it.stable /\ it.twice = FALSE
        /\ it.done => it.stable \subseteq it.seen /\ it.next = NoKey /\ it.entry = NoKey
        /\ ~Started(it) => it.next = NoKey /\ it.entry = NoKey /\ ~it.done
        /\ ~it.done => OnCourse(it, d)
    BY DEF Met
  <1>2. Started(f) <=> Started(it)
    BY DEF Started
  <1>3. \A x \in KeysOf(d) : x \notin K => x \in KeysOf(e)
    BY KeysAre DEF Later, TableLater
  <1>4. ASSUME ~it.done PROVE OnCourse(f, e)
    <2>1. OnCourse(it, d)
      BY <1>1, <1>4
    <2>2. f.seen = f.stable \ Rest(f, e)
      <3>1. \A x : x \notin K => (x \in Rest(it, e) <=> x \in Rest(it, d))
        BY RestLater
      <3>2. Rest(f, e) = Rest(it, e)
        BY DEF Rest
      <3>3. it.seen = it.stable \ Rest(it, d)
        BY <2>1 DEF OnCourse
      <3> QED BY <3>1, <3>2, <3>3
    <2>3. f.table = 1 => IsRehashing(e)
      BY <2>1 DEF OnCourse, Later, TableLater
    <2>4. ASSUME f.next # NoKey
          PROVE  /\ f.next[1] \in TableKeys(e.ht[f.table + 1])
                 /\ Bucket(e.ht[f.table + 1], f.next[1]) = f.index
      <3> DEFINE i == it.table + 1
                 y == it.next[1]
      <3>1. i \in {1, 2} /\ y \notin K /\ y \in TableKeys(d.ht[i]) /\ Bucket(d.ht[i], y) = it.index
        BY <2>1, <2>4 DEF OnCourse
      <3> HIDE DEF i, y
      <3>2. y \in TableKeys(e.ht[i]) /\ e.ht[i].size = d.ht[i].size
        BY <3>1 DEF Later, TableLater
      <3>3. Bucket(e.ht[i], y) = it.index
        BY <3>1, <3>2 DEF Bucket
      <3> QED BY <3>2, <3>3 DEF i, y
    <2> QED BY <2>2, <2>3, <2>4 DEF OnCourse
  <1> QED BY <1>1, <1>2, <1>3, <1>4 DEF Met

-----------------------------------------------------------------------------
(* The operations under a safe iterator keep the order of the chains.      *)

LEMMA LaterWith ==
    ASSUME NEW d, DSound(d), NEW i \in {1, 2}, NEW u, NEW K, TableLater(d.ht[i], u, K)
    PROVE  Later(d, With(d, i, u), K)
  <1> DEFINE f == With(d, i, u)
  <1>1. /\ f.ht[i] = u /\ f.rehashidx = d.rehashidx
        /\ i = 1 => f.ht[2] = d.ht[2]
        /\ i = 2 => f.ht[1] = d.ht[1]
    BY WithParts
  <1>2. \A t : TableLater(t, t, K)
    BY DEF TableLater
  <1> HIDE DEF f
  <1>3. TableLater(d.ht[1], f.ht[1], K) /\ TableLater(d.ht[2], f.ht[2], K)
    BY <1>1, <1>2
  <1>4. Later(d, f, K)
    BY <1>1, <1>3 DEF Later, IsRehashing
  <1> QED BY <1>4 DEF f

(* A table that was empty.                                                 *)
LEMMA LaterEmpty ==
    ASSUME NEW t, NEW u, TableKeys(t) = {}, TableKeys(u) = {} PROVE TableLater(t, u, {})
  BY DEF TableLater, From

LEMMA dictExpandLater ==
    ASSUME NEW d, DSound(d), NEW size \in Nat PROVE Later(d, dictExpand(d, size), {})
  <1> DEFINE a == d.ht[1]
             b == d.ht[2]
             n == NewTable(_dictNextPower(size))
             f == dictExpand(d, size)
  <1>1. TableKeys(n) = {}
    BY Powers, NewTableSound
  <1>2. \/ f = d
        \/ f = [d EXCEPT !.ht[1] = n] /\ ~IsRehashing(d) /\ a.size = 0
        \/ f = [d EXCEPT !.ht[2] = n, !.rehashidx = 0] /\ ~IsRehashing(d)
    <2>1. a.size \in Nat /\ a.used \in Nat
      BY TableType DEF DSound, SoundParts, Sound, Tidy
    <2>2. CASE IsRehashing(d) \/ a.used > size
      BY <2>1, <2>2 DEF dictExpand
    <2>3. CASE ~IsRehashing(d) /\ ~(a.used > size)
      <3>1. a.used <= size
        BY <2>1, <2>3
      <3> QED BY <2>3, <3>1 DEF dictExpand
    <2> QED BY <2>2, <2>3
  <1>3. \A t : TableLater(t, t, {})
    BY DEF TableLater
  <1> HIDE DEF f, n
  <1>4. CASE f = d
    BY <1>4, LaterSame DEF f
  <1>5. CASE f = [d EXCEPT !.ht[1] = n] /\ ~IsRehashing(d) /\ a.size = 0
    <2>1. f = Made(n, b, d.rehashidx)
      BY <1>5, PartsMade
    <2>2. f.ht[1] = n /\ f.ht[2] = b
      BY <2>1, MadeParts
    <2>3. TableKeys(a) = {}
      BY <1>5, EmptyTable DEF DSound, SoundParts
    <2>4. TableLater(a, n, {})
      BY <1>1, <2>3, LaterEmpty
    <2> QED BY <1>3, <1>5, <2>2, <2>4 DEF Later, f
  <1>6. CASE f = [d EXCEPT !.ht[2] = n, !.rehashidx = 0] /\ ~IsRehashing(d)
    <2>1. f = Made(a, n, 0)
      BY <1>6, PartsMade
    <2>2. f.ht[1] = a /\ f.ht[2] = n
      BY <2>1, MadeParts
    <2>3. TableKeys(b) = {}
      BY <1>6, NoTableSound DEF DSound, SoundParts, IsRehashing
    <2>4. TableLater(b, n, {})
      BY <1>1, <2>3, LaterEmpty
    <2> QED BY <1>3, <1>6, <2>2, <2>4 DEF Later, f
  <1> QED BY <1>2, <1>4, <1>5, <1>6

LEMMA ReadyLater ==
    ASSUME NEW d, DSound(d), iterators # 0 PROVE Later(d, Ready(d), {})
  <1> DEFINE t == d.ht[1]
             m == Max({t.size, t.used}) * 2
  <1>1. Ready(d) = _dictExpandIfNeeded(d)
    BY DEF Ready, _dictRehashStep
  <1>2. \/ _dictExpandIfNeeded(d) = d \/ _dictExpandIfNeeded(d) = dictExpand(d, InitialSize)
        \/ _dictExpandIfNeeded(d) = dictExpand(d, m)
    BY DEF _dictExpandIfNeeded
  <1>3. InitialSize \in Nat
    BY DictAssumption
  <1>4. m \in Nat
    <2>1. t.size \in Nat /\ t.used \in Nat
      BY TableType DEF DSound, SoundParts, Sound, Tidy
    <2> QED BY <2>1, MaxPair
  <1> HIDE DEF m
  <1> QED BY <1>1, <1>2, <1>3, <1>4, LaterSame, dictExpandLater

LEMMA LinkedLater ==
    ASSUME NEW t, Tidy(t), t.size > 0, NEW e \in DictEntries, e[1] \notin TableKeys(t)
    PROVE  TableLater(t, Linked(t, e), {e[1]})
  <1>1. /\ Linked(t, e).size = t.size /\ EntriesOf(Linked(t, e)) = EntriesOf(t) \cup {e}
        /\ \A n : n # e[1] => From(Linked(t, e), n) = From(t, n)
    BY LinkedTable
  <1>2. \A x : x # e[1] => (x \in TableKeys(Linked(t, e)) <=> x \in TableKeys(t))
    BY <1>1, KeysOfEntries
  <1> QED BY <1>1, <1>2 DEF TableLater

LEMMA UnlinkedLater ==
    ASSUME NEW t, Sound(t), NEW k \in TableKeys(t) PROVE TableLater(t, Unlinked(t, k), {k})
  <1>1. TableKeys(Unlinked(t, k)) = TableKeys(t) \ {k} /\ t.used > 0
    BY UnlinkedSound
  <1>2. /\ Unlinked(t, k).size = t.size
        /\ \A n : n # k => From(Unlinked(t, k), n) = From(t, n) \ {k}
    BY <1>1, UnlinkedTable DEF Sound
  <1> QED BY <1>1, <1>2 DEF TableLater

LEMMA ValuedLater ==
    ASSUME NEW t, Sound(t), NEW k \in TableKeys(t), NEW v, <<k, v>> \in DictEntries
    PROVE  TableLater(t, WithValue(t, k, v), {})
  <1>1. TableKeys(WithValue(t, k, v)) = TableKeys(t)
    BY ValuedSound
  <1>2. /\ WithValue(t, k, v).size = t.size
        /\ \A n : From(WithValue(t, k, v), n) = From(t, n)
    BY ValuedTable DEF Sound
  <1> QED BY <1>1, <1>2 DEF TableLater

(* A new key, or none.                                                     *)
LaterAdded(d, e, k) ==
    \/ Later(d, e, {})
    \/ k \notin KeysOf(d) /\ Later(d, e, {k})

LEMMA dictAddLater ==
    ASSUME DSound(dct), iterators # 0, NEW k \in DictKeys, NEW v, <<k, v>> \in DictEntries
    PROVE  LET r == dictAdd(k, v)
           IN  LaterAdded(dct, r.d, k) /\ (r.reply # <<"OK">> => Later(dct, r.d, {}))
  <1> DEFINE d0 == dct
             d == Ready(d0)
             i == InsertTable(d)
             e == <<k, v>>
             r == dictAdd(k, v)
             f == With(d, i, Linked(d.ht[i], e))
  <1>1. /\ Same(d0, d) /\ DSound(d) /\ i \in {1, 2} /\ d.ht[i].size > 0 /\ Later(d0, d, {})
    <2>1. DSound(d0)
      OBVIOUS
    <2> HIDE DEF d0
    <2> QED BY <2>1, ReadyKeeps, ReadyLater
  <1>2. r = IF Where(d, k) # {} THEN Result(d, <<"ERR">>) ELSE Result(f, <<"OK">>)
    BY DEF dictAdd, With, Ready
  <1>3. e \in DictEntries /\ e[1] = k
    OBVIOUS
  <1> HIDE DEF d0, d, i, e, r
  <1>4. CASE Where(d, k) # {}
    <2>1. r.d = d
      BY <1>2, <1>4, ResultParts
    <2> QED BY <1>1, <2>1 DEF LaterAdded, r, d0
  <1>5. CASE Where(d, k) = {}
    <2>1. r.d = f /\ r.reply = <<"OK">>
      BY <1>2, <1>5, ResultParts
    <2>2. Absent(d, k)
      BY <1>1, <1>5, Somewhere DEF Present
    <2>3. k \notin KeysOf(d0)
      <3>1. k \notin KeysOf(d)
        BY <2>2, KeysAre DEF Absent
      <3> QED BY <1>1, <3>1 DEF Same, KeysOf
    <2> DEFINE t == d.ht[i]
    <2>4. Tidy(t) /\ t.size > 0 /\ k \notin TableKeys(t)
      BY <1>1, <2>2 DEF Absent, DSound, SoundParts, Sound
    <2> HIDE DEF t
    <2>5. TableLater(t, Linked(t, e), {k})
      BY <1>3, <2>4, LinkedLater
    <2>6. Later(d, f, {k})
      BY <1>1, <2>5, LaterWith DEF t
    <2> HIDE DEF f
    <2>7. Later(d0, f, {k})
      BY <1>1, <2>6, LaterThen
    <2> QED BY <2>1, <2>3, <2>7 DEF LaterAdded, r, d0
  <1> QED BY <1>4, <1>5

LEMMA dictFindLater ==
    ASSUME NEW d, iterators # 0, NEW k PROVE dictFind(d, k).d = d
  <1>1. _dictRehashStep(d) = d
    BY DEF _dictRehashStep
  <1>2. \/ dictFind(d, k) = Result(d, NotFound)
        \/ dictFind(d, k) = Result(d, IF Where(d, k) = {} THEN NotFound ELSE Entry(d, k))
    BY <1>1 DEF dictFind
  <1> QED BY <1>2, ResultParts

LEMMA dictReplaceLater ==
    ASSUME DSound(dct), iterators # 0, NEW k \in DictKeys, NEW v, <<k, v>> \in DictEntries
    PROVE  LaterAdded(dct, dictReplace(k, v).d, k)
  <1> DEFINE d0 == dct
             a == dictAdd(k, v)
             d == a.d
             i == Min(Where(d, k))
             f == With(d, i, WithValue(d.ht[i], k, v))
             r == dictReplace(k, v)
  <1>1. \/ a.reply = <<"OK">>
        \/ a.reply = <<"ERR">> /\ EntriesAt(d0, k) # {} /\ Same(d0, d)
    BY dictAddResult
  <1>2. r = IF a.reply = <<"OK">> THEN Result(a.d, <<"added">>) ELSE Result(f, <<"updated">>)
    BY dictFindLater DEF dictReplace, With
  <1>3. LaterAdded(d0, d, k) /\ (a.reply # <<"OK">> => Later(d0, d, {}))
    BY dictAddLater
  <1> HIDE DEF d0, a, r
  <1>4. CASE a.reply = <<"OK">>
    <2>1. r.d = a.d
      BY <1>2, <1>4, ResultParts
    <2> QED BY <1>3, <2>1 DEF r, d0
  <1>5. CASE a.reply # <<"OK">>
    <2>1. EntriesAt(d0, k) # {} /\ Same(d0, d) /\ DSound(d) /\ Later(d0, d, {})
      BY <1>1, <1>3, <1>5 DEF Same
    <2> HIDE DEF d
    <2>2. EntriesAt(d, k) # {}
      BY <2>1, SameEntries
    <2>3. ~Absent(d, k)
      BY <2>1, <2>2, AbsentEntries
    <2>4. PICK j \in {1, 2} : Present(d, k, j)
      BY <2>1, <2>3, Somewhere
    <2>5. i = j
      BY <2>4 DEF Present
    <2> DEFINE t == d.ht[j]
    <2>6. Sound(t) /\ k \in TableKeys(t)
      BY <2>1, <2>4, OtherTable
    <2> HIDE DEF i, t
    <2>7. TableLater(t, WithValue(t, k, v), {})
      BY <2>6, ValuedLater
    <2>8. Later(d, f, {})
      BY <2>1, <2>5, <2>7, LaterWith DEF t
    <2> HIDE DEF f
    <2>9. Later(d0, f, {})
      BY <2>1, <2>8, LaterThen
    <2>10. r.d = f
      BY <1>2, <1>5, ResultParts
    <2> QED BY <2>9, <2>10 DEF LaterAdded, r, d0
  <1> QED BY <1>4, <1>5

LEMMA dictDeleteLater ==
    ASSUME DSound(dct), iterators # 0, NEW k \in DictKeys
    PROVE  Later(dct, dictGenericDelete(k).d, {k})
  <1> DEFINE d == dct
             i == Min(Where(d, k))
             f == With(d, i, Unlinked(d.ht[i], k))
             r == dictGenericDelete(k)
  <1>1. r = IF d.ht[1].size = 0 THEN Result(d, <<"ERR">>)
            ELSE IF Where(d, k) = {} THEN Result(d, <<"ERR">>) ELSE Result(f, <<"OK">>)
    <2>1. _dictRehashStep(dct) = dct /\ ht = dct.ht
      BY DEF _dictRehashStep, dct
    <2> HIDE DEF d
    <2>2. _dictRehashStep(dct) = d /\ ht = d.ht
      BY <2>1 DEF d
    <2> QED BY <2>1, <2>2 DEF dictGenericDelete, With, d
  <1>2. DSound(d)
    OBVIOUS
  <1> HIDE DEF d, r
  <1>3. CASE r = Result(d, <<"ERR">>)
    <2>1. r.d = d
      BY <1>3, ResultParts
    <2>2. Later(d, d, {k})
      BY DEF Later, TableLater
    <2> QED BY <2>1, <2>2 DEF r, d
  <1>4. CASE r = Result(f, <<"OK">>) /\ Where(d, k) # {}
    <2>1. PICK j \in {1, 2} : Present(d, k, j)
      BY <1>2, <1>4, Somewhere DEF Absent
    <2>2. i = j
      BY <2>1 DEF Present
    <2> DEFINE t == d.ht[j]
    <2>3. Sound(t) /\ k \in TableKeys(t)
      BY <1>2, <2>1, OtherTable
    <2> HIDE DEF i, t
    <2>4. TableLater(t, Unlinked(t, k), {k})
      BY <2>3, UnlinkedLater
    <2>5. Later(d, f, {k})
      BY <1>2, <2>2, <2>4, LaterWith DEF t
    <2> HIDE DEF f
    <2>6. r.d = f
      BY <1>4, ResultParts
    <2> QED BY <2>5, <2>6 DEF r, d
  <1> QED BY <1>1, <1>3, <1>4

-----------------------------------------------------------------------------
(* dictNext() meets one of the keys that are left, or none is.             *)

(* The keys after bucket b of table t, which is 0 or 1.                    *)
Ahead(d, t, b) ==
    {x \in TableKeys(d.ht[t + 1]) : Bucket(d.ht[t + 1], x) > b}
    \cup (IF t = 0 THEN TableKeys(d.ht[2]) ELSE {})

LEMMA RestAhead ==
    ASSUME NEW it, NEW d
    PROVE  /\ it.next = NoKey => Rest(it, d) = Ahead(d, it.table, it.index)
           /\ it.next # NoKey =>
                 Rest(it, d) = From(d.ht[it.table + 1], it.next[1]) \cup Ahead(d, it.table, it.index)
  BY DEF Rest, Ahead

LEMMA BucketFilled ==
    ASSUME NEW t, Tidy(t), NEW x \in TableKeys(t)
    PROVE  /\ Bucket(t, x) \in 0..(t.size - 1) /\ Bucket(t, x) \in Nat
           /\ t.table[Bucket(t, x)] # <<>>
  <1> DEFINE b == Bucket(t, x)
  <1>1. b \in 0..(t.size - 1) /\ NodeOf(t.table[b], x) \in 1..Len(t.table[b])
    BY Node
  <1>2. t.size \in Nat
    BY TableType DEF Tidy
  <1> HIDE DEF b
  <1>3. t.table[b] # <<>>
    <2>1. CASE t.table[b] = <<>>
      <3>1. Len(t.table[b]) = 0
        BY <2>1
      <3> QED BY <1>1, <3>1
    <2> QED BY <2>1
  <1>4. b \in Nat
    BY <1>1, <1>2
  <1> QED BY <1>1, <1>3, <1>4 DEF b

(* The table of a key.                                                     *)
LEMMA OneTable ==
    ASSUME NEW d, DSound(d), NEW t \in {0, 1}, NEW k \in TableKeys(d.ht[t + 1])
    PROVE  Present(d, k, t + 1) /\ Tidy(d.ht[t + 1]) /\ (t = 0 => k \notin TableKeys(d.ht[2]))
  <1>1. t + 1 \in {1, 2} /\ k \in KeysOf(d)
    BY KeysAre
  <1>2. PICK i \in {1, 2} : Present(d, k, i)
    BY <1>1, KeyPresent
  <1>3. i = t + 1
    BY <1>1, <1>2 DEF Present
  <1>4. Present(d, k, t + 1)
    BY <1>2, <1>3
  <1>5. Tidy(d.ht[t + 1])
    BY <1>4, OtherTable DEF Sound
  <1>6. t = 0 => t + 1 = 1
    OBVIOUS
  <1>7. t = 0 => k \notin TableKeys(d.ht[2])
    BY <1>4, <1>6 DEF Present
  <1> QED BY <1>4, <1>5, <1>7

(* The iterator has gone to k, where all it had left to meet begins.       *)
LEMMA AtMet ==
    ASSUME NEW d, DSound(d), NEW it, it.on, ~it.done, NEW n, Met(it, d, n), NEW t \in {0, 1},
           NEW b \in Nat, NEW k \in TableKeys(d.ht[t + 1]), Bucket(d.ht[t + 1], k) = b,
           t = 1 => IsRehashing(d),
           Rest(it, d) = From(d.ht[t + 1], k) \cup Ahead(d, t, b),
           NEW f, IsAt(it, d, t, b, k, f)
    PROVE  Met(f, d, IF f.safe THEN 1 ELSE 0)
  <1> DEFINE u == d.ht[t + 1]
             R == Rest(it, d)
             A == Ahead(d, t, b)
  <1>1. Present(d, k, t + 1) /\ Tidy(u) /\ (t = 0 => k \notin TableKeys(d.ht[2]))
    BY OneTable
  <1>2. NextInChain(d, k) = After(u, k)
    BY <1>1, NextAfter
  <1>3. /\ f.on = it.on /\ f.safe = it.safe /\ f.table = t /\ f.index = b
        /\ f.entry = <<k>> /\ f.next = After(u, k) /\ f.stable = it.stable
        /\ f.seen = it.seen \cup ({k} \cap it.stable)
        /\ f.twice = (it.twice \/ k \in it.seen) /\ f.done = it.done
    BY <1>2 DEF IsAt
  <1>4. k \notin A
    BY <1>1 DEF Ahead
  <1>5. R = From(u, k) \cup A
    OBVIOUS
  <1>6. /\ it.stable \subseteq KeysOf(d) /\ it.twice = FALSE /\ it.seen = it.stable \ R
    BY DEF Met, OnCourse
  <1>7. \/ After(u, k) = NoKey /\ From(u, k) = {k}
        \/ \E y \in TableKeys(u) :
             /\ After(u, k) = <<y>> /\ y # k /\ Bucket(u, y) = Bucket(u, k)
             /\ From(u, k) = {k} \cup From(u, y) /\ k \notin From(u, y)
    <2> HIDE DEF u
    <2> QED BY <1>1, AfterRest DEF u
  <1> HIDE DEF u, R, A
  <1>8. /\ R = {k} \cup Rest(f, d) /\ k \notin Rest(f, d)
        /\ f.next # NoKey => f.next[1] \in TableKeys(u) /\ Bucket(u, f.next[1]) = b
    <2>1. CASE After(u, k) = NoKey /\ From(u, k) = {k}
      <3>1. Rest(f, d) = A
        BY <1>3, <2>1, RestAhead DEF A
      <3> QED BY <1>3, <1>4, <1>5, <2>1, <3>1
    <2>2. CASE \E y \in TableKeys(u) :
             /\ After(u, k) = <<y>> /\ y # k /\ Bucket(u, y) = Bucket(u, k)
             /\ From(u, k) = {k} \cup From(u, y) /\ k \notin From(u, y)
      <3>1. PICK y \in TableKeys(u) :
             /\ After(u, k) = <<y>> /\ y # k /\ Bucket(u, y) = Bucket(u, k)
             /\ From(u, k) = {k} \cup From(u, y) /\ k \notin From(u, y)
        BY <2>2
      <3>2. f.next # NoKey /\ f.next[1] = y
        BY <1>3, <3>1 DEF NoKey
      <3>3. Rest(f, d) = From(u, y) \cup A
        BY <1>3, <3>2, RestAhead DEF A, u
      <3>4. Bucket(u, y) = b
        BY <3>1 DEF u
      <3> QED BY <1>4, <1>5, <3>1, <3>2, <3>3, <3>4
    <2> QED BY <1>7, <2>1, <2>2
  <1>9. f.seen = f.stable \ Rest(f, d) /\ f.twice = FALSE
    BY <1>3, <1>6, <1>8
  <1>10. OnCourse(f, d)
    BY <1>3, <1>8, <1>9 DEF OnCourse, u
  <1>11. Started(f)
    BY <1>3 DEF Started
  <1> QED BY <1>3, <1>6, <1>9, <1>10, <1>11 DEF Met

LEMMA AheadFirst ==
    ASSUME NEW d, DSound(d), NEW t \in {0, 1}, NEW b \in Nat \cup {-1}, NEW m \in Nat,
           IsFirst(d, t, b + 1, m)
    PROVE  LET u == d.ht[t + 1]
           IN  Ahead(d, t, b) = {x \in TableKeys(u) : Bucket(u, x) = m} \cup Ahead(d, t, m)
  <1> DEFINE u == d.ht[t + 1]
  <1>1. Tidy(u)
    BY DEF DSound, SoundParts, Sound
  <1>2. m >= b + 1 /\ \A i \in 0..(u.size - 1) : i >= b + 1 /\ u.table[i] # <<>> => m <= i
    BY DEF IsFirst
  <1>3. ASSUME NEW x \in TableKeys(u) PROVE Bucket(u, x) > b <=> Bucket(u, x) = m \/ Bucket(u, x) > m
    <2> DEFINE c == Bucket(u, x)
    <2>1. c \in 0..(u.size - 1) /\ c \in Nat /\ u.table[c] # <<>>
      <3> HIDE DEF u
      <3> QED BY <1>1, BucketFilled
    <2> HIDE DEF c, u
    <2>2. c > b => m <= c
      BY <1>2, <2>1
    <2>3. c > b <=> c = m \/ c > m
      BY <1>2, <2>1, <2>2
    <2> QED BY <2>3 DEF c
  <1> HIDE DEF u
  <1> QED BY <1>3 DEF Ahead, u

(* Nothing is left of the table.                                           *)
LEMMA AheadNone ==
    ASSUME NEW d, DSound(d), NEW t \in {0, 1}, NEW b \in Nat \cup {-1}, NoneFrom(d, t, b + 1)
    PROVE  Ahead(d, t, b) = IF t = 0 THEN TableKeys(d.ht[2]) ELSE {}
  <1> DEFINE u == d.ht[t + 1]
  <1>1. Tidy(u)
    BY DEF DSound, SoundParts, Sound
  <1>2. \A i \in 0..(u.size - 1) : i >= b + 1 => u.table[i] = <<>>
    BY DEF NoneFrom
  <1>3. ASSUME NEW x \in TableKeys(u) PROVE ~(Bucket(u, x) > b)
    <2> DEFINE c == Bucket(u, x)
    <2>1. c \in 0..(u.size - 1) /\ c \in Nat /\ u.table[c] # <<>>
      <3> HIDE DEF u
      <3> QED BY <1>1, BucketFilled
    <2> HIDE DEF c, u
    <2>2. ~(c > b)
      BY <1>2, <2>1
    <2> QED BY <2>2 DEF c
  <1> HIDE DEF u
  <1> QED BY <1>3 DEF Ahead, u

(* The whole second table is after its bucket -1.                          *)
LEMMA AheadSecond ==
    ASSUME NEW d, DSound(d) PROVE Ahead(d, 1, -1) = TableKeys(d.ht[2])
  <1>1. Tidy(d.ht[2])
    BY DEF DSound, SoundParts, Sound
  <1>2. \A x \in TableKeys(d.ht[2]) : Bucket(d.ht[2], x) \in Nat
    BY <1>1, BucketFilled
  <1>3. \A x \in TableKeys(d.ht[2]) : Bucket(d.ht[2], x) > -1
    BY <1>2
  <1> QED BY <1>3 DEF Ahead

LEMMA dictNextMet ==
    ASSUME NEW d, DSound(d), NEW it, IterOk(it, KeysOf(d)), it.on, ~it.done, NEW n, Met(it, d, n)
    PROVE  LET f == dictNext(it, d) IN f.on /\ f.safe = it.safe /\ Met(f, d, IF f.safe THEN 1 ELSE 0)
  <1> DEFINE f == dictNext(it, d)
  <1>1. it \in IterTypes /\ it.table \in {0, 1} /\ it.index \in Nat \cup {-1}
    BY DEF IterOk, IterTypes
  <1>2. GoesOn(it, d, f) \/ GoesTo(it, d, f) \/ Ends(it, d, f)
    BY <1>1, dictNextCases
  <1>3. OnCourse(it, d)
    BY DEF Met
  <1>4. ASSUME NEW t \in {0, 1}, NEW b \in Nat, NEW k \in TableKeys(d.ht[t + 1]),
               f = AtEntry(it, d, t, b, k)
        PROVE  IsAt(it, d, t, b, k, f)
    <2> HIDE DEF f
    <2>1. k \in KeysOf(d)
      <3>1. t + 1 = 1 \/ t + 1 = 2
        OBVIOUS
      <3> QED BY <3>1, KeysAre
    <2>2. k \in DictKeys /\ NextInChain(d, k) \in Keyed
      BY <2>1, NextKeyed
    <2>3. IsAt(it, d, t, b, k, AtEntry(it, d, t, b, k))
      BY <1>1, <2>2, AtEntryFields
    <2> QED BY <1>4, <2>3
  <1> HIDE DEF f
  <1>5. CASE GoesOn(it, d, f)
    <2> DEFINE t == it.table
               b == it.index
               k == it.next[1]
    <2>1. it.next # NoKey /\ f = AtEntry(it, d, t, b, k)
      BY <1>5 DEF GoesOn
    <2>2. k \in TableKeys(d.ht[t + 1]) /\ Bucket(d.ht[t + 1], k) = b /\ (t = 1 => IsRehashing(d))
      BY <1>3, <2>1 DEF OnCourse
    <2>3. Rest(it, d) = From(d.ht[t + 1], k) \cup Ahead(d, t, b)
      BY <2>1, RestAhead
    <2>4. t \in {0, 1}
      BY <1>1
    <2> HIDE DEF t, b, k
    <2>5. b \in Nat
      BY <2>2, <2>4, OneTable, BucketFilled
    <2>6. IsAt(it, d, t, b, k, f)
      BY <1>4, <2>1, <2>2, <2>4, <2>5
    <2>7. Met(f, d, IF f.safe THEN 1 ELSE 0)
      BY <2>2, <2>3, <2>4, <2>5, <2>6, AtMet
    <2> QED BY <2>6, <2>7 DEF IsAt, f
  <1>6. CASE GoesTo(it, d, f)
    <2>1. PICK t \in {0, 1}, m \in Nat :
        /\ it.next = NoKey /\ f = AtHead(it, d, t, m)
        /\ \/ t = it.table /\ IsFirst(d, t, it.index + 1, m)
           \/ /\ t = 1 /\ it.table = 0 /\ NoneFrom(d, 0, it.index + 1)
              /\ IsRehashing(d) /\ IsFirst(d, 1, 0, m)
      BY <1>6 DEF GoesTo
    <2> DEFINE u == d.ht[t + 1]
               h == Head(u.table[m])[1]
    <2>2. /\ h \in TableKeys(u) /\ Bucket(u, h) = m
          /\ From(u, h) = {x \in TableKeys(u) : Bucket(u, x) = m}
      <3>1. IsFirst(d, t, it.index + 1, m) \/ IsFirst(d, t, 0, m)
        BY <2>1
      <3>2. HeadIs(d, t, m)
        BY <3>1, HeadThere
      <3> QED BY <3>2 DEF HeadIs
    <2>3. f = AtEntry(it, d, t, m, h)
      BY <2>1 DEF AtHead
    <2>4. t = 1 => IsRehashing(d)
      BY <1>3, <2>1 DEF OnCourse
    <2> HIDE DEF h
    <2>5. Rest(it, d) = Ahead(d, it.table, it.index)
      BY <2>1, RestAhead
    <2>6. Ahead(d, it.table, it.index) = {x \in TableKeys(u) : Bucket(u, x) = m} \cup Ahead(d, t, m)
      <3>1. CASE t = it.table /\ IsFirst(d, t, it.index + 1, m)
        BY <1>1, <3>1, AheadFirst
      <3>2. CASE /\ t = 1 /\ it.table = 0 /\ NoneFrom(d, 0, it.index + 1)
                 /\ IsRehashing(d) /\ IsFirst(d, 1, 0, m)
        <4>1. Ahead(d, it.table, it.index) = Ahead(d, 1, -1)
          BY <1>1, <3>2, AheadNone, AheadSecond
        <4>2. IsFirst(d, 1, (-1) + 1, m)
          <5>1. (-1) + 1 = 0
            OBVIOUS
          <5> QED BY <3>2, <5>1
        <4>3. Ahead(d, 1, -1) = {x \in TableKeys(d.ht[1 + 1]) : Bucket(d.ht[1 + 1], x) = m}
                                   \cup Ahead(d, 1, m)
          BY <4>2, AheadFirst
        <4> QED BY <3>2, <4>1, <4>3
      <3> QED BY <2>1, <3>1, <3>2
    <2>7. Rest(it, d) = From(u, h) \cup Ahead(d, t, m)
      BY <2>2, <2>5, <2>6
    <2>8. IsAt(it, d, t, m, h, f)
      BY <1>4, <2>2, <2>3
    <2>9. Met(f, d, IF f.safe THEN 1 ELSE 0)
      BY <2>2, <2>4, <2>7, <2>8, AtMet
    <2> QED BY <2>8, <2>9 DEF IsAt, f
  <1>7. CASE Ends(it, d, f)
    <2>1. /\ it.next = NoKey /\ f = AtEnd(it) /\ NoneFrom(d, it.table, it.index + 1)
          /\ it.table = 0 => ~IsRehashing(d) \/ NoneFrom(d, 1, 0)
      BY <1>7 DEF Ends
    <2>2. /\ f.on = it.on /\ f.safe = it.safe /\ f.table = it.table
          /\ f.index = (IF it.index = -1 THEN 0 ELSE it.index)
          /\ f.entry = NoKey /\ f.next = NoKey /\ f.stable = it.stable
          /\ f.seen = it.seen /\ f.twice = it.twice /\ f.done = TRUE
      BY <1>1, <2>1, AtEndFields
    <2>3. Rest(it, d) = IF it.table = 0 THEN TableKeys(d.ht[2]) ELSE {}
      BY <1>1, <2>1, RestAhead, AheadNone
    <2>4. it.table = 0 => TableKeys(d.ht[2]) = {}
      <3>1. CASE ~IsRehashing(d)
        BY <3>1, NoTableSound DEF DSound, SoundParts, IsRehashing
      <3>2. CASE NoneFrom(d, 1, 0)
        <4>1. NoneFrom(d, 1, (-1) + 1)
          <5>1. (-1) + 1 = 0
            OBVIOUS
          <5> QED BY <3>2, <5>1
        <4> QED BY <4>1, AheadNone, AheadSecond
      <3> QED BY <2>1, <3>1, <3>2
    <2>5. it.seen = it.stable
      BY <1>3, <2>3, <2>4 DEF OnCourse
    <2>6. Started(f)
      BY <1>1, <2>2 DEF Started
    <2>7. it.stable \subseteq KeysOf(d) /\ it.twice = FALSE
      BY DEF Met
    <2>8. Met(f, d, IF f.safe THEN 1 ELSE 0)
      BY <2>2, <2>5, <2>6, <2>7 DEF Met
    <2> QED BY <2>2, <2>8 DEF f
  <1> QED BY <1>2, <1>5, <1>6, <1>7

-----------------------------------------------------------------------------
(* The steps of an iteration, and those of the others.                     *)

LEMMA MetIdle ==
    ASSUME NEW it, ~it.on, NEW d PROVE Met(it, d, 0) /\ \A n : Met(it, d, n) => n = 0
  BY DEF Met

(* No iterator, before the step and after it.                              *)
LEMMA IdleMet ==
    ASSUME IterInv, DictIdle, iter' = iter, iterators' \in {iterators, 0}
    PROVE  Met(iter', dct', iterators')
  <1>1. ~iter.on /\ Met(iter, dct, iterators)
    BY DEF IterInv, DictIdle
  <1>2. iterators' = 0 /\ ~(iter'.on)
    BY <1>1, MetIdle
  <1> QED BY <1>2, MetIdle

LEMMA NotMet ==
    ASSUME IterInv, iter.on, ~Started(iter)
    PROVE  /\ iterators = 0 /\ iter.seen = {} /\ iter.stable \subseteq KeysOf(dct)
           /\ iter.next = NoKey /\ iter.entry = NoKey /\ ~iter.done /\ iter.twice = FALSE
  <1> DEFINE d == dct
             it == iter
  <1>1. DSound(d) /\ Met(it, d, iterators) /\ it.on /\ ~Started(it)
    BY DEF IterInv, DictInv
  <1> HIDE DEF d, it
  <1>2. /\ iterators = 0 /\ it.stable \subseteq KeysOf(d) /\ it.twice = FALSE
        /\ it.next = NoKey /\ it.entry = NoKey /\ ~it.done /\ OnCourse(it, d)
    BY <1>1 DEF Met
  <1>3. Rest(it, d) = KeysOf(d)
    BY <1>1, <1>2, RestAtStart
  <1>4. it.seen = {}
    BY <1>2, <1>3 DEF OnCourse
  <1> QED BY <1>2, <1>4 DEF d, it

(* The user of the iterator has searched, or added a key.                  *)
LEMMA UsedMet ==
    ASSUME IterInv, MayUse, NEW e, DSound(e), NEW k, KeysOf(dct) \subseteq KeysOf(e),
           iterators # 0 => LaterAdded(dct, e, k), dct' = e, iter' = iter, iterators' = iterators
    PROVE  Met(iter', dct', iterators')
  <1>1. CASE ~iter.on
    BY <1>1, IdleMet DEF DictIdle
  <1>2. CASE iter.on /\ ~Started(iter)
    <2>1. /\ iterators = 0 /\ iter.seen = {} /\ iter.stable \subseteq KeysOf(e)
          /\ iter.next = NoKey /\ iter.entry = NoKey /\ ~iter.done /\ iter.twice = FALSE
      BY <1>2, NotMet
    <2>2. Met(iter, e, 0)
      BY <1>2, <2>1, MetAtStart
    <2> QED BY <2>1, <2>2
  <1>3. CASE iter.on /\ Started(iter)
    <2> DEFINE d == dct
               it == iter
               n == iterators
    <2>1. /\ it.on /\ Met(it, d, n) /\ IterOk(it, KeysOf(d)) /\ it.safe
      BY <1>3 DEF IterInv, DictInv, MayUse, DictIdle
    <2>2. n # 0 /\ it.stable \subseteq KeysOf(d) /\ it.seen \subseteq it.stable
      BY <1>3, <2>1 DEF Met
    <2>3. LaterAdded(d, e, k)
      BY <2>2
    <2>4. it.table \in {0, 1} /\ (it.next = NoKey \/ it.next[1] \in KeysOf(d))
      BY <2>1 DEF IterOk, IterTypes
    <2> HIDE DEF d, it, n
    <2>5. PICK K : Later(d, e, K) /\ K \cap KeysOf(d) = {}
      BY <2>3 DEF LaterAdded
    <2>6. it.stable = it.stable \ K /\ it.seen = it.seen \ K /\ (it.next = NoKey \/ it.next[1] \notin K)
      BY <2>2, <2>4, <2>5
    <2>7. Met(it, e, n)
      BY <2>1, <2>4, <2>5, <2>6, MetLater
    <2> QED BY <2>7 DEF it, n
  <1> QED BY <1>1, <1>2, <1>3

LEMMA AddsMet ==
    ASSUME IterInv, Adds PROVE Met(iter', dct', iterators')
  <1>1. PICK k \in DictKeys : \E v \in DictVals[k] :
          /\ DictBecomes(dictAdd(k, v)) \/ DictBecomes(dictReplace(k, v))
          /\ MayUse /\ iter' = iter /\ iterators' = iterators
    BY DEF Adds
  <1>2. PICK v \in DictVals[k] :
          /\ DictBecomes(dictAdd(k, v)) \/ DictBecomes(dictReplace(k, v))
          /\ MayUse /\ iter' = iter /\ iterators' = iterators
    BY <1>1
  <1>3. <<k, v>> \in DictEntries /\ DSound(dct)
    BY ValueEntry DEF IterInv, DictInv
  <1>4. CASE DictBecomes(dictAdd(k, v))
    <2> DEFINE r == dictAdd(k, v)
    <2>1. \/ DSound(r.d) /\ Contents(r.d) = Contents(dct) \cup {<<k, v>>}
          \/ Same(dct, r.d)
      BY <1>3, dictAddResult
    <2>2. iterators # 0 => LaterAdded(dct, r.d, k)
      BY <1>3, dictAddLater
    <2>3. DictBecomes(r)
      BY <1>4
    <2> HIDE DEF r
    <2>4. DSound(r.d) /\ KeysOf(dct) \subseteq KeysOf(r.d)
      BY <2>1, KeysGrow DEF Same
    <2>5. dct' = r.d
      BY <2>3, <2>4, Becomes
    <2> QED BY <1>2, <2>2, <2>4, <2>5, UsedMet
  <1>5. CASE DictBecomes(dictReplace(k, v))
    <2> DEFINE r == dictReplace(k, v)
    <2>1. DSound(r.d) /\ Contents(r.d) = (Contents(dct) \ EntriesAt(dct, k)) \cup {<<k, v>>}
      BY <1>3, dictReplaceResult
    <2>2. iterators # 0 => LaterAdded(dct, r.d, k)
      BY <1>3, dictReplaceLater
    <2>3. DictBecomes(r)
      BY <1>5
    <2> HIDE DEF r
    <2>4. KeysOf(dct) \subseteq KeysOf(r.d)
      BY <2>1, ReplacedKeys
    <2>5. dct' = r.d
      BY <2>1, <2>3, Becomes
    <2> QED BY <1>2, <2>1, <2>2, <2>4, <2>5, UsedMet
  <1> QED BY <1>2, <1>4, <1>5

LEMMA FindsMet ==
    ASSUME IterInv, Finds PROVE Met(iter', dct', iterators')
  <1>1. PICK k \in DictKeys : /\ DictBecomes(dictFind(dct, k)) /\ MayUse
                              /\ iter' = iter /\ iterators' = iterators
    BY DEF Finds
  <1> DEFINE d0 == dct
             r == dictFind(d0, k)
  <1>2. DSound(d0)
    BY DEF IterInv, DictInv
  <1>3. DictBecomes(r)
    BY <1>1
  <1>4. Same(d0, r.d) /\ (iterators # 0 => r.d = d0)
    <2> HIDE DEF d0
    <2> QED BY <1>2, dictFindResult, dictFindLater
  <1> HIDE DEF r
  <1>5. DSound(r.d) /\ KeysOf(d0) \subseteq KeysOf(r.d)
    BY <1>4, KeysGrow DEF Same
  <1>6. iterators # 0 => LaterAdded(d0, r.d, k)
    BY <1>4, LaterSame DEF LaterAdded
  <1>7. dct' = r.d
    BY <1>3, <1>5, Becomes
  <1> QED BY <1>1, <1>5, <1>6, <1>7, UsedMet

LEMMA GetIteratorMet ==
    ASSUME IterInv, dictGetIterator PROVE Met(iter', dct', iterators')
  <1>1. PICK safe \in BOOLEAN :
          /\ iter' = [NoIter EXCEPT !.on = TRUE, !.safe = safe,
                                    !.stable = TableKeys(ht[1]) \cup TableKeys(ht[2])]
          /\ DictIdle /\ UNCHANGED <<ht, rehashidx, iterators>>
    BY DEF dictGetIterator
  <1> DEFINE K == KeysOf(dct)
  <1>2. K = TableKeys(ht[1]) \cup TableKeys(ht[2])
    <2>1. dct.ht = ht
      BY DEF dct
    <2> QED BY <2>1, KeysAre
  <1>3. iter' = Begun(safe, K)
    BY <1>1, <1>2 DEF Begun
  <1>4. K \in SUBSET DictKeys /\ DSound(dct)
    BY KeysTyped DEF IterInv, DictInv
  <1>5. iterators' = 0 /\ dct' = dct
    <2>1. iterators = 0
      BY <1>1, MetIdle DEF IterInv, DictIdle
    <2> QED BY <1>1, <2>1, SameState
  <1> HIDE DEF K
  <1>6. IsBegun(safe, K, iter')
    BY <1>3, <1>4, BegunFields
  <1> DEFINE f == iter'
  <1>7. /\ f.on /\ ~Started(f) /\ f.next = NoKey /\ f.entry = NoKey /\ ~f.done
        /\ f.twice = FALSE /\ f.stable = K /\ f.seen = {}
    BY <1>6 DEF IsBegun, Started
  <1> HIDE DEF f
  <1>8. Met(f, dct, 0)
    BY <1>4, <1>7, MetAtStart DEF K
  <1> QED BY <1>5, <1>8 DEF f

LEMMA NextMet ==
    ASSUME IterInv, iterNext PROVE Met(iter', dct', iterators')
  <1>1. /\ iter.on /\ ~iter.done /\ iter' = dictNext(iter, dct) /\ UNCHANGED <<ht, rehashidx>>
        /\ iterators' = iterators + IF iter.safe /\ ~Started(iter) THEN 1 ELSE 0
    BY DEF iterNext, Started
  <1>2. DSound(dct) /\ IterOk(iter, KeysOf(dct)) /\ Met(iter, dct, iterators) /\ dct' = dct
    BY <1>1, SameState DEF IterInv, DictInv
  <1>3. iter'.safe = iter.safe /\ Met(iter', dct, IF iter'.safe THEN 1 ELSE 0)
    BY <1>1, <1>2, dictNextMet
  <1>4. iterators = IF iter.safe /\ Started(iter) THEN 1 ELSE 0
    BY <1>1, <1>2 DEF Met
  <1>5. iterators' = IF iter.safe THEN 1 ELSE 0
    BY <1>1, <1>4
  <1> QED BY <1>2, <1>3, <1>5

LEMMA ReleaseMet ==
    ASSUME IterInv, dictReleaseIterator PROVE Met(iter', dct', iterators')
  <1>1. /\ iter.on /\ iter' = NoIter
        /\ iterators' = iterators - IF iter.safe /\ Started(iter) THEN 1 ELSE 0
    BY DEF dictReleaseIterator, Started
  <1>2. iterators = IF iter.safe /\ Started(iter) THEN 1 ELSE 0
    BY <1>1 DEF IterInv, Met
  <1>3. iterators' = 0 /\ ~(iter'.on)
    BY <1>1, <1>2 DEF NoIter
  <1> QED BY <1>3, MetIdle

LEMMA DeletesCurrentMet ==
    ASSUME IterInv, DeletesCurrent, ExpiredKeys = {} PROVE Met(iter', dct', iterators')
  <1> DEFINE k == iter.entry[1]
             r == dictGenericDelete(k)
             d == dct
             it == iter
             n == iterators
  <1>1. /\ it.on /\ it.entry # NoKey /\ DictBecomes(r) /\ iter' = Passed(it, k)
        /\ it.safe /\ iterators' = n
    BY DEF DeletesCurrent, Passed
  <1>2. /\ it \in IterTypes /\ it.entry \in Keyed /\ DSound(d) /\ it.next \in Keyed
        /\ it.table \in {0, 1} /\ Met(it, d, n) /\ (it.next # it.entry \/ it.next = NoKey)
    BY DEF IterInv, DictInv, IterOk, IterTypes
  <1>3. k \in DictKeys /\ it.entry = <<k>>
    BY <1>1, <1>2, KeyedKey
  <1>4. n # 0
    BY <1>1, <1>2 DEF Met
  <1> HIDE DEF k
  <1>5. Later(d, r.d, {k}) /\ DSound(r.d)
    BY <1>2, <1>3, <1>4, dictDeleteLater, dictDeleteResult DEF Same
  <1> HIDE DEF r
  <1>6. dct' = r.d
    BY <1>1, <1>5, Becomes
  <1> HIDE DEF d, it, n
  <1>7. it.next = NoKey \/ it.next[1] \notin {k}
    BY <1>2, <1>3, KeyedKey
  <1> DEFINE f == Passed(it, k)
  <1>8. /\ f.on = it.on /\ f.safe = it.safe /\ f.table = it.table
        /\ f.index = it.index /\ f.next = it.next /\ f.entry = it.entry
        /\ f.stable = it.stable \ {k} /\ f.seen = it.seen \ {k}
        /\ f.twice = it.twice /\ f.done = it.done
    BY <1>2, PassedFields
  <1> HIDE DEF f
  <1>9. Met(f, r.d, n)
    BY <1>1, <1>2, <1>5, <1>7, <1>8, MetLater
  <1> QED BY <1>1, <1>6, <1>9 DEF f, n

LEMMA IdleSteps ==
    ASSUME Deletes \/ RandomKey \/ dictEmpty \/ Presize \/ tryResizeHashTables
           \/ incrementallyRehash \/ updateDictResizePolicy
    PROVE  DictIdle /\ iter' = iter /\ iterators' \in {iterators, 0}
  BY DEF Deletes, RandomKey, dictEmpty, Presize, tryResizeHashTables, incrementallyRehash,
         updateDictResizePolicy

LEMMA IterStep ==
    ASSUME IterInv, [DictNext]_dictVars, ExpiredKeys = {} PROVE IterInv'
  <1>1. DictInv'
    BY DictStep, DictStutter DEF IterInv
  <1>2. Met(iter', dct', iterators')
    <2>1. CASE Deletes \/ RandomKey \/ dictEmpty \/ Presize \/ tryResizeHashTables
               \/ incrementallyRehash \/ updateDictResizePolicy
      BY <2>1, IdleSteps, IdleMet
    <2>2. CASE UNCHANGED dictVars
      BY <2>2, SameState DEF dictVars, IterInv
    <2> QED BY <2>1, <2>2, AddsMet, FindsMet, GetIteratorMet, NextMet, ReleaseMet,
               DeletesCurrentMet DEF DictNext
  <1> QED BY <1>1, <1>2 DEF IterInv

(* After any operations the entries of the two tables are in the chains    *)
(* their hashes name, each key is there once and counted by used, and a    *)
(* rehash has left nothing behind it: what _dictKeyIndex(), dictFind() and *)
(* the end of dictRehash() rely on.                                        *)
THEOREM DictAlwaysSound == DictSpec => []DictSound
  <1>1. DictInit => DictInv
    BY DictStart
  <1>2. DictInv /\ [DictNext]_dictVars => DictInv'
    BY DictStep, DictStutter, Zenon
  <1> QED BY <1>1, <1>2, DictInvIsSound, PTL DEF DictSpec

(* Where no user deletes under an iterator that is not safe, as KEYS does  *)
(* with a key that has expired, dictNext() returns every key that stays in *)
(* the table once, whatever is searched, added, replaced or deleted        *)
(* between two calls and wherever the rehash stands, and the tables are    *)
(* sound.                                                                  *)
THEOREM TableAlwaysSound == ASSUME ExpiredKeys = {} PROVE DictSpec => []TableSound
  <1>1. DictInit => IterInv
    <2> SUFFICES ASSUME DictInit PROVE IterInv
      OBVIOUS
    <2>1. DictInv
      BY DictStart
    <2>2. ~iter.on /\ iterators = 0
      BY DEF DictInit, NoIter
    <2> QED BY <2>1, <2>2, MetIdle DEF IterInv
  <1>2. IterInv /\ [DictNext]_dictVars => IterInv'
    BY IterStep
  <1>3. IterInv => TableSound
    <2>1. IterInv => DictSound
      BY DictInvIsSound DEF IterInv
    <2>2. IterInv => IterationComplete
      BY DEF IterInv, Met, IterationComplete
    <2> QED BY <2>1, <2>2 DEF TableSound
  <1> QED BY <1>1, <1>2, <1>3, PTL DEF DictSpec
=============================================================================
