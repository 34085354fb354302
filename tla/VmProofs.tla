------------------------------ MODULE VmProofs ------------------------------
(***************************************************************************)
(* Proofs about the virtual memory: the swap stays sound, for every set of *)
(* clients and keys, any sizes of values and of the swap file, any number  *)
(* of threads and any commands, as long as writes to the file succeed.     *)
(*                                                                         *)
(* The invariant VmInv says of the server's state (Core) what the queues   *)
(* hold, what each key and each live job is like, that a cancelled job     *)
(* that still has its value is left alone, and whose each used page is; of *)
(* the clients that the two indices agree (Agree), that they wait for what *)
(* is being loaded (WaitsFor) and that who waits for nothing is ready once *)
(* (ReadyOk); of the child that while it is there only loads are queued.   *)
(*                                                                         *)
(* A step changes one key at a time: OneKey says what has to be shown of   *)
(* that key and of its pages to have Core again.  A command, FLUSHALL, the *)
(* waking of clients and the start of more swaps are folds of such steps,  *)
(* by the lemmas about folds of TableProofs.                               *)
(***************************************************************************)
EXTENDS TableProofs, Vm
-----------------------------------------------------------------------------
(* The inductive invariant. *)

VmJobs == [type : {"prepare", "do", "load"}, key : VmKeys, data : Nat, page : Int,
           canceled : BOOLEAN, mine : BOOLEAN, step : {"queued", "taken", "done"}]
VmVals == [storage : {"none", "memory", "swapping", "swapped", "loading"},
           data : Nat, page : Int]
VmStates == [val : [VmKeys -> VmVals], newjobs : Seq(VmJobs), processing : SUBSET VmJobs,
             processed : Seq(VmJobs), threads : Int, used : SUBSET Int,
             waiters : [VmKeys -> Seq(VmClients)], io_keys : [VmClients -> Seq(VmKeys)],
             ready : Seq(VmClients)]

Live(q) == {j \in Range(q) : ~j.canceled}

(* No two live jobs of the queue q are of one key.                         *)
NoTwice(q) ==
    \A a, b \in DOMAIN q :
        q[a].key = q[b].key /\ ~q[a].canceled /\ ~q[b].canceled => a = b

(* The live jobs.                                                          *)
Alive(s) == Live(s.newjobs) \cup s.processing \cup Live(s.processed)

(* The queues: what a job is like in each, and at most one live job a key. *)
Queues(s) ==
    /\ NoTwice(s.newjobs) /\ NoTwice(s.processed)
    /\ \A j \in Range(s.newjobs) : ~j.canceled /\ j.step = "queued"
    /\ \A j \in s.processing : ~j.canceled /\ j.step # "queued"
    /\ \A j \in Range(s.processed) : j.step = "done"
    /\ \A a, b \in Alive(s) : a.key = b.key => a = b
    /\ s.processing \cap Live(s.processed) = {}

InFile(k, page) == page \in Nat /\ Cluster(k, page) \subseteq 0..(VmPages - 1)
Written(f, k, page, d) == \A p \in Cluster(k, page) : f[p] = <<k, d>>

(* The value v of the key k that should hold d, with the swap file f.      *)
KeyOk(v, k, d, f) ==
    /\ v.storage = "none" <=> d = 0
    /\ v.storage = "none" => v.page = -1
    /\ v.storage \in {"memory", "swapping"} => v.page = -1 /\ v.data = d
    /\ v.storage \in {"swapped", "loading"} => InFile(k, v.page) /\ Written(f, k, v.page, d)

(* A live job j of a key with the value v that should hold d.              *)
JobOk(j, v, d, f) ==
    /\ j.type = "load" => /\ v.storage = "loading" /\ j.page = v.page
                          /\ j.step = "done" => j.data = d
    /\ j.type # "load" => v.storage = "swapping" /\ j.mine
    /\ j.type = "do" => /\ InFile(j.key, j.page)
                        /\ j.step = "done" => Written(f, j.key, j.page, d)

OnItsWay(v) == v.storage \in {"swapping", "loading"}

(* A cancelled job that still has its value: nobody else is swapping it.   *)
LeftAlone(s) ==
    \A j \in Range(s.processed) :
        j.canceled /\ j.mine /\ j.type # "load" => s.val[j.key].storage # "swapping"

(* The pages of a key: those of its value and those of its job.            *)
Writes(s, k) == {j \in Alive(s) : j.key = k /\ j.type = "do"}
Own(s, k) == {p \in Int : \/ s.val[k].page # -1 /\ p \in Cluster(k, s.val[k].page)
                          \/ \E j \in Writes(s, k) : p \in Cluster(k, j.page)}

PagesOk(s) ==
    /\ \A p \in Int : p \in s.used <=> \E k \in VmKeys : p \in Own(s, k)
    /\ \A k, l \in VmKeys : k # l => Own(s, k) \cap Own(s, l) = {}

(* The state s of the server, when the keys should hold D.                 *)
Core(s, D, f) ==
    /\ s \in VmStates /\ D \in [VmKeys -> Nat]
    /\ Queues(s)
    /\ \A k \in VmKeys : KeyOk(s.val[k], k, D[k], f)
    /\ \A j \in Alive(s) : JobOk(j, s.val[j.key], D[j.key], f)
    /\ \A k \in VmKeys : OnItsWay(s.val[k]) => \E j \in Alive(s) : j.key = k
    /\ LeftAlone(s)
    /\ PagesOk(s)

(* The two indices of who waits for what agree.                            *)
Agree(s) ==
    \A c \in VmClients, k \in VmKeys : Times(s.io_keys[c], k) = Times(s.waiters[k], c)

(* The clients, but those of T, wait for keys that are being loaded.       *)
WaitsFor(s, T) ==
    \A c \in VmClients : \A k \in Range(s.io_keys[c]) :
        s.val[k].storage = "loading" \/ c \in T

(* The clients W wait, and are ready when they wait for no key.            *)
ReadyOk(s, W) ==
    \A c \in VmClients :
        /\ c \notin W => s.io_keys[c] = <<>>
        /\ Times(s.ready, c) = IF c \in W /\ s.io_keys[c] = <<>> THEN 1 ELSE 0

OnlyLoads(s) == \A j \in Range(s.newjobs) \cup s.processing : j.type = "load"

VmCmds == [op : {"get", "append", "set", "del"}, args : VmArgs]

VmTypes ==
    /\ vmcmd \in [VmClients -> {NoCmd} \cup VmCmds]
    /\ DOMAIN swapfile = 0..(VmPages - 1)
    /\ vmwrites \in Nat /\ vmloading \in BOOLEAN

VmChildOk ==
    /\ vmchild # NoChild => OnlyLoads(vm) /\ ~vmloading
    /\ ChildReadsItsData

WaitSet == {c \in VmClients : vmcmd[c] # NoCmd}

(* At start up there are no jobs and no clients.                           *)
VmStart ==
    vmloading => /\ vm.newjobs = <<>> /\ vm.processing = {} /\ vm.processed = <<>>
                 /\ WaitSet = {}

VmInv ==
    /\ VmTypes /\ Core(vm, vmdata, swapfile)
    /\ Agree(vm) /\ WaitsFor(vm, vmstuck) /\ ReadyOk(vm, WaitSet)
    /\ VmChildOk /\ VmStart
-----------------------------------------------------------------------------
(* Sequences. *)

(* The first position at which something holds.                            *)
LEMMA LeastPlace ==
    ASSUME NEW n \in Nat, NEW x \in SUBSET (1..n), x # {}
    PROVE  Min(x) \in x /\ \A y \in x : Min(x) <= y
  <1>1. x \in SUBSET Nat
    OBVIOUS
  <1>2. \E m \in x : \A y \in x : m <= y
    BY <1>1, LeastNat
  <1> QED BY <1>2, Zenon DEF Min

(* How often e is in q is a number, and 0 if it is not there.              *)
LEMMA TimesType ==
    ASSUME NEW S, NEW q \in Seq(S), NEW e
    PROVE  /\ IsFiniteSet({i \in DOMAIN q : q[i] = e})
           /\ Times(q, e) \in Nat
           /\ Times(q, e) = 0 <=> e \notin Range(q)
  <1> DEFINE P == {i \in DOMAIN q : q[i] = e}
  <1>1. DOMAIN q = 1..Len(q) /\ Len(q) \in Nat
    OBVIOUS
  <1>2. IsFiniteSet(1..Len(q))
    BY <1>1, FS_Interval
  <1>3. IsFiniteSet(P)
    <2>1. P \subseteq 1..Len(q)
      BY <1>1
    <2> HIDE DEF P
    <2> QED BY <1>2, <2>1, FS_Subset, Zenon
  <1>4. Cardinality(P) \in Nat /\ (Cardinality(P) = 0 <=> P = {})
    <2> HIDE DEF P
    <2> QED BY <1>3, FS_CardinalityType, FS_EmptySet, Zenon
  <1>5. P = {} <=> e \notin Range(q)
    BY Zenon DEF Range
  <1> QED BY <1>3, <1>4, <1>5, Zenon DEF Times

(* Append adds one.                                                        *)
LEMMA TimesAppend ==
    ASSUME NEW S, NEW q \in Seq(S), NEW e \in S, NEW x
    PROVE  Times(Append(q, e), x) = Times(q, x) + (IF x = e THEN 1 ELSE 0)
  <1> DEFINE r == Append(q, e)
             P == {i \in DOMAIN q : q[i] = x}
             R == {i \in DOMAIN r : r[i] = x}
             n == Len(q) + 1
  <1>1. /\ DOMAIN q = 1..Len(q) /\ DOMAIN r = 1..n /\ r[n] = e /\ n \notin DOMAIN q
        /\ \A i \in DOMAIN q : r[i] = q[i] /\ i \in DOMAIN r
        /\ \A i \in DOMAIN r : i = n \/ i \in DOMAIN q
    OBVIOUS
  <1>2. IsFiniteSet(P) /\ Times(q, x) \in Nat
    BY TimesType
  <1>3. Times(q, x) = Cardinality(P) /\ Times(r, x) = Cardinality(R)
    BY Zenon DEF Times
  <1>4. n \notin P
    BY <1>1
  <1>5. CASE x = e
    <2>1. R = P \cup {n}
      <3>1. ASSUME NEW i \in DOMAIN r PROVE r[i] = x <=> i \in P \cup {n}
        <4> HIDE DEF r, n
        <4> QED BY <1>1, <1>5, <3>1
      <3>2. P \cup {n} \subseteq DOMAIN r
        <4> HIDE DEF r
        <4> QED BY <1>1
      <3> HIDE DEF r, n, P
      <3> QED BY <3>1, <3>2
    <2>2. Cardinality(P \cup {n}) = Cardinality(P) + 1
      <3> HIDE DEF P, n
      <3> QED BY <1>2, <1>4, FS_AddElement
    <2> QED BY <1>3, <1>5, <2>1, <2>2
  <1>6. CASE x # e
    <2>1. R = P
      <3> HIDE DEF r, n
      <3> QED BY <1>1, <1>6
    <2>2. Times(r, x) = Times(q, x)
      BY <1>3, <2>1, Zenon
    <2> QED BY <1>2, <1>6, <2>2
  <1> QED BY <1>5, <1>6

(* RemoveAt takes one away.                                                *)
LEMMA TimesRemoveAt ==
    ASSUME NEW S, NEW q \in Seq(S), NEW m \in 1..Len(q), NEW x
    PROVE  Times(RemoveAt(q, m), x) = Times(q, x) - (IF x = q[m] THEN 1 ELSE 0)
  <1> DEFINE r == RemoveAt(q, m)
             P == {i \in DOMAIN q : q[i] = x}
             Q == P \ {m}
             R == {i \in DOMAIN r : r[i] = x}
             f == [i \in R |-> IF i < m THEN i ELSE i + 1]
  <1>0. r = RemoveAt(q, m)
    OBVIOUS
  <1> HIDE DEF r
  <1>1. /\ r \in Seq(S) /\ Len(r) = Len(q) - 1
        /\ \A j \in 1..(Len(q) - 1) : r[j] = IF j < m THEN q[j] ELSE q[j + 1]
    BY <1>0, Removed
  <1>2. DOMAIN q = 1..Len(q) /\ DOMAIN r = 1..(Len(q) - 1) /\ Len(q) \in Nat
    BY <1>1
  <1>3. \A i \in R : f[i] \in Q
    BY <1>1, <1>2
  <1>4. \A i, j \in R : f[i] = f[j] => i = j
    BY <1>1, <1>2
  <1>5. ASSUME NEW j \in Q PROVE \E i \in R : f[i] = j
    <2>1. CASE j < m
      <3>1. j \in R /\ f[j] = j
        BY <1>1, <1>2, <2>1
      <3> QED BY <3>1
    <2>2. CASE ~(j < m)
      <3>1. j - 1 \in R /\ f[j - 1] = j
        BY <1>1, <1>2, <2>2
      <3> QED BY <3>1
    <2> QED BY <2>1, <2>2
  <1>6. f \in Bijection(R, Q)
    <2>1. f \in [R -> Q]
      BY <1>3
    <2> HIDE DEF f, R, Q
    <2> QED BY <1>4, <1>5, <2>1 DEF Bijection, Injection, Surjection, IsInjective
  <1>7. /\ IsFiniteSet(P) /\ Cardinality(P) = Times(q, x) /\ IsFiniteSet(R)
        /\ Cardinality(R) = Times(r, x) /\ Times(q, x) \in Nat /\ Times(r, x) \in Nat
    BY <1>1, TimesType, Zenon DEF Times
  <1>8. Cardinality(R) = Cardinality(Q)
    <2>1. IsFiniteSet(R) /\ \E g : g \in Bijection(R, Q)
      BY <1>6, <1>7
    <2> HIDE DEF f, R, Q
    <2> QED BY <2>1, FS_Bijection, Zenon DEF ExistsBijection
  <1>9. CASE x = q[m]
    <2>1. m \in P
      BY <1>2, <1>9
    <2>2. Cardinality(Q) = Cardinality(P) - 1
      <3> HIDE DEF P
      <3> QED BY <1>7, <2>1, FS_RemoveElement
    <2> QED BY <1>0, <1>7, <1>8, <1>9, <2>2
  <1>10. CASE x # q[m]
    <2>1. Q = P
      BY <1>10
    <2>2. Times(RemoveAt(q, m), x) = Times(q, x)
      BY <1>0, <1>7, <1>8, <2>1, Zenon
    <2> QED BY <1>7, <1>10, <2>2
  <1> QED BY <1>9, <1>10

(* listDelNode() of the first e.                                           *)
LEMMA RemovedFirst ==
    ASSUME NEW S, NEW q \in Seq(S), NEW e
    PROVE  /\ RemoveFirst(q, e) \in Seq(S)
           /\ e \notin Range(q) => RemoveFirst(q, e) = q
           /\ e \in Range(q) =>
                \E i \in 1..Len(q) : /\ q[i] = e /\ RemoveFirst(q, e) = RemoveAt(q, i)
                                     /\ \A j \in 1..Len(q) : q[j] = e => i <= j
  <1> DEFINE I == {i \in 1..Len(q) : q[i] = e}
  <1>1. DOMAIN q = 1..Len(q) /\ Len(q) \in Nat
    OBVIOUS
  <1>2. CASE e \in Range(q)
    <2>1. I # {} /\ I \in SUBSET (1..Len(q))
      BY <1>1, <1>2 DEF Range
    <2>2. Min(I) \in I /\ \A j \in I : Min(I) <= j
      <3> HIDE DEF I
      <3> QED BY <1>1, <2>1, LeastPlace
    <2>3. RemoveFirst(q, e) = RemoveAt(q, Min(I))
      BY <2>1, Zenon DEF RemoveFirst, SelectInSeq
    <2>4. RemoveAt(q, Min(I)) \in Seq(S)
      <3>1. Min(I) \in 1..Len(q)
        BY <2>2
      <3> HIDE DEF I
      <3> QED BY <3>1, Removed
    <2>5. \E i \in 1..Len(q) : /\ q[i] = e /\ RemoveFirst(q, e) = RemoveAt(q, i)
                               /\ \A j \in 1..Len(q) : q[j] = e => i <= j
      BY <2>2, <2>3, Zenon
    <2> QED BY <1>2, <2>3, <2>4, <2>5
  <1>3. CASE e \notin Range(q)
    <2>1. ~ \E i \in 1..Len(q) : q[i] = e
      BY <1>1, <1>3 DEF Range
    <2> QED BY <1>3, <2>1, Zenon DEF RemoveFirst
  <1> QED BY <1>2, <1>3

(* It is there once less, and everything else as often.                    *)
LEMMA TimesRemoveFirst ==
    ASSUME NEW S, NEW q \in Seq(S), NEW e \in Range(q), NEW x
    PROVE  Times(RemoveFirst(q, e), x) = Times(q, x) - (IF x = e THEN 1 ELSE 0)
  BY RemovedFirst, TimesRemoveAt

(* The rest of a sequence, from the i-th on.                               *)
Remains(q, i) == SubSeq(q, i, Len(q))

(* What is left from the i-th place on.                                    *)
LEMMA RestIs ==
    ASSUME NEW S, NEW q \in Seq(S), NEW i \in 1..(Len(q) + 1)
    PROVE  /\ Remains(q, i) \in Seq(S) /\ Len(Remains(q, i)) = Len(q) - i + 1
           /\ \A j \in 1..(Len(q) - i + 1) : Remains(q, i)[j] = q[i + j - 1]
  BY DEF Remains

(* The head of the rest is the one that is taken out of it.                *)
LEMMA RestNext ==
    ASSUME NEW S, NEW q \in Seq(S), NEW i \in 1..Len(q)
    PROVE  /\ q[i] \in Range(Remains(q, i))
           /\ RemoveFirst(Remains(q, i), q[i]) = Remains(q, i + 1)
  <1> DEFINE r == Remains(q, i)
             n == Remains(q, i + 1)
  <1>1. /\ r \in Seq(S) /\ Len(r) = Len(q) - i + 1
        /\ \A j \in 1..(Len(q) - i + 1) : r[j] = q[i + j - 1]
    <2>1. i \in 1..(Len(q) + 1)
      OBVIOUS
    <2> QED BY <2>1, RestIs
  <1>2. /\ n \in Seq(S) /\ Len(n) = Len(q) - i
        /\ \A j \in 1..(Len(q) - i) : n[j] = q[i + j]
    <2>1. i + 1 \in 1..(Len(q) + 1)
      OBVIOUS
    <2>2. /\ n \in Seq(S) /\ Len(n) = Len(q) - (i + 1) + 1
          /\ \A j \in 1..(Len(q) - (i + 1) + 1) : n[j] = q[(i + 1) + j - 1]
      BY <2>1, RestIs
    <2> QED BY <2>2
  <1> HIDE DEF r, n
  <1>a. Len(q) \in Nat /\ DOMAIN r = 1..Len(r) /\ 1 \in 1..(Len(q) - i + 1) /\ i + 1 - 1 = i
    BY <1>1
  <1>3. 1 \in DOMAIN r /\ r[1] = q[i]
    BY <1>1, <1>a
  <1>4. q[i] \in Range(r)
    BY <1>3 DEF Range
  <1>5. PICK m \in 1..Len(r) : /\ RemoveFirst(r, q[i]) = RemoveAt(r, m)
                               /\ \A j \in 1..Len(r) : r[j] = q[i] => m <= j
    BY <1>1, <1>4, RemovedFirst
  <1>6. m = 1
    <2>1. 1 \in 1..Len(r) /\ Len(r) \in Nat
      BY <1>1, <1>3, <1>a
    <2>2. m <= 1
      BY <1>3, <1>5, <2>1
    <2>3. m \in Nat /\ m >= 1
      BY <2>1
    <2> QED BY <2>2, <2>3
  <1>7. /\ RemoveAt(r, 1) \in Seq(S) /\ Len(RemoveAt(r, 1)) = Len(r) - 1
        /\ \A j \in 1..(Len(r) - 1) : RemoveAt(r, 1)[j] = r[j + 1]
    <2>1. 1 \in 1..Len(r)
      BY <1>1
    <2>2. /\ RemoveAt(r, 1) \in Seq(S) /\ Len(RemoveAt(r, 1)) = Len(r) - 1
          /\ \A j \in 1..(Len(r) - 1) : RemoveAt(r, 1)[j] = IF j < 1 THEN r[j] ELSE r[j + 1]
      BY <1>1, <2>1, Removed
    <2> QED BY <2>2
  <1>8. RemoveAt(r, 1) = n
    <2> DEFINE u == RemoveAt(r, 1)
    <2>0. u = RemoveAt(r, 1)
      OBVIOUS
    <2> HIDE DEF u
    <2>1. u \in Seq(S) /\ Len(u) = Len(n)
      <3>1. u \in Seq(S) /\ Len(u) = Len(r) - 1
        BY <1>7, <2>0, Zenon
      <3> QED BY <1>1, <1>2, <1>a, <3>1
    <2>2. ASSUME NEW j \in 1..Len(n) PROVE u[j] = n[j]
      <3>1. /\ j \in 1..(Len(r) - 1) /\ j \in 1..(Len(q) - i)
            /\ j + 1 \in 1..(Len(q) - i + 1) /\ i + (j + 1) - 1 = i + j
        BY <1>1, <1>2, <1>a
      <3>2. u[j] = r[j + 1] /\ n[j] = q[i + j]
        BY <1>2, <1>7, <2>0, <3>1
      <3>3. r[j + 1] = q[i + (j + 1) - 1]
        BY <1>1, <3>1
      <3> QED BY <3>1, <3>2, <3>3
    <2>3. u = n
      BY <1>2, <2>1, <2>2
    <2> QED BY <2>3 DEF u
  <1> QED BY <1>4, <1>5, <1>6, <1>8 DEF r, n

(* Tail takes the head away.                                               *)
LEMMA TimesTail ==
    ASSUME NEW S, NEW q \in Seq(S), q # <<>>, NEW x
    PROVE  Times(Tail(q), x) = Times(q, x) - (IF x = Head(q) THEN 1 ELSE 0)
  <1>1. Remains(q, 1) = q /\ Remains(q, 2) = Tail(q) /\ Head(q) = q[1] /\ 1 \in 1..Len(q)
    BY DEF Remains
  <1>2. q[1] \in Range(q) /\ RemoveFirst(q, q[1]) = Tail(q)
    <2>1. q[1] \in Range(Remains(q, 1)) /\ RemoveFirst(Remains(q, 1), q[1]) = Remains(q, 1 + 1)
      BY <1>1, RestNext
    <2>2. 1 + 1 = 2
      OBVIOUS
    <2> QED BY <1>1, <2>1, <2>2, Zenon
  <1>3. Times(RemoveFirst(q, q[1]), x) = Times(q, x) - (IF x = q[1] THEN 1 ELSE 0)
    BY <1>2, TimesRemoveFirst
  <1> QED BY <1>1, <1>2, <1>3, Zenon

-----------------------------------------------------------------------------
(* The queues. *)

(* A job comes to the end of a queue.                                      *)
LEMMA LiveAppend ==
    ASSUME NEW q \in Seq(VmJobs), NEW j \in VmJobs, ~j.canceled
    PROVE  /\ Append(q, j) \in Seq(VmJobs)
           /\ Range(Append(q, j)) = Range(q) \cup {j}
           /\ Live(Append(q, j)) = Live(q) \cup {j}
           /\ NoTwice(q) /\ (\A x \in Live(q) : x.key # j.key) => NoTwice(Append(q, j))
  <1> DEFINE r == Append(q, j)
             n == Len(q) + 1
  <1>1. /\ r \in Seq(VmJobs) /\ DOMAIN q = 1..Len(q) /\ DOMAIN r = 1..n /\ r[n] = j
        /\ \A i \in DOMAIN q : r[i] = q[i] /\ i \in DOMAIN r
        /\ \A i \in DOMAIN r : i = n \/ i \in DOMAIN q
        /\ n \in DOMAIN r
    OBVIOUS
  <1> HIDE DEF r, n
  <1>2. Range(r) = Range(q) \cup {j}
    <2>1. \A x : x \in Range(r) => x \in Range(q) \cup {j}
      BY <1>1 DEF Range
    <2>2. \A x : x \in Range(q) \cup {j} => x \in Range(r)
      BY <1>1 DEF Range
    <2> QED BY <2>1, <2>2
  <1>3. Live(r) = Live(q) \cup {j}
    BY <1>2 DEF Live
  <1>4. ASSUME NoTwice(q), \A x \in Live(q) : x.key # j.key PROVE NoTwice(r)
    <2>1. \A i \in DOMAIN q : ~q[i].canceled => q[i].key # j.key
      BY <1>4, Zenon DEF Live, Range
    <2> QED BY <1>1, <1>4, <2>1, Zenon DEF NoTwice
  <1> QED BY <1>1, <1>2, <1>3, <1>4 DEF r

(* The first job of a queue is taken.                                      *)
LEMMA LiveTail ==
    ASSUME NEW q \in Seq(VmJobs), q # <<>>
    PROVE  /\ Tail(q) \in Seq(VmJobs) /\ Head(q) \in VmJobs
           /\ Range(q) = Range(Tail(q)) \cup {Head(q)}
           /\ NoTwice(q) => /\ NoTwice(Tail(q))
                            /\ ~Head(q).canceled =>
                                 \A x \in Live(Tail(q)) : x.key # Head(q).key
  <1> DEFINE r == Tail(q)
             h == Head(q)
  <1>1. /\ r \in Seq(VmJobs) /\ h \in VmJobs /\ h = q[1] /\ 1 \in DOMAIN q
        /\ \A i \in DOMAIN r : i + 1 \in DOMAIN q /\ r[i] = q[i + 1] /\ i + 1 # 1
        /\ \A i \in DOMAIN q : i = 1 \/ (i - 1 \in DOMAIN r /\ r[i - 1] = q[i])
        /\ DOMAIN r \subseteq Int
    OBVIOUS
  <1> HIDE DEF r, h
  <1>2. Range(q) = Range(r) \cup {h}
    <2>1. ASSUME NEW x \in Range(q) PROVE x \in Range(r) \cup {h}
      <3>1. PICK i \in DOMAIN q : x = q[i]
        BY Zenon DEF Range
      <3>2. CASE i = 1
        BY <1>1, <3>1, <3>2
      <3>3. CASE i - 1 \in DOMAIN r /\ r[i - 1] = q[i]
        <4>1. r[i - 1] \in Range(r)
          BY <3>3, Zenon DEF Range
        <4> QED BY <3>1, <3>3, <4>1
      <3> QED BY <1>1, <3>2, <3>3
    <2>2. ASSUME NEW x \in Range(r) \cup {h} PROVE x \in Range(q)
      <3>1. CASE x = h
        BY <1>1, <3>1, Zenon DEF Range
      <3>2. CASE x \in Range(r)
        <4>1. PICK i \in DOMAIN r : x = r[i]
          BY <3>2, Zenon DEF Range
        <4>2. i + 1 \in DOMAIN q /\ x = q[i + 1]
          BY <1>1, <4>1
        <4> QED BY <4>2, Zenon DEF Range
      <3> QED BY <2>2, <3>1, <3>2
    <2> QED BY <2>1, <2>2
  <1>3. ASSUME NoTwice(q) PROVE NoTwice(r)
    <2> SUFFICES ASSUME NEW a \in DOMAIN r, NEW b \in DOMAIN r,
                        r[a].key = r[b].key, ~r[a].canceled, ~r[b].canceled
                 PROVE  a = b
      BY DEF NoTwice
    <2>1. a + 1 \in DOMAIN q /\ b + 1 \in DOMAIN q /\ a \in Int /\ b \in Int
      BY <1>1
    <2>2. r[a] = q[a + 1] /\ r[b] = q[b + 1]
      BY <1>1
    <2>3. a + 1 = b + 1
      BY <1>3, <2>1, <2>2 DEF NoTwice
    <2> QED BY <2>1, <2>3
  <1>4. ASSUME NoTwice(q), ~h.canceled, NEW x \in Live(r) PROVE x.key # h.key
    <2>1. PICK i \in DOMAIN r : x = r[i] /\ ~r[i].canceled
      BY Zenon DEF Live, Range
    <2>2. i + 1 \in DOMAIN q /\ q[i + 1] = x /\ i + 1 # 1
      BY <1>1, <2>1
    <2> QED BY <1>1, <1>4, <2>1, <2>2, Zenon DEF NoTwice
  <1> QED BY <1>1, <1>2, <1>3, <1>4 DEF r, h

(* What is left of a queue without the live job of k.                      *)
DroppedFrom(q, k) == RemoveFirstMatch(q, LAMBDA j : j.key = k /\ ~j.canceled)

(* The queue with the jobs of k marked as cancelled, and as no longer the  *)
(* owners of what it holds.                                                *)
MarkedIn(q, k) ==
    [i \in DOMAIN q |-> IF q[i].key = k THEN [q[i] EXCEPT !.canceled = TRUE] ELSE q[i]]
DisownedIn(q, k) ==
    [i \in DOMAIN q |-> IF q[i].key = k THEN [q[i] EXCEPT !.mine = FALSE] ELSE q[i]]

LiveBut(q, k) == {x \in Live(q) : x.key # k}

(* Without the live job of k.                                              *)
LEMMA LiveDropped ==
    ASSUME NEW q \in Seq(VmJobs), NoTwice(q), NEW k
    PROVE  /\ DroppedFrom(q, k) \in Seq(VmJobs) /\ NoTwice(DroppedFrom(q, k))
           /\ Range(DroppedFrom(q, k)) \subseteq Range(q)
           /\ Live(DroppedFrom(q, k)) = LiveBut(q, k)
  <1> DEFINE T(j) == j.key = k /\ ~j.canceled
             I == {i \in 1..Len(q) : T(q[i])}
             r == DroppedFrom(q, k)
  <1>0. DOMAIN q = 1..Len(q) /\ Len(q) \in Nat
    OBVIOUS
  <1>1. CASE I = {}
    <2>1. r = q
      <3>1. ~ \E i \in 1..Len(q) : q[i].key = k /\ ~q[i].canceled
        BY <1>1
      <3> QED BY <3>1, Zenon DEF DroppedFrom, RemoveFirstMatch
    <2>2. LiveBut(q, k) = Live(q)
      BY <1>0, <1>1 DEF LiveBut, Live, Range
    <2> QED BY <2>1, <2>2
  <1>2. CASE I # {}
    <2> DEFINE m == Min(I)
    <2>1. m \in I
      <3>1. I \in SUBSET (1..Len(q))
        OBVIOUS
      <3> HIDE DEF I
      <3> QED BY <1>0, <1>2, <3>1, LeastPlace
    <2>2. r = RemoveAt(q, m)
      <3>1. \E i \in 1..Len(q) : q[i].key = k /\ ~q[i].canceled
        BY <1>2
      <3> QED BY <1>2, <3>1, Zenon DEF DroppedFrom, RemoveFirstMatch, SelectInSeq
    <2> HIDE DEF m, r
    <2>3. m \in DOMAIN q /\ q[m].key = k /\ ~q[m].canceled /\ m \in 1..Len(q)
      BY <1>0, <2>1
    <2>4. /\ r \in Seq(VmJobs) /\ Len(r) = Len(q) - 1
          /\ \A j \in 1..(Len(q) - 1) : r[j] = IF j < m THEN q[j] ELSE q[j + 1]
      BY <2>2, <2>3, Removed
    <2> DEFINE f(j) == IF j < m THEN j ELSE j + 1
    <2>5. /\ \A j \in DOMAIN r : f(j) \in DOMAIN q /\ f(j) # m /\ r[j] = q[f(j)]
          /\ \A a, b \in DOMAIN r : f(a) = f(b) => a = b
      BY <1>0, <2>3, <2>4
    <2>6. \A i \in DOMAIN q : i # m => \E j \in DOMAIN r : f(j) = i
      <3> SUFFICES ASSUME NEW i \in DOMAIN q, i # m PROVE \E j \in DOMAIN r : f(j) = i
        OBVIOUS
      <3>1. CASE i < m
        <4>1. i \in DOMAIN r /\ f(i) = i
          BY <1>0, <2>3, <2>4, <3>1
        <4> QED BY <4>1
      <3>2. CASE ~(i < m)
        <4>1. i - 1 \in DOMAIN r /\ f(i - 1) = i
          BY <1>0, <2>3, <2>4, <3>2
        <4> QED BY <4>1
      <3> QED BY <3>1, <3>2
    <2> HIDE DEF f
    <2>7. Range(r) \subseteq Range(q)
      BY <2>5, Zenon DEF Range
    <2>8. NoTwice(r)
      BY <2>5, Zenon DEF NoTwice
    <2>9. ASSUME NEW x \in Live(r) PROVE x.key # k
      <3>1. PICK j \in DOMAIN r : x = r[j] /\ ~r[j].canceled
        BY Zenon DEF Live, Range
      <3> QED BY <2>3, <2>5, <3>1, Zenon DEF NoTwice
    <2>10. ASSUME NEW x \in Live(q), x.key # k PROVE x \in Range(r)
      <3>1. PICK i \in DOMAIN q : x = q[i]
        BY Zenon DEF Live, Range
      <3>2. PICK j \in DOMAIN r : f(j) = i
        BY <2>3, <2>6, <2>10, <3>1, Zenon
      <3> QED BY <2>5, <3>1, <3>2, Zenon DEF Range
    <2>11. Live(r) = LiveBut(q, k)
      BY <2>7, <2>9, <2>10 DEF Live, LiveBut
    <2> QED BY <2>4, <2>7, <2>8, <2>11 DEF r
  <1> QED BY <1>1, <1>2

(* With the jobs of k marked.                                              *)
LEMMA LiveMarked ==
    ASSUME NEW q \in Seq(VmJobs), NoTwice(q), NEW k
    PROVE  /\ MarkedIn(q, k) \in Seq(VmJobs) /\ NoTwice(MarkedIn(q, k))
           /\ Live(MarkedIn(q, k)) = LiveBut(q, k)
           /\ \A x \in Range(MarkedIn(q, k)) :
                 \/ x \in Range(q) /\ x.key # k
                 \/ \E y \in Range(q) : y.key = k /\ x = [y EXCEPT !.canceled = TRUE]
  <1> DEFINE r == MarkedIn(q, k)
  <1>0. DOMAIN q = 1..Len(q) /\ Len(q) \in Nat /\ \A i \in DOMAIN q : q[i] \in VmJobs
    OBVIOUS
  <1>1. /\ DOMAIN r = DOMAIN q
        /\ \A i \in DOMAIN q : /\ q[i].key = k => r[i] = [q[i] EXCEPT !.canceled = TRUE]
                               /\ q[i].key # k => r[i] = q[i]
    BY DEF MarkedIn
  <1> HIDE DEF r
  <1>2. \A i \in DOMAIN q : q[i].key = k => /\ r[i] \in VmJobs /\ r[i].canceled
                                            /\ r[i].key = k
    <2>1. \A j \in VmJobs : LET u == [j EXCEPT !.canceled = TRUE]
                            IN  u \in VmJobs /\ u.canceled /\ u.key = j.key
      BY DEF VmJobs
    <2> SUFFICES ASSUME NEW i \in DOMAIN q, q[i].key = k
                 PROVE  r[i] \in VmJobs /\ r[i].canceled /\ r[i].key = k
      OBVIOUS
    <2>2. q[i] \in VmJobs /\ r[i] = [q[i] EXCEPT !.canceled = TRUE]
      BY <1>0, <1>1
    <2> QED BY <2>1, <2>2, Zenon
  <1>3. r \in Seq(VmJobs)
    <2>1. \A i \in 1..Len(q) : r[i] \in VmJobs
      BY <1>0, <1>1, <1>2
    <2>2. r = [i \in 1..Len(q) |-> r[i]]
      BY <1>0 DEF r, MarkedIn
    <2> QED BY <1>0, <2>1, <2>2
  <1>4. NoTwice(r)
    BY <1>1, <1>2, Zenon DEF NoTwice
  <1>5. ASSUME NEW x \in Range(r)
        PROVE  \/ x \in Range(q) /\ x.key # k
               \/ \E y \in Range(q) : y.key = k /\ x = [y EXCEPT !.canceled = TRUE]
    <2>1. PICK i \in DOMAIN q : x = r[i] /\ q[i] \in Range(q)
      BY <1>1, Zenon DEF Range
    <2> QED BY <1>1, <2>1
  <1>6. ASSUME NEW x \in Live(r) PROVE x \in LiveBut(q, k)
    <2>1. PICK i \in DOMAIN q : x = r[i] /\ ~r[i].canceled
      BY <1>1, Zenon DEF Live, Range
    <2> QED BY <1>1, <1>2, <2>1, Zenon DEF LiveBut, Live, Range
  <1>7. ASSUME NEW x \in LiveBut(q, k) PROVE x \in Live(r)
    BY <1>1, Zenon DEF LiveBut, Live, Range
  <1>8. Live(r) = LiveBut(q, k)
    BY <1>6, <1>7
  <1> QED BY <1>3, <1>4, <1>5, <1>8 DEF r

(* With no job of k an owner.  There was no live one.                      *)
LEMMA LiveDisowned ==
    ASSUME NEW q \in Seq(VmJobs), NoTwice(q), NEW k, \A x \in Live(q) : x.key # k
    PROVE  /\ DisownedIn(q, k) \in Seq(VmJobs) /\ NoTwice(DisownedIn(q, k))
           /\ Live(DisownedIn(q, k)) = Live(q)
           /\ \A x \in Range(DisownedIn(q, k)) :
                 \/ x \in Range(q) /\ x.key # k
                 \/ \E y \in Range(q) : y.key = k /\ x = [y EXCEPT !.mine = FALSE]
  <1> DEFINE r == DisownedIn(q, k)
  <1>0. DOMAIN q = 1..Len(q) /\ Len(q) \in Nat /\ \A i \in DOMAIN q : q[i] \in VmJobs
    OBVIOUS
  <1>a. \A i \in DOMAIN q : q[i].key = k => q[i].canceled
    BY Zenon DEF Live, Range
  <1>1. /\ DOMAIN r = DOMAIN q
        /\ \A i \in DOMAIN q : /\ q[i].key = k => r[i] = [q[i] EXCEPT !.mine = FALSE]
                               /\ q[i].key # k => r[i] = q[i]
    BY DEF DisownedIn
  <1> HIDE DEF r
  <1>2. \A i \in DOMAIN q : q[i].key = k => /\ r[i] \in VmJobs /\ r[i].canceled
                                            /\ r[i].key = k
    <2>1. \A j \in VmJobs : LET u == [j EXCEPT !.mine = FALSE]
                            IN  u \in VmJobs /\ u.canceled = j.canceled /\ u.key = j.key
      BY DEF VmJobs
    <2> QED BY <1>0, <1>1, <1>a, <2>1, Zenon
  <1>3. r \in Seq(VmJobs)
    <2>1. \A i \in 1..Len(q) : r[i] \in VmJobs
      BY <1>0, <1>1, <1>2
    <2>2. r = [i \in 1..Len(q) |-> r[i]]
      BY <1>0 DEF r, DisownedIn
    <2> QED BY <1>0, <2>1, <2>2
  <1>4. NoTwice(r)
    BY <1>1, <1>2, Zenon DEF NoTwice
  <1>5. ASSUME NEW x \in Range(r)
        PROVE  \/ x \in Range(q) /\ x.key # k
               \/ \E y \in Range(q) : y.key = k /\ x = [y EXCEPT !.mine = FALSE]
    <2>1. PICK i \in DOMAIN q : x = r[i] /\ q[i] \in Range(q)
      BY <1>1, Zenon DEF Range
    <2> QED BY <1>1, <2>1
  <1>6. ASSUME NEW x \in Live(r) PROVE x \in Live(q)
    <2>1. PICK i \in DOMAIN q : x = r[i] /\ ~r[i].canceled
      BY <1>1, Zenon DEF Live, Range
    <2> QED BY <1>1, <1>2, <2>1, Zenon DEF Live, Range
  <1>7. ASSUME NEW x \in Live(q) PROVE x \in Live(r)
    <2>1. PICK i \in DOMAIN q : x = q[i] /\ ~q[i].canceled
      BY Zenon DEF Live, Range
    <2> QED BY <1>1, <1>a, <2>1, Zenon DEF Live, Range
  <1>8. Live(r) = Live(q)
    BY <1>6, <1>7
  <1> QED BY <1>3, <1>4, <1>5, <1>8 DEF r

-----------------------------------------------------------------------------
(* Most steps are about one key: what the invariant says of the others is  *)
(* not touched by them. *)

(* The states s and t differ in the key k only.                            *)
SameBut(s, t, k) ==
    /\ \A x \in VmKeys : x # k => t.val[x] = s.val[x]
    /\ \A j \in Alive(s) : j.key # k => j \in Alive(t)
    /\ \A j \in Alive(t) : j.key # k => j \in Alive(s)

(* The key k is as it should be in t when it should hold d.                *)
KeyPart(t, k, d, f) ==
    /\ KeyOk(t.val[k], k, d, f)
    /\ \A j \in Alive(t) : j.key = k => JobOk(j, t.val[k], d, f)
    /\ OnItsWay(t.val[k]) => \E j \in Alive(t) : j.key = k

LeftPart(s, t, k) ==
    \A j \in Range(t.processed) :
        j.canceled /\ j.mine /\ j.type # "load" =>
            IF j.key = k THEN t.val[k].storage # "swapping" ELSE j \in Range(s.processed)

PagePart(s, t, k) ==
    /\ \A p \in Int : p \in t.used <=> \/ p \in s.used /\ p \notin Own(s, k)
                                       \/ p \in Own(t, k)
    /\ \A p \in Own(t, k) : p \in Own(s, k) \/ p \notin s.used

(* The pages of the other keys are the same.                               *)
LEMMA OwnSame ==
    ASSUME NEW s, NEW t, NEW k, SameBut(s, t, k), NEW l \in VmKeys, l # k
    PROVE  Own(t, l) = Own(s, l)
  <1>1. t.val[l] = s.val[l] /\ Writes(t, l) = Writes(s, l)
    BY DEF SameBut, Writes
  <1> QED BY <1>1, Zenon DEF Own

(* The pages stay accounted for when those of one key change.              *)
LEMMA OneKeyPages ==
    ASSUME NEW s, PagesOk(s), NEW t, NEW k \in VmKeys, SameBut(s, t, k), PagePart(s, t, k)
    PROVE  PagesOk(t)
  <1>1. \A l \in VmKeys : l # k => Own(t, l) = Own(s, l)
    BY OwnSame
  <1>2. \A l \in VmKeys : Own(s, l) \subseteq Int /\ Own(t, l) \subseteq Int
    BY DEF Own
  <1>3. /\ \A p \in Int : p \in s.used <=> \E l \in VmKeys : p \in Own(s, l)
        /\ \A l, m \in VmKeys : l # m => Own(s, l) \cap Own(s, m) = {}
    BY DEF PagesOk
  <1>4. /\ \A p \in Int : p \in t.used <=> \/ p \in s.used /\ p \notin Own(s, k)
                                           \/ p \in Own(t, k)
        /\ \A p \in Own(t, k) : p \in Own(s, k) \/ p \notin s.used
    BY DEF PagePart
  <1>5. ASSUME NEW l \in VmKeys, l # k PROVE Own(t, l) \cap Own(t, k) = {}
    BY <1>1, <1>2, <1>3, <1>4, <1>5
  <1>6. \A l, m \in VmKeys : l # m => Own(t, l) \cap Own(t, m) = {}
    BY <1>1, <1>3, <1>5
  <1>7. ASSUME NEW p \in Int, p \in t.used PROVE \E l \in VmKeys : p \in Own(t, l)
    <2>1. CASE p \in Own(t, k)
      BY <2>1
    <2>2. CASE p \in s.used /\ p \notin Own(s, k)
      <3>1. PICK l \in VmKeys : p \in Own(s, l)
        BY <1>3, <2>2
      <3>2. l # k
        BY <2>2, <3>1
      <3> QED BY <1>1, <3>1, <3>2
    <2> QED BY <1>4, <1>7, <2>1, <2>2
  <1>8. ASSUME NEW p \in Int, NEW l \in VmKeys, p \in Own(t, l) PROVE p \in t.used
    <2>1. CASE l = k
      BY <1>4, <1>8, <2>1
    <2>2. CASE l # k
      <3>1. p \in Own(s, l) /\ p \in s.used
        BY <1>1, <1>3, <1>8, <2>2
      <3>2. p \notin Own(s, k)
        BY <1>3, <2>2, <3>1
      <3> QED BY <1>4, <3>1, <3>2
    <2> QED BY <2>1, <2>2
  <1> QED BY <1>6, <1>7, <1>8 DEF PagesOk

(* The key of a live job.                                                  *)
LEMMA AliveType ==
    ASSUME NEW s \in VmStates
    PROVE  /\ \A j \in Alive(s) : j \in VmJobs /\ j.key \in VmKeys
           /\ \A j \in Range(s.processed) : j \in VmJobs /\ j.key \in VmKeys
  <1>1. s.newjobs \in Seq(VmJobs) /\ s.processing \in SUBSET VmJobs /\ s.processed \in Seq(VmJobs)
    BY DEF VmStates
  <1>2. \A q \in Seq(VmJobs) : Range(q) \subseteq VmJobs
    BY DEF Range
  <1>3. \A j \in VmJobs : j.key \in VmKeys
    BY DEF VmJobs
  <1>4. Range(s.newjobs) \subseteq VmJobs /\ Range(s.processed) \subseteq VmJobs
    BY <1>1, <1>2
  <1> QED BY <1>1, <1>3, <1>4 DEF Alive, Live

(* The invariant when one key has changed.                                 *)
LEMMA OneKey ==
    ASSUME NEW s, NEW D, NEW f, Core(s, D, f), NEW t \in VmStates, NEW k \in VmKeys,
           NEW d \in Nat, Queues(t), SameBut(s, t, k), KeyPart(t, k, d, f),
           LeftPart(s, t, k), PagePart(s, t, k)
    PROVE  Core(t, [D EXCEPT ![k] = d], f)
  <1> DEFINE E == [D EXCEPT ![k] = d]
  <1>1. /\ s \in VmStates /\ D \in [VmKeys -> Nat]
        /\ \A x \in VmKeys : KeyOk(s.val[x], x, D[x], f)
        /\ \A j \in Alive(s) : JobOk(j, s.val[j.key], D[j.key], f)
        /\ \A x \in VmKeys : OnItsWay(s.val[x]) => \E j \in Alive(s) : j.key = x
        /\ LeftAlone(s) /\ PagesOk(s)
    BY DEF Core
  <1>2. E \in [VmKeys -> Nat] /\ E[k] = d /\ \A x \in VmKeys : x # k => E[x] = D[x]
    BY <1>1
  <1> HIDE DEF E
  <1>3. \A x \in VmKeys : KeyOk(t.val[x], x, E[x], f)
    BY <1>1, <1>2, Zenon DEF SameBut, KeyPart
  <1>4. ASSUME NEW j \in Alive(t) PROVE JobOk(j, t.val[j.key], E[j.key], f)
    <2>1. j.key \in VmKeys
      BY AliveType
    <2>2. CASE j.key = k
      BY <1>2, <2>2, Zenon DEF KeyPart
    <2>3. CASE j.key # k
      BY <1>1, <1>2, <2>1, <2>3, Zenon DEF SameBut
    <2> QED BY <2>2, <2>3
  <1>5. ASSUME NEW x \in VmKeys, OnItsWay(t.val[x]) PROVE \E j \in Alive(t) : j.key = x
    <2>2. CASE x = k
      BY <1>5, <2>2, Zenon DEF KeyPart
    <2>3. CASE x # k
      BY <1>1, <1>5, <2>3, Zenon DEF SameBut
    <2> QED BY <2>2, <2>3
  <1>6. LeftAlone(t)
    <2> SUFFICES ASSUME NEW j \in Range(t.processed), j.canceled, j.mine, j.type # "load"
                 PROVE  t.val[j.key].storage # "swapping"
      BY DEF LeftAlone
    <2>1. CASE j.key = k
      BY <2>1 DEF LeftPart
    <2>2. CASE j.key # k
      <3>1. j \in Range(s.processed) /\ j.key \in VmKeys
        BY <2>2, AliveType DEF LeftPart
      <3>2. s.val[j.key].storage # "swapping"
        BY <1>1, <3>1 DEF LeftAlone
      <3> QED BY <2>2, <3>1, <3>2 DEF SameBut
    <2> QED BY <2>1, <2>2
  <1>7. PagesOk(t)
    BY <1>1, OneKeyPages
  <1> QED BY <1>2, <1>3, <1>4, <1>5, <1>6, <1>7, Zenon DEF Core, E

(* The parts of a state the invariant of jobs and pages is about.          *)
SameCore(s, t) ==
    /\ t.val = s.val /\ t.newjobs = s.newjobs /\ t.processing = s.processing
    /\ t.processed = s.processed /\ t.used = s.used

(* Core does not look at the clients and the threads.                      *)
LEMMA Framed ==
    ASSUME NEW s, NEW D, NEW f, Core(s, D, f), NEW t \in VmStates, SameCore(s, t)
    PROVE  Core(t, D, f)
  <1>1. Alive(t) = Alive(s)
    BY DEF SameCore, Alive
  <1>2. Queues(t) /\ LeftAlone(t)
    BY <1>1, Zenon DEF Core, SameCore, Queues, LeftAlone
  <1>3. \A k \in VmKeys : Own(t, k) = Own(s, k)
    BY <1>1, Zenon DEF SameCore, Own, Writes
  <1>4. PagesOk(t)
    BY <1>3, Zenon DEF Core, SameCore, PagesOk
  <1> QED BY <1>1, <1>2, <1>4, Zenon DEF Core, SameCore

(* The data of a key that holds what it should.                            *)
LEMMA SameData ==
    ASSUME NEW D \in [VmKeys -> Nat], NEW k \in VmKeys
    PROVE  [D EXCEPT ![k] = D[k]] = D /\ D[k] \in Nat
  OBVIOUS

-----------------------------------------------------------------------------
(* The steps of the main thread on the value of one key. *)

SameWait(s, t) == t.waiters = s.waiters /\ t.io_keys = s.io_keys /\ t.ready = s.ready

(* No thread is at work on a key of K.                                     *)
NoWorker(s, K) == \A j \in s.processing : j.key \notin K

(* k has no live job.                                                      *)
FreeOf(s, k) == \A j \in Alive(s) : j.key # k

(* Nothing but loading is queued or under way if it was so before.         *)
Loads(s, t) == OnlyLoads(s) => OnlyLoads(t)

(* The other keys, the threads and the clients see nothing.                *)
Aside(s, t, k) ==
    /\ \A x \in VmKeys : x # k => t.val[x] = s.val[x]
    /\ t.processing = s.processing /\ SameWait(s, t)

(* The fields of a state.                                                  *)
LEMMA Fields ==
    ASSUME NEW s \in VmStates
    PROVE  /\ s.val \in [VmKeys -> VmVals] /\ s.newjobs \in Seq(VmJobs)
           /\ s.processing \in SUBSET VmJobs /\ s.processed \in Seq(VmJobs)
           /\ s.threads \in Int /\ s.used \in SUBSET Int
           /\ s.waiters \in [VmKeys -> Seq(VmClients)]
           /\ s.io_keys \in [VmClients -> Seq(VmKeys)] /\ s.ready \in Seq(VmClients)
  BY DEF VmStates

(* What the search of vmCancelThreadedIOJob() finds is the live job.       *)
LEMMA JobOfIs ==
    ASSUME NEW s, Queues(s), NEW k
    PROVE  JobOf(s, k) = {j \in Alive(s) : j.key = k}
  BY DEF JobOf, Jobs, Queues, Alive, Live

(* vmCancelThreadedIOJob(), field by field.                                *)
LEMMA CancelIs ==
    ASSUME NEW s \in VmStates, NEW k \in VmKeys, NEW t, t = vmCancelThreadedIOJob(s, k),
           DroppedFrom(s.newjobs, k) \in Seq(VmJobs), MarkedIn(s.processed, k) \in Seq(VmJobs)
    PROVE  /\ t \in VmStates
           /\ t.newjobs = DroppedFrom(s.newjobs, k) /\ t.processed = MarkedIn(s.processed, k)
           /\ t.used = s.used \ UNION {Cluster(k, j.page) : j \in {x \in JobOf(s, k) : x.type = "do"}}
           /\ t.val[k] = [s.val[k] EXCEPT !.storage = IF @ = "loading" THEN "swapped" ELSE "memory"]
           /\ Aside(s, t, k)
  <1> DEFINE N == DroppedFrom(s.newjobs, k)
             P == MarkedIn(s.processed, k)
             U == s.used \ UNION {Cluster(k, j.page) : j \in {x \in JobOf(s, k) : x.type = "do"}}
             v == [s.val[k] EXCEPT !.storage = IF @ = "loading" THEN "swapped" ELSE "memory"]
             V == [s.val EXCEPT ![k] = v]
  <1>1. t = [s EXCEPT !.newjobs = N, !.processed = P, !.used = U, !.val = V]
    <2>1. s.val \in [VmKeys -> VmVals] /\ DOMAIN s.val = VmKeys
      BY DEF VmStates
    <2>2. [s.val EXCEPT ![k].storage = IF @ = "loading" THEN "swapped" ELSE "memory"] = V
      BY <2>1
    <2>3. t = [s EXCEPT !.newjobs = N, !.processed = P, !.used = U,
                        !.val[k].storage = IF @ = "loading" THEN "swapped" ELSE "memory"]
      BY Zenon DEF vmCancelThreadedIOJob, DroppedFrom, MarkedIn
    <2> HIDE DEF N, P, U, V
    <2> QED BY <2>2, <2>3
  <1>2. v \in VmVals /\ U \in SUBSET Int
    BY DEF VmStates, VmVals
  <1>3. V \in [VmKeys -> VmVals] /\ V[k] = v /\ \A x \in VmKeys : x # k => V[x] = s.val[x]
    BY <1>2 DEF VmStates
  <1> HIDE DEF U, V, v
  <1>4. t \in VmStates
    BY <1>1, <1>2, <1>3 DEF VmStates
  <1>5. /\ t.newjobs = N /\ t.processed = P /\ t.used = U /\ t.val = V
        /\ t.processing = s.processing /\ SameWait(s, t)
    BY <1>1 DEF VmStates, SameWait
  <1> QED BY <1>3, <1>4, <1>5 DEF Aside, U, v

(* What the invariant says of one key.                                     *)
LEMMA KeyFacts ==
    ASSUME NEW s, NEW D, NEW f, Core(s, D, f), NEW k \in VmKeys
    PROVE  /\ s \in VmStates /\ D \in [VmKeys -> Nat] /\ D[k] \in Nat
           /\ s.val[k] \in VmVals /\ Queues(s) /\ LeftAlone(s) /\ PagesOk(s)
           /\ KeyPart(s, k, D[k], f)
  <1>1. /\ s \in VmStates /\ D \in [VmKeys -> Nat] /\ D[k] \in Nat
        /\ Queues(s) /\ LeftAlone(s) /\ PagesOk(s)
    BY DEF Core
  <1>2. s.val[k] \in VmVals
    BY <1>1, Fields
  <1>3. KeyPart(s, k, D[k], f)
    BY Zenon DEF Core, KeyPart
  <1> QED BY <1>1, <1>2, <1>3

(* The pages of a cluster are numbers.                                     *)
LEMMA ClusterInt ==
    ASSUME NEW k \in VmKeys, NEW p \in Int
    PROVE  /\ Cluster(k, p) \subseteq Int /\ p \in Cluster(k, p)
           /\ \A x \in Cluster(k, p) : x \in Int
  <1>1. VmPagesOf[k] \in Nat \ {0}
    BY VmAssumption
  <1> QED BY <1>1 DEF Cluster

(* The pages of a key that writes none.                                    *)
LEMMA OwnNoWrites ==
    ASSUME NEW s, NEW k \in VmKeys, Writes(s, k) = {}, s.val[k] \in VmVals
    PROVE  Own(s, k) = IF s.val[k].page = -1 THEN {} ELSE Cluster(k, s.val[k].page)
  <1>1. s.val[k].page \in Int
    BY DEF VmVals
  <1>2. Cluster(k, s.val[k].page) \subseteq Int
    BY <1>1, ClusterInt
  <1> QED BY <1>2 DEF Own

(* A key with no live job has no page to be written.                       *)
LEMMA FreeWrites == ASSUME NEW s, NEW k, FreeOf(s, k) PROVE Writes(s, k) = {}
  BY DEF FreeOf, Writes

(* vmCancelThreadedIOJob() of a job that no thread has.                    *)
LEMMA Canceled ==
    ASSUME NEW s, NEW D, NEW f, Core(s, D, f), NEW k \in VmKeys, OnItsWay(s.val[k]),
           NoWorker(s, {k}), NEW t, t = vmCancelThreadedIOJob(s, k)
    PROVE  /\ Core(t, D, f) /\ FreeOf(t, k) /\ Aside(s, t, k) /\ Loads(s, t)
           /\ t.val[k] = [s.val[k] EXCEPT !.storage = IF @ = "loading" THEN "swapped" ELSE "memory"]
  <1>1. /\ s \in VmStates /\ D \in [VmKeys -> Nat] /\ D[k] \in Nat /\ s.val[k] \in VmVals
        /\ Queues(s) /\ LeftAlone(s) /\ PagesOk(s) /\ KeyPart(s, k, D[k], f)
    BY KeyFacts
  <1>2. s.newjobs \in Seq(VmJobs) /\ s.processed \in Seq(VmJobs)
    BY <1>1, Fields
  <1>3. NoTwice(s.newjobs) /\ NoTwice(s.processed)
    BY <1>1 DEF Queues
  <1> DEFINE N == DroppedFrom(s.newjobs, k)
             P == MarkedIn(s.processed, k)
  <1>4. /\ N \in Seq(VmJobs) /\ NoTwice(N) /\ Range(N) \subseteq Range(s.newjobs)
        /\ Live(N) = LiveBut(s.newjobs, k)
    BY <1>2, <1>3, LiveDropped
  <1>5. /\ P \in Seq(VmJobs) /\ NoTwice(P) /\ Live(P) = LiveBut(s.processed, k)
        /\ \A x \in Range(P) :
                 \/ x \in Range(s.processed) /\ x.key # k
                 \/ \E y \in Range(s.processed) : y.key = k /\ x = [y EXCEPT !.canceled = TRUE]
    BY <1>2, <1>3, LiveMarked
  <1>6. /\ t \in VmStates /\ t.newjobs = N /\ t.processed = P
        /\ t.used = s.used \ UNION {Cluster(k, j.page) : j \in {x \in JobOf(s, k) : x.type = "do"}}
        /\ t.val[k] = [s.val[k] EXCEPT !.storage = IF @ = "loading" THEN "swapped" ELSE "memory"]
        /\ Aside(s, t, k)
    BY <1>1, <1>4, <1>5, CancelIs
  <1> HIDE DEF N, P
  <1>7. Alive(t) = {x \in Alive(s) : x.key # k}
    <2>1. t.processing = s.processing /\ \A j \in s.processing : j.key # k
      BY <1>6 DEF Aside, NoWorker
    <2> QED BY <1>4, <1>5, <1>6, <2>1 DEF Alive, LiveBut
  <1>8. FreeOf(t, k) /\ SameBut(s, t, k)
    BY <1>6, <1>7 DEF FreeOf, SameBut, Aside
  <1>9. Queues(t)
    <2>1. \A x \in Range(P) : x.step = "done"
      <3>1. \A y \in Range(s.processed) : /\ y \in VmJobs /\ y.step = "done"
                                          /\ [y EXCEPT !.canceled = TRUE].step = y.step
        <4>1. \A y \in VmJobs : [y EXCEPT !.canceled = TRUE].step = y.step
          BY DEF VmJobs
        <4> QED BY <1>1, <4>1, AliveType DEF Queues
      <3> SUFFICES ASSUME NEW x \in Range(P) PROVE x.step = "done"
        OBVIOUS
      <3>2. CASE x \in Range(s.processed)
        BY <3>1, <3>2
      <3>3. CASE \E y \in Range(s.processed) : y.key = k /\ x = [y EXCEPT !.canceled = TRUE]
        <4>1. PICK y \in Range(s.processed) : x = [y EXCEPT !.canceled = TRUE]
          BY <3>3
        <4>2. x.step = y.step
          BY <3>1, <4>1, Zenon
        <4> QED BY <3>1, <4>2
      <3> QED BY <1>5, <3>2, <3>3
    <2>2. t.processing = s.processing
      BY <1>6 DEF Aside
    <2>3. /\ \A j \in Range(N) : ~j.canceled /\ j.step = "queued"
          /\ \A j \in t.processing : ~j.canceled /\ j.step # "queued"
      BY <1>1, <1>4, <2>2 DEF Queues
    <2>4. \A a, b \in Alive(t) : a.key = b.key => a = b
      BY <1>1, <1>7 DEF Queues
    <2>5. t.processing \cap Live(P) = {}
      BY <1>1, <1>5, <2>2 DEF Queues, LiveBut
    <2> QED BY <1>4, <1>5, <1>6, <2>1, <2>3, <2>4, <2>5 DEF Queues
  <1>10. /\ t.val[k].page = s.val[k].page /\ t.val[k].data = s.val[k].data
         /\ t.val[k].storage = IF s.val[k].storage = "loading" THEN "swapped" ELSE "memory"
    BY <1>1, <1>6 DEF VmVals
  <1>11. KeyPart(t, k, D[k], f)
    <2>1. KeyOk(t.val[k], k, D[k], f)
      BY <1>1, <1>10 DEF KeyPart, KeyOk, OnItsWay
    <2>2. ~OnItsWay(t.val[k])
      BY <1>10 DEF OnItsWay
    <2> QED BY <1>8, <2>1, <2>2 DEF KeyPart, FreeOf
  <1>12. LeftPart(s, t, k)
    <2>1. t.val[k].storage # "swapping"
      BY <1>10
    <2>2. \A x \in Range(P) : x.key # k => x \in Range(s.processed)
      <3>1. \A y \in Range(s.processed) : [y EXCEPT !.canceled = TRUE].key = y.key
        <4>1. \A y \in VmJobs : [y EXCEPT !.canceled = TRUE].key = y.key
          BY DEF VmJobs
        <4> QED BY <1>1, <4>1, AliveType
      <3> QED BY <1>5, <3>1
    <2> QED BY <1>6, <2>1, <2>2 DEF LeftPart
  <1>13. t.val[k] \in VmVals
    BY <1>6, Fields
  <1>14. Own(t, k) = IF s.val[k].page = -1 THEN {} ELSE Cluster(k, s.val[k].page)
    BY <1>8, <1>10, <1>13, FreeWrites, OwnNoWrites
  <1>15. {x \in JobOf(s, k) : x.type = "do"} = Writes(s, k)
    BY <1>1, JobOfIs DEF Writes
  <1>16. PagePart(s, t, k)
    <2>1. CASE s.val[k].storage = "loading"
      <3>1. Writes(s, k) = {}
        BY <1>1, <2>1 DEF Writes, KeyPart, JobOk
      <3>2. Own(t, k) = Own(s, k) /\ t.used = s.used
        BY <1>1, <1>6, <1>14, <1>15, <3>1, OwnNoWrites
      <3>3. \A p \in Int : p \in Own(s, k) => p \in s.used
        BY <1>1 DEF PagesOk
      <3> QED BY <3>2, <3>3 DEF PagePart
    <2>2. CASE s.val[k].storage = "swapping"
      <3>1. s.val[k].page = -1
        BY <1>1, <2>2 DEF KeyPart, KeyOk
      <3>2. Own(t, k) = {}
        BY <1>14, <3>1
      <3>3. Own(s, k) = UNION {Cluster(k, j.page) : j \in Writes(s, k)}
        <4>1. \A j \in Writes(s, k) : Cluster(k, j.page) \subseteq Int
          <5>1. \A j \in Writes(s, k) : j.page \in Int
            BY <1>1, AliveType DEF Writes, VmJobs
          <5> QED BY <5>1, ClusterInt
        <4> QED BY <3>1, <4>1 DEF Own
      <3>4. t.used = s.used \ Own(s, k)
        BY <1>6, <1>15, <3>3
      <3> QED BY <3>2, <3>4 DEF PagePart
    <2> QED BY <2>1, <2>2 DEF OnItsWay
  <1>17. Core(t, [D EXCEPT ![k] = D[k]], f)
    BY <1>1, <1>6, <1>8, <1>9, <1>11, <1>12, <1>16, OneKey
  <1>18. Core(t, D, f)
    BY <1>1, <1>17, SameData
  <1>19. Loads(s, t)
    BY <1>4, <1>6 DEF Loads, OnlyLoads, Aside
  <1> QED BY <1>6, <1>8, <1>18, <1>19

(* A value that is not on its way has no live job.                         *)
LEMMA NotOnItsWay ==
    ASSUME NEW s, NEW D, NEW f, Core(s, D, f), NEW k \in VmKeys, ~OnItsWay(s.val[k])
    PROVE  FreeOf(s, k)
  <1>1. KeyPart(s, k, D[k], f)
    BY KeyFacts
  <1> QED BY <1>1 DEF KeyPart, JobOk, OnItsWay, FreeOf

(* k is given the value v, which is in memory or none, and its pages are   *)
(* free.                                                                   *)
Replaces(s, t, k, v) ==
    /\ t.val[k] = v /\ Aside(s, t, k) /\ t.newjobs = s.newjobs
    /\ t.processed = s.processed \/ t.processed = DisownedIn(s.processed, k)
    /\ t.used = s.used \ Own(s, k)

(* A key without a job gets another value, or none.                        *)
LEMMA Replaced ==
    ASSUME NEW s, NEW D, NEW f, Core(s, D, f), NEW k \in VmKeys, FreeOf(s, k),
           NEW t \in VmStates, NEW v, Replaces(s, t, k, v), NEW d \in Nat,
           KeyOk(v, k, d, f), v.storage \in {"none", "memory"}
    PROVE  Core(t, [D EXCEPT ![k] = d], f) /\ FreeOf(t, k) /\ Loads(s, t)
  <1>1. /\ s \in VmStates /\ D \in [VmKeys -> Nat]
        /\ Queues(s) /\ LeftAlone(s) /\ PagesOk(s)
    BY KeyFacts
  <1>2. /\ t.val[k] = v /\ t.newjobs = s.newjobs /\ t.processing = s.processing
        /\ t.processed = s.processed \/ t.processed = DisownedIn(s.processed, k)
        /\ t.used = s.used \ Own(s, k) /\ \A x \in VmKeys : x # k => t.val[x] = s.val[x]
    BY DEF Replaces, Aside
  <1>3. s.processed \in Seq(VmJobs) /\ NoTwice(s.processed) /\ \A x \in Live(s.processed) : x.key # k
    BY <1>1, Fields DEF Queues, FreeOf, Alive
  <1> DEFINE Q == DisownedIn(s.processed, k)
  <1>4. /\ Q \in Seq(VmJobs) /\ NoTwice(Q) /\ Live(Q) = Live(s.processed)
        /\ \A x \in Range(Q) :
                 \/ x \in Range(s.processed) /\ x.key # k
                 \/ \E y \in Range(s.processed) : y.key = k /\ x = [y EXCEPT !.mine = FALSE]
    BY <1>3, LiveDisowned
  <1> HIDE DEF Q
  <1>5. \A y \in Range(s.processed) :
            y.step = "done" /\ LET u == [y EXCEPT !.mine = FALSE] IN u.step = y.step /\ u.key = y.key
    <2>1. \A y \in VmJobs : LET u == [y EXCEPT !.mine = FALSE] IN u.step = y.step /\ u.key = y.key
      BY DEF VmJobs
    <2> QED BY <1>1, <2>1, AliveType DEF Queues
  <1>6. ASSUME NEW x \in Range(Q) PROVE x.step = "done" /\ (x.key # k => x \in Range(s.processed))
    <2>2. CASE x \in Range(s.processed)
      BY <1>5, <2>2
    <2>3. CASE \E y \in Range(s.processed) : y.key = k /\ x = [y EXCEPT !.mine = FALSE]
      <3>1. PICK y \in Range(s.processed) : y.key = k /\ x = [y EXCEPT !.mine = FALSE]
        BY <2>3
      <3>2. x.step = y.step /\ x.key = y.key
        BY <1>5, <3>1, Zenon
      <3> QED BY <1>5, <3>1, <3>2
    <2> QED BY <1>4, <2>2, <2>3
  <1>7. /\ NoTwice(t.processed) /\ Live(t.processed) = Live(s.processed)
        /\ \A x \in Range(t.processed) : x.step = "done" /\ (x.key # k => x \in Range(s.processed))
    BY <1>2, <1>3, <1>4, <1>5, <1>6 DEF Q
  <1>8. Alive(t) = Alive(s)
    BY <1>2, <1>7 DEF Alive
  <1>9. Queues(t)
    BY <1>1, <1>2, <1>7, <1>8 DEF Queues
  <1>10. SameBut(s, t, k)
    BY <1>2, <1>8 DEF SameBut
  <1>11. FreeOf(t, k)
    BY <1>8 DEF FreeOf
  <1>12. KeyPart(t, k, d, f)
    BY <1>2, <1>11 DEF KeyPart, FreeOf, OnItsWay
  <1>13. LeftPart(s, t, k)
    BY <1>2, <1>7 DEF LeftPart
  <1>14. PagePart(s, t, k)
    <2>1. v.page = -1
      BY DEF KeyOk
    <2>2. t.val[k] \in VmVals
      BY Fields
    <2>3. Own(t, k) = {}
      BY <1>2, <1>11, <2>1, <2>2, FreeWrites, OwnNoWrites
    <2> QED BY <1>2, <2>3 DEF PagePart
  <1>15. Loads(s, t)
    BY <1>2 DEF Loads, OnlyLoads
  <1> QED BY <1>1, <1>9, <1>10, <1>11, <1>12, <1>13, <1>14, <1>15, OneKey

(* The pages of k, when it has no live job.                                *)
LEMMA FreePages ==
    ASSUME NEW s, NEW D, NEW f, Core(s, D, f), NEW k \in VmKeys, FreeOf(s, k)
    PROVE  Own(s, k) = IF s.val[k].page = -1 THEN {} ELSE Cluster(k, s.val[k].page)
  BY KeyFacts, FreeWrites, OwnNoWrites

(* Another value for k, and other pages.                                   *)
IsWithVal(s, t, k, v, U) == t = [s EXCEPT !.val = [s.val EXCEPT ![k] = v], !.used = U]

(* What such a state is like.                                              *)
LEMMA WithVal ==
    ASSUME NEW s \in VmStates, NEW k \in VmKeys, NEW v \in VmVals, NEW U \in SUBSET Int,
           NEW t, IsWithVal(s, t, k, v, U)
    PROVE  /\ t \in VmStates /\ t.val[k] = v /\ t.newjobs = s.newjobs
           /\ t.processed = s.processed /\ t.used = U /\ Aside(s, t, k)
  <1> DEFINE V == [s.val EXCEPT ![k] = v]
  <1>1. V \in [VmKeys -> VmVals] /\ V[k] = v /\ \A x \in VmKeys : x # k => V[x] = s.val[x]
    BY DEF VmStates
  <1>2. t = [s EXCEPT !.val = V, !.used = U]
    BY DEF IsWithVal
  <1> HIDE DEF V
  <1>3. /\ t \in VmStates /\ t.val = V /\ t.newjobs = s.newjobs /\ t.processed = s.processed
        /\ t.used = U /\ t.processing = s.processing /\ SameWait(s, t)
    BY <1>1, <1>2 DEF VmStates, SameWait
  <1> QED BY <1>1, <1>3 DEF Aside

(* vmLoadObject(): the value comes from the file.                          *)
FromFile(s, k, page) ==
    [s EXCEPT !.val[k] = InMemory(swapfile[page][2]), !.used = @ \ Cluster(k, page)]

(* vmLoadObject(): the value read is the one the key should hold.          *)
LEMMA Loaded ==
    ASSUME NEW s, NEW D, Core(s, D, swapfile), NEW k \in VmKeys, FreeOf(s, k),
           s.val[k].storage = "swapped", NEW t, t = FromFile(s, k, s.val[k].page)
    PROVE  /\ Core(t, D, swapfile) /\ FreeOf(t, k) /\ Aside(s, t, k) /\ Loads(s, t)
           /\ t.val[k] = InMemory(D[k])
  <1>1. /\ s \in VmStates /\ D \in [VmKeys -> Nat] /\ D[k] \in Nat /\ s.val[k] \in VmVals
        /\ KeyPart(s, k, D[k], swapfile)
    BY KeyFacts
  <1> DEFINE p == s.val[k].page
  <1>2. /\ D[k] # 0 /\ InFile(k, p) /\ Written(swapfile, k, p, D[k])
    BY <1>1 DEF KeyPart, KeyOk
  <1>3. p \in Int /\ p \in Cluster(k, p)
    <2>1. p \in Int
      BY <1>2 DEF InFile
    <2> QED BY <2>1, ClusterInt
  <1>4. swapfile[p][2] = D[k]
    <2>1. swapfile[p] = <<k, D[k]>>
      BY <1>2, <1>3 DEF Written
    <2> QED BY <2>1
  <1>5. InMemory(D[k]) \in VmVals /\ KeyOk(InMemory(D[k]), k, D[k], swapfile)
    BY <1>1, <1>2 DEF InMemory, VmVals, KeyOk
  <1>6. Own(s, k) = Cluster(k, p)
    <2>1. p # -1
      BY <1>2 DEF InFile
    <2> QED BY <2>1, FreePages
  <1>7. t = [s EXCEPT !.val[k] = InMemory(D[k]), !.used = @ \ Cluster(k, p)]
    BY <1>4 DEF FromFile
  <1> HIDE DEF p
  <1>8. /\ t \in VmStates /\ t.val[k] = InMemory(D[k]) /\ t.newjobs = s.newjobs
        /\ t.processed = s.processed /\ t.used = s.used \ Cluster(k, p) /\ Aside(s, t, k)
    <2> DEFINE v == InMemory(D[k])
               U == s.used \ Cluster(k, p)
    <2>1. v \in VmVals /\ U \in SUBSET Int
      BY <1>1, <1>5, Fields
    <2>2. IsWithVal(s, t, k, v, U)
      BY <1>7 DEF IsWithVal
    <2> HIDE DEF v, U
    <2>3. /\ t \in VmStates /\ t.val[k] = v /\ t.newjobs = s.newjobs
          /\ t.processed = s.processed /\ t.used = U /\ Aside(s, t, k)
      BY <1>1, <2>1, <2>2, WithVal
    <2> QED BY <2>3 DEF v, U
  <1>9. Replaces(s, t, k, InMemory(D[k]))
    BY <1>6, <1>8 DEF Replaces
  <1>10. InMemory(D[k]).storage = "memory"
    BY DEF InMemory
  <1>11. Core(t, [D EXCEPT ![k] = D[k]], swapfile) /\ FreeOf(t, k) /\ Loads(s, t)
    <2> DEFINE v == InMemory(D[k])
    <2> HIDE DEF v
    <2>1. /\ Replaces(s, t, k, v) /\ KeyOk(v, k, D[k], swapfile) /\ v.storage \in {"none", "memory"}
      BY <1>5, <1>9, <1>10 DEF v
    <2> QED BY <1>1, <1>8, <2>1, Replaced
  <1> QED BY <1>1, <1>8, <1>11, SameData

(* decrRefCount() of the value of a key that goes away.                    *)
LEMMA DroppedValue ==
    ASSUME NEW s, NEW D, NEW f, Core(s, D, f), NEW k \in VmKeys, NoWorker(s, {k}),
           NEW t, t = dropValue(s, k)
    PROVE  /\ Core(t, [D EXCEPT ![k] = 0], f) /\ FreeOf(t, k) /\ Aside(s, t, k) /\ Loads(s, t)
           /\ t.val[k] = NoVal
  <1>1. PICK u : /\ Core(u, D, f) /\ FreeOf(u, k) /\ Aside(s, u, k) /\ Loads(s, u)
                 /\ u.val[k].page = s.val[k].page
                 /\ u = IF s.val[k].storage \in {"loading", "swapping"}
                        THEN vmCancelThreadedIOJob(s, k) ELSE s
    <2>1. s.val[k] \in VmVals
      BY KeyFacts
    <2>2. CASE OnItsWay(s.val[k])
      <3> DEFINE u == vmCancelThreadedIOJob(s, k)
      <3>1. /\ Core(u, D, f) /\ FreeOf(u, k) /\ Aside(s, u, k) /\ Loads(s, u)
            /\ u.val[k] = [s.val[k] EXCEPT !.storage = IF @ = "loading" THEN "swapped" ELSE "memory"]
        BY <2>2, Canceled
      <3>2. u.val[k].page = s.val[k].page
        <4> HIDE DEF u
        <4> QED BY <2>1, <3>1 DEF VmVals
      <3>3. u = IF s.val[k].storage \in {"loading", "swapping"}
                THEN vmCancelThreadedIOJob(s, k) ELSE s
        BY <2>2 DEF OnItsWay
      <3> QED BY <3>1, <3>2, <3>3, Zenon
    <2>3. CASE ~OnItsWay(s.val[k])
      <3>1. FreeOf(s, k) /\ Aside(s, s, k) /\ Loads(s, s)
        BY <2>3, NotOnItsWay DEF Aside, SameWait, Loads
      <3>2. s = IF s.val[k].storage \in {"loading", "swapping"}
                THEN vmCancelThreadedIOJob(s, k) ELSE s
        BY <2>3 DEF OnItsWay
      <3> QED BY <3>1, <3>2
    <2> QED BY <2>2, <2>3
  <1>2. u \in VmStates /\ u.val[k] \in VmVals /\ D[k] \in Nat /\ D \in [VmKeys -> Nat] /\ Queues(u)
    BY <1>1, KeyFacts
  <1> DEFINE p == s.val[k].page
             w == [u EXCEPT !.val[k] = NoVal,
                            !.used = IF p = -1 THEN @ ELSE @ \ Cluster(k, p)]
  <1>3. t = Disown(w, k)
    BY <1>1, Zenon DEF dropValue
  <1>4. Own(u, k) = IF p = -1 THEN {} ELSE Cluster(k, p)
    BY <1>1, FreePages
  <1>5. NoVal \in VmVals /\ KeyOk(NoVal, k, 0, f) /\ NoVal.storage = "none"
    BY DEF NoVal, VmVals, KeyOk
  <1> HIDE DEF p
  <1>6. /\ w \in VmStates /\ w.val[k] = NoVal /\ w.newjobs = u.newjobs
        /\ w.processed = u.processed /\ w.used = u.used \ Own(u, k) /\ Aside(u, w, k)
    <2>1. w = [u EXCEPT !.val[k] = NoVal, !.used = @ \ Own(u, k)]
      BY <1>4
    <2> HIDE DEF w
    <2> QED BY <1>2, <1>5, <2>1 DEF VmStates, Aside, SameWait
  <1> HIDE DEF w
  <1>7. t = [w EXCEPT !.processed = DisownedIn(u.processed, k)]
    BY <1>3, <1>6 DEF Disown, DisownedIn
  <1>8. DisownedIn(u.processed, k) \in Seq(VmJobs)
    <2>1. /\ u.processed \in Seq(VmJobs) /\ NoTwice(u.processed)
          /\ \A x \in Live(u.processed) : x.key # k
      BY <1>1, <1>2, Fields DEF Queues, FreeOf, Alive
    <2> QED BY <2>1, LiveDisowned
  <1>9. /\ t \in VmStates /\ t.processed = DisownedIn(u.processed, k)
        /\ t.val = w.val /\ t.newjobs = w.newjobs /\ t.used = w.used
        /\ t.processing = w.processing /\ SameWait(w, t)
    BY <1>6, <1>7, <1>8 DEF VmStates, SameWait
  <1>10. Aside(u, t, k) /\ Aside(s, t, k) /\ t.val[k] = NoVal
    <2>1. t.val[k] = NoVal
      BY <1>6, <1>9
    <2>2. Aside(u, t, k)
      BY <1>6, <1>9 DEF Aside, SameWait
    <2>3. Aside(s, u, k)
      BY <1>1
    <2>4. Aside(s, t, k)
      BY <2>2, <2>3 DEF Aside, SameWait
    <2> QED BY <2>1, <2>2, <2>4
  <1>11. Replaces(u, t, k, NoVal)
    BY <1>6, <1>9, <1>10 DEF Replaces
  <1>12. Core(t, [D EXCEPT ![k] = 0], f) /\ FreeOf(t, k) /\ Loads(u, t)
    <2> DEFINE v == NoVal
    <2> HIDE DEF v
    <2>1. Replaces(u, t, k, v) /\ KeyOk(v, k, 0, f) /\ v.storage \in {"none", "memory"}
      BY <1>5, <1>11 DEF v
    <2> QED BY <1>1, <1>9, <2>1, Replaced
  <1>13. Loads(s, t)
    BY <1>1, <1>12 DEF Loads
  <1> QED BY <1>10, <1>12, <1>13

(* The key gets the value d in memory.                                     *)
PutInMemory(s, k, d) == [s EXCEPT !.val[k] = InMemory(d)]

(* A value in memory, or none, is replaced.                                *)
LEMMA SetValue ==
    ASSUME NEW s, NEW D, NEW f, Core(s, D, f), NEW k \in VmKeys,
           s.val[k].storage \in {"none", "memory"}, NEW d \in Nat \ {0},
           NEW t, t = PutInMemory(s, k, d)
    PROVE  Core(t, [D EXCEPT ![k] = d], f) /\ FreeOf(t, k) /\ Aside(s, t, k) /\ Loads(s, t)
  <1>1. /\ s \in VmStates /\ D \in [VmKeys -> Nat] /\ D[k] \in Nat /\ s.val[k] \in VmVals
        /\ KeyPart(s, k, D[k], f)
    BY KeyFacts
  <1>2. FreeOf(s, k)
    BY NotOnItsWay DEF OnItsWay
  <1>3. Own(s, k) = {}
    <2>1. s.val[k].page = -1
      BY <1>1 DEF KeyPart, KeyOk
    <2> QED BY <1>2, <2>1, FreePages
  <1> DEFINE v == InMemory(d)
  <1>4. v \in VmVals /\ KeyOk(v, k, d, f) /\ v.storage \in {"none", "memory"}
    BY DEF InMemory, VmVals, KeyOk
  <1>5. t = [s EXCEPT !.val[k] = v]
    BY DEF PutInMemory
  <1> HIDE DEF v
  <1>6. /\ t \in VmStates /\ t.val[k] = v /\ t.newjobs = s.newjobs
        /\ t.processed = s.processed /\ t.used = s.used /\ Aside(s, t, k)
    <2> DEFINE U == s.used
    <2>1. U \in SUBSET Int /\ s \in VmStates /\ v \in VmVals
      BY <1>1, <1>4, Fields
    <2>2. IsWithVal(s, t, k, v, U)
      BY <1>1, <1>5 DEF VmStates, IsWithVal
    <2> HIDE DEF U
    <2>3. /\ t \in VmStates /\ t.val[k] = v /\ t.newjobs = s.newjobs
          /\ t.processed = s.processed /\ t.used = U /\ Aside(s, t, k)
      BY <2>1, <2>2, WithVal
    <2> QED BY <2>3 DEF U
  <1>7. Replaces(s, t, k, v)
    BY <1>3, <1>6 DEF Replaces
  <1> QED BY <1>2, <1>4, <1>6, <1>7, Replaced

-----------------------------------------------------------------------------
(* The clients that wait. *)

(* dontWaitForSwappedKey(), field by field.                                *)
LEMMA DontWaitIs ==
    ASSUME NEW s \in VmStates, NEW c \in VmClients, NEW k \in VmKeys,
           NEW u, u = dontWaitForSwappedKey(s, c, k)
    PROVE  /\ u \in VmStates /\ SameCore(s, u) /\ u.ready = s.ready
           /\ u.io_keys[c] = RemoveFirst(s.io_keys[c], k)
           /\ u.waiters[k] = RemoveFirst(s.waiters[k], c)
           /\ \A d \in VmClients : d # c => u.io_keys[d] = s.io_keys[d]
           /\ \A x \in VmKeys : x # k => u.waiters[x] = s.waiters[x]
  <1> DEFINE I == [s.io_keys EXCEPT ![c] = RemoveFirst(s.io_keys[c], k)]
             W == [s.waiters EXCEPT ![k] = RemoveFirst(s.waiters[k], c)]
  <1>1. s.io_keys \in [VmClients -> Seq(VmKeys)] /\ s.waiters \in [VmKeys -> Seq(VmClients)]
    BY Fields
  <1>2. /\ RemoveFirst(s.io_keys[c], k) \in Seq(VmKeys)
        /\ RemoveFirst(s.waiters[k], c) \in Seq(VmClients)
    <2>1. s.io_keys[c] \in Seq(VmKeys) /\ s.waiters[k] \in Seq(VmClients)
      BY <1>1
    <2> QED BY <2>1, RemovedFirst
  <1>3. I \in [VmClients -> Seq(VmKeys)] /\ W \in [VmKeys -> Seq(VmClients)]
    BY <1>1, <1>2
  <1>4. /\ I[c] = RemoveFirst(s.io_keys[c], k) /\ W[k] = RemoveFirst(s.waiters[k], c)
        /\ \A d \in VmClients : d # c => I[d] = s.io_keys[d]
        /\ \A x \in VmKeys : x # k => W[x] = s.waiters[x]
    BY <1>1
  <1>5. u = [s EXCEPT !.io_keys = I, !.waiters = W]
    BY Zenon DEF dontWaitForSwappedKey
  <1> HIDE DEF I, W
  <1>6. u \in VmStates /\ SameCore(s, u) /\ u.ready = s.ready /\ u.io_keys = I /\ u.waiters = W
    BY <1>3, <1>5 DEF VmStates, SameCore
  <1> QED BY <1>4, <1>6

(* A client and a key it waits for are both in the indices.                *)
LEMMA BothWait ==
    ASSUME NEW s \in VmStates, Agree(s), NEW c \in VmClients, NEW k \in VmKeys
    PROVE  /\ s.io_keys[c] \in Seq(VmKeys) /\ s.waiters[k] \in Seq(VmClients)
           /\ c \in Range(s.waiters[k]) <=> k \in Range(s.io_keys[c])
  <1>1. s.io_keys[c] \in Seq(VmKeys) /\ s.waiters[k] \in Seq(VmClients)
    BY Fields
  <1>2. Times(s.io_keys[c], k) = Times(s.waiters[k], c)
    BY DEF Agree
  <1>3. Times(s.io_keys[c], k) = 0 <=> k \notin Range(s.io_keys[c])
    BY <1>1, TimesType
  <1>4. Times(s.waiters[k], c) = 0 <=> c \notin Range(s.waiters[k])
    BY <1>1, TimesType
  <1> QED BY <1>1, <1>2, <1>3, <1>4

(* What is left of a sequence is of it.                                    *)
LEMMA RemovedRange ==
    ASSUME NEW S, NEW q \in Seq(S), NEW e
    PROVE  Range(RemoveFirst(q, e)) \subseteq Range(q)
  <1>1. CASE e \notin Range(q)
    BY <1>1, RemovedFirst
  <1>2. CASE e \in Range(q)
    <2>1. PICK i \in 1..Len(q) : RemoveFirst(q, e) = RemoveAt(q, i)
      BY <1>2, RemovedFirst
    <2> DEFINE r == RemoveAt(q, i)
    <2>2. /\ r \in Seq(S) /\ Len(r) = Len(q) - 1
          /\ \A j \in 1..(Len(q) - 1) : r[j] = IF j < i THEN q[j] ELSE q[j + 1]
      BY Removed
    <2> HIDE DEF r
    <2>3. ASSUME NEW j \in DOMAIN r PROVE \E m \in DOMAIN q : r[j] = q[m]
      <3>1. CASE j < i
        BY <2>2, <3>1
      <3>2. CASE ~(j < i)
        <4>1. j + 1 \in DOMAIN q /\ r[j] = q[j + 1]
          BY <2>2, <3>2
        <4> QED BY <4>1
      <3> QED BY <3>1, <3>2
    <2> QED BY <2>1, <2>3, Zenon DEF Range, r
  <1> QED BY <1>1, <1>2

(* The indices still agree when a client is told not to wait for a key.    *)
LEMMA DontWait ==
    ASSUME NEW s \in VmStates, Agree(s), NEW c \in VmClients, NEW k \in VmKeys,
           c \in Range(s.waiters[k]), NEW u, u = dontWaitForSwappedKey(s, c, k)
    PROVE  /\ Agree(u) /\ \A d \in VmClients : Range(u.io_keys[d]) \subseteq Range(s.io_keys[d])
           /\ s.io_keys[c] # <<>>
  <1>1. /\ u \in VmStates /\ SameCore(s, u) /\ u.ready = s.ready
        /\ u.io_keys[c] = RemoveFirst(s.io_keys[c], k)
        /\ u.waiters[k] = RemoveFirst(s.waiters[k], c)
        /\ \A d \in VmClients : d # c => u.io_keys[d] = s.io_keys[d]
        /\ \A x \in VmKeys : x # k => u.waiters[x] = s.waiters[x]
    BY DontWaitIs
  <1>2. k \in Range(s.io_keys[c]) /\ s.io_keys[c] \in Seq(VmKeys) /\ s.waiters[k] \in Seq(VmClients)
    BY BothWait
  <1>3. ASSUME NEW d \in VmClients, NEW x \in VmKeys
        PROVE  Times(u.io_keys[d], x) = Times(s.io_keys[d], x) - (IF d = c /\ x = k THEN 1 ELSE 0)
    <2>1. CASE d = c
      <3>1. Times(RemoveFirst(s.io_keys[c], k), x) = Times(s.io_keys[c], x) - (IF x = k THEN 1 ELSE 0)
        BY <1>2, TimesRemoveFirst
      <3> QED BY <1>1, <2>1, <3>1
    <2>2. CASE d # c
      <3>1. Times(s.io_keys[d], x) \in Nat
        <4>1. s.io_keys[d] \in Seq(VmKeys)
          BY Fields
        <4> QED BY <4>1, TimesType
      <3> QED BY <1>1, <2>2, <3>1
    <2> QED BY <2>1, <2>2
  <1>4. ASSUME NEW d \in VmClients, NEW x \in VmKeys
        PROVE  Times(u.waiters[x], d) = Times(s.waiters[x], d) - (IF d = c /\ x = k THEN 1 ELSE 0)
    <2>1. CASE x = k
      <3>1. Times(RemoveFirst(s.waiters[k], c), d) = Times(s.waiters[k], d) - (IF d = c THEN 1 ELSE 0)
        BY <1>2, TimesRemoveFirst
      <3> QED BY <1>1, <2>1, <3>1
    <2>2. CASE x # k
      <3>1. Times(s.waiters[x], d) \in Nat
        <4>1. s.waiters[x] \in Seq(VmClients)
          BY Fields
        <4> QED BY <4>1, TimesType
      <3> QED BY <1>1, <2>2, <3>1
    <2> QED BY <2>1, <2>2
  <1>5. Agree(u)
    <2> SUFFICES ASSUME NEW d \in VmClients, NEW x \in VmKeys
                 PROVE  Times(u.io_keys[d], x) = Times(u.waiters[x], d)
      BY DEF Agree
    <2>1. Times(s.io_keys[d], x) = Times(s.waiters[x], d)
      BY DEF Agree
    <2> QED BY <1>3, <1>4, <2>1
  <1>6. ASSUME NEW d \in VmClients PROVE Range(u.io_keys[d]) \subseteq Range(s.io_keys[d])
    BY <1>1, <1>2, RemovedRange
  <1>7. s.io_keys[c] # <<>>
    BY <1>2 DEF Range
  <1> QED BY <1>5, <1>6, <1>7

(* handleClientsBlockedOnSwappedKey() for one client.                      *)
Woken(s, c, k) ==
    LET u == dontWaitForSwappedKey(s, c, k) IN
    IF u.io_keys[c] = <<>> THEN [u EXCEPT !.ready = Append(@, c)] ELSE u

(* What such a state is like.                                              *)
LEMMA WokenIs ==
    ASSUME NEW s \in VmStates, NEW c \in VmClients, NEW k \in VmKeys
    PROVE  LET u == dontWaitForSwappedKey(s, c, k)
               t == Woken(s, c, k)
           IN  /\ t \in VmStates /\ SameCore(s, t)
               /\ t.io_keys = u.io_keys /\ t.waiters = u.waiters
               /\ t.ready = IF u.io_keys[c] = <<>> THEN Append(s.ready, c) ELSE s.ready
  <1> DEFINE u == dontWaitForSwappedKey(s, c, k)
             t == Woken(s, c, k)
             R == IF u.io_keys[c] = <<>> THEN Append(s.ready, c) ELSE s.ready
  <1>1. u \in VmStates /\ SameCore(s, u) /\ u.ready = s.ready
    BY DontWaitIs
  <1> HIDE DEF u
  <1>2. R \in Seq(VmClients)
    BY Fields
  <1>3. t = [u EXCEPT !.ready = R]
    <2>1. u.io_keys[c] # <<>> => u = [u EXCEPT !.ready = R]
      BY <1>1 DEF VmStates
    <2>2. u.io_keys[c] = <<>> => [u EXCEPT !.ready = Append(@, c)] = [u EXCEPT !.ready = R]
      BY <1>1
    <2> HIDE DEF R
    <2> QED BY <2>1, <2>2, Zenon DEF Woken, u
  <1> HIDE DEF R, t
  <1>4. t \in VmStates /\ SameCore(s, t) /\ t.io_keys = u.io_keys /\ t.waiters = u.waiters /\ t.ready = R
    BY <1>1, <1>2, <1>3 DEF VmStates, SameCore
  <1> QED BY <1>4 DEF R, t, u

(* A client that waits for k is told that it is there.                     *)
LEMMA WokenStep ==
    ASSUME NEW s \in VmStates, Agree(s), NEW W, ReadyOk(s, W),
           NEW c \in VmClients, NEW k \in VmKeys, c \in Range(s.waiters[k])
    PROVE  LET t == Woken(s, c, k) IN
           /\ t \in VmStates /\ SameCore(s, t) /\ Agree(t) /\ ReadyOk(t, W)
           /\ t.waiters[k] = RemoveFirst(s.waiters[k], c)
           /\ \A d \in VmClients : Range(t.io_keys[d]) \subseteq Range(s.io_keys[d])
  <1> DEFINE u == dontWaitForSwappedKey(s, c, k)
             t == Woken(s, c, k)
  <1>1. /\ t \in VmStates /\ SameCore(s, t)
        /\ t.io_keys = u.io_keys /\ t.waiters = u.waiters
        /\ t.ready = IF u.io_keys[c] = <<>> THEN Append(s.ready, c) ELSE s.ready
    BY WokenIs
  <1>2. /\ Agree(u) /\ \A d \in VmClients : Range(u.io_keys[d]) \subseteq Range(s.io_keys[d])
        /\ s.io_keys[c] # <<>>
    BY DontWait
  <1>3. /\ u.waiters[k] = RemoveFirst(s.waiters[k], c)
        /\ \A d \in VmClients : d # c => u.io_keys[d] = s.io_keys[d]
    BY DontWaitIs
  <1> HIDE DEF u, t
  <1>4. Agree(t)
    BY <1>1, <1>2 DEF Agree
  <1>5. s.ready \in Seq(VmClients)
    BY Fields
  <1>6. c \in W /\ Times(s.ready, c) = 0
    BY <1>2 DEF ReadyOk
  <1>7. ASSUME NEW d \in VmClients
        PROVE  /\ d \notin W => t.io_keys[d] = <<>>
               /\ Times(t.ready, d) = IF d \in W /\ t.io_keys[d] = <<>> THEN 1 ELSE 0
    <2>1. Times(Append(s.ready, c), d) = Times(s.ready, d) + (IF d = c THEN 1 ELSE 0)
      BY <1>5, TimesAppend
    <2>2. Times(s.ready, d) \in Nat
      BY <1>5, TimesType
    <2>3. CASE d = c
      BY <1>1, <1>6, <2>1, <2>3
    <2>4. CASE d # c
      <3>1. t.io_keys[d] = s.io_keys[d]
        BY <1>1, <1>3, <2>4
      <3>2. Times(t.ready, d) = Times(s.ready, d)
        BY <1>1, <2>1, <2>2, <2>4
      <3> QED BY <3>1, <3>2 DEF ReadyOk
    <2> QED BY <2>3, <2>4
  <1>8. ReadyOk(t, W)
    BY <1>7, Zenon DEF ReadyOk
  <1> QED BY <1>1, <1>2, <1>3, <1>4, <1>8 DEF t

(* handleClientsBlockedOnSwappedKey() goes through the clients in their    *)
(* order.                                                                  *)
LEMMA HandleRuns ==
    ASSUME NEW s \in VmStates, NEW k \in VmKeys, NEW q, q = s.waiters[k]
    PROVE  \E g \in [0..Len(q) -> VmStates] :
              /\ g[0] = s
              /\ g[Len(q)] = handleClientsBlockedOnSwappedKey(s, k)
              /\ \A i \in 1..Len(q) : g[i] = Woken(g[i - 1], q[i], k)
  <1> DEFINE n == Len(q)
             F == [a \in VmStates \X (1..n) |-> Woken(a[1], q[a[2]], k)]
             Eq(it) == it = [x \in SUBSET (1..n) |-> IF x = {} THEN s
                               ELSE Woken(it[x \ {Max(x)}], q[Max(x)], k)]
             it == CHOOSE it : Eq(it)
  <1>1. n \in Nat /\ DOMAIN q = 1..n /\ \A i \in 1..n : q[i] \in VmClients
    <2>1. q \in Seq(VmClients)
      BY Fields
    <2> QED BY <2>1
  <1>2. IsFold(VmStates, n, F)
    <2>1. \A t \in VmStates, i \in 1..n : Woken(t, q[i], k) \in VmStates
      BY <1>1, WokenIs
    <2> QED BY <1>1, <2>1 DEF IsFold
  <1>3. \A v \in VmStates, i \in 1..n : F[<<v, i>>] = Woken(v, q[i], k)
    OBVIOUS
  <1>4. handleClientsBlockedOnSwappedKey(s, k) = it[1..n]
    BY <1>1, Zenon DEF handleClientsBlockedOnSwappedKey, FoldLeft, MapThenFoldSet, Woken
  <1> HIDE DEF F, n
  <1>5. \A x \in SUBSET (1..n) : x # {} => Max(x) \in 1..n
    BY <1>1, MaxIn
  <1>6. PICK h : Iterates(VmStates, s, n, F, h)
    BY <1>2, FoldExists
  <1>7. Eq(h)
    BY <1>3, <1>5, <1>6 DEF Iterates
  <1>8. Eq(it)
    <2> HIDE DEF Eq
    <2> QED BY <1>7, Zenon
  <1> HIDE DEF it
  <1>9. Follows(VmStates, s, n, F, it)
    BY <1>3, <1>5, <1>8 DEF Follows
  <1>10. PICK g : Runs(VmStates, s, n, F, g) /\ g[n] = it[1..n]
    BY <1>2, <1>9, FoldRuns
  <1>11. \A i \in 1..n : g[i] = Woken(g[i - 1], q[i], k)
    <2>1. \A i \in 1..n : i - 1 \in 0..n
      BY <1>1
    <2>2. \A i \in 1..n : g[i - 1] \in VmStates
      BY <2>1, <1>10 DEF Runs
    <2> QED BY <1>3, <1>10, <2>2, Zenon DEF Runs
  <1> QED BY <1>4, <1>10, <1>11, Zenon DEF n, Runs

(* What freeClient() does to the indices.                                  *)
FreedOf(s, c) == FoldLeft(LAMBDA u, k : dontWaitForSwappedKey(u, c, k), s, s.io_keys[c])

(* And freeClient() through the keys that the client waits for.            *)
LEMMA FreeRuns ==
    ASSUME NEW s \in VmStates, NEW c \in VmClients, NEW q, q = s.io_keys[c]
    PROVE  \E g \in [0..Len(q) -> VmStates] :
              /\ g[0] = s
              /\ g[Len(q)] = FreedOf(s, c)
              /\ \A i \in 1..Len(q) : g[i] = dontWaitForSwappedKey(g[i - 1], c, q[i])
  <1> DEFINE n == Len(q)
             F == [a \in VmStates \X (1..n) |-> dontWaitForSwappedKey(a[1], c, q[a[2]])]
             Eq(it) == it = [x \in SUBSET (1..n) |-> IF x = {} THEN s
                               ELSE dontWaitForSwappedKey(it[x \ {Max(x)}], c, q[Max(x)])]
             it == CHOOSE it : Eq(it)
  <1>1. n \in Nat /\ DOMAIN q = 1..n /\ \A i \in 1..n : q[i] \in VmKeys
    <2>1. q \in Seq(VmKeys)
      BY Fields
    <2> QED BY <2>1
  <1>2. IsFold(VmStates, n, F)
    <2>1. \A t \in VmStates, i \in 1..n : dontWaitForSwappedKey(t, c, q[i]) \in VmStates
      BY <1>1, DontWaitIs
    <2> QED BY <1>1, <2>1 DEF IsFold
  <1>3. \A v \in VmStates, i \in 1..n : F[<<v, i>>] = dontWaitForSwappedKey(v, c, q[i])
    OBVIOUS
  <1>4. FreedOf(s, c) = it[1..n]
    BY <1>1, Zenon DEF FreedOf, FoldLeft, MapThenFoldSet
  <1> HIDE DEF F, n
  <1>5. \A x \in SUBSET (1..n) : x # {} => Max(x) \in 1..n
    BY <1>1, MaxIn
  <1>6. PICK h : Iterates(VmStates, s, n, F, h)
    BY <1>2, FoldExists
  <1>7. Eq(h)
    BY <1>3, <1>5, <1>6 DEF Iterates
  <1>8. Eq(it)
    <2> HIDE DEF Eq
    <2> QED BY <1>7, Zenon
  <1> HIDE DEF it
  <1>9. Follows(VmStates, s, n, F, it)
    BY <1>3, <1>5, <1>8 DEF Follows
  <1>10. PICK g : Runs(VmStates, s, n, F, g) /\ g[n] = it[1..n]
    BY <1>2, <1>9, FoldRuns
  <1>11. \A i \in 1..n : g[i] = dontWaitForSwappedKey(g[i - 1], c, q[i])
    <2>1. \A i \in 1..n : i - 1 \in 0..n
      BY <1>1
    <2>2. \A i \in 1..n : g[i - 1] \in VmStates
      BY <2>1, <1>10 DEF Runs
    <2> QED BY <1>3, <1>10, <2>2, Zenon DEF Runs
  <1> QED BY <1>4, <1>10, <1>11, Zenon DEF n, Runs

(* s becomes t when clients go on: the rest stays.                         *)
Resumes(s, t) ==
    /\ t \in VmStates /\ SameCore(s, t) /\ Agree(t)
    /\ \A d \in VmClients : Range(t.io_keys[d]) \subseteq Range(s.io_keys[d])

(* One after the other.                                                    *)
LEMMA ResumesTrans ==
    ASSUME NEW s, NEW t, NEW u, Resumes(s, t), Resumes(t, u)
    PROVE  Resumes(s, u)
  BY DEF Resumes, SameCore

(* What is left after the last one.                                        *)
LEMMA RestNone ==
    ASSUME NEW S, NEW q \in Seq(S)
    PROVE  Remains(q, 1) = q /\ Remains(q, Len(q) + 1) = <<>>
  BY DEF Remains

(* Nobody waits for k after handleClientsBlockedOnSwappedKey().            *)
LEMMA Handled ==
    ASSUME NEW s \in VmStates, Agree(s), NEW W, ReadyOk(s, W), NEW k \in VmKeys,
           NEW t, t = handleClientsBlockedOnSwappedKey(s, k)
    PROVE  /\ Resumes(s, t) /\ ReadyOk(t, W)
           /\ \A c \in VmClients : k \notin Range(t.io_keys[c])
  <1> DEFINE q == s.waiters[k]
             n == Len(q)
  <1>1. q \in Seq(VmClients) /\ n \in Nat /\ DOMAIN q = 1..n /\ \A i \in 1..n : q[i] \in VmClients
    BY Fields
  <1>2. PICK g \in [0..n -> VmStates] :
              /\ g[0] = s /\ g[n] = t
              /\ \A i \in 1..n : g[i] = Woken(g[i - 1], q[i], k)
    BY HandleRuns
  <1> DEFINE Is(i) == Resumes(s, g[i]) /\ ReadyOk(g[i], W) /\ g[i].waiters[k] = Remains(q, i + 1)
             Y == {i \in 0..n : Is(i)}
  <1> HIDE DEF n
  <1>3. 0 \in Y
    <2>1. Resumes(s, s)
      BY DEF Resumes, SameCore
    <2>2. 0 + 1 = 1 /\ 0 \in 0..n
      BY <1>1
    <2>3. s.waiters[k] = Remains(q, 1)
      BY <1>1, RestNone
    <2> HIDE DEF q
    <2> QED BY <1>2, <2>1, <2>2, <2>3
  <1> HIDE DEF q
  <1>4. ASSUME NEW i \in 0..(n - 1), i \in Y PROVE i + 1 \in Y
    <2>1. i + 1 \in 1..n /\ (i + 1) - 1 = i /\ i \in 0..n /\ i + 1 \in 0..n
      BY <1>1
    <2>2. Resumes(s, g[i]) /\ ReadyOk(g[i], W) /\ g[i].waiters[k] = Remains(q, i + 1)
      BY <1>4
    <2>3. g[i + 1] = Woken(g[i], q[i + 1], k) /\ q[i + 1] \in VmClients
      BY <1>1, <1>2, <2>1
    <2>4. /\ q[i + 1] \in Range(Remains(q, i + 1))
          /\ RemoveFirst(Remains(q, i + 1), q[i + 1]) = Remains(q, (i + 1) + 1)
      BY <1>1, <2>1, RestNext DEF n
    <2>5. g[i] \in VmStates /\ Agree(g[i]) /\ q[i + 1] \in Range(g[i].waiters[k])
      BY <2>2, <2>4 DEF Resumes
    <2> DEFINE a == g[i]
               b == g[i + 1]
               c == q[i + 1]
    <2> HIDE DEF a, b, c
    <2>6. /\ b \in VmStates /\ SameCore(a, b) /\ Agree(b) /\ ReadyOk(b, W)
          /\ b.waiters[k] = RemoveFirst(a.waiters[k], c)
          /\ \A d \in VmClients : Range(b.io_keys[d]) \subseteq Range(a.io_keys[d])
      <3>1. /\ a \in VmStates /\ Agree(a) /\ ReadyOk(a, W) /\ c \in VmClients
            /\ c \in Range(a.waiters[k]) /\ b = Woken(a, c, k)
        BY <2>2, <2>3, <2>5 DEF a, b, c
      <3> QED BY <3>1, WokenStep
    <2>7. Resumes(s, b)
      <3>1. Resumes(a, b)
        BY <2>6 DEF Resumes
      <3>2. Resumes(s, a)
        BY <2>2 DEF a
      <3> QED BY <3>1, <3>2, ResumesTrans
    <2>8. b.waiters[k] = Remains(q, (i + 1) + 1)
      BY <2>2, <2>4, <2>6 DEF a, c
    <2> QED BY <2>1, <2>6, <2>7, <2>8 DEF b
  <1>5. n \in Y
    <2> HIDE DEF Y
    <2>1. \A i \in 0..n : i \in Y
      BY <1>1, <1>3, <1>4, UpTo
    <2>2. n \in 0..n
      BY <1>1
    <2> QED BY <2>1, <2>2
  <1>6. Resumes(s, t) /\ ReadyOk(t, W) /\ t.waiters[k] = <<>>
    <2>1. Remains(q, n + 1) = <<>>
      BY <1>1, RestNone DEF n
    <2> QED BY <1>2, <1>5, <2>1
  <1>7. ASSUME NEW c \in VmClients PROVE k \notin Range(t.io_keys[c])
    <2>1. c \in Range(t.waiters[k]) <=> k \in Range(t.io_keys[c])
      BY <1>6, BothWait DEF Resumes
    <2>2. c \notin Range(t.waiters[k])
      BY <1>6 DEF Range
    <2> QED BY <2>1, <2>2
  <1> QED BY <1>6, <1>7

(* freeClient() takes the client out of the indices.                       *)
LEMMA Freed ==
    ASSUME NEW s \in VmStates, Agree(s), NEW c \in VmClients,
           NEW t, t = FreedOf(s, c)
    PROVE  /\ Resumes(s, t) /\ t.ready = s.ready /\ t.io_keys[c] = <<>>
           /\ \A d \in VmClients : d # c => t.io_keys[d] = s.io_keys[d]
  <1> DEFINE q == s.io_keys[c]
             n == Len(q)
  <1>1. q \in Seq(VmKeys) /\ n \in Nat /\ DOMAIN q = 1..n /\ \A i \in 1..n : q[i] \in VmKeys
    BY Fields
  <1>2. PICK g \in [0..n -> VmStates] :
              /\ g[0] = s /\ g[n] = t
              /\ \A i \in 1..n : g[i] = dontWaitForSwappedKey(g[i - 1], c, q[i])
    BY FreeRuns
  <1> DEFINE Alike(u) == /\ u.ready = s.ready
                        /\ \A d \in VmClients : d # c => u.io_keys[d] = s.io_keys[d]
             Is(i) == Resumes(s, g[i]) /\ g[i].io_keys[c] = Remains(q, i + 1) /\ Alike(g[i])
             Y == {i \in 0..n : Is(i)}
  <1> HIDE DEF n
  <1>3. 0 \in Y
    <2>1. Resumes(s, s) /\ Alike(s)
      BY DEF Resumes, SameCore
    <2>2. 0 + 1 = 1 /\ 0 \in 0..n
      BY <1>1
    <2>3. s.io_keys[c] = Remains(q, 1)
      BY <1>1, RestNone
    <2> HIDE DEF q, Alike
    <2> QED BY <1>2, <2>1, <2>2, <2>3
  <1> HIDE DEF q
  <1>4. ASSUME NEW i \in 0..(n - 1), i \in Y PROVE i + 1 \in Y
    <2>1. i + 1 \in 1..n /\ (i + 1) - 1 = i /\ i \in 0..n /\ i + 1 \in 0..n
      BY <1>1
    <2>2. Resumes(s, g[i]) /\ g[i].io_keys[c] = Remains(q, i + 1) /\ Alike(g[i])
      BY <1>4
    <2>3. g[i + 1] = dontWaitForSwappedKey(g[i], c, q[i + 1]) /\ q[i + 1] \in VmKeys
      BY <1>1, <1>2, <2>1
    <2>4. /\ q[i + 1] \in Range(Remains(q, i + 1))
          /\ RemoveFirst(Remains(q, i + 1), q[i + 1]) = Remains(q, (i + 1) + 1)
      BY <1>1, <2>1, RestNext DEF n
    <2> DEFINE a == g[i]
               b == g[i + 1]
               k == q[i + 1]
    <2> HIDE DEF a, b, k
    <2>5. a \in VmStates /\ Agree(a) /\ k \in VmKeys /\ b = dontWaitForSwappedKey(a, c, k)
      BY <2>2, <2>3 DEF Resumes, a, b, k
    <2>6. c \in Range(a.waiters[k])
      <3>1. k \in Range(a.io_keys[c])
        BY <2>2, <2>4 DEF a, k
      <3> QED BY <2>5, <3>1, BothWait
    <2>7. /\ b \in VmStates /\ SameCore(a, b) /\ b.ready = a.ready
          /\ b.io_keys[c] = RemoveFirst(a.io_keys[c], k)
          /\ \A d \in VmClients : d # c => b.io_keys[d] = a.io_keys[d]
      BY <2>5, DontWaitIs
    <2>8. /\ Agree(b) /\ \A d \in VmClients : Range(b.io_keys[d]) \subseteq Range(a.io_keys[d])
      BY <2>5, <2>6, DontWait
    <2>9. Resumes(s, b)
      <3>1. Resumes(a, b)
        BY <2>7, <2>8 DEF Resumes
      <3>2. Resumes(s, a)
        BY <2>2 DEF a
      <3> QED BY <3>1, <3>2, ResumesTrans
    <2>10. b.io_keys[c] = Remains(q, (i + 1) + 1)
      BY <2>2, <2>4, <2>7 DEF a, k
    <2>11. Alike(b)
      <3>1. Alike(a)
        BY <2>2 DEF a
      <3> QED BY <2>7, <3>1
    <2> HIDE DEF Alike
    <2> QED BY <2>1, <2>9, <2>10, <2>11 DEF b
  <1>5. n \in Y
    <2> HIDE DEF Y
    <2>1. \A i \in 0..n : i \in Y
      BY <1>1, <1>3, <1>4, UpTo
    <2>2. n \in 0..n
      BY <1>1
    <2> QED BY <2>1, <2>2
  <1>6. Remains(q, n + 1) = <<>>
    BY <1>1, RestNone DEF n
  <1> QED BY <1>2, <1>5, <1>6

-----------------------------------------------------------------------------
(* Commands. *)

(* The state of the main thread, when the keys should hold D.              *)
Full(s, D, T, W) ==
    Core(s, D, swapfile) /\ Agree(s) /\ WaitsFor(s, T) /\ ReadyOk(s, W)

(* Where a step on the key k leaves the clients.                           *)
WaitPart(s, t, k) ==
    /\ \A x \in VmKeys : x # k => t.val[x] = s.val[x]
    /\ \A d \in VmClients : Range(t.io_keys[d]) \subseteq Range(s.io_keys[d])
    /\ \/ s.val[k].storage # "loading"
       \/ \A d \in VmClients : k \notin Range(t.io_keys[d])

(* The clients still wait for what is being loaded.                        *)
LEMMA WaitsForKept ==
    ASSUME NEW s, NEW t \in VmStates, NEW T, WaitsFor(s, T), NEW k \in VmKeys, WaitPart(s, t, k)
    PROVE  WaitsFor(t, T)
  <1> SUFFICES ASSUME NEW c \in VmClients, NEW x \in Range(t.io_keys[c])
               PROVE  t.val[x].storage = "loading" \/ c \in T
    BY DEF WaitsFor
  <1>1. x \in VmKeys
    <2>1. t.io_keys[c] \in Seq(VmKeys)
      BY Fields
    <2> QED BY <2>1 DEF Range
  <1>2. s.val[x].storage = "loading" \/ c \in T
    BY DEF WaitsFor, WaitPart
  <1> QED BY <1>1, <1>2 DEF WaitPart

(* A step that leaves the clients alone.                                   *)
LEMMA AsideWaits ==
    ASSUME NEW s, NEW D, NEW T, NEW W, Full(s, D, T, W), NEW k \in VmKeys,
           NEW t, NEW E, Core(t, E, swapfile), Aside(s, t, k)
    PROVE  /\ Agree(t) /\ ReadyOk(t, W)
           /\ s.val[k].storage # "loading" => Full(t, E, T, W)
  <1>1. Agree(t) /\ ReadyOk(t, W)
    BY DEF Full, Agree, ReadyOk, Aside, SameWait
  <1>2. ASSUME s.val[k].storage # "loading" PROVE Full(t, E, T, W)
    <2>1. t \in VmStates
      BY DEF Core
    <2>2. WaitPart(s, t, k)
      BY <1>2 DEF WaitPart, Aside, SameWait
    <2>3. WaitsFor(t, T)
      BY <2>1, <2>2, WaitsForKept DEF Full
    <2> QED BY <1>1, <2>3 DEF Full
  <1> QED BY <1>1, <1>2

(* The clients that wait for k have gone on, after a step on k.            *)
LEMMA HandledWaits ==
    ASSUME NEW s, NEW D, NEW T, NEW W, Full(s, D, T, W), NEW k \in VmKeys,
           NEW l, NEW E, Core(l, E, swapfile), Aside(s, l, k),
           NEW t, t = handleClientsBlockedOnSwappedKey(l, k)
    PROVE  /\ Full(t, E, T, W) /\ t.processing = l.processing /\ Loads(l, t)
           /\ t.val = l.val
           /\ \A d \in VmClients : k \notin Range(t.io_keys[d])
  <1>1. Agree(l) /\ ReadyOk(l, W) /\ l \in VmStates
    BY AsideWaits DEF Core
  <1>2. /\ Resumes(l, t) /\ ReadyOk(t, W)
        /\ \A c \in VmClients : k \notin Range(t.io_keys[c])
    BY <1>1, Handled
  <1>3. t \in VmStates /\ SameCore(l, t) /\ Agree(t)
    BY <1>2 DEF Resumes
  <1>4. Core(t, E, swapfile)
    BY <1>3, Framed
  <1>5. WaitPart(s, t, k)
    BY <1>2, <1>3 DEF WaitPart, Resumes, SameCore, Aside, SameWait
  <1>6. WaitsFor(t, T)
    BY <1>3, <1>5, WaitsForKept DEF Full
  <1>7. Full(t, E, T, W)
    BY <1>2, <1>3, <1>4, <1>6 DEF Full
  <1>8. Loads(l, t) /\ t.processing = l.processing /\ t.val = l.val
    BY <1>3 DEF Loads, OnlyLoads, SameCore
  <1> QED BY <1>2, <1>7, <1>8

(* A step of a command on k.                                               *)
StepOn(s, t, k) == t.processing = s.processing /\ Loads(s, t)

(* lookupKey(): the value is in memory, or there is none.                  *)
LEMMA LookedUp ==
    ASSUME NEW s, NEW D, NEW T, NEW W, Full(s, D, T, W), NEW k \in VmKeys,
           NoWorker(s, {k}), NEW t, t = lookupKey(s, k)
    PROVE  /\ Full(t, D, T, W) /\ StepOn(s, t, k)
           /\ t.val[k].storage \in {"none", "memory"}
  <1> DEFINE v == s.val[k]
             u == IF v.storage \in {"loading", "swapping"} THEN vmCancelThreadedIOJob(s, k) ELSE s
             l == [u EXCEPT !.val[k] = InMemory(swapfile[v.page][2]),
                            !.used = @ \ Cluster(k, v.page)]
  <1>1. Core(s, D, swapfile) /\ v \in VmVals
    BY KeyFacts DEF Full
  <1>2. t = CASE v.storage \in {"none", "memory", "swapping"} -> u
              [] v.storage = "swapped" -> l
              [] v.storage = "loading" -> handleClientsBlockedOnSwappedKey(l, k)
    BY Zenon DEF lookupKey
  <1>3. l = FromFile(u, k, v.page)
    BY Zenon DEF FromFile
  <1> HIDE DEF l
  <1>4. CASE v.storage \in {"none", "memory"}
    <2>1. t = s
      BY <1>2, <1>4
    <2> QED BY <1>4, <2>1 DEF StepOn, Loads
  <1>5. CASE v.storage = "swapping"
    <2>1. t = vmCancelThreadedIOJob(s, k)
      BY <1>2, <1>5
    <2>2. OnItsWay(v)
      BY <1>5 DEF OnItsWay
    <2>3. /\ Core(t, D, swapfile) /\ Aside(s, t, k) /\ Loads(s, t)
          /\ t.val[k] = [v EXCEPT !.storage = IF @ = "loading" THEN "swapped" ELSE "memory"]
      BY <1>1, <2>1, <2>2, Canceled
    <2>4. t.val[k].storage = "memory"
      BY <1>1, <1>5, <2>3 DEF VmVals
    <2>5. Full(t, D, T, W)
      BY <1>5, <2>3, AsideWaits
    <2> QED BY <2>3, <2>4, <2>5 DEF StepOn, Aside
  <1>6. CASE v.storage = "swapped"
    <2>1. u = s /\ t = l
      BY <1>2, <1>6
    <2>2. FreeOf(s, k)
      BY <1>1, <1>6, NotOnItsWay DEF OnItsWay
    <2> HIDE DEF u
    <2>3. /\ Core(t, D, swapfile) /\ Aside(s, t, k) /\ Loads(s, t)
          /\ t.val[k] = InMemory(D[k])
      BY <1>1, <1>3, <1>6, <2>1, <2>2, Loaded
    <2>4. Full(t, D, T, W)
      BY <1>6, <2>3, AsideWaits
    <2>5. t.val[k].storage = "memory"
      BY <2>3 DEF InMemory
    <2> QED BY <2>3, <2>4, <2>5 DEF StepOn, Aside
  <1>7. CASE v.storage = "loading"
    <2>1. u = vmCancelThreadedIOJob(s, k) /\ t = handleClientsBlockedOnSwappedKey(l, k)
      BY <1>2, <1>7
    <2>2. OnItsWay(v)
      BY <1>7 DEF OnItsWay
    <2> HIDE DEF u
    <2>3. /\ Core(u, D, swapfile) /\ FreeOf(u, k) /\ Aside(s, u, k) /\ Loads(s, u)
          /\ u.val[k] = [v EXCEPT !.storage = IF @ = "loading" THEN "swapped" ELSE "memory"]
      BY <1>1, <2>1, <2>2, Canceled
    <2>4. u.val[k].storage = "swapped" /\ u.val[k].page = v.page
      BY <1>1, <1>7, <2>3 DEF VmVals
    <2>5. /\ Core(l, D, swapfile) /\ Aside(u, l, k) /\ Loads(u, l)
          /\ l.val[k] = InMemory(D[k])
      <3>1. l = FromFile(u, k, u.val[k].page)
        BY <1>3, <2>4, Zenon
      <3>2. Core(u, D, swapfile) /\ FreeOf(u, k) /\ u.val[k].storage = "swapped"
        BY <2>3, <2>4
      <3> HIDE DEF v
      <3> QED BY <3>1, <3>2, Loaded
    <2>6. Aside(s, l, k) /\ Loads(s, l)
      BY <2>3, <2>5 DEF Aside, SameWait, Loads
    <2>7. /\ Full(t, D, T, W) /\ t.processing = l.processing /\ Loads(l, t) /\ t.val = l.val
      BY <2>1, <2>5, <2>6, HandledWaits
    <2>8. t.val[k].storage = "memory"
      BY <2>5, <2>7 DEF InMemory
    <2> QED BY <2>6, <2>7, <2>8 DEF StepOn, Aside, Loads
  <1>8. v.storage \in {"none", "memory", "swapping", "swapped", "loading"}
    BY <1>1 DEF VmVals
  <1> QED BY <1>4, <1>5, <1>6, <1>7, <1>8

(* What a command makes of the data of a key.                              *)
Change(op, d) ==
    CASE op = "get" -> d
      [] op = "append" -> IF d = 0 THEN 0 ELSE NewData
      [] op = "set" -> NewData
      [] op = "del" -> 0

VmCommands == {"get", "append", "set", "del"}

(* A command on one key: APPEND changes the value if there is one.         *)
LEMMA AccessAppend ==
    ASSUME NEW s, NEW D, NEW T, NEW W, Full(s, D, T, W), NEW k \in VmKeys, vmwrites \in Nat,
           NoWorker(s, {k}), NEW t, t = Access(s, "append", k)
    PROVE  Full(t, [D EXCEPT ![k] = Change("append", D[k])], T, W) /\ StepOn(s, t, k)
  <1> DEFINE u == lookupKey(s, k)
             d == D[k]
  <1>1. /\ Full(u, D, T, W) /\ StepOn(s, u, k) /\ u.val[k].storage \in {"none", "memory"}
    BY LookedUp
  <1>2. t = IF u.val[k].storage = "none" THEN u ELSE [u EXCEPT !.val[k].data = NewData]
    BY Zenon DEF Access
  <1> HIDE DEF u
  <1>3. /\ Core(u, D, swapfile) /\ u \in VmStates /\ D \in [VmKeys -> Nat] /\ d \in Nat
        /\ u.val[k] \in VmVals /\ KeyPart(u, k, d, swapfile)
    BY <1>1, KeyFacts DEF Full
  <1>4. CASE u.val[k].storage = "none"
    <2>1. d = 0 /\ t = u
      BY <1>2, <1>3, <1>4 DEF KeyPart, KeyOk
    <2>2. Change("append", d) = d
      BY <2>1 DEF Change
    <2>3. [D EXCEPT ![k] = Change("append", d)] = D
      BY <1>3, <2>2, SameData
    <2> QED BY <1>1, <2>1, <2>3
  <1>5. CASE u.val[k].storage = "memory"
    <2>1. d # 0 /\ u.val[k].page = -1
      BY <1>3, <1>5 DEF KeyPart, KeyOk
    <2>2. Change("append", d) = NewData /\ NewData \in Nat \ {0}
      BY <2>1 DEF Change, NewData
    <2>3. [u.val[k] EXCEPT !.data = NewData] = InMemory(NewData)
      BY <1>3, <1>5, <2>1 DEF VmVals, InMemory
    <2>4. t = PutInMemory(u, k, NewData)
      <3>1. t = [u EXCEPT !.val[k].data = NewData]
        BY <1>2, <1>5
      <3>2. [u.val EXCEPT ![k].data = NewData] = [u.val EXCEPT ![k] = InMemory(NewData)]
        BY <1>3, <2>3, Fields
      <3> QED BY <3>1, <3>2 DEF PutInMemory
    <2> DEFINE e == NewData
    <2> HIDE DEF e
    <2>5. e \in Nat \ {0} /\ t = PutInMemory(u, k, e) /\ Change("append", d) = e
      BY <2>2, <2>4 DEF e
    <2> HIDE DEF d
    <2>6. Core(t, [D EXCEPT ![k] = e], swapfile) /\ Aside(u, t, k) /\ Loads(u, t)
      BY <1>3, <1>5, <2>5, SetValue
    <2>7. Full(t, [D EXCEPT ![k] = e], T, W)
      BY <1>1, <1>5, <2>6, AsideWaits
    <2>8. StepOn(s, t, k)
      BY <1>1, <2>6 DEF StepOn, Aside, Loads
    <2> QED BY <2>5, <2>7, <2>8 DEF d
  <1> QED BY <1>1, <1>4, <1>5

(* SET gives the key the new value.                                        *)
LEMMA AccessSet ==
    ASSUME NEW s, NEW D, NEW T, NEW W, Full(s, D, T, W), NEW k \in VmKeys, vmwrites \in Nat,
           NoWorker(s, {k}), NEW t, t = Access(s, "set", k)
    PROVE  Full(t, [D EXCEPT ![k] = Change("set", D[k])], T, W) /\ StepOn(s, t, k)
  <1> DEFINE u == lookupKey(s, k)
             w == dropValue(u, k)
             e == NewData
  <1>1. /\ Full(u, D, T, W) /\ StepOn(s, u, k) /\ u.val[k].storage \in {"none", "memory"}
    BY LookedUp
  <1>2. t = PutInMemory(w, k, e)
    BY Zenon DEF Access, PutInMemory
  <1>3. e \in Nat \ {0} /\ Change("set", D[k]) = e
    BY DEF Change, NewData
  <1> HIDE DEF u, e
  <1>4. /\ Core(u, D, swapfile) /\ NoWorker(u, {k}) /\ D \in [VmKeys -> Nat]
    BY <1>1 DEF Full, StepOn, NoWorker, Core
  <1>5. /\ Core(w, [D EXCEPT ![k] = 0], swapfile) /\ Aside(u, w, k) /\ Loads(u, w)
        /\ w.val[k] = NoVal
    BY <1>4, DroppedValue
  <1> HIDE DEF w
  <1>6. Full(w, [D EXCEPT ![k] = 0], T, W)
    BY <1>1, <1>5, AsideWaits
  <1>7. w.val[k].storage = "none"
    BY <1>5 DEF NoVal
  <1> DEFINE E == [D EXCEPT ![k] = 0]
  <1> HIDE DEF E
  <1>8. /\ Core(w, E, swapfile) /\ Full(w, E, T, W)
    BY <1>5, <1>6 DEF E
  <1>9. Core(t, [E EXCEPT ![k] = e], swapfile) /\ Aside(w, t, k) /\ Loads(w, t)
    BY <1>2, <1>3, <1>7, <1>8, SetValue
  <1>10. Full(t, [E EXCEPT ![k] = e], T, W)
    BY <1>7, <1>8, <1>9, AsideWaits
  <1>11. [E EXCEPT ![k] = e] = [D EXCEPT ![k] = e]
    BY <1>4 DEF E
  <1>12. StepOn(s, t, k)
    BY <1>1, <1>5, <1>9 DEF StepOn, Aside, Loads
  <1> QED BY <1>3, <1>10, <1>11, <1>12

(* DEL tells the clients that wait and drops the value.                    *)
LEMMA AccessDel ==
    ASSUME NEW s, NEW D, NEW T, NEW W, Full(s, D, T, W), NEW k \in VmKeys,
           NoWorker(s, {k}), NEW t, t = Access(s, "del", k)
    PROVE  Full(t, [D EXCEPT ![k] = Change("del", D[k])], T, W) /\ StepOn(s, t, k)
  <1> DEFINE h == handleClientsBlockedOnSwappedKey(s, k)
  <1>1. t = dropValue(h, k)
    BY Zenon DEF Access, vmDbDelete
  <1>2. Core(s, D, swapfile) /\ Aside(s, s, k)
    BY DEF Full, Aside, SameWait
  <1>3. /\ Full(h, D, T, W) /\ h.processing = s.processing /\ Loads(s, h) /\ h.val = s.val
        /\ \A d \in VmClients : k \notin Range(h.io_keys[d])
    BY <1>2, HandledWaits
  <1> HIDE DEF h
  <1>4. Core(h, D, swapfile) /\ NoWorker(h, {k})
    BY <1>3 DEF Full, NoWorker
  <1>5. Core(t, [D EXCEPT ![k] = 0], swapfile) /\ Aside(h, t, k) /\ Loads(h, t)
    BY <1>1, <1>4, DroppedValue
  <1> DEFINE E == [D EXCEPT ![k] = 0]
  <1> HIDE DEF E
  <1>6. Core(t, E, swapfile) /\ t \in VmStates
    BY <1>5 DEF E, Core
  <1>7. Agree(t) /\ ReadyOk(t, W)
    BY <1>3, <1>5, <1>6, AsideWaits
  <1>8. WaitsFor(t, T)
    <2>1. WaitPart(h, t, k)
      BY <1>3, <1>5 DEF WaitPart, Aside, SameWait
    <2> QED BY <1>3, <1>6, <2>1, WaitsForKept DEF Full
  <1>9. Full(t, E, T, W)
    BY <1>6, <1>7, <1>8 DEF Full
  <1>10. Change("del", D[k]) = 0
    BY DEF Change
  <1>11. StepOn(s, t, k)
    BY <1>3, <1>5 DEF StepOn, Aside, Loads
  <1> QED BY <1>9, <1>10, <1>11 DEF E

(* A command on one of its keys.                                           *)
LEMMA Accessed ==
    ASSUME NEW s, NEW D, NEW T, NEW W, Full(s, D, T, W), NEW k \in VmKeys, vmwrites \in Nat,
           NoWorker(s, {k}), NEW op \in VmCommands, NEW t, t = Access(s, op, k)
    PROVE  Full(t, [D EXCEPT ![k] = Change(op, D[k])], T, W) /\ StepOn(s, t, k)
  <1>1. CASE op = "get"
    <2>1. t = lookupKey(s, k)
      BY <1>1, Zenon DEF Access
    <2>2. Full(t, D, T, W) /\ StepOn(s, t, k)
      BY <2>1, LookedUp
    <2>3. Change(op, D[k]) = D[k] /\ D \in [VmKeys -> Nat]
      BY <1>1 DEF Change, Full, Core
    <2> QED BY <2>2, <2>3, SameData
  <1>2. CASE op = "append"
    BY <1>2, AccessAppend
  <1>3. CASE op = "set"
    BY <1>3, AccessSet
  <1>4. CASE op = "del"
    BY <1>4, AccessDel
  <1> QED BY <1>1, <1>2, <1>3, <1>4 DEF VmCommands

-----------------------------------------------------------------------------
(* Jobs are queued. *)

(* queueIOJob(), field by field.                                           *)
LEMMA QueueIs ==
    ASSUME NEW s \in VmStates, NEW j \in VmJobs, NEW t, t = queueIOJob(s, j)
    PROVE  /\ t \in VmStates /\ t.newjobs = Append(s.newjobs, j) /\ t.val = s.val
           /\ t.processing = s.processing /\ t.processed = s.processed
           /\ t.used = s.used /\ SameWait(s, t)
  <1> DEFINE n == IF s.threads < VmMaxThreads THEN s.threads + 1 ELSE s.threads
             N == Append(s.newjobs, j)
  <1>1. n \in Int /\ N \in Seq(VmJobs)
    BY VmAssumption, Fields
  <1>2. t = [s EXCEPT !.newjobs = N, !.threads = n]
    BY DEF queueIOJob
  <1> HIDE DEF n, N
  <1>3. /\ t \in VmStates /\ t.newjobs = N /\ t.val = s.val
        /\ t.processing = s.processing /\ t.processed = s.processed
        /\ t.used = s.used /\ SameWait(s, t)
    BY <1>1, <1>2 DEF VmStates, SameWait
  <1> QED BY <1>3 DEF N

(* The free key k gets the value v and the job j, which writes the pages   *)
(* C, if any.                                                              *)
Starts(s, t, k, v, j, C) ==
    /\ t \in VmStates /\ t.val[k] = v /\ Aside(s, t, k)
    /\ t.newjobs = Append(s.newjobs, j) /\ t.processed = s.processed
    /\ t.used = s.used \cup C /\ C \cap s.used = {}
    /\ C = IF j.type = "do" THEN Cluster(k, j.page) ELSE {}

(* No cancelled job has the value of k.                                    *)
NotMine(s, k) ==
    \A j \in Range(s.processed) : j.key = k /\ j.type # "load" => ~j.canceled \/ ~j.mine

(* A job is queued for a key that has none.                                *)
LEMMA JobStarted ==
    ASSUME NEW s, NEW D, NEW f, Core(s, D, f), NEW k \in VmKeys, FreeOf(s, k),
           NEW t, NEW v, NEW j \in VmJobs, NEW C, Starts(s, t, k, v, j, C),
           j.key = k, ~j.canceled, j.step = "queued", v.page = s.val[k].page,
           KeyOk(v, k, D[k], f), JobOk(j, v, D[k], f),
           NotMine(s, k) \/ v.storage # "swapping"
    PROVE  Core(t, D, f) /\ Alive(t) = Alive(s) \cup {j}
  <1>1. /\ s \in VmStates /\ D \in [VmKeys -> Nat] /\ D[k] \in Nat /\ s.val[k] \in VmVals
        /\ Queues(s) /\ LeftAlone(s) /\ PagesOk(s)
    BY KeyFacts
  <1>2. /\ t \in VmStates /\ t.val[k] = v /\ t.newjobs = Append(s.newjobs, j)
        /\ t.processed = s.processed /\ t.processing = s.processing
        /\ t.used = s.used \cup C /\ C \cap s.used = {}
        /\ C = IF j.type = "do" THEN Cluster(k, j.page) ELSE {}
        /\ \A x \in VmKeys : x # k => t.val[x] = s.val[x]
    BY DEF Starts, Aside
  <1>3. s.newjobs \in Seq(VmJobs)
    BY <1>1, Fields
  <1>4. \A x \in Live(s.newjobs) : x.key # k
    BY DEF FreeOf, Alive
  <1>5. /\ Range(t.newjobs) = Range(s.newjobs) \cup {j}
        /\ Live(t.newjobs) = Live(s.newjobs) \cup {j} /\ NoTwice(t.newjobs)
    <2>1. NoTwice(s.newjobs)
      BY <1>1 DEF Queues
    <2> QED BY <1>2, <1>3, <1>4, <2>1, LiveAppend
  <1>6. Alive(t) = Alive(s) \cup {j}
    BY <1>2, <1>5 DEF Alive
  <1>7. Queues(t)
    <2>1. \A a, b \in Alive(t) : a.key = b.key => a = b
      BY <1>1, <1>6 DEF Queues, FreeOf
    <2>2. \A x \in Range(t.newjobs) : ~x.canceled /\ x.step = "queued"
      BY <1>1, <1>5 DEF Queues
    <2> QED BY <1>1, <1>2, <1>5, <2>1, <2>2 DEF Queues
  <1>8. SameBut(s, t, k)
    BY <1>2, <1>6 DEF SameBut
  <1>9. KeyPart(t, k, D[k], f)
    BY <1>2, <1>6 DEF KeyPart, FreeOf
  <1>10. LeftPart(s, t, k)
    BY <1>2 DEF LeftPart, NotMine
  <1>11. C \subseteq Int
    <2>1. j.page \in Int
      BY DEF VmJobs
    <2> QED BY <1>2, <2>1, ClusterInt
  <1>12. Own(s, k) = IF s.val[k].page = -1 THEN {} ELSE Cluster(k, s.val[k].page)
    BY FreePages
  <1>13. Own(t, k) = Own(s, k) \cup C
    <2>1. CASE j.type = "do"
      <3>1. Writes(t, k) = {j}
        BY <1>6, <2>1 DEF Writes, FreeOf
      <3>2. s.val[k].page \in Int
        BY <1>1 DEF VmVals
      <3>3. Cluster(k, s.val[k].page) \subseteq Int
        BY <3>2, ClusterInt
      <3> QED BY <1>2, <1>11, <1>12, <2>1, <3>1, <3>3 DEF Own
    <2>2. CASE j.type # "do"
      <3>1. Writes(t, k) = {}
        BY <1>6, <2>2 DEF Writes, FreeOf
      <3>2. t.val[k] \in VmVals
        BY <1>2, Fields
      <3> QED BY <1>2, <1>12, <2>2, <3>1, <3>2, OwnNoWrites
    <2> QED BY <2>1, <2>2
  <1>14. PagePart(s, t, k)
    <2>1. \A p \in Own(s, k) : p \in s.used
      BY <1>1 DEF PagesOk, Own
    <2> QED BY <1>2, <1>13, <2>1 DEF PagePart
  <1>15. Core(t, [D EXCEPT ![k] = D[k]], f)
    BY <1>1, <1>2, <1>7, <1>8, <1>9, <1>10, <1>14, OneKey
  <1> QED BY <1>1, <1>6, <1>15, SameData

(* Another storage for the value of k.                                     *)
Restored(s, k, st) == [s EXCEPT !.val[k].storage = st]

(* What such a state is like.                                              *)
LEMMA RestoredIs ==
    ASSUME NEW s \in VmStates, NEW k \in VmKeys, NEW t,
           NEW st \in {"none", "memory", "swapping", "swapped", "loading"},
           t = Restored(s, k, st)
    PROVE  /\ t \in VmStates /\ t.newjobs = s.newjobs /\ t.processed = s.processed
           /\ t.used = s.used /\ Aside(s, t, k)
           /\ t.val[k].storage = st /\ t.val[k].data = s.val[k].data
           /\ t.val[k].page = s.val[k].page
  <1> DEFINE v == [s.val[k] EXCEPT !.storage = st]
             U == s.used
  <1>1. s.val[k] \in VmVals /\ U \in SUBSET Int
    BY Fields
  <1>2. v \in VmVals /\ v.storage = st /\ v.data = s.val[k].data /\ v.page = s.val[k].page
    BY <1>1 DEF VmVals
  <1>3. IsWithVal(s, t, k, v, U)
    BY DEF Restored, IsWithVal, VmStates
  <1> HIDE DEF v, U
  <1>4. /\ t \in VmStates /\ t.val[k] = v /\ t.newjobs = s.newjobs
        /\ t.processed = s.processed /\ t.used = U /\ Aside(s, t, k)
    BY <1>1, <1>2, <1>3, WithVal
  <1> QED BY <1>2, <1>4 DEF U

(* vmSwapObjectThreaded()                                                  *)
LEMMA SwapStarted ==
    ASSUME NEW s, NEW D, NEW f, Core(s, D, f), NEW k \in VmKeys,
           s.val[k].storage = "memory", NotMine(s, k),
           NEW t, t = vmSwapObjectThreaded(s, k)
    PROVE  /\ Core(t, D, f) /\ Aside(s, t, k) /\ t.processed = s.processed
           /\ t.val[k].storage = "swapping"
           /\ \A j \in Alive(t) : j \in Alive(s) \/ j.key = k
  <1> DEFINE j == [type |-> "prepare", key |-> k, data |-> 0, page |-> -1,
                   canceled |-> FALSE, mine |-> TRUE, step |-> "queued"]
             u == Restored(s, k, "swapping")
             v == u.val[k]
  <1>1. /\ s \in VmStates /\ D[k] \in Nat /\ KeyPart(s, k, D[k], f)
    BY KeyFacts
  <1>2. t = queueIOJob(u, j)
    BY Zenon DEF vmSwapObjectThreaded, Restored
  <1>3. /\ j \in VmJobs /\ j.key = k /\ ~j.canceled /\ j.step = "queued" /\ j.mine
        /\ j.type = "prepare"
    BY DEF VmJobs
  <1> HIDE DEF j, u
  <1>4. /\ u \in VmStates /\ u.newjobs = s.newjobs /\ u.processed = s.processed
        /\ u.used = s.used /\ Aside(s, u, k)
        /\ v.storage = "swapping" /\ v.data = s.val[k].data /\ v.page = s.val[k].page
    BY <1>1, RestoredIs DEF u
  <1>5. /\ t \in VmStates /\ t.newjobs = Append(u.newjobs, j) /\ t.val = u.val
        /\ t.processing = u.processing /\ t.processed = u.processed
        /\ t.used = u.used /\ SameWait(u, t)
    BY <1>2, <1>3, <1>4, QueueIs
  <1>6. Aside(s, t, k)
    BY <1>4, <1>5 DEF Aside, SameWait
  <1>7. Starts(s, t, k, v, j, {})
    BY <1>3, <1>4, <1>5, <1>6 DEF Starts
  <1>8. FreeOf(s, k)
    BY NotOnItsWay DEF OnItsWay
  <1>9. KeyOk(v, k, D[k], f) /\ JobOk(j, v, D[k], f)
    BY <1>1, <1>3, <1>4 DEF KeyPart, KeyOk, JobOk
  <1> DEFINE C == {}
  <1>10. Starts(s, t, k, v, j, C)
    BY <1>7
  <1> HIDE DEF v, C
  <1>11. v.page = s.val[k].page
    BY <1>4 DEF v
  <1>12. Core(t, D, f) /\ Alive(t) = Alive(s) \cup {j}
    BY <1>3, <1>8, <1>9, <1>10, <1>11, JobStarted
  <1> QED BY <1>3, <1>4, <1>5, <1>6, <1>12 DEF v

-----------------------------------------------------------------------------
(* A client waits for the keys of its command. *)

(* c waits for k.                                                          *)
Waits(s, c, k) == [s EXCEPT !.io_keys[c] = Append(@, k), !.waiters[k] = Append(@, c)]

(* Other clients see nothing of it.                                        *)
OthersSame(s, t, c) ==
    /\ t.ready = s.ready /\ t.processing = s.processing /\ Loads(s, t)
    /\ \A d \in VmClients : d # c => t.io_keys[d] = s.io_keys[d]

(* The two indices agree when one client more waits.                       *)
LEMMA WaitsIs ==
    ASSUME NEW s \in VmStates, Agree(s), NEW c \in VmClients, NEW k \in VmKeys,
           NEW t, t = Waits(s, c, k)
    PROVE  /\ t \in VmStates /\ SameCore(s, t) /\ Agree(t) /\ OthersSame(s, t, c)
           /\ Range(t.io_keys[c]) = Range(s.io_keys[c]) \cup {k}
  <1> DEFINE I == [s.io_keys EXCEPT ![c] = Append(s.io_keys[c], k)]
             W == [s.waiters EXCEPT ![k] = Append(s.waiters[k], c)]
  <1>1. s.io_keys \in [VmClients -> Seq(VmKeys)] /\ s.waiters \in [VmKeys -> Seq(VmClients)]
    BY Fields
  <1>2. I \in [VmClients -> Seq(VmKeys)] /\ W \in [VmKeys -> Seq(VmClients)]
    BY <1>1
  <1>3. /\ I[c] = Append(s.io_keys[c], k) /\ W[k] = Append(s.waiters[k], c)
        /\ \A d \in VmClients : d # c => I[d] = s.io_keys[d]
        /\ \A x \in VmKeys : x # k => W[x] = s.waiters[x]
    BY <1>1
  <1>4. t = [s EXCEPT !.io_keys = I, !.waiters = W]
    BY Zenon DEF Waits
  <1> HIDE DEF I, W
  <1>5. /\ t \in VmStates /\ SameCore(s, t) /\ t.ready = s.ready /\ t.io_keys = I /\ t.waiters = W
    BY <1>2, <1>4 DEF VmStates, SameCore
  <1>6. OthersSame(s, t, c)
    BY <1>3, <1>5 DEF OthersSame, Loads, OnlyLoads, SameCore
  <1>7. Agree(t)
    <2> SUFFICES ASSUME NEW d \in VmClients, NEW x \in VmKeys
                 PROVE  Times(I[d], x) = Times(W[x], d)
      BY <1>5 DEF Agree
    <2>1. s.io_keys[d] \in Seq(VmKeys) /\ s.waiters[x] \in Seq(VmClients)
      BY <1>1
    <2>2. Times(s.io_keys[d], x) = Times(s.waiters[x], d) /\ Times(s.io_keys[d], x) \in Nat
      BY <2>1, TimesType DEF Agree
    <2>3. Times(Append(s.io_keys[d], k), x) = Times(s.io_keys[d], x) + (IF x = k THEN 1 ELSE 0)
      BY <2>1, TimesAppend
    <2>4. Times(Append(s.waiters[x], c), d) = Times(s.waiters[x], d) + (IF d = c THEN 1 ELSE 0)
      BY <2>1, TimesAppend
    <2>5. Times(I[d], x) = Times(s.io_keys[d], x) + (IF d = c /\ x = k THEN 1 ELSE 0)
      <3>1. CASE d = c
        BY <1>3, <2>2, <2>3, <3>1
      <3>2. CASE d # c
        BY <1>3, <2>2, <3>2
      <3> QED BY <3>1, <3>2
    <2>6. Times(W[x], d) = Times(s.waiters[x], d) + (IF d = c /\ x = k THEN 1 ELSE 0)
      <3>1. CASE x = k
        BY <1>3, <2>2, <2>4, <3>1
      <3>2. CASE x # k
        BY <1>3, <2>2, <3>2
      <3> QED BY <3>1, <3>2
    <2> QED BY <2>2, <2>5, <2>6
  <1>8. Range(t.io_keys[c]) = Range(s.io_keys[c]) \cup {k}
    <2> DEFINE q == s.io_keys[c]
               r == Append(q, k)
    <2>1. q \in Seq(VmKeys)
      BY <1>1
    <2> HIDE DEF q
    <2>2. /\ DOMAIN r = 1..(Len(q) + 1) /\ DOMAIN q = 1..Len(q) /\ r[Len(q) + 1] = k
          /\ \A i \in 1..Len(q) : r[i] = q[i] /\ i \in 1..(Len(q) + 1)
          /\ \A i \in 1..(Len(q) + 1) : i \in 1..Len(q) \/ i = Len(q) + 1
          /\ Len(q) + 1 \in 1..(Len(q) + 1)
      BY <2>1
    <2> HIDE DEF r
    <2>3. \A x : x \in Range(r) => x \in Range(q) \cup {k}
      BY <2>2 DEF Range
    <2>4. \A x : x \in Range(q) \cup {k} => x \in Range(r)
      BY <2>2 DEF Range
    <2>5. Range(r) = Range(q) \cup {k}
      BY <2>3, <2>4
    <2> QED BY <1>3, <1>5, <2>5 DEF r, q
  <1> QED BY <1>5, <1>6, <1>7, <1>8

(* waitForSwappedKey() of a value that is swapped: it is to be loaded.     *)
LoadJob(s, k) ==
    [type |-> "load", key |-> k, data |-> 0, page |-> s.val[k].page,
     canceled |-> FALSE, mine |-> FALSE, step |-> "queued"]

(* A load is queued for a value that is swapped out.                       *)
LEMMA LoadStarted ==
    ASSUME NEW s, NEW D, NEW f, Core(s, D, f), NEW k \in VmKeys,
           s.val[k].storage = "swapped", NEW j, j = LoadJob(s, k),
           NEW t, t = queueIOJob(Restored(s, k, "loading"), j)
    PROVE  /\ Core(t, D, f) /\ Aside(s, t, k) /\ Loads(s, t) /\ t.val[k].storage = "loading"
  <1> DEFINE u == Restored(s, k, "loading")
             v == u.val[k]
             C == {}
  <1>1. /\ s \in VmStates /\ D[k] \in Nat /\ KeyPart(s, k, D[k], f) /\ s.val[k] \in VmVals
    BY KeyFacts
  <1>3. /\ j \in VmJobs /\ j.key = k /\ ~j.canceled /\ j.step = "queued"
        /\ j.type = "load" /\ j.page = s.val[k].page
    BY <1>1 DEF VmJobs, VmVals, LoadJob
  <1> HIDE DEF u
  <1>4. /\ u \in VmStates /\ u.newjobs = s.newjobs /\ u.processed = s.processed
        /\ u.used = s.used /\ Aside(s, u, k)
        /\ v.storage = "loading" /\ v.data = s.val[k].data /\ v.page = s.val[k].page
    BY <1>1, RestoredIs DEF u
  <1>5. /\ t \in VmStates /\ t.newjobs = Append(u.newjobs, j) /\ t.val = u.val
        /\ t.processing = u.processing /\ t.processed = u.processed
        /\ t.used = u.used /\ SameWait(u, t)
    <2>1. t = queueIOJob(u, j)
      BY DEF u
    <2> QED BY <1>3, <1>4, <2>1, QueueIs
  <1>6. Aside(s, t, k)
    BY <1>4, <1>5 DEF Aside, SameWait
  <1>7. Starts(s, t, k, v, j, C)
    BY <1>3, <1>4, <1>5, <1>6 DEF Starts
  <1>8. FreeOf(s, k)
    BY NotOnItsWay DEF OnItsWay
  <1>9. KeyOk(v, k, D[k], f) /\ JobOk(j, v, D[k], f)
    BY <1>1, <1>3, <1>4 DEF KeyPart, KeyOk, JobOk
  <1>10. Loads(s, t)
    <2>1. Range(t.newjobs) = Range(s.newjobs) \cup {j}
      <3>1. s.newjobs \in Seq(VmJobs) /\ t.newjobs = Append(s.newjobs, j)
        BY <1>1, <1>4, <1>5, Fields
      <3>2. Range(Append(s.newjobs, j)) = Range(s.newjobs) \cup {j}
        BY <1>3, <3>1, LiveAppend
      <3> QED BY <3>1, <3>2
    <2> QED BY <1>3, <1>6, <2>1 DEF Loads, OnlyLoads, Aside
  <1>11. v.storage = "loading" /\ v.page = s.val[k].page /\ t.val[k] = v
    BY <1>4, <1>5
  <1> HIDE DEF C, v
  <1>12. Core(t, D, f)
    BY <1>3, <1>7, <1>8, <1>9, <1>11, JobStarted
  <1> QED BY <1>6, <1>10, <1>11, <1>12

(* The state while the client c is made to wait.                           *)
Blocks(s, D, T) == Core(s, D, swapfile) /\ Agree(s) /\ WaitsFor(s, T)

(* waitForSwappedKey()                                                     *)
LEMMA WaitedFor ==
    ASSUME NEW s, NEW D, NEW T, Blocks(s, D, T), NEW c \in VmClients, NEW k \in VmKeys,
           NoWorker(s, {k}), NEW t, t = waitForSwappedKey(s, c, k)
    PROVE  Blocks(t, D, T) /\ OthersSame(s, t, c)
  <1> DEFINE v == s.val[k]
             w == Waits(s, c, k)
             j == LoadJob(s, k)
             l == queueIOJob(Restored(w, k, "loading"), j)
  <1>1. /\ Core(s, D, swapfile) /\ Agree(s) /\ WaitsFor(s, T) /\ s \in VmStates /\ v \in VmVals
    BY KeyFacts DEF Blocks
  <1>2. t = CASE v.storage \in {"none", "memory"} -> s
              [] v.storage = "swapping" -> vmCancelThreadedIOJob(s, k)
              [] v.storage = "swapped" -> l
              [] v.storage = "loading" -> w
    BY Zenon DEF waitForSwappedKey, Waits, Restored, LoadJob
  <1> HIDE DEF l, w
  <1>3. OthersSame(s, s, c)
    BY DEF OthersSame, Loads
  <1>4. CASE v.storage \in {"none", "memory"}
    BY <1>2, <1>3, <1>4
  <1>5. CASE v.storage = "swapping"
    <2>1. t = vmCancelThreadedIOJob(s, k)
      BY <1>2, <1>5
    <2>2. OnItsWay(v)
      BY <1>5 DEF OnItsWay
    <2>3. /\ Core(t, D, swapfile) /\ Aside(s, t, k) /\ Loads(s, t)
      BY <1>1, <2>1, <2>2, Canceled
    <2>4. Agree(t)
      BY <1>1, <2>3 DEF Agree, Aside, SameWait
    <2>5. WaitsFor(t, T)
      <3>1. WaitPart(s, t, k) /\ t \in VmStates
        BY <1>5, <2>3 DEF WaitPart, Aside, SameWait, Core
      <3> QED BY <1>1, <3>1, WaitsForKept
    <2>6. OthersSame(s, t, c)
      BY <2>3 DEF OthersSame, Aside, SameWait
    <2> QED BY <2>3, <2>4, <2>5, <2>6 DEF Blocks
  <1>6. /\ w \in VmStates /\ SameCore(s, w) /\ Agree(w) /\ OthersSame(s, w, c)
        /\ Range(w.io_keys[c]) = Range(s.io_keys[c]) \cup {k}
    BY <1>1, WaitsIs DEF w
  <1>7. Core(w, D, swapfile)
    BY <1>1, <1>6, Framed
  <1>8. ASSUME NEW u \in VmStates, SameWait(w, u), u.val[k].storage = "loading",
               \A x \in VmKeys : x # k => u.val[x] = s.val[x]
        PROVE  WaitsFor(u, T)
    <2> SUFFICES ASSUME NEW d \in VmClients, NEW x \in Range(u.io_keys[d])
                 PROVE  u.val[x].storage = "loading" \/ d \in T
      BY DEF WaitsFor
    <2>1. x \in VmKeys
      <3>1. u.io_keys[d] \in Seq(VmKeys)
        BY Fields
      <3> QED BY <3>1 DEF Range
    <2>2. CASE x = k
      BY <1>8, <2>2
    <2>3. CASE x # k
      <3>1. x \in Range(s.io_keys[d])
        BY <1>6, <1>8, <2>3 DEF SameWait, OthersSame
      <3>2. s.val[x].storage = "loading" \/ d \in T
        BY <1>1, <3>1 DEF WaitsFor
      <3> QED BY <1>8, <2>1, <2>3, <3>2
    <2> QED BY <2>2, <2>3
  <1>9. CASE v.storage = "loading"
    <2>1. t = w
      BY <1>2, <1>9
    <2>2. WaitsFor(w, T)
      BY <1>6, <1>8, <1>9 DEF SameWait, SameCore
    <2> QED BY <1>6, <1>7, <2>1, <2>2 DEF Blocks
  <1>10. CASE v.storage = "swapped"
    <2>1. t = l
      BY <1>2, <1>10
    <2>2. j = LoadJob(w, k) /\ w.val[k].storage = "swapped"
      BY <1>6, <1>10 DEF LoadJob, SameCore
    <2>3. l = queueIOJob(Restored(w, k, "loading"), j)
      BY DEF l
    <2> HIDE DEF j
    <2>4. /\ Core(t, D, swapfile) /\ Aside(w, t, k) /\ Loads(w, t) /\ t.val[k].storage = "loading"
      BY <1>7, <2>1, <2>2, <2>3, LoadStarted
    <2>5. Agree(t)
      BY <1>6, <2>4 DEF Agree, Aside, SameWait
    <2>6. WaitsFor(t, T)
      <3>1. t \in VmStates /\ SameWait(w, t) /\ \A x \in VmKeys : x # k => t.val[x] = s.val[x]
        BY <1>6, <2>4 DEF Core, Aside, SameCore
      <3> QED BY <1>8, <2>4, <3>1
    <2>7. OthersSame(s, t, c)
      BY <1>6, <2>4 DEF OthersSame, Aside, SameWait, Loads
    <2> QED BY <2>4, <2>5, <2>6, <2>7 DEF Blocks
  <1>11. v.storage \in {"none", "memory", "swapping", "swapped", "loading"}
    BY <1>1 DEF VmVals
  <1> QED BY <1>4, <1>5, <1>9, <1>10, <1>11


(* blockClientOnSwappedKeys() goes through the keys of the command.        *)
LEMMA Blocked ==
    ASSUME NEW s, NEW D, NEW T, Blocks(s, D, T), NEW c \in VmClients,
           NEW args \in Seq(VmKeys), NoWorker(s, Range(args)),
           NEW t, t = blockClientOnSwappedKeys(s, c, args)
    PROVE  Blocks(t, D, T) /\ OthersSame(s, t, c)
  <1> DEFINE n == Len(args)
             X == {u \in VmStates : Blocks(u, D, T) /\ OthersSame(s, u, c)}
             F == [a \in X \X (1..n) |-> waitForSwappedKey(a[1], c, args[a[2]])]
             Eq(it) == it = [x \in SUBSET (1..n) |-> IF x = {} THEN s
                               ELSE waitForSwappedKey(it[x \ {Max(x)}], c, args[Max(x)])]
             it == CHOOSE it : Eq(it)
  <1>1. n \in Nat /\ DOMAIN args = 1..n /\ \A i \in 1..n : args[i] \in VmKeys
    OBVIOUS
  <1>2. s \in X
    BY DEF Blocks, Core, OthersSame, Loads
  <1>3. \A u \in X, i \in 1..n : waitForSwappedKey(u, c, args[i]) \in X
    <2> SUFFICES ASSUME NEW u \in X, NEW i \in 1..n
                 PROVE  waitForSwappedKey(u, c, args[i]) \in X
      OBVIOUS
    <2> DEFINE k == args[i]
               w == waitForSwappedKey(u, c, k)
    <2>1. k \in VmKeys /\ k \in Range(args)
      BY <1>1 DEF Range
    <2>2. Blocks(u, D, T) /\ OthersSame(s, u, c)
      OBVIOUS
    <2>3. NoWorker(u, {k})
      BY <2>1, <2>2 DEF NoWorker, OthersSame
    <2> HIDE DEF k, X
    <2>4. Blocks(w, D, T) /\ OthersSame(u, w, c)
      BY <2>1, <2>2, <2>3, WaitedFor
    <2> HIDE DEF w
    <2>5. OthersSame(s, w, c) /\ w \in VmStates
      BY <2>2, <2>4 DEF OthersSame, Loads, Blocks, Core
    <2>6. w \in X
      BY <2>4, <2>5 DEF X
    <2> QED BY <2>6 DEF w, k
  <1>4. IsFold(X, n, F)
    <2> HIDE DEF X
    <2> QED BY <1>1, <1>3 DEF IsFold
  <1>5. \A v \in X, i \in 1..n : F[<<v, i>>] = waitForSwappedKey(v, c, args[i])
    OBVIOUS
  <1>6. t = it[1..n]
    BY <1>1, Zenon DEF blockClientOnSwappedKeys, FoldLeft, MapThenFoldSet
  <1> HIDE DEF F, n, X
  <1>7. \A x \in SUBSET (1..n) : x # {} => Max(x) \in 1..n
    BY <1>1, MaxIn
  <1>8. PICK h : Iterates(X, s, n, F, h)
    BY <1>2, <1>4, FoldExists
  <1>9. Eq(h)
    BY <1>5, <1>7, <1>8 DEF Iterates
  <1>10. Eq(it)
    <2> HIDE DEF Eq
    <2> QED BY <1>9, Zenon
  <1> HIDE DEF it
  <1>11. Follows(X, s, n, F, it)
    BY <1>2, <1>5, <1>7, <1>10 DEF Follows
  <1>12. PICK g : Runs(X, s, n, F, g) /\ g[n] = it[1..n]
    BY <1>4, <1>11, FoldRuns
  <1>13. t \in X
    <2>1. n \in 0..n
      BY <1>1
    <2> QED BY <1>6, <1>12, <2>1 DEF Runs
  <1> QED BY <1>13 DEF X

(* What the keys should hold after i of the keys of a command.             *)
DataAfter(op, args, D, i) ==
    [x \in VmKeys |-> IF \E m \in 1..i : args[m] = x THEN Change(op, D[x]) ELSE D[x]]

(* A command does to a key what it did to it already.                      *)
LEMMA ChangeTwice ==
    ASSUME NEW op \in VmCommands, vmwrites \in Nat, NEW d \in Nat
    PROVE  Change(op, d) \in Nat /\ Change(op, Change(op, d)) = Change(op, d)
  <1>1. CASE op = "get"
    BY <1>1 DEF Change
  <1>2. CASE op = "append"
    <2>1. NewData \in Nat /\ NewData # 0
      BY DEF NewData
    <2>2. \A e : Change("append", e) = IF e = 0 THEN 0 ELSE NewData
      BY DEF Change
    <2> QED BY <1>2, <2>1, <2>2
  <1>3. CASE op = "set"
    BY <1>3 DEF Change, NewData
  <1>4. CASE op = "del"
    BY <1>4 DEF Change
  <1> QED BY <1>1, <1>2, <1>3, <1>4 DEF VmCommands

(* The next argument changes the next key.                                 *)
LEMMA AfterNext ==
    ASSUME NEW op \in VmCommands, vmwrites \in Nat, NEW args \in Seq(VmKeys),
           NEW D \in [VmKeys -> Nat], NEW i \in 0..(Len(args) - 1), NEW k, k = args[i + 1],
           NEW E, E = DataAfter(op, args, D, i)
    PROVE  [E EXCEPT ![k] = Change(op, E[k])] = DataAfter(op, args, D, i + 1)
  <1> DEFINE G == DataAfter(op, args, D, i + 1)
  <1>1. k \in VmKeys /\ i \in Nat /\ 1..(i + 1) = (1..i) \cup {i + 1} /\ i + 1 \in 1..(i + 1)
    OBVIOUS
  <1>2. E \in [VmKeys -> Nat] /\ G \in [VmKeys -> Nat]
    <2>1. \A x \in VmKeys : D[x] \in Nat /\ Change(op, D[x]) \in Nat
      BY ChangeTwice
    <2> QED BY <2>1 DEF DataAfter
  <1>3. ASSUME NEW x \in VmKeys, x # k PROVE G[x] = E[x]
    <2>1. (\E m \in 1..(i + 1) : args[m] = x) <=> (\E m \in 1..i : args[m] = x)
      BY <1>1, <1>3
    <2> QED BY <2>1, Zenon DEF DataAfter
  <1>4. G[k] = Change(op, E[k])
    <2>1. G[k] = Change(op, D[k])
      BY <1>1, Zenon DEF DataAfter
    <2>2. E[k] = Change(op, D[k]) \/ E[k] = D[k]
      BY <1>1, Zenon DEF DataAfter
    <2>3. Change(op, Change(op, D[k])) = Change(op, D[k])
      <3>1. D[k] \in Nat
        BY <1>1
      <3> QED BY <3>1, ChangeTwice
    <2> QED BY <2>1, <2>2, <2>3, Zenon
  <1> HIDE DEF G
  <1>5. [E EXCEPT ![k] = Change(op, E[k])] = G
    BY <1>1, <1>2, <1>3, <1>4
  <1> QED BY <1>5 DEF G

(* Before the first argument, and after the last.                          *)
LEMMA AfterAll ==
    ASSUME NEW op \in VmCommands, NEW args \in Seq(VmKeys), NEW D, D = vmdata,
           vmdata \in [VmKeys -> Nat]
    PROVE  DataAfter(op, args, D, 0) = D /\ DataAfter(op, args, D, Len(args)) = Truth(op, args)
  <1>1. 1..0 = {} /\ DOMAIN args = 1..Len(args)
    OBVIOUS
  <1>2. DataAfter(op, args, D, 0) = D
    BY <1>1 DEF DataAfter
  <1>3. ASSUME NEW x \in VmKeys
        PROVE  DataAfter(op, args, D, Len(args))[x] = Truth(op, args)[x]
    <2>1. x \in Range(args) <=> \E m \in 1..Len(args) : args[m] = x
      BY <1>1, Zenon DEF Range
    <2>2. DataAfter(op, args, D, Len(args))[x] = IF x \in Range(args) THEN Change(op, D[x]) ELSE D[x]
      BY <2>1, Zenon DEF DataAfter
    <2>3. Truth(op, args)[x] =
            CASE x \notin Range(args) -> vmdata[x]
              [] x \in Range(args) /\ op = "set" -> NewData
              [] x \in Range(args) /\ op = "append" -> IF vmdata[x] = 0 THEN 0 ELSE NewData
              [] x \in Range(args) /\ op = "del" -> 0
              [] x \in Range(args) /\ op = "get" -> vmdata[x]
      BY DEF Truth
    <2>4. CASE x \notin Range(args)
      BY <2>2, <2>3, <2>4
    <2>5. CASE x \in Range(args)
      BY <2>2, <2>3, <2>5 DEF Change, VmCommands
    <2> QED BY <2>4, <2>5
  <1>4. DOMAIN DataAfter(op, args, D, Len(args)) = VmKeys /\ DOMAIN Truth(op, args) = VmKeys
    BY DEF DataAfter, Truth
  <1>5. DataAfter(op, args, D, Len(args)) = Truth(op, args)
    BY <1>3, <1>4 DEF DataAfter, Truth
  <1> QED BY <1>2, <1>5

(* What call() makes of the state s.                                       *)
Accesses(s, op, args) == FoldLeft(LAMBDA t, k : Access(t, op, k), s, args)

(* A state the command may go on from.                                     *)
MayGoOn(s, args, T, W) ==
    {u \in VmStates : NoWorker(u, Range(args)) /\ \E E : Full(u, E, T, W)}

(* The next argument may be accessed.                                      *)
LEMMA MayAccess ==
    ASSUME NEW args \in Seq(VmKeys), NEW T, NEW W, NEW op \in VmCommands, vmwrites \in Nat,
           NEW s, NEW u \in MayGoOn(s, args, T, W), NEW i \in 1..Len(args)
    PROVE  Access(u, op, args[i]) \in MayGoOn(s, args, T, W)
  <1> DEFINE k == args[i]
             w == Access(u, op, k)
  <1>1. k \in VmKeys /\ k \in Range(args)
    BY DEF Range
  <1>2. PICK E : Full(u, E, T, W)
    BY DEF MayGoOn
  <1>3. NoWorker(u, Range(args))
    BY DEF MayGoOn
  <1>4. NoWorker(u, {k})
    BY <1>1, <1>3 DEF NoWorker
  <1> HIDE DEF k
  <1>5. Full(w, [E EXCEPT ![k] = Change(op, E[k])], T, W) /\ StepOn(u, w, k)
    BY <1>1, <1>2, <1>4, Accessed
  <1> HIDE DEF w
  <1>6. w \in VmStates /\ NoWorker(w, Range(args))
    BY <1>3, <1>5 DEF Full, Core, StepOn, NoWorker
  <1>7. w \in MayGoOn(s, args, T, W)
    BY <1>5, <1>6 DEF MayGoOn
  <1> QED BY <1>7 DEF w, k

(* The states call() goes through, one more for each key.                  *)
Passes(s, op, args, X, g) ==
    /\ g \in [0..Len(args) -> X] /\ g[0] = s /\ g[Len(args)] = Accesses(s, op, args)
    /\ \A i \in 1..Len(args) : g[i] = Access(g[i - 1], op, args[i])

(* call() goes through the keys of the command.                            *)
LEMMA CallRuns ==
    ASSUME NEW args \in Seq(VmKeys), NEW T, NEW W, NEW op \in VmCommands, vmwrites \in Nat,
           NEW s, NEW X, X = MayGoOn(s, args, T, W), s \in X
    PROVE  \E g : Passes(s, op, args, X, g)
  <1> DEFINE n == Len(args)
             F == [a \in X \X (1..n) |-> Access(a[1], op, args[a[2]])]
             Eq(it) == it = [x \in SUBSET (1..n) |-> IF x = {} THEN s
                               ELSE Access(it[x \ {Max(x)}], op, args[Max(x)])]
             it == CHOOSE it : Eq(it)
  <1>1. n \in Nat /\ DOMAIN args = 1..n
    OBVIOUS
  <1>2. IsFold(X, n, F)
    <2>1. \A u \in X, i \in 1..n : Access(u, op, args[i]) \in X
      BY MayAccess
    <2> QED BY <1>1, <2>1 DEF IsFold
  <1>3. \A v \in X, i \in 1..n : F[<<v, i>>] = Access(v, op, args[i])
    OBVIOUS
  <1>4. Accesses(s, op, args) = it[1..n]
    BY <1>1, Zenon DEF Accesses, FoldLeft, MapThenFoldSet
  <1> HIDE DEF F, n
  <1>5. \A x \in SUBSET (1..n) : x # {} => Max(x) \in 1..n
    BY <1>1, MaxIn
  <1>6. PICK h : Iterates(X, s, n, F, h)
    BY <1>2, FoldExists
  <1>7. Eq(h)
    BY <1>3, <1>5, <1>6 DEF Iterates
  <1>8. Eq(it)
    <2> HIDE DEF Eq
    <2> QED BY <1>7, Zenon
  <1> HIDE DEF it
  <1>9. Follows(X, s, n, F, it)
    BY <1>3, <1>5, <1>8 DEF Follows
  <1>10. PICK g : Runs(X, s, n, F, g) /\ g[n] = it[1..n]
    BY <1>2, <1>9, FoldRuns
  <1>11. \A i \in 1..n : g[i] = Access(g[i - 1], op, args[i])
    <2>1. \A i \in 1..n : i - 1 \in 0..n
      BY <1>1
    <2>2. \A i \in 1..n : g[i - 1] \in X
      BY <2>1, <1>10 DEF Runs
    <2> QED BY <1>3, <1>10, <2>2, Zenon DEF Runs
  <1>12. Passes(s, op, args, X, g)
    BY <1>4, <1>10, <1>11, Zenon DEF n, Runs, Passes
  <1> QED BY <1>12

(* call() of a command: every key holds what it should.                    *)
LEMMA Called ==
    ASSUME NEW s, NEW D, NEW T, NEW W, Full(s, D, T, W), D = vmdata, vmwrites \in Nat,
           NEW args \in Seq(VmKeys), NoWorker(s, Range(args)), NEW op \in VmCommands,
           NEW t, t = Accesses(s, op, args)
    PROVE  Full(t, Truth(op, args), T, W) /\ Loads(s, t)
  <1> DEFINE n == Len(args)
             X == MayGoOn(s, args, T, W)
  <1>1. s \in VmStates /\ D \in [VmKeys -> Nat] /\ n \in Nat
    BY DEF Full, Core
  <1>2. s \in X
    BY <1>1 DEF MayGoOn
  <1>3. PICK g \in [0..n -> X] : /\ g[0] = s /\ g[n] = t
                                 /\ \A i \in 1..n : g[i] = Access(g[i - 1], op, args[i])
    <2>1. X = MayGoOn(s, args, T, W)
      OBVIOUS
    <2> HIDE DEF X
    <2>2. PICK g : Passes(s, op, args, X, g)
      BY <1>2, <2>1, CallRuns
    <2>3. /\ g \in [0..n -> X] /\ g[0] = s /\ g[n] = t
          /\ \A i \in 1..n : g[i] = Access(g[i - 1], op, args[i])
      BY <2>2 DEF Passes
    <2> QED BY <2>3
  <1> DEFINE Is(i) == /\ Full(g[i], DataAfter(op, args, D, i), T, W)
                      /\ Loads(s, g[i])
             Y == {i \in 0..n : Is(i)}
  <1>4. 0 \in Y
    <2>1. DataAfter(op, args, D, 0) = D
      BY <1>1, AfterAll
    <2>2. 0 \in 0..n
      BY <1>1
    <2> QED BY <1>3, <2>1, <2>2 DEF Loads
  <1>5. ASSUME NEW i \in 0..(n - 1), i \in Y PROVE i + 1 \in Y
    <2> DEFINE a == g[i]
               b == g[i + 1]
               k == args[i + 1]
               E == DataAfter(op, args, D, i)
    <2>1. i + 1 \in 1..n /\ (i + 1) - 1 = i /\ i \in 0..n /\ i + 1 \in 0..n
      BY <1>1
    <2>2. Full(a, E, T, W) /\ Loads(s, a)
      BY <1>5
    <2>3. b = Access(a, op, k) /\ k \in VmKeys /\ k \in Range(args)
      BY <1>3, <2>1 DEF Range
    <2>4. a \in X
      BY <1>3, <2>1
    <2>5. NoWorker(a, {k})
      BY <2>3, <2>4 DEF NoWorker, MayGoOn
    <2>6. [E EXCEPT ![k] = Change(op, E[k])] = DataAfter(op, args, D, i + 1)
      BY <1>1, AfterNext
    <2> HIDE DEF a, b, k, E
    <2>7. Full(b, [E EXCEPT ![k] = Change(op, E[k])], T, W) /\ StepOn(a, b, k)
      BY <2>2, <2>3, <2>5, Accessed
    <2>8. Full(b, DataAfter(op, args, D, i + 1), T, W) /\ Loads(s, b)
      BY <2>2, <2>6, <2>7 DEF StepOn, Loads
    <2> QED BY <2>1, <2>8 DEF b
  <1>6. n \in Y
    <2> HIDE DEF Y, n
    <2>1. \A i \in 0..n : i \in Y
      BY <1>1, <1>4, <1>5, UpTo
    <2>2. n \in 0..n
      BY <1>1
    <2> QED BY <2>1, <2>2
  <1>7. DataAfter(op, args, D, n) = Truth(op, args)
    BY <1>1, AfterAll
  <1> QED BY <1>3, <1>6, <1>7

(* No thread is at work on a key that the main thread may go on with.      *)
LEMMA Touched ==
    ASSUME NEW s, NEW D, NEW f, Core(s, D, f), NEW K \in SUBSET VmKeys,
           \A k \in K : Settled(s, k)
    PROVE  NoWorker(s, K)
  <1> SUFFICES ASSUME NEW j \in s.processing, j.key \in K PROVE FALSE
    BY DEF NoWorker
  <1> DEFINE k == j.key
  <1>1. j \in Alive(s) /\ k \in VmKeys /\ Queues(s)
    BY DEF Alive, Core
  <1>2. JobOk(j, s.val[k], D[k], f)
    BY <1>1 DEF Core
  <1>3. s.val[k].storage \in {"swapping", "loading"}
    BY <1>2 DEF JobOk
  <1>4. j \in JobOf(s, k)
    BY <1>1, JobOfIs
  <1> QED BY <1>3, <1>4 DEF Settled

-----------------------------------------------------------------------------
(* The steps of the clients. *)

(* A step after the start up that leaves the swap file and the child.      *)
LEMMA ServerStep ==
    ASSUME VmInv, VmTypes', ~vmloading, UNCHANGED <<swapfile, vmchild, vmloading>>,
           Full(vm', vmdata', vmstuck', WaitSet'), Loads(vm, vm')
    PROVE  VmInv'
  <1>1. swapfile' = swapfile /\ vmchild' = vmchild /\ vmloading' = vmloading
    OBVIOUS
  <1>2. Core(vm', vmdata', swapfile') /\ Agree(vm') /\ WaitsFor(vm', vmstuck')
        /\ ReadyOk(vm', WaitSet')
    BY <1>1, Zenon DEF Full
  <1>3. VmChildOk'
    <2>1. ChildReadsItsData'
      BY <1>1, Zenon DEF VmInv, VmChildOk, ChildReadsItsData
    <2>2. vmchild' # NoChild => OnlyLoads(vm') /\ ~vmloading'
      <3>1. vmchild # NoChild => OnlyLoads(vm) /\ ~vmloading
        BY DEF VmInv, VmChildOk
      <3>2. OnlyLoads(vm) => OnlyLoads(vm')
        BY DEF Loads
      <3> QED BY <1>1, <3>1, <3>2
    <2> QED BY <2>1, <2>2, Zenon DEF VmChildOk
  <1>4. VmStart'
    BY <1>1 DEF VmStart
  <1> QED BY <1>2, <1>3, <1>4, Zenon DEF VmInv

(* The command that a client sends.                                        *)
LEMMA CommandArgs ==
    ASSUME NEW op \in VmOps \ {"flush"}, NEW args \in VmArgs
    PROVE  /\ op \in VmCommands /\ args \in Seq(VmKeys)
           /\ [op |-> op, args |-> args] \in VmCmds /\ [op |-> op, args |-> args] # NoCmd
  <1>1. op \in VmCommands /\ op # "none"
    BY VmAssumption DEF VmCommands
  <1>2. args \in Seq(VmKeys)
    BY VmAssumption
  <1>3. [op |-> op, args |-> args] \in VmCmds
    BY <1>1 DEF VmCmds, VmCommands
  <1>4. [op |-> op, args |-> args].op = op /\ NoCmd.op = "none"
    BY DEF NoCmd
  <1>5. [op |-> op, args |-> args] # NoCmd
    BY <1>1, <1>4
  <1> QED BY <1>1, <1>2, <1>3, <1>5

(* The writes counted are a number.                                        *)
LEMMA CalledTypes ==
    ASSUME vmwrites \in Nat, NEW s, NEW op, NEW args, vmCall(s, op, args)
    PROVE  /\ vm' = Accesses(s, op, args) /\ vmdata' = Truth(op, args) /\ vmwrites' \in Nat
  <1>1. /\ vm' = Accesses(s, op, args) /\ vmdata' = Truth(op, args)
        /\ vmwrites' = IF op \in {"set", "append"} THEN vmwrites + 1 ELSE vmwrites
    BY Zenon DEF vmCall, Accesses
  <1>2. vmwrites' \in Nat
    BY <1>1
  <1> QED BY <1>1, <1>2

(* processCommand()                                                        *)
LEMMA CommandStep == ASSUME VmInv, vmCommand PROVE VmInv'
  <1>1. PICK c \in VmClients, op \in VmOps \ {"flush"}, args \in VmArgs :
          LET s == blockClientOnSwappedKeys(vm, c, args) IN
          /\ ~vmloading /\ ~Waiting(c) /\ CanTouch(vm, args)
          /\ IF s.io_keys[c] # <<>>
             THEN /\ vmcmd' = [vmcmd EXCEPT ![c] = [op |-> op, args |-> args]]
                  /\ vm' = s /\ UNCHANGED <<vmdata, vmwrites>>
             ELSE vmCall(s, op, args) /\ UNCHANGED vmcmd
          /\ UNCHANGED <<swapfile, vmchild, vmloading, vmstuck>>
    BY Zenon DEF vmCommand
  <1> DEFINE s == blockClientOnSwappedKeys(vm, c, args)
             r == [op |-> op, args |-> args]
  <1>2. op \in VmCommands /\ args \in Seq(VmKeys) /\ r \in VmCmds /\ r # NoCmd
    BY CommandArgs
  <1>3. /\ VmTypes /\ Core(vm, vmdata, swapfile) /\ Agree(vm) /\ WaitsFor(vm, vmstuck)
        /\ ReadyOk(vm, WaitSet) /\ vmwrites \in Nat /\ c \notin WaitSet
    BY <1>1 DEF VmInv, VmTypes, Waiting, WaitSet
  <1>4. NoWorker(vm, Range(args))
    <2>1. Range(args) \in SUBSET VmKeys
      BY <1>2 DEF Range
    <2>2. \A k \in Range(args) : Settled(vm, k)
      BY <1>1 DEF CanTouch
    <2> QED BY <1>3, <2>1, <2>2, Touched
  <1>5. Blocks(s, vmdata, vmstuck) /\ OthersSame(vm, s, c)
    <2>1. Blocks(vm, vmdata, vmstuck)
      BY <1>3 DEF Blocks
    <2> QED BY <1>2, <1>4, <2>1, Blocked
  <1>6. /\ UNCHANGED <<swapfile, vmchild, vmloading, vmstuck>> /\ ~vmloading
        /\ \/ /\ s.io_keys[c] # <<>> /\ vmcmd' = [vmcmd EXCEPT ![c] = r] /\ vm' = s
              /\ UNCHANGED <<vmdata, vmwrites>>
           \/ s.io_keys[c] = <<>> /\ vmCall(s, op, args) /\ UNCHANGED vmcmd
    BY <1>1
  <1> HIDE DEF s, r
  <1>7. CASE /\ s.io_keys[c] # <<>> /\ vmcmd' = [vmcmd EXCEPT ![c] = r] /\ vm' = s
             /\ UNCHANGED <<vmdata, vmwrites>>
    <2>1. VmTypes'
      BY <1>2, <1>3, <1>6, <1>7 DEF VmTypes
    <2>2. WaitSet' = WaitSet \cup {c}
      BY <1>2, <1>3, <1>7 DEF WaitSet, VmTypes
    <2>3. ReadyOk(s, WaitSet \cup {c})
      <3> SUFFICES ASSUME NEW d \in VmClients
                   PROVE  /\ d \notin WaitSet \cup {c} => s.io_keys[d] = <<>>
                          /\ Times(s.ready, d) =
                               IF d \in WaitSet \cup {c} /\ s.io_keys[d] = <<>> THEN 1 ELSE 0
        BY DEF ReadyOk
      <3>1. CASE d = c
        BY <1>3, <1>5, <1>7, <3>1 DEF ReadyOk, OthersSame
      <3>2. CASE d # c
        BY <1>3, <1>5, <3>2 DEF ReadyOk, OthersSame
      <3> QED BY <3>1, <3>2
    <2>4. Full(s, vmdata, vmstuck, WaitSet \cup {c})
      BY <1>5, <2>3 DEF Full, Blocks
    <2>5. Full(vm', vmdata', vmstuck', WaitSet')
      BY <1>6, <1>7, <2>2, <2>4
    <2>6. Loads(vm, vm')
      BY <1>5, <1>7 DEF OthersSame
    <2> QED BY <1>6, <2>1, <2>5, <2>6, ServerStep
  <1>8. CASE s.io_keys[c] = <<>> /\ vmCall(s, op, args) /\ UNCHANGED vmcmd
    <2>1. ReadyOk(s, WaitSet)
      <3> SUFFICES ASSUME NEW d \in VmClients
                   PROVE  /\ d \notin WaitSet => s.io_keys[d] = <<>>
                          /\ Times(s.ready, d) =
                               IF d \in WaitSet /\ s.io_keys[d] = <<>> THEN 1 ELSE 0
        BY DEF ReadyOk
      <3>1. CASE d = c
        BY <1>3, <1>5, <1>8, <3>1 DEF ReadyOk, OthersSame
      <3>2. CASE d # c
        BY <1>3, <1>5, <3>2 DEF ReadyOk, OthersSame
      <3> QED BY <3>1, <3>2
    <2>2. Full(s, vmdata, vmstuck, WaitSet) /\ NoWorker(s, Range(args))
      BY <1>4, <1>5, <2>1 DEF Full, Blocks, NoWorker, OthersSame
    <2>3. vm' = Accesses(s, op, args) /\ vmdata' = Truth(op, args) /\ vmwrites' \in Nat
      BY <1>3, <1>8, CalledTypes
    <2>4. Full(vm', Truth(op, args), vmstuck, WaitSet) /\ Loads(s, vm')
      BY <1>2, <1>3, <2>2, <2>3, Called
    <2>5. VmTypes' /\ WaitSet' = WaitSet
      BY <1>3, <1>6, <1>8, <2>3 DEF VmTypes, WaitSet
    <2>6. Loads(vm, vm')
      BY <1>5, <2>4 DEF OthersSame, Loads
    <2>7. Full(vm', vmdata', vmstuck', WaitSet')
      BY <1>6, <2>3, <2>4, <2>5
    <2> QED BY <1>6, <2>5, <2>6, <2>7, ServerStep
  <1> QED BY <1>6, <1>7, <1>8

(* Another queue of ready clients.                                         *)
WithReady(s, q) == [s EXCEPT !.ready = q]

(* What such a state is like.                                              *)
LEMMA ReadyIs ==
    ASSUME NEW s \in VmStates, NEW q \in Seq(VmClients), NEW t, t = WithReady(s, q)
    PROVE  /\ t \in VmStates /\ SameCore(s, t) /\ t.ready = q
           /\ t.io_keys = s.io_keys /\ t.waiters = s.waiters
  BY DEF VmStates, WithReady, SameCore

(* A client that waits for nothing leaves the queue.                       *)
LEMMA ReadyLeft ==
    ASSUME NEW s, NEW D, NEW T, NEW W, Full(s, D, T, W), NEW c \in VmClients,
           s.io_keys[c] = <<>>, NEW q \in Seq(VmClients), NEW t, t = WithReady(s, q),
           Times(q, c) = 0, \A d \in VmClients : d # c => Times(q, d) = Times(s.ready, d)
    PROVE  Full(t, D, T \ {c}, W \ {c}) /\ Loads(s, t) /\ t.processing = s.processing
  <1>1. /\ Core(s, D, swapfile) /\ Agree(s) /\ WaitsFor(s, T) /\ ReadyOk(s, W) /\ s \in VmStates
    BY DEF Full, Core
  <1>2. /\ t \in VmStates /\ SameCore(s, t) /\ t.ready = q
        /\ t.io_keys = s.io_keys /\ t.waiters = s.waiters
    BY <1>1, ReadyIs
  <1>3. Core(t, D, swapfile)
    BY <1>1, <1>2, Framed
  <1>4. Agree(t)
    BY <1>1, <1>2 DEF Agree
  <1>5. WaitsFor(t, T \ {c})
    <2>1. Range(s.io_keys[c]) = {}
      BY DEF Range
    <2> QED BY <1>1, <1>2, <2>1 DEF WaitsFor, SameCore
  <1>6. ReadyOk(t, W \ {c})
    <2> SUFFICES ASSUME NEW d \in VmClients
                 PROVE  /\ d \notin W \ {c} => t.io_keys[d] = <<>>
                        /\ Times(t.ready, d) = IF d \in W \ {c} /\ t.io_keys[d] = <<>> THEN 1 ELSE 0
      BY DEF ReadyOk
    <2>1. CASE d = c
      BY <1>2, <2>1
    <2>2. CASE d # c
      BY <1>1, <1>2, <2>2 DEF ReadyOk
    <2> QED BY <2>1, <2>2
  <1>7. Loads(s, t) /\ t.processing = s.processing
    BY <1>2 DEF Loads, OnlyLoads, SameCore
  <1> QED BY <1>3, <1>4, <1>5, <1>6, <1>7 DEF Full

(* What the invariant says of the server and the clients.                  *)
LEMMA FullNow ==
    ASSUME VmInv
    PROVE  /\ VmTypes /\ Full(vm, vmdata, vmstuck, WaitSet) /\ vm \in VmStates
           /\ vmwrites \in Nat /\ vmdata \in [VmKeys -> Nat]
           /\ WaitSet # {} => ~vmloading
  BY DEF VmInv, Full, Core, VmTypes, VmStart

(* The client c waits no more.                                             *)
LEMMA Left ==
    ASSUME VmTypes, NEW c \in VmClients, vmcmd' = [vmcmd EXCEPT ![c] = NoCmd],
           UNCHANGED <<swapfile, vmloading>>, vmwrites' \in Nat
    PROVE  VmTypes' /\ WaitSet' = WaitSet \ {c}
  BY DEF VmTypes, WaitSet

(* beforeSleep()                                                           *)
LEMMA ResumeStep == ASSUME VmInv, vmResume PROVE VmInv'
  <1> DEFINE c == Head(vm.ready)
             q == Tail(vm.ready)
             s == WithReady(vm, q)
             op == vmcmd[c].op
             args == vmcmd[c].args
  <1>1. /\ vm.ready # <<>> /\ CanTouch(vm, args) /\ vmCall(s, op, args)
        /\ vmcmd' = [vmcmd EXCEPT ![c] = NoCmd] /\ vmstuck' = vmstuck \ {c}
        /\ UNCHANGED <<swapfile, vmchild, vmloading>>
    BY Zenon DEF vmResume, WithReady
  <1>2. /\ VmTypes /\ Full(vm, vmdata, vmstuck, WaitSet) /\ vm \in VmStates
        /\ vmwrites \in Nat
        /\ WaitSet # {} => ~vmloading
    BY FullNow
  <1>3. vm.ready \in Seq(VmClients) /\ q \in Seq(VmClients) /\ c \in VmClients /\ c \in Range(vm.ready)
    <2>1. vm.ready \in Seq(VmClients)
      BY <1>2, Fields
    <2> QED BY <1>1, <2>1 DEF Range
  <1> HIDE DEF c
  <1>4. Times(vm.ready, c) \in Nat \ {0}
    BY <1>3, TimesType
  <1>5. ReadyOk(vm, WaitSet)
    BY <1>2 DEF Full
  <1>6. c \in WaitSet /\ vm.io_keys[c] = <<>> /\ Times(vm.ready, c) = 1
    BY <1>3, <1>4, <1>5 DEF ReadyOk
  <1>7. \A d : Times(q, d) = Times(vm.ready, d) - (IF d = c THEN 1 ELSE 0)
    BY <1>1, <1>3, TimesTail DEF c
  <1>8. Times(q, c) = 0 /\ \A d \in VmClients : d # c => Times(q, d) = Times(vm.ready, d)
    <2>1. \A d \in VmClients : Times(vm.ready, d) \in Nat
      BY <1>3, TimesType
    <2> QED BY <1>6, <1>7, <2>1
  <1>a. s = WithReady(vm, q)
    OBVIOUS
  <1> HIDE DEF q, s
  <1>9. Full(s, vmdata, vmstuck \ {c}, WaitSet \ {c}) /\ Loads(vm, s) /\ s.processing = vm.processing
    <2>1. Full(vm, vmdata, vmstuck, WaitSet) /\ q \in Seq(VmClients) /\ c \in VmClients
      BY <1>2, <1>3
    <2>2. vm.io_keys[c] = <<>>
      BY <1>6
    <2> QED BY <1>8, <1>a, <2>1, <2>2, ReadyLeft
  <1>10. op \in VmCommands /\ args \in Seq(VmKeys)
    <2>1. vmcmd[c] \in VmCmds
      BY <1>2, <1>3, <1>6 DEF VmTypes, WaitSet
    <2> QED BY <2>1, VmAssumption DEF VmCmds, VmCommands
  <1>11. NoWorker(s, Range(args))
    <2>1. Range(args) \in SUBSET VmKeys
      BY <1>10 DEF Range
    <2>2. \A k \in Range(args) : Settled(vm, k)
      BY <1>1 DEF CanTouch
    <2>3. NoWorker(vm, Range(args))
      BY <1>2, <2>1, <2>2, Touched DEF Full
    <2> QED BY <1>9, <2>3 DEF NoWorker
  <1> HIDE DEF op, args
  <1>12. vm' = Accesses(s, op, args) /\ vmdata' = Truth(op, args) /\ vmwrites' \in Nat
    BY <1>1, <1>2, CalledTypes
  <1>13. Full(vm', Truth(op, args), vmstuck \ {c}, WaitSet \ {c}) /\ Loads(s, vm')
    BY <1>2, <1>9, <1>10, <1>11, <1>12, Called
  <1>14. VmTypes' /\ WaitSet' = WaitSet \ {c}
    BY <1>1, <1>2, <1>3, <1>12, Left
  <1>15. Loads(vm, vm')
    BY <1>9, <1>13 DEF Loads
  <1>16. Full(vm', vmdata', vmstuck', WaitSet')
    BY <1>1, <1>12, <1>13, <1>14
  <1>17. ~vmloading
    BY <1>2, <1>6
  <1> QED BY <1>1, <1>14, <1>15, <1>16, <1>17, ServerStep

(* freeClient()                                                            *)
LEMMA FreeClientStep == ASSUME VmInv, vmFreeClient PROVE VmInv'
  <1>1. PICK c \in VmClients :
          /\ Waiting(c)
          /\ vm' = IF vm.io_keys[c] = <<>> THEN WithReady(vm, RemoveFirst(vm.ready, c))
                   ELSE FreedOf(vm, c)
          /\ vmcmd' = [vmcmd EXCEPT ![c] = NoCmd] /\ vmstuck' = vmstuck \ {c}
          /\ UNCHANGED <<swapfile, vmdata, vmwrites, vmchild, vmloading>>
    BY Zenon DEF vmFreeClient, WithReady, FreedOf
  <1>2. /\ VmTypes /\ Full(vm, vmdata, vmstuck, WaitSet) /\ vm \in VmStates
        /\ vmwrites \in Nat
        /\ WaitSet # {} => ~vmloading
    BY FullNow
  <1>3. c \in WaitSet /\ ~vmloading
    BY <1>1, <1>2 DEF Waiting, WaitSet
  <1>4. VmTypes' /\ WaitSet' = WaitSet \ {c}
    BY <1>1, <1>2, Left
  <1>5. /\ Core(vm, vmdata, swapfile) /\ Agree(vm) /\ WaitsFor(vm, vmstuck) /\ ReadyOk(vm, WaitSet)
        /\ vm.ready \in Seq(VmClients)
    BY <1>2, Fields DEF Full
  <1>6. Full(vm', vmdata, vmstuck \ {c}, WaitSet \ {c}) /\ Loads(vm, vm')
    <2>1. CASE vm.io_keys[c] = <<>>
      <3> DEFINE q == RemoveFirst(vm.ready, c)
      <3>1. Times(vm.ready, c) = 1
        BY <1>3, <1>5, <2>1 DEF ReadyOk
      <3>2. c \in Range(vm.ready)
        <4>1. Times(vm.ready, c) = 0 <=> c \notin Range(vm.ready)
          BY <1>5, TimesType
        <4> QED BY <3>1, <4>1
      <3>3. \A d : Times(q, d) = Times(vm.ready, d) - (IF d = c THEN 1 ELSE 0)
        BY <1>5, <3>2, TimesRemoveFirst
      <3>4. q \in Seq(VmClients)
        BY <1>5, RemovedFirst
      <3> HIDE DEF q
      <3>5. Times(q, c) = 0 /\ \A d \in VmClients : d # c => Times(q, d) = Times(vm.ready, d)
        <4>1. \A d \in VmClients : Times(vm.ready, d) \in Nat
          BY <1>5, TimesType
        <4> QED BY <3>1, <3>3, <4>1
      <3>6. vm' = WithReady(vm, q)
        BY <1>1, <2>1 DEF q
      <3>7. Full(vm, vmdata, vmstuck, WaitSet) /\ vm.io_keys[c] = <<>> /\ c \in VmClients
        BY <1>2, <2>1
      <3> QED BY <3>4, <3>5, <3>6, <3>7, ReadyLeft
    <2>2. CASE vm.io_keys[c] # <<>>
      <3>1. /\ Resumes(vm, vm') /\ vm'.ready = vm.ready /\ vm'.io_keys[c] = <<>>
            /\ \A d \in VmClients : d # c => vm'.io_keys[d] = vm.io_keys[d]
        <4>1. vm' = FreedOf(vm, c)
          BY <1>1, <2>2
        <4> QED BY <1>2, <1>5, <4>1, Freed
      <3>2. vm' \in VmStates /\ SameCore(vm, vm') /\ Agree(vm')
        BY <3>1 DEF Resumes
      <3>3. Core(vm', vmdata, swapfile)
        BY <1>5, <3>2, Framed
      <3>4. WaitsFor(vm', vmstuck \ {c})
        <4>1. Range(vm'.io_keys[c]) = {}
          BY <3>1 DEF Range
        <4> QED BY <1>5, <3>1, <3>2, <4>1 DEF WaitsFor, SameCore
      <3>5. ReadyOk(vm', WaitSet \ {c})
        <4> SUFFICES ASSUME NEW d \in VmClients
                     PROVE  /\ d \notin WaitSet \ {c} => vm'.io_keys[d] = <<>>
                            /\ Times(vm'.ready, d) =
                                 IF d \in WaitSet \ {c} /\ vm'.io_keys[d] = <<>> THEN 1 ELSE 0
          BY DEF ReadyOk
        <4>1. CASE d = c
          BY <1>5, <2>2, <3>1, <4>1 DEF ReadyOk
        <4>2. CASE d # c
          BY <1>5, <3>1, <4>2 DEF ReadyOk
        <4> QED BY <4>1, <4>2
      <3>6. Loads(vm, vm')
        BY <3>2 DEF Loads, OnlyLoads, SameCore
      <3> QED BY <3>2, <3>3, <3>4, <3>5, <3>6 DEF Full
    <2> QED BY <2>1, <2>2
  <1>7. Full(vm', vmdata', vmstuck', WaitSet')
    BY <1>1, <1>4, <1>6
  <1> QED BY <1>1, <1>3, <1>4, <1>6, <1>7, ServerStep

(* FLUSHALL, from the state s through the keys q.                          *)
Flushed(s, q) == FoldLeft(LAMBDA u, k : dropValue(u, k), s, q)

(* The data when the keys of K are gone.                                   *)
Gone(D, K) == [k \in VmKeys |-> IF k \in K THEN 0 ELSE D[k]]

(* Nothing is left of the values, and the clients see nothing of it.       *)
LEMMA Flushes ==
    ASSUME NEW s, NEW D, NEW f, Core(s, D, f), NEW q \in Seq(VmKeys),
           NoWorker(s, VmKeys), NEW t, t = Flushed(s, q)
    PROVE  /\ Core(t, Gone(D, Range(q)), f)
           /\ t.processing = s.processing /\ SameWait(s, t) /\ Loads(s, t)
  <1> DEFINE n == Len(q)
             Alike(u) == u.processing = s.processing /\ SameWait(s, u) /\ Loads(s, u)
             X == {u \in VmStates : Alike(u) /\ \E E : Core(u, E, f)}
             F == [a \in X \X (1..n) |-> dropValue(a[1], q[a[2]])]
             Eq(it) == it = [x \in SUBSET (1..n) |-> IF x = {} THEN s
                               ELSE dropValue(it[x \ {Max(x)}], q[Max(x)])]
             it == CHOOSE it : Eq(it)
  <1>1. n \in Nat /\ DOMAIN q = 1..n /\ \A i \in 1..n : q[i] \in VmKeys
    OBVIOUS
  <1>2. s \in X
    BY DEF Core, SameWait, Loads
  <1>3. ASSUME NEW u, Alike(u), NEW E, Core(u, E, f), NEW k \in VmKeys, NEW w, w = dropValue(u, k)
        PROVE  /\ w \in VmStates /\ Alike(w) /\ Core(w, [E EXCEPT ![k] = 0], f)
    <2>1. NoWorker(u, {k})
      BY <1>3 DEF NoWorker
    <2>2. Core(w, [E EXCEPT ![k] = 0], f) /\ Aside(u, w, k) /\ Loads(u, w)
      BY <1>3, <2>1, DroppedValue
    <2>3. w \in VmStates /\ Alike(w)
      BY <1>3, <2>2 DEF Core, Aside, SameWait, Loads
    <2> QED BY <2>2, <2>3
  <1> HIDE DEF Alike
  <1>4. \A u \in X, i \in 1..n : dropValue(u, q[i]) \in X
    <2> SUFFICES ASSUME NEW u \in X, NEW i \in 1..n PROVE dropValue(u, q[i]) \in X
      OBVIOUS
    <2>1. PICK E : Core(u, E, f)
      OBVIOUS
    <2> DEFINE w == dropValue(u, q[i])
               E2 == [E EXCEPT ![q[i]] = 0]
    <2>2. w \in VmStates /\ Alike(w) /\ Core(w, E2, f)
      BY <1>1, <1>3, <2>1
    <2> HIDE DEF w, E2
    <2>3. w \in X
      BY <2>2
    <2> QED BY <2>3 DEF w
  <1>5. IsFold(X, n, F)
    <2> HIDE DEF X
    <2> QED BY <1>1, <1>4 DEF IsFold
  <1>6. \A v \in X, i \in 1..n : F[<<v, i>>] = dropValue(v, q[i])
    OBVIOUS
  <1>7. t = it[1..n]
    BY <1>1, Zenon DEF Flushed, FoldLeft, MapThenFoldSet
  <1> HIDE DEF F, n, X
  <1>8. \A x \in SUBSET (1..n) : x # {} => Max(x) \in 1..n
    BY <1>1, MaxIn
  <1>9. PICK h : Iterates(X, s, n, F, h)
    BY <1>2, <1>5, FoldExists
  <1>10. Eq(h)
    BY <1>6, <1>8, <1>9 DEF Iterates
  <1>11. Eq(it)
    <2> HIDE DEF Eq
    <2> QED BY <1>10, Zenon
  <1> HIDE DEF it
  <1>12. Follows(X, s, n, F, it)
    BY <1>2, <1>6, <1>8, <1>11 DEF Follows
  <1>13. PICK g : Runs(X, s, n, F, g) /\ g[n] = it[1..n]
    BY <1>5, <1>12, FoldRuns
  <1>14. g \in [0..n -> X] /\ g[0] = s /\ g[n] = t /\ \A i \in 1..n : g[i] = F[<<g[i - 1], i>>]
    BY <1>7, <1>13 DEF Runs
  <1> DEFINE First(i) == {q[m] : m \in 1..i}
             Is(i) == Core(g[i], Gone(D, First(i)), f)
             Y == {i \in 0..n : Is(i)}
  <1>15. D \in [VmKeys -> Nat]
    BY DEF Core
  <1>16. 0 \in Y
    <2>1. First(0) = {}
      OBVIOUS
    <2>2. Gone(D, First(0)) = D
      BY <1>15, <2>1 DEF Gone
    <2>3. 0 \in 0..n
      BY <1>1
    <2> HIDE DEF First
    <2> QED BY <1>14, <2>2, <2>3
  <1>17. ASSUME NEW i \in 0..(n - 1), i \in Y PROVE i + 1 \in Y
    <2> DEFINE a == g[i]
               b == g[i + 1]
               k == q[i + 1]
               E == Gone(D, First(i))
    <2>1. i + 1 \in 1..n /\ (i + 1) - 1 = i /\ i \in 0..n /\ i + 1 \in 0..n
      BY <1>1
    <2>2. Core(a, E, f)
      BY <1>17
    <2>3. a \in X /\ Alike(a)
      BY <1>14, <2>1 DEF X
    <2>4. b = F[<<a, i + 1>>]
      BY <1>14, <2>1
    <2>5. b = dropValue(a, k) /\ k \in VmKeys
      BY <1>1, <1>6, <2>1, <2>3, <2>4
    <2>6. [E EXCEPT ![k] = 0] = Gone(D, First(i + 1))
      <3>1. First(i + 1) = First(i) \cup {k}
        <4>1. 1..(i + 1) = (1..i) \cup {i + 1}
          BY <2>1
        <4> QED BY <4>1
      <3> HIDE DEF First
      <3>2. Gone(D, First(i) \cup {k}) = [E EXCEPT ![k] = 0]
        BY <1>15, <2>5 DEF Gone
      <3> QED BY <3>1, <3>2
    <2> HIDE DEF a, b, k, E, First
    <2>7. Core(b, [E EXCEPT ![k] = 0], f)
      BY <1>3, <2>2, <2>3, <2>5
    <2> QED BY <2>1, <2>6, <2>7 DEF b
  <1>18. n \in Y
    <2> HIDE DEF Y
    <2>1. \A i \in 0..n : i \in Y
      BY <1>1, <1>16, <1>17, UpTo
    <2>2. n \in 0..n
      BY <1>1
    <2> QED BY <2>1, <2>2
  <1>19. First(n) = Range(q)
    BY <1>1, Zenon DEF Range
  <1>20. Core(t, Gone(D, Range(q)), f)
    <2> HIDE DEF First
    <2> QED BY <1>14, <1>18, <1>19
  <1>21. Alike(t)
    <2>1. n \in 0..n
      BY <1>1
    <2> QED BY <1>14, <2>1 DEF X
  <1> QED BY <1>20, <1>21 DEF Alike

(* flushallCommand()                                                       *)
LEMMA FlushStep == ASSUME VmInv, vmFlush PROVE VmInv'
  <1> DEFINE q == SetToSeq(VmKeys)
             Killed == [NoChild EXCEPT !.state = "killed"]
  <1>1. /\ ~vmloading /\ \A k \in VmKeys : Settled(vm, k)
        /\ vm' = Flushed(vm, q) /\ vmdata' = [k \in VmKeys |-> 0]
        /\ vmchild' = vmchild \/ (vmchild # NoChild /\ vmchild' = Killed)
        /\ vmstuck' = vmstuck \cup {c \in VmClients : vm.io_keys[c] # <<>>}
        /\ UNCHANGED <<vmcmd, swapfile, vmwrites, vmloading>>
    BY Zenon DEF vmFlush, Flushed
  <1>2. /\ VmTypes /\ Full(vm, vmdata, vmstuck, WaitSet) /\ vm \in VmStates
        /\ vmdata \in [VmKeys -> Nat]
    BY FullNow
  <1>3. Core(vm, vmdata, swapfile) /\ Agree(vm) /\ ReadyOk(vm, WaitSet)
    BY <1>2 DEF Full
  <1>4. q \in Seq(VmKeys) /\ Range(q) = VmKeys
    <2>1. IsFiniteSet(VmKeys)
      BY VmAssumption
    <2> QED BY <2>1, Listed
  <1>5. NoWorker(vm, VmKeys)
    BY <1>1, <1>3, Touched
  <1> HIDE DEF q
  <1>6. /\ Core(vm', Gone(vmdata, Range(q)), swapfile) /\ SameWait(vm, vm') /\ Loads(vm, vm')
    BY <1>1, <1>3, <1>4, <1>5, Flushes
  <1>7. Gone(vmdata, Range(q)) = vmdata'
    BY <1>1, <1>4 DEF Gone
  <1>8. swapfile' = swapfile /\ vmloading' = vmloading /\ WaitSet' = WaitSet /\ VmTypes'
    BY <1>1, <1>2 DEF WaitSet, VmTypes
  <1>9. Core(vm', vmdata', swapfile')
    BY <1>6, <1>7, <1>8
  <1>10. Agree(vm') /\ ReadyOk(vm', WaitSet')
    BY <1>3, <1>6, <1>8 DEF Agree, ReadyOk, SameWait
  <1>11. WaitsFor(vm', vmstuck')
    <2> SUFFICES ASSUME NEW c \in VmClients, NEW k \in Range(vm'.io_keys[c]) PROVE c \in vmstuck'
      BY DEF WaitsFor
    <2>1. vm.io_keys[c] # <<>>
      BY <1>6 DEF SameWait, Range
    <2> QED BY <1>1, <2>1
  <1>12. VmChildOk'
    <2>1. vmchild # NoChild => OnlyLoads(vm)
      BY DEF VmInv, VmChildOk
    <2>2. vmchild' # NoChild => OnlyLoads(vm') /\ ~vmloading'
      <3>1. vmchild' # NoChild => vmchild # NoChild
        BY <1>1
      <3> HIDE DEF Killed
      <3> QED BY <1>1, <1>6, <1>8, <2>1, <3>1 DEF Loads
    <2>3. ChildReadsItsData'
      <3>1. CASE vmchild' = vmchild
        BY <1>8, <3>1, Zenon DEF VmInv, VmChildOk, ChildReadsItsData
      <3>2. CASE vmchild' = Killed
        <4>1. \A k \in VmKeys : vmchild'.page[k] = -1
          BY <3>2 DEF NoChild
        <4> QED BY <4>1 DEF ChildReadsItsData
      <3> QED BY <1>1, <3>1, <3>2
    <2> QED BY <2>2, <2>3 DEF VmChildOk
  <1>13. VmStart'
    BY <1>1, <1>8 DEF VmStart
  <1> QED BY <1>8, <1>9, <1>10, <1>11, <1>12, <1>13, Zenon DEF VmInv

-----------------------------------------------------------------------------
(* The I/O threads. *)

(* The pages of a key are in the file.                                     *)
LEMMA OwnInFile ==
    ASSUME NEW s, NEW D, NEW f, Core(s, D, f), NEW k \in VmKeys, NEW p \in Own(s, k)
    PROVE  p \in 0..(VmPages - 1) /\ p \in s.used
  <1>1. KeyPart(s, k, D[k], f) /\ PagesOk(s) /\ s.val[k] \in VmVals
    BY KeyFacts
  <1>2. p \in Int /\ p \in s.used
    BY <1>1 DEF Own, PagesOk
  <1>3. CASE s.val[k].page # -1 /\ p \in Cluster(k, s.val[k].page)
    <2> DEFINE v == s.val[k]
    <2>1. KeyOk(v, k, D[k], f) /\ v.storage \in {"none", "memory", "swapping", "swapped", "loading"}
      BY <1>1 DEF KeyPart, VmVals
    <2> HIDE DEF v
    <2>2. v.page # -1 => v.storage \in {"swapped", "loading"}
      BY <2>1 DEF KeyOk
    <2>3. InFile(k, v.page)
      BY <1>3, <2>1, <2>2 DEF KeyOk, v
    <2> QED BY <1>2, <1>3, <2>3 DEF InFile, v
  <1>4. CASE \E j \in Writes(s, k) : p \in Cluster(k, j.page)
    <2>1. PICK j \in Writes(s, k) : p \in Cluster(k, j.page)
      BY <1>4
    <2>2. j \in Alive(s) /\ j.key = k /\ j.type = "do"
      BY DEF Writes
    <2>3. InFile(k, j.page)
      BY <1>1, <2>2 DEF KeyPart, JobOk
    <2> QED BY <1>2, <2>1, <2>3 DEF InFile
  <1> QED BY <1>2, <1>3, <1>4 DEF Own

(* The file is written where the data belong.                              *)
LEMMA FileChanged ==
    ASSUME NEW s, NEW D, NEW f, Core(s, D, f), NEW f2,
           \A l \in VmKeys : \A p \in Own(s, l) : f2[p] = f[p] \/ f2[p] = <<l, D[l]>>
    PROVE  Core(s, D, f2)
  <1>1. s \in VmStates
    BY DEF Core
  <1>2. ASSUME NEW k \in VmKeys, NEW page \in Int, Written(f, k, page, D[k]),
               Cluster(k, page) \subseteq Own(s, k)
        PROVE  Written(f2, k, page, D[k])
    BY <1>2 DEF Written
  <1>3. ASSUME NEW k \in VmKeys PROVE KeyOk(s.val[k], k, D[k], f2)
    <2> DEFINE v == s.val[k]
    <2>1. KeyOk(v, k, D[k], f) /\ v \in VmVals
      BY <1>1, Fields DEF Core
    <2>2. ASSUME v.storage \in {"swapped", "loading"} PROVE Written(f2, k, v.page, D[k])
      <3>1. InFile(k, v.page) /\ Written(f, k, v.page, D[k]) /\ v.page \in Int
        BY <2>1, <2>2 DEF KeyOk, VmVals
      <3>2. Cluster(k, v.page) \subseteq Int /\ v.page # -1
        BY <3>1, ClusterInt DEF InFile
      <3>3. Cluster(k, v.page) \subseteq Own(s, k)
        BY <3>2 DEF Own
      <3> HIDE DEF v
      <3> QED BY <1>2, <3>1, <3>3
    <2> QED BY <2>1, <2>2, Zenon DEF KeyOk
  <1>4. ASSUME NEW j \in Alive(s) PROVE JobOk(j, s.val[j.key], D[j.key], f2)
    <2> DEFINE k == j.key
    <2>1. JobOk(j, s.val[k], D[k], f) /\ j \in VmJobs /\ k \in VmKeys
      BY <1>1, AliveType DEF Core
    <2>2. ASSUME j.type = "do", j.step = "done" PROVE Written(f2, k, j.page, D[k])
      <3>1. Written(f, k, j.page, D[k]) /\ j.page \in Int
        BY <2>1, <2>2 DEF JobOk, VmJobs
      <3>2. j \in Writes(s, k)
        BY <2>2 DEF Writes
      <3>3. Cluster(k, j.page) \subseteq Int
        BY <2>1, <3>1, ClusterInt
      <3>4. Cluster(k, j.page) \subseteq Own(s, k)
        BY <3>2, <3>3 DEF Own
      <3> HIDE DEF k
      <3> QED BY <1>2, <2>1, <3>1, <3>4
    <2> QED BY <2>1, <2>2, Zenon DEF JobOk
  <1> QED BY <1>3, <1>4, Zenon DEF Core

(* The live job j is j2 in t.                                              *)
Moves(s, t, j, j2) ==
    /\ t \in VmStates /\ t.val = s.val /\ t.used = s.used
    /\ j \in Alive(s) /\ Alive(t) = (Alive(s) \ {j}) \cup {j2}
    /\ j2.key = j.key /\ j2.type = j.type /\ j2.page = j.page
    /\ \A x \in Range(t.processed) : x.canceled => x \in Range(s.processed)

(* A live job that is another one of its kind in t changes nothing.        *)
LEMMA Moved ==
    ASSUME NEW s, NEW D, NEW f, Core(s, D, f), NEW t, NEW j, NEW j2, Moves(s, t, j, j2),
           JobOk(j2, s.val[j.key], D[j.key], f), Queues(t)
    PROVE  Core(t, D, f)
  <1> DEFINE k == j.key
  <1>1. /\ s \in VmStates /\ t \in VmStates /\ t.val = s.val /\ t.used = s.used
        /\ j \in Alive(s) /\ Alive(t) = (Alive(s) \ {j}) \cup {j2}
        /\ j2.key = k /\ j2.type = j.type /\ j2.page = j.page
    BY DEF Moves, Core
  <1>2. k \in VmKeys
    BY <1>1, AliveType
  <1>3. /\ D \in [VmKeys -> Nat] /\ D[k] \in Nat /\ Queues(s) /\ KeyPart(s, k, D[k], f) /\ PagesOk(s)
    BY <1>2, KeyFacts
  <1>4. \A x \in Alive(s) : x.key = k => x = j
    BY <1>1, <1>3 DEF Queues
  <1>5. SameBut(s, t, k)
    BY <1>1, <1>4 DEF SameBut
  <1>6. KeyPart(t, k, D[k], f)
    <2>1. \A x \in Alive(t) : x.key = k => x = j2
      BY <1>1, <1>4
    <2> QED BY <1>1, <1>3, <2>1 DEF KeyPart
  <1>7. LeftPart(s, t, k)
    BY <1>1 DEF LeftPart, Moves, Core, LeftAlone
  <1>8. Own(t, k) = Own(s, k)
    <2>1. CASE j.type = "do"
      <3>1. Writes(s, k) = {j} /\ Writes(t, k) = {j2}
        BY <1>1, <1>4, <2>1 DEF Writes
      <3> QED BY <1>1, <3>1 DEF Own
    <2>2. CASE j.type # "do"
      <3>1. Writes(s, k) = {} /\ Writes(t, k) = {}
        BY <1>1, <1>4, <2>2 DEF Writes
      <3> QED BY <1>1, <3>1 DEF Own
    <2> QED BY <2>1, <2>2
  <1>9. PagePart(s, t, k)
    <2>1. \A p \in Own(s, k) : p \in Int /\ p \in s.used
      BY <1>2, <1>3 DEF Own, PagesOk
    <2> QED BY <1>1, <1>8, <2>1 DEF PagePart
  <1> HIDE DEF k
  <1>10. Core(t, [D EXCEPT ![k] = D[k]], f)
    BY <1>1, <1>2, <1>3, <1>5, <1>6, <1>7, <1>9, OneKey
  <1> QED BY <1>2, <1>3, <1>10, SameData

(* A step of a thread does nothing to the clients.                         *)
LEMMA ThreadWaits ==
    ASSUME NEW s, NEW t, NEW T, NEW W, Agree(s), WaitsFor(s, T), ReadyOk(s, W),
           t.val = s.val, SameWait(s, t)
    PROVE  Agree(t) /\ WaitsFor(t, T) /\ ReadyOk(t, W)
  BY DEF Agree, WaitsFor, ReadyOk, SameWait

(* IOThreadEntryPoint(): the first job of the queue is taken.              *)
Fetched(s) ==
    [s EXCEPT !.newjobs = Tail(@),
              !.processing = @ \cup {[Head(s.newjobs) EXCEPT !.step = "taken"]}]

(* A thread takes a job from the queue.                                    *)
LEMMA JobFetched ==
    ASSUME NEW s, NEW D, NEW f, Core(s, D, f), s.newjobs # <<>>, NEW t, t = Fetched(s)
    PROVE  Core(t, D, f) /\ t.val = s.val /\ SameWait(s, t) /\ Loads(s, t)
  <1> DEFINE h == Head(s.newjobs)
             j == [h EXCEPT !.step = "taken"]
             N == Tail(s.newjobs)
  <1>1. s \in VmStates /\ Queues(s) /\ s.newjobs \in Seq(VmJobs) /\ s.processing \in SUBSET VmJobs
    BY Fields DEF Core
  <1>2. /\ N \in Seq(VmJobs) /\ h \in VmJobs /\ Range(s.newjobs) = Range(N) \cup {h}
        /\ NoTwice(N)
        /\ ~h.canceled => \A x \in Live(N) : x.key # h.key
    <2>1. NoTwice(s.newjobs)
      BY <1>1 DEF Queues
    <2> QED BY <1>1, <2>1, LiveTail
  <1>3. ~h.canceled /\ h.step = "queued"
    BY <1>1, <1>2 DEF Queues
  <1>4. /\ j \in VmJobs /\ j.key = h.key /\ j.type = h.type /\ j.page = h.page /\ j.mine = h.mine
        /\ ~j.canceled /\ j.step = "taken" /\ j.data = h.data
    BY <1>2, <1>3 DEF VmJobs
  <1> HIDE DEF h, N, j
  <1>5. t = [s EXCEPT !.newjobs = N, !.processing = s.processing \cup {j}]
    BY DEF Fetched, h, N, j
  <1>6. /\ t \in VmStates /\ t.newjobs = N /\ t.processing = s.processing \cup {j}
        /\ t.val = s.val /\ t.used = s.used /\ t.processed = s.processed /\ SameWait(s, t)
    <2> DEFINE P == s.processing \cup {j}
    <2>1. P \in SUBSET VmJobs
      BY <1>1, <1>4
    <2>2. t = [s EXCEPT !.newjobs = N, !.processing = P]
      BY <1>5
    <2> HIDE DEF P
    <2>3. /\ t \in VmStates /\ t.newjobs = N /\ t.processing = P
          /\ t.val = s.val /\ t.used = s.used /\ t.processed = s.processed /\ SameWait(s, t)
      BY <1>1, <1>2, <2>1, <2>2 DEF VmStates, SameWait
    <2> QED BY <2>3 DEF P
  <1>7. Live(s.newjobs) = Live(N) \cup {h}
    BY <1>2, <1>3 DEF Live
  <1>8. h \notin Live(N) /\ h \notin s.processing /\ h \notin Live(s.processed)
    BY <1>1, <1>2, <1>3 DEF Queues, Live
  <1>9. h \in Alive(s) /\ Alive(t) = (Alive(s) \ {h}) \cup {j}
    BY <1>6, <1>7, <1>8 DEF Alive
  <1>10. Moves(s, t, h, j)
    BY <1>4, <1>6, <1>9 DEF Moves
  <1>11. JobOk(j, s.val[h.key], D[h.key], f)
    <2>1. JobOk(h, s.val[h.key], D[h.key], f)
      BY <1>9 DEF Core
    <2> QED BY <1>4, <2>1 DEF JobOk
  <1>12. Queues(t)
    <2>1. \A a, b \in Alive(t) : a.key = b.key => a = b
      BY <1>1, <1>4, <1>9 DEF Queues
    <2>2. \A x \in Range(N) : ~x.canceled /\ x.step = "queued"
      BY <1>1, <1>2 DEF Queues
    <2>3. \A x \in t.processing : ~x.canceled /\ x.step # "queued"
      BY <1>1, <1>4, <1>6 DEF Queues
    <2>4. t.processing \cap Live(t.processed) = {}
      <3>1. j \notin Live(s.processed)
        BY <1>1, <1>4 DEF Queues, Live
      <3> QED BY <1>1, <1>6, <3>1 DEF Queues
    <2>5. NoTwice(t.processed) /\ \A x \in Range(t.processed) : x.step = "done"
      BY <1>1, <1>6 DEF Queues
    <2> QED BY <1>2, <1>6, <2>1, <2>2, <2>3, <2>4, <2>5 DEF Queues
  <1>13. Core(t, D, f)
    BY <1>10, <1>11, <1>12, Moved
  <1>14. Loads(s, t)
    BY <1>2, <1>4, <1>6 DEF Loads, OnlyLoads
  <1> QED BY <1>6, <1>13, <1>14

(* A job that is under way is the only live one of its key.                *)
LEMMA UnderWay ==
    ASSUME NEW s, Queues(s), NEW j \in s.processing
    PROVE  /\ j \in Alive(s) /\ \A x \in Alive(s) : x.key = j.key => x = j
           /\ \A x \in Live(s.processed) : x.key # j.key
           /\ \A x \in Live(s.newjobs) : x.key # j.key
  <1>1. j \in Alive(s) /\ \A x \in Alive(s) : x.key = j.key => x = j
    BY DEF Alive, Queues
  <1>2. \A x \in Live(s.processed) : x \in Alive(s) /\ x # j
    BY DEF Alive, Queues
  <1>3. \A x \in Live(s.newjobs) : x \in Alive(s) /\ x # j
    BY DEF Alive, Queues, Live
  <1> QED BY <1>1, <1>2, <1>3

(* The job j of the thread is j2 now, and still with it.                   *)
Works(s, j, j2) == [s EXCEPT !.processing = (@ \ {j}) \cup {j2}]

(* A thread has done the I/O of its job.                                   *)
LEMMA JobWorked ==
    ASSUME NEW s, NEW D, NEW f, Core(s, D, f), NEW j \in s.processing, NEW j2 \in VmJobs,
           j2.key = j.key, j2.type = j.type, j2.page = j.page, ~j2.canceled, j2.step = "done",
           JobOk(j2, s.val[j.key], D[j.key], f), NEW t, t = Works(s, j, j2)
    PROVE  Core(t, D, f) /\ t.val = s.val /\ SameWait(s, t) /\ Loads(s, t)
  <1>1. s \in VmStates /\ Queues(s) /\ s.processing \in SUBSET VmJobs
    BY Fields DEF Core
  <1>2. /\ t \in VmStates /\ t.newjobs = s.newjobs /\ t.processing = (s.processing \ {j}) \cup {j2}
        /\ t.val = s.val /\ t.used = s.used /\ t.processed = s.processed /\ SameWait(s, t)
    <2> DEFINE P == (s.processing \ {j}) \cup {j2}
    <2>1. P \in SUBSET VmJobs
      BY <1>1
    <2>2. t = [s EXCEPT !.processing = P]
      BY DEF Works
    <2> HIDE DEF P
    <2>3. /\ t \in VmStates /\ t.newjobs = s.newjobs /\ t.processing = P
          /\ t.val = s.val /\ t.used = s.used /\ t.processed = s.processed /\ SameWait(s, t)
      BY <1>1, <2>1, <2>2 DEF VmStates, SameWait
    <2> QED BY <2>3 DEF P
  <1>3. /\ j \in Alive(s) /\ \A x \in Alive(s) : x.key = j.key => x = j
        /\ \A x \in Live(s.processed) : x.key # j.key
        /\ \A x \in Live(s.newjobs) : x.key # j.key
    BY <1>1, UnderWay
  <1>4. Alive(t) = (Alive(s) \ {j}) \cup {j2}
    BY <1>2, <1>3 DEF Alive
  <1>5. Moves(s, t, j, j2)
    BY <1>2, <1>3, <1>4 DEF Moves
  <1>6. Queues(t)
    <2>1. \A a, b \in Alive(t) : a.key = b.key => a = b
      BY <1>3, <1>4, <1>1 DEF Queues
    <2>2. \A x \in t.processing : ~x.canceled /\ x.step # "queued"
      BY <1>1, <1>2 DEF Queues
    <2>3. t.processing \cap Live(t.processed) = {}
      BY <1>1, <1>2, <1>3 DEF Queues
    <2> QED BY <1>1, <1>2, <2>1, <2>2, <2>3 DEF Queues
  <1>7. Core(t, D, f)
    BY <1>5, <1>6, Moved
  <1>8. Loads(s, t)
    BY <1>2 DEF Loads, OnlyLoads
  <1> QED BY <1>2, <1>7, <1>8

(* The job goes to the main thread.                                        *)
Handed(s, j) == [s EXCEPT !.processing = @ \ {j}, !.processed = Append(@, j)]

(* A thread hands its job over.                                            *)
LEMMA JobHanded ==
    ASSUME NEW s, NEW D, NEW f, Core(s, D, f), NEW j \in s.processing, j.step = "done",
           NEW t, t = Handed(s, j)
    PROVE  Core(t, D, f) /\ t.val = s.val /\ SameWait(s, t) /\ Loads(s, t)
  <1> DEFINE Q == Append(s.processed, j)
  <1>1. /\ s \in VmStates /\ Queues(s) /\ s.processing \in SUBSET VmJobs
        /\ s.processed \in Seq(VmJobs) /\ j \in VmJobs /\ ~j.canceled /\ NoTwice(s.processed)
    BY Fields DEF Core, Queues
  <1>3. /\ j \in Alive(s) /\ \A x \in Alive(s) : x.key = j.key => x = j
        /\ \A x \in Live(s.processed) : x.key # j.key
        /\ \A x \in Live(s.newjobs) : x.key # j.key
    BY <1>1, UnderWay
  <1>4. /\ Q \in Seq(VmJobs) /\ Range(Q) = Range(s.processed) \cup {j}
        /\ Live(Q) = Live(s.processed) \cup {j} /\ NoTwice(Q)
    BY <1>1, <1>3, LiveAppend
  <1> HIDE DEF Q
  <1>2. /\ t \in VmStates /\ t.newjobs = s.newjobs /\ t.processing = s.processing \ {j}
        /\ t.val = s.val /\ t.used = s.used /\ t.processed = Q /\ SameWait(s, t)
    <2> DEFINE P == s.processing \ {j}
    <2>1. P \in SUBSET VmJobs
      BY <1>1
    <2>2. t = [s EXCEPT !.processing = P, !.processed = Q]
      BY DEF Handed, Q
    <2> HIDE DEF P
    <2>3. /\ t \in VmStates /\ t.newjobs = s.newjobs /\ t.processing = P
          /\ t.val = s.val /\ t.used = s.used /\ t.processed = Q /\ SameWait(s, t)
      BY <1>1, <1>4, <2>1, <2>2 DEF VmStates, SameWait
    <2> QED BY <2>3 DEF P
  <1>5. Alive(t) = (Alive(s) \ {j}) \cup {j}
    BY <1>2, <1>3, <1>4 DEF Alive
  <1>6. Moves(s, t, j, j)
    BY <1>1, <1>2, <1>3, <1>4, <1>5 DEF Moves
  <1>7. JobOk(j, s.val[j.key], D[j.key], f)
    BY <1>3 DEF Core
  <1>8. Queues(t)
    <2>1. \A a, b \in Alive(t) : a.key = b.key => a = b
      BY <1>1, <1>3, <1>5 DEF Queues
    <2>2. \A x \in t.processing : ~x.canceled /\ x.step # "queued"
      BY <1>1, <1>2 DEF Queues
    <2>3. t.processing \cap Live(t.processed) = {}
      BY <1>1, <1>2, <1>4 DEF Queues
    <2>4. \A x \in Range(Q) : x.step = "done"
      BY <1>1, <1>4 DEF Queues
    <2> QED BY <1>1, <1>2, <1>4, <2>1, <2>2, <2>3, <2>4 DEF Queues
  <1>9. Core(t, D, f)
    BY <1>6, <1>7, <1>8, Moved
  <1>10. Loads(s, t)
    BY <1>2 DEF Loads, OnlyLoads
  <1> QED BY <1>2, <1>9, <1>10

(* The child reads what it should as long as the file is left alone.       *)
LEMMA NoChildReads == ASSUME vmchild' = NoChild PROVE ChildReadsItsData'
  <1>1. \A k \in VmKeys : vmchild'.page[k] = -1
    BY DEF NoChild
  <1> QED BY <1>1 DEF ChildReadsItsData

(* A step that leaves the clients and the values alone.                    *)
LEMMA ThreadStep ==
    ASSUME VmInv, UNCHANGED <<vmcmd, vmdata, vmwrites, vmchild, vmloading, vmstuck>>,
           ~vmloading, Core(vm', vmdata, swapfile'), vm'.val = vm.val, SameWait(vm, vm'),
           Loads(vm, vm'), DOMAIN swapfile' = DOMAIN swapfile,
           vmchild # NoChild => swapfile' = swapfile
    PROVE  VmInv'
  <1>1. /\ VmTypes /\ Agree(vm) /\ WaitsFor(vm, vmstuck) /\ ReadyOk(vm, WaitSet)
    BY DEF VmInv
  <1>2. VmTypes' /\ WaitSet' = WaitSet
    BY <1>1 DEF VmTypes, WaitSet
  <1>3. Agree(vm') /\ WaitsFor(vm', vmstuck) /\ ReadyOk(vm', WaitSet)
    <2> DEFINE W == WaitSet
    <2>1. ReadyOk(vm, W)
      BY <1>1
    <2> HIDE DEF W
    <2>2. Agree(vm') /\ WaitsFor(vm', vmstuck) /\ ReadyOk(vm', W)
      BY <1>1, <2>1, ThreadWaits
    <2> QED BY <2>2 DEF W
  <1>4. VmChildOk'
    <2>1. (vmchild # NoChild => OnlyLoads(vm) /\ ~vmloading) /\ ChildReadsItsData
      BY DEF VmInv, VmChildOk
    <2>2. vmchild' # NoChild => OnlyLoads(vm') /\ ~vmloading'
      BY <2>1 DEF Loads
    <2>3. ChildReadsItsData'
      <3>1. CASE vmchild = NoChild
        BY <3>1, NoChildReads
      <3>2. CASE vmchild # NoChild
        <4>1. swapfile' = swapfile /\ vmchild' = vmchild
          BY <3>2
        <4> QED BY <2>1, <4>1, Zenon DEF ChildReadsItsData
      <3> QED BY <3>1, <3>2
    <2> QED BY <2>2, <2>3, Zenon DEF VmChildOk
  <1>5. VmStart'
    BY DEF VmStart
  <1>6. Core(vm', vmdata', swapfile') /\ WaitsFor(vm', vmstuck') /\ ReadyOk(vm', WaitSet')
    BY <1>2, <1>3
  <1> QED BY <1>2, <1>3, <1>4, <1>5, <1>6, Zenon DEF VmInv

(* IOThreadEntryPoint(), from the queue.                                   *)
LEMMA FetchStep == ASSUME VmInv, FetchJob PROVE VmInv'
  <1>1. /\ vm.newjobs # <<>> /\ vm' = Fetched(vm)
        /\ UNCHANGED <<vmcmd, swapfile, vmdata, vmwrites, vmchild, vmloading, vmstuck>>
    BY DEF FetchJob, Fetched
  <1>2. Core(vm, vmdata, swapfile) /\ ~vmloading
    BY <1>1 DEF VmInv, VmStart
  <1>3. Core(vm', vmdata, swapfile) /\ vm'.val = vm.val /\ SameWait(vm, vm') /\ Loads(vm, vm')
    BY <1>1, <1>2, JobFetched
  <1>4. swapfile' = swapfile
    BY <1>1
  <1> QED BY <1>1, <1>2, <1>3, <1>4, ThreadStep

(* IOThreadEntryPoint(), to the main thread.                               *)
LEMMA HandOverStep == ASSUME VmInv, HandOver PROVE VmInv'
  <1>1. PICK j \in vm.processing :
          /\ j.step = "done" /\ vm' = Handed(vm, j)
          /\ UNCHANGED <<vmcmd, swapfile, vmdata, vmwrites, vmchild, vmloading, vmstuck>>
    BY DEF HandOver, Handed
  <1>2. Core(vm, vmdata, swapfile) /\ ~vmloading
    BY <1>1 DEF VmInv, VmStart
  <1>3. Core(vm', vmdata, swapfile) /\ vm'.val = vm.val /\ SameWait(vm, vm') /\ Loads(vm, vm')
    BY <1>1, <1>2, JobHanded
  <1>4. swapfile' = swapfile
    BY <1>1
  <1> QED BY <1>1, <1>2, <1>3, <1>4, ThreadStep

(* Other threads.                                                          *)
LEMMA ThreadExitsStep == ASSUME VmInv, ThreadExits PROVE VmInv'
  <1>1. /\ vm' = [vm EXCEPT !.threads = vm.threads - 1]
        /\ UNCHANGED <<vmcmd, swapfile, vmdata, vmwrites, vmchild, vmloading, vmstuck>>
    BY DEF ThreadExits
  <1>2. Core(vm, vmdata, swapfile) /\ vm \in VmStates
    BY DEF VmInv, Core
  <1>3. vm' \in VmStates /\ SameCore(vm, vm') /\ SameWait(vm, vm')
    <2>1. vm.threads - 1 \in Int
      BY <1>2, Fields
    <2> QED BY <1>1, <1>2, <2>1 DEF VmStates, SameCore, SameWait
  <1>4. Core(vm', vmdata, swapfile)
    BY <1>2, <1>3, Framed
  <1>5. Loads(vm, vm') /\ vm'.val = vm.val /\ swapfile' = swapfile
    BY <1>1, <1>3 DEF Loads, OnlyLoads, SameCore
  <1>6. CASE ~vmloading
    BY <1>1, <1>3, <1>4, <1>5, <1>6, ThreadStep
  <1>7. CASE vmloading
    <2>1. /\ VmTypes /\ Agree(vm) /\ WaitsFor(vm, vmstuck) /\ ReadyOk(vm, WaitSet)
          /\ VmStart /\ VmChildOk
      BY DEF VmInv
    <2>2. VmTypes' /\ WaitSet' = WaitSet
      BY <1>1, <2>1 DEF VmTypes, WaitSet
    <2>3. Agree(vm') /\ WaitsFor(vm', vmstuck') /\ ReadyOk(vm', WaitSet')
      BY <1>1, <1>3, <2>1, <2>2 DEF Agree, WaitsFor, ReadyOk, SameWait, SameCore
    <2>4. VmStart'
      BY <1>1, <1>3, <2>1, <2>2 DEF VmStart, SameCore
    <2>5. VmChildOk'
      <3>1. vmchild' = NoChild
        BY <1>1, <1>7, <2>1 DEF VmChildOk
      <3> QED BY <3>1, NoChildReads DEF VmChildOk
    <2>6. Core(vm', vmdata', swapfile')
      BY <1>1, <1>4
    <2> QED BY <2>2, <2>3, <2>4, <2>5, <2>6, Zenon DEF VmInv
  <1> QED BY <1>6, <1>7

(* The swap file with the data d of k written to the pages from p on.      *)
FileWith(f, k, p, d) == [q \in DOMAIN f |-> IF q \in Cluster(k, p) THEN <<k, d>> ELSE f[q]]

HasPages(f) == DOMAIN f = 0..(VmPages - 1)

(* What such a file is like.                                               *)
LEMMA FileWithIs ==
    ASSUME NEW f, HasPages(f), NEW k \in VmKeys, NEW p, InFile(k, p), NEW d,
           NEW g, g = FileWith(f, k, p, d)
    PROVE  /\ HasPages(g) /\ Written(g, k, p, d)
           /\ \A q \in 0..(VmPages - 1) : q \notin Cluster(k, p) => g[q] = f[q]
  BY DEF FileWith, InFile, Written, HasPages

(* A thread does the I/O of its job.                                       *)
LEMMA DoJobStep == ASSUME VmInv, DoJob, VmWriteFails = FALSE PROVE VmInv'
  <1>1. PICK j \in vm.processing, failed \in BOOLEAN :
          /\ j.step = "taken"
          /\ failed => VmWriteFails /\ j.type = "do"
          /\ vm' = Works(vm, j, Worked(j, failed))
          /\ swapfile' = IF j.type = "do" /\ ~failed
                         THEN FileWith(swapfile, j.key, j.page, vm.val[j.key].data) ELSE swapfile
          /\ UNCHANGED <<vmcmd, vmdata, vmwrites, vmchild, vmloading, vmstuck>>
    BY Zenon DEF DoJob, Works, FileWith
  <1> DEFINE k == j.key
             v == vm.val[k]
             j2 == Worked(j, FALSE)
  <1>2. failed = FALSE
    BY <1>1
  <1>3. /\ vm' = Works(vm, j, j2)
        /\ swapfile' = IF j.type = "do" THEN FileWith(swapfile, k, j.page, v.data) ELSE swapfile
    BY <1>1, <1>2
  <1>4. /\ Core(vm, vmdata, swapfile) /\ ~vmloading /\ DOMAIN swapfile = 0..(VmPages - 1)
        /\ vm \in VmStates /\ Queues(vm)
    BY DEF VmInv, VmStart, VmTypes, Core
  <1>5. j \in Alive(vm) /\ j \in VmJobs /\ k \in VmKeys /\ ~j.canceled
    BY <1>4, AliveType DEF Alive, Queues
  <1>6. /\ KeyPart(vm, k, vmdata[k], swapfile) /\ vmdata[k] \in Nat /\ v \in VmVals /\ PagesOk(vm)
    BY <1>4, <1>5, KeyFacts
  <1>7. KeyOk(v, k, vmdata[k], swapfile) /\ JobOk(j, v, vmdata[k], swapfile)
    BY <1>5, <1>6 DEF KeyPart
  <1>8. /\ j.type = "load" => swapfile[j.page][2] = vmdata[k]
    <2> SUFFICES ASSUME j.type = "load" PROVE swapfile[j.page][2] = vmdata[k]
      OBVIOUS
    <2>1. v.storage = "loading" /\ j.page = v.page
      BY <1>7 DEF JobOk
    <2>2. v.page \in Int /\ Written(swapfile, k, v.page, vmdata[k])
      BY <1>6, <1>7, <2>1 DEF KeyOk, VmVals
    <2>3. v.page \in Cluster(k, v.page)
      BY <1>5, <2>2, ClusterInt
    <2>4. swapfile[v.page] = <<k, vmdata[k]>>
      BY <2>2, <2>3 DEF Written
    <2> QED BY <2>1, <2>4
  <1>9. /\ j2 \in VmJobs /\ j2.key = k /\ j2.type = j.type /\ j2.page = j.page /\ j2.mine = j.mine
        /\ ~j2.canceled /\ j2.step = "done"
        /\ j.type = "load" => j2.data = vmdata[k]
    <2> DEFINE d == IF j.type = "load" THEN swapfile[j.page][2] ELSE j.data
    <2>1. d \in Nat
      BY <1>5, <1>6, <1>8 DEF VmJobs
    <2>2. j2 = [j EXCEPT !.step = "done", !.canceled = FALSE, !.data = d]
      BY DEF Worked
    <2> HIDE DEF d, j2
    <2>3. /\ j2 \in VmJobs /\ j2.key = k /\ j2.type = j.type /\ j2.page = j.page /\ j2.mine = j.mine
          /\ ~j2.canceled /\ j2.step = "done" /\ j2.data = d
      BY <1>5, <2>1, <2>2 DEF VmJobs
    <2> QED BY <1>8, <2>3 DEF d
  <1> HIDE DEF j2
  <1>10. /\ Core(vm, vmdata, swapfile') /\ DOMAIN swapfile' = DOMAIN swapfile
         /\ vmchild # NoChild => swapfile' = swapfile
         /\ j.type = "do" => Written(swapfile', k, j.page, vmdata[k])
    <2>1. CASE j.type # "do"
      BY <1>3, <1>4, <2>1
    <2>2. CASE j.type = "do"
      <3>1. InFile(k, j.page) /\ v.storage = "swapping"
        BY <1>7, <2>2 DEF JobOk
      <3>2. v.data = vmdata[k]
        BY <1>7, <3>1 DEF KeyOk
      <3>3. swapfile' = FileWith(swapfile, k, j.page, vmdata[k])
        BY <1>3, <2>2, <3>2
      <3>4. /\ DOMAIN swapfile' = DOMAIN swapfile /\ Written(swapfile', k, j.page, vmdata[k])
            /\ \A q \in 0..(VmPages - 1) : q \notin Cluster(k, j.page) => swapfile'[q] = swapfile[q]
        <4> DEFINE e == vmdata[k]
                   pg == j.page
        <4>1. /\ HasPages(swapfile) /\ InFile(k, pg) /\ k \in VmKeys
              /\ swapfile' = FileWith(swapfile, k, pg, e)
          BY <1>4, <1>5, <3>1, <3>3 DEF HasPages
        <4> HIDE DEF e, pg, k
        <4>2. /\ HasPages(swapfile') /\ Written(swapfile', k, pg, e)
              /\ \A q \in 0..(VmPages - 1) : q \notin Cluster(k, pg) => swapfile'[q] = swapfile[q]
          BY <4>1, FileWithIs
        <4> QED BY <1>4, <4>2 DEF e, pg, HasPages
      <3>5. vmchild = NoChild
        BY <2>2 DEF VmInv, VmChildOk, OnlyLoads
      <3>6. ASSUME NEW l \in VmKeys, NEW p \in Own(vm, l)
            PROVE  swapfile'[p] = swapfile[p] \/ swapfile'[p] = <<l, vmdata[l]>>
        <4>1. p \in 0..(VmPages - 1)
          BY <1>4, OwnInFile
        <4>2. CASE p \notin Cluster(k, j.page)
          BY <3>4, <4>1, <4>2
        <4>3. CASE p \in Cluster(k, j.page)
          <5>1. p \in Own(vm, k)
            BY <1>5, <2>2, <4>1, <4>3 DEF Own, Writes
          <5>2. l = k
            BY <1>5, <1>6, <5>1 DEF PagesOk
          <5> QED BY <3>4, <4>3, <5>2 DEF Written
        <4> QED BY <4>2, <4>3
      <3>7. Core(vm, vmdata, swapfile')
        BY <1>4, <3>6, FileChanged
      <3> QED BY <3>4, <3>5, <3>7
    <2> QED BY <2>1, <2>2
  <1>11. JobOk(j2, v, vmdata[k], swapfile')
    BY <1>7, <1>9, <1>10 DEF JobOk
  <1>12. Core(vm', vmdata, swapfile') /\ vm'.val = vm.val /\ SameWait(vm, vm') /\ Loads(vm, vm')
    BY <1>3, <1>9, <1>10, <1>11, JobWorked
  <1> QED BY <1>1, <1>4, <1>10, <1>12, ThreadStep

-----------------------------------------------------------------------------
(* Start up, serverCron() and the child. *)

(* A step of the start up: no jobs, no clients, no child.                  *)
LEMMA StartStep ==
    ASSUME VmInv, vmloading, UNCHANGED <<vmcmd, vmwrites, vmchild, vmloading, vmstuck>>,
           NEW k \in VmKeys, Core(vm', vmdata', swapfile'), Aside(vm, vm', k),
           vm'.newjobs = vm.newjobs, vm'.processed = vm.processed, HasPages(swapfile')
    PROVE  VmInv'
  <1>1. /\ VmTypes /\ Agree(vm) /\ ReadyOk(vm, WaitSet) /\ VmStart /\ VmChildOk
    BY DEF VmInv
  <1>2. VmTypes' /\ WaitSet' = WaitSet /\ WaitSet = {}
    BY <1>1 DEF VmTypes, WaitSet, HasPages, VmStart
  <1>3. VmStart'
    BY <1>1, <1>2 DEF VmStart, Aside
  <1>4. VmChildOk'
    <2>1. vmchild' = NoChild
      BY <1>1 DEF VmChildOk
    <2> QED BY <2>1, NoChildReads DEF VmChildOk
  <1>5. Agree(vm') /\ ReadyOk(vm', WaitSet')
    BY <1>1, <1>2 DEF Agree, ReadyOk, Aside, SameWait
  <1>6. WaitsFor(vm', vmstuck')
    <2>1. \A c \in VmClients : Range(vm'.io_keys[c]) = {}
      BY <1>2, <1>5 DEF ReadyOk, Range
    <2> QED BY <2>1 DEF WaitsFor
  <1> QED BY <1>2, <1>3, <1>4, <1>5, <1>6, Zenon DEF VmInv

(* A key is loaded at start up.                                            *)
LEMMA LoadKeyStep == ASSUME VmInv, LoadKey PROVE VmInv'
  <1> DEFINE d == VmMaxWrites + 1
  <1>1. PICK k \in VmKeys :
          /\ vmloading /\ vmdata[k] = 0 /\ vmdata' = [vmdata EXCEPT ![k] = d]
          /\ vm' = PutInMemory(vm, k, d)
          /\ UNCHANGED <<vmcmd, swapfile, vmwrites, vmchild, vmloading, vmstuck>>
    BY Zenon DEF LoadKey, PutInMemory
  <1>2. d \in Nat \ {0}
    BY VmAssumption
  <1> HIDE DEF d
  <1>3. Core(vm, vmdata, swapfile) /\ vm \in VmStates /\ HasPages(swapfile)
    BY DEF VmInv, Core, VmTypes, HasPages
  <1>4. vm.val[k].storage \in {"none", "memory"}
    <2>1. KeyPart(vm, k, vmdata[k], swapfile)
      BY <1>3, KeyFacts
    <2> QED BY <1>1, <2>1 DEF KeyPart, KeyOk
  <1>5. Core(vm', vmdata', swapfile) /\ Aside(vm, vm', k)
    BY <1>1, <1>2, <1>3, <1>4, SetValue
  <1>6. vm'.newjobs = vm.newjobs /\ vm'.processed = vm.processed
    BY <1>1, <1>3 DEF PutInMemory, VmStates
  <1>7. Core(vm', vmdata', swapfile') /\ HasPages(swapfile')
    BY <1>1, <1>3, <1>5
  <1> QED BY <1>1, <1>5, <1>6, <1>7, StartStep

(* The value of k is on the pages from p on.                               *)
OnPages(p) == [storage |-> "swapped", data |-> 0, page |-> p]
IsSwappedOut(s, t, k, p) == IsWithVal(s, t, k, OnPages(p), s.used \cup Cluster(k, p))

(* The value is out, and its pages are marked.                             *)
LEMMA SwappedOut ==
    ASSUME NEW s, NEW D, NEW f, Core(s, D, f), NEW k \in VmKeys, s.val[k].storage = "memory",
           NEW p, InFile(k, p), Cluster(k, p) \cap s.used = {}, Written(f, k, p, D[k]),
           NEW t, IsSwappedOut(s, t, k, p)
    PROVE  /\ Core(t, D, f) /\ Aside(s, t, k) /\ Loads(s, t) /\ t.newjobs = s.newjobs
           /\ t.processed = s.processed /\ t.val[k].storage = "swapped"
  <1> DEFINE v == OnPages(p)
             U == s.used \cup Cluster(k, p)
  <1>1. /\ s \in VmStates /\ D \in [VmKeys -> Nat] /\ D[k] \in Nat /\ Queues(s)
        /\ KeyPart(s, k, D[k], f) /\ p \in Int /\ p # -1
    BY KeyFacts DEF InFile
  <1>2. v \in VmVals /\ v.page = p /\ v.storage = "swapped"
    BY <1>1 DEF VmVals, OnPages
  <1>3. U \in SUBSET Int /\ Cluster(k, p) \subseteq Int
    BY <1>1, ClusterInt, Fields
  <1>4. IsWithVal(s, t, k, v, U)
    BY DEF IsSwappedOut
  <1> HIDE DEF v, U
  <1>5. /\ t \in VmStates /\ t.val[k] = v /\ t.newjobs = s.newjobs
        /\ t.processed = s.processed /\ t.used = U /\ Aside(s, t, k)
    BY <1>1, <1>2, <1>3, <1>4, WithVal
  <1>6. FreeOf(s, k)
    BY NotOnItsWay DEF OnItsWay
  <1>7. Alive(t) = Alive(s) /\ t.processing = s.processing
    BY <1>5 DEF Alive, Aside
  <1>8. Queues(t) /\ FreeOf(t, k) /\ SameBut(s, t, k)
    BY <1>1, <1>5, <1>6, <1>7 DEF Queues, FreeOf, SameBut, Aside
  <1>9. KeyPart(t, k, D[k], f)
    <2>1. D[k] # 0
      BY <1>1 DEF KeyPart, KeyOk
    <2>2. KeyOk(v, k, D[k], f) /\ ~OnItsWay(v)
      BY <1>2, <2>1 DEF KeyOk, OnItsWay
    <2> QED BY <1>5, <1>8, <2>2 DEF KeyPart, FreeOf
  <1>10. LeftPart(s, t, k)
    BY <1>2, <1>5 DEF LeftPart
  <1>11. Own(s, k) = {} /\ Own(t, k) = Cluster(k, p)
    <2>1. s.val[k].page = -1
      BY <1>1 DEF KeyPart, KeyOk
    <2>2. Own(s, k) = {}
      BY <1>6, <2>1, FreePages
    <2>3. Own(t, k) = Cluster(k, p)
      BY <1>1, <1>2, <1>5, <1>8, FreeWrites, OwnNoWrites
    <2> QED BY <2>2, <2>3
  <1>12. PagePart(s, t, k)
    BY <1>3, <1>5, <1>11 DEF PagePart, U
  <1>13. Core(t, [D EXCEPT ![k] = D[k]], f)
    BY <1>1, <1>5, <1>8, <1>9, <1>10, <1>12, OneKey
  <1>14. Loads(s, t)
    BY <1>5, <1>7 DEF Loads, OnlyLoads
  <1> QED BY <1>1, <1>2, <1>5, <1>13, <1>14, SameData

(* A free cluster.                                                         *)
LEMMA FreeClusterIs ==
    ASSUME NEW s, NEW k \in VmKeys, NEW p \in FreeClusters(s, k)
    PROVE  InFile(k, p) /\ Cluster(k, p) \cap s.used = {}
  BY VmAssumption DEF FreeClusters, InFile

(* vmSwapObjectBlocking()                                                  *)
LEMMA SwapBlockingStep == ASSUME VmInv, vmSwapObjectBlocking PROVE VmInv'
  <1>a. PICK k \in Swappable(vm) : \E p \in FreeClusters(vm, k) :
          /\ vmloading /\ swapfile' = FileWith(swapfile, k, p, vm.val[k].data)
          /\ vm' = [vm EXCEPT !.val[k] = OnPages(p), !.used = @ \cup Cluster(k, p)]
          /\ UNCHANGED <<vmcmd, vmdata, vmwrites, vmchild, vmloading, vmstuck>>
    BY Zenon DEF vmSwapObjectBlocking, FileWith, OnPages
  <1>1. PICK p \in FreeClusters(vm, k) :
          /\ vmloading /\ swapfile' = FileWith(swapfile, k, p, vm.val[k].data)
          /\ vm' = [vm EXCEPT !.val[k] = OnPages(p), !.used = @ \cup Cluster(k, p)]
          /\ UNCHANGED <<vmcmd, vmdata, vmwrites, vmchild, vmloading, vmstuck>>
    BY <1>a, Zenon
  <1>2. k \in VmKeys /\ vm.val[k].storage = "memory"
    BY DEF Swappable
  <1>3. InFile(k, p) /\ Cluster(k, p) \cap vm.used = {}
    BY <1>2, FreeClusterIs
  <1>4. Core(vm, vmdata, swapfile) /\ vm \in VmStates /\ HasPages(swapfile)
    BY DEF VmInv, Core, VmTypes, HasPages
  <1> DEFINE d == vmdata[k]
  <1>5. vm.val[k].data = d
    <2>1. KeyPart(vm, k, vmdata[k], swapfile)
      BY <1>2, <1>4, KeyFacts
    <2> QED BY <1>2, <2>1 DEF KeyPart, KeyOk
  <1>6. swapfile' = FileWith(swapfile, k, p, d)
    BY <1>1, <1>5
  <1> HIDE DEF d
  <1>7. /\ HasPages(swapfile') /\ Written(swapfile', k, p, d)
        /\ \A q \in 0..(VmPages - 1) : q \notin Cluster(k, p) => swapfile'[q] = swapfile[q]
    BY <1>2, <1>3, <1>4, <1>6, FileWithIs
  <1>8. ASSUME NEW l \in VmKeys, NEW q \in Own(vm, l) PROVE swapfile'[q] = swapfile[q]
    <2>1. q \in 0..(VmPages - 1) /\ q \in vm.used
      BY <1>4, OwnInFile
    <2> QED BY <1>3, <1>7, <2>1
  <1>9. Core(vm, vmdata, swapfile')
    BY <1>4, <1>8, FileChanged
  <1>10. IsSwappedOut(vm, vm', k, p)
    BY <1>1, <1>2, <1>4, Zenon DEF IsSwappedOut, IsWithVal
  <1>11. /\ Core(vm', vmdata, swapfile') /\ Aside(vm, vm', k) /\ vm'.newjobs = vm.newjobs
         /\ vm'.processed = vm.processed
    BY <1>2, <1>3, <1>7, <1>9, <1>10, SwappedOut DEF d
  <1>12. Core(vm', vmdata', swapfile')
    BY <1>1, <1>11
  <1> QED BY <1>1, <1>2, <1>7, <1>11, <1>12, StartStep

(* The start up ends.                                                      *)
LEMMA LoadingEndsStep == ASSUME VmInv, LoadingEnds PROVE VmInv'
  <1>1. /\ vmloading' = FALSE
        /\ UNCHANGED <<vm, vmcmd, swapfile, vmdata, vmwrites, vmchild, vmstuck>>
    BY DEF LoadingEnds
  <1>2. VmTypes' /\ WaitSet' = WaitSet
    BY <1>1 DEF VmInv, VmTypes, WaitSet
  <1>3. VmChildOk'
    BY <1>1 DEF VmInv, VmChildOk, ChildReadsItsData
  <1>4. VmStart'
    BY <1>1 DEF VmStart
  <1> QED BY <1>1, <1>2, <1>3, <1>4 DEF VmInv

(* A value that may be swapped out is nobody's.                            *)
LEMMA SwappableIs ==
    ASSUME NEW s, NEW k \in Swappable(s)
    PROVE  k \in VmKeys /\ s.val[k].storage = "memory" /\ NotMine(s, k)
  BY DEF Swappable, Jobs, NotMine

(* serverCron()                                                            *)
LEMMA SwapOneStep == ASSUME VmInv, vmSwapOneObject PROVE VmInv'
  <1>1. PICK k \in Swappable(vm) :
          /\ ~vmloading /\ vmchild = NoChild /\ vm' = vmSwapObjectThreaded(vm, k)
          /\ UNCHANGED <<vmcmd, swapfile, vmdata, vmwrites, vmchild, vmloading, vmstuck>>
    BY Zenon DEF vmSwapOneObject, vmCanSwapOut
  <1>2. k \in VmKeys /\ vm.val[k].storage = "memory" /\ NotMine(vm, k)
    BY SwappableIs
  <1>3. /\ VmTypes /\ Full(vm, vmdata, vmstuck, WaitSet) /\ Core(vm, vmdata, swapfile)
    BY FullNow DEF Full
  <1>4. Core(vm', vmdata, swapfile) /\ Aside(vm, vm', k)
    BY <1>1, <1>2, <1>3, SwapStarted
  <1>5. Full(vm', vmdata, vmstuck, WaitSet)
    BY <1>2, <1>3, <1>4, AsideWaits
  <1>6. VmTypes' /\ WaitSet' = WaitSet /\ VmStart'
    BY <1>1, <1>3 DEF VmTypes, WaitSet, VmStart
  <1>7. VmChildOk'
    BY <1>1, NoChildReads DEF VmChildOk
  <1>8. /\ Core(vm', vmdata', swapfile') /\ Agree(vm') /\ WaitsFor(vm', vmstuck')
        /\ ReadyOk(vm', WaitSet')
    BY <1>1, <1>5, <1>6 DEF Full
  <1> QED BY <1>6, <1>7, <1>8, Zenon DEF VmInv

(* fork()                                                                  *)
LEMMA ForkStep == ASSUME VmInv, vmFork PROVE VmInv'
  <1>1. /\ ~vmloading /\ vm.newjobs = <<>> /\ vm.processing = {}
        /\ vmchild' = [state |-> "running", page |-> [k \in VmKeys |-> vm.val[k].page],
                       data |-> [k \in VmKeys |-> IF vm.val[k].page = -1 THEN 0 ELSE vmdata[k]]]
        /\ UNCHANGED <<vm, vmcmd, swapfile, vmdata, vmwrites, vmloading, vmstuck>>
    BY DEF vmFork
  <1>2. VmTypes' /\ WaitSet' = WaitSet /\ VmStart'
    BY <1>1 DEF VmInv, VmTypes, WaitSet, VmStart
  <1>3. OnlyLoads(vm')
    <2>1. Range(vm.newjobs) = {}
      BY <1>1 DEF Range
    <2> QED BY <1>1, <2>1 DEF OnlyLoads
  <1>4. ChildReadsItsData'
    <2> SUFFICES ASSUME NEW k \in VmKeys, vmchild'.page[k] # -1,
                        NEW p \in Cluster(k, vmchild'.page[k])
                 PROVE  swapfile'[p] = <<k, vmchild'.data[k]>>
      BY DEF ChildReadsItsData
    <2> DEFINE v == vm.val[k]
    <2>1. vmchild'.page[k] = v.page /\ v.page # -1 /\ vmchild'.data[k] = vmdata[k]
      BY <1>1
    <2>2. KeyPart(vm, k, vmdata[k], swapfile) /\ v \in VmVals
      BY KeyFacts DEF VmInv
    <2>3. v.storage \in {"none", "memory", "swapping", "swapped", "loading"}
      BY <2>2 DEF VmVals
    <2>4. KeyOk(v, k, vmdata[k], swapfile)
      BY <2>2 DEF KeyPart
    <2> HIDE DEF v
    <2>5. Written(swapfile, k, v.page, vmdata[k])
      BY <2>1, <2>3, <2>4 DEF KeyOk
    <2> QED BY <1>1, <2>1, <2>5 DEF Written
  <1>5. VmChildOk'
    BY <1>1, <1>3, <1>4 DEF VmChildOk
  <1>6. /\ Core(vm', vmdata', swapfile') /\ Agree(vm') /\ WaitsFor(vm', vmstuck')
        /\ ReadyOk(vm', WaitSet')
    BY <1>1, <1>2 DEF VmInv
  <1> QED BY <1>2, <1>5, <1>6, Zenon DEF VmInv

(* The child is gone.                                                      *)
LEMMA ChildExitsStep == ASSUME VmInv, vmChildExits PROVE VmInv'
  <1>1. /\ vmchild' = NoChild
        /\ UNCHANGED <<vm, vmcmd, swapfile, vmdata, vmwrites, vmloading, vmstuck>>
    BY DEF vmChildExits
  <1>2. VmTypes' /\ WaitSet' = WaitSet /\ VmStart'
    BY <1>1 DEF VmInv, VmTypes, WaitSet, VmStart
  <1>3. VmChildOk'
    BY <1>1, NoChildReads DEF VmChildOk
  <1>4. /\ Core(vm', vmdata', swapfile') /\ Agree(vm') /\ WaitsFor(vm', vmstuck')
        /\ ReadyOk(vm', WaitSet')
    BY <1>1, <1>2 DEF VmInv
  <1> QED BY <1>2, <1>3, <1>4, Zenon DEF VmInv

-----------------------------------------------------------------------------
(* Completed jobs. *)

(* The first of the processed jobs is taken.                               *)
TakenOff(s) == [s EXCEPT !.processed = Tail(@)]

(* What such a state is like.                                              *)
LEMMA TakenOffIs ==
    ASSUME NEW s \in VmStates, s.processed # <<>>, NEW t, t = TakenOff(s)
    PROVE  /\ t \in VmStates /\ t.processed = Tail(s.processed) /\ t.val = s.val
           /\ t.newjobs = s.newjobs /\ t.processing = s.processing /\ t.used = s.used
           /\ SameWait(s, t) /\ Head(s.processed) \in VmJobs
  <1> DEFINE N == Tail(s.processed)
  <1>1. N \in Seq(VmJobs) /\ Head(s.processed) \in VmJobs
    BY Fields, LiveTail
  <1>2. t = [s EXCEPT !.processed = N]
    BY DEF TakenOff
  <1> HIDE DEF N
  <1>3. /\ t \in VmStates /\ t.processed = N /\ t.val = s.val
        /\ t.newjobs = s.newjobs /\ t.processing = s.processing /\ t.used = s.used
        /\ SameWait(s, t)
    BY <1>1, <1>2 DEF VmStates, SameWait
  <1> QED BY <1>1, <1>3 DEF N

(* A cancelled job has left nothing to do.                                 *)
LEMMA CanceledOff ==
    ASSUME NEW s, NEW D, NEW f, Core(s, D, f), s.processed # <<>>,
           NEW j, j = Head(s.processed), j.canceled, NEW t, t = TakenOff(s)
    PROVE  Core(t, D, f) /\ t.val = s.val /\ SameWait(s, t) /\ Loads(s, t) /\ Undo(t, j) = t
  <1> DEFINE N == Tail(s.processed)
             k == j.key
  <1>1. s \in VmStates /\ Queues(s) /\ LeftAlone(s) /\ PagesOk(s) /\ s.processed \in Seq(VmJobs)
    BY Fields DEF Core
  <1>2. /\ t \in VmStates /\ t.processed = N /\ t.val = s.val
        /\ t.newjobs = s.newjobs /\ t.processing = s.processing /\ t.used = s.used
        /\ SameWait(s, t) /\ j \in VmJobs
    BY <1>1, TakenOffIs
  <1>3. Range(s.processed) = Range(N) \cup {j} /\ NoTwice(N)
    <2>1. NoTwice(s.processed)
      BY <1>1 DEF Queues
    <2> QED BY <1>1, <2>1, LiveTail
  <1> HIDE DEF N
  <1>4. Live(N) = Live(s.processed)
    BY <1>3 DEF Live
  <1>5. Alive(t) = Alive(s)
    BY <1>2, <1>4 DEF Alive
  <1>6. Queues(t)
    BY <1>1, <1>2, <1>3, <1>4, <1>5 DEF Queues
  <1>7. LeftAlone(t)
    BY <1>1, <1>2, <1>3 DEF LeftAlone
  <1>8. PagesOk(t)
    <2>1. \A x \in VmKeys : Own(t, x) = Own(s, x)
      BY <1>2, <1>5 DEF Own, Writes
    <2> QED BY <1>1, <1>2, <2>1 DEF PagesOk
  <1>9. Core(t, D, f)
    BY <1>2, <1>5, <1>6, <1>7, <1>8 DEF Core
  <1>10. Loads(s, t)
    BY <1>2 DEF Loads, OnlyLoads
  <1>11. Undo(t, j) = t
    <2>1. j.mine /\ j.type # "load" => s.val[k].storage # "swapping"
      BY <1>1, <1>3 DEF LeftAlone
    <2> QED BY <1>2, <2>1 DEF Undo
  <1> QED BY <1>2, <1>9, <1>10, <1>11

(* A live job has gone, with the pages it was to write, and its value is   *)
(* where it was before.                                                    *)
Withdrawn(s, j) ==
    LET k == j.key IN
    [s EXCEPT !.processed = Tail(@),
              !.val[k].storage = IF j.type = "load" THEN "swapped" ELSE "memory",
              !.used = IF j.type = "do" THEN @ \ Cluster(k, j.page) ELSE @]

IsWithdrawn(s, j, k, u) ==
    /\ u \in VmStates /\ u.processed = Tail(s.processed) /\ u.newjobs = s.newjobs
    /\ Aside(s, u, k)
    /\ u.used = IF j.type = "do" THEN s.used \ Cluster(k, j.page) ELSE s.used
    /\ u.val[k].storage = IF j.type = "load" THEN "swapped" ELSE "memory"
    /\ u.val[k].data = s.val[k].data /\ u.val[k].page = s.val[k].page

(* Withdrawn(s, j) is that state.                                          *)
LEMMA WithdrawnIs ==
    ASSUME NEW s \in VmStates, s.processed # <<>>, NEW j \in VmJobs, NEW u, u = Withdrawn(s, j)
    PROVE  IsWithdrawn(s, j, j.key, u)
  <1> DEFINE k == j.key
             st == IF j.type = "load" THEN "swapped" ELSE "memory"
             U == IF j.type = "do" THEN s.used \ Cluster(k, j.page) ELSE s.used
             N == Tail(s.processed)
             V == [s.val EXCEPT ![k].storage = st]
  <1>1. N \in Seq(VmJobs) /\ k \in VmKeys /\ s.val \in [VmKeys -> VmVals] /\ s.used \in SUBSET Int
    BY Fields, LiveTail DEF VmJobs
  <1>2. u = [s EXCEPT !.processed = N, !.val = V, !.used = U]
    BY DEF Withdrawn
  <1>3. U \in SUBSET Int
    BY <1>1
  <1>4. st \in {"swapped", "memory"}
    OBVIOUS
  <1> HIDE DEF st, U, N, k
  <1>5. /\ V \in [VmKeys -> VmVals] /\ V[k].storage = st /\ V[k].data = s.val[k].data
        /\ V[k].page = s.val[k].page /\ \A x \in VmKeys : x # k => V[x] = s.val[x]
    <2> DEFINE v == [s.val[k] EXCEPT !.storage = st]
    <2>1. s.val[k] \in VmVals
      BY <1>1
    <2>2. v \in VmVals /\ v.storage = st /\ v.data = s.val[k].data /\ v.page = s.val[k].page
      BY <1>4, <2>1 DEF VmVals
    <2>3. V = [s.val EXCEPT ![k] = v]
      BY <1>1
    <2> HIDE DEF v, V
    <2> QED BY <1>1, <2>2, <2>3
  <1> HIDE DEF V
  <1>6. /\ u \in VmStates /\ u.processed = N /\ u.newjobs = s.newjobs /\ u.val = V
        /\ u.used = U /\ u.processing = s.processing /\ SameWait(s, u)
    BY <1>1, <1>2, <1>3, <1>5 DEF VmStates, SameWait
  <1>7. Aside(s, u, k)
    BY <1>5, <1>6 DEF Aside
  <1>8. u.used = U /\ u.processed = N /\ u.val[k].storage = st
    BY <1>5, <1>6
  <1> QED BY <1>5, <1>6, <1>7, <1>8 DEF N, U, st, k, IsWithdrawn

(* What is known of the live job j at the head of the processed ones.      *)
LEMMA HeadJob ==
    ASSUME NEW s, NEW D, NEW f, Core(s, D, f), s.processed # <<>>,
           NEW j, j = Head(s.processed), ~j.canceled
    PROVE  /\ j \in VmJobs /\ j.key \in VmKeys /\ j \in Alive(s) /\ j.step = "done"
           /\ JobOk(j, s.val[j.key], D[j.key], f)
           /\ \A x \in Alive(s) : x.key = j.key => x = j
           /\ Range(s.processed) = Range(Tail(s.processed)) \cup {j}
           /\ NoTwice(Tail(s.processed))
           /\ Live(s.processed) = Live(Tail(s.processed)) \cup {j}
           /\ \A x \in Live(Tail(s.processed)) : x.key # j.key
           /\ j \notin s.processing /\ j \notin Live(s.newjobs)
  <1>1. s \in VmStates /\ Queues(s) /\ s.processed \in Seq(VmJobs)
    BY Fields DEF Core
  <1>2. /\ j \in VmJobs /\ Range(s.processed) = Range(Tail(s.processed)) \cup {j}
        /\ NoTwice(Tail(s.processed))
        /\ \A x \in Live(Tail(s.processed)) : x.key # j.key
    <2>1. NoTwice(s.processed)
      BY <1>1 DEF Queues
    <2> QED BY <1>1, <2>1, LiveTail
  <1>3. j \in Live(s.processed) /\ j \in Alive(s)
    BY <1>2 DEF Live, Alive
  <1>4. j.key \in VmKeys /\ JobOk(j, s.val[j.key], D[j.key], f)
    BY <1>1, <1>3, AliveType DEF Core
  <1>5. \A x \in Alive(s) : x.key = j.key => x = j
    BY <1>1, <1>3 DEF Queues
  <1>6. j.step = "done" /\ j \notin s.processing /\ j \notin Live(s.newjobs)
    BY <1>1, <1>2, <1>3 DEF Queues, Live
  <1>7. Live(s.processed) = Live(Tail(s.processed)) \cup {j}
    BY <1>2 DEF Live
  <1> QED BY <1>2, <1>3, <1>4, <1>5, <1>6, <1>7

(* Withdrawing a live job leaves a sound state, with no job of the key.    *)
LEMMA LiveOff ==
    ASSUME NEW s, NEW D, NEW f, Core(s, D, f), s.processed # <<>>,
           NEW j, j = Head(s.processed), ~j.canceled, NEW u, u = Withdrawn(s, j)
    PROVE  /\ Core(u, D, f) /\ FreeOf(u, j.key) /\ Loads(s, u)
           /\ j.type # "load" => NotMine(u, j.key)
  <1> DEFINE k == j.key
             N == Tail(s.processed)
  <1>1. /\ j \in VmJobs /\ k \in VmKeys /\ j \in Alive(s) /\ j.step = "done"
        /\ JobOk(j, s.val[k], D[k], f)
        /\ \A x \in Alive(s) : x.key = k => x = j
        /\ Range(s.processed) = Range(N) \cup {j} /\ NoTwice(N)
        /\ Live(s.processed) = Live(N) \cup {j}
        /\ \A x \in Live(N) : x.key # k
        /\ j \notin s.processing /\ j \notin Live(s.newjobs)
    BY HeadJob
  <1>2. /\ s \in VmStates /\ D \in [VmKeys -> Nat] /\ D[k] \in Nat /\ Queues(s)
        /\ LeftAlone(s) /\ PagesOk(s) /\ KeyPart(s, k, D[k], f) /\ s.val[k] \in VmVals
    BY <1>1, KeyFacts
  <1>3. /\ u \in VmStates /\ u.processed = N /\ u.newjobs = s.newjobs
        /\ Aside(s, u, k)
        /\ u.used = IF j.type = "do" THEN s.used \ Cluster(k, j.page) ELSE s.used
        /\ u.val[k].storage = IF j.type = "load" THEN "swapped" ELSE "memory"
        /\ u.val[k].data = s.val[k].data /\ u.val[k].page = s.val[k].page
    <2>1. s \in VmStates /\ j \in VmJobs
      BY <1>1, <1>2
    <2>2. IsWithdrawn(s, j, j.key, u)
      BY <2>1, WithdrawnIs
    <2> QED BY <2>2 DEF IsWithdrawn
  <1> HIDE DEF N, k
  <1>4. u.processing = s.processing /\ \A x \in VmKeys : x # k => u.val[x] = s.val[x]
    BY <1>3 DEF Aside
  <1>5. Alive(u) = Alive(s) \ {j}
    <2>1. j \notin Live(N)
      BY <1>1 DEF k
    <2> QED BY <1>1, <1>3, <1>4, <2>1 DEF Alive
  <1>6. FreeOf(u, k) /\ SameBut(s, u, k)
    BY <1>1, <1>4, <1>5 DEF FreeOf, SameBut, k
  <1>7. Queues(u)
    <2>1. \A a, b \in Alive(u) : a.key = b.key => a = b
      BY <1>2, <1>5 DEF Queues
    <2>2. \A x \in Range(N) : x.step = "done"
      BY <1>1, <1>2 DEF Queues
    <2>3. u.processing \cap Live(N) = {}
      BY <1>1, <1>2, <1>4 DEF Queues
    <2> QED BY <1>1, <1>2, <1>3, <1>4, <2>1, <2>2, <2>3 DEF Queues
  <1>8. KeyPart(u, k, D[k], f)
    <2>1. KeyOk(s.val[k], k, D[k], f)
      BY <1>2 DEF KeyPart
    <2>2. KeyOk(u.val[k], k, D[k], f) /\ ~OnItsWay(u.val[k])
      <3>1. CASE j.type = "load"
        BY <1>1, <1>3, <2>1, <3>1 DEF KeyOk, JobOk, OnItsWay
      <3>2. CASE j.type # "load"
        BY <1>1, <1>3, <2>1, <3>2 DEF KeyOk, JobOk, OnItsWay
      <3> QED BY <3>1, <3>2
    <2> QED BY <1>6, <2>2 DEF KeyPart, FreeOf
  <1>9. LeftPart(s, u, k)
    <2>1. u.val[k].storage # "swapping"
      BY <1>3
    <2> QED BY <1>1, <1>3, <2>1 DEF LeftPart
  <1>10. PagePart(s, u, k)
    <2>1. u.val[k] \in VmVals
      BY <1>1, <1>3, Fields
    <2>2. Own(u, k) = IF s.val[k].page = -1 THEN {} ELSE Cluster(k, s.val[k].page)
      <3>1. Own(u, k) = IF u.val[k].page = -1 THEN {} ELSE Cluster(k, u.val[k].page)
        BY <1>1, <1>6, <2>1, FreeWrites, OwnNoWrites
      <3> QED BY <1>3, <3>1
    <2>3. CASE j.type # "do"
      <3>1. Writes(s, k) = {}
        BY <1>1, <2>3 DEF Writes
      <3>2. Own(u, k) = Own(s, k)
        BY <1>1, <1>2, <2>2, <3>1, OwnNoWrites
      <3>3. \A p \in Own(s, k) : p \in s.used
        BY <1>1, <1>2 DEF PagesOk, Own
      <3> QED BY <1>3, <2>3, <3>2, <3>3 DEF PagePart
    <2>4. CASE j.type = "do"
      <3>1. s.val[k].page = -1
        BY <1>1, <1>2, <2>4 DEF JobOk, KeyPart, KeyOk
      <3>2. Writes(s, k) = {j}
        BY <1>1, <2>4 DEF Writes, k
      <3>3. Cluster(k, j.page) \subseteq Int
        BY <1>1, ClusterInt DEF VmJobs
      <3>4. Own(s, k) = Cluster(k, j.page) /\ Own(u, k) = {}
        BY <2>2, <3>1, <3>2, <3>3 DEF Own
      <3> QED BY <1>3, <2>4, <3>4 DEF PagePart
    <2> QED BY <2>3, <2>4
  <1>11. Core(u, [D EXCEPT ![k] = D[k]], f)
    BY <1>1, <1>2, <1>3, <1>6, <1>7, <1>8, <1>9, <1>10, OneKey
  <1>12. Core(u, D, f)
    BY <1>1, <1>2, <1>11, SameData
  <1>13. Loads(s, u)
    BY <1>3, <1>4 DEF Loads, OnlyLoads
  <1>14. ASSUME j.type # "load" PROVE NotMine(u, k)
    <2>1. s.val[k].storage = "swapping"
      BY <1>1, <1>14 DEF JobOk
    <2> QED BY <1>1, <1>2, <1>3, <2>1 DEF NotMine, LeftAlone
  <1> QED BY <1>6, <1>12, <1>13, <1>14 DEF k

(* More values are to be swapped out, those of the keys q.                 *)
SwapAll(s, q) == FoldLeft(LAMBDA t, k : vmSwapObjectThreaded(t, k), s, q)

(* vmSwapObjectThreaded() gives a state.                                   *)
LEMMA SwapTyped ==
    ASSUME NEW s \in VmStates, NEW k \in VmKeys
    PROVE  vmSwapObjectThreaded(s, k) \in VmStates
  <1> DEFINE j == [type |-> "prepare", key |-> k, data |-> 0, page |-> -1,
                   canceled |-> FALSE, mine |-> TRUE, step |-> "queued"]
             u == Restored(s, k, "swapping")
             t == vmSwapObjectThreaded(s, k)
  <1>1. t = queueIOJob(u, j)
    BY Zenon DEF vmSwapObjectThreaded, Restored
  <1>2. j \in VmJobs
    BY DEF VmJobs
  <1>3. u \in VmStates
    BY RestoredIs
  <1> HIDE DEF j, u, t
  <1>4. t \in VmStates
    BY <1>1, <1>2, <1>3, QueueIs
  <1> QED BY <1>4 DEF t

(* One after the other.                                                    *)
LEMMA SwapRuns ==
    ASSUME NEW s \in VmStates, NEW q \in Seq(VmKeys)
    PROVE  \E g \in [0..Len(q) -> VmStates] :
              /\ g[0] = s /\ g[Len(q)] = SwapAll(s, q)
              /\ \A i \in 1..Len(q) : g[i] = vmSwapObjectThreaded(g[i - 1], q[i])
  <1> DEFINE n == Len(q)
             F == [a \in VmStates \X (1..n) |-> vmSwapObjectThreaded(a[1], q[a[2]])]
             Eq(it) == it = [x \in SUBSET (1..n) |-> IF x = {} THEN s
                               ELSE vmSwapObjectThreaded(it[x \ {Max(x)}], q[Max(x)])]
             it == CHOOSE it : Eq(it)
  <1>1. n \in Nat /\ DOMAIN q = 1..n /\ \A i \in 1..n : q[i] \in VmKeys
    OBVIOUS
  <1>2. IsFold(VmStates, n, F)
    <2>1. \A t \in VmStates, i \in 1..n : vmSwapObjectThreaded(t, q[i]) \in VmStates
      BY <1>1, SwapTyped
    <2> QED BY <1>1, <2>1 DEF IsFold
  <1>3. \A v \in VmStates, i \in 1..n : F[<<v, i>>] = vmSwapObjectThreaded(v, q[i])
    OBVIOUS
  <1>4. SwapAll(s, q) = it[1..n]
    BY <1>1, Zenon DEF SwapAll, FoldLeft, MapThenFoldSet
  <1> HIDE DEF F, n
  <1>5. \A x \in SUBSET (1..n) : x # {} => Max(x) \in 1..n
    BY <1>1, MaxIn
  <1>6. PICK h : Iterates(VmStates, s, n, F, h)
    BY <1>2, FoldExists
  <1>7. Eq(h)
    BY <1>3, <1>5, <1>6 DEF Iterates
  <1>8. Eq(it)
    <2> HIDE DEF Eq
    <2> QED BY <1>7, Zenon
  <1> HIDE DEF it
  <1>9. Follows(VmStates, s, n, F, it)
    BY <1>3, <1>5, <1>8 DEF Follows
  <1>10. PICK g : Runs(VmStates, s, n, F, g) /\ g[n] = it[1..n]
    BY <1>2, <1>9, FoldRuns
  <1>11. \A i \in 1..n : g[i] = vmSwapObjectThreaded(g[i - 1], q[i])
    <2>1. \A i \in 1..n : i - 1 \in 0..n
      BY <1>1
    <2>2. \A i \in 1..n : g[i - 1] \in VmStates
      BY <2>1, <1>10 DEF Runs
    <2> QED BY <1>3, <1>10, <2>2, Zenon DEF Runs
  <1> QED BY <1>4, <1>10, <1>11, Zenon DEF n, Runs

(* A choice of values that may be swapped out, each once.                  *)
LEMMA MoreIs ==
    ASSUME NEW S \in SUBSET VmKeys, NEW q \in SetToAllKPermutations(S)
    PROVE  /\ q \in Seq(VmKeys) /\ \A i \in 1..Len(q) : q[i] \in S
           /\ \A i, j \in 1..Len(q) : i # j => q[i] # q[j]
  <1>1. PICK R \in SUBSET S : q \in SetToSeqs(R)
    BY DEF SetToAllKPermutations
  <1> DEFINE n == Cardinality(R)
  <1>2. q \in [1..n -> R] /\ \A i, j \in 1..n : i # j => q[i] # q[j]
    BY <1>1 DEF SetToSeqs
  <1>3. n \in Nat
    <2>1. IsFiniteSet(VmKeys)
      BY VmAssumption
    <2>2. IsFiniteSet(R)
      BY <2>1, FS_Subset
    <2> QED BY <2>2, FS_CardinalityType
  <1> HIDE DEF n
  <1>4. q \in Seq(VmKeys) /\ Len(q) = n
    <2>1. q \in [1..n -> VmKeys]
      BY <1>2
    <2> QED BY <1>3, <2>1
  <1> QED BY <1>2, <1>4

(* The swaps begin, and nobody else notices.                               *)
LEMMA AllSwapped ==
    ASSUME NEW s, NEW D, NEW f, Core(s, D, f), NEW q \in Seq(VmKeys),
           \A i \in 1..Len(q) : q[i] \in Swappable(s),
           \A i, j \in 1..Len(q) : i # j => q[i] # q[j], NEW t, t = SwapAll(s, q)
    PROVE  /\ Core(t, D, f) /\ SameWait(s, t)
           /\ q = <<>> => t = s
           /\ \A x \in VmKeys : s.val[x].storage = "loading" => t.val[x] = s.val[x]
  <1> DEFINE n == Len(q)
  <1>1. n \in Nat /\ \A i \in 1..n : q[i] \in VmKeys
    OBVIOUS
  <1>2. PICK g \in [0..n -> VmStates] :
              /\ g[0] = s /\ g[n] = t
              /\ \A i \in 1..n : g[i] = vmSwapObjectThreaded(g[i - 1], q[i])
    <2>1. s \in VmStates
      BY DEF Core
    <2> QED BY <2>1, SwapRuns
  <1> DEFINE Alike(u) == u.processed = s.processed /\ SameWait(s, u)
             First(i) == {q[m] : m \in 1..i}
             Is(i) == /\ Core(g[i], D, f) /\ Alike(g[i])
                      /\ \A x \in VmKeys : x \notin First(i) => g[i].val[x] = s.val[x]
             Y == {i \in 0..n : Is(i)}
  <1>3. 0 \in Y
    <2>1. 0 \in 0..n
      BY <1>1
    <2> QED BY <1>2, <2>1 DEF SameWait
  <1>4. ASSUME NEW i \in 0..(n - 1), i \in Y PROVE i + 1 \in Y
    <2> DEFINE a == g[i]
               b == g[i + 1]
               k == q[i + 1]
    <2>1. i + 1 \in 1..n /\ (i + 1) - 1 = i /\ i \in 0..n /\ i + 1 \in 0..n /\ i \in Nat
      BY <1>1
    <2>2. /\ Core(a, D, f) /\ Alike(a) /\ \A x \in VmKeys : x \notin First(i) => a.val[x] = s.val[x]
      BY <1>4
    <2>3. b = vmSwapObjectThreaded(a, k)
      BY <1>2, <2>1
    <2>4. k \in VmKeys /\ s.val[k].storage = "memory" /\ NotMine(s, k)
      <3>1. k \in Swappable(s)
        BY <2>1
      <3> HIDE DEF k
      <3> QED BY <3>1, SwappableIs
    <2>5. k \notin First(i)
      <3>1. \A m \in 1..i : m \in 1..n /\ m # i + 1
        BY <1>1, <2>1
      <3> QED BY <2>1, <3>1
    <2>6. First(i + 1) = First(i) \cup {k}
      <3>1. 1..(i + 1) = (1..i) \cup {i + 1}
        BY <2>1
      <3> QED BY <3>1
    <2> HIDE DEF a, b, k, First
    <2>7. a.val[k].storage = "memory" /\ NotMine(a, k)
      BY <2>2, <2>4, <2>5 DEF NotMine
    <2>8. Core(b, D, f) /\ Aside(a, b, k) /\ b.processed = a.processed
      BY <2>2, <2>3, <2>4, <2>7, SwapStarted
    <2>9. Alike(b) /\ \A x \in VmKeys : x \notin First(i + 1) => b.val[x] = s.val[x]
      BY <2>2, <2>6, <2>8 DEF Aside, SameWait
    <2> HIDE DEF Alike
    <2> QED BY <2>1, <2>8, <2>9 DEF b
  <1>5. n \in Y
    <2> HIDE DEF Y, n
    <2>1. \A i \in 0..n : i \in Y
      BY <1>1, <1>3, <1>4, UpTo
    <2>2. n \in 0..n
      BY <1>1
    <2> QED BY <2>1, <2>2
  <1>6. /\ Core(t, D, f) /\ SameWait(s, t) /\ \A x \in VmKeys : x \notin First(n) => t.val[x] = s.val[x]
    BY <1>2, <1>5
  <1>7. q = <<>> => t = s
    BY <1>2
  <1>8. \A x \in First(n) : s.val[x].storage = "memory"
    BY SwappableIs
  <1> HIDE DEF First
  <1> QED BY <1>6, <1>7, <1>8

(* The value of k is read from the job that loaded it.                     *)
LEMMA LoadOff ==
    ASSUME NEW s, NEW D, NEW f, Core(s, D, f), s.processed # <<>>,
           NEW j, j = Head(s.processed), ~j.canceled, j.type = "load",
           NEW a, a = TakenOff(s), NEW l,
           IsWithVal(a, l, j.key, InMemory(j.data), a.used \ Cluster(j.key, a.val[j.key].page))
    PROVE  Core(l, D, f) /\ Aside(s, l, j.key) /\ Loads(s, l)
  <1> DEFINE k == j.key
             u == Withdrawn(s, j)
             v == InMemory(j.data)
             U == a.used \ Cluster(k, a.val[k].page)
  <1>1. j \in VmJobs /\ k \in VmKeys /\ j.step = "done" /\ JobOk(j, s.val[k], D[k], f)
    BY HeadJob
  <1>2. Core(u, D, f) /\ FreeOf(u, k) /\ Loads(s, u)
    BY LiveOff
  <1>3. s \in VmStates /\ D \in [VmKeys -> Nat] /\ D[k] \in Nat /\ KeyPart(s, k, D[k], f)
    BY <1>1, KeyFacts
  <1>4. IsWithdrawn(s, j, k, u)
    BY <1>1, <1>3, WithdrawnIs
  <1>5. /\ a \in VmStates /\ a.processed = Tail(s.processed) /\ a.val = s.val
        /\ a.newjobs = s.newjobs /\ a.processing = s.processing /\ a.used = s.used
        /\ SameWait(s, a)
    BY <1>3, TakenOffIs
  <1>6. v \in VmVals /\ U \in SUBSET Int /\ v.storage = "memory" /\ v.page = -1 /\ v.data = j.data
    <2>1. j.data \in Nat
      BY <1>1 DEF VmJobs
    <2>2. v \in VmVals /\ v.storage = "memory" /\ v.page = -1 /\ v.data = j.data
      BY <2>1 DEF VmVals, InMemory
    <2>3. U \in SUBSET Int
      BY <1>5, Fields
    <2> QED BY <2>2, <2>3
  <1>7. s.val[k].storage = "loading" /\ j.data = D[k] /\ D[k] # 0
    BY <1>1, <1>3 DEF JobOk, KeyPart, KeyOk
  <1>8. KeyOk(v, k, D[k], f)
    BY <1>6, <1>7 DEF KeyOk
  <1>9. IsWithVal(a, l, k, v, U)
    OBVIOUS
  <1> HIDE DEF u, v, U, k
  <1>10. /\ l \in VmStates /\ l.val[k] = v /\ l.newjobs = a.newjobs
         /\ l.processed = a.processed /\ l.used = U /\ Aside(a, l, k)
    BY <1>1, <1>5, <1>6, <1>9, WithVal
  <1>11. Aside(s, l, k) /\ Aside(u, l, k)
    BY <1>4, <1>5, <1>10 DEF Aside, SameWait, IsWithdrawn
  <1>12. U = u.used \ Own(u, k)
    <2>1. KeyOk(s.val[k], k, D[k], f) /\ s.val[k].page # -1
      BY <1>3, <1>7 DEF KeyPart, KeyOk, InFile
    <2>2. u.val[k].page = s.val[k].page /\ u.used = s.used
      BY <1>4, <2>1 DEF IsWithdrawn
    <2>3. Own(u, k) = Cluster(k, s.val[k].page)
      BY <1>1, <1>2, <2>1, <2>2, FreePages
    <2> QED BY <1>5, <2>2, <2>3 DEF U
  <1>13. Replaces(u, l, k, v)
    BY <1>4, <1>5, <1>10, <1>11, <1>12 DEF Replaces, IsWithdrawn
  <1>14. Core(l, [D EXCEPT ![k] = D[k]], f) /\ Loads(u, l)
    <2>1. v.storage \in {"none", "memory"}
      BY <1>6
    <2> QED BY <1>1, <1>2, <1>3, <1>8, <1>10, <1>13, <2>1, Replaced
  <1>15. Core(l, D, f)
    BY <1>1, <1>3, <1>14, SameData
  <1>16. Loads(s, l)
    BY <1>2, <1>14 DEF Loads
  <1> QED BY <1>11, <1>15, <1>16 DEF k

(* A swap that is not to be.                                               *)
LEMMA UndoneOff ==
    ASSUME NEW s, NEW D, NEW f, Core(s, D, f), s.processed # <<>>,
           NEW j, j = Head(s.processed), ~j.canceled, j.type = "prepare",
           NEW a, a = TakenOff(s), NEW t, t = Undo(a, j)
    PROVE  /\ Core(t, D, f) /\ Aside(s, t, j.key) /\ Loads(s, t)
           /\ s.val[j.key].storage = "swapping"
  <1> DEFINE k == j.key
             u == Withdrawn(s, j)
  <1>1. j \in VmJobs /\ k \in VmKeys /\ JobOk(j, s.val[k], D[k], f)
    BY HeadJob
  <1>2. Core(u, D, f) /\ Loads(s, u)
    BY LiveOff
  <1>3. s \in VmStates
    BY DEF Core
  <1>4. IsWithdrawn(s, j, k, u)
    BY <1>1, <1>3, WithdrawnIs
  <1>5. /\ a \in VmStates /\ a.processed = Tail(s.processed) /\ a.val = s.val
        /\ a.newjobs = s.newjobs /\ a.processing = s.processing /\ a.used = s.used
        /\ SameWait(s, a)
    BY <1>3, TakenOffIs
  <1>6. s.val[k].storage = "swapping" /\ j.mine
    BY <1>1 DEF JobOk
  <1>7. t = Restored(a, k, "memory")
    BY <1>5, <1>6 DEF Undo, Restored
  <1> HIDE DEF u, k
  <1>8. /\ t \in VmStates /\ t.newjobs = a.newjobs /\ t.processed = a.processed
        /\ t.used = a.used /\ Aside(a, t, k)
        /\ t.val[k].storage = "memory" /\ t.val[k].data = a.val[k].data
        /\ t.val[k].page = a.val[k].page
    <2> DEFINE x == Restored(a, k, "memory")
    <2>1. a \in VmStates /\ k \in VmKeys
      BY <1>1, <1>5
    <2>2. /\ x \in VmStates /\ x.newjobs = a.newjobs /\ x.processed = a.processed
          /\ x.used = a.used /\ Aside(a, x, k)
          /\ x.val[k].storage = "memory" /\ x.val[k].data = a.val[k].data
          /\ x.val[k].page = a.val[k].page
      BY <2>1, RestoredIs
    <2> HIDE DEF x
    <2>3. t = x
      BY <1>7 DEF x
    <2> QED BY <2>2, <2>3
  <1>9. Aside(s, t, k) /\ Aside(u, t, k)
    BY <1>4, <1>5, <1>8 DEF Aside, SameWait, IsWithdrawn
  <1>10. t.val = u.val
    <2>1. t.val \in [VmKeys -> VmVals] /\ u.val \in [VmKeys -> VmVals]
      BY <1>4, <1>8, Fields DEF IsWithdrawn
    <2>2. /\ u.val[k].storage = "memory" /\ u.val[k].data = s.val[k].data
          /\ u.val[k].page = s.val[k].page
      BY <1>4 DEF IsWithdrawn
    <2>3. t.val[k] = u.val[k]
      <3> DEFINE x == t.val[k]
                 y == u.val[k]
      <3>1. x \in VmVals /\ y \in VmVals
        BY <1>1, <2>1
      <3>2. x.storage = y.storage /\ x.data = y.data /\ x.page = y.page
        BY <1>5, <1>8, <2>2
      <3> HIDE DEF x, y
      <3>3. x = y
        BY <3>1, <3>2 DEF VmVals
      <3> QED BY <3>3 DEF x, y
    <2>4. \A x \in VmKeys : t.val[x] = u.val[x]
      BY <1>9, <2>3 DEF Aside
    <2> QED BY <2>1, <2>4
  <1>11. SameCore(u, t)
    BY <1>4, <1>5, <1>8, <1>9, <1>10 DEF SameCore, IsWithdrawn, Aside
  <1>12. Core(t, D, f)
    BY <1>2, <1>8, <1>11, Framed
  <1>13. Loads(s, t)
    BY <1>2, <1>11 DEF Loads, OnlyLoads, SameCore
  <1> QED BY <1>6, <1>9, <1>12, <1>13 DEF k

(* The pages are known, and the value is to be written.                    *)
WithPages(s, C) == [s EXCEPT !.used = @ \cup C]
WriteJob(j, p) == [j EXCEPT !.type = "do", !.page = p, !.step = "queued"]

(* The job is queued again, to write.                                      *)
LEMMA WriteStarted ==
    ASSUME NEW s, NEW D, NEW f, Core(s, D, f), s.processed # <<>>,
           NEW j, j = Head(s.processed), ~j.canceled, j.type = "prepare",
           NEW a, a = TakenOff(s), NEW p \in FreeClusters(a, j.key),
           NEW t, t = queueIOJob(WithPages(a, Cluster(j.key, p)), WriteJob(j, p))
    PROVE  /\ Core(t, D, f) /\ Aside(s, t, j.key) /\ s.val[j.key].storage = "swapping"
  <1> DEFINE k == j.key
             u == Withdrawn(s, j)
             C == Cluster(k, p)
             w == WithPages(a, C)
             j2 == WriteJob(j, p)
             v == s.val[k]
  <1>1. j \in VmJobs /\ k \in VmKeys /\ JobOk(j, v, D[k], f)
    BY HeadJob
  <1>2. Core(u, D, f) /\ FreeOf(u, k) /\ NotMine(u, k)
    BY LiveOff
  <1>3. s \in VmStates /\ KeyPart(s, k, D[k], f) /\ v \in VmVals
    BY <1>1, KeyFacts
  <1>4. IsWithdrawn(s, j, k, u)
    BY <1>1, <1>3, WithdrawnIs
  <1>5. /\ a \in VmStates /\ a.processed = Tail(s.processed) /\ a.val = s.val
        /\ a.newjobs = s.newjobs /\ a.processing = s.processing /\ a.used = s.used
        /\ SameWait(s, a)
    BY <1>3, TakenOffIs
  <1>6. v.storage = "swapping" /\ j.mine
    BY <1>1 DEF JobOk
  <1>7. InFile(k, p) /\ C \cap a.used = {} /\ p \in Int
    <2>1. InFile(k, p) /\ C \cap a.used = {}
      BY <1>1, FreeClusterIs
    <2> QED BY <2>1 DEF InFile
  <1>8. C \subseteq Int
    BY <1>1, <1>7, ClusterInt
  <1>9. /\ j2 \in VmJobs /\ j2.key = k /\ j2.type = "do" /\ j2.page = p /\ j2.step = "queued"
        /\ ~j2.canceled /\ j2.mine
    BY <1>1, <1>6, <1>7 DEF VmJobs, WriteJob
  <1> HIDE DEF u, C, j2, v, k
  <1>10. /\ w \in VmStates /\ w.val = a.val /\ w.newjobs = a.newjobs
         /\ w.processing = a.processing /\ w.processed = a.processed /\ w.used = a.used \cup C
         /\ SameWait(a, w)
    <2>1. a.used \cup C \in SUBSET Int
      BY <1>5, <1>8, Fields
    <2> QED BY <1>5, <2>1 DEF WithPages, VmStates, SameWait
  <1>11. t = queueIOJob(w, j2)
    BY DEF C, j2, k
  <1> HIDE DEF w
  <1>12. /\ t \in VmStates /\ t.newjobs = Append(w.newjobs, j2) /\ t.val = w.val
         /\ t.processing = w.processing /\ t.processed = w.processed
         /\ t.used = w.used /\ SameWait(w, t)
    BY <1>9, <1>10, <1>11, QueueIs
  <1>13. Aside(s, t, k) /\ Aside(u, t, k)
    <2>1. t.val = s.val /\ t.processing = s.processing /\ SameWait(s, t)
      BY <1>5, <1>10, <1>12 DEF SameWait
    <2>2. Aside(s, u, k)
      BY <1>4 DEF IsWithdrawn
    <2> QED BY <2>1, <2>2 DEF Aside, SameWait
  <1>14. u.used = s.used /\ u.val[k].page = v.page /\ u.newjobs = s.newjobs
         /\ u.processed = Tail(s.processed)
    BY <1>4 DEF IsWithdrawn, v
  <1>15. Starts(u, t, k, v, j2, C)
    <2>1. C = Cluster(k, p)
      BY DEF C
    <2>2. t.val[k] = v
      BY <1>5, <1>10, <1>12 DEF v
    <2>3. t.newjobs = Append(u.newjobs, j2) /\ t.processed = u.processed
      BY <1>5, <1>10, <1>12, <1>14
    <2>4. t.used = u.used \cup C /\ C \cap u.used = {}
      BY <1>5, <1>7, <1>10, <1>12, <1>14
    <2>5. C = IF j2.type = "do" THEN Cluster(k, j2.page) ELSE {}
      BY <1>9, <2>1
    <2>6. t \in VmStates /\ Aside(u, t, k)
      BY <1>12, <1>13
    <2> QED BY <2>2, <2>3, <2>4, <2>5, <2>6, Zenon DEF Starts
  <1>16. KeyOk(v, k, D[k], f) /\ JobOk(j2, v, D[k], f)
    <2>1. KeyOk(v, k, D[k], f)
      BY <1>3 DEF KeyPart, v
    <2> QED BY <1>6, <1>7, <1>9, <2>1 DEF JobOk
  <1>17. Core(t, D, f)
    <2>1. v.page = u.val[k].page
      BY <1>14
    <2> QED BY <1>1, <1>2, <1>9, <1>15, <1>16, <2>1, JobStarted
  <1> QED BY <1>6, <1>13, <1>17 DEF v, k

(* The value is out.                                                       *)
WithPointer(s, k, p) == [s EXCEPT !.val[k] = OnPages(p)]

(* What such a state is like.                                              *)
LEMMA PointerIs ==
    ASSUME NEW s \in VmStates, NEW k \in VmKeys, NEW p \in Int, NEW t, t = WithPointer(s, k, p)
    PROVE  /\ t \in VmStates /\ t.val[k] = OnPages(p) /\ t.newjobs = s.newjobs
           /\ t.processed = s.processed /\ t.used = s.used /\ Aside(s, t, k)
  <1> DEFINE v == OnPages(p)
             V == [s.val EXCEPT ![k] = v]
  <1>1. v \in VmVals
    BY DEF VmVals, OnPages
  <1>2. t = [s EXCEPT !.val = V]
    BY DEF WithPointer
  <1> HIDE DEF v
  <1>3. V \in [VmKeys -> VmVals] /\ V[k] = v /\ \A x \in VmKeys : x # k => V[x] = s.val[x]
    BY <1>1, Fields
  <1> HIDE DEF V
  <1>4. /\ t \in VmStates /\ t.val = V /\ t.newjobs = s.newjobs /\ t.processing = s.processing
        /\ t.processed = s.processed /\ t.used = s.used /\ SameWait(s, t)
    BY <1>2, <1>3 DEF VmStates, SameWait
  <1> QED BY <1>3, <1>4 DEF Aside, v

(* The value is on the pages its job has written.                          *)
LEMMA SwapOff ==
    ASSUME NEW s, NEW D, NEW f, Core(s, D, f), s.processed # <<>>,
           NEW j, j = Head(s.processed), ~j.canceled, j.type = "do",
           NEW a, a = TakenOff(s), NEW t, t = WithPointer(a, j.key, j.page)
    PROVE  /\ Core(t, D, f) /\ Aside(s, t, j.key) /\ Loads(s, t)
           /\ s.val[j.key].storage = "swapping"
  <1> DEFINE k == j.key
             p == j.page
             u == Withdrawn(s, j)
             C == Cluster(k, p)
             v == OnPages(p)
             U == u.used \cup C
             x == [u EXCEPT !.val = [u.val EXCEPT ![k] = v], !.used = U]
  <1>1. /\ j \in VmJobs /\ k \in VmKeys /\ JobOk(j, s.val[k], D[k], f) /\ j.step = "done"
        /\ j \in Alive(s)
    BY HeadJob
  <1>2. Core(u, D, f) /\ Loads(s, u) /\ u \in VmStates
    <2>1. Core(u, D, f) /\ Loads(s, u)
      BY LiveOff
    <2> HIDE DEF u
    <2> QED BY <2>1 DEF Core
  <1>3. s \in VmStates
    BY DEF Core
  <1>4. IsWithdrawn(s, j, k, u)
    BY <1>1, <1>3, WithdrawnIs
  <1>5. /\ a \in VmStates /\ a.processed = Tail(s.processed) /\ a.val = s.val
        /\ a.newjobs = s.newjobs /\ a.processing = s.processing /\ a.used = s.used
        /\ SameWait(s, a)
    BY <1>3, TakenOffIs
  <1>6. s.val[k].storage = "swapping" /\ InFile(k, p) /\ Written(f, k, p, D[k])
    BY <1>1 DEF JobOk
  <1>7. p \in Int /\ C \subseteq Int
    BY <1>1, <1>6, ClusterInt DEF InFile
  <1>8. C \subseteq s.used
    <2> SUFFICES ASSUME NEW y \in C PROVE y \in s.used
      OBVIOUS
    <2>1. j \in Writes(s, k)
      BY <1>1 DEF Writes
    <2>2. y \in Own(s, k)
      BY <1>7, <2>1 DEF Own
    <2> QED BY <1>1, <2>2, OwnInFile
  <1>9. u.used = s.used \ C /\ u.val[k].storage = "memory"
    BY <1>4 DEF IsWithdrawn
  <1>10. IsSwappedOut(u, x, k, p)
    BY DEF IsSwappedOut, IsWithVal
  <1>11. IsWithVal(u, x, k, v, U)
    BY DEF IsWithVal
  <1>12. v \in VmVals /\ U \in SUBSET Int /\ U = s.used /\ C \cap u.used = {}
    <2>1. v \in VmVals
      BY <1>7 DEF VmVals, OnPages
    <2>2. U = s.used /\ C \cap u.used = {}
      BY <1>8, <1>9
    <2>3. s.used \in SUBSET Int
      BY <1>3, Fields
    <2> QED BY <2>1, <2>2, <2>3
  <1>13. t = WithPointer(a, k, p)
    OBVIOUS
  <1>14. u.val[k].storage = "memory" /\ Cluster(k, p) \cap u.used = {}
    BY <1>9, <1>12
  <1> HIDE DEF x, u, U, v, k, p
  <1>15. Core(x, D, f) /\ Loads(u, x)
    BY <1>1, <1>2, <1>6, <1>10, <1>14, SwappedOut
  <1>16. /\ x \in VmStates /\ x.val[k] = v /\ x.newjobs = u.newjobs
         /\ x.processed = u.processed /\ x.used = U /\ Aside(u, x, k)
    BY <1>1, <1>2, <1>11, <1>12, WithVal
  <1>17. /\ t \in VmStates /\ t.val[k] = OnPages(p) /\ t.newjobs = a.newjobs
         /\ t.processed = a.processed /\ t.used = a.used /\ Aside(a, t, k)
    BY <1>1, <1>5, <1>7, <1>13, PointerIs
  <1>18. Aside(s, t, k)
    BY <1>5, <1>17 DEF Aside, SameWait
  <1>19. t.val = x.val
    <2>1. t.val \in [VmKeys -> VmVals] /\ x.val \in [VmKeys -> VmVals]
      BY <1>16, <1>17, Fields
    <2>2. t.val[k] = x.val[k]
      BY <1>16, <1>17 DEF v
    <2>3. Aside(s, u, k)
      BY <1>4 DEF IsWithdrawn
    <2>4. \A y \in VmKeys : t.val[y] = x.val[y]
      BY <1>16, <1>18, <2>2, <2>3 DEF Aside
    <2> QED BY <2>1, <2>4
  <1>20. SameCore(x, t)
    <2>1. Aside(s, u, k) /\ u.newjobs = s.newjobs /\ u.processed = Tail(s.processed)
      BY <1>4 DEF IsWithdrawn
    <2>2. t.newjobs = x.newjobs /\ t.processed = x.processed
      BY <1>5, <1>16, <1>17, <2>1
    <2>3. t.used = x.used
      BY <1>5, <1>12, <1>16, <1>17
    <2>4. t.processing = x.processing
      <3>1. t.processing = s.processing
        BY <1>18 DEF Aside
      <3>2. u.processing = s.processing
        BY <2>1 DEF Aside
      <3>3. x.processing = u.processing
        BY <1>16 DEF Aside
      <3> QED BY <3>1, <3>2, <3>3
    <2> QED BY <1>19, <2>2, <2>3, <2>4 DEF SameCore
  <1>21. Core(t, D, f)
    BY <1>15, <1>17, <1>20, Framed
  <1>22. Loads(s, t)
    BY <1>2, <1>15, <1>20 DEF Loads, OnlyLoads, SameCore
  <1> QED BY <1>6, <1>18, <1>21, <1>22 DEF k

(* What follows when no child is saving, or the queues still hold loads.   *)
LEMMA CompletedStep ==
    ASSUME VmInv, ~vmloading,
           UNCHANGED <<vmcmd, swapfile, vmdata, vmwrites, vmchild, vmloading, vmstuck>>,
           Full(vm', vmdata, vmstuck, WaitSet), vmchild = NoChild \/ Loads(vm, vm')
    PROVE  VmInv'
  <1>1. VmTypes
    BY DEF VmInv
  <1>2. VmTypes' /\ WaitSet' = WaitSet
    BY <1>1 DEF VmTypes, WaitSet
  <1>3. Full(vm', vmdata', vmstuck', WaitSet')
    BY <1>2
  <1>4. CASE Loads(vm, vm')
    BY <1>2, <1>3, <1>4, ServerStep
  <1>5. CASE vmchild = NoChild
    <2>1. VmChildOk'
      BY <1>5, NoChildReads DEF VmChildOk
    <2>2. VmStart'
      BY DEF VmStart
    <2>3. /\ Core(vm', vmdata', swapfile') /\ Agree(vm') /\ WaitsFor(vm', vmstuck')
          /\ ReadyOk(vm', WaitSet')
      BY <1>2, <1>3 DEF Full
    <2> QED BY <1>2, <2>1, <2>2, <2>3, Zenon DEF VmInv
  <1> QED BY <1>4, <1>5

(* vmThreadedIOCompletedJob(): a job that was loading.                     *)
LEMMA CompletedLoadStep ==
    ASSUME VmInv, ~vmloading, vm.processed # <<>>, NEW j, j = Head(vm.processed),
           NEW a, a = TakenOff(vm), CompletedLoad(a, j),
           UNCHANGED <<vmcmd, swapfile, vmdata, vmwrites, vmchild, vmloading, vmstuck>>
    PROVE  VmInv'
  <1> DEFINE k == j.key
             W == WaitSet
             l == [a EXCEPT !.used = @ \ Cluster(k, a.val[k].page), !.val[k] = InMemory(j.data)]
  <1>1. Full(vm, vmdata, vmstuck, W) /\ vm \in VmStates
    BY FullNow
  <1>2. ~j.canceled /\ j.type = "load" /\ vm' = handleClientsBlockedOnSwappedKey(l, k)
    BY DEF CompletedLoad
  <1>3. Core(vm, vmdata, swapfile)
    BY <1>1 DEF Full
  <1>4. k \in VmKeys
    BY <1>2, <1>3, HeadJob
  <1>5. a \in VmStates
    BY <1>1, TakenOffIs
  <1>6. IsWithVal(a, l, k, InMemory(j.data), a.used \ Cluster(k, a.val[k].page))
    BY <1>4, <1>5, Zenon DEF IsWithVal
  <1> HIDE DEF l, W
  <1>7. Core(l, vmdata, swapfile) /\ Aside(vm, l, k) /\ Loads(vm, l)
    BY <1>2, <1>3, <1>6, LoadOff
  <1> HIDE DEF k
  <1>8. Full(vm', vmdata, vmstuck, W) /\ Loads(l, vm')
    BY <1>1, <1>2, <1>4, <1>7, HandledWaits
  <1>9. Loads(vm, vm')
    BY <1>7, <1>8 DEF Loads
  <1>10. Full(vm', vmdata, vmstuck, WaitSet)
    BY <1>8 DEF W
  <1> QED BY <1>9, <1>10, CompletedStep

(* A job that has counted the pages.                                       *)
LEMMA CompletedPrepareStep ==
    ASSUME VmInv, ~vmloading, vm.processed # <<>>, NEW j, j = Head(vm.processed),
           NEW a, a = TakenOff(vm), CompletedPrepare(a, j),
           UNCHANGED <<vmcmd, swapfile, vmdata, vmwrites, vmchild, vmloading, vmstuck>>
    PROVE  VmInv'
  <1> DEFINE k == j.key
             W == WaitSet
  <1>1. Full(vm, vmdata, vmstuck, W) /\ vm \in VmStates
    BY FullNow
  <1>2. /\ ~j.canceled /\ j.type = "prepare"
        /\ \/ vm' = Undo(a, j)
           \/ /\ vmchild = NoChild
              /\ \E p \in FreeClusters(a, k) :
                    vm' = queueIOJob(WithPages(a, Cluster(k, p)), WriteJob(j, p))
    BY Zenon DEF CompletedPrepare, vmCanSwapOut, WithPages, WriteJob
  <1>3. Core(vm, vmdata, swapfile)
    BY <1>1 DEF Full
  <1>4. k \in VmKeys
    BY <1>2, <1>3, HeadJob
  <1> HIDE DEF W
  <1>5. ASSUME Core(vm', vmdata, swapfile), Aside(vm, vm', k), vm.val[k].storage = "swapping"
        PROVE  Full(vm', vmdata, vmstuck, WaitSet)
    <2>1. vm.val[k].storage # "loading"
      BY <1>5
    <2>2. Full(vm', vmdata, vmstuck, W)
      BY <1>1, <1>4, <1>5, <2>1, AsideWaits
    <2> QED BY <2>2 DEF W
  <1>6. CASE vm' = Undo(a, j)
    <2>1. /\ Core(vm', vmdata, swapfile) /\ Aside(vm, vm', k) /\ Loads(vm, vm')
          /\ vm.val[k].storage = "swapping"
      BY <1>2, <1>3, <1>6, UndoneOff
    <2> QED BY <1>5, <2>1, CompletedStep
  <1>7. CASE /\ vmchild = NoChild
             /\ \E p \in FreeClusters(a, k) :
                    vm' = queueIOJob(WithPages(a, Cluster(k, p)), WriteJob(j, p))
    <2>1. PICK p \in FreeClusters(a, k) :
                    vm' = queueIOJob(WithPages(a, Cluster(k, p)), WriteJob(j, p))
      BY <1>7
    <2>2. /\ Core(vm', vmdata, swapfile) /\ Aside(vm, vm', k) /\ vm.val[k].storage = "swapping"
      BY <1>2, <1>3, <2>1, WriteStarted
    <2> QED BY <1>5, <1>7, <2>2, CompletedStep
  <1> QED BY <1>2, <1>6, <1>7

(* A job that has written.                                                 *)
LEMMA CompletedSwapStep ==
    ASSUME VmInv, ~vmloading, vm.processed # <<>>, NEW j, j = Head(vm.processed),
           NEW a, a = TakenOff(vm), CompletedSwap(a, j),
           UNCHANGED <<vmcmd, swapfile, vmdata, vmwrites, vmchild, vmloading, vmstuck>>
    PROVE  VmInv'
  <1> DEFINE k == j.key
             W == WaitSet
             o == WithPointer(a, k, j.page)
  <1>1. Full(vm, vmdata, vmstuck, W) /\ vm \in VmStates
    BY FullNow
  <1>2. /\ ~j.canceled /\ j.type = "do"
        /\ \E more \in SetToAllKPermutations(Swappable(o)) :
             (more # <<>> => vmchild = NoChild) /\ vm' = SwapAll(o, more)
    BY Zenon DEF CompletedSwap, vmCanSwapOut, WithPointer, OnPages, SwapAll
  <1>3. Core(vm, vmdata, swapfile)
    BY <1>1 DEF Full
  <1>4. k \in VmKeys
    BY <1>2, <1>3, HeadJob
  <1>5. /\ Core(o, vmdata, swapfile) /\ Aside(vm, o, k) /\ Loads(vm, o)
        /\ vm.val[k].storage = "swapping"
    BY <1>2, <1>3, SwapOff
  <1> HIDE DEF W, o
  <1>6. Full(o, vmdata, vmstuck, W)
    <2>1. vm.val[k].storage # "loading"
      BY <1>5
    <2> HIDE DEF k
    <2> QED BY <1>1, <1>4, <1>5, <2>1, AsideWaits
  <1>7. PICK more \in SetToAllKPermutations(Swappable(o)) :
             (more # <<>> => vmchild = NoChild) /\ vm' = SwapAll(o, more)
    BY <1>2
  <1>8. /\ more \in Seq(VmKeys) /\ \A i \in 1..Len(more) : more[i] \in Swappable(o)
        /\ \A i, m \in 1..Len(more) : i # m => more[i] # more[m]
    <2>1. Swappable(o) \in SUBSET VmKeys
      BY DEF Swappable
    <2> QED BY <2>1, MoreIs
  <1>9. /\ Core(vm', vmdata, swapfile) /\ SameWait(o, vm')
        /\ more = <<>> => vm' = o
        /\ \A x \in VmKeys : o.val[x].storage = "loading" => vm'.val[x] = o.val[x]
    BY <1>5, <1>7, <1>8, AllSwapped
  <1>10. Full(vm', vmdata, vmstuck, W)
    <2>1. Agree(o) /\ WaitsFor(o, vmstuck) /\ ReadyOk(o, W) /\ o \in VmStates
      BY <1>6 DEF Full, Core
    <2>2. Agree(vm') /\ ReadyOk(vm', W)
      BY <1>9, <2>1 DEF Agree, ReadyOk, SameWait
    <2>3. WaitsFor(vm', vmstuck)
      <3> SUFFICES ASSUME NEW c \in VmClients, NEW x \in Range(vm'.io_keys[c])
                   PROVE  vm'.val[x].storage = "loading" \/ c \in vmstuck
        BY DEF WaitsFor
      <3>1. x \in Range(o.io_keys[c])
        BY <1>9 DEF SameWait
      <3>2. x \in VmKeys
        <4>1. o.io_keys[c] \in Seq(VmKeys)
          BY <2>1, Fields
        <4> QED BY <3>1, <4>1 DEF Range
      <3> QED BY <1>9, <2>1, <3>1, <3>2 DEF WaitsFor
    <2> QED BY <1>9, <2>2, <2>3 DEF Full
  <1>11. Full(vm', vmdata, vmstuck, WaitSet)
    BY <1>10 DEF W
  <1>12. vmchild = NoChild \/ Loads(vm, vm')
    BY <1>5, <1>7, <1>9
  <1> QED BY <1>11, <1>12, CompletedStep

(* vmThreadedIOCompletedJob()                                              *)
LEMMA CompletedJobStep == ASSUME VmInv, vmThreadedIOCompletedJob PROVE VmInv'
  <1> DEFINE j == Head(vm.processed)
             a == TakenOff(vm)
  <1>1. /\ vm.processed # <<>>
        /\ \/ CompletedCanceled(a, j) \/ CompletedLoad(a, j) \/ CompletedPrepare(a, j)
           \/ CompletedSwap(a, j)
        /\ UNCHANGED <<vmcmd, swapfile, vmdata, vmwrites, vmchild, vmloading, vmstuck>>
    BY Zenon DEF vmThreadedIOCompletedJob, TakenOff
  <1>2. ~vmloading /\ Core(vm, vmdata, swapfile)
    BY <1>1 DEF VmInv, VmStart
  <1>3. j = Head(vm.processed) /\ a = TakenOff(vm)
    OBVIOUS
  <1> HIDE DEF j, a
  <1>4. CASE CompletedCanceled(a, j)
    <2>1. j.canceled /\ vm' = Undo(a, j)
      BY <1>4 DEF CompletedCanceled
    <2>2. /\ Core(a, vmdata, swapfile) /\ a.val = vm.val /\ SameWait(vm, a) /\ Loads(vm, a)
          /\ Undo(a, j) = a
      BY <1>1, <1>2, <1>3, <2>1, CanceledOff
    <2>3. vm' = a /\ swapfile' = swapfile
      BY <1>1, <2>1, <2>2
    <2>4. /\ Core(vm', vmdata, swapfile') /\ vm'.val = vm.val /\ SameWait(vm, vm') /\ Loads(vm, vm')
          /\ DOMAIN swapfile' = DOMAIN swapfile
      BY <2>2, <2>3
    <2> QED BY <1>1, <1>2, <2>3, <2>4, ThreadStep
  <1>5. CASE CompletedLoad(a, j)
    BY <1>1, <1>2, <1>3, <1>5, CompletedLoadStep
  <1>6. CASE CompletedPrepare(a, j)
    BY <1>1, <1>2, <1>3, <1>6, CompletedPrepareStep
  <1>7. CASE CompletedSwap(a, j)
    BY <1>1, <1>2, <1>3, <1>7, CompletedSwapStep
  <1> QED BY <1>1, <1>4, <1>5, <1>6, <1>7

-----------------------------------------------------------------------------
(* The invariant and what it says. *)

(* The invariant holds at first.                                           *)
LEMMA VmStarts == ASSUME VmInit PROVE VmInv
  <1>1. /\ vm = [val |-> [k \in VmKeys |-> NoVal], newjobs |-> <<>>, processing |-> {},
                 processed |-> <<>>, threads |-> 0, used |-> {},
                 waiters |-> [k \in VmKeys |-> <<>>], io_keys |-> [c \in VmClients |-> <<>>],
                 ready |-> <<>>]
        /\ vmcmd = [c \in VmClients |-> NoCmd] /\ swapfile = [p \in 0..(VmPages - 1) |-> <<>>]
        /\ vmdata = [k \in VmKeys |-> 0] /\ vmwrites = 0
        /\ vmchild = NoChild /\ vmloading = TRUE /\ vmstuck = {}
    BY DEF VmInit
  <1>2. /\ \A k \in VmKeys : vm.val[k] = NoVal /\ vm.waiters[k] = <<>> /\ vmdata[k] = 0
        /\ \A c \in VmClients : vm.io_keys[c] = <<>> /\ vmcmd[c] = NoCmd
        /\ vm.newjobs = <<>> /\ vm.processing = {} /\ vm.processed = <<>> /\ vm.used = {}
        /\ vm.ready = <<>>
    BY <1>1
  <1>3. VmTypes
    BY <1>1 DEF VmTypes
  <1>4. vm \in VmStates
    <2>1. NoVal \in VmVals
      BY DEF NoVal, VmVals
    <2>2. <<>> \in Seq(VmJobs) /\ <<>> \in Seq(VmClients) /\ <<>> \in Seq(VmKeys)
      OBVIOUS
    <2> QED BY <1>1, <2>1, <2>2 DEF VmStates
  <1>5. Range(vm.newjobs) = {} /\ Range(vm.processed) = {} /\ Alive(vm) = {}
    BY <1>2 DEF Alive, Live, Range
  <1>6. Core(vm, vmdata, swapfile)
    <2>1. vmdata \in [VmKeys -> Nat]
      BY <1>1
    <2>2. Queues(vm)
      <3>1. Live(vm.processed) = {}
        BY <1>5 DEF Live
      <3>2. NoTwice(vm.newjobs) /\ NoTwice(vm.processed)
        BY <1>2 DEF NoTwice
      <3> QED BY <1>2, <1>5, <3>1, <3>2 DEF Queues
    <2>3. NoVal.storage = "none" /\ NoVal.page = -1
      BY DEF NoVal
    <2>4. \A k \in VmKeys : KeyOk(vm.val[k], k, vmdata[k], swapfile)
      BY <1>2, <2>3 DEF KeyOk
    <2>5. \A k \in VmKeys : ~OnItsWay(vm.val[k])
      BY <1>2, <2>3 DEF OnItsWay
    <2>6. LeftAlone(vm)
      BY <1>5 DEF LeftAlone
    <2>7. PagesOk(vm)
      <3>1. \A k \in VmKeys : Own(vm, k) = {}
        BY <1>2, <1>5, <2>3 DEF Own, Writes
      <3> QED BY <1>2, <3>1 DEF PagesOk
    <2> QED BY <1>4, <1>5, <2>1, <2>2, <2>4, <2>5, <2>6, <2>7 DEF Core
  <1>7. Agree(vm)
    <2> SUFFICES ASSUME NEW c \in VmClients, NEW k \in VmKeys
                 PROVE  Times(vm.io_keys[c], k) = Times(vm.waiters[k], c)
      BY DEF Agree
    <2>1. vm.io_keys[c] \in Seq(VmKeys) /\ vm.waiters[k] \in Seq(VmClients)
      BY <1>4, Fields
    <2>2. Range(vm.io_keys[c]) = {} /\ Range(vm.waiters[k]) = {}
      BY <1>2 DEF Range
    <2>3. Times(vm.io_keys[c], k) = 0
      BY <2>1, <2>2, TimesType
    <2>4. Times(vm.waiters[k], c) = 0
      BY <2>1, <2>2, TimesType
    <2> QED BY <2>3, <2>4
  <1>8. WaitSet = {}
    BY <1>2 DEF WaitSet
  <1>9. WaitsFor(vm, vmstuck)
    <2>1. \A c \in VmClients : Range(vm.io_keys[c]) = {}
      BY <1>2 DEF Range
    <2> QED BY <2>1 DEF WaitsFor
  <1>10. ReadyOk(vm, WaitSet)
    <2>1. \A c \in VmClients : Times(vm.ready, c) = 0
      <3> SUFFICES ASSUME NEW c \in VmClients PROVE Times(vm.ready, c) = 0
        OBVIOUS
      <3>1. vm.ready \in Seq(VmClients) /\ c \notin Range(vm.ready)
        BY <1>2 DEF Range
      <3> QED BY <3>1, TimesType
    <2> QED BY <1>2, <1>8, <2>1 DEF ReadyOk
  <1>11. VmChildOk
    <2>1. \A k \in VmKeys : vmchild.page[k] = -1
      BY <1>1 DEF NoChild
    <2> QED BY <1>1, <2>1 DEF VmChildOk, ChildReadsItsData
  <1>12. VmStart
    BY <1>2, <1>8 DEF VmStart
  <1> QED BY <1>3, <1>6, <1>7, <1>9, <1>10, <1>11, <1>12, Zenon DEF VmInv

(* Every step keeps the invariant.                                         *)
LEMMA VmSteps == ASSUME VmInv, [VmNext]_vmVars, VmWriteFails = FALSE PROVE VmInv'
  <1>1. CASE UNCHANGED vmVars
    <2>1. UNCHANGED <<vm, vmcmd, swapfile, vmdata, vmwrites, vmchild, vmloading, vmstuck>>
      BY <1>1 DEF vmVars
    <2>2. VmTypes' /\ WaitSet' = WaitSet
      BY <2>1 DEF VmInv, VmTypes, WaitSet
    <2>3. VmChildOk' /\ VmStart'
      BY <2>1, <2>2 DEF VmInv, VmChildOk, ChildReadsItsData, VmStart
    <2>4. /\ Core(vm', vmdata', swapfile') /\ Agree(vm') /\ WaitsFor(vm', vmstuck')
          /\ ReadyOk(vm', WaitSet')
      BY <2>1, <2>2 DEF VmInv
    <2> QED BY <2>2, <2>3, <2>4, Zenon DEF VmInv
  <1>2. CASE VmNext
    <2>1. ASSUME LoadKey \/ vmSwapObjectBlocking \/ LoadingEnds PROVE VmInv'
      BY <2>1, LoadKeyStep, SwapBlockingStep, LoadingEndsStep
    <2>2. ASSUME vmSwapOneObject \/ vmCommand \/ vmFlush \/ vmResume \/ vmFreeClient PROVE VmInv'
      BY <2>2, SwapOneStep, CommandStep, FlushStep, ResumeStep, FreeClientStep
    <2>3. ASSUME FetchJob \/ ThreadExits \/ DoJob \/ HandOver PROVE VmInv'
      BY <2>3, FetchStep, ThreadExitsStep, DoJobStep, HandOverStep
    <2>4. ASSUME vmThreadedIOCompletedJob \/ vmFork \/ vmChildExits PROVE VmInv'
      BY <2>4, CompletedJobStep, ForkStep, ChildExitsStep
    <2> QED BY <1>2, <2>1, <2>2, <2>3, <2>4 DEF VmNext
  <1> QED BY <1>1, <1>2

(* A value is where it should be.                                          *)
LEMMA HoldsThen == ASSUME VmInv PROVE VmHolds
  <1> SUFFICES ASSUME NEW k \in VmKeys
               PROVE  LET v == vm.val[k] IN
                      CASE v.storage = "none" -> vmdata[k] = 0
                        [] v.storage \in {"memory", "swapping"} -> v.data = vmdata[k]
                        [] v.storage \in {"swapped", "loading"} ->
                             \A p \in Cluster(k, v.page) : swapfile[p] = <<k, vmdata[k]>>
    BY DEF VmHolds
  <1> DEFINE v == vm.val[k]
  <1>1. v \in VmVals /\ KeyOk(v, k, vmdata[k], swapfile)
    BY KeyFacts DEF VmInv, KeyPart
  <1>2. v.storage \in {"none", "memory", "swapping", "swapped", "loading"}
    BY <1>1 DEF VmVals
  <1>3. /\ v.storage = "none" => vmdata[k] = 0
        /\ v.storage \in {"memory", "swapping"} => v.data = vmdata[k]
        /\ v.storage \in {"swapped", "loading"} => Written(swapfile, k, v.page, vmdata[k])
    BY <1>1 DEF KeyOk
  <1> HIDE DEF v
  <1>4. CASE v.storage = "none"
    BY <1>3, <1>4 DEF v
  <1>5. CASE v.storage \in {"memory", "swapping"}
    BY <1>3, <1>5 DEF v
  <1>6. CASE v.storage \in {"swapped", "loading"}
    BY <1>3, <1>6 DEF v, Written
  <1> QED BY <1>2, <1>4, <1>5, <1>6

(* The live writes are those of the queues that are not cancelled.         *)
LEMMA LiveJobs ==
    ASSUME NEW s, Queues(s)
    PROVE  {x \in Jobs(s) : x.type = "do" /\ ~x.canceled} = {x \in Alive(s) : x.type = "do"}
  BY DEF Queues, Jobs, Alive, Live

(* The clusters in use, as pairs of a key and a first page.                *)
SwappedAt(s) == {<<k, s.val[k].page>> : k \in {x \in VmKeys : s.val[x].page # -1}}
WrittenAt(s) == {<<j.key, j.page>> : j \in {x \in Alive(s) : x.type = "do"}}

(* They are the pages of the keys, and a key has one of them at most.      *)
LEMMA ClustersOwn ==
    ASSUME NEW s, NEW D, NEW f, Core(s, D, f)
    PROVE  /\ \A o \in SwappedAt(s) \cup WrittenAt(s) :
                 o[1] \in VmKeys /\ Cluster(o[1], o[2]) \subseteq Own(s, o[1])
           /\ \A k \in VmKeys : \A p \in Own(s, k) :
                 \E o \in SwappedAt(s) \cup WrittenAt(s) : p \in Cluster(o[1], o[2])
           /\ \A o1, o2 \in SwappedAt(s) \cup WrittenAt(s) : o1[1] = o2[1] => o1 = o2
  <1>1. s \in VmStates /\ Queues(s)
    BY DEF Core
  <1>2. ASSUME NEW o \in SwappedAt(s)
        PROVE  /\ o[1] \in VmKeys /\ o[2] = s.val[o[1]].page /\ o[2] # -1
               /\ o = <<o[1], o[2]>> /\ o[2] \in Int
    <2>1. PICK k \in VmKeys : s.val[k].page # -1 /\ o = <<k, s.val[k].page>>
      BY DEF SwappedAt
    <2>2. s.val[k].page \in Int
      BY <1>1, Fields DEF VmVals
    <2> QED BY <2>1, <2>2
  <1>3. ASSUME NEW o \in WrittenAt(s)
        PROVE  \E j \in Alive(s) : /\ j.type = "do" /\ o = <<j.key, j.page>> /\ j.key \in VmKeys
                                   /\ j.page \in Int /\ s.val[j.key].page = -1
    <2>1. PICK j \in Alive(s) : j.type = "do" /\ o = <<j.key, j.page>>
      BY DEF WrittenAt
    <2>2. j \in VmJobs /\ j.key \in VmKeys
      BY <1>1, AliveType
    <2>3. JobOk(j, s.val[j.key], D[j.key], f) /\ KeyOk(s.val[j.key], j.key, D[j.key], f)
      BY <2>2 DEF Core
    <2>4. s.val[j.key].page = -1
      BY <2>1, <2>3 DEF JobOk, KeyOk
    <2>5. j.page \in Int
      BY <2>2 DEF VmJobs
    <2> QED BY <2>1, <2>2, <2>4, <2>5
  <1>4. ASSUME NEW o \in SwappedAt(s) \cup WrittenAt(s)
        PROVE  o[1] \in VmKeys /\ Cluster(o[1], o[2]) \subseteq Own(s, o[1])
    <2>1. CASE o \in SwappedAt(s)
      <3>1. o[1] \in VmKeys /\ o[2] = s.val[o[1]].page /\ o[2] # -1 /\ o[2] \in Int
        BY <1>2, <2>1
      <3>2. Cluster(o[1], o[2]) \subseteq Int
        BY <3>1, ClusterInt
      <3> QED BY <3>1, <3>2 DEF Own
    <2>2. CASE o \in WrittenAt(s)
      <3>1. PICK j \in Alive(s) : /\ j.type = "do" /\ o = <<j.key, j.page>> /\ j.key \in VmKeys
                                  /\ j.page \in Int
        BY <1>3, <2>2
      <3>2. Cluster(j.key, j.page) \subseteq Int
        BY <3>1, ClusterInt
      <3>3. j \in Writes(s, j.key)
        BY <3>1 DEF Writes
      <3> QED BY <3>1, <3>2, <3>3 DEF Own
    <2> QED BY <2>1, <2>2
  <1>5. ASSUME NEW k \in VmKeys, NEW p \in Own(s, k)
        PROVE  \E o \in SwappedAt(s) \cup WrittenAt(s) : p \in Cluster(o[1], o[2])
    <2>1. CASE s.val[k].page # -1 /\ p \in Cluster(k, s.val[k].page)
      <3> DEFINE o == <<k, s.val[k].page>>
      <3>1. o \in SwappedAt(s) /\ o[1] = k /\ o[2] = s.val[k].page
        BY <2>1 DEF SwappedAt
      <3> HIDE DEF o
      <3> QED BY <2>1, <3>1
    <2>2. CASE \E j \in Writes(s, k) : p \in Cluster(k, j.page)
      <3>1. PICK j \in Writes(s, k) : p \in Cluster(k, j.page)
        BY <2>2
      <3> DEFINE o == <<k, j.page>>
      <3>2. o \in WrittenAt(s) /\ o[1] = k /\ o[2] = j.page
        BY DEF WrittenAt, Writes
      <3> HIDE DEF o
      <3> QED BY <3>1, <3>2
    <2> QED BY <2>1, <2>2 DEF Own
  <1>6. ASSUME NEW o1 \in SwappedAt(s) \cup WrittenAt(s), NEW o2 \in SwappedAt(s) \cup WrittenAt(s),
               o1[1] = o2[1]
        PROVE  o1 = o2
    <2>1. CASE o1 \in SwappedAt(s) /\ o2 \in SwappedAt(s)
      BY <1>2, <1>6, <2>1
    <2>2. CASE o1 \in WrittenAt(s) /\ o2 \in WrittenAt(s)
      <3>1. PICK j1 \in Alive(s) : o1 = <<j1.key, j1.page>>
        BY <1>3, <2>2
      <3>2. PICK j2 \in Alive(s) : o2 = <<j2.key, j2.page>>
        BY <1>3, <2>2
      <3>3. j1.key = j2.key
        BY <1>6, <3>1, <3>2
      <3>4. j1 = j2
        BY <1>1, <3>3 DEF Queues
      <3> QED BY <3>1, <3>2, <3>4
    <2>3. ASSUME NEW a \in SwappedAt(s), NEW b \in WrittenAt(s), a[1] = b[1] PROVE FALSE
      <3>1. s.val[a[1]].page # -1
        BY <1>2
      <3>2. s.val[b[1]].page = -1
        BY <1>3
      <3> QED BY <2>3, <3>1, <3>2
    <2> QED BY <1>6, <2>1, <2>2, <2>3
  <1> QED BY <1>4, <1>5, <1>6

(* The used pages are accounted for.                                       *)
LEMMA AccountedThen == ASSUME VmInv PROVE PagesAccounted
  <1> DEFINE A == SwappedAt(vm)
             B == WrittenAt(vm)
  <1>1. Core(vm, vmdata, swapfile) /\ Queues(vm) /\ PagesOk(vm) /\ vm \in VmStates
    BY DEF VmInv, Core
  <1>2. {<<j.key, j.page>> : j \in {x \in Jobs(vm) : x.type = "do" /\ ~x.canceled}} = B
    BY <1>1, LiveJobs DEF WrittenAt
  <1>3. /\ \A o \in A \cup B : o[1] \in VmKeys /\ Cluster(o[1], o[2]) \subseteq Own(vm, o[1])
        /\ \A k \in VmKeys : \A p \in Own(vm, k) : \E o \in A \cup B : p \in Cluster(o[1], o[2])
        /\ \A o1, o2 \in A \cup B : o1[1] = o2[1] => o1 = o2
    BY <1>1, ClustersOwn
  <1>4. vm.used = UNION {Cluster(o[1], o[2]) : o \in A \cup B}
    <2> HIDE DEF A, B
    <2>1. ASSUME NEW p \in vm.used PROVE \E o \in A \cup B : p \in Cluster(o[1], o[2])
      <3>1. p \in Int
        BY <1>1, Fields
      <3>2. PICK k \in VmKeys : p \in Own(vm, k)
        BY <1>1, <3>1 DEF PagesOk
      <3> QED BY <1>3, <3>2
    <2>2. ASSUME NEW o \in A \cup B, NEW p \in Cluster(o[1], o[2]) PROVE p \in vm.used
      <3>1. o[1] \in VmKeys /\ p \in Own(vm, o[1]) /\ p \in Int
        BY <1>3 DEF Own
      <3> QED BY <1>1, <3>1 DEF PagesOk
    <2> QED BY <2>1, <2>2
  <1>5. ASSUME NEW o1 \in A \cup B, NEW o2 \in A \cup B, o1 # o2
        PROVE  Cluster(o1[1], o1[2]) \cap Cluster(o2[1], o2[2]) = {}
    <2> HIDE DEF A, B
    <2>1. o1[1] # o2[1] /\ o1[1] \in VmKeys /\ o2[1] \in VmKeys
      BY <1>3, <1>5
    <2>2. Own(vm, o1[1]) \cap Own(vm, o2[1]) = {}
      BY <1>1, <2>1 DEF PagesOk
    <2>3. Cluster(o1[1], o1[2]) \subseteq Own(vm, o1[1]) /\ Cluster(o2[1], o2[2]) \subseteq Own(vm, o2[1])
      BY <1>3
    <2> QED BY <2>2, <2>3
  <1>6. A = {<<k, vm.val[k].page>> : k \in {x \in VmKeys : vm.val[x].page # -1}}
    BY DEF SwappedAt
  <1> HIDE DEF A, B
  <1> QED BY <1>2, <1>4, <1>5, <1>6, Zenon DEF PagesAccounted

(* One live job for a value on its way, and none for others.               *)
LEMMA JobEachThen == ASSUME VmInv PROVE OneJobEach
  <1> SUFFICES ASSUME NEW k \in VmKeys
               PROVE  LET live == JobOf(vm, k)
                          types == CASE vm.val[k].storage = "loading" -> {"load"}
                                     [] vm.val[k].storage = "swapping" -> {"prepare", "do"}
                                     [] OTHER -> {} IN
                      /\ Cardinality(live) = IF types = {} THEN 0 ELSE 1
                      /\ \A j \in live : j.type \in types
    BY DEF OneJobEach
  <1> DEFINE L == JobOf(vm, k)
             st == vm.val[k].storage
  <1>1. Core(vm, vmdata, swapfile) /\ Queues(vm) /\ vm \in VmStates
    BY DEF VmInv, Core
  <1>2. L = {j \in Alive(vm) : j.key = k}
    BY <1>1, JobOfIs
  <1>3. \A j \in L : /\ j.type \in {"prepare", "do", "load"}
                     /\ j.type = "load" => st = "loading"
                     /\ j.type # "load" => st = "swapping"
    <2> SUFFICES ASSUME NEW j \in L
                 PROVE  /\ j.type \in {"prepare", "do", "load"}
                        /\ j.type = "load" => st = "loading"
                        /\ j.type # "load" => st = "swapping"
      OBVIOUS
    <2>1. j \in Alive(vm) /\ j.key = k
      BY <1>2
    <2>2. j \in VmJobs /\ JobOk(j, vm.val[k], vmdata[k], swapfile)
      BY <1>1, <2>1, AliveType DEF Core
    <2> QED BY <2>2 DEF VmJobs, JobOk
  <1>4. st \in {"swapping", "loading"} => L # {}
    BY <1>1, <1>2 DEF Core, OnItsWay
  <1>5. \A a, b \in L : a = b
    BY <1>1, <1>2 DEF Queues
  <1>6. CASE st \in {"swapping", "loading"}
    <2>1. PICK j \in L : TRUE
      BY <1>4, <1>6
    <2>2. L = {j}
      BY <1>5, <2>1
    <2> HIDE DEF L
    <2>3. Cardinality(L) = 1
      BY <2>2, FS_Singleton
    <2>4. CASE st = "loading"
      BY <1>3, <2>3, <2>4 DEF L
    <2>5. CASE st = "swapping"
      BY <1>3, <2>3, <2>5 DEF L
    <2> QED BY <1>6, <2>4, <2>5
  <1>7. CASE st \notin {"swapping", "loading"}
    <2>1. L = {}
      BY <1>3, <1>7
    <2> HIDE DEF L
    <2>2. Cardinality(L) = 0
      BY <2>1, FS_EmptySet
    <2> QED BY <1>7, <2>1, <2>2 DEF L
  <1> QED BY <1>6, <1>7

(* A client that waits comes back.                                         *)
LEMMA WaitersThen == ASSUME VmInv PROVE WaitersComeBack
  <1>1. Agree(vm) /\ WaitsFor(vm, vmstuck) /\ ReadyOk(vm, WaitSet)
    BY DEF VmInv
  <1> SUFFICES ASSUME NEW c \in VmClients
               PROVE  /\ ~Waiting(c) => vm.io_keys[c] = <<>>
                      /\ Waiting(c) /\ vm.io_keys[c] = <<>> => Times(vm.ready, c) = 1
                      /\ \A k \in VmKeys :
                           /\ Times(vm.io_keys[c], k) = Times(vm.waiters[k], c)
                           /\ k \in Range(vm.io_keys[c]) =>
                                vm.val[k].storage = "loading" \/ c \in vmstuck
    BY DEF WaitersComeBack
  <1>2. Waiting(c) <=> c \in WaitSet
    BY DEF Waiting, WaitSet
  <1>3. /\ ~Waiting(c) => vm.io_keys[c] = <<>>
        /\ Waiting(c) /\ vm.io_keys[c] = <<>> => Times(vm.ready, c) = 1
    BY <1>1, <1>2 DEF ReadyOk
  <1>4. \A k \in VmKeys :
          /\ Times(vm.io_keys[c], k) = Times(vm.waiters[k], c)
          /\ k \in Range(vm.io_keys[c]) => vm.val[k].storage = "loading" \/ c \in vmstuck
    BY <1>1 DEF Agree, WaitsFor
  <1> QED BY <1>3, <1>4

(* vm.c keeps every value where it should be, whatever the main thread,    *)
(* the I/O threads and a saving child do at the same time, for all keys,   *)
(* pages, threads and commands, as long as no write to the swap file       *)
(* fails: the values are the ones last written, no page is of two values,  *)
(* every value on its way has its job, the child reads what was there, and *)
(* who waits is woken.                                                     *)
THEOREM SwapAlwaysSound == ASSUME VmWriteFails = FALSE PROVE VmSpec => []SwapSound
  <1>1. VmInit => VmInv
    BY VmStarts
  <1>2. VmInv /\ [VmNext]_vmVars => VmInv'
    BY VmSteps
  <1>3. VmInv => SwapSound
    <2>1. VmInv => ChildReadsItsData
      BY DEF VmInv, VmChildOk
    <2> QED BY <2>1, HoldsThen, AccountedThen, JobEachThen, WaitersThen DEF SwapSound
  <1> QED BY <1>1, <1>2, <1>3, PTL DEF VmSpec
=============================================================================
