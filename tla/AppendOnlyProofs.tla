------------------------- MODULE AppendOnlyProofs -------------------------
(***************************************************************************)
(* Proofs about AppendOnly, for every set of clients and databases and     *)
(* every bound.                                                            *)
(***************************************************************************)
EXTENDS AppendOnly, TLAPS

-----------------------------------------------------------------------------
(* The type invariant.                                                     *)

\* The commands of s have been executed.
Ran(s) == \A i \in 1 .. Len(s) : s[i].cmd <= Len(executed)

\* Every command that the files and the buffers name has been executed.
InRange ==
  /\ aof.base <= Len(executed) /\ child.base <= Len(executed)
  /\ Ran(aof.entries) /\ Ran(aofbuf) /\ Ran(bgrewritebuf)

\* A background fsync covers no more than the file holds.
BioBounded ==
  \A i \in 1 .. Len(bio) : bio[i].live => bio[i].upto <= Len(aof.entries)

\* A process that is gone has no buffers and no children.
NoMemory ==
  ~Up => aofbuf = <<>> /\ bgrewritebuf = <<>> /\ child = NoChild /\ bio = <<>>

TypeInv == TypeOK /\ InRange /\ BioBounded /\ NoMemory

LEMMA JobType ==
  ASSUME NEW s \in Seq(Job), NEW i \in 1 .. Len(s)
  PROVE  s[i].upto \in Int /\ s[i].live \in BOOLEAN
<1>1. s[i] \in Job
  OBVIOUS
<1> QED BY <1>1 DEF Job

\* What is forgotten is in its type afterwards.
LEMMA LoseMemoryType ==
  ASSUME LoseMemory
  PROVE  /\ appendonly' \in BOOLEAN /\ appendfd' \in {"closed", "open", "stale"}
         /\ appendseldb' \in Dbs \cup {NoDb}
         /\ aofbuf' = <<>> /\ bgrewritebuf' = <<>> /\ child' = NoChild
         /\ child' \in Child /\ child'.base = 0
         /\ bgsave' \in {"none", "running", "exited"} /\ scheduled' \in BOOLEAN
         /\ skew' \in 0 .. MaxWait /\ sinceFsync' \in -MaxWait .. 1
         /\ postponed' \in -1 .. MaxWait /\ bio' = <<>>
         /\ rev' \subseteq Clients /\ wev' \subseteq Clients
         /\ pend' \in [Clients -> Seq(Nat)]
<1>1. /\ appendonly' \in BOOLEAN /\ appendfd' \in {"closed", "open", "stale"}
      /\ appendseldb' \in Dbs \cup {NoDb}
      /\ aofbuf' = <<>> /\ bgrewritebuf' = <<>> /\ child' = NoChild
      /\ bgsave' \in {"none", "running", "exited"} /\ scheduled' \in BOOLEAN
      /\ bio' = <<>> /\ rev' \subseteq Clients /\ wev' \subseteq Clients
  BY DEF LoseMemory
<1>2. child' \in Child /\ child'.base = 0
  BY <1>1 DEF NoChild, Child
<1>3. /\ skew' \in 0 .. MaxWait /\ sinceFsync' \in -MaxWait .. 1
      /\ postponed' \in -1 .. MaxWait
  BY DEF LoseMemory, NotPostponed, MaxWait
<1>4. pend' \in [Clients -> Seq(Nat)]
  BY DEF LoseMemory
<1> QED BY <1>1, <1>2, <1>3, <1>4

LEMMA TypeInvInit == Init => TypeInv
<1> SUFFICES ASSUME Init PROVE TypeInv
  OBVIOUS
<1>1. aof \in File /\ aof.base = 0 /\ aof.entries = <<>>
  BY DEF Init, EmptyFile, File
<1>2. child \in Child /\ child.base = 0
  BY DEF Init, NoChild, Child
<1>3. /\ skew \in 0 .. MaxWait /\ sinceFsync \in -MaxWait .. 1
      /\ postponed \in -1 .. MaxWait /\ synced \in 0 .. Len(aof.entries)
  BY <1>1 DEF Init, MaxWait, NotPostponed
<1>4. /\ executed \in Seq(Dbs) /\ aofbuf \in Seq(Entry) /\ bio \in Seq(Job)
      /\ bgrewritebuf \in Seq(Entry) /\ pend \in [Clients -> Seq(Nat)]
  BY DEF Init
<1>5. /\ phase \in Phases /\ appendonly \in BOOLEAN
      /\ appendfd \in {"closed", "open", "stale"}
      /\ appendseldb \in Dbs \cup {NoDb}
      /\ bgsave \in {"none", "running", "exited"} /\ scheduled \in BOOLEAN
      /\ rev \subseteq Clients /\ wev \subseteq Clients /\ acked \subseteq Nat
  BY DEF Init, Phases
<1>6. TypeOK
  BY <1>1, <1>2, <1>3, <1>4, <1>5 DEF TypeOK
<1>7. InRange /\ BioBounded /\ NoMemory
  BY <1>1, <1>2 DEF Init, InRange, Ran, BioBounded, NoMemory
<1> QED BY <1>6, <1>7 DEF TypeInv

\* A file that keeps its beginning, with the memory gone.
LEMMA CrashType ==
  ASSUME TypeInv, LoseMemory, UNCHANGED executed, phase' \in Down,
         aof' \in File, aof'.base = aof.base,
         synced' \in 0 .. Len(aof'.entries),
         Ran(aof'.entries), acked' \subseteq Nat
  PROVE  TypeInv'
<1>1. TypeOK'
  <2>1. phase' \in Phases /\ executed' \in Seq(Dbs)
    BY DEF TypeOK, TypeInv, Down, Phases
  <2>2. aofbuf' \in Seq(Entry) /\ bgrewritebuf' \in Seq(Entry) /\ bio' \in Seq(Job)
    BY LoseMemoryType
  <2> QED BY <2>1, <2>2, LoseMemoryType DEF TypeOK
<1>2. InRange'
  BY LoseMemoryType DEF TypeOK, TypeInv, InRange, Ran
<1>3. BioBounded' /\ NoMemory'
  BY LoseMemoryType DEF BioBounded, NoMemory
<1> QED BY <1>1, <1>2, <1>3 DEF TypeInv

\* WriteBuffer moves the entries of the buffer to the file.
LEMMA WriteType ==
  ASSUME TypeInv, WriteBuffer
  PROVE  /\ aof' \in File /\ aof'.base = aof.base
         /\ aof'.entries = aof.entries \o aofbuf
         /\ Len(aof'.entries) = Len(aof.entries) + Len(aofbuf)
         /\ aofbuf' = <<>> /\ postponed' \in -1 .. MaxWait
         /\ Ran(aof'.entries)
<1>1. aof.entries \in Seq(Entry) /\ aofbuf \in Seq(Entry)
  BY DEF TypeInv, TypeOK, File
<1>2. /\ aof.entries \o aofbuf \in Seq(Entry)
      /\ Len(aof.entries \o aofbuf) = Len(aof.entries) + Len(aofbuf)
  BY <1>1
<1>3. /\ aof' \in File /\ aof'.base = aof.base
      /\ aof'.entries = aof.entries \o aofbuf
  <2>1. aof \in File /\ aof' = [aof EXCEPT !.entries = aof.entries \o aofbuf]
    BY DEF WriteBuffer, TypeInv, TypeOK
  <2> QED BY <1>2, <2>1 DEF File
<1>4. Ran(aof.entries \o aofbuf)
  BY <1>1 DEF TypeInv, InRange, Ran
<1>5. aofbuf' = <<>> /\ postponed' \in -1 .. MaxWait
  BY DEF WriteBuffer, NotPostponed, MaxWait
<1> QED BY <1>2, <1>3, <1>4, <1>5

LEMMA FsyncType ==
  ASSUME TypeInv, FsyncAfterWrite
  PROVE  /\ sinceFsync' \in -MaxWait .. 1
         /\ bio' \in Seq(Job)
         /\ \A i \in 1 .. Len(bio') : bio'[i].live => bio'[i].upto <= Len(aof.entries)
<1>1. sinceFsync' \in -MaxWait .. 1
  BY DEF FsyncAfterWrite, TypeInv, TypeOK, MaxWait
<1>2. CASE bio' = bio
  BY <1>1, <1>2 DEF TypeInv, TypeOK, BioBounded
<1>3. CASE bio' = <<[live |-> TRUE, upto |-> -1]>>
  <2>1. [live |-> TRUE, upto |-> -1] \in Job
    BY DEF Job
  <2>2. bio' \in Seq(Job) /\ Len(bio') = 1 /\ bio'[1].upto = -1
    BY <1>3, <2>1
  <2>3. Len(aof.entries) \in Nat
    BY DEF TypeInv, TypeOK, File
  <2> QED BY <1>1, <2>2, <2>3
<1> QED BY <1>2, <1>3 DEF FsyncAfterWrite

\* flushAppendOnlyFile() moves entries from the buffer to the file.
LEMMA FlushType ==
  ASSUME TypeInv, NEW force \in BOOLEAN, flushAppendOnlyFile(force)
  PROVE  /\ aof' \in File /\ aof'.base = aof.base
         /\ synced' \in 0 .. Len(aof'.entries)
         /\ aofbuf' \in Seq(Entry) /\ postponed' \in -1 .. MaxWait
         /\ sinceFsync' \in -MaxWait .. 1
         /\ bio' \in Seq(Job)
         /\ Ran(aof'.entries) /\ Ran(aofbuf')
         /\ \A i \in 1 .. Len(bio') : bio'[i].live => bio'[i].upto <= Len(aof'.entries)
<1>1. CASE aofbuf = <<>>
  BY <1>1 DEF TypeInv, TypeOK, InRange, BioBounded, flushAppendOnlyFile
<1>2. CASE aofbuf # <<>> /\ Postpones(force)
  <2>1. UNCHANGED <<aof, synced, aofbuf, sinceFsync, bio>>
    BY <1>2 DEF flushAppendOnlyFile
  <2>2. postponed' \in -1 .. MaxWait
    BY <1>2 DEF flushAppendOnlyFile, TypeInv, TypeOK, MaxWait, NotPostponed
  <2> QED BY <2>1, <2>2 DEF TypeInv, TypeOK, InRange, BioBounded
<1>3. CASE aofbuf # <<>> /\ ~Postpones(force)
  <2>1. WriteBuffer /\ FsyncAfterWrite
        /\ synced' = IF FsyncDue /\ Fsync = "always"
                     THEN Len(aof.entries) + Len(aofbuf) ELSE synced
    BY <1>3 DEF flushAppendOnlyFile
  <2>2. Len(aof.entries) \in Nat /\ Len(aofbuf) \in Nat
    BY DEF TypeInv, TypeOK, File
  <2>3. synced' \in 0 .. Len(aof'.entries)
    <3>1. /\ Len(aof'.entries) = Len(aof.entries) + Len(aofbuf)
          /\ synced \in 0 .. Len(aof.entries)
      BY <2>1, WriteType DEF TypeInv, TypeOK
    <3> QED BY <2>1, <2>2, <3>1
  <2>4. Len(aof.entries) <= Len(aof'.entries)
    BY <2>1, <2>2, WriteType
  <2>5. \A i \in 1 .. Len(bio') : bio'[i].live => bio'[i].upto <= Len(aof'.entries)
    <3>1. Len(aof'.entries) \in Nat
      BY <2>1, <2>2, WriteType
    <3>2. \A i \in 1 .. Len(bio') : bio'[i].upto \in Int
      BY <2>1, FsyncType, JobType
    <3> QED BY <2>1, <2>2, <2>4, <3>1, <3>2, FsyncType
  <2>6. aofbuf' \in Seq(Entry) /\ Ran(aofbuf')
    BY <2>1, WriteType DEF Ran
  <2> QED BY <2>1, <2>3, <2>5, <2>6, WriteType, FsyncType
<1> QED BY <1>1, <1>2, <1>3

\* call() and feedAppendOnlyFile().
LEMMA CallType ==
  ASSUME TypeInv, NEW d \in Dbs, call(d)
  PROVE  /\ executed' \in Seq(Dbs) /\ Len(executed') = Len(executed) + 1
         /\ appendseldb' \in Dbs \cup {NoDb}
         /\ aofbuf' \in Seq(Entry) /\ bgrewritebuf' \in Seq(Entry)
         /\ (UNCHANGED aof => Ran(aof.entries)')
         /\ Ran(aofbuf)' /\ Ran(bgrewritebuf)'
<1>1. /\ executed \in Seq(Dbs) /\ Len(executed) \in Nat
      /\ aof.entries \in Seq(Entry) /\ aofbuf \in Seq(Entry)
      /\ bgrewritebuf \in Seq(Entry)
  BY DEF TypeInv, TypeOK, File
<1>2. executed' \in Seq(Dbs) /\ Len(executed') = Len(executed) + 1
  BY <1>1 DEF call
<1>3. FedEntry(d) \in Entry /\ FedEntry(d).cmd = Len(executed) + 1
  BY <1>1 DEF FedEntry, Entry
<1>4. appendseldb' \in Dbs \cup {NoDb}
  BY DEF call, TypeInv, TypeOK
<1>5. ASSUME NEW s \in Seq(Entry), Ran(s)
      PROVE  /\ \A i \in 1 .. Len(s) : s[i].cmd <= Len(executed')
             /\ Append(s, FedEntry(d)) \in Seq(Entry)
             /\ \A i \in 1 .. Len(Append(s, FedEntry(d))) :
                  Append(s, FedEntry(d))[i].cmd <= Len(executed')
  <2>1. \A i \in 1 .. Len(s) : s[i].cmd \in Nat
    <3>1. \A i \in 1 .. Len(s) : s[i] \in Entry
      OBVIOUS
    <3> QED BY <3>1 DEF Entry
  <2>2. \A i \in 1 .. Len(s) : s[i].cmd <= Len(executed')
    BY <1>1, <1>2, <1>5, <2>1 DEF Ran
  <2>3. Append(s, FedEntry(d)) \in Seq(Entry)
    BY <1>3
  <2>4. ASSUME NEW i \in 1 .. Len(Append(s, FedEntry(d)))
        PROVE  Append(s, FedEntry(d))[i].cmd <= Len(executed')
    <3>1. CASE i \in 1 .. Len(s)
      BY <3>1, <2>2
    <3>2. CASE i = Len(s) + 1
      BY <3>2, <1>1, <1>2, <1>3
    <3> QED BY <3>1, <3>2
  <2> QED BY <2>2, <2>3, <2>4
<1>6. aofbuf' \in Seq(Entry) /\ Ran(aofbuf)'
  BY <1>1, <1>5 DEF call, Ran, TypeInv, InRange
<1>7. bgrewritebuf' \in Seq(Entry) /\ Ran(bgrewritebuf)'
  BY <1>1, <1>5 DEF call, Ran, TypeInv, InRange
<1>8. (UNCHANGED aof => Ran(aof.entries)')
  BY <1>1, <1>5 DEF Ran, TypeInv, InRange
<1> QED BY <1>2, <1>4, <1>6, <1>7, <1>8

\* A step of call() that leaves the disk alone.
LEMMA CallStep ==
  ASSUME TypeInv, NEW d \in Dbs, call(d), Up, phase' = phase,
         UNCHANGED <<aof, synced, appendonly, appendfd, child, bgsave,
                     scheduled, time, bio, wev, acked>>,
         rev' \subseteq Clients, pend' \in [Clients -> Seq(Nat)]
  PROVE  TypeInv'
<1>1. TypeOK'
  BY CallType DEF TypeInv, TypeOK, time
<1>2. InRange'
  <2>1. Len(executed) \in Nat /\ aof.base \in Nat /\ child.base \in Nat
    BY DEF TypeInv, TypeOK, File, Child
  <2> QED BY <2>1, CallType DEF TypeInv, InRange
<1>3. BioBounded' /\ NoMemory'
  BY DEF TypeInv, BioBounded, NoMemory, Up
<1> QED BY <1>1, <1>2, <1>3 DEF TypeInv

\* A step that writes no command and no file.
LEMMA QuietStep ==
  ASSUME TypeInv, Up, phase' \in Phases \ Down,
         UNCHANGED <<executed, aof, aofbuf, bgrewritebuf>>,
         synced' \in 0 .. Len(aof.entries),
         child' \in Child, child'.base <= Len(executed),
         appendonly' \in BOOLEAN, appendfd' \in {"closed", "open", "stale"},
         appendseldb' \in Dbs \cup {NoDb},
         bgsave' \in {"none", "running", "exited"}, scheduled' \in BOOLEAN,
         skew' \in 0 .. MaxWait, sinceFsync' \in -MaxWait .. 1,
         postponed' \in -1 .. MaxWait,
         bio' \in Seq(Job), BioBounded',
         rev' \subseteq Clients, wev' \subseteq Clients,
         pend' \in [Clients -> Seq(Nat)], acked' \subseteq Nat
  PROVE  TypeInv'
<1>1. TypeOK'
  BY DEF TypeInv, TypeOK
<1>2. InRange' /\ NoMemory'
  BY DEF TypeInv, InRange, Ran, NoMemory, Up
<1> QED BY <1>1, <1>2 DEF TypeInv

\* The rewriting child starts from what has been executed.
LEMMA ForkType ==
  ASSUME TypeInv, ForkRewrite
  PROVE  /\ child' \in Child /\ child'.base <= Len(executed)
         /\ appendseldb' \in Dbs \cup {NoDb} /\ scheduled' \in BOOLEAN
<1>1. Len(executed) \in Nat
  BY DEF TypeInv, TypeOK
<1>2. child' = [state |-> "running", base |-> Len(executed)]
  BY DEF ForkRewrite
<1>3. child' \in Child /\ child'.base <= Len(executed)
  BY <1>1, <1>2 DEF Child
<1> QED BY <1>3 DEF ForkRewrite

\* The facts of TypeInv that a step needs for what it leaves alone.
LEMMA TypeFacts ==
  ASSUME TypeInv
  PROVE  /\ phase \in Phases /\ executed \in Seq(Dbs) /\ Len(executed) \in Nat
         /\ aof \in File /\ aof.base \in Nat /\ aof.entries \in Seq(Entry)
         /\ Len(aof.entries) \in Nat /\ synced \in 0 .. Len(aof.entries)
         /\ child \in Child /\ child.base \in Nat /\ child.base <= Len(executed)
         /\ child.state \in {"none", "running", "ok", "failed"}
         /\ appendonly \in BOOLEAN /\ appendfd \in {"closed", "open", "stale"}
         /\ appendseldb \in Dbs \cup {NoDb}
         /\ aofbuf \in Seq(Entry) /\ Len(aofbuf) \in Nat
         /\ bgrewritebuf \in Seq(Entry) /\ Len(bgrewritebuf) \in Nat
         /\ bgsave \in {"none", "running", "exited"} /\ scheduled \in BOOLEAN
         /\ skew \in 0 .. MaxWait /\ sinceFsync \in -MaxWait .. 1
         /\ postponed \in -1 .. MaxWait
         /\ bio \in Seq(Job) /\ BioBounded
         /\ rev \subseteq Clients /\ wev \subseteq Clients
         /\ pend \in [Clients -> Seq(Nat)] /\ acked \subseteq Nat
  BY DEF TypeInv, TypeOK, InRange, File, Child

LEMMA AdvanceType ==
  ASSUME TypeInv, AdvanceUnixtime
  PROVE  /\ skew' \in 0 .. MaxWait /\ sinceFsync' \in -MaxWait .. 1
         /\ postponed' \in -1 .. MaxWait
  BY TypeFacts DEF AdvanceUnixtime, MaxWait, NotPostponed, Smaller

LEMMA FlushStep ==
  ASSUME TypeInv, flushAppendOnlyFile(FALSE), Up, phase' \in Phases \ Down,
         UNCHANGED <<executed, appendonly, appendfd, appendseldb, child,
                     bgrewritebuf, bgsave, scheduled, skew, pend, acked>>,
         rev' \subseteq Clients, wev' \subseteq Clients
  PROVE  TypeInv'
<1>1. TypeOK'
  BY FlushType, TypeFacts DEF TypeOK
<1>2. InRange' /\ BioBounded' /\ NoMemory'
  BY FlushType DEF TypeInv, InRange, Ran, BioBounded, NoMemory, Up
<1> QED BY <1>1, <1>2 DEF TypeInv

\* The first k entries of a sequence are entries of it.
LEMMA PrefixRan ==
  ASSUME NEW s \in Seq(Entry), Ran(s), NEW k \in 0 .. Len(s)
  PROVE  SubSeq(s, 1, k) \in Seq(Entry) /\ Len(SubSeq(s, 1, k)) = k
         /\ Ran(SubSeq(s, 1, k))
<1>1. SubSeq(s, 1, k) \in Seq(Entry) /\ Len(SubSeq(s, 1, k)) = k
  OBVIOUS
<1>2. \A i \in 1 .. k : SubSeq(s, 1, k)[i] = s[i]
  OBVIOUS
<1> QED BY <1>1, <1>2 DEF Ran

LEMMA ConcatRan ==
  ASSUME NEW s \in Seq(Entry), Ran(s), NEW t \in Seq(Entry), Ran(t)
  PROVE  s \o t \in Seq(Entry) /\ Len(s \o t) = Len(s) + Len(t) /\ Ran(s \o t)
<1>1. s \o t \in Seq(Entry) /\ Len(s \o t) = Len(s) + Len(t)
  OBVIOUS
<1> QED BY <1>1 DEF Ran

LEMMA WriteFailsStep ==
  ASSUME TypeInv, WriteFails
  PROVE  TypeInv'
<1>1. /\ LoseMemory /\ UNCHANGED <<executed, synced, acked>> /\ phase' \in Down
      /\ \/ aof' = aof
         \/ \E k \in 0 .. Len(aofbuf) - 1, t \in BOOLEAN :
              aof' = [aof EXCEPT !.entries = @ \o SubSeq(aofbuf, 1, k), !.torn = t]
  BY DEF WriteFails, Down
<1>2. CASE aof' = aof
  BY <1>1, <1>2, CrashType, TypeFacts DEF TypeInv, InRange
<1>3. ASSUME NEW k \in 0 .. Len(aofbuf) - 1, NEW t \in BOOLEAN,
             aof' = [aof EXCEPT !.entries = @ \o SubSeq(aofbuf, 1, k), !.torn = t]
      PROVE  TypeInv'
  <2>1. k \in 0 .. Len(aofbuf) /\ Ran(aof.entries) /\ Ran(aofbuf)
    BY TypeFacts DEF TypeInv, InRange
  <2> DEFINE w == SubSeq(aofbuf, 1, k)
  <2>2. w \in Seq(Entry) /\ Ran(w) /\ Len(w) = k
    BY <2>1, PrefixRan, TypeFacts
  <2> HIDE DEF w
  <2>3. /\ aof.entries \o w \in Seq(Entry) /\ Ran(aof.entries \o w)
        /\ Len(aof.entries \o w) = Len(aof.entries) + k
    BY <2>1, <2>2, ConcatRan, TypeFacts
  <2>4. aof' = [aof EXCEPT !.entries = aof.entries \o w, !.torn = t]
    BY <1>3 DEF w
  <2>5. aof \in File
    BY TypeFacts
  <2>6. /\ aof' \in File /\ aof'.base = aof.base
        /\ aof'.entries = aof.entries \o w
    BY <2>3, <2>4, <2>5 DEF File
  <2>7. synced' \in 0 .. Len(aof'.entries)
    <3>1. synced \in 0 .. Len(aof.entries) /\ Len(aof.entries) \in Nat /\ k \in Nat
      BY TypeFacts
    <3>2. synced' = synced /\ Len(aof'.entries) = Len(aof.entries) + k
      BY <1>1, <2>3, <2>6
    <3> QED BY <3>1, <3>2
  <2>8. acked' \subseteq Nat
    BY <1>1, TypeFacts
  <2> QED BY <1>1, <2>3, <2>6, <2>7, <2>8, CrashType
<1> QED BY <1>1, <1>2, <1>3

LEMMA PowerLossStep ==
  ASSUME TypeInv, PowerLoss
  PROVE  TypeInv'
<1>1. PICK k \in synced .. Len(aof.entries) :
        /\ synced' = k
        /\ \E t \in BOOLEAN :
             aof' = [aof EXCEPT !.entries = SubSeq(@, 1, k), !.torn = t]
  BY DEF PowerLoss
<1>2. k \in 0 .. Len(aof.entries) /\ Ran(aof.entries)
  BY TypeFacts DEF TypeInv, InRange
<1>3. /\ SubSeq(aof.entries, 1, k) \in Seq(Entry)
      /\ Ran(SubSeq(aof.entries, 1, k)) /\ Len(SubSeq(aof.entries, 1, k)) = k
  BY <1>2, TypeFacts, PrefixRan
<1>4. /\ aof' \in File /\ aof'.base = aof.base
      /\ aof'.entries = SubSeq(aof.entries, 1, k)
  <2>1. aof \in File
    BY TypeFacts
  <2> QED BY <1>1, <1>3, <2>1 DEF File
<1>5. synced' \in 0 .. Len(aof'.entries)
  <2>1. Len(aof'.entries) = k
    BY <1>3, <1>4
  <2> QED BY <1>1, <1>2, <2>1
<1> QED BY <1>3, <1>4, <1>5, TypeFacts, CrashType DEF PowerLoss, Down

\* redis-check-aof and main() only run while the server is down.
LEMMA RestartStep ==
  ASSUME TypeInv, CheckAofFix \/ Restart
  PROVE  TypeInv'
<1>1. /\ ~Up /\ aofbuf = <<>> /\ bgrewritebuf = <<>> /\ child = NoChild /\ bio = <<>>
      /\ aof.base <= Len(executed) /\ Ran(aof.entries) /\ child.base = 0
  BY DEF CheckAofFix, Restart, Up, TypeInv, NoMemory, InRange, NoChild
<1>2. CASE CheckAofFix
  <2>1. aof' \in File /\ aof'.base = aof.base /\ aof'.entries = aof.entries
    <3>1. aof \in File /\ aof' = [aof EXCEPT !.torn = FALSE]
      BY <1>2, TypeFacts DEF CheckAofFix
    <3> QED BY <3>1 DEF File
  <2>2. TypeOK'
    BY <1>2, <2>1, TypeFacts DEF CheckAofFix, TypeOK, server, time, network
  <2>3. InRange' /\ BioBounded' /\ NoMemory'
    BY <1>1, <1>2, <2>1 DEF CheckAofFix, InRange, Ran, BioBounded, NoMemory,
                            server, time, network, Up
  <2> QED BY <2>2, <2>3 DEF TypeInv
<1>3. CASE Restart
  <2>1. /\ executed' = Replayed /\ aof' = Renumbered
        /\ UNCHANGED <<synced, server, time, bio, rev, wev, pend>>
        /\ phase' = "before" /\ acked' \subseteq acked
    BY <1>3 DEF Restart
  <2> DEFINE n == Len(aof.entries)
             b == aof.base
  <2>2. n \in Nat /\ b \in Nat /\ b <= Len(executed) /\ executed \in Seq(Dbs)
    BY <1>1, TypeFacts
  <2>3. \A i \in 1 .. n : aof.entries[i].cmd \in 1 .. Len(executed)
                          /\ aof.entries[i].sel \in BOOLEAN
    <3>1. \A i \in 1 .. n : aof.entries[i] \in Entry
      BY TypeFacts
    <3> QED BY <1>1, <2>2, <3>1 DEF Entry, Ran
  <2>4. executed' \in Seq(Dbs) /\ Len(executed') = b + n
    <3>1. SubSeq(executed, 1, b) \in Seq(Dbs) /\ Len(SubSeq(executed, 1, b)) = b
      BY <2>2
    <3> DEFINE t == [i \in 1 .. n |-> executed[aof.entries[i].cmd]]
    <3>2. t \in Seq(Dbs) /\ Len(t) = n
      <4>1. \A i \in 1 .. n : executed[aof.entries[i].cmd] \in Dbs
        BY <2>2, <2>3
      <4> QED BY <2>2, <4>1
    <3>3. executed' = SubSeq(executed, 1, b) \o t
      BY <2>1 DEF Replayed
    <3> HIDE DEF t
    <3> QED BY <3>1, <3>2, <3>3
  <2> DEFINE r == [i \in 1 .. n |-> [cmd |-> b + i, sel |-> aof.entries[i].sel]]
  <2>5. /\ r \in Seq(Entry) /\ Len(r) = n
        /\ \A i \in 1 .. n : r[i].cmd = b + i
    <3>1. \A i \in 1 .. n : [cmd |-> b + i, sel |-> aof.entries[i].sel] \in Entry
      BY <2>2, <2>3 DEF Entry
    <3> QED BY <2>2, <3>1
  <2> HIDE DEF r
  <2>6. aof' \in File /\ aof'.base = b /\ aof'.entries = r
    <3>1. aof \in File /\ aof' = [aof EXCEPT !.entries = r]
      BY <2>1, TypeFacts DEF Renumbered, r
    <3> QED BY <2>5, <3>1 DEF File
  <2>7. TypeOK'
    BY <2>1, <2>4, <2>5, <2>6, TypeFacts DEF TypeOK, Phases, server, time
  <2>8. InRange'
    <3>1. aof'.base <= Len(executed') /\ child'.base <= Len(executed')
      BY <1>1, <2>1, <2>2, <2>4, <2>6 DEF server
    <3>2. Ran(aof.entries)'
      BY <2>2, <2>4, <2>5, <2>6 DEF Ran
    <3>3. aofbuf' = <<>> /\ bgrewritebuf' = <<>>
      BY <1>1, <2>1 DEF server
    <3> QED BY <3>1, <3>2, <3>3 DEF InRange, Ran
  <2>9. BioBounded' /\ NoMemory'
    BY <1>1, <2>1 DEF BioBounded, NoMemory, Up, Down
  <2> QED BY <2>7, <2>8, <2>9 DEF TypeInv
<1> QED BY <1>2, <1>3

\* The fsyncs of the file that lost the name no longer count.
LEMMA DeadJobs ==
  ASSUME NEW s \in Seq(Job)
  PROVE  /\ Dead(s) \in Seq(Job) /\ Len(Dead(s)) = Len(s)
         /\ \A i \in 1 .. Len(s) : ~Dead(s)[i].live
<1>1. ASSUME NEW i \in 1 .. Len(s)
      PROVE  [s[i] EXCEPT !.live = FALSE] \in Job
             /\ ~[s[i] EXCEPT !.live = FALSE].live
  <2>1. s[i] \in Job
    OBVIOUS
  <2> QED BY <2>1 DEF Job
<1> DEFINE x(i) == [s[i] EXCEPT !.live = FALSE]
<1>2. Dead(s) = [i \in 1 .. Len(s) |-> x(i)]
  BY DEF Dead
<1>3. Len(s) \in Nat /\ \A i \in 1 .. Len(s) : x(i) \in Job /\ ~x(i).live
  BY <1>1
<1> HIDE DEF x
<1> QED BY <1>2, <1>3

\* rename(2) puts a file in the place of another.
LEMMA RenameType ==
  ASSUME TypeInv, RenameRewritten
  PROVE  /\ aof' \in File /\ aof'.base = child.base
         /\ aof'.entries = bgrewritebuf
         /\ synced' \in 0 .. Len(aof'.entries)
         /\ bio' \in Seq(Job) /\ BioBounded'
<1>1. aof' \in File /\ aof'.base = child.base /\ aof'.entries = bgrewritebuf
  BY TypeFacts DEF RenameRewritten, File
<1>2. synced' \in 0 .. Len(aof'.entries)
  BY <1>1, TypeFacts DEF RenameRewritten
<1>3. bio' = Dead(bio) /\ bio \in Seq(Job)
  BY TypeFacts DEF RenameRewritten
<1>4. bio' \in Seq(Job) /\ BioBounded'
  BY <1>3, DeadJobs DEF BioBounded
<1> QED BY <1>1, <1>2, <1>4

\* The rest of backgroundRewriteDoneHandler() leaves the file alone.
LEMMA SwitchType ==
  ASSUME TypeInv, SwitchToRewritten, UNCHANGED aof
  PROVE  /\ synced' \in 0 .. Len(aof.entries)
         /\ appendfd' \in {"closed", "open", "stale"}
         /\ appendseldb' \in Dbs \cup {NoDb}
         /\ aofbuf' \in Seq(Entry) /\ Ran(aofbuf')
         /\ bio' \in Seq(Job) /\ BioBounded'
<1>1. synced' \in 0 .. Len(aof.entries)
  BY TypeFacts DEF SwitchToRewritten
<1>2. appendfd' \in {"closed", "open", "stale"} /\ appendseldb' \in Dbs \cup {NoDb}
  BY TypeFacts DEF SwitchToRewritten
<1>3. aofbuf' \in Seq(Entry) /\ Ran(aofbuf')
  <2>1. aofbuf' = aofbuf \/ aofbuf' = <<>>
    BY DEF SwitchToRewritten
  <2>2. aofbuf \in Seq(Entry) /\ Ran(aofbuf)
    BY DEF TypeInv, TypeOK, InRange
  <2>3. <<>> \in Seq(Entry) /\ Ran(<<>>)
    BY DEF Ran
  <2> QED BY <2>1, <2>2, <2>3
<1>4. bio' \in Seq(Job) /\ BioBounded'
  <2>1. bio \in Seq(Job) /\ Len(aof.entries) \in Nat /\ BioBounded
    BY TypeFacts
  <2>2. [live |-> TRUE, upto |-> -1] \in Job
    BY DEF Job
  <2> DEFINE x == [live |-> TRUE, upto |-> -1]
  <2>3. x \in Job /\ x.upto = -1
    BY <2>2
  <2>4. bio' = bio \/ bio' = Append(bio, x)
    BY DEF SwitchToRewritten
  <2> HIDE DEF x
  <2>5. CASE bio' = bio
    BY <2>1, <2>5 DEF BioBounded
  <2>6. CASE bio' = Append(bio, x)
    <3>1. /\ bio' \in Seq(Job) /\ Len(bio') = Len(bio) + 1
          /\ bio'[Len(bio) + 1] = x
          /\ \A i \in 1 .. Len(bio) : bio'[i] = bio[i]
      BY <2>1, <2>3, <2>6
    <3>2. ASSUME NEW i \in 1 .. Len(bio'), bio'[i].live
          PROVE  bio'[i].upto <= Len(aof.entries)
      <4>1. CASE i \in 1 .. Len(bio)
        BY <2>1, <3>1, <3>2, <4>1 DEF BioBounded
      <4>2. CASE i = Len(bio) + 1
        BY <2>1, <2>3, <3>1, <4>2
      <4> QED BY <2>1, <3>1, <4>1, <4>2
    <3> QED BY <3>1, <3>2 DEF BioBounded
  <2> QED BY <2>4, <2>5, <2>6
<1> QED BY <1>1, <1>2, <1>3, <1>4

LEMMA CleanupType ==
  ASSUME rewriteCleanup
  PROVE  /\ bgrewritebuf' \in Seq(Entry) /\ Ran(bgrewritebuf)'
         /\ child' \in Child /\ child'.base = 0
<1>1. bgrewritebuf' = <<>> /\ child' = NoChild
  BY DEF rewriteCleanup
<1> QED BY <1>1 DEF NoChild, Child, Ran

LEMMA ReapStep ==
  ASSUME TypeInv, CronReap
  PROVE  TypeInv'
<1>1. /\ phase = "reap" /\ phase' = "postponed" /\ UNCHANGED <<executed, time, network>>
  BY DEF CronReap
<1>2. CASE NoneExited /\ UNCHANGED <<disk, server, bio>>
  BY <1>1, <1>2, TypeFacts, QuietStep
     DEF disk, server, time, network, Up, Down, Phases, BioBounded
<1>3. CASE /\ bgsave' \in {"none", "running"}
           /\ UNCHANGED <<disk, appendonly, appendfd, appendseldb, aofbuf, child,
                          bgrewritebuf, scheduled, bio>>
  BY <1>1, <1>3, TypeFacts, QuietStep
     DEF disk, time, network, Up, Down, Phases, BioBounded
<1>4. CASE KeepOldFile /\ rewriteCleanup /\ UNCHANGED <<appendonly, bgsave, scheduled>>
  <2>1. TypeOK'
    BY <1>1, <1>4, CleanupType, TypeFacts
       DEF TypeOK, Phases, time, network, KeepOldFile
  <2>2. InRange' /\ BioBounded'
    BY <1>1, <1>4, CleanupType, TypeFacts
       DEF InRange, Ran, TypeInv, KeepOldFile, BioBounded
  <2>3. NoMemory'
    BY <1>1 DEF NoMemory, Up, Down
  <2> QED BY <2>1, <2>2, <2>3 DEF TypeInv
<1> QED BY <1>2, <1>3, <1>4 DEF CronReap

LEMMA RenameStep ==
  ASSUME TypeInv, CronRename
  PROVE  TypeInv'
<1>1. /\ phase' = "renamed" /\ RenameRewritten
      /\ UNCHANGED <<executed, server, time, network>>
  BY DEF CronRename
<1>2. TypeOK'
  BY <1>1, RenameType, TypeFacts DEF TypeOK, Phases, server, time, network
<1>3. InRange'
  <2>1. aof'.base = child.base /\ aof'.entries = bgrewritebuf
    BY <1>1, RenameType
  <2> QED BY <1>1, <2>1 DEF TypeInv, InRange, Ran, server
<1>4. NoMemory'
  BY <1>1 DEF NoMemory, Up, Down
<1> QED BY <1>1, <1>2, <1>3, <1>4, RenameType DEF TypeInv

LEMMA SwitchStep ==
  ASSUME TypeInv, CronSwitch
  PROVE  TypeInv'
<1>1. /\ phase' = "postponed" /\ SwitchToRewritten /\ rewriteCleanup
      /\ UNCHANGED <<executed, aof, appendonly, bgsave, scheduled, time, network>>
  BY DEF CronSwitch
<1>2. /\ synced' \in 0 .. Len(aof'.entries) /\ BioBounded' /\ bio' \in Seq(Job)
      /\ appendfd' \in {"closed", "open", "stale"}
      /\ appendseldb' \in Dbs \cup {NoDb}
      /\ aofbuf' \in Seq(Entry) /\ Ran(aofbuf')
  BY <1>1, SwitchType
<1>3. TypeOK'
  BY <1>1, <1>2, CleanupType, TypeFacts DEF TypeOK, Phases, time, network
<1>4. InRange'
  <2>1. /\ aof.base <= Len(executed) /\ Ran(aof.entries) /\ Len(executed) \in Nat
    BY TypeFacts DEF TypeInv, InRange
  <2> QED BY <1>1, <1>2, <2>1, CleanupType DEF InRange, Ran
<1>5. NoMemory'
  BY <1>1 DEF NoMemory, Up, Down
<1> QED BY <1>2, <1>3, <1>4, <1>5 DEF TypeInv

LEMMA BioStep ==
  ASSUME TypeInv, BioStart \/ BioEnd
  PROVE  TypeInv'
<1>1. Up /\ bio # <<>> /\ phase' = phase /\ phase \in Phases \ Down
  BY TypeFacts DEF BioStart, BioEnd, Up
<1>2. /\ bio \in Seq(Job) /\ Len(bio) \in Nat /\ 1 \in 1 .. Len(bio)
      /\ Len(aof.entries) \in Nat
  BY <1>1, TypeFacts
<1>3. bio[1] \in Job /\ (bio[1].live => bio[1].upto <= Len(aof.entries))
  BY <1>2, TypeFacts DEF BioBounded
<1>4. CASE BioStart
  <2> DEFINE u == IF bio[1].live THEN Len(aof.entries) ELSE 0
             x == [bio[1] EXCEPT !.upto = u]
  <2>1. bio' = [bio EXCEPT ![1] = x]
    BY <1>4 DEF BioStart
  <2>2. x \in Job /\ x.upto <= Len(aof.entries)
    BY <1>2, <1>3 DEF Job
  <2> HIDE DEF x
  <2>3. bio' \in Seq(Job) /\ BioBounded'
    <3>1. UNCHANGED aof
      BY <1>4 DEF BioStart, disk
    <3>2. /\ bio' \in Seq(Job) /\ Len(bio') = Len(bio) /\ bio'[1] = x
          /\ \A i \in 1 .. Len(bio) : i # 1 => bio'[i] = bio[i]
      BY <1>2, <2>1, <2>2
    <3> QED BY <2>2, <3>1, <3>2, TypeFacts DEF BioBounded
  <2> QED BY <1>1, <1>4, <2>3, TypeFacts, QuietStep
          DEF BioStart, disk, server, time, network
<1>5. CASE BioEnd
  <2>1. synced' \in 0 .. Len(aof.entries)
    <3> DEFINE u == bio[1].upto
               m == Len(aof.entries)
    <3>1. /\ u >= 0 /\ u \in Int /\ (bio[1].live => u <= m)
          /\ synced \in 0 .. m /\ m \in Nat
      BY <1>2, <1>3, <1>5, TypeFacts DEF BioEnd, Job
    <3>2. synced' = IF bio[1].live /\ u > synced THEN u ELSE synced
      BY <1>5 DEF BioEnd
    <3> HIDE DEF u, m
    <3> QED BY <3>1, <3>2 DEF m
  <2>2. bio' \in Seq(Job) /\ BioBounded'
    <3>1. bio' = Tail(bio) /\ UNCHANGED aof
      BY <1>5 DEF BioEnd
    <3>2. /\ bio' \in Seq(Job) /\ Len(bio') = Len(bio) - 1
          /\ \A i \in 1 .. Len(bio) - 1 : bio'[i] = bio[i + 1]
      BY <1>1, <1>2, <3>1
    <3> QED BY <1>2, <3>1, <3>2, TypeFacts DEF BioBounded
  <2> QED BY <1>1, <1>5, <2>1, <2>2, TypeFacts, QuietStep
          DEF BioEnd, server, time, network
<1> QED BY <1>4, <1>5

LEMMA ExitStep ==
  ASSUME TypeInv, exitCleanly, UNCHANGED acked
  PROVE  TypeInv'
  BY TypeFacts, CrashType DEF exitCleanly, Down, TypeInv, InRange

LEMMA CannotExitType ==
  ASSUME TypeInv, cannotExit
  PROVE  /\ bgsave' \in {"none", "running", "exited"}
         /\ child' \in Child /\ child'.base = child.base
         /\ synced' \in 0 .. Len(aof.entries) /\ BioBounded'
         /\ UNCHANGED <<executed, aof, appendonly, appendfd, appendseldb,
                        aofbuf, bgrewritebuf, scheduled, bio>>
<1>1. bgsave' \in {"none", "running", "exited"} /\ synced' \in 0 .. Len(aof.entries)
  BY TypeFacts DEF cannotExit
<1>2. child' \in Child /\ child'.base = child.base
  <2>1. child \in Child
    BY TypeFacts
  <2> QED BY <2>1 DEF cannotExit, Child
<1> QED BY <1>1, <1>2, TypeFacts DEF cannotExit, BioBounded

LEMMA StopStep ==
  ASSUME TypeInv, NEW c \in Clients, stopAppendOnly(c)
  PROVE  TypeInv'
<1>1. /\ Up /\ phase' = phase /\ UNCHANGED <<executed, bgsave, scheduled, skew, wev, pend, acked>>
      /\ child' = NoChild /\ bgrewritebuf' \in {bgrewritebuf, <<>>}
      /\ appendfd' = "closed" /\ appendseldb' = NoDb /\ appendonly' = FALSE
      /\ rev' \subseteq Clients
  BY TypeFacts DEF stopAppendOnly, Up, Down
<1>2. child' \in Child /\ child'.base = 0
  BY <1>1 DEF NoChild, Child
<1>3. /\ aof' \in File /\ aof'.base = aof.base /\ Len(aof.entries) <= Len(aof'.entries)
      /\ aofbuf' \in Seq(Entry) /\ Ran(aof'.entries) /\ Ran(aofbuf')
      /\ postponed' \in -1 .. MaxWait /\ sinceFsync' \in -MaxWait .. 1
      /\ bio' \in Seq(Job)
      /\ \A i \in 1 .. Len(bio') : bio'[i].live => bio'[i].upto <= Len(aof.entries)
  <2>1. CASE aofbuf = <<>> /\ UNCHANGED <<aof, aofbuf, postponed, sinceFsync, bio>>
    BY <2>1, TypeFacts DEF TypeInv, InRange, BioBounded
  <2>2. CASE WriteBuffer /\ FsyncAfterWrite
    <3>1. aofbuf' \in Seq(Entry) /\ Ran(aofbuf')
      BY <2>2, WriteType DEF Ran
    <3>2. Len(aof.entries) <= Len(aof'.entries)
      BY <2>2, WriteType, TypeFacts
    <3> QED BY <2>2, <3>1, <3>2, WriteType, FsyncType
  <2> QED BY <2>1, <2>2 DEF stopAppendOnly
<1>4. synced' \in 0 .. Len(aof'.entries)
  <2>1. Len(aof'.entries) \in Nat
    BY <1>3 DEF File
  <2>2. synced' = Len(aof'.entries) \/ synced' = synced
    BY DEF stopAppendOnly
  <2>3. synced \in 0 .. Len(aof.entries) /\ Len(aof.entries) \in Nat
    BY TypeFacts
  <2> QED BY <1>3, <2>1, <2>2, <2>3
<1>5. TypeOK'
  <2>1. bgrewritebuf' \in Seq(Entry)
    <3>1. bgrewritebuf \in Seq(Entry) /\ <<>> \in Seq(Entry)
      BY TypeFacts
    <3> QED BY <1>1, <3>1
  <2>2. /\ appendfd' \in {"closed", "open", "stale"} /\ appendonly' \in BOOLEAN
        /\ appendseldb' \in Dbs \cup {NoDb} /\ phase' \in Phases
    BY <1>1, TypeFacts
  <2>3. /\ executed' \in Seq(Dbs) /\ bgsave' \in {"none", "running", "exited"}
        /\ scheduled' \in BOOLEAN /\ skew' \in 0 .. MaxWait
        /\ wev' \subseteq Clients /\ pend' \in [Clients -> Seq(Nat)]
        /\ acked' \subseteq Nat
    BY <1>1, TypeFacts
  <2> QED BY <1>1, <1>2, <1>3, <1>4, <2>1, <2>2, <2>3 DEF TypeOK
<1>6. InRange'
  <2>1. aof.base <= Len(executed) /\ Ran(bgrewritebuf) /\ Len(executed) \in Nat
    BY TypeFacts DEF TypeInv, InRange
  <2>2. Ran(<<>>)
    BY DEF Ran
  <2>3. Ran(bgrewritebuf')
    BY <1>1, <2>1, <2>2
  <2> QED BY <1>1, <1>2, <1>3, <2>1, <2>3 DEF InRange, Ran
<1>7. BioBounded'
  <2>1. Len(aof'.entries) \in Nat /\ Len(aof.entries) \in Nat
    BY <1>3, TypeFacts DEF File
  <2>2. \A i \in 1 .. Len(bio') : bio'[i].upto \in Int
    BY <1>3, JobType
  <2> QED BY <1>3, <2>1, <2>2 DEF BioBounded
<1>8. NoMemory'
  BY <1>1 DEF NoMemory, Up
<1> QED BY <1>5, <1>6, <1>7, <1>8 DEF TypeInv

\* No step breaks the type invariant.
LEMMA TypeInvStep == TypeInv /\ [Next]_vars => TypeInv'
<1> SUFFICES ASSUME TypeInv, [Next]_vars PROVE TypeInv'
  OBVIOUS
<1>1. CASE BeforeSleep
  BY <1>1, FlushStep DEF BeforeSleep, Up, Down, Phases
<1>2. CASE WriteFails
  BY <1>2, WriteFailsStep
<1>3. ASSUME NEW c \in Clients, NEW d \in Dbs, ReadCommand(c, d)
      PROVE  TypeInv'
  <2>1. pend' \in [Clients -> Seq(Nat)] /\ rev' \subseteq Clients
    <3>1. pend[c] \in Seq(Nat) /\ Len(executed) + 1 \in Nat
      BY TypeFacts
    <3>2. Append(pend[c], Len(executed) + 1) \in Seq(Nat)
      BY <3>1
    <3> QED BY <1>3, <3>2, TypeFacts DEF ReadCommand
  <2> QED BY <1>3, <2>1, CallStep DEF ReadCommand, disk, Up, Down
<1>4. ASSUME NEW c \in Clients, ReadNothing(c)
      PROVE  TypeInv'
  BY <1>4, TypeFacts, QuietStep
     DEF ReadNothing, disk, server, time, Up, Down, Phases, BioBounded
<1>5. ASSUME NEW c \in Clients, SendReply(c)
      PROVE  TypeInv'
  <2>1. PICK k \in 1 .. Len(pend[c]) :
          /\ acked' = acked \cup {pend[c][i] : i \in 1 .. k}
          /\ pend' = [pend EXCEPT ![c] = SubSeq(@, k + 1, Len(@))]
    BY <1>5 DEF SendReply
  <2>2. pend[c] \in Seq(Nat)
    BY TypeFacts
  <2>3. SubSeq(pend[c], k + 1, Len(pend[c])) \in Seq(Nat)
    BY <2>2
  <2>4. pend' \in [Clients -> Seq(Nat)]
    <3>1. pend \in [Clients -> Seq(Nat)]
      BY TypeFacts
    <3> QED BY <2>1, <2>3, <3>1
  <2>5. acked' \subseteq Nat
    <3>1. \A i \in 1 .. k : pend[c][i] \in Nat
      BY <2>2
    <3> QED BY <2>1, <3>1, TypeFacts
  <2> QED BY <1>5, <2>4, <2>5, TypeFacts, QuietStep
          DEF SendReply, disk, server, time, Up, Down, Phases, BioBounded
<1>6. ASSUME NEW c \in Clients, bgrewriteaofCommand(c)
      PROVE  TypeInv'
  BY <1>6, TypeFacts, ForkType, QuietStep
     DEF bgrewriteaofCommand, disk, time, Up, Down, Phases, BioBounded
<1>7. ASSUME NEW c \in Clients, StartBgsave(c)
      PROVE  TypeInv'
  BY <1>7, TypeFacts, QuietStep
     DEF StartBgsave, disk, time, Up, Down, Phases, BioBounded
<1>8. ASSUME NEW c \in Clients, shutdownCommand(c)
      PROVE  TypeInv'
  <2>1. CASE exitCleanly /\ UNCHANGED acked
    BY <2>1, ExitStep
  <2>2. CASE cannotExit /\ ~exitCleanly
    BY <1>8, <2>2, TypeFacts, CannotExitType, QuietStep
       DEF shutdownCommand, time, Up, Down, Phases
  <2> QED BY <1>8, <2>1, <2>2 DEF shutdownCommand
<1>9. ASSUME NEW c \in Clients, stopAppendOnly(c)
      PROVE  TypeInv'
  BY <1>9, StopStep
<1>10. ASSUME NEW c \in Clients, startAppendOnly(c)
       PROVE  TypeInv'
  <2>1. /\ child' \in Child /\ child'.base <= Len(executed)
        /\ appendseldb' \in Dbs \cup {NoDb} /\ scheduled' \in BOOLEAN
    BY <1>10, TypeFacts, ForkType DEF startAppendOnly
  <2>2. sinceFsync' \in -MaxWait .. 1
    BY <1>10, TypeFacts DEF startAppendOnly, MaxWait
  <2>3. appendonly' \in BOOLEAN /\ appendfd' \in {"closed", "open", "stale"}
    BY <1>10 DEF startAppendOnly
  <2> QED BY <1>10, <2>1, <2>2, <2>3, TypeFacts, QuietStep
          DEF startAppendOnly, disk, Up, Down, Phases, BioBounded
<1>11. CASE NoTimeEvent
  BY <1>11, TypeFacts, QuietStep
     DEF NoTimeEvent, EventsServed, disk, server, time, network, Up, Down, Phases, BioBounded
<1>12. CASE CronTime
  BY <1>12, TypeFacts, AdvanceType, QuietStep
     DEF CronTime, EventsServed, disk, server, network, Up, Down, Phases, BioBounded
<1>13. CASE CronSigterm
  <2>1. CASE exitCleanly /\ UNCHANGED acked
    BY <2>1, ExitStep
  <2>2. CASE cannotExit /\ ~exitCleanly
    BY <1>13, <2>2, TypeFacts, AdvanceType, CannotExitType, QuietStep
       DEF CronSigterm, EventsServed, Up, Down, Phases
  <2> QED BY <1>13, <2>1, <2>2 DEF CronSigterm
<1>14. CASE CronScheduled
  BY <1>14, TypeFacts, ForkType, QuietStep
     DEF CronScheduled, disk, time, network, Up, Down, Phases, BioBounded
<1>15. CASE CronReap \/ CronRename \/ CronSwitch
  BY <1>15, ReapStep, RenameStep, SwitchStep
<1>16. CASE CronTriggers
  BY <1>16, TypeFacts, ForkType, QuietStep
     DEF CronTriggers, disk, time, network, Up, Down, Phases, BioBounded
<1>17. CASE CronFlush
  <2>1. CASE postponed # NotPostponed
    BY <1>17, <2>1, TypeFacts, FlushStep DEF CronFlush, network, Up, Down, Phases
  <2>2. CASE postponed = NotPostponed
    BY <1>17, <2>2, TypeFacts, QuietStep
       DEF CronFlush, network, Up, Down, Phases, BioBounded
  <2> QED BY <2>1, <2>2
<1>18. ASSUME NEW d \in Dbs, CronExpire(d)
       PROVE  TypeInv'
  BY <1>18, TypeFacts, CallStep DEF CronExpire, disk, network, Up, Down
<1>19. CASE CronEnd
  BY <1>19, TypeFacts, QuietStep
     DEF CronEnd, disk, server, time, network, Up, Down, Phases, BioBounded
<1>20. CASE Tick
  <2>1. skew' \in 0 .. MaxWait
    BY <1>20, TypeFacts, BoundsAssumption DEF Tick, MaxWait
  <2> QED BY <1>20, <2>1, TypeFacts, QuietStep
          DEF Tick, disk, server, network, Up, BioBounded
<1>21. CASE BioStart \/ BioEnd
  BY <1>21, BioStep
<1>22. CASE ChildExit
  <2>1. child' \in Child /\ child'.base = child.base
    <3>1. child \in Child
      BY TypeFacts
    <3> QED BY <1>22, <3>1 DEF ChildExit, Child
  <2> QED BY <1>22, <2>1, TypeFacts, QuietStep
          DEF ChildExit, disk, time, network, Up, BioBounded
<1>23. CASE BgsaveExit
  BY <1>23, TypeFacts, QuietStep
     DEF BgsaveExit, disk, time, network, Up, BioBounded
<1>24. CASE PowerLoss
  BY <1>24, PowerLossStep
<1>25. CASE CheckAofFix \/ Restart
  BY <1>25, RestartStep
<1>26. CASE UNCHANGED vars
  BY <1>26 DEF vars, disk, server, time, network, TypeInv, TypeOK, InRange, Ran,
               BioBounded, NoMemory, Up
<1> QED
  BY <1>1, <1>2, <1>3, <1>4, <1>5, <1>6, <1>7, <1>8, <1>9, <1>10, <1>11, <1>12,
     <1>13, <1>14, <1>15, <1>16, <1>17, <1>18, <1>19, <1>20, <1>21, <1>22,
     <1>23, <1>24, <1>25, <1>26
     DEF Next, MainThread, Environment, EventHandlers, serverCron

\* Every variable keeps its type, under every policy and with every client
\* behaviour.
THEOREM TypeCorrect == Spec => []TypeOK
<1>1. Spec => []TypeInv
  BY TypeInvInit, TypeInvStep, PTL DEF Spec
<1>2. TypeInv => TypeOK
  BY DEF TypeInv
<1> QED BY <1>1, <1>2, PTL

-----------------------------------------------------------------------------
(* The log: nothing is lost, repeated or run in another database.          *)

\* s, replayed on the dataset after the first base commands of ex, runs the
\* commands that follow, each in its database.
Log(ex, base, s) ==
  /\ base + Len(s) <= Len(ex)
  /\ \A i \in 1 .. Len(s) : s[i].cmd = base + i
  /\ \A i \in 1 .. Len(s) : s[i].sel \/ (i > 1 /\ ex[base + i] = ex[base + i - 1])

Logged ==
  Up /\ phase # "renamed" =>
    /\ Log(executed, aof.base, aof.entries \o aofbuf)
    /\ aof.base + Len(aof.entries) + Len(aofbuf) = Len(executed)

\* Between the rename and the end of backgroundRewriteDoneHandler() the file is
\* the dataset of the child with the differences, and the buffer is in it.
Renamed ==
  phase = "renamed" =>
    child # NoChild /\ aof.base = child.base /\ aof.entries = bgrewritebuf

Merges ==
  Up /\ child # NoChild => /\ Log(executed, child.base, bgrewritebuf)
                           /\ child.base + Len(bgrewritebuf) = Len(executed)

\* server.appendseldb, when set, is the database of the last command, which
\* the log and the differences of a rewrite both hold.
Selected ==
  Up /\ appendseldb # NoDb =>
    /\ Len(executed) > 0 /\ executed[Len(executed)] = appendseldb
    /\ phase # "renamed" => Len(aof.entries) + Len(aofbuf) > 0
    /\ child # NoChild => Len(bgrewritebuf) > 0

\* The inductive invariant.  AofOn needs that nobody turns the AOF off.
LogInv ==
  /\ appendonly = TRUE /\ appendfd = "open"
  /\ Log(executed, aof.base, aof.entries)
  /\ Logged /\ Renamed /\ Merges /\ Selected
  /\ child = NoChild => bgrewritebuf = <<>>
  /\ ~Up => appendseldb = NoDb

\* A log says what RecoversPrefix says.
LEMMA LogMeaning ==
  ASSUME NEW base \in Nat, NEW s \in Seq(Entry)
  PROVE  Log(executed, base, s) <=>
           base + Len(s) <= Len(executed) /\ Contiguous(base, s) /\ InRightDb(s)
<1>1. ASSUME \A i \in 1 .. Len(s) : s[i].cmd = base + i, NEW i \in 1 .. Len(s)
      PROVE  (i > 1 /\ executed[base + i] = executed[base + i - 1]) <=>
               (i > 1 /\ executed[s[i].cmd] = executed[s[i - 1].cmd])
  <2>1. CASE i > 1
    <3>1. i - 1 \in 1 .. Len(s) /\ base + (i - 1) = base + i - 1
      BY <2>1
    <3>2. s[i].cmd = base + i /\ s[i - 1].cmd = base + i - 1
      BY <1>1, <3>1
    <3> QED BY <3>2
  <2> QED BY <2>1
<1> QED BY <1>1 DEF Log, Contiguous, InRightDb

\* The beginning of a log is a log.
LEMMA LogPrefix ==
  ASSUME NEW ex, Len(ex) \in Nat, NEW base \in Nat,
         NEW s \in Seq(Entry), NEW t \in Seq(Entry),
         Log(ex, base, s), Len(t) <= Len(s),
         \A i \in 1 .. Len(t) : t[i] = s[i]
  PROVE  Log(ex, base, t)
<1>1. Len(s) \in Nat /\ Len(t) \in Nat
  OBVIOUS
<1>2. \A i \in 1 .. Len(t) : i \in 1 .. Len(s)
  BY <1>1
<1>3. base + Len(t) <= Len(ex)
  BY <1>1 DEF Log
<1>4. ASSUME NEW i \in 1 .. Len(t)
      PROVE  /\ t[i].cmd = base + i
             /\ t[i].sel \/ (i > 1 /\ ex[base + i] = ex[base + i - 1])
  BY <1>2 DEF Log
<1> QED BY <1>3, <1>4 DEF Log

\* feedAppendOnlyFile() extends a log that ends with the last command.
LEMMA LogAppend ==
  ASSUME TypeInv, NEW d \in Dbs, executed' = Append(executed, d),
         NEW base \in Nat, NEW s \in Seq(Entry),
         Log(executed, base, s), base + Len(s) = Len(executed),
         appendseldb # NoDb =>
           Len(s) > 0 /\ executed[Len(executed)] = appendseldb
  PROVE  /\ Log(executed', base, Append(s, FedEntry(d)))
         /\ base + Len(Append(s, FedEntry(d))) = Len(executed')
<1> DEFINE f == FedEntry(d)
           n == Len(s)
<1>1. /\ executed \in Seq(Dbs) /\ Len(executed) \in Nat /\ n \in Nat
      /\ Len(executed') = Len(executed) + 1 /\ executed'[Len(executed) + 1] = d
      /\ \A i \in 1 .. Len(executed) : executed'[i] = executed[i]
  BY TypeFacts
<1>2. f.cmd = base + n + 1 /\ (f.sel \/ d = appendseldb)
  BY <1>1 DEF FedEntry
<1>3. d # NoDb
  BY DbsAssumption DEF NoDb
<1> HIDE DEF f
<1>4. /\ Len(Append(s, f)) = n + 1 /\ Append(s, f)[n + 1] = f
      /\ \A i \in 1 .. n : Append(s, f)[i] = s[i]
  OBVIOUS
<1> DEFINE m == Len(executed)
<1>5. m \in Nat /\ n \in Nat /\ m = base + n
  BY <1>1
<1> HIDE DEF n, m
<1>6. \A i \in 1 .. n + 1 : i \in 1 .. n \/ i = n + 1
  BY <1>5
<1>7. ASSUME NEW i \in 1 .. n + 1 PROVE Append(s, f)[i].cmd = base + i
  <2>1. CASE i \in 1 .. n
    BY <1>4, <2>1 DEF Log, n
  <2>2. CASE i = n + 1
    BY <1>5, <1>2, <1>4, <2>2
  <2> QED BY <1>6, <2>1, <2>2
<1>8. ASSUME NEW i \in 1 .. n + 1
      PROVE  \/ Append(s, f)[i].sel
             \/ i > 1 /\ executed'[base + i] = executed'[base + i - 1]
  <2>1. CASE i \in 1 .. n
    <3>1. /\ Append(s, f)[i] = s[i]
          /\ s[i].sel \/ (i > 1 /\ executed[base + i] = executed[base + i - 1])
      BY <1>4, <2>1 DEF Log, n
    <3>2. base + i \in 1 .. m
      BY <1>5, <2>1
    <3>3. i > 1 => base + i - 1 \in 1 .. m
      BY <1>5, <2>1
    <3> QED BY <1>1, <3>1, <3>2, <3>3 DEF m
  <2>2. CASE i = n + 1
    <3>1. CASE f.sel
      BY <1>4, <2>2, <3>1
    <3>2. CASE d = appendseldb
      <4>1. n > 0 /\ executed[m] = d
        BY <1>3, <3>2 DEF n, m
      <4>2. base + i = m + 1 /\ base + i - 1 = m /\ m \in 1 .. m /\ i > 1
        BY <1>5, <2>2, <4>1
      <4>3. executed'[m + 1] = d /\ executed'[m] = executed[m]
        BY <1>1, <4>2 DEF m
      <4> QED BY <4>1, <4>2, <4>3
    <3> QED BY <1>2, <3>1, <3>2
  <2> QED BY <1>6, <2>1, <2>2
<1>9. base + Len(Append(s, f)) = Len(executed')
  BY <1>1, <1>4, <1>5 DEF m
<1>10. Len(executed') \in Nat
  BY <1>1
<1> QED BY <1>4, <1>7, <1>8, <1>9, <1>10 DEF Log, f

LEMMA ConcatAppend ==
  \A s, t \in Seq(Entry), x \in Entry : s \o Append(t, x) = Append(s \o t, x)
  OBVIOUS

\* The steps, by what they do to the log.  A command is executed.
LEMMA CallKeepsLog ==
  ASSUME TypeInv, LogInv, Up, phase # "renamed", NEW d \in Dbs, call(d),
         UNCHANGED <<phase, aof, appendonly, appendfd, child>>
  PROVE  LogInv'
<1>1. /\ aof.base \in Nat /\ aof.entries \in Seq(Entry) /\ aofbuf \in Seq(Entry)
      /\ child.base \in Nat /\ bgrewritebuf \in Seq(Entry)
      /\ executed \in Seq(Dbs) /\ Len(executed) \in Nat
      /\ Len(aof.entries) \in Nat /\ Len(aofbuf) \in Nat /\ Len(bgrewritebuf) \in Nat
  BY TypeFacts
<1>2. /\ executed' = Append(executed, d) /\ appendseldb' = d
      /\ aofbuf' = Append(aofbuf, FedEntry(d))
      /\ bgrewritebuf' = IF child = NoChild THEN bgrewritebuf
                         ELSE Append(bgrewritebuf, FedEntry(d))
  BY DEF call, LogInv
<1>3. FedEntry(d) \in Entry
  BY <1>1 DEF FedEntry, Entry
<1> DEFINE f == FedEntry(d)
           s == aof.entries \o aofbuf
<1>4. s \in Seq(Entry) /\ Len(s) = Len(aof.entries) + Len(aofbuf)
  BY <1>1
<1>5. /\ Len(executed') = Len(executed) + 1 /\ executed'[Len(executed')] = d
      /\ Len(executed') > 0
  BY <1>1, <1>2
<1>6. /\ Log(executed, aof.base, s) /\ aof.base + Len(s) = Len(executed)
      /\ appendseldb # NoDb => Len(s) > 0 /\ executed[Len(executed)] = appendseldb
  BY <1>1, <1>4 DEF LogInv, Logged, Selected
<1>7. /\ Log(executed', aof.base, Append(s, f))
      /\ aof.base + Len(Append(s, f)) = Len(executed')
  BY <1>1, <1>2, <1>4, <1>6, LogAppend
<1>8. aof.entries \o Append(aofbuf, f) = Append(s, f)
  <2>1. aof.entries \in Seq(Entry) /\ aofbuf \in Seq(Entry) /\ f \in Entry
    BY <1>1, <1>3
  <2> HIDE DEF f
  <2> QED BY <2>1, ConcatAppend
<1>9. Logged'
  <2>1. Len(Append(aofbuf, f)) = Len(aofbuf) + 1 /\ Len(Append(s, f)) = Len(s) + 1
    BY <1>1, <1>3, <1>4
  <2>2. aof'.entries \o aofbuf' = Append(s, f)
    BY <1>2, <1>8
  <2>3. aof.base + Len(aof.entries) + (Len(aofbuf) + 1) = Len(executed) + 1
    BY <1>1, <1>4, <1>6
  <2>4. aof'.base + Len(aof'.entries) + Len(aofbuf') = Len(executed')
    BY <1>2, <1>5, <2>1, <2>3
  <2> QED BY <1>7, <2>2, <2>4 DEF Logged
<1>10. Merges'
  <2> SUFFICES ASSUME child # NoChild
               PROVE  /\ Log(executed', child.base, Append(bgrewritebuf, f))
                      /\ child.base + Len(Append(bgrewritebuf, f)) = Len(executed')
    BY <1>2 DEF Merges
  <2>1. /\ Log(executed, child.base, bgrewritebuf)
        /\ child.base + Len(bgrewritebuf) = Len(executed)
        /\ appendseldb # NoDb => Len(bgrewritebuf) > 0
                                 /\ executed[Len(executed)] = appendseldb
    BY DEF LogInv, Merges, Selected
  <2> QED BY <1>1, <1>2, <2>1, LogAppend
<1>11. Selected'
  <2>1. Len(Append(aofbuf, f)) = Len(aofbuf) + 1
        /\ Len(Append(bgrewritebuf, f)) = Len(bgrewritebuf) + 1
    BY <1>1, <1>3
  <2>2. Len(aof'.entries) + Len(aofbuf') > 0
    <3> DEFINE n == Len(aof.entries)
               m == Len(aofbuf)
    <3>1. Len(aof'.entries) = n /\ Len(aofbuf') = m + 1 /\ n \in Nat /\ m \in Nat
      BY <1>1, <1>2, <2>1
    <3> HIDE DEF n, m
    <3> QED BY <3>1
  <2>3. child' # NoChild => Len(bgrewritebuf') > 0
    <3>1. child # NoChild => bgrewritebuf' = Append(bgrewritebuf, f)
      BY <1>2
    <3> QED BY <1>1, <2>1, <3>1
  <2> QED BY <1>2, <1>5, <2>2, <2>3 DEF Selected
<1>12. Log(executed', aof.base, aof.entries)
  <2>1. /\ Append(s, f) \in Seq(Entry) /\ Len(aof.entries) <= Len(Append(s, f))
        /\ \A i \in 1 .. Len(aof.entries) : aof.entries[i] = Append(s, f)[i]
    BY <1>1, <1>3, <1>4
  <2>2. Len(executed') \in Nat
    BY <1>1, <1>5
  <2> QED BY <1>1, <1>7, <2>1, <2>2, LogPrefix
<1> QED BY <1>2, <1>9, <1>10, <1>11, <1>12 DEF LogInv, Renamed, Up

\* The log goes on as it is: only other state changes.
LEMMA SameLog ==
  ASSUME TypeInv, LogInv, Up, Up',
         UNCHANGED <<executed, aof, appendonly, appendfd, aofbuf, bgrewritebuf>>,
         child'.base = child.base, (child' = NoChild) <=> (child = NoChild),
         appendseldb' = appendseldb, (phase' = "renamed") <=> (phase = "renamed")
  PROVE  LogInv'
  BY DEF LogInv, Logged, Renamed, Merges, Selected

\* Entries move from the buffer to the file.
LEMMA FlushKeepsLog ==
  ASSUME TypeInv, LogInv, Up, Up', flushAppendOnlyFile(FALSE),
         phase # "renamed", phase' # "renamed",
         UNCHANGED <<executed, appendonly, appendfd, appendseldb, child, bgrewritebuf>>
  PROVE  LogInv'
<1>1. CASE UNCHANGED <<aof, aofbuf>>
  BY <1>1, SameLog
<1>2. CASE WriteBuffer
  <2>1. /\ aof.entries \in Seq(Entry) /\ aofbuf \in Seq(Entry)
        /\ Len(aof.entries) \in Nat /\ Len(aofbuf) \in Nat
    BY TypeFacts
  <2>2. /\ aof'.base = aof.base /\ aof'.entries = aof.entries \o aofbuf
        /\ Len(aof'.entries) = Len(aof.entries) + Len(aofbuf)
        /\ aofbuf' = <<>> /\ aof'.entries \o aofbuf' = aof.entries \o aofbuf
    <3>1. /\ aof'.base = aof.base /\ aof'.entries = aof.entries \o aofbuf
          /\ Len(aof'.entries) = Len(aof.entries) + Len(aofbuf)
          /\ aofbuf' = <<>>
      BY <1>2, WriteType
    <3>2. (aof.entries \o aofbuf) \o <<>> = aof.entries \o aofbuf
      BY <2>1
    <3> QED BY <3>1, <3>2
  <2>3. Len(aof'.entries) + Len(aofbuf') = Len(aof.entries) + Len(aofbuf)
    BY <2>1, <2>2
  <2>4. Log(executed', aof'.base, aof'.entries) /\ Logged'
    <3>1. aof'.base + Len(aof'.entries) + Len(aofbuf') = Len(executed')
      <4>1. aof.base \in Nat /\ aof.base + Len(aof.entries) + Len(aofbuf) = Len(executed)
        BY TypeFacts DEF LogInv, Logged
      <4> QED BY <2>1, <2>2, <4>1
    <3> QED BY <2>2, <3>1 DEF LogInv, Logged
  <2>5. Merges'
    BY DEF LogInv, Merges
  <2>6. Selected'
    BY <2>3 DEF LogInv, Selected
  <2> QED BY <2>4, <2>5, <2>6 DEF LogInv, Renamed
<1> QED BY <1>1, <1>2 DEF flushAppendOnlyFile

\* rewriteAppendOnlyFileBackground(): the differences are empty, and the next
\* command will select its database in both files.
LEMMA ForkKeepsLog ==
  ASSUME TypeInv, LogInv, Up, Up', ForkRewrite,
         phase # "renamed", phase' # "renamed",
         UNCHANGED <<executed, aof, appendonly, appendfd, aofbuf, bgrewritebuf>>
  PROVE  LogInv'
<1>1. /\ appendseldb' = NoDb /\ bgrewritebuf' = <<>>
      /\ child' = [state |-> "running", base |-> Len(executed)]
  BY DEF ForkRewrite, LogInv
<1>2. child' # NoChild /\ child'.base = Len(executed) /\ Len(executed) \in Nat
  BY <1>1, TypeFacts DEF NoChild
<1>3. Merges'
  BY <1>1, <1>2 DEF Merges, Log
<1>4. Selected'
  BY <1>1 DEF Selected
<1> QED BY <1>2, <1>3, <1>4 DEF LogInv, Logged, Renamed

\* The process is gone and the file holds a beginning of the log.
LEMMA CrashKeepsLog ==
  ASSUME TypeInv, LogInv, LoseMemory, ~Up', UNCHANGED executed,
         Log(executed, aof'.base, aof'.entries)
  PROVE  LogInv'
  BY DEF LoseMemory, LogInv, Logged, Renamed, Merges, Selected, Up, Down

LEMMA ConcatPrefix ==
  ASSUME NEW s \in Seq(Entry), NEW t \in Seq(Entry), NEW k \in 0 .. Len(t)
  PROVE  /\ s \o SubSeq(t, 1, k) \in Seq(Entry)
         /\ Len(s \o SubSeq(t, 1, k)) <= Len(s \o t)
         /\ \A i \in 1 .. Len(s \o SubSeq(t, 1, k)) :
              (s \o SubSeq(t, 1, k))[i] = (s \o t)[i]
<1> DEFINE w == s \o SubSeq(t, 1, k)
<1>1. /\ SubSeq(t, 1, k) \in Seq(Entry) /\ Len(SubSeq(t, 1, k)) = k
      /\ \A i \in 1 .. k : SubSeq(t, 1, k)[i] = t[i]
  OBVIOUS
<1>2. w \in Seq(Entry) /\ Len(w) = Len(s) + k
  BY <1>1
<1>3. Len(s \o t) = Len(s) + Len(t) /\ Len(s) \in Nat /\ Len(t) \in Nat
  OBVIOUS
<1>4. ASSUME NEW i \in 1 .. Len(w) PROVE w[i] = (s \o t)[i]
  <2>1. CASE i <= Len(s)
    BY <1>1, <1>2, <1>3, <2>1
  <2>2. CASE i > Len(s)
    BY <1>1, <1>2, <1>3, <2>2
  <2> QED BY <1>2, <1>3, <2>1, <2>2
<1> QED BY <1>2, <1>3, <1>4

LEMMA WriteFailsKeepsLog ==
  ASSUME TypeInv, LogInv, ~ConfigSet, WriteFails
  PROVE  LogInv'
<1>1. /\ LoseMemory /\ UNCHANGED <<executed, synced, acked>> /\ ~Up' /\ Up
      /\ phase # "renamed"
      /\ \E k \in 0 .. Len(aofbuf) - 1, t \in BOOLEAN :
           aof' = [aof EXCEPT !.entries = @ \o SubSeq(aofbuf, 1, k), !.torn = t]
  BY DEF WriteFails, Up, Down, LogInv
<1>2. PICK k \in 0 .. Len(aofbuf) - 1, t \in BOOLEAN :
        aof' = [aof EXCEPT !.entries = @ \o SubSeq(aofbuf, 1, k), !.torn = t]
  BY <1>1
<1>3. /\ aof \in File /\ aof.base \in Nat /\ aof.entries \in Seq(Entry)
      /\ aofbuf \in Seq(Entry) /\ Len(executed) \in Nat
  BY TypeFacts
<1> DEFINE s == aof.entries \o aofbuf
           w == aof.entries \o SubSeq(aofbuf, 1, k)
<1>4. /\ s \in Seq(Entry) /\ w \in Seq(Entry) /\ Len(w) <= Len(s)
      /\ \A i \in 1 .. Len(w) : w[i] = s[i]
  <2>1. k \in 0 .. Len(aofbuf) /\ s \in Seq(Entry)
    BY <1>3
  <2> QED BY <1>3, <2>1, ConcatPrefix
<1>5. aof'.base = aof.base /\ aof'.entries = w
  BY <1>2, <1>3 DEF File
<1>6. Log(executed, aof.base, s)
  BY <1>1 DEF LogInv, Logged
<1>7. Log(executed, aof.base, w)
  <2> HIDE DEF s, w
  <2> QED BY <1>3, <1>4, <1>6, LogPrefix
<1> QED BY <1>1, <1>5, <1>7, CrashKeepsLog

LEMMA PowerLossKeepsLog ==
  ASSUME TypeInv, LogInv, PowerLoss
  PROVE  LogInv'
<1>1. PICK k \in synced .. Len(aof.entries) : \E t \in BOOLEAN :
        aof' = [aof EXCEPT !.entries = SubSeq(@, 1, k), !.torn = t]
  BY DEF PowerLoss
<1>2. /\ aof \in File /\ aof.base \in Nat /\ aof.entries \in Seq(Entry)
      /\ Len(executed) \in Nat /\ k \in 0 .. Len(aof.entries)
  BY TypeFacts
<1> DEFINE w == SubSeq(aof.entries, 1, k)
<1>3. /\ w \in Seq(Entry) /\ Len(w) <= Len(aof.entries)
      /\ \A i \in 1 .. Len(w) : w[i] = aof.entries[i]
  BY <1>2
<1>4. aof'.base = aof.base /\ aof'.entries = w
  BY <1>1, <1>2 DEF File
<1>5. Log(executed, aof.base, w)
  <2> HIDE DEF w
  <2> QED BY <1>2, <1>3, LogPrefix DEF LogInv
<1> QED BY <1>4, <1>5, CrashKeepsLog DEF PowerLoss, Up, Down

\* loadAppendOnlyFile() rebuilds the first commands, and its numbering of
\* them is the one they had.
LEMMA RestartKeepsLog ==
  ASSUME TypeInv, LogInv, CheckAofFix \/ Restart
  PROVE  /\ LogInv' /\ aof'.base = aof.base
         /\ Restart => Len(executed') = aof.base + Len(aof.entries)
<1>1. /\ aof \in File /\ aof.base \in Nat /\ aof.entries \in Seq(Entry)
      /\ executed \in Seq(Dbs) /\ Len(executed) \in Nat /\ Len(aof.entries) \in Nat
  BY TypeFacts
<1>2. ~Up /\ aofbuf = <<>> /\ bgrewritebuf = <<>> /\ child = NoChild
  BY DEF CheckAofFix, Restart, Up, TypeInv, NoMemory
<1>3. CASE CheckAofFix
  <2>1. /\ aof'.base = aof.base /\ aof'.entries = aof.entries
        /\ aof.torn /\ UNCHANGED <<phase, executed, server>>
    BY <1>1, <1>3 DEF CheckAofFix, File
  <2>2. LogInv'
    BY <1>2, <2>1 DEF server, LogInv, Logged, Renamed, Merges, Selected, Up, Down
  <2> QED BY <2>1, <2>2 DEF Restart
<1>4. CASE Restart
  <2> DEFINE n == Len(aof.entries)
             b == aof.base
             t == [i \in 1 .. n |-> executed[aof.entries[i].cmd]]
             r == [i \in 1 .. n |-> [cmd |-> b + i, sel |-> aof.entries[i].sel]]
  <2>1. /\ executed' = SubSeq(executed, 1, b) \o t
        /\ aof' = [aof EXCEPT !.entries = r]
        /\ UNCHANGED server
    BY <1>4 DEF Restart, Replayed, Renumbered
  <2>2. /\ b + n <= Len(executed)
        /\ \A i \in 1 .. n : aof.entries[i].cmd = b + i
        /\ \A i \in 1 .. n : aof.entries[i].sel
                             \/ (i > 1 /\ executed[b + i] = executed[b + i - 1])
    BY DEF LogInv, Log
  <2>3. aof'.base = b /\ aof'.entries = r
    BY <1>1, <2>1 DEF File
  <2>4. /\ Len(r) = n
        /\ \A i \in 1 .. n : r[i].cmd = b + i /\ r[i].sel = aof.entries[i].sel
    BY <1>1
  <2>5. /\ Len(executed') = b + n
        /\ \A i \in 1 .. b + n : executed'[i] = executed[i]
    <3>1. /\ SubSeq(executed, 1, b) \in Seq(Dbs) /\ Len(SubSeq(executed, 1, b)) = b
          /\ \A i \in 1 .. b : SubSeq(executed, 1, b)[i] = executed[i]
      BY <1>1, <2>2
    <3>2. \A i \in 1 .. n : b + i \in 1 .. Len(executed)
      BY <1>1, <2>2
    <3>3. t \in Seq(Dbs) /\ Len(t) = n /\ \A i \in 1 .. n : t[i] = executed[b + i]
      <4>1. \A i \in 1 .. n : executed[aof.entries[i].cmd] = executed[b + i]
                                /\ executed[b + i] \in Dbs
        BY <1>1, <2>2, <3>2
      <4> QED BY <1>1, <4>1
    <3> HIDE DEF t
    <3>4. Len(executed') = b + n
      BY <2>1, <3>1, <3>3
    <3>5. ASSUME NEW i \in 1 .. b + n PROVE executed'[i] = executed[i]
      <4>1. CASE i <= b
        BY <1>1, <2>1, <3>1, <3>3, <4>1
      <4>2. CASE i > b
        <5>1. i - b \in 1 .. n /\ b + (i - b) = i
          BY <1>1, <4>2
        <5>2. executed'[i] = t[i - b]
          BY <1>1, <2>1, <3>1, <3>3, <4>2
        <5> QED BY <3>3, <5>1, <5>2
      <4> QED BY <1>1, <4>1, <4>2
    <3> QED BY <3>4, <3>5
  <2>6. Log(executed', b, r)
    <3>1. ASSUME NEW i \in 1 .. n
          PROVE  r[i].sel \/ (i > 1 /\ executed'[b + i] = executed'[b + i - 1])
      <4>1. b + i \in 1 .. b + n /\ (i > 1 => b + i - 1 \in 1 .. b + n)
        BY <1>1
      <4> QED BY <2>2, <2>4, <2>5, <4>1
    <3>2. b + n \in Nat
      BY <1>1
    <3> HIDE DEF r
    <3> QED BY <2>4, <2>5, <3>1, <3>2 DEF Log
  <2>7. /\ aofbuf' = <<>> /\ child' = NoChild /\ bgrewritebuf' = <<>>
        /\ appendonly' = TRUE /\ appendfd' = "open"
    BY <1>2, <2>1 DEF server, LogInv
  <2>8. r \in Seq(Entry) /\ r \o <<>> = r
    <3>1. aof' \in File
      BY RestartStep, TypeFacts DEF TypeInv, TypeOK
    <3>2. r \in Seq(Entry)
      BY <2>3, <3>1 DEF File
    <3> HIDE DEF r
    <3> QED BY <3>2
  <2>9. Logged'
    <3> HIDE DEF r
    <3> QED BY <1>1, <2>3, <2>4, <2>5, <2>6, <2>7, <2>8 DEF Logged
  <2>10. Selected'
    <3>1. appendseldb' = NoDb
      BY <1>2, <2>1 DEF server, LogInv
    <3> QED BY <3>1 DEF Selected
  <2>11. Up' /\ phase' # "renamed"
    BY <1>4 DEF Restart, Up, Down
  <2> QED BY <2>3, <2>5, <2>6, <2>7, <2>9, <2>10, <2>11 DEF LogInv, Merges, Renamed
<1> QED BY <1>3, <1>4

\* wait3() finds no child, an RDB child, or a rewrite that is given up.
LEMMA ReapKeepsLog ==
  ASSUME TypeInv, LogInv, CronReap
  PROVE  LogInv'
<1>1. /\ Up /\ Up' /\ UNCHANGED executed /\ phase # "renamed" /\ phase' # "renamed"
  BY DEF CronReap, Up, Down
<1>2. CASE UNCHANGED <<aof, appendonly, appendfd, appendseldb, aofbuf, child, bgrewritebuf>>
  BY <1>1, <1>2, SameLog
<1>3. CASE KeepOldFile /\ rewriteCleanup /\ UNCHANGED appendonly
  <2>1. /\ bgrewritebuf' = <<>> /\ child' = NoChild
        /\ UNCHANGED <<aof, appendfd, appendseldb, aofbuf>>
    BY <1>3 DEF KeepOldFile, rewriteCleanup
  <2>2. Logged' /\ Selected' /\ Merges' /\ Renamed'
    BY <1>1, <2>1 DEF LogInv, Logged, Selected, Merges, Renamed
  <2> QED BY <1>1, <1>3, <2>1, <2>2 DEF LogInv
<1> QED BY <1>2, <1>3 DEF CronReap, disk, server

\* The dataset of the child followed by the differences takes the place of
\* the file followed by the buffer.
LEMMA RenameKeepsLog ==
  ASSUME TypeInv, LogInv, CronRename
  PROVE  LogInv'
<1>1. /\ Up /\ Up' /\ phase' = "renamed" /\ UNCHANGED <<executed, server>>
      /\ child.state = "ok" /\ RenameRewritten
  BY DEF CronRename, RenameRewritten, Up, Down
<1>2. aof'.base = child.base /\ aof'.entries = bgrewritebuf
  BY <1>1, RenameType
<1>3. child # NoChild
  BY <1>1 DEF NoChild
<1>4. Log(executed, child.base, bgrewritebuf)
  BY <1>1, <1>3 DEF LogInv, Merges
<1>5. Logged' /\ Renamed' /\ Merges' /\ Selected'
  BY <1>1, <1>2, <1>3 DEF LogInv, Logged, Renamed, Merges, Selected, server
<1> QED BY <1>1, <1>2, <1>4, <1>5 DEF LogInv, server

\* The buffer is dropped: the file that has the name holds what is in it.
LEMMA SwitchKeepsLog ==
  ASSUME TypeInv, LogInv, CronSwitch
  PROVE  LogInv'
<1>1. /\ Up /\ Up' /\ phase = "renamed" /\ phase' = "postponed"
      /\ UNCHANGED <<executed, aof, appendonly>> /\ SwitchToRewritten
  BY DEF CronSwitch, Up, Down
<1>2. bgrewritebuf' = <<>> /\ child' = NoChild
  BY DEF CronSwitch, rewriteCleanup
<1>3. appendfd' = "open" /\ appendseldb' = NoDb /\ aofbuf' = <<>>
  BY <1>1 DEF SwitchToRewritten, LogInv
<1>4. /\ Log(executed, aof.base, aof.entries)
      /\ aof.base + Len(aof.entries) = Len(executed)
  BY <1>1 DEF LogInv, Renamed, Merges
<1>5. /\ aof.entries \o <<>> = aof.entries
      /\ aof.base + Len(aof.entries) + Len(<<>>) = Len(executed)
  <2>1. aof.entries \in Seq(Entry)
    BY TypeFacts
  <2> DEFINE n == Len(aof.entries)
             b == aof.base
  <2>2. n \in Nat /\ b \in Nat /\ b + n = Len(executed)
    BY <1>4, TypeFacts
  <2> HIDE DEF n, b
  <2>3. b + n + 0 = Len(executed)
    BY <2>2
  <2> QED BY <2>1, <2>3 DEF n, b
<1>6. Logged'
  BY <1>1, <1>3, <1>4, <1>5 DEF Logged
<1>7. Selected' /\ Merges' /\ Renamed'
  BY <1>1, <1>2, <1>3 DEF Selected, Merges, Renamed
<1> QED BY <1>1, <1>2, <1>3, <1>4, <1>6, <1>7 DEF LogInv

LEMMA ExitKeepsLog ==
  ASSUME TypeInv, LogInv, exitCleanly
  PROVE  LogInv'
  BY CrashKeepsLog DEF exitCleanly, LogInv, Up, Down

LEMMA CannotExitKeepsLog ==
  ASSUME TypeInv, LogInv, cannotExit, Up, Up',
         phase # "renamed", phase' # "renamed"
  PROVE  LogInv'
<1>1. (child' = NoChild) <=> (child = NoChild)
  <2>1. CASE child.state = "running" /\ child' = [child EXCEPT !.state = "failed"]
    <3>1. child \in Child
      BY TypeFacts
    <3>2. child'.state = "failed"
      BY <2>1, <3>1 DEF Child
    <3> QED BY <2>1, <3>2 DEF NoChild
  <2>2. CASE child' = child
    BY <2>2
  <2> QED BY <2>1, <2>2 DEF cannotExit
<1> QED BY <1>1, CannotExitType, SameLog

LEMMA LogInit == Init => LogInv
<1> SUFFICES ASSUME Init PROVE LogInv
  OBVIOUS
<1>1. /\ aof.base = 0 /\ aof.entries = <<>> /\ aofbuf = <<>> /\ executed = <<>>
      /\ child = NoChild /\ bgrewritebuf = <<>> /\ appendseldb = NoDb
      /\ appendonly = TRUE /\ appendfd = "open"
  BY DEF Init, EmptyFile
<1>2. Log(<<>>, 0, <<>>) /\ <<>> \o <<>> = <<>>
  BY DEF Log
<1>3. phase # "renamed"
  BY DEF Init
<1> QED BY <1>1, <1>2, <1>3 DEF LogInv, Logged, Renamed, Merges, Selected

\* With CONFIG SET appendonly out of the way, no step breaks the log.
LEMMA LogStep ==
  ASSUME ~ConfigSet
  PROVE  TypeInv /\ LogInv /\ [Next]_vars => LogInv'
<1> SUFFICES ASSUME TypeInv, LogInv, [Next]_vars PROVE LogInv'
  OBVIOUS
<1>1. CASE BeforeSleep
  BY <1>1, FlushKeepsLog DEF BeforeSleep, Up, Down
<1>2. CASE WriteFails
  BY <1>2, WriteFailsKeepsLog
<1>3. ASSUME NEW c \in Clients, NEW d \in Dbs, ReadCommand(c, d)
      PROVE  LogInv'
  BY <1>3, CallKeepsLog DEF ReadCommand, disk, Up, Down
<1>4. ASSUME NEW c \in Clients, ReadNothing(c) \/ SendReply(c) \/ StartBgsave(c)
      PROVE  LogInv'
  BY <1>4, SameLog DEF ReadNothing, SendReply, StartBgsave, disk, server, Up, Down
<1>5. ASSUME NEW c \in Clients, bgrewriteaofCommand(c)
      PROVE  LogInv'
  BY <1>5, SameLog, ForkKeepsLog DEF bgrewriteaofCommand, disk, Up, Down
<1>6. ASSUME NEW c \in Clients, shutdownCommand(c)
      PROVE  LogInv'
  BY <1>6, ExitKeepsLog, CannotExitKeepsLog DEF shutdownCommand, Up, Down
<1>7. CASE NoTimeEvent \/ CronTime \/ CronEnd
  BY <1>7, SameLog DEF NoTimeEvent, CronTime, CronEnd, EventsServed, disk, server, Up, Down
<1>8. CASE CronSigterm
  BY <1>8, ExitKeepsLog, CannotExitKeepsLog DEF CronSigterm, EventsServed, Up, Down
<1>9. CASE CronScheduled \/ CronTriggers
  BY <1>9, SameLog, ForkKeepsLog DEF CronScheduled, CronTriggers, disk, Up, Down
<1>10. CASE CronReap \/ CronRename \/ CronSwitch
  BY <1>10, ReapKeepsLog, RenameKeepsLog, SwitchKeepsLog
<1>11. CASE CronFlush
  BY <1>11, SameLog, FlushKeepsLog DEF CronFlush, Up, Down
<1>12. ASSUME NEW d \in Dbs, CronExpire(d)
       PROVE  LogInv'
  BY <1>12, CallKeepsLog DEF CronExpire, disk, Up, Down
<1>13. CASE Tick \/ BioStart \/ BioEnd \/ BgsaveExit
  BY <1>13, SameLog DEF Tick, BioStart, BioEnd, BgsaveExit, disk, server, Up
<1>14. CASE ChildExit
  <2>1. child \in Child /\ child.state = "running" /\ child'.base = child.base
        /\ child'.state \in {"ok", "failed"}
    <3>1. child \in Child
      BY TypeFacts
    <3> QED BY <1>14, <3>1 DEF ChildExit, Child
  <2>2. child # NoChild /\ child' # NoChild
    BY <2>1 DEF NoChild
  <2> QED BY <1>14, <2>1, <2>2, SameLog DEF ChildExit, disk, Up
<1>15. CASE PowerLoss
  BY <1>15, PowerLossKeepsLog
<1>16. CASE CheckAofFix \/ Restart
  BY <1>16, RestartKeepsLog
<1>17. CASE UNCHANGED vars
  BY <1>17 DEF vars, disk, server, LogInv, Logged, Renamed, Merges, Selected, Up
<1>18. ASSUME NEW c \in Clients, stopAppendOnly(c) \/ startAppendOnly(c)
       PROVE  LogInv'
  BY <1>18 DEF stopAppendOnly, startAppendOnly
<1> QED
  BY <1>1, <1>2, <1>3, <1>4, <1>5, <1>6, <1>7, <1>8, <1>9, <1>10, <1>11, <1>12,
     <1>13, <1>14, <1>15, <1>16, <1>17, <1>18
     DEF Next, MainThread, Environment, EventHandlers, serverCron

\* What the invariant says of the file, the buffer and the rewrite.
LEMMA LogImplies ==
  TypeInv /\ LogInv => RecoversPrefix /\ NothingUnlogged /\ RewriteMerges
<1> SUFFICES ASSUME TypeInv, LogInv
             PROVE  RecoversPrefix /\ NothingUnlogged /\ RewriteMerges
  OBVIOUS
<1>1. /\ aof.base \in Nat /\ aof.entries \in Seq(Entry) /\ aofbuf \in Seq(Entry)
      /\ child.base \in Nat /\ bgrewritebuf \in Seq(Entry)
      /\ aof.entries \o aofbuf \in Seq(Entry)
  BY TypeFacts
<1>2. RecoversPrefix
  BY <1>1, LogMeaning DEF LogInv, RecoversPrefix
<1>3. NothingUnlogged
  <2>1. CASE phase # "renamed"
    BY <1>1, <2>1, LogMeaning DEF LogInv, Logged, NothingUnlogged, Unwritten
  <2>2. CASE phase = "renamed"
    <3>1. /\ Log(executed, aof.base, aof.entries)
          /\ aof.base + Len(aof.entries) = Len(executed) /\ Unwritten = <<>>
      BY <2>2 DEF LogInv, Renamed, Merges, Up, Down, Unwritten
    <3>2. aof.entries \o <<>> = aof.entries /\ Len(<<>>) = 0
      BY <1>1
    <3>3. aof.base + Len(aof.entries) + 0 = Len(executed)
      BY <3>1, TypeFacts
    <3> QED BY <1>1, <3>1, <3>2, <3>3, LogMeaning DEF NothingUnlogged
  <2> QED BY <2>1, <2>2
<1>4. RewriteMerges
  BY <1>1, LogMeaning DEF LogInv, Merges, RewriteMerges
<1> QED BY <1>2, <1>3, <1>4

\* The file on disk can be replayed at any moment, and the result is the
\* dataset after a prefix of the commands executed: with any number of
\* clients, databases, crashes, torn writes and rewrites, under every fsync
\* policy, as long as nobody turns the AOF off and on.
THEOREM AlwaysRecovers ==
  ASSUME ~ConfigSet
  PROVE  Spec => []RecoversPrefix
<1>1. TypeInv /\ LogInv /\ [Next]_vars => LogInv'
  BY LogStep
<1> QED BY <1>1, TypeInvInit, TypeInvStep, LogInit, LogImplies, PTL DEF Spec

\* File and buffer together always hold every command.
THEOREM AlwaysLogged ==
  ASSUME ~ConfigSet
  PROVE  Spec => []NothingUnlogged
<1>1. TypeInv /\ LogInv /\ [Next]_vars => LogInv'
  BY LogStep
<1> QED BY <1>1, TypeInvInit, TypeInvStep, LogInit, LogImplies, PTL DEF Spec

\* Whenever the rewriting child finishes, switching to its file loses and
\* repeats nothing.
THEOREM AlwaysMerges ==
  ASSUME ~ConfigSet
  PROVE  Spec => []RewriteMerges
<1>1. TypeInv /\ LogInv /\ [Next]_vars => LogInv'
  BY LogStep
<1> QED BY <1>1, TypeInvInit, TypeInvStep, LogInit, LogImplies, PTL DEF Spec

-----------------------------------------------------------------------------
(* Durability with appendfsync always.                                     *)

Written == aof.base + Len(aof.entries)

\* The reply to command n has not been sent: n is durable, or will be before
\* the writable event of the client is looked for.
Waiting(n) == n <= Len(executed) /\ (n <= DurableNext \/ n > Written)

\* The clients whose writable event is to be served were found ready after
\* the flush of beforeSleep(), and none of them has sent anything since.
SafeToReply ==
  phase = "events" =>
    /\ rev \cap wev = {}
    /\ \A c \in wev : \A i \in 1 .. Len(pend[c]) : pend[c][i] <= DurableNext

\* Power lost in the window after the rename leaves on the platter whatever
\* is left of the file.
DurInv ==
  /\ phase # "cut" => \A n \in acked : n <= DurableNext
  /\ phase = "cut" => synced = Len(aof.entries)
  /\ \A c \in Clients : \A i \in 1 .. Len(pend[c]) : Waiting(pend[c][i])
  /\ ~Up => \A c \in Clients : pend[c] = <<>>
  /\ SafeToReply

\* The setting the theorem is about.
Always ==
  Fsync = "always" /\ ~NoFsyncOnRewrite /\ ~Pipelining /\ ~ConfigSet

LEMMA DurableFacts ==
  ASSUME TypeInv
  PROVE  /\ DurableNext \in Nat /\ Written \in Nat /\ DurableNext <= Written
         /\ phase = "renamed" => DurableNext = Written
<1> DEFINE n == Len(aof.entries)
           b == aof.base
<1>1. n \in Nat /\ b \in Nat /\ synced \in 0 .. n
  BY TypeFacts
<1> HIDE DEF n, b
<1>2. b + synced \in Nat /\ b + n \in Nat /\ b + synced <= b + n
  BY <1>1
<1>3. b + n <= b + n
  BY <1>1
<1> QED BY <1>2, <1>3 DEF DurableNext, Durable, Written, n, b

\* A step that leaves the file and what is synced of it alone.
LEMMA DurableSame ==
  ASSUME UNCHANGED <<aof, synced>>, (phase' = "renamed") <=> (phase = "renamed")
  PROVE  DurableNext' = DurableNext /\ Written' = Written
  BY DEF DurableNext, Durable, Written

LEMMA WrittenFacts ==
  ASSUME TypeInv, LogInv, Up
  PROVE  /\ Written <= Len(executed)
         /\ aofbuf = <<>> \/ phase = "renamed" => Written = Len(executed)
<1> DEFINE n == Len(aof.entries)
           b == aof.base
           m == Len(aofbuf)
<1>1. n \in Nat /\ b \in Nat /\ m \in Nat /\ (aofbuf = <<>> => m = 0)
  BY TypeFacts
<1>2. CASE phase # "renamed"
  <2>1. b + n + m = Len(executed)
    BY <1>2 DEF LogInv, Logged
  <2> HIDE DEF n, b, m
  <2>2. b + n <= Len(executed) /\ (aofbuf = <<>> => b + n = Len(executed))
    BY <1>1, <2>1
  <2> QED BY <1>2, <2>2 DEF Written, n, b
<1>3. CASE phase = "renamed"
  <2>1. b + n = Len(executed)
    BY <1>3 DEF LogInv, Renamed, Merges
  <2> HIDE DEF n, b, m
  <2>2. b + n <= Len(executed)
    BY <1>1, <2>1
  <2> QED BY <2>1, <2>2 DEF Written, n, b
<1> QED BY <1>2, <1>3

\* Types of what is waiting.
LEMMA PendFacts ==
  ASSUME TypeInv, NEW c \in Clients, NEW i \in 1 .. Len(pend[c])
  PROVE  pend[c][i] \in Nat
<1>1. pend[c] \in Seq(Nat)
  BY TypeFacts
<1> QED BY <1>1

\* After the flush of beforeSleep() every executed command is durable.
LEMMA FlushSyncs ==
  ASSUME TypeInv, LogInv, Up, Always, flushAppendOnlyFile(FALSE),
         phase # "renamed", phase' # "renamed", UNCHANGED executed
  PROVE  /\ DurableNext' \in Nat /\ DurableNext <= DurableNext'
         /\ \/ DurableNext' = Len(executed)
            \/ aofbuf = <<>> /\ DurableNext' = DurableNext /\ Written' = Written
               /\ Written = Len(executed)
<1>1. CASE aofbuf = <<>>
  <2>1. UNCHANGED <<aof, synced>>
    BY <1>1 DEF flushAppendOnlyFile
  <2>2. DurableNext' = DurableNext /\ Written' = Written
    BY <2>1, DurableSame
  <2> QED BY <1>1, <2>2, WrittenFacts, DurableFacts
<1>2. CASE aofbuf # <<>>
  <2>1. ~Postpones(FALSE) /\ FsyncDue
    BY DEF Always, Postpones, SyncInProgress, FsyncDue, FsyncSkipped
  <2>2. WriteBuffer /\ synced' = Len(aof.entries) + Len(aofbuf)
    BY <1>2, <2>1 DEF flushAppendOnlyFile, Always
  <2>3. aof'.base = aof.base
    BY <2>2, WriteType
  <2> DEFINE n == Len(aof.entries)
             b == aof.base
             m == Len(aofbuf)
  <2>4. n \in Nat /\ b \in Nat /\ m \in Nat /\ b + n + m = Len(executed)
    BY TypeFacts DEF LogInv, Logged
  <2>5. DurableNext' = b + (n + m)
    BY <2>2, <2>3 DEF DurableNext, Durable
  <2> HIDE DEF n, b, m
  <2>6. DurableNext' = Len(executed) /\ Len(executed) \in Nat
    BY <2>4, <2>5
  <2> QED BY <2>6, DurableFacts, WrittenFacts
<1> QED BY <1>1, <1>2

\* More becomes durable and nobody is told anything.
LEMMA MoreDurable ==
  ASSUME TypeInv, DurInv, Up, Up', DurableNext' \in Nat, DurableNext <= DurableNext',
         Written' = Written \/ DurableNext' = Len(executed),
         UNCHANGED <<executed, acked, pend>>,
         phase' = "events" => phase = "events" /\ rev' \subseteq rev /\ wev' \subseteq wev
  PROVE  DurInv'
<1>0. phase # "cut" /\ phase' # "cut"
  BY DEF Up, Down
<1>1. \A n \in acked' : n <= DurableNext'
  BY <1>0, DurableFacts, TypeFacts DEF DurInv
<1>2. ASSUME NEW c \in Clients, NEW i \in 1 .. Len(pend'[c])
      PROVE  Waiting(pend[c][i])'
  <2>1. i \in 1 .. Len(pend[c]) /\ pend'[c][i] = pend[c][i]
    BY <1>2
  <2>2. pend[c][i] \in Nat /\ Waiting(pend[c][i])
    BY <2>1, PendFacts DEF DurInv
  <2>3. DurableNext \in Nat /\ Written \in Nat /\ Len(executed) \in Nat
    BY DurableFacts, TypeFacts
  <2> QED BY <2>1, <2>2, <2>3 DEF Waiting
<1>3. SafeToReply'
  <2>1. ASSUME phase' = "events", NEW c \in wev', NEW i \in 1 .. Len(pend'[c])
        PROVE  pend'[c][i] <= DurableNext'
    <3>1. c \in Clients /\ pend[c][i] \in Nat /\ pend[c][i] <= DurableNext
      BY <2>1, PendFacts, TypeFacts DEF DurInv, SafeToReply
    <3> QED BY <3>1, DurableFacts
  <2>2. phase' = "events" => rev' \cap wev' = {}
    BY DEF DurInv, SafeToReply
  <2> QED BY <2>1, <2>2 DEF SafeToReply
<1> QED BY <1>0, <1>1, <1>2, <1>3 DEF DurInv

\* Nothing happens to the file or the replies.
LEMMA SameDurable ==
  ASSUME TypeInv, DurInv, Up, Up', UNCHANGED <<executed, aof, synced, acked, pend>>,
         (phase' = "renamed") <=> (phase = "renamed"),
         phase' = "events" => phase = "events" /\ rev' \subseteq rev /\ wev' \subseteq wev
  PROVE  DurInv'
<1>1. DurableNext' = DurableNext /\ Written' = Written
  BY DurableSame
<1> QED BY <1>1, DurableFacts, MoreDurable

\* beforeSleep(): the clients found writable have only durable replies, and
\* none of them is readable.
LEMMA BeforeSleepDurable ==
  ASSUME TypeInv, LogInv, DurInv, Always, BeforeSleep
  PROVE  DurInv'
<1>1. /\ Up /\ flushAppendOnlyFile(FALSE) /\ UNCHANGED <<executed, pend, acked>>
      /\ phase = "before" /\ phase' = "events"
      /\ \A c \in rev' : pend[c] = <<>>
      /\ \A c \in wev' : pend[c] # <<>>
      /\ wev' \subseteq Clients
  BY DEF BeforeSleep, Up, Down, Always
<1>2. DurableNext' \in Nat /\ DurableNext <= DurableNext' /\ DurableNext \in Nat /\ Written \in Nat
  BY <1>1, FlushSyncs, DurableFacts
<1>3. ASSUME NEW c \in Clients, NEW i \in 1 .. Len(pend[c])
      PROVE  pend[c][i] <= Len(executed) /\ pend[c][i] <= DurableNext'
  <2>1. /\ pend[c][i] \in Nat /\ pend[c][i] <= Len(executed) /\ Len(executed) \in Nat
        /\ pend[c][i] <= DurableNext \/ pend[c][i] > Written
    BY PendFacts, TypeFacts DEF DurInv, Waiting
  <2> QED BY <1>1, <1>2, <2>1, FlushSyncs
<1>4. \A n \in acked' : n <= DurableNext'
  BY <1>1, <1>2, TypeFacts DEF DurInv
<1>5. \A c \in Clients : \A i \in 1 .. Len(pend'[c]) : Waiting(pend[c][i])'
  BY <1>1, <1>3 DEF Waiting
<1>6. SafeToReply'
  BY <1>1, <1>3 DEF SafeToReply
<1>7. Up'
  BY DEF BeforeSleep, Up, Down
<1> QED BY <1>1, <1>4, <1>5, <1>6, <1>7 DEF DurInv

\* A new command is waiting; it is not in the file yet.
LEMMA ReadDurable ==
  ASSUME TypeInv, LogInv, DurInv, NEW c \in Clients, NEW d \in Dbs, ReadCommand(c, d)
  PROVE  DurInv'
<1>1. /\ Up /\ Up' /\ phase = "events" /\ c \in rev /\ UNCHANGED <<phase, aof, synced, wev, acked>>
      /\ rev' = rev \ {c}
      /\ pend' = [pend EXCEPT ![c] = Append(@, Len(executed) + 1)]
      /\ executed' = Append(executed, d)
  BY DEF ReadCommand, call, disk, Up, Down
<1>2. DurableNext' = DurableNext /\ Written' = Written
  BY <1>1, DurableSame
<1>3. /\ Len(executed) \in Nat /\ Len(executed') = Len(executed) + 1
      /\ DurableNext \in Nat /\ Written \in Nat /\ Written <= Len(executed)
  BY <1>1, TypeFacts, DurableFacts, WrittenFacts
<1>4. ASSUME NEW e \in Clients, NEW i \in 1 .. Len(pend'[e])
      PROVE  Waiting(pend[e][i])'
  <2>1. CASE e # c \/ i \in 1 .. Len(pend[c])
    <3>1. pend'[e][i] = pend[e][i] /\ i \in 1 .. Len(pend[e])
      <4>1. pend[c] \in Seq(Nat) /\ Len(executed) + 1 \in Nat
        BY <1>3, TypeFacts
      <4>2. CASE e # c
        BY <1>1, <4>2, TypeFacts
      <4>3. CASE e = c /\ i \in 1 .. Len(pend[c])
        <5>1. pend'[c] = Append(pend[c], Len(executed) + 1)
          BY <1>1, TypeFacts
        <5> QED BY <4>1, <4>3, <5>1
      <4> QED BY <2>1, <4>2, <4>3
    <3>2. pend[e][i] \in Nat /\ Waiting(pend[e][i])
      BY <3>1, PendFacts DEF DurInv
    <3> QED BY <1>2, <1>3, <3>1, <3>2 DEF Waiting
  <2>2. CASE e = c /\ i \notin 1 .. Len(pend[c])
    <3>1. pend'[e][i] = Len(executed) + 1
      <4>1. pend[c] \in Seq(Nat) /\ Len(executed) + 1 \in Nat /\ pend \in [Clients -> Seq(Nat)]
        BY <1>3, TypeFacts
      <4>2. pend'[c] = Append(pend[c], Len(executed) + 1)
        BY <1>1, <4>1
      <4> QED BY <2>2, <4>1, <4>2
    <3> QED BY <1>2, <1>3, <3>1 DEF Waiting
  <2> QED BY <2>1, <2>2
<1>5. SafeToReply'
  <2>1. c \notin wev
    BY <1>1 DEF DurInv, SafeToReply
  <2>2. \A e \in wev' : e \in wev /\ pend'[e] = pend[e]
    BY <1>1, <2>1, TypeFacts
  <2> QED BY <1>1, <1>2, <2>2 DEF DurInv, SafeToReply
<1> QED BY <1>1, <1>2, <1>4, <1>5 DEF DurInv

\* The expiry of a key runs a command nobody waits for.
LEMMA ExpireDurable ==
  ASSUME TypeInv, LogInv, DurInv, NEW d \in Dbs, CronExpire(d)
  PROVE  DurInv'
<1>1. /\ Up' /\ phase = "expire" /\ UNCHANGED <<phase, aof, synced, acked, pend>>
      /\ executed' = Append(executed, d)
  BY DEF CronExpire, call, disk, network, Up, Down
<1>2. DurableNext' = DurableNext /\ Written' = Written
  BY <1>1, DurableSame
<1>3. Len(executed) \in Nat /\ Len(executed') = Len(executed) + 1
  BY <1>1, TypeFacts
<1>4. ASSUME NEW c \in Clients, NEW i \in 1 .. Len(pend'[c])
      PROVE  Waiting(pend[c][i])'
  BY <1>1, <1>2, <1>3, PendFacts DEF DurInv, Waiting
<1> QED BY <1>1, <1>2, <1>4 DEF DurInv, SafeToReply

\* What sendReplyToClient() sends is durable.
LEMMA SendDurable ==
  ASSUME TypeInv, DurInv, NEW c \in Clients, SendReply(c)
  PROVE  DurInv'
<1>1. /\ Up' /\ phase = "events" /\ c \in wev /\ UNCHANGED <<phase, executed, aof, synced, rev>>
      /\ wev' = wev \ {c}
  BY DEF SendReply, disk, Up, Down
<1>2. PICK k \in 1 .. Len(pend[c]) :
        /\ acked' = acked \cup {pend[c][i] : i \in 1 .. k}
        /\ pend' = [pend EXCEPT ![c] = SubSeq(@, k + 1, Len(@))]
  BY DEF SendReply
<1>3. DurableNext' = DurableNext /\ Written' = Written
  BY <1>1, DurableSame
<1>4. pend[c] \in Seq(Nat) /\ pend \in [Clients -> Seq(Nat)] /\ Len(pend[c]) \in Nat
  BY TypeFacts
<1>5. \A n \in acked' : n <= DurableNext'
  BY <1>1, <1>2, <1>3, <1>4 DEF DurInv, SafeToReply
<1>6. ASSUME NEW e \in Clients, NEW i \in 1 .. Len(pend'[e])
      PROVE  Waiting(pend[e][i])'
  <2>1. CASE e # c
    BY <1>1, <1>2, <1>3, <1>4, <2>1 DEF DurInv, Waiting
  <2>2. CASE e = c
    <3>1. pend'[c] = SubSeq(pend[c], k + 1, Len(pend[c]))
      BY <1>2, <1>4
    <3>2. k + i \in 1 .. Len(pend[c]) /\ pend'[c][i] = pend[c][k + i]
      BY <1>4, <2>2, <3>1
    <3>3. Waiting(pend[c][k + i])
      BY <3>2 DEF DurInv
    <3> QED BY <1>1, <1>3, <2>2, <3>2, <3>3 DEF Waiting
  <2> QED BY <2>1, <2>2
<1>7. SafeToReply'
  <2>1. \A e \in wev' : e \in wev /\ pend'[e] = pend[e]
    BY <1>1, <1>2, <1>4, TypeFacts
  <2> QED BY <1>1, <1>3, <2>1 DEF DurInv, SafeToReply
<1> QED BY <1>1, <1>5, <1>6, <1>7 DEF DurInv

\* The process is gone: what was durable still is.
LEMMA CrashDurable ==
  ASSUME TypeInv, DurInv, LoseMemory, Up, ~Up', UNCHANGED acked,
         phase' # "cut" => DurableNext' \in Nat /\ DurableNext <= DurableNext',
         phase' = "cut" => synced' = Len(aof'.entries)
  PROVE  DurInv'
<1>1. \A c \in Clients : pend'[c] = <<>>
  BY DEF LoseMemory
<1>2. phase' # "cut" => \A n \in acked' : n <= DurableNext'
  BY DurableFacts, TypeFacts DEF DurInv, Up, Down
<1>3. phase' # "events"
  BY DEF Up, Down
<1> QED BY <1>1, <1>2, <1>3 DEF DurInv, SafeToReply

\* A rewrite that is given up, or nothing at all, is reaped.
LEMMA ReapDurable ==
  ASSUME TypeInv, LogInv, DurInv, CronReap
  PROVE  DurInv' /\ DurableNext <= DurableNext'
<1>1. /\ Up /\ Up' /\ phase = "reap" /\ phase' = "postponed"
      /\ UNCHANGED <<executed, acked, pend>>
  BY DEF CronReap, Up, Down, network
<1>2. UNCHANGED <<aof, synced>>
  BY DEF CronReap, KeepOldFile, disk
<1> QED BY <1>1, <1>2, SameDurable, DurableSame, DurableFacts

\* The fsync to come covers every command.
LEMMA RenameDurable ==
  ASSUME TypeInv, LogInv, DurInv, CronRename
  PROVE  DurInv' /\ DurableNext <= DurableNext'
<1>1. /\ Up /\ Up' /\ phase' = "renamed" /\ phase' # "events"
      /\ UNCHANGED <<executed, acked, pend>> /\ RenameRewritten /\ child.state = "ok"
  BY DEF CronRename, RenameRewritten, Up, Down, network
<1>2. aof'.base = child.base /\ aof'.entries = bgrewritebuf
  BY <1>1, RenameType
<1>3. child # NoChild
  BY <1>1 DEF NoChild
<1>4. DurableNext' = Len(executed)
  BY <1>1, <1>2, <1>3 DEF DurableNext, LogInv, Merges
<1>5. Len(executed) \in Nat /\ DurableNext <= Len(executed)
  BY <1>1, TypeFacts, DurableFacts, WrittenFacts
<1> QED BY <1>1, <1>4, <1>5, MoreDurable

\* The fsync after the rename: the window is closed.
LEMMA SwitchDurable ==
  ASSUME TypeInv, LogInv, DurInv, Always, CronSwitch
  PROVE  DurInv' /\ DurableNext <= DurableNext'
<1>1. /\ Up /\ Up' /\ phase = "renamed" /\ phase' = "postponed"
      /\ UNCHANGED <<executed, aof, acked, pend>> /\ SwitchToRewritten
  BY DEF CronSwitch, Up, Down, network
<1>2. synced' = Len(aof.entries)
  BY <1>1 DEF SwitchToRewritten, LogInv, Always
<1>3. DurableNext' = DurableNext /\ Written' = Written
  BY <1>1, <1>2 DEF DurableNext, Durable, Written
<1> QED BY <1>1, <1>3, DurableFacts, MoreDurable

\* The synced part of the file grows up to the end of the file.
LEMMA SyncedGrows ==
  ASSUME TypeInv, aof'.base = aof.base, synced' \in Nat, synced <= synced',
         phase # "renamed", phase' # "renamed"
  PROVE  DurableNext' \in Nat /\ DurableNext <= DurableNext'
<1>1. aof.base \in Nat /\ synced \in Nat
  BY TypeFacts
<1> QED BY <1>1 DEF DurableNext, Durable

LEMMA CannotExitDurable ==
  ASSUME TypeInv, DurInv, cannotExit, Up, Up', UNCHANGED <<acked, pend>>,
         phase # "renamed", phase' # "renamed",
         phase' = "events" => phase = "events" /\ rev' \subseteq rev /\ wev' \subseteq wev
  PROVE  DurInv' /\ DurableNext' \in Nat /\ DurableNext <= DurableNext'
<1>1. UNCHANGED <<executed, aof>> /\ synced' \in Nat /\ synced <= synced'
  BY TypeFacts DEF cannotExit
<1>2. Written' = Written
  BY <1>1 DEF Written
<1> QED BY <1>1, <1>2, SyncedGrows, MoreDurable

LEMMA ExitDurable ==
  ASSUME TypeInv, DurInv, exitCleanly, Up, phase # "renamed", UNCHANGED acked
  PROVE  DurInv'
<1>1. /\ UNCHANGED aof /\ synced' \in Nat /\ synced <= synced' /\ LoseMemory /\ ~Up'
      /\ phase' = "exited"
  BY TypeFacts DEF exitCleanly, Up, Down
<1> QED BY <1>1, SyncedGrows, CrashDurable

LEMMA BioDurable ==
  ASSUME TypeInv, DurInv, BioStart \/ BioEnd
  PROVE  DurInv' /\ DurableNext' \in Nat /\ DurableNext <= DurableNext'
<1>1. /\ Up /\ Up' /\ UNCHANGED <<phase, executed, aof, rev, wev, acked, pend>>
  BY DEF BioStart, BioEnd, Up, disk, network
<1>2. synced' \in Nat /\ synced <= synced'
  <2>1. bio \in Seq(Job) /\ (bio # <<>> => 1 \in 1 .. Len(bio))
    BY TypeFacts
  <2>2. bio # <<>> => bio[1].upto \in Int
    BY <2>1, JobType
  <2> QED BY <2>2, TypeFacts DEF BioStart, BioEnd, disk
<1>3. Written' = Written
  BY <1>1 DEF Written
<1>4. DurableNext' \in Nat /\ DurableNext <= DurableNext'
  <2>1. CASE phase = "renamed"
    <3>1. DurableNext' = DurableNext
      BY <1>1, <2>1 DEF DurableNext
    <3> QED BY <3>1, DurableFacts
  <2>2. CASE phase # "renamed"
    BY <1>1, <1>2, <2>2, SyncedGrows
  <2> QED BY <2>1, <2>2
<1> QED BY <1>1, <1>3, <1>4, MoreDurable

LEMMA WriteFailsDurable ==
  ASSUME TypeInv, LogInv, DurInv, WriteFails
  PROVE  DurInv'
<1>1. /\ LoseMemory /\ Up /\ ~Up' /\ UNCHANGED <<synced, acked>>
      /\ phase # "renamed" /\ phase' = "down"
  BY DEF WriteFails, Up, Down
<1>2. aof'.base = aof.base
  <2>1. aof \in File
    BY TypeFacts
  <2> QED BY <2>1 DEF WriteFails, File
<1>3. synced' \in Nat /\ synced <= synced'
  BY <1>1, TypeFacts
<1> QED BY <1>1, <1>2, <1>3, SyncedGrows, CrashDurable

\* Outside the window after a rename, losing power takes no durable command.
LEMMA PowerLossDurable ==
  ASSUME TypeInv, LogInv, DurInv, PowerLoss
  PROVE  DurInv'
<1>1. /\ LoseMemory /\ Up /\ ~Up' /\ UNCHANGED acked /\ phase' # "renamed"
      /\ phase = "renamed" => phase' = "cut"
      /\ phase # "renamed" => phase' = "down"
  BY DEF PowerLoss, Up, Down
<1>2. PICK k \in synced .. Len(aof.entries) :
        /\ synced' = k
        /\ \E t \in BOOLEAN :
             aof' = [aof EXCEPT !.entries = SubSeq(@, 1, k), !.torn = t]
  BY DEF PowerLoss
<1>3. /\ aof \in File /\ aof.entries \in Seq(Entry) /\ synced \in Nat
      /\ k \in 0 .. Len(aof.entries)
  BY TypeFacts
<1>4. aof'.base = aof.base /\ aof'.entries = SubSeq(aof.entries, 1, k)
  BY <1>2, <1>3 DEF File
<1>5. Len(aof'.entries) = k
  BY <1>3, <1>4
<1>6. synced' \in Nat /\ synced <= synced' /\ synced' = Len(aof'.entries)
  BY <1>2, <1>3, <1>5
<1> QED BY <1>1, <1>4, <1>6, SyncedGrows, CrashDurable

LEMMA RestartDurable ==
  ASSUME TypeInv, LogInv, DurInv, CheckAofFix \/ Restart
  PROVE  DurInv'
<1>1. /\ aof'.base = aof.base /\ synced' = synced /\ UNCHANGED pend
      /\ acked' \subseteq acked /\ phase # "renamed" /\ phase' # "renamed"
      /\ phase' # "events" /\ ~Up
  BY RestartKeepsLog DEF CheckAofFix, Restart, network, Up, Down
<1>2. DurableNext' = DurableNext /\ DurableNext = aof.base + synced
  BY <1>1 DEF DurableNext, Durable
<1>3. \A c \in Clients : pend'[c] = <<>>
  BY <1>1 DEF DurInv
<1>4. CASE phase # "cut"
  <2>1. phase' # "cut"
    BY <1>4 DEF CheckAofFix, Restart
  <2> QED BY <1>1, <1>2, <1>3, <1>4, <2>1 DEF DurInv, SafeToReply
<1>5. CASE phase = "cut" /\ CheckAofFix
  <2>1. aof'.entries = aof.entries /\ phase' = phase
    <3>1. aof \in File
      BY TypeFacts
    <3> QED BY <1>5, <3>1 DEF CheckAofFix, File
  <2> QED BY <1>1, <1>3, <1>5, <2>1 DEF DurInv, SafeToReply
<1>6. CASE phase = "cut" /\ Restart
  <2>1. /\ Len(executed') = aof.base + Len(aof.entries) /\ phase' = "before"
        /\ acked' \subseteq 1 .. Len(executed')
    BY <1>6, RestartKeepsLog DEF Restart
  <2>2. DurableNext' = Len(executed')
    BY <1>2, <1>6, <2>1 DEF DurInv
  <2> QED BY <1>1, <1>3, <2>1, <2>2 DEF DurInv, SafeToReply
<1> QED BY <1>4, <1>5, <1>6

LEMMA DurInit == Init => DurInv
  BY DEF Init, DurInv, SafeToReply, Up, Down

LEMMA DurStep ==
  ASSUME Always
  PROVE  TypeInv /\ LogInv /\ DurInv /\ [Next]_vars
         => DurInv' /\ (Up /\ Up' => DurableNext <= DurableNext')
<1> SUFFICES ASSUME TypeInv, LogInv, DurInv, [Next]_vars
             PROVE  DurInv' /\ (Up /\ Up' => DurableNext <= DurableNext')
  OBVIOUS
<1> DEFINE Goal == DurInv' /\ (Up /\ Up' => DurableNext <= DurableNext')
<1>1. CASE BeforeSleep
  BY <1>1, BeforeSleepDurable, FlushSyncs DEF BeforeSleep, Up, Down
<1>2. CASE WriteFails \/ PowerLoss
  BY <1>2, WriteFailsDurable, PowerLossDurable DEF WriteFails, PowerLoss, Up, Down
<1>3. ASSUME UNCHANGED <<aof, synced>>, (phase' = "renamed") <=> (phase = "renamed")
      PROVE  DurableNext <= DurableNext'
  BY <1>3, DurableFacts, DurableSame
<1>4. ASSUME NEW c \in Clients, NEW d \in Dbs, ReadCommand(c, d)
      PROVE  Goal
  BY <1>3, <1>4, ReadDurable DEF ReadCommand, disk
<1>5. ASSUME NEW c \in Clients, SendReply(c)
      PROVE  Goal
  BY <1>3, <1>5, SendDurable DEF SendReply, disk
<1>6. ASSUME NEW c \in Clients,
             ReadNothing(c) \/ bgrewriteaofCommand(c) \/ StartBgsave(c)
      PROVE  Goal
  BY <1>3, <1>6, SameDurable
     DEF ReadNothing, bgrewriteaofCommand, StartBgsave, disk, Up, Down
<1>7. ASSUME NEW c \in Clients, shutdownCommand(c)
      PROVE  Goal
  <2>1. CASE exitCleanly
    BY <1>7, <2>1, ExitDurable DEF shutdownCommand, exitCleanly, Up, Down
  <2>2. CASE ~exitCleanly
    BY <1>7, <2>2, CannotExitDurable DEF shutdownCommand, Up, Down
  <2> QED BY <2>1, <2>2
<1>8. CASE NoTimeEvent \/ CronTime \/ CronEnd
  BY <1>3, <1>8, SameDurable
     DEF NoTimeEvent, CronTime, CronEnd, EventsServed, disk, network, Up, Down
<1>9. CASE CronSigterm
  <2>1. CASE exitCleanly
    BY <1>9, <2>1, ExitDurable DEF CronSigterm, EventsServed, exitCleanly, Up, Down
  <2>2. CASE ~exitCleanly
    BY <1>9, <2>2, CannotExitDurable DEF CronSigterm, EventsServed, Up, Down
  <2> QED BY <2>1, <2>2
<1>10. CASE CronScheduled \/ CronTriggers
  BY <1>3, <1>10, SameDurable DEF CronScheduled, CronTriggers, disk, network, Up, Down
<1>11. CASE CronReap \/ CronRename \/ CronSwitch
  BY <1>11, ReapDurable, RenameDurable, SwitchDurable
<1>12. CASE CronFlush
  <2>1. /\ Up /\ Up' /\ phase' # "events" /\ UNCHANGED <<executed, acked, pend>>
        /\ phase # "renamed" /\ phase' # "renamed"
    BY <1>12 DEF CronFlush, network, Up, Down
  <2>2. CASE flushAppendOnlyFile(FALSE)
    BY <2>1, <2>2, FlushSyncs, MoreDurable
  <2>3. CASE UNCHANGED <<aof, synced>>
    BY <1>3, <2>1, <2>3, SameDurable
  <2> QED BY <1>12, <2>2, <2>3 DEF CronFlush
<1>13. ASSUME NEW d \in Dbs, CronExpire(d)
       PROVE  Goal
  BY <1>3, <1>13, ExpireDurable DEF CronExpire, disk
<1>14. CASE Tick \/ BgsaveExit \/ ChildExit
  BY <1>3, <1>14, SameDurable DEF Tick, BgsaveExit, ChildExit, disk, network, Up
<1>15. CASE BioStart \/ BioEnd
  BY <1>15, BioDurable
<1>16. CASE CheckAofFix \/ Restart
  BY <1>16, RestartDurable DEF CheckAofFix, Restart, Up, Down
<1>17. CASE UNCHANGED vars
  <2>1. UNCHANGED <<aof, synced, phase, executed, rev, wev, pend, acked>>
    BY <1>17 DEF vars, disk, network
  <2>2. DurableNext' = DurableNext /\ Written' = Written
    BY <2>1, DurableSame
  <2> QED BY <1>3, <2>1, <2>2 DEF DurInv, Waiting, SafeToReply, Up
<1>18. ASSUME NEW c \in Clients, stopAppendOnly(c) \/ startAppendOnly(c)
       PROVE  Goal
  BY <1>18 DEF stopAppendOnly, startAppendOnly, Always
<1> QED
  BY <1>1, <1>2, <1>4, <1>5, <1>6, <1>7, <1>8, <1>9, <1>10, <1>11, <1>12,
     <1>13, <1>14, <1>15, <1>16, <1>17, <1>18
     DEF Next, MainThread, Environment, EventHandlers, serverCron

\* The three invariants together.
LEMMA AlwaysInvariant ==
  ASSUME Always
  PROVE  Spec => [](TypeInv /\ LogInv /\ DurInv)
<1>1. TypeInv /\ LogInv /\ [Next]_vars => LogInv'
  BY LogStep DEF Always
<1>2. TypeInv /\ LogInv /\ DurInv /\ [Next]_vars => DurInv'
  BY DurStep
<1> QED
  BY <1>1, <1>2, TypeInvInit, TypeInvStep, LogInit, DurInit, PTL DEF Spec

\* With appendfsync always, a client that waits for its replies is told about
\* no command that a power failure could take back, but in the window of
\* backgroundRewriteDoneHandler() between rename(2) and aof_fsync(); when the
\* server is up again after power was lost there, this holds of the commands
\* that it still knows.  For any number of clients, rewrites, failed shutdowns,
\* crashes and restarts.
THEOREM AckedAlwaysDurable ==
  ASSUME Always
  PROVE  Spec => []AckedAreDurable
<1>1. TypeInv /\ LogInv /\ DurInv => AckedAreDurable
  BY DEF DurInv, AckedAreDurable, DurableNext
<1> QED BY <1>1, AlwaysInvariant, PTL

\* With appendfsync always, SHUTDOWN and SIGTERM, which do not write the
\* buffer, still leave every acknowledged command in the file.
THEOREM CleanExitAlwaysKeepsAcked ==
  ASSUME Always
  PROVE  Spec => []CleanExitKeepsAcked
<1>1. TypeInv /\ LogInv /\ DurInv => CleanExitKeepsAcked
  <2> SUFFICES ASSUME TypeInv, DurInv, phase = "exited", NEW n \in acked
               PROVE  n <= Written
    BY DEF CleanExitKeepsAcked, Written
  <2> QED BY DurableFacts, TypeFacts DEF DurInv
<1> QED BY <1>1, AlwaysInvariant, PTL

\* With appendfsync always, durability shrinks in no step but the rename of a
\* rewritten file, and the step that follows it puts back all that was durable.
THEOREM DurableNeverShrinksAlways ==
  ASSUME Always
  PROVE  Spec => DurableNeverShrinks
<1>1. TypeInv /\ LogInv /\ DurInv /\ [Next]_vars
      => [Up /\ Up' => DurableNext' >= DurableNext]_vars
  <2> SUFFICES ASSUME TypeInv, LogInv, DurInv, [Next]_vars, Up, Up'
               PROVE  DurableNext' >= DurableNext
    OBVIOUS
  <2>1. DurableNext <= DurableNext'
    BY DurStep
  <2>2. TypeInv'
    BY TypeInvStep
  <2>3. DurableNext \in Nat
    BY DurableFacts
  <2>4. DurableNext' \in Nat
    <3>1. aof'.base \in Nat /\ synced' \in Nat /\ Len(aof'.entries) \in Nat
      BY <2>2 DEF TypeInv, TypeOK, File
    <3> QED BY <3>1 DEF DurableNext, Durable
  <2> QED BY <2>1, <2>3, <2>4
<1> QED BY <1>1, AlwaysInvariant, PTL DEF Spec, DurableNeverShrinks
=============================================================================
