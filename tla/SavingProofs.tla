---------------------------- MODULE SavingProofs ----------------------------
(***************************************************************************)
(* Proofs about Saving, for every set of process identifiers and every     *)
(* value of the bounds: SavingSound is an invariant of SavingSpec, and     *)
(* DumpNeverGoesBack holds of its steps.  Neither is inductive: both need  *)
(* what the server's counters have to do with the data set of the child    *)
(* that saves, SaverAgrees.                                                *)
(***************************************************************************)
EXTENDS Saving, TLAPS, FiniteSetTheorems

-----------------------------------------------------------------------------
(* The inductive invariant.                                                *)

(* The two identifiers are those of the children there are, each doing the *)
(* job its variable stands for; after stopAppendOnly() has waited for the  *)
(* wrong one, whatever is left is dead.                                    *)
ChildrenKnown ==
    /\ ~misreaped =>
         /\ Kept = DOMAIN procs
         /\ bgsavechildpid # NoPid => procs[bgsavechildpid].job = "save"
         /\ bgrewritechildpid # NoPid => procs[bgrewritechildpid].job = "rewrite"
    /\ misreaped => up /\ DOMAIN procs = Dead

(* While a child saves, or waits to be waited for, dirty has grown since   *)
(* its fork by what the data set has; the dump is no older than the data   *)
(* set of a child that has renamed its file, and no newer than that of one *)
(* that has yet to.                                                        *)
SaverAgrees ==
    up /\ ~misreaped /\ bgsavechildpid # NoPid =>
      /\ dirty - dirty_before_bgsave = changes - procs[bgsavechildpid].data
      /\ procs[bgsavechildpid].data <= changes
      /\ procs[bgsavechildpid].state \in {"renamed", "ok"}
           => procs[bgsavechildpid].data <= dump
      /\ procs[bgsavechildpid].state = "runs" => dump <= procs[bgsavechildpid].data

(* A server that has exited saved everything, and left no child that might *)
(* replace its dump.                                                       *)
NoSaverIsLeft ==
    ~up => /\ dump = changes
           /\ \A p \in DOMAIN procs : procs[p].job = "save" => p \in Dead

SavingInv ==
    /\ TypeOK /\ dump <= changes
    /\ ChildrenKnown /\ SaverAgrees /\ NoSaverIsLeft
    /\ UnsavedAreCounted /\ ResizeOffWithChildren

-----------------------------------------------------------------------------

(* The invariant holds when the server starts.                             *)
LEMMA InitInv == ASSUME SavingConstants, SavingInit PROVE SavingInv
  <1> USE DEF SavingInit
  <1>1. TypeOK
    <2>1. /\ changes \in 0..MaxChanges /\ dump \in 0..MaxChanges
          /\ dirty \in Nat /\ dirty_before_bgsave \in Nat
          /\ commands \in 0..MaxCommands /\ faults \in 0..MaxFaults
      BY DEF SavingConstants
    <2>2. DOMAIN procs = {}
      OBVIOUS
    <2> QED BY <2>1, <2>2 DEF TypeOK
  <1>2. Kept = {} /\ DOMAIN procs = {}
    BY DEF Kept
  <1>3. ChildrenKnown /\ SaverAgrees /\ NoSaverIsLeft
    BY <1>2 DEF ChildrenKnown, SaverAgrees, NoSaverIsLeft, Dead
  <1>4. dump <= changes /\ UnsavedAreCounted /\ ResizeOffWithChildren
    BY <1>2 DEF UnsavedAreCounted, ResizeOffWithChildren
  <1> QED BY <1>1, <1>3, <1>4 DEF SavingInv


-----------------------------------------------------------------------------
(* What fork() does, for the three actions that start a saving child and   *)
(* the three that start a rewriting one.                                   *)

(* ps is a table of children: the part of TypeOK that is about procs.      *)
Children(ps) ==
    /\ DOMAIN ps \subseteq Pids
    /\ \A p \in DOMAIN ps :
          ps[p] \in [job : {"save", "rewrite"}, data : 0..MaxChanges,
                    state : {"runs", "renamed", "ok", "error", "killed"}]

(* procs has one child more than ps, which has just been forked.           *)
Forked(ps, p, job) ==
    /\ p \in Pids \ DOMAIN ps
    /\ DOMAIN procs' = DOMAIN ps \cup {p}
    /\ procs'[p] = [job |-> job, data |-> changes, state |-> "runs"]
    /\ \A q \in DOMAIN ps : procs'[q] = ps[q]

(* WithChild() adds a child and keeps the others.                          *)
LEMMA WithChildForks ==
    ASSUME changes \in 0..MaxChanges,
           NEW ps, Children(ps), NEW job \in {"save", "rewrite"},
           NEW p \in Pids \ DOMAIN ps, procs' = WithChild(ps, p, job)
    PROVE  Forked(ps, p, job) /\ Children(procs')
  <1>1. DOMAIN procs' = DOMAIN ps \cup {p}
    BY DEF WithChild
  <1>2. procs'[p] = [job |-> job, data |-> changes, state |-> "runs"]
    BY DEF WithChild
  <1>3. \A q \in DOMAIN ps : procs'[q] = ps[q]
    BY DEF WithChild
  <1> QED BY <1>1, <1>2, <1>3 DEF Forked, Children

(* rdbSaveBackground() forks a saving child, or fails; dirty is noted in   *)
(* both cases.                                                             *)
LEMMA SaverForks ==
    ASSUME SavingConstants, changes \in 0..MaxChanges, faults \in 0..MaxFaults,
           NEW ps, Children(ps), rdbSaveBackground(ps)
    PROVE  /\ dirty_before_bgsave' = dirty'
           /\ Children(procs') /\ faults' \in 0..MaxFaults
           /\ \/ Forked(ps, bgsavechildpid', "save")
              \/ procs' = ps /\ bgsavechildpid' = NoPid
  BY WithChildForks DEF rdbSaveBackground, Fault, SavingConstants

(* rewriteAppendOnlyFileBackground() forks a rewriting child, or fails.    *)
LEMMA RewriterForks ==
    ASSUME SavingConstants, TypeOK, rewriteAppendOnlyFileBackground
    PROVE  /\ Children(procs') /\ faults' \in 0..MaxFaults
           /\ aofrewrite_scheduled' \in BOOLEAN
           /\ \/ Forked(procs, bgrewritechildpid', "rewrite")
              \/ procs' = procs /\ bgrewritechildpid' = bgrewritechildpid
  <1>1. Children(procs)
    BY DEF TypeOK, Children
  <1>2. changes \in 0..MaxChanges /\ faults \in 0..MaxFaults /\ aofrewrite_scheduled \in BOOLEAN
    BY DEF TypeOK
  <1>3. CASE \E p \in Pids \ DOMAIN procs :
                /\ procs' = WithChild(procs, p, "rewrite")
                /\ bgrewritechildpid' = p
                /\ aofrewrite_scheduled' = FALSE
                /\ UNCHANGED faults
    BY <1>1, <1>2, <1>3, WithChildForks
  <1>4. CASE Fault /\ UNCHANGED <<procs, bgrewritechildpid, aofrewrite_scheduled>>
    BY <1>1, <1>2, <1>4 DEF Fault, SavingConstants
  <1> QED
    BY <1>3, <1>4 DEF rewriteAppendOnlyFileBackground

(* procs is such a table.                                                  *)
LEMMA ChildrenType == TypeOK => Children(procs)
  BY DEF TypeOK, Children

(* A write keeps dirty - dirty_before_bgsave and changes - data equal.     *)
LEMMA WriteInv == ASSUME SavingConstants, SavingInv, Write PROVE SavingInv'
  <1> USE DEF Write
  <1>a. ({aofrewrite_scheduled, appendonly, dict_can_resize, waiting, up, misreaped}
           \subseteq BOOLEAN)'
    BY DEF SavingInv, TypeOK
  <1>1. TypeOK'
    BY <1>a DEF SavingConstants, SavingInv, TypeOK, ChildrenKnown, Kept, Dead
  <1>2. (dump <= changes)'
    BY DEF SavingConstants, SavingInv, TypeOK, ChildrenKnown, Kept, Dead
  <1>3. ChildrenKnown'
    BY DEF SavingConstants, SavingInv, TypeOK, ChildrenKnown, Kept, Dead
  <1>4. SaverAgrees'
    BY DEF SavingConstants, SavingInv, TypeOK, ChildrenKnown, Kept, Dead, SaverAgrees
  <1>5. NoSaverIsLeft'
    BY DEF SavingConstants, SavingInv, TypeOK, ChildrenKnown, Kept, Dead, SaverAgrees,
       NoSaverIsLeft
  <1>6. UnsavedAreCounted'
    BY DEF SavingConstants, SavingInv, TypeOK, ChildrenKnown, Kept, Dead, SaverAgrees,
       UnsavedAreCounted
  <1>7. ResizeOffWithChildren'
    BY DEF SavingConstants, SavingInv, TypeOK, ChildrenKnown, Kept, Dead,
       ResizeOffWithChildren
  <1> QED BY <1>1, <1>2, <1>3, <1>4, <1>5, <1>6, <1>7 DEF SavingInv

(* SAVE is refused while a child saves: dirty may be reset.                *)
LEMMA SaveInv == ASSUME SavingConstants, SavingInv, saveCommand PROVE SavingInv'
  <1> USE DEF saveCommand, Command, rdbSave, Fault
  <1>a. ({aofrewrite_scheduled, appendonly, dict_can_resize, waiting, up, misreaped}
           \subseteq BOOLEAN)'
    BY DEF SavingInv, TypeOK
  <1>1. TypeOK'
    BY <1>a DEF SavingConstants, SavingInv, TypeOK, ChildrenKnown, Kept, Dead
  <1>2. (dump <= changes)'
    BY DEF SavingConstants, SavingInv, TypeOK, ChildrenKnown, Kept, Dead
  <1>3. ChildrenKnown'
    BY DEF SavingConstants, SavingInv, TypeOK, ChildrenKnown, Kept, Dead
  <1>4. SaverAgrees'
    BY DEF SavingConstants, SavingInv, TypeOK, ChildrenKnown, Kept, Dead, SaverAgrees
  <1>5. NoSaverIsLeft'
    BY DEF SavingConstants, SavingInv, TypeOK, ChildrenKnown, Kept, Dead, SaverAgrees,
       NoSaverIsLeft
  <1>6. UnsavedAreCounted'
    BY DEF SavingConstants, SavingInv, TypeOK, ChildrenKnown, Kept, Dead, SaverAgrees,
       UnsavedAreCounted
  <1>7. ResizeOffWithChildren'
    BY DEF SavingConstants, SavingInv, TypeOK, ChildrenKnown, Kept, Dead,
       ResizeOffWithChildren
  <1> QED BY <1>1, <1>2, <1>3, <1>4, <1>5, <1>6, <1>7 DEF SavingInv

(* BGSAVE forks a child whose data set is the one of now.                  *)
LEMMA BgsaveInv == ASSUME SavingConstants, SavingInv, bgsaveCommand PROVE SavingInv'
  <1> USE DEF bgsaveCommand, Command
  <1>b. /\ dirty_before_bgsave' = dirty'
        /\ Children(procs') /\ faults' \in 0..MaxFaults
        /\ \/ Forked(procs, bgsavechildpid', "save")
           \/ procs' = procs /\ bgsavechildpid' = NoPid
    BY SaverForks, ChildrenType DEF SavingInv, TypeOK
  <1>a. ({aofrewrite_scheduled, appendonly, dict_can_resize, waiting, up, misreaped}
           \subseteq BOOLEAN)'
    BY DEF SavingInv, TypeOK, resizeAfterFork
  <1>1. TypeOK'
    BY <1>a, <1>b DEF SavingConstants, SavingInv, TypeOK, Children, Forked
  <1>2. (dump <= changes)'
    BY DEF SavingConstants, SavingInv, TypeOK, ChildrenKnown, Kept, Dead
  <1>3. ChildrenKnown'
    BY <1>b DEF SavingConstants, SavingInv, TypeOK, ChildrenKnown, Kept, Dead, Forked
  <1>4. SaverAgrees'
    BY <1>b DEF SavingConstants, SavingInv, TypeOK, ChildrenKnown, Kept, Dead, Forked,
       SaverAgrees
  <1>5. NoSaverIsLeft'
    BY DEF SavingConstants, SavingInv, TypeOK, ChildrenKnown, Kept, Dead, NoSaverIsLeft
  <1>6. UnsavedAreCounted'
    BY DEF SavingConstants, SavingInv, TypeOK, ChildrenKnown, Kept, Dead, SaverAgrees,
       UnsavedAreCounted
  <1>7. ResizeOffWithChildren'
    BY DEF SavingInv, ResizeOffWithChildren, resizeAfterFork
  <1> QED BY <1>1, <1>2, <1>3, <1>4, <1>5, <1>6, <1>7 DEF SavingInv

(* SYNC with no save running forks a child likewise.                       *)
LEMMA SyncStartsInv ==
    ASSUME SavingConstants, SavingInv, syncCommand, bgsavechildpid = NoPid
    PROVE  SavingInv'
  <1> USE DEF syncCommand, Command
  <1>b. /\ dirty_before_bgsave' = dirty'
        /\ Children(procs') /\ faults' \in 0..MaxFaults
        /\ \/ Forked(procs, bgsavechildpid', "save")
           \/ procs' = procs /\ bgsavechildpid' = NoPid
    BY SaverForks, ChildrenType DEF SavingInv, TypeOK
  <1>a. ({aofrewrite_scheduled, appendonly, dict_can_resize, waiting, up, misreaped}
           \subseteq BOOLEAN)'
    BY DEF SavingInv, TypeOK, resizeAfterFork
  <1>1. TypeOK'
    BY <1>a, <1>b DEF SavingConstants, SavingInv, TypeOK, Children, Forked
  <1>2. (dump <= changes)'
    BY DEF SavingConstants, SavingInv, TypeOK, ChildrenKnown, Kept, Dead
  <1>3. ChildrenKnown'
    BY <1>b DEF SavingConstants, SavingInv, TypeOK, ChildrenKnown, Kept, Dead, Forked
  <1>4. SaverAgrees'
    BY <1>b DEF SavingConstants, SavingInv, TypeOK, ChildrenKnown, Kept, Dead, Forked,
       SaverAgrees
  <1>5. NoSaverIsLeft'
    BY DEF SavingConstants, SavingInv, TypeOK, ChildrenKnown, Kept, Dead, NoSaverIsLeft
  <1>6. UnsavedAreCounted'
    BY DEF SavingConstants, SavingInv, TypeOK, ChildrenKnown, Kept, Dead, SaverAgrees,
       UnsavedAreCounted
  <1>7. ResizeOffWithChildren'
    BY DEF SavingInv, ResizeOffWithChildren, resizeAfterFork
  <1> QED BY <1>1, <1>2, <1>3, <1>4, <1>5, <1>6, <1>7 DEF SavingInv

(* SYNC during a save only waits.                                          *)
LEMMA SyncWaitsInv ==
    ASSUME SavingConstants, SavingInv, syncCommand, bgsavechildpid # NoPid
    PROVE  SavingInv'
  <1> USE DEF syncCommand, Command
  <1>a. ({aofrewrite_scheduled, appendonly, dict_can_resize, waiting, up, misreaped}
           \subseteq BOOLEAN)'
    BY DEF SavingInv, TypeOK
  <1>1. TypeOK'
    BY <1>a DEF SavingConstants, SavingInv, TypeOK, ChildrenKnown, Kept, Dead
  <1>2. (dump <= changes)'
    BY DEF SavingConstants, SavingInv, TypeOK, ChildrenKnown, Kept, Dead
  <1>3. ChildrenKnown'
    BY DEF SavingConstants, SavingInv, TypeOK, ChildrenKnown, Kept, Dead
  <1>4. SaverAgrees'
    BY DEF SavingConstants, SavingInv, TypeOK, ChildrenKnown, Kept, Dead, SaverAgrees
  <1>5. NoSaverIsLeft'
    BY DEF SavingConstants, SavingInv, TypeOK, ChildrenKnown, Kept, Dead, SaverAgrees,
       NoSaverIsLeft
  <1>6. UnsavedAreCounted'
    BY DEF SavingConstants, SavingInv, TypeOK, ChildrenKnown, Kept, Dead, SaverAgrees,
       UnsavedAreCounted
  <1>7. ResizeOffWithChildren'
    BY DEF SavingConstants, SavingInv, TypeOK, ChildrenKnown, Kept, Dead,
       ResizeOffWithChildren
  <1> QED BY <1>1, <1>2, <1>3, <1>4, <1>5, <1>6, <1>7 DEF SavingInv

(* BGREWRITEAOF with no save running forks a rewriting child.              *)
LEMMA RewriteStartsInv ==
    ASSUME SavingConstants, SavingInv, bgrewriteaofCommand, bgsavechildpid = NoPid
    PROVE  SavingInv'
  <1> USE DEF bgrewriteaofCommand, Command
  <1>b. /\ Children(procs') /\ faults' \in 0..MaxFaults
        /\ aofrewrite_scheduled' \in BOOLEAN
        /\ \/ Forked(procs, bgrewritechildpid', "rewrite")
           \/ procs' = procs /\ bgrewritechildpid' = bgrewritechildpid
    BY RewriterForks DEF SavingInv
  <1>a. ({aofrewrite_scheduled, appendonly, dict_can_resize, waiting, up, misreaped}
           \subseteq BOOLEAN)'
    BY <1>b DEF SavingInv, TypeOK, resizeAfterFork
  <1>1. TypeOK'
    BY <1>a, <1>b DEF SavingConstants, SavingInv, TypeOK, Children, Forked
  <1>2. (dump <= changes)'
    BY DEF SavingConstants, SavingInv, TypeOK, ChildrenKnown, Kept, Dead
  <1>3. ChildrenKnown'
    <2>1. CASE Forked(procs, bgrewritechildpid', "rewrite")
      <3>1. Kept' = DOMAIN procs'
        BY <2>1 DEF SavingConstants, SavingInv, TypeOK, ChildrenKnown, Kept, Forked
      <3>2. bgrewritechildpid' # NoPid => procs'[bgrewritechildpid'].job = "rewrite"
        BY <2>1 DEF Forked
      <3>3. bgsavechildpid' # NoPid => procs'[bgsavechildpid'].job = "save"
        BY <2>1 DEF SavingInv, ChildrenKnown, Kept, Forked
      <3> QED BY <3>1, <3>2, <3>3 DEF ChildrenKnown
    <2>2. CASE procs' = procs /\ bgrewritechildpid' = bgrewritechildpid
      BY <2>2 DEF SavingInv, ChildrenKnown, Kept
    <2> QED BY <1>b, <2>1, <2>2
  <1>4. SaverAgrees'
    BY <1>b DEF SavingConstants, SavingInv, TypeOK, ChildrenKnown, Kept, Dead, Forked,
       SaverAgrees
  <1>5. NoSaverIsLeft'
    BY DEF SavingConstants, SavingInv, TypeOK, ChildrenKnown, Kept, Dead, NoSaverIsLeft
  <1>6. UnsavedAreCounted'
    BY DEF SavingConstants, SavingInv, TypeOK, ChildrenKnown, Kept, Dead, SaverAgrees,
       UnsavedAreCounted
  <1>7. ResizeOffWithChildren'
    BY DEF SavingInv, ResizeOffWithChildren, resizeAfterFork
  <1> QED BY <1>1, <1>2, <1>3, <1>4, <1>5, <1>6, <1>7 DEF SavingInv

(* BGREWRITEAOF during a save is scheduled.                                *)
LEMMA RewriteWaitsInv ==
    ASSUME SavingConstants, SavingInv, bgrewriteaofCommand, bgsavechildpid # NoPid
    PROVE  SavingInv'
  <1> USE DEF bgrewriteaofCommand, Command
  <1>a. ({aofrewrite_scheduled, appendonly, dict_can_resize, waiting, up, misreaped}
           \subseteq BOOLEAN)'
    BY DEF SavingInv, TypeOK
  <1>1. TypeOK'
    BY <1>a DEF SavingConstants, SavingInv, TypeOK, ChildrenKnown, Kept, Dead
  <1>2. (dump <= changes)'
    BY DEF SavingConstants, SavingInv, TypeOK, ChildrenKnown, Kept, Dead
  <1>3. ChildrenKnown'
    BY DEF SavingConstants, SavingInv, TypeOK, ChildrenKnown, Kept, Dead
  <1>4. SaverAgrees'
    BY DEF SavingConstants, SavingInv, TypeOK, ChildrenKnown, Kept, Dead, SaverAgrees
  <1>5. NoSaverIsLeft'
    BY DEF SavingConstants, SavingInv, TypeOK, ChildrenKnown, Kept, Dead, SaverAgrees,
       NoSaverIsLeft
  <1>6. UnsavedAreCounted'
    BY DEF SavingConstants, SavingInv, TypeOK, ChildrenKnown, Kept, Dead, SaverAgrees,
       UnsavedAreCounted
  <1>7. ResizeOffWithChildren'
    BY DEF SavingConstants, SavingInv, TypeOK, ChildrenKnown, Kept, Dead,
       ResizeOffWithChildren
  <1> QED BY <1>1, <1>2, <1>3, <1>4, <1>5, <1>6, <1>7 DEF SavingInv

(* CONFIG SET appendonly yes forks a rewriting child, beside a saving one. *)
LEMMA StartInv ==
    ASSUME SavingConstants, SavingInv, startAppendOnly, bgrewritechildpid = NoPid
    PROVE  SavingInv'
  <1> USE DEF startAppendOnly, Command
  <1>b. /\ Children(procs') /\ faults' \in 0..MaxFaults
        /\ aofrewrite_scheduled' \in BOOLEAN
        /\ \/ Forked(procs, bgrewritechildpid', "rewrite")
           \/ procs' = procs /\ bgrewritechildpid' = bgrewritechildpid
    BY RewriterForks DEF SavingInv
  <1>a. ({aofrewrite_scheduled, appendonly, dict_can_resize, waiting, up, misreaped}
           \subseteq BOOLEAN)'
    BY <1>b DEF SavingInv, TypeOK, resizeAfterFork
  <1>1. TypeOK'
    BY <1>a, <1>b DEF SavingConstants, SavingInv, TypeOK, Children, Forked
  <1>2. (dump <= changes)'
    BY DEF SavingConstants, SavingInv, TypeOK, ChildrenKnown, Kept, Dead
  <1>3. ChildrenKnown'
    <2>1. CASE Forked(procs, bgrewritechildpid', "rewrite")
      <3>1. Kept' = DOMAIN procs'
        BY <2>1 DEF SavingConstants, SavingInv, TypeOK, ChildrenKnown, Kept, Forked
      <3>2. bgrewritechildpid' # NoPid => procs'[bgrewritechildpid'].job = "rewrite"
        BY <2>1 DEF Forked
      <3>3. bgsavechildpid' # NoPid => procs'[bgsavechildpid'].job = "save"
        BY <2>1 DEF SavingInv, ChildrenKnown, Kept, Forked
      <3> QED BY <3>1, <3>2, <3>3 DEF ChildrenKnown
    <2>2. CASE procs' = procs /\ bgrewritechildpid' = bgrewritechildpid
      BY <2>2 DEF SavingInv, ChildrenKnown, Kept
    <2> QED BY <1>b, <2>1, <2>2
  <1>4. SaverAgrees'
    BY <1>b DEF SavingConstants, SavingInv, TypeOK, ChildrenKnown, Kept, Dead, Forked,
       SaverAgrees
  <1>5. NoSaverIsLeft'
    BY DEF SavingConstants, SavingInv, TypeOK, ChildrenKnown, Kept, Dead, NoSaverIsLeft
  <1>6. UnsavedAreCounted'
    BY DEF SavingConstants, SavingInv, TypeOK, ChildrenKnown, Kept, Dead, SaverAgrees,
       UnsavedAreCounted
  <1>7. ResizeOffWithChildren'
    BY DEF SavingInv, ResizeOffWithChildren, resizeAfterFork
  <1> QED BY <1>1, <1>2, <1>3, <1>4, <1>5, <1>6, <1>7 DEF SavingInv

(* It is refused while a rewriting child runs.                             *)
LEMMA StartNotInv ==
    ASSUME SavingConstants, SavingInv, startAppendOnly, bgrewritechildpid # NoPid
    PROVE  SavingInv'
  <1> USE DEF startAppendOnly, Command
  <1>a. ({aofrewrite_scheduled, appendonly, dict_can_resize, waiting, up, misreaped}
           \subseteq BOOLEAN)'
    BY DEF SavingInv, TypeOK
  <1>1. TypeOK'
    BY <1>a DEF SavingConstants, SavingInv, TypeOK, ChildrenKnown, Kept, Dead
  <1>2. (dump <= changes)'
    BY DEF SavingConstants, SavingInv, TypeOK, ChildrenKnown, Kept, Dead
  <1>3. ChildrenKnown'
    BY DEF SavingConstants, SavingInv, TypeOK, ChildrenKnown, Kept, Dead
  <1>4. SaverAgrees'
    BY DEF SavingConstants, SavingInv, TypeOK, ChildrenKnown, Kept, Dead, SaverAgrees
  <1>5. NoSaverIsLeft'
    BY DEF SavingConstants, SavingInv, TypeOK, ChildrenKnown, Kept, Dead, SaverAgrees,
       NoSaverIsLeft
  <1>6. UnsavedAreCounted'
    BY DEF SavingConstants, SavingInv, TypeOK, ChildrenKnown, Kept, Dead, SaverAgrees,
       UnsavedAreCounted
  <1>7. ResizeOffWithChildren'
    BY DEF SavingConstants, SavingInv, TypeOK, ChildrenKnown, Kept, Dead,
       ResizeOffWithChildren
  <1> QED BY <1>1, <1>2, <1>3, <1>4, <1>5, <1>6, <1>7 DEF SavingInv

(* FLUSHALL kills the saving child: its data set, which is older than the  *)
(* dump then, can no longer be renamed over it.                            *)
LEMMA FlushInv == ASSUME SavingConstants, SavingInv, flushallCommand PROVE SavingInv'
  <1> USE DEF flushallCommand, Command, rdbSave, Fault, Killed
  <1>a. ({aofrewrite_scheduled, appendonly, dict_can_resize, waiting, up, misreaped}
           \subseteq BOOLEAN)'
    BY DEF SavingInv, TypeOK
  <1>1. TypeOK'
    BY <1>a DEF SavingConstants, SavingInv, TypeOK, ChildrenKnown, Kept, Dead
  <1>2. (dump <= changes)'
    BY DEF SavingConstants, SavingInv, TypeOK, ChildrenKnown, Kept, Dead
  <1>3. ChildrenKnown'
    BY DEF SavingConstants, SavingInv, TypeOK, ChildrenKnown, Kept, Dead
  <1>4. SaverAgrees'
    BY DEF SavingConstants, SavingInv, TypeOK, ChildrenKnown, Kept, Dead, SaverAgrees
  <1>5. NoSaverIsLeft'
    BY DEF SavingConstants, SavingInv, TypeOK, ChildrenKnown, Kept, Dead, SaverAgrees,
       NoSaverIsLeft
  <1>6. UnsavedAreCounted'
    BY DEF SavingConstants, SavingInv, TypeOK, ChildrenKnown, Kept, Dead, SaverAgrees,
       UnsavedAreCounted
  <1>7. ResizeOffWithChildren'
    BY DEF SavingConstants, SavingInv, TypeOK, ChildrenKnown, Kept, Dead,
       ResizeOffWithChildren
  <1> QED BY <1>1, <1>2, <1>3, <1>4, <1>5, <1>6, <1>7 DEF SavingInv

(* SHUTDOWN kills the saving child for the same reason.                    *)
LEMMA ShutInv ==
    ASSUME SavingConstants, SavingInv, prepareForShutdown
    PROVE  SavingInv'
  <1> USE DEF prepareForShutdown, Command, rdbSave, Fault, Killed
  <1>a. ({aofrewrite_scheduled, appendonly, dict_can_resize, waiting, up, misreaped}
           \subseteq BOOLEAN)'
    BY DEF SavingInv, TypeOK
  <1>1. TypeOK'
    BY <1>a DEF SavingConstants, SavingInv, TypeOK, ChildrenKnown, Kept, Dead
  <1>2. (dump <= changes)'
    BY DEF SavingConstants, SavingInv, TypeOK, ChildrenKnown, Kept, Dead
  <1>3. ChildrenKnown'
    BY DEF SavingConstants, SavingInv, TypeOK, ChildrenKnown, Kept, Dead
  <1>4. SaverAgrees'
    BY DEF SavingConstants, SavingInv, TypeOK, ChildrenKnown, Kept, Dead, SaverAgrees
  <1>5. NoSaverIsLeft'
    <2> SUFFICES ASSUME ~up'
                 PROVE  /\ dump' = changes'
                        /\ \A p \in DOMAIN procs' : procs'[p].job = "save" => p \in Dead'
      BY DEF NoSaverIsLeft
    <2>0. faults' = faults
      OBVIOUS
    <2>1. dump' = changes'
      BY <2>0 DEF SavingInv, TypeOK
    <2>2. ASSUME NEW p \in DOMAIN procs', procs'[p].job = "save"
          PROVE  p \in Dead'
      <3>1. p \in DOMAIN procs /\ procs[p].job = "save"
        BY <2>2
      <3>2. p = bgsavechildpid
        BY <3>1 DEF SavingInv, ChildrenKnown, Kept
      <3>3. procs'[p].state \in {"ok", "error", "killed"}
        BY <3>1, <3>2 DEF SavingInv, TypeOK, Dead
      <3> QED BY <2>2, <3>3 DEF Dead
    <2> QED BY <2>1, <2>2
  <1>6. UnsavedAreCounted'
    BY DEF SavingConstants, SavingInv, TypeOK, ChildrenKnown, Kept, Dead, SaverAgrees,
       UnsavedAreCounted
  <1>7. ResizeOffWithChildren'
    BY DEF SavingConstants, SavingInv, TypeOK, ChildrenKnown, Kept, Dead,
       ResizeOffWithChildren
  <1> QED BY <1>1, <1>2, <1>3, <1>4, <1>5, <1>6, <1>7 DEF SavingInv

(* CONFIG SET appendonly no removes the child it has killed, or another    *)
(* that was dead: then only the rewriting child is left, and it is dead.   *)
LEMMA StopInv == ASSUME SavingConstants, SavingInv, stopAppendOnly PROVE SavingInv'
  <1> USE DEF stopAppendOnly, Command
  <1>a. ({aofrewrite_scheduled, appendonly, dict_can_resize, waiting, up, misreaped}
           \subseteq BOOLEAN)'
    BY DEF SavingInv, TypeOK
  <1>b. CASE bgrewritechildpid = NoPid
    <2>1. TypeOK'
      BY <1>a, <1>b DEF SavingConstants, SavingInv, TypeOK
    <2>2. ChildrenKnown' /\ SaverAgrees' /\ NoSaverIsLeft'
      BY <1>b DEF SavingInv, ChildrenKnown, SaverAgrees, NoSaverIsLeft, Kept
    <2>3. (dump <= changes)' /\ UnsavedAreCounted' /\ ResizeOffWithChildren'
      BY <1>b DEF SavingInv, UnsavedAreCounted, ResizeOffWithChildren, Kept
    <2> QED BY <2>1, <2>2, <2>3 DEF SavingInv
  <1>c. CASE bgrewritechildpid # NoPid
    <2>1. PICK p \in Dead \cup {bgrewritechildpid} :
             /\ procs' = [q \in DOMAIN procs \ {p} |-> Killed(bgrewritechildpid)[q]]
             /\ misreaped' = (misreaped \/ p # bgrewritechildpid)
      BY <1>c
    <2>2. /\ DOMAIN procs' = DOMAIN procs \ {p}
          /\ \A q \in DOMAIN procs \ {p} :
                procs'[q] = IF q = bgrewritechildpid /\ q \notin Dead
                            THEN [procs[q] EXCEPT !.state = "killed"] ELSE procs[q]
      BY <2>1 DEF Killed
    <2>3. /\ bgrewritechildpid \in DOMAIN procs
          /\ procs[bgrewritechildpid].job = "rewrite"
          /\ DOMAIN procs = Kept
          /\ bgsavechildpid # bgrewritechildpid
      BY <1>c DEF SavingInv, ChildrenKnown, Kept
    <2>4. Children(procs')
      BY <2>2 DEF SavingInv, TypeOK, Children
    <2>5. TypeOK'
      BY <1>a, <2>4 DEF SavingConstants, SavingInv, TypeOK, Children
    <2>6. ChildrenKnown'
      <3>1. CASE p = bgrewritechildpid
        <4>1. Kept' = DOMAIN procs' /\ ~misreaped'
          BY <2>1, <2>2, <2>3, <3>1 DEF Kept
        <4>2. bgsavechildpid' # NoPid => procs'[bgsavechildpid'].job = "save"
          BY <2>2, <2>3, <3>1 DEF SavingInv, ChildrenKnown, Kept
        <4> QED BY <4>1, <4>2 DEF ChildrenKnown
      <3>2. CASE p # bgrewritechildpid
        <4>1. DOMAIN procs' = {bgrewritechildpid}
          BY <2>1, <2>2, <2>3, <3>2 DEF Dead, Kept
        <4>2. procs'[bgrewritechildpid].state \in {"ok", "error", "killed"}
          BY <2>2, <2>3, <3>2 DEF SavingInv, TypeOK, Dead
        <4> QED BY <2>1, <3>2, <4>1, <4>2 DEF ChildrenKnown, Dead
      <3> QED BY <3>1, <3>2
    <2>7. SaverAgrees'
      BY <2>1, <2>2, <2>3 DEF SavingInv, SaverAgrees, Kept
    <2>8. NoSaverIsLeft' /\ (dump <= changes)' /\ UnsavedAreCounted' /\ ResizeOffWithChildren'
      BY DEF SavingInv, NoSaverIsLeft, UnsavedAreCounted, ResizeOffWithChildren, Kept
    <2> QED BY <2>5, <2>6, <2>7, <2>8 DEF SavingInv
  <1> QED BY <1>b, <1>c

(* A child renames its file only if it still runs, so that no one has      *)
(* replaced the dump since its fork.                                       *)
LEMMA ChildInv ==
    ASSUME SavingConstants, SavingInv, NEW p \in Pids, ChildSteps(p)
    PROVE  SavingInv'
  <1> USE DEF ChildSteps, Fault
  <1>a. ({aofrewrite_scheduled, appendonly, dict_can_resize, waiting, up, misreaped}
           \subseteq BOOLEAN)'
    BY DEF SavingInv, TypeOK
  <1>1. TypeOK'
    BY <1>a DEF SavingConstants, SavingInv, TypeOK, ChildrenKnown, Kept, Dead
  <1>2. (dump <= changes)'
    BY DEF SavingConstants, SavingInv, TypeOK, ChildrenKnown, Kept, Dead, SaverAgrees,
       NoSaverIsLeft
  <1>3. ChildrenKnown'
    BY DEF SavingConstants, SavingInv, TypeOK, ChildrenKnown, Kept, Dead
  <1>4. SaverAgrees'
    BY DEF SavingConstants, SavingInv, TypeOK, ChildrenKnown, Kept, Dead, SaverAgrees
  <1>5. NoSaverIsLeft'
    BY DEF SavingConstants, SavingInv, TypeOK, ChildrenKnown, Kept, Dead, SaverAgrees,
       NoSaverIsLeft
  <1>6. UnsavedAreCounted'
    BY DEF SavingConstants, SavingInv, TypeOK, ChildrenKnown, Kept, Dead, SaverAgrees,
       UnsavedAreCounted
  <1>7. ResizeOffWithChildren'
    BY DEF SavingConstants, SavingInv, TypeOK, ChildrenKnown, Kept, Dead,
       ResizeOffWithChildren
  <1> QED BY <1>1, <1>2, <1>3, <1>4, <1>5, <1>6, <1>7 DEF SavingInv

(* serverCron() subtracts what was dirty at the fork of a child that ended *)
(* well: what is left is what has changed since, or more.                  *)
LEMMA ReapInv ==
    ASSUME SavingConstants, SavingInv, up, ~misreaped, cronReaps PROVE SavingInv'
  <1>1. PICK p \in Dead :
          \/ /\ p = bgsavechildpid
             /\ UNCHANGED bgrewritechildpid
             /\ backgroundSaveDoneHandler(p)
             /\ updateDictResizePolicy
          \/ /\ p # bgsavechildpid
             /\ bgrewritechildpid' = NoPid
             /\ procs' = Without(p)
             /\ UNCHANGED <<dirty, dirty_before_bgsave, waiting, faults, bgsavechildpid>>
             /\ updateDictResizePolicy
    BY DEF cronReaps
  <1>2. UNCHANGED <<changes, dump, aofrewrite_scheduled, appendonly, up, misreaped, commands>>
    BY DEF cronReaps
  <1>3. /\ p \in DOMAIN procs /\ DOMAIN procs = Kept
        /\ bgsavechildpid # NoPid => procs[bgsavechildpid].job = "save"
        /\ bgrewritechildpid # NoPid => procs[bgrewritechildpid].job = "rewrite"
    BY DEF SavingInv, ChildrenKnown, Dead
  <1>4. DOMAIN Without(p) = DOMAIN procs \ {p}
        /\ \A q \in DOMAIN procs \ {p} : Without(p)[q] = procs[q]
    BY DEF Without
  <1>5. Children(Without(p))
    BY <1>4 DEF SavingInv, TypeOK, Children
  <1>6. (dump <= changes)' /\ NoSaverIsLeft'
    BY <1>2 DEF SavingInv, NoSaverIsLeft
  <1>7. updateDictResizePolicy
    BY <1>1
  <1>8. ResizeOffWithChildren' /\ dict_can_resize' \in BOOLEAN
    BY <1>7 DEF ResizeOffWithChildren, updateDictResizePolicy
  <1>9. CASE p = bgsavechildpid
    <2>1. /\ dirty' = IF procs[p].state = "ok" THEN dirty - dirty_before_bgsave ELSE dirty
          /\ updateSlavesWaitingBgsave(p) /\ UNCHANGED bgrewritechildpid
      BY <1>1, <1>9 DEF backgroundSaveDoneHandler
    <2>2. /\ dirty - dirty_before_bgsave = changes - procs[p].data
          /\ procs[p].data <= changes
          /\ procs[p].state = "ok" => procs[p].data <= dump
      BY <1>3, <1>9 DEF SavingInv, SaverAgrees, TypeOK, SavingConstants
    <2>3. dirty' \in Nat /\ changes - dump <= dirty'
      BY <1>3, <2>1, <2>2 DEF SavingInv, TypeOK, UnsavedAreCounted
    <2>4. /\ Children(procs') /\ faults' \in 0..MaxFaults /\ dirty_before_bgsave' \in Nat
          /\ \/ Forked(Without(p), bgsavechildpid', "save") /\ dirty_before_bgsave' = dirty'
             \/ procs' = Without(p) /\ bgsavechildpid' = NoPid
      <3>1. CASE waiting
        BY <1>5, <2>1, <2>3, <3>1, SaverForks DEF SavingInv, TypeOK,
           updateSlavesWaitingBgsave
      <3>2. CASE ~waiting
        BY <1>5, <2>1, <3>2 DEF SavingInv, TypeOK, updateSlavesWaitingBgsave
      <3> QED BY <3>1, <3>2
    <2>5. waiting' = FALSE
      BY <2>1 DEF updateSlavesWaitingBgsave
    <2>6. ({aofrewrite_scheduled, appendonly, dict_can_resize, waiting, up, misreaped}
           \subseteq BOOLEAN)'
      BY <1>2, <1>8, <2>5 DEF SavingInv, TypeOK
    <2>7. TypeOK'
      BY <1>2, <2>1, <2>3, <2>4, <2>6 DEF SavingConstants, SavingInv, TypeOK,
         Children, Forked
    <2>8. ChildrenKnown'
      <3>1. CASE Forked(Without(p), bgsavechildpid', "save")
        <4>1. Kept' = DOMAIN procs'
          BY <1>3, <1>4, <1>9, <2>1, <3>1 DEF Forked, Kept, SavingConstants
        <4>2. procs'[bgsavechildpid'].job = "save"
          BY <3>1 DEF Forked
        <4>3. bgrewritechildpid' # NoPid => procs'[bgrewritechildpid'].job = "rewrite"
          BY <1>3, <1>4, <1>9, <2>1, <3>1 DEF Forked, Kept
        <4> QED BY <1>2, <4>1, <4>2, <4>3 DEF ChildrenKnown
      <3>2. CASE procs' = Without(p) /\ bgsavechildpid' = NoPid
        BY <1>2, <1>3, <1>4, <1>9, <2>1, <3>2 DEF Kept, ChildrenKnown
      <3> QED BY <2>4, <3>1, <3>2
    <2>9. SaverAgrees'
      BY <1>2, <2>3, <2>4 DEF SavingInv, TypeOK, SaverAgrees, Forked
    <2>10. UnsavedAreCounted'
      BY <1>2, <2>3 DEF UnsavedAreCounted
    <2> QED BY <1>6, <1>8, <2>7, <2>8, <2>9, <2>10 DEF SavingInv
  <1>10. CASE p # bgsavechildpid
    <2>1. /\ bgrewritechildpid' = NoPid /\ procs' = Without(p)
          /\ UNCHANGED <<dirty, dirty_before_bgsave, waiting, faults, bgsavechildpid>>
      BY <1>1, <1>10
    <2>2. p = bgrewritechildpid
      BY <1>3, <1>10 DEF Kept
    <2>3. ({aofrewrite_scheduled, appendonly, dict_can_resize, waiting, up, misreaped}
           \subseteq BOOLEAN)'
      BY <1>2, <1>8, <2>1 DEF SavingInv, TypeOK
    <2>4. TypeOK'
      BY <1>2, <1>5, <2>1, <2>3 DEF SavingInv, TypeOK, Children
    <2>5. ChildrenKnown' /\ SaverAgrees'
      BY <1>2, <1>3, <1>4, <1>10, <2>1, <2>2 DEF SavingInv, ChildrenKnown,
         SaverAgrees, Kept
    <2>6. UnsavedAreCounted'
      BY <1>2, <2>1 DEF SavingInv, UnsavedAreCounted
    <2> QED BY <1>6, <1>8, <2>4, <2>5, <2>6 DEF SavingInv
  <1> QED BY <1>9, <1>10

(* serverCron() forks one child, if it forks any, and there was none.      *)
LEMMA CronStartsInv ==
    ASSUME SavingConstants, SavingInv, up, ~misreaped,
           NEW elapsed \in BOOLEAN, NEW grown \in BOOLEAN, cronStarts(elapsed, grown)
    PROVE  SavingInv'
  <1> DEFINE tried == cronTries(elapsed, grown)
             lost(i) == Cardinality({j \in 1..(i - 1) : tried[j]})
  <1> HIDE DEF tried
  <1>1. /\ Kept = {} /\ resizeAfterFork
        /\ UNCHANGED <<changes, dirty, dump, appendonly, waiting, up, misreaped, commands>>
    BY DEF cronStarts
  <1>2. PICK i \in 1..4 :
          /\ faults + lost(i) <= MaxFaults /\ faults' = faults + lost(i)
          /\ IF i < 4 THEN tried[i] ELSE lost(4) > 0
          /\ dirty_before_bgsave' = IF tried[2] /\ i > 1 THEN dirty ELSE dirty_before_bgsave
          /\ \/ i = 4 /\ UNCHANGED <<procs, bgsavechildpid, bgrewritechildpid,
                                     aofrewrite_scheduled>>
             \/ i < 4 /\ \E p \in Pids \ DOMAIN procs :
                  /\ procs' = WithChild(procs, p, IF i = 2 THEN "save" ELSE "rewrite")
                  /\ bgsavechildpid' = IF i = 2 THEN p ELSE NoPid
                  /\ bgrewritechildpid' = IF i = 2 THEN NoPid ELSE p
                  /\ aofrewrite_scheduled' = (i = 2 /\ aofrewrite_scheduled)
    BY DEF cronStarts, tried
  <1>3. lost(i) \in Nat
    <2>1. IsFiniteSet(1..(i - 1))
      BY FS_Interval
    <2>2. IsFiniteSet({j \in 1..(i - 1) : tried[j]})
      BY <2>1, FS_Subset
    <2> QED BY <2>2, FS_CardinalityType
  <1>4. faults' \in 0..MaxFaults /\ dirty_before_bgsave' \in Nat
    BY <1>2, <1>3 DEF SavingConstants, SavingInv, TypeOK
  <1>5. bgsavechildpid = NoPid /\ bgrewritechildpid = NoPid /\ DOMAIN procs = {}
    BY <1>1 DEF SavingInv, ChildrenKnown, Kept
  <1>6. ({aofrewrite_scheduled, appendonly, dict_can_resize, waiting, up, misreaped}
           \subseteq BOOLEAN)'
    BY <1>1, <1>2 DEF SavingInv, TypeOK, resizeAfterFork
  <1>7. (dump <= changes)' /\ NoSaverIsLeft' /\ UnsavedAreCounted' /\ ResizeOffWithChildren'
    BY <1>1 DEF SavingInv, NoSaverIsLeft, UnsavedAreCounted, ResizeOffWithChildren,
                resizeAfterFork
  <1>8. CASE i = 4
    <2>1. TypeOK'
      BY <1>1, <1>2, <1>4, <1>6, <1>8 DEF SavingInv, TypeOK
    <2>2. ChildrenKnown' /\ SaverAgrees'
      BY <1>1, <1>2, <1>5, <1>8 DEF SavingInv, ChildrenKnown, SaverAgrees, Kept
    <2> QED BY <1>7, <2>1, <2>2 DEF SavingInv
  <1>9. CASE i < 4
    <2>1. PICK p \in Pids \ DOMAIN procs :
             /\ procs' = WithChild(procs, p, IF i = 2 THEN "save" ELSE "rewrite")
             /\ bgsavechildpid' = IF i = 2 THEN p ELSE NoPid
             /\ bgrewritechildpid' = IF i = 2 THEN NoPid ELSE p
      BY <1>2, <1>9
    <2>2. Forked(procs, p, IF i = 2 THEN "save" ELSE "rewrite") /\ Children(procs')
      BY <2>1, WithChildForks, ChildrenType DEF SavingInv, TypeOK
    <2>3. i = 2 => dirty_before_bgsave' = dirty
      BY <1>2
    <2>4. TypeOK'
      BY <1>1, <1>4, <1>6, <2>1, <2>2 DEF SavingInv, TypeOK, Children
    <2>5. DOMAIN procs' = {p} /\ procs'[p].job = (IF i = 2 THEN "save" ELSE "rewrite")
          /\ procs'[p].data = changes /\ procs'[p].state = "runs"
      BY <1>5, <2>2 DEF Forked
    <2>6. ChildrenKnown'
      BY <1>1, <2>1, <2>5 DEF SavingConstants, ChildrenKnown, Kept
    <2>7. SaverAgrees'
      BY <1>1, <2>1, <2>3, <2>5 DEF SavingInv, TypeOK, SaverAgrees
    <2> QED BY <1>7, <2>4, <2>6, <2>7 DEF SavingInv
  <1> QED BY <1>2, <1>8, <1>9

(* A server that starts again has what its dump has.                       *)
LEMMA RestartInv == ASSUME SavingConstants, SavingInv, Restart PROVE SavingInv'
  <1> USE DEF Restart
  <1>1. DOMAIN procs' = {} /\ Kept' = {}
    BY DEF Kept
  <1>2. ({aofrewrite_scheduled, appendonly, dict_can_resize, waiting, up, misreaped}
           \subseteq BOOLEAN)'
    BY DEF SavingInv, TypeOK
  <1>3. TypeOK'
    BY <1>1, <1>2 DEF SavingInv, TypeOK
  <1>4. ChildrenKnown' /\ SaverAgrees' /\ NoSaverIsLeft'
    BY <1>1 DEF SavingInv, ChildrenKnown, SaverAgrees, NoSaverIsLeft
  <1>5. (dump <= changes)' /\ UnsavedAreCounted' /\ ResizeOffWithChildren'
    BY <1>1 DEF SavingInv, TypeOK, UnsavedAreCounted, ResizeOffWithChildren
  <1> QED BY <1>3, <1>4, <1>5 DEF SavingInv

-----------------------------------------------------------------------------
(* The invariant is inductive: one case per disjunct of SavingNext.        *)
LEMMA SavingNextInv ==
    ASSUME SavingConstants, SavingInv, [SavingNext]_savingVars PROVE SavingInv'
  <1>1. CASE UNCHANGED savingVars
    BY <1>1 DEF savingVars, SavingInv, TypeOK, ChildrenKnown, SaverAgrees,
       NoSaverIsLeft,
                UnsavedAreCounted, ResizeOffWithChildren, Kept, Dead
  <1>2. CASE syncCommand \/ bgrewriteaofCommand \/ startAppendOnly
    BY <1>2, SyncStartsInv, SyncWaitsInv, RewriteStartsInv, RewriteWaitsInv, StartInv,
       StartNotInv
  <1>3. CASE \E elapsed, grown \in BOOLEAN : serverCron(elapsed, grown)
    BY <1>3, ReapInv, CronStartsInv DEF serverCron
  <1> QED
    BY <1>1, <1>2, <1>3, WriteInv, SaveInv, BgsaveInv, FlushInv, ShutInv, StopInv,
       ChildInv, RestartInv DEF SavingNext, Stopped

(* In every reachable state, whatever the order of writes, SAVE, BGSAVE,   *)
(* SYNC, FLUSHALL, SHUTDOWN, rewrites, failed forks, failed saves and      *)
(* killed children: server.dirty counts at least what dump.rdb lacks, a    *)
(* server that has exited has saved everything, bgsavechildpid and         *)
(* bgrewritechildpid are the children not yet waited for, and hash tables  *)
(* are resized only while there is none.                                   *)
THEOREM SavingIsSound ==
    ASSUME SavingConstants PROVE SavingSpec => []SavingSound
  <1>1. SavingInit => SavingInv
    BY InitInv
  <1>2. SavingInv /\ [SavingNext]_savingVars => SavingInv'
    BY SavingNextInv
  <1>3. SavingInv => SavingSound
    BY DEF SavingInv, SavingSound, NoSaverIsLeft, CleanExitIsSaved, ChildrenKnown,
           ChildrenAreKept
  <1> QED BY <1>1, <1>2, <1>3, PTL DEF SavingSpec

(* No step replaces dump.rdb by an older data set: not the rename() of a   *)
(* child that FLUSHALL or SHUTDOWN has overtaken, and not SAVE.            *)
LEMMA DumpStep ==
    ASSUME SavingConstants, SavingInv, [SavingNext]_savingVars
    PROVE  dump' >= dump
  <1> USE DEF SavingInv, TypeOK
  <1>1. ASSUME saveCommand \/ flushallCommand \/ prepareForShutdown
        PROVE  dump' >= dump
    BY <1>1 DEF saveCommand, flushallCommand, prepareForShutdown, rdbSave
  <1>2. ASSUME NEW p \in Pids, ChildSteps(p) PROVE dump' >= dump
    <2>1. CASE procs[p].job = "save" /\ procs[p].state = "runs"
      <3>1. p \in DOMAIN procs \ Dead
        BY <1>2 DEF ChildSteps
      <3>2. up /\ ~misreaped
        BY <2>1, <3>1 DEF ChildrenKnown, NoSaverIsLeft
      <3>3. p = bgsavechildpid /\ p # NoPid
        BY <2>1, <3>1, <3>2 DEF ChildrenKnown, Kept
      <3>4. dump <= procs[p].data
        BY <2>1, <3>2, <3>3 DEF SaverAgrees
      <3> QED BY <1>2, <2>1, <3>1, <3>4 DEF ChildSteps
    <2>2. CASE ~(procs[p].job = "save" /\ procs[p].state = "runs")
      BY <1>2, <2>2 DEF ChildSteps
    <2> QED BY <2>1, <2>2
  <1>3. ASSUME \E elapsed, grown \in BOOLEAN : serverCron(elapsed, grown)
        PROVE  dump' = dump
    BY <1>3 DEF serverCron, cronReaps, cronStarts
  <1> QED
    BY <1>1, <1>2, <1>3 DEF SavingNext, Write, bgsaveCommand, syncCommand,
       bgrewriteaofCommand, stopAppendOnly, startAppendOnly, Restart, Stopped, savingVars

(* dump.rdb is never replaced by an older data set, in no behaviour.       *)
THEOREM DumpOnlyAdvances ==
    ASSUME SavingConstants PROVE SavingSpec => DumpNeverGoesBack
  <1>1. SavingInit => SavingInv
    BY InitInv
  <1>2. SavingInv /\ [SavingNext]_savingVars => SavingInv'
    BY SavingNextInv
  <1>3. SavingInv /\ [SavingNext]_savingVars => [dump' >= dump]_savingVars
    BY DumpStep
  <1> QED BY <1>1, <1>2, <1>3, PTL DEF SavingSpec, DumpNeverGoesBack
=============================================================================
