------------------------------- MODULE Saving -------------------------------
(***************************************************************************)
(* The dump file and the children of the server: SAVE, BGSAVE, the saves   *)
(* of SYNC, FLUSHALL, SHUTDOWN and serverCron(), the rewriting child, and  *)
(* wait3(), which gives back whichever child has died.  A data set is the  *)
(* number of changes that led to it; what the rewriting child does with    *)
(* the append only file is the subject of AppendOnly, and what slaves get  *)
(* of the dump that of ReplMaster.                                         *)
(***************************************************************************)
EXTENDS Integers, FiniteSets

CONSTANTS
    Pids,          \* process identifiers the system gives to children
    NoPid,         \* -1
    MaxChanges,    \* bound: changes to the data set
    MaxCommands,   \* bound: commands about saving and rewriting
    MaxFaults      \* bound: failed forks and saves, children killed from outside

VARIABLES
    changes,             \* changes made to the data set so far
    dirty,               \* server.dirty
    dirty_before_bgsave,
    dump,                \* changes contained in dump.rdb
    procs,               \* the children not yet waited for
    bgsavechildpid,
    bgrewritechildpid,
    aofrewrite_scheduled,
    appendonly,
    dict_can_resize,
    waiting,             \* a slave waits for the start of a save
    up,                  \* the server runs
    misreaped,           \* stopAppendOnly() waited for another child
    commands, faults     \* counters of the bounds

savingVars == <<changes, dirty, dirty_before_bgsave, dump, procs, bgsavechildpid,
                bgrewritechildpid, aofrewrite_scheduled, appendonly,
                dict_can_resize, waiting, up, misreaped, commands, faults>>

(* No child has the identifier -1.                                         *)
SavingConstants ==
    /\ NoPid \notin Pids
    /\ MaxChanges \in Nat /\ MaxCommands \in Nat /\ MaxFaults \in Nat

Dead == {p \in DOMAIN procs : procs[p].state \in {"ok", "error", "killed"}}
Kept == {bgsavechildpid, bgrewritechildpid} \ {NoPid}

TypeOK ==
    /\ changes \in 0..MaxChanges /\ dump \in 0..MaxChanges
    /\ dirty \in Nat /\ dirty_before_bgsave \in Nat
    /\ DOMAIN procs \subseteq Pids
    /\ \A p \in DOMAIN procs :
          procs[p] \in [job : {"save", "rewrite"}, data : 0..MaxChanges,
                        state : {"runs", "renamed", "ok", "error", "killed"}]
    /\ {bgsavechildpid, bgrewritechildpid} \subseteq Pids \cup {NoPid}
    /\ {aofrewrite_scheduled, appendonly, dict_can_resize, waiting, up, misreaped}
          \subseteq BOOLEAN
    /\ commands \in 0..MaxCommands /\ faults \in 0..MaxFaults

-----------------------------------------------------------------------------
(* A fault, of those the bound leaves.                                     *)
Fault == faults < MaxFaults /\ faults' = faults + 1

(* A command of a client.                                                  *)
Command == up /\ ~misreaped /\ commands < MaxCommands /\ commands' = commands + 1

Without(p) == [q \in DOMAIN procs \ {p} |-> procs[q]]

(* fork(), and the system gives the child a free identifier.               *)
WithChild(ps, p, job) ==
    [q \in DOMAIN ps \cup {p} |->
        IF q = p THEN [job |-> job, data |-> changes, state |-> "runs"] ELSE ps[q]]

(* kill(pid,SIGKILL): a child that has exited stays what it is.            *)
Killed(p) ==
    [q \in DOMAIN procs |->
        IF q = p /\ q \notin Dead THEN [procs[q] EXCEPT !.state = "killed"]
        ELSE procs[q]]

(* rdbSave() in the server itself: all changes so far are in the dump, or  *)
(* it fails and the dump stays.  now is the data set it writes.            *)
rdbSave(now) ==
    \/ dump' = now /\ UNCHANGED faults
    \/ dump' = dump /\ Fault

(* rdbSaveBackground() among the children ps, bgsavechildpid being -1.     *)
rdbSaveBackground(ps) ==
  /\ dirty_before_bgsave' = dirty'
  /\ \/ \E p \in Pids \ DOMAIN ps :
           /\ procs' = WithChild(ps, p, "save")
           /\ bgsavechildpid' = p
           /\ UNCHANGED faults
     \/ procs' = ps /\ bgsavechildpid' = NoPid /\ Fault

(* rewriteAppendOnlyFileBackground(), bgrewritechildpid being -1.          *)
rewriteAppendOnlyFileBackground ==
    \/ \E p \in Pids \ DOMAIN procs :
          /\ procs' = WithChild(procs, p, "rewrite")
          /\ bgrewritechildpid' = p
          /\ aofrewrite_scheduled' = FALSE
          /\ UNCHANGED faults
    \/ Fault /\ UNCHANGED <<procs, bgrewritechildpid, aofrewrite_scheduled>>

(* updateDictResizePolicy() follows a fork that worked.                    *)
resizeAfterFork == dict_can_resize' = (dict_can_resize /\ Kept' = Kept)

-----------------------------------------------------------------------------
(* A write command.                                                        *)
Write ==
    /\ up /\ ~misreaped /\ changes < MaxChanges
    /\ changes' = changes + 1
    /\ dirty' = dirty + 1
    /\ UNCHANGED <<dirty_before_bgsave, dump, procs, bgsavechildpid,
                   bgrewritechildpid, aofrewrite_scheduled, appendonly,
                   dict_can_resize, waiting, up, misreaped, commands, faults>>

(* saveCommand().                                                          *)
saveCommand ==
    /\ Command
    /\ bgsavechildpid = NoPid
    /\ rdbSave(changes)
    /\ dirty' = IF faults' = faults THEN 0 ELSE dirty
    /\ UNCHANGED <<changes, dirty_before_bgsave, procs, bgsavechildpid,
                   bgrewritechildpid, aofrewrite_scheduled, appendonly,
                   dict_can_resize, waiting, up, misreaped>>

(* bgsaveCommand(): refused while a child runs.                            *)
bgsaveCommand ==
    /\ Command
    /\ bgsavechildpid = NoPid /\ bgrewritechildpid = NoPid
    /\ UNCHANGED <<changes, dirty, dump, bgrewritechildpid, aofrewrite_scheduled,
                   appendonly, waiting, up, misreaped>>
    /\ rdbSaveBackground(procs)
    /\ resizeAfterFork

(* syncCommand(): starts a save, a rewrite running or not; or waits for    *)
(* the next, where the one running serves no slave.                        *)
syncCommand ==
    /\ Command
    /\ UNCHANGED <<changes, dirty, dump, bgrewritechildpid, aofrewrite_scheduled,
                   appendonly, up, misreaped>>
    /\ \/ /\ bgsavechildpid = NoPid
          /\ rdbSaveBackground(procs) /\ resizeAfterFork
          /\ UNCHANGED waiting
       \/ /\ bgsavechildpid # NoPid
          /\ waiting' = TRUE
          /\ UNCHANGED <<procs, bgsavechildpid, dirty_before_bgsave,
                         dict_can_resize, faults>>

(* bgrewriteaofCommand(): scheduled while a save runs.                     *)
bgrewriteaofCommand ==
    /\ Command
    /\ bgrewritechildpid = NoPid
    /\ UNCHANGED <<changes, dirty, dirty_before_bgsave, dump, bgsavechildpid,
                   appendonly, waiting, up, misreaped>>
    /\ \/ /\ bgsavechildpid = NoPid
          /\ rewriteAppendOnlyFileBackground /\ resizeAfterFork
       \/ /\ bgsavechildpid # NoPid
          /\ aofrewrite_scheduled' = TRUE
          /\ UNCHANGED <<procs, bgrewritechildpid, dict_can_resize, faults>>

(* Mutant of flushallCommand: the saving child is left alone.              *)
flushallNoKill ==
    /\ Command /\ changes < MaxChanges
    /\ changes' = changes + 1
    /\ rdbSave(changes + 1)
    /\ dirty' = dirty + 1
    /\ UNCHANGED <<dirty_before_bgsave, procs, bgsavechildpid, bgrewritechildpid,
                   aofrewrite_scheduled, appendonly, dict_can_resize, waiting, up,
                   misreaped>>

(* flushallCommand(), with save points configured: one change, the saving  *)
(* child is killed, and the empty data set is saved without touching dirty.*)
flushallCommand ==
    /\ Command /\ changes < MaxChanges
    /\ changes' = changes + 1
    /\ procs' = IF bgsavechildpid # NoPid THEN Killed(bgsavechildpid) ELSE procs
    /\ rdbSave(changes + 1)
    /\ dirty' = dirty + 1
    /\ UNCHANGED <<dirty_before_bgsave, bgsavechildpid, bgrewritechildpid,
                   aofrewrite_scheduled, appendonly, dict_can_resize, waiting, up,
                   misreaped>>

(* Mutant of prepareForShutdown: the saving child is left alone.           *)
shutdownNoKill ==
    /\ Command
    /\ rdbSave(changes)
    /\ up' = (faults' # faults)
    /\ dirty' = IF up' THEN dirty ELSE 0
    /\ UNCHANGED <<changes, procs, dirty_before_bgsave, bgsavechildpid,
                   bgrewritechildpid, aofrewrite_scheduled, appendonly,
                   dict_can_resize, waiting, misreaped>>

(* prepareForShutdown(): kills the children, saves and exits; a save that  *)
(* fails keeps the server running.                                         *)
prepareForShutdown ==
    /\ Command
    /\ rdbSave(changes)
    /\ up' = (faults' # faults)
    /\ dirty' = IF up' THEN dirty ELSE 0
    /\ procs' = [q \in DOMAIN procs |->
          IF q = bgsavechildpid \/ (appendonly /\ q = bgrewritechildpid)
          THEN Killed(q)[q] ELSE procs[q]]
    /\ UNCHANGED <<changes, dirty_before_bgsave, bgsavechildpid, bgrewritechildpid,
                   aofrewrite_scheduled, appendonly, dict_can_resize, waiting,
                   misreaped>>

(* Mutant of stopAppendOnly: the killed child is not waited for.           *)
stopNoWait ==
    /\ Command
    /\ appendonly
    /\ appendonly' = FALSE
    /\ procs' = IF bgrewritechildpid # NoPid THEN Killed(bgrewritechildpid) ELSE procs
    /\ bgrewritechildpid' = NoPid
    /\ UNCHANGED <<changes, dirty, dirty_before_bgsave, dump, bgsavechildpid,
                   aofrewrite_scheduled, dict_can_resize, waiting, up, misreaped,
                   faults>>

(* stopAppendOnly(): kills the rewriting child and waits for a child; one  *)
(* that was dead before may be the one that wait3() returns.               *)
stopAppendOnly ==
    /\ Command
    /\ appendonly
    /\ appendonly' = FALSE
    /\ IF bgrewritechildpid = NoPid THEN UNCHANGED <<procs, misreaped>>
       ELSE \E p \in Dead \cup {bgrewritechildpid} :
              /\ procs' = [q \in DOMAIN procs \ {p} |-> Killed(bgrewritechildpid)[q]]
              /\ misreaped' = (misreaped \/ p # bgrewritechildpid)
    /\ bgrewritechildpid' = NoPid
    /\ UNCHANGED <<changes, dirty, dirty_before_bgsave, dump, bgsavechildpid,
                   aofrewrite_scheduled, dict_can_resize, waiting, up, faults>>

(* startAppendOnly(): refused if no rewriting child can be started.        *)
startAppendOnly ==
    /\ Command
    /\ ~appendonly
    /\ UNCHANGED <<changes, dirty, dirty_before_bgsave, dump, bgsavechildpid, waiting,
                   up, misreaped>>
    /\ \/ /\ bgrewritechildpid = NoPid
          /\ rewriteAppendOnlyFileBackground /\ resizeAfterFork
          /\ appendonly' = (faults' = faults)
       \/ /\ bgrewritechildpid # NoPid
          /\ UNCHANGED <<procs, bgrewritechildpid, aofrewrite_scheduled, appendonly,
                         dict_can_resize, faults>>

-----------------------------------------------------------------------------
(* A child: a save renames its file to dump.rdb and exits; either may fail *)
(* or be killed from outside at any moment.                                *)
ChildSteps(p) ==
    /\ p \in DOMAIN procs \ Dead
    /\ \/ /\ procs[p].job = "save" /\ procs[p].state = "runs"
          /\ dump' = procs[p].data
          /\ procs' = [procs EXCEPT ![p].state = "renamed"]
          /\ UNCHANGED faults
       \/ /\ procs[p].job = "rewrite" \/ procs[p].state = "renamed"
          /\ procs' = [procs EXCEPT ![p].state = "ok"]
          /\ UNCHANGED <<dump, faults>>
       \/ /\ Fault
          /\ \E s \in {"error", "killed"} :
                /\ s = "error" => procs[p].state = "runs"
                /\ procs' = [procs EXCEPT ![p].state = s]
          /\ UNCHANGED dump
    /\ UNCHANGED <<changes, dirty, dirty_before_bgsave, bgsavechildpid,
                   bgrewritechildpid, aofrewrite_scheduled, appendonly,
                   dict_can_resize, waiting, up, misreaped, commands>>

(* Mutant of updateDictResizePolicy: only the saving child counts.         *)
resizeUnlessSaving == dict_can_resize' = (bgsavechildpid' = NoPid)

(* updateDictResizePolicy(), for the next values of the two identifiers.   *)
updateDictResizePolicy == dict_can_resize' = (Kept' = {})

(* updateSlavesWaitingBgsave(), with the child p waited for: slaves that   *)
(* wait for a save get one.                                                *)
updateSlavesWaitingBgsave(p) ==
    /\ waiting' = FALSE
    /\ IF waiting THEN rdbSaveBackground(Without(p))
       ELSE /\ procs' = Without(p) /\ bgsavechildpid' = NoPid
            /\ UNCHANGED <<dirty_before_bgsave, faults>>

(* Mutant of backgroundSaveDoneHandler: dirty is reset, as by rdbSave().   *)
doneResetsDirty(p) ==
    /\ dirty' = IF procs[p].state = "ok" THEN 0 ELSE dirty
    /\ updateSlavesWaitingBgsave(p)

(* Mutant of backgroundSaveDoneHandler: nothing is done for a dead child.  *)
doneUnlessKilled(p) ==
    /\ dirty' = IF procs[p].state = "ok" THEN dirty - dirty_before_bgsave ELSE dirty
    /\ IF procs[p].state # "killed" THEN updateSlavesWaitingBgsave(p)
       ELSE UNCHANGED <<procs, bgsavechildpid, dirty_before_bgsave, waiting, faults>>

(* Mutant of backgroundSaveDoneHandler: the save is counted as a change.   *)
doneOneMore(p) ==
    /\ dirty' = IF procs[p].state = "ok" THEN dirty - (dirty_before_bgsave + 1) ELSE dirty
    /\ updateSlavesWaitingBgsave(p)

(* backgroundSaveDoneHandler(): only a save that ended well counts, by the *)
(* changes there were at its fork.                                         *)
backgroundSaveDoneHandler(p) ==
    /\ dirty' = IF procs[p].state = "ok" THEN dirty - dirty_before_bgsave ELSE dirty
    /\ updateSlavesWaitingBgsave(p)

(* serverCron(), a child being known: wait3(WNOHANG) and the handler.      *)
cronReaps ==
    /\ Kept # {}
    /\ UNCHANGED <<changes, dump, aofrewrite_scheduled, appendonly, up, misreaped, commands>>
    /\ \E p \in Dead :
          \/ /\ p = bgsavechildpid
             /\ UNCHANGED bgrewritechildpid
             /\ backgroundSaveDoneHandler(p)
             /\ updateDictResizePolicy
          \/ /\ p # bgsavechildpid
             /\ bgrewritechildpid' = NoPid          \* backgroundRewriteDoneHandler()
             /\ procs' = Without(p)
             /\ UNCHANGED <<dirty, dirty_before_bgsave, waiting, faults, bgsavechildpid>>
             /\ updateDictResizePolicy

(* Mutant of cronTries: a scheduled rewrite is not looked at.              *)
cronTriesNotScheduled(elapsed, grown) == <<FALSE, elapsed /\ dirty > 0, grown>>

(* The forks serverCron() tries, no child being known: the scheduled       *)
(* rewrite, the save whose time has come, the rewrite of a file that has   *)
(* grown.  The first that works ends it.                                   *)
cronTries(elapsed, grown) == <<aofrewrite_scheduled, elapsed /\ dirty > 0, grown>>

(* serverCron(), no child being known.                                     *)
cronStarts(elapsed, grown) ==
    LET tried == cronTries(elapsed, grown)
        failed(i) == Cardinality({j \in 1..(i - 1) : tried[j]})
    IN  /\ Kept = {}
        /\ \E i \in 1..4 :
              /\ IF i < 4 THEN tried[i] ELSE failed(4) > 0
              /\ faults + failed(i) <= MaxFaults /\ faults' = faults + failed(i)
              /\ dirty_before_bgsave' = IF tried[2] /\ i > 1 THEN dirty
                                        ELSE dirty_before_bgsave
              /\ \/ i = 4 /\ UNCHANGED <<procs, bgsavechildpid, bgrewritechildpid,
                                         aofrewrite_scheduled>>
                 \/ i < 4 /\ \E p \in Pids \ DOMAIN procs :
                      /\ procs' = WithChild(procs, p, IF i = 2 THEN "save" ELSE "rewrite")
                      /\ bgsavechildpid' = IF i = 2 THEN p ELSE NoPid
                      /\ bgrewritechildpid' = IF i = 2 THEN NoPid ELSE p
                      /\ aofrewrite_scheduled' = (i = 2 /\ aofrewrite_scheduled)
        /\ resizeAfterFork
        /\ UNCHANGED <<changes, dirty, dump, appendonly, waiting, up, misreaped, commands>>

(* serverCron(): elapsed, the seconds of the save point have passed since  *)
(* the last save; grown, the append only file has.                         *)
serverCron(elapsed, grown) ==
    /\ up /\ ~misreaped
    /\ cronReaps \/ cronStarts(elapsed, grown)

(* The server is started again after SHUTDOWN, from its dump.              *)
Restart ==
    /\ ~up
    /\ changes' = dump /\ dirty' = 0 /\ dirty_before_bgsave' = 0
    /\ procs' = [p \in {} |-> 0]
    /\ bgsavechildpid' = NoPid /\ bgrewritechildpid' = NoPid
    /\ aofrewrite_scheduled' = FALSE /\ dict_can_resize' = TRUE
    /\ waiting' = FALSE /\ up' = TRUE
    /\ UNCHANGED <<dump, appendonly, misreaped, commands, faults>>

(* Where stopAppendOnly() has waited for the saving child the model stops: *)
(* wait3() returns -1 from then on, and its uninitialised status is given  *)
(* to backgroundRewriteDoneHandler() on every call of serverCron().        *)
Stopped == misreaped /\ UNCHANGED savingVars

SavingInit ==
    /\ changes = 0 /\ dirty = 0 /\ dirty_before_bgsave = 0 /\ dump = 0
    /\ procs = [p \in {} |-> 0]
    /\ bgsavechildpid = NoPid /\ bgrewritechildpid = NoPid
    /\ aofrewrite_scheduled = FALSE /\ appendonly \in BOOLEAN
    /\ dict_can_resize = TRUE /\ waiting = FALSE /\ up = TRUE
    /\ misreaped = FALSE /\ commands = 0 /\ faults = 0

SavingNext ==
    \/ Write \/ saveCommand \/ bgsaveCommand \/ syncCommand \/ bgrewriteaofCommand
    \/ flushallCommand \/ prepareForShutdown \/ stopAppendOnly \/ startAppendOnly
    \/ \E p \in Pids : ChildSteps(p)
    \/ \E elapsed, grown \in BOOLEAN : serverCron(elapsed, grown)
    \/ Restart \/ Stopped

(* serverCron() runs ten times a second: it waits for the children, which  *)
(* end, and the seconds of the save point have passed at one of the times  *)
(* it finds none, if it finds none again and again.                        *)
SavingSpec ==
    /\ SavingInit /\ [][SavingNext]_savingVars
    /\ WF_savingVars(up /\ ~misreaped /\ cronReaps)
    /\ SF_savingVars(up /\ ~misreaped /\ cronStarts(TRUE, FALSE))
    /\ \A p \in Pids : WF_savingVars(ChildSteps(p))

-----------------------------------------------------------------------------
(* server.dirty never says less than what dump.rdb lacks, however saves    *)
(* of the server, of its child and of FLUSHALL follow each other, fail or  *)
(* are killed: serverCron() decides by it whether to save.                 *)
UnsavedAreCounted == up => changes - dump <= dirty

(* dump.rdb is never replaced by an older data set: a child that saves is  *)
(* killed before the server saves by itself (FLUSHALL, SHUTDOWN), or the   *)
(* server refuses (SAVE).                                                  *)
DumpNeverGoesBack == [][dump' >= dump]_savingVars

(* After SHUTDOWN the dump holds everything, also when a child was saving: *)
(* none is left that could overwrite it, what prepareForShutdown() is      *)
(* careful about.                                                          *)
CleanExitIsSaved == ~up => dump = changes

(* The identifiers in bgsavechildpid and bgrewritechildpid are those of    *)
(* the children not yet waited for: no child is forgotten, and none that   *)
(* is gone is waited for, or BGSAVE and SYNC would be refused for ever.    *)
ChildrenAreKept == up /\ ~misreaped => Kept = DOMAIN procs

(* Hash tables are resized only while there is no child with which the     *)
(* pages are shared: updateDictResizePolicy() is called wherever one of    *)
(* the two identifiers is set.                                             *)
ResizeOffWithChildren == dict_can_resize => Kept = {}

(* A change is in the dump in the end, or the server stops: no sequence of *)
(* failed forks, failed or killed children, rewrites and refused commands  *)
(* keeps serverCron() from saving.                                         *)
ChangesGetSaved == up /\ dump # changes ~> dump = changes \/ ~up \/ misreaped

(* A BGREWRITEAOF that was answered "scheduled" is started in the end.     *)
ScheduledRewriteRuns ==
    up /\ aofrewrite_scheduled ~> ~aofrewrite_scheduled \/ ~up \/ misreaped

(* What the server remembers of its dump and of its children is true.      *)
SavingSound ==
    /\ TypeOK /\ UnsavedAreCounted /\ CleanExitIsSaved
    /\ ChildrenAreKept /\ ResizeOffWithChildren

(* serverCron() does in the end what is due: the save and the rewrite.     *)
DueWorkGetsDone == ChangesGetSaved /\ ScheduledRewriteRuns
=============================================================================
