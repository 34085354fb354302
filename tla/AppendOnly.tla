---------------------------- MODULE AppendOnly ----------------------------
(***************************************************************************)
(* The append only file of the Redis 2.4.7 server: aof.c, together with    *)
(* the parts of ae.c, redis.c, networking.c, bio.c and redis-check-aof.c   *)
(* it depends on.  One thread runs the event loop; a second thread runs    *)
(* background fsyncs; a forked child writes a compact copy of the dataset. *)
(*                                                                         *)
(* A write command is known by its rank in `executed', which holds the     *)
(* database each one ran in.  A log entry is one command of the file,      *)
(* with `sel' telling whether feedAppendOnlyFile() put a SELECT in front   *)
(* of it; a file is the dataset after `base' commands (what a rewrite      *)
(* leaves) followed by entries, perhaps with a torn entry at its end.      *)
(***************************************************************************)
EXTENDS Integers, Sequences, FiniteSets

CONSTANTS
  Clients,            \* connections
  Dbs,                \* numbers of the databases
  MaxCmds,            \* bound: write commands executed
  MaxJobs,            \* bound: background fsyncs waiting
  MaxSkew,            \* bound: seconds serverCron() lags behind the clock
  Fsync,              \* appendfsync: "always", "everysec" or "no"
  NoFsyncOnRewrite,   \* no-appendfsync-on-rewrite
  Pipelining,         \* clients may send a command before reading a reply
  ConfigSet           \* clients may send CONFIG SET appendonly

ASSUME FsyncAssumption == Fsync \in {"always", "everysec", "no"}
ASSUME FlagsAssumption == /\ NoFsyncOnRewrite \in BOOLEAN
                          /\ Pipelining \in BOOLEAN
                          /\ ConfigSet \in BOOLEAN
ASSUME DbsAssumption == Dbs \subseteq Nat
ASSUME BoundsAssumption == MaxCmds \in Nat /\ MaxJobs \in Nat \ {0} /\ MaxSkew \in 1 .. 2

VARIABLES
  phase,        \* where the event loop is, or "down"
  executed,     \* database of every write command so far, in order
  aof,          \* the file named appendfilename
  synced,       \* how many of its entries are known to be on the platter
  appendonly,   \* server.appendonly
  appendfd,     \* "closed" (-1), "open", or "stale": closed but not reset
  appendseldb,  \* server.appendseldb
  aofbuf,       \* entries not written yet
  child,        \* the rewriting child and the dataset it is saving
  bgrewritebuf, \* entries since the fork
  bgsave,       \* the RDB child: "none", "running" or "exited"
  scheduled,    \* server.aofrewrite_scheduled
  skew,         \* seconds time(NULL) is ahead of server.unixtime
  sinceFsync,   \* server.unixtime - server.lastfsync, at most 1
  postponed,    \* unixtime - aof_flush_postponed_start, or NotPostponed
  bio,          \* queued background fsyncs; live: of the file named now
  rev, wev,     \* clients whose readable/writable event is to be served
  pend,         \* per client, the commands whose reply is in its buffer
  acked         \* commands whose reply was sent

server  == <<appendonly, appendfd, appendseldb, aofbuf, child, bgrewritebuf,
             bgsave, scheduled>>
time    == <<skew, sinceFsync, postponed>>
disk    == <<aof, synced>>
network == <<rev, wev, pend, acked>>
vars    == <<phase, executed, disk, server, time, bio, network>>

NoDb         == -1
NotPostponed == -1
MaxWait      == 2    \* seconds a flush may be postponed; time saturates here
NoChild      == [state |-> "none", base |-> 0]
EmptyFile    == [base |-> 0, entries |-> <<>>, torn |-> FALSE]

Smaller(x, y) == IF x < y THEN x ELSE y

\* "cut" is "down" by a power loss right after the rename of a rewritten file.
Down == {"down", "exited", "cut"}
Up   == phase \notin Down

Entry == [cmd : Nat \ {0}, sel : BOOLEAN]
File  == [base : Nat, entries : Seq(Entry), torn : BOOLEAN]
Child == [state : {"none", "running", "ok", "failed"}, base : Nat]
Job   == [live : BOOLEAN, upto : Int]
Phases == {"before", "events", "sched", "reap", "renamed", "postponed", "expire",
           "down", "exited", "cut"}

TypeOK ==
  /\ phase \in Phases
  /\ executed \in Seq(Dbs)
  /\ aof \in File
  /\ synced \in 0 .. Len(aof.entries)
  /\ appendonly \in BOOLEAN
  /\ appendfd \in {"closed", "open", "stale"}
  /\ appendseldb \in Dbs \cup {NoDb}
  /\ aofbuf \in Seq(Entry)
  /\ child \in Child
  /\ bgrewritebuf \in Seq(Entry)
  /\ bgsave \in {"none", "running", "exited"}
  /\ scheduled \in BOOLEAN
  /\ skew \in 0 .. MaxWait
  /\ sinceFsync \in -MaxWait .. 1
  /\ postponed \in -1 .. MaxWait
  /\ bio \in Seq(Job)
  /\ rev \subseteq Clients /\ wev \subseteq Clients
  /\ pend \in [Clients -> Seq(Nat)]
  /\ acked \subseteq Nat

Init ==
  /\ phase = "before" /\ executed = <<>> /\ acked = {}
  /\ aof = EmptyFile /\ synced = 0
  /\ appendonly = TRUE /\ appendfd = "open" /\ appendseldb = NoDb
  /\ aofbuf = <<>> /\ child = NoChild /\ bgrewritebuf = <<>>
  /\ bgsave = "none" /\ scheduled = FALSE
  /\ skew = 0 /\ sinceFsync = 0 /\ postponed = NotPostponed
  /\ bio = <<>>
  /\ rev = {} /\ wev = {} /\ pend = [c \in Clients |-> <<>>]

\* The process is gone; initServerConfig() and initServer() will leave this,
\* with appendonly yes in redis.conf.
LoseMemory ==
  /\ appendonly' = TRUE /\ appendfd' = "open" /\ appendseldb' = NoDb
  /\ aofbuf' = <<>> /\ child' = NoChild /\ bgrewritebuf' = <<>>
  /\ bgsave' = "none" /\ scheduled' = FALSE
  /\ skew' = 0 /\ sinceFsync' = 0 /\ postponed' = NotPostponed
  /\ bio' = <<>>
  /\ rev' = {} /\ wev' = {} /\ pend' = [c \in Clients |-> <<>>]

-----------------------------------------------------------------------------
(* Writing the buffer: flushAppendOnlyFile().                              *)

SyncInProgress == Fsync = "everysec" /\ bio # <<>>

\* Mutant: the two seconds are not looked at.
PostponesForever(force) == ~force /\ SyncInProgress

\* The early returns before write(2): nothing to write, or a postponement.
Postpones(force) ==
  ~force /\ SyncInProgress /\ postponed < MaxWait

\* fsync is skipped while a child does I/O, when so configured.
FsyncSkipped == NoFsyncOnRewrite /\ (child # NoChild \/ bgsave # "none")

\* Mutant: the test on the seconds covers both policies.
FsyncDueOncePerSecond ==
  ~FsyncSkipped /\ Fsync \in {"always", "everysec"} /\ sinceFsync > 0

FsyncDue ==
  /\ ~FsyncSkipped
  /\ Fsync = "always" \/ (Fsync = "everysec" /\ sinceFsync > 0)

\* The fsync that follows a write: at once, or in the other thread.
FsyncAfterWrite ==
  /\ sinceFsync' = IF FsyncDue THEN 0 ELSE sinceFsync
  /\ bio' = IF FsyncDue /\ Fsync = "everysec" /\ bio = <<>>
            THEN <<[live |-> TRUE, upto |-> -1]>> ELSE bio

\* write(2) stores the whole buffer.
WriteBuffer ==
  /\ appendfd = "open"
  /\ aof' = [aof EXCEPT !.entries = @ \o aofbuf]
  /\ aofbuf' = <<>>
  /\ postponed' = NotPostponed

flushAppendOnlyFile(force) ==
  \/ /\ aofbuf = <<>>
     /\ UNCHANGED <<aof, synced, aofbuf, postponed, sinceFsync, bio>>
  \/ /\ aofbuf # <<>> /\ Postpones(force)
     /\ postponed' = IF postponed = NotPostponed THEN 0 ELSE postponed
     /\ UNCHANGED <<aof, synced, aofbuf, sinceFsync, bio>>
  \/ /\ aofbuf # <<>> /\ ~Postpones(force)
     /\ WriteBuffer /\ FsyncAfterWrite
     /\ synced' = IF FsyncDue /\ Fsync = "always"
                  THEN Len(aof.entries) + Len(aofbuf) ELSE synced

-----------------------------------------------------------------------------
(* Executing a write command: call() and feedAppendOnlyFile().             *)

FedEntry(d) == [cmd |-> Len(executed) + 1, sel |-> d # appendseldb]

\* call() logs a command only when the AOF is on; feedAppendOnlyFile() also
\* copies what it logs to the rewrite buffer while a child is at work.
call(d) ==
  /\ Len(executed) < MaxCmds
  /\ executed' = Append(executed, d)
  /\ IF appendonly
     THEN /\ appendseldb' = d
          /\ aofbuf' = Append(aofbuf, FedEntry(d))
          /\ bgrewritebuf' = IF child = NoChild THEN bgrewritebuf
                             ELSE Append(bgrewritebuf, FedEntry(d))
     ELSE UNCHANGED <<appendseldb, aofbuf, bgrewritebuf>>

-----------------------------------------------------------------------------
(* The event loop: aeMain(), aeProcessEvents().                            *)

\* Mutant: the buffer is only written by serverCron().
BeforeSleepNoFlush ==
  /\ phase = "before"
  /\ rev' \in SUBSET {c \in Clients : Pipelining \/ pend[c] = <<>>}
  /\ wev' \in SUBSET {c \in Clients : pend[c] # <<>>}
  /\ phase' = "events"
  /\ UNCHANGED <<executed, disk, server, time, bio, pend, acked>>

\* beforeSleep(), then aeApiPoll(): which clients are ready.  A client that
\* does not pipeline has nothing to send while it waits for a reply.
BeforeSleep ==
  /\ phase = "before"
  /\ flushAppendOnlyFile(FALSE)
  /\ rev' \in SUBSET {c \in Clients : Pipelining \/ pend[c] = <<>>}
  /\ wev' \in SUBSET {c \in Clients : pend[c] # <<>>}
  /\ phase' = "events"
  /\ UNCHANGED <<executed, appendonly, appendfd, appendseldb, child,
                 bgrewritebuf, bgsave, scheduled, skew, pend, acked>>

\* write(2) fails or stores less than asked: the server exits.
WriteFails ==
  /\ \/ phase = "before" /\ ~Postpones(FALSE)
     \/ phase = "postponed" /\ postponed # NotPostponed /\ ~Postpones(FALSE)
     \/ phase = "events" /\ ConfigSet /\ rev # {} /\ appendonly
  /\ aofbuf # <<>>
  /\ \/ /\ appendfd = "open"
        /\ \E k \in 0 .. Len(aofbuf) - 1, t \in BOOLEAN :
             aof' = [aof EXCEPT !.entries = @ \o SubSeq(aofbuf, 1, k),
                                !.torn = t]
     \/ appendfd # "open" /\ aof' = aof
  /\ phase' = "down" /\ LoseMemory
  /\ UNCHANGED <<executed, synced, acked>>

\* readQueryFromClient(), processInputBuffer(): a write command.
ReadCommand(c, d) ==
  /\ phase = "events" /\ c \in rev
  /\ call(d)
  /\ pend' = [pend EXCEPT ![c] = Append(@, Len(executed) + 1)]
  /\ rev' = rev \ {c}
  /\ UNCHANGED <<phase, disk, appendonly, appendfd, child, bgsave, scheduled,
                 time, bio, wev, acked>>

\* The readable event brings nothing that changes the log.
ReadNothing(c) ==
  /\ phase = "events" /\ c \in rev
  /\ rev' = rev \ {c}
  /\ UNCHANGED <<phase, executed, disk, server, time, bio, wev, pend, acked>>

\* sendReplyToClient(): some of the replies, in order; the writable event of
\* a descriptor is served after its readable one.
SendReply(c) ==
  /\ phase = "events" /\ c \in wev \ rev
  /\ \E k \in 1 .. Len(pend[c]) :
       /\ acked' = acked \cup {pend[c][i] : i \in 1 .. k}
       /\ pend' = [pend EXCEPT ![c] = SubSeq(@, k + 1, Len(@))]
  /\ wev' = wev \ {c}
  /\ UNCHANGED <<phase, executed, disk, server, time, bio, rev>>

EventsServed == phase = "events" /\ rev = {} /\ wev = {}

\* processTimeEvents() finds the timer not due.
NoTimeEvent ==
  /\ EventsServed /\ phase' = "before"
  /\ UNCHANGED <<executed, disk, server, time, bio, network>>

-----------------------------------------------------------------------------
(* The background rewrite.                                                 *)

\* Mutant: appendseldb is left alone.
ForkRewriteKeepDb ==
  /\ child = NoChild
  /\ child' = [state |-> "running", base |-> Len(executed)]
  /\ scheduled' = FALSE
  /\ UNCHANGED appendseldb

\* rewriteAppendOnlyFileBackground() when fork(2) works; when it does not,
\* nothing changes.
ForkRewrite ==
  /\ child = NoChild
  /\ child' = [state |-> "running", base |-> Len(executed)]
  /\ scheduled' = FALSE
  /\ appendseldb' = NoDb

bgrewriteaofCommand(c) ==
  /\ phase = "events" /\ c \in rev
  /\ \/ child = NoChild /\ bgsave = "none" /\ ForkRewrite
     \/ /\ child = NoChild /\ bgsave # "none"
        /\ scheduled' = TRUE /\ UNCHANGED <<child, appendseldb>>
  /\ rev' = rev \ {c}
  /\ UNCHANGED <<phase, executed, disk, appendonly, appendfd, aofbuf,
                 bgrewritebuf, bgsave, time, bio, wev, pend, acked>>

\* bgsaveCommand() refuses to run beside a rewrite; syncCommand() does not.
StartBgsave(c) ==
  /\ phase = "events" /\ c \in rev
  /\ bgsave = "none" /\ bgsave' = "running"
  /\ rev' = rev \ {c}
  /\ UNCHANGED <<phase, executed, disk, appendonly, appendfd, appendseldb,
                 aofbuf, child, bgrewritebuf, scheduled, time, bio, wev, pend,
                 acked>>

\* The child: rewriteAppendOnlyFile() writes, fsyncs and renames its own
\* temporary file, then exits; or fails; or is killed.
ChildExit ==
  /\ Up /\ child.state = "running"
  /\ \E s \in {"ok", "failed"} : child' = [child EXCEPT !.state = s]
  /\ UNCHANGED <<phase, executed, disk, appendonly, appendfd, appendseldb,
                 aofbuf, bgrewritebuf, bgsave, scheduled, time, bio, network>>

BgsaveExit ==
  /\ Up /\ bgsave = "running" /\ bgsave' = "exited"
  /\ UNCHANGED <<phase, executed, disk, appendonly, appendfd, appendseldb,
                 aofbuf, child, bgrewritebuf, scheduled, time, bio, network>>

Dead(jobs) == [i \in DOMAIN jobs |-> [jobs[i] EXCEPT !.live = FALSE]]

\* backgroundRewriteDoneHandler() up to rename(2), every system call of it
\* succeeding: the differences are written to the temporary file, which takes
\* the name.  Its first part was fsynced by the child, the differences are not
\* synced yet; an fsync under way is of the file that had the name.
RenameRewritten ==
  /\ child.state = "ok" /\ Len(bio) < MaxJobs
  /\ aof' = [base |-> child.base, entries |-> bgrewritebuf, torn |-> FALSE]
  /\ synced' = 0 /\ bio' = Dead(bio)

\* Mutants: aofbuf is not cleared; the new file is not fsynced.
SwitchKeepBuf ==
  /\ appendfd' = "open" /\ appendseldb' = NoDb /\ aofbuf' = aofbuf
  /\ synced' = Len(aof.entries) /\ bio' = bio
SwitchNoFsync ==
  /\ appendfd' = "open" /\ appendseldb' = NoDb /\ aofbuf' = <<>>
  /\ synced' = synced /\ bio' = bio

\* The rest of it, after rename(2): the descriptor is replaced, the new file
\* synced as the policy says, and only then the buffer dropped.  A descriptor
\* that is not -1 counts as "AOF enabled".
SwitchToRewritten ==
  IF appendfd = "closed"
  THEN UNCHANGED <<synced, bio, appendfd, appendseldb, aofbuf>>
  ELSE /\ appendfd' = "open" /\ appendseldb' = NoDb /\ aofbuf' = <<>>
       /\ synced' = IF Fsync = "always" THEN Len(aof.entries) ELSE synced
       /\ bio' = IF Fsync = "everysec"
                 THEN Append(bio, [live |-> TRUE, upto |-> -1]) ELSE bio

\* Mutant: the buffer is cleared on the way out, whatever happened.
KeepOldFileClearBuf ==
  aofbuf' = <<>> /\ UNCHANGED <<aof, synced, appendfd, appendseldb, bio>>

\* The child failed, or open(2), write(2) or rename(2) did.
KeepOldFile == UNCHANGED <<aof, synced, appendfd, appendseldb, aofbuf, bio>>

\* The cleanup at the end of backgroundRewriteDoneHandler(): it always runs.
rewriteCleanup == bgrewritebuf' = <<>> /\ child' = NoChild

-----------------------------------------------------------------------------
(* serverCron(), in the order of its parts.                                *)

AdvanceUnixtime ==
  /\ skew' = 0
  /\ sinceFsync' = Smaller(1, sinceFsync + skew)
  /\ postponed' = IF postponed = NotPostponed THEN postponed
                  ELSE Smaller(MaxWait, postponed + skew)

CronTime ==
  /\ EventsServed /\ phase' = "sched"
  /\ AdvanceUnixtime
  /\ UNCHANGED <<executed, disk, server, bio, network>>

\* A rewrite requested while the RDB child was at work.
CronScheduled ==
  /\ phase = "sched" /\ phase' = "reap"
  /\ \/ bgsave = "none" /\ scheduled /\ ForkRewrite
     \/ UNCHANGED <<child, scheduled, appendseldb>>
        /\ (bgsave # "none" \/ child # NoChild \/ ~scheduled)
     \/ /\ bgsave = "none" /\ child = NoChild /\ scheduled   \* fork failed
        /\ UNCHANGED <<child, scheduled, appendseldb>>
  /\ UNCHANGED <<executed, disk, appendonly, appendfd, aofbuf, bgrewritebuf,
                 bgsave, time, bio, network>>

NoneExited == bgsave # "exited" /\ child.state \notin {"ok", "failed"}

\* wait3(): at most one child is reaped.
CronReap ==
  /\ phase = "reap" /\ phase' = "postponed"
  /\ bgsave # "none" \/ child # NoChild
  /\ \/ /\ NoneExited
        /\ UNCHANGED <<disk, server, bio>>
     \/ /\ bgsave = "exited"
        /\ bgsave' \in {"none", "running"}   \* a slave may want another dump
        /\ UNCHANGED <<disk, appendonly, appendfd, appendseldb, aofbuf, child,
                       bgrewritebuf, scheduled, bio>>
     \/ /\ child.state \in {"ok", "failed"}
        /\ KeepOldFile /\ rewriteCleanup
        /\ UNCHANGED <<appendonly, bgsave, scheduled>>
  /\ UNCHANGED <<executed, time, network>>

\* The rewritten file takes over in two steps: the machine may lose its power
\* after the rename and before the fsync that follows it.
CronRename ==
  /\ phase = "reap" /\ phase' = "renamed"
  /\ RenameRewritten
  /\ UNCHANGED <<executed, server, time, network>>

CronSwitch ==
  /\ phase = "renamed" /\ phase' = "postponed"
  /\ SwitchToRewritten /\ rewriteCleanup
  /\ UNCHANGED <<executed, aof, appendonly, bgsave, scheduled, time, network>>

\* No child at all: the save points and the growth of the AOF are looked at.
CronTriggers ==
  /\ phase = "reap" /\ phase' = "postponed"
  /\ bgsave = "none" /\ child = NoChild
  /\ \/ UNCHANGED <<bgsave, child, scheduled, appendseldb>>
     \/ bgsave' = "running" /\ UNCHANGED <<child, scheduled, appendseldb>>
     \/ ForkRewrite /\ UNCHANGED bgsave
  /\ UNCHANGED <<executed, disk, appendonly, appendfd, aofbuf, bgrewritebuf,
                 time, bio, network>>

CronFlush ==
  /\ phase = "postponed" /\ phase' = "expire"
  /\ IF postponed # NotPostponed THEN flushAppendOnlyFile(FALSE)
     ELSE UNCHANGED <<aof, synced, aofbuf, postponed, sinceFsync, bio>>
  /\ UNCHANGED <<executed, appendonly, appendfd, appendseldb, child,
                 bgrewritebuf, bgsave, scheduled, skew, network>>

\* activeExpireCycle() logs a DEL for every key it expires.
CronExpire(d) ==
  /\ phase = "expire"
  /\ call(d)
  /\ UNCHANGED <<phase, disk, appendonly, appendfd, child, bgsave, scheduled,
                 time, bio, network>>

CronEnd ==
  /\ phase = "expire" /\ phase' = "before"
  /\ UNCHANGED <<executed, disk, server, time, bio, network>>

-----------------------------------------------------------------------------
(* The clock and the fsync thread (bioProcessBackgroundJobs()).            *)

Tick ==
  /\ Up /\ skew < MaxSkew /\ skew' = skew + 1
  /\ UNCHANGED <<phase, executed, disk, server, sinceFsync, postponed, bio,
                 network>>

\* fsync(2) covers what was written when it started.
BioStart ==
  /\ Up /\ bio # <<>> /\ bio[1].upto = -1
  /\ bio' = [bio EXCEPT ![1].upto =
               IF bio[1].live THEN Len(aof.entries) ELSE 0]
  /\ UNCHANGED <<phase, executed, disk, server, time, network>>

BioEnd ==
  /\ Up /\ bio # <<>> /\ bio[1].upto >= 0
  /\ synced' = IF bio[1].live /\ bio[1].upto > synced
               THEN bio[1].upto ELSE synced
  /\ bio' = Tail(bio)
  /\ UNCHANGED <<phase, executed, aof, server, time, network>>

-----------------------------------------------------------------------------
(* Shutdown, crash and restart.  What was in memory is forgotten as soon   *)
(* as the server is down.                                                  *)

\* prepareForShutdown() up to exit(0).  The AOF is fsynced, its buffer is
\* not written; the children are killed.
exitCleanly ==
  /\ phase' = "exited" /\ LoseMemory
  /\ synced' = IF appendonly /\ appendfd = "open" THEN Len(aof.entries)
               ELSE synced
  /\ UNCHANGED <<executed, aof>>

\* The final RDB cannot be saved: the server goes on without its children.
cannotExit ==
  /\ bgsave' = IF bgsave = "running" THEN "exited" ELSE bgsave
  /\ child' = IF appendonly /\ child.state = "running"
              THEN [child EXCEPT !.state = "failed"] ELSE child
  /\ synced' = IF appendonly /\ appendfd = "open" THEN Len(aof.entries)
               ELSE synced
  /\ UNCHANGED <<executed, aof, appendonly, appendfd, appendseldb, aofbuf,
                 bgrewritebuf, scheduled, bio>>

shutdownCommand(c) ==
  /\ phase = "events" /\ c \in rev
  /\ \/ exitCleanly
     \/ /\ cannotExit /\ phase' = phase
        /\ rev' = rev \ {c} /\ UNCHANGED <<time, wev, pend>>
  /\ UNCHANGED acked

\* SIGTERM was received: serverCron() shuts down before anything else.
CronSigterm ==
  /\ EventsServed
  /\ \/ exitCleanly
     \/ /\ cannotExit /\ phase' = "sched" /\ AdvanceUnixtime
        /\ UNCHANGED <<rev, wev, pend>>
  /\ UNCHANGED acked

\* The machine loses power: what is not synced may be gone, and what is left is
\* on the platter.
PowerLoss ==
  /\ Up /\ phase' = IF phase = "renamed" THEN "cut" ELSE "down"
  /\ \E k \in synced .. Len(aof.entries), t \in BOOLEAN :
       /\ t => k < Len(aof.entries)
       /\ aof' = [aof EXCEPT !.entries = SubSeq(@, 1, k), !.torn = t]
       /\ synced' = k
  /\ LoseMemory
  /\ UNCHANGED <<executed, acked>>

\* redis-check-aof --fix cuts the file after its last whole command.
CheckAofFix ==
  /\ phase \in Down /\ aof.torn
  /\ aof' = [aof EXCEPT !.torn = FALSE]
  /\ UNCHANGED <<phase, executed, synced, server, time, bio, network>>

\* What loadAppendOnlyFile() leaves in memory, and the file numbered by it.
Replayed ==
  SubSeq(executed, 1, aof.base)
    \o [i \in 1 .. Len(aof.entries) |-> executed[aof.entries[i].cmd]]
Renumbered ==
  [aof EXCEPT !.entries =
     [i \in 1 .. Len(@) |-> [cmd |-> aof.base + i, sel |-> @[i].sel]]]

\* main(): loadAppendOnlyFile() exits on a torn file.
Restart ==
  /\ phase \in Down /\ ~aof.torn
  /\ phase' = "before"
  /\ executed' = Replayed /\ aof' = Renumbered
  /\ acked' = acked \cap (1 .. Len(executed'))
  /\ UNCHANGED <<synced, server, time, bio, rev, wev, pend>>

-----------------------------------------------------------------------------
(* CONFIG SET appendonly.                                                  *)

\* Mutant: the differences of the killed child are kept.
stopAppendOnlyKeepDiff(c) ==
  /\ ConfigSet /\ phase = "events" /\ c \in rev /\ appendonly
  /\ \/ aofbuf = <<>> /\ UNCHANGED <<aof, aofbuf, postponed, sinceFsync, bio>>
     \/ aofbuf # <<>> /\ WriteBuffer /\ FsyncAfterWrite
  /\ synced' = IF appendfd = "open" THEN Len(aof'.entries) ELSE synced
  /\ appendfd' = "closed" /\ appendseldb' = NoDb /\ appendonly' = FALSE
  /\ child' = NoChild
  /\ rev' = rev \ {c}
  /\ UNCHANGED <<phase, executed, bgrewritebuf, bgsave, scheduled, skew, wev,
                 pend, acked>>

\* stopAppendOnly().  wait3() is taken to reap the child just killed: an RDB
\* child that exited before is not looked at here.
stopAppendOnly(c) ==
  /\ ConfigSet /\ phase = "events" /\ c \in rev /\ appendonly
  /\ child = NoChild \/ bgsave # "exited"
  /\ \/ aofbuf = <<>> /\ UNCHANGED <<aof, aofbuf, postponed, sinceFsync, bio>>
     \/ aofbuf # <<>> /\ WriteBuffer /\ FsyncAfterWrite
  /\ synced' = IF appendfd = "open" THEN Len(aof'.entries) ELSE synced
  /\ appendfd' = "closed" /\ appendseldb' = NoDb /\ appendonly' = FALSE
  /\ child' = NoChild
  /\ bgrewritebuf' = IF child = NoChild THEN bgrewritebuf ELSE <<>>
  /\ rev' = rev \ {c}
  /\ UNCHANGED <<phase, executed, bgsave, scheduled, skew, wev, pend, acked>>

\* startAppendOnly(): the old file is reopened for appending and a rewrite
\* forked; open(2) or the fork may fail.
startAppendOnly(c) ==
  /\ ConfigSet /\ phase = "events" /\ c \in rev /\ ~appendonly
  /\ sinceFsync' = -skew
  /\ \/ /\ appendonly' = TRUE /\ appendfd' = "open" /\ ForkRewrite
     \/ /\ appendonly' = TRUE /\ appendfd' = "closed"
        /\ UNCHANGED <<child, scheduled, appendseldb>>
     \/ /\ appendonly' = FALSE /\ appendfd' = "stale"
        /\ UNCHANGED <<child, scheduled, appendseldb>>
  /\ rev' = rev \ {c}
  /\ UNCHANGED <<phase, executed, disk, aofbuf, bgrewritebuf, bgsave, skew,
                 postponed, bio, wev, pend, acked>>

-----------------------------------------------------------------------------

EventHandlers(c) ==
  \/ \E d \in Dbs : ReadCommand(c, d)
  \/ ReadNothing(c)
  \/ SendReply(c)
  \/ bgrewriteaofCommand(c)
  \/ StartBgsave(c)
  \/ shutdownCommand(c)
  \/ stopAppendOnly(c)
  \/ startAppendOnly(c)

serverCron ==
  \/ CronTime \/ CronSigterm \/ CronScheduled
  \/ CronReap \/ CronRename \/ CronSwitch \/ CronTriggers
  \/ CronFlush \/ (\E d \in Dbs : CronExpire(d)) \/ CronEnd

MainThread ==
  \/ BeforeSleep \/ WriteFails
  \/ \E c \in Clients : EventHandlers(c)
  \/ NoTimeEvent
  \/ serverCron

Environment ==
  \/ Tick \/ BioStart \/ BioEnd \/ ChildExit \/ BgsaveExit
  \/ PowerLoss \/ CheckAofFix \/ Restart

Next == MainThread \/ Environment

Spec == Init /\ [][Next]_vars

-----------------------------------------------------------------------------
(* Properties.                                                             *)

Contiguous(base, entries) ==
  \A i \in 1 .. Len(entries) : entries[i].cmd = base + i

\* Replaying `entries' after anything runs each command in its database:
\* a SELECT precedes it, or the command before it ran in the same one.
InRightDb(entries) ==
  \A i \in 1 .. Len(entries) :
    \/ entries[i].sel
    \/ i > 1 /\ executed[entries[i].cmd] = executed[entries[i - 1].cmd]

\* What loadAppendOnlyFile() would rebuild from the file on disk at this very
\* moment is the dataset after some prefix of the commands executed, each in
\* its own database: across flushes, postponed flushes, rewrites, the switch
\* of files, crashes and restarts.
RecoversPrefix ==
  /\ aof.base + Len(aof.entries) <= Len(executed)
  /\ Contiguous(aof.base, aof.entries)
  /\ InRightDb(aof.entries)

\* What the file lacks.  A rewritten file has it all already when it takes the
\* name; the buffer is dropped after that.
Unwritten == IF phase = "renamed" THEN <<>> ELSE aofbuf

\* No executed command is missing from both the file and server.aofbuf, and
\* writing the buffer keeps the file replayable.
NothingUnlogged ==
  Up => /\ aof.base + Len(aof.entries) + Len(Unwritten) = Len(executed)
        /\ Contiguous(aof.base, aof.entries \o Unwritten)
        /\ InRightDb(aof.entries \o Unwritten)

\* Whatever moment the child finishes at, its dataset followed by
\* server.bgrewritebuf is the whole dataset: the switch loses no command and
\* repeats none, and the first of the differences selects its database.
\* (With the AOF off, BGREWRITEAOF just saves the dataset of the fork.)
RewriteMerges ==
  Up /\ child # NoChild /\ appendonly /\ appendfd = "open" =>
    /\ child.base + Len(bgrewritebuf) = Len(executed)
    /\ Contiguous(child.base, bgrewritebuf)
    /\ InRightDb(bgrewritebuf)

\* The commands on the platter.
Durable == aof.base + synced

\* With appendfsync always, a client that waits for its replies has never
\* been told about a command that a power failure takes back, but for one
\* window: from rename(2) to aof_fsync() in backgroundRewriteDoneHandler() the
\* differences of the rewrite are on no platter ("renamed"), and power lost
\* there ("cut") may take back commands that had long been durable.
AckedAreDurable ==
  Fsync = "always" /\ ~NoFsyncOnRewrite /\ phase \notin {"renamed", "cut"} =>
    \A n \in acked : n <= Durable

\* SHUTDOWN and SIGTERM leave an AOF that holds every command a client got a
\* reply for.
CleanExitKeepsAcked ==
  phase = "exited" => \A n \in acked : n <= aof.base + Len(aof.entries)

\* In that window, what will be on the platter when the window closes.
DurableNext == IF phase = "renamed" THEN aof.base + Len(aof.entries) ELSE Durable

\* A command that reached the platter stays there as long as the server runs,
\* outside that window; and when the window closes, the fsync has put back all
\* that was durable before the rename.
DurableNeverShrinks == [][Up /\ Up' => DurableNext' >= DurableNext]_vars

\* server.appendonly set means there is a file to append to.
AofOnHasFile == appendonly => appendfd = "open"

\* Fairness: the event loop and the clock never stop, and the cron timer is
\* never starved.  No background fsync and no child need ever finish.
Fairness == WF_vars(MainThread) /\ SF_vars(CronTime) /\ WF_vars(Tick)
FairSpec == Spec /\ Fairness

\* A buffered command does not wait forever: even when the background fsync
\* never returns, serverCron() writes the buffer after the postponement.
BufferGetsWritten == aofbuf # <<>> /\ Up ~> aofbuf = <<>> \/ ~Up
=============================================================================
