---------------------------- MODULE ReplMaster ----------------------------
(***************************************************************************)
(* The master's half of replication in Redis 2.4.7: replication.c down to  *)
(* updateSlavesWaitingBgsave(), the background save of rdb.c it rests on   *)
(* and the output buffers of networking.c it collects the changes in.      *)
(*                                                                         *)
(* A slave that asks for SYNC waits for a dump of the data, receives it,   *)
(* and then everything executed since the fork that dumped it.  The data   *)
(* is the sequence of the writes executed since the last FLUSHALL, each    *)
(* with the database it was executed in.                                   *)
(***************************************************************************)
EXTENDS Integers, Sequences

CONSTANTS
  Slaves,     \* the connections of slaves
  Dbs,        \* numbers of the databases
  MaxCmds,    \* bound: writes and FLUSHALLs
  SaveParams, \* server.saveparamslen > 0
  ForkFails,  \* fork() may fail
  Kills,      \* a signal from outside may end the saving child
  Pipelines,  \* a client may send SYNC before it has read an earlier reply
  Joins       \* SYNC may come while a slave that waits for the end of a save
              \* has another database than 0 selected

ASSUME DbsAssumption == Dbs \subseteq Nat /\ 0 \in Dbs
ASSUME BoundsAssumption == MaxCmds \in Nat
ASSUME FlagsAssumption ==
  SaveParams \in BOOLEAN /\ ForkFails \in BOOLEAN
    /\ Kills \in BOOLEAN /\ Pipelines \in BOOLEAN /\ Joins \in BOOLEAN

VARIABLES
  count,      \* commands executed so far
  data,       \* the data set
  dump,       \* the file dump.rdb
  child,      \* server.bgsavechildpid and what that process has done
  st,         \* per slave: not connected, or c->replstate
  ev,         \* per slave: the handler of AE_WRITABLE
  seldb,      \* per slave: c->slaveseldb
  buf,        \* per slave: c->buf and c->reply
  bulk,       \* per slave: the file c->repldbfd is open on
  img,        \* the data set at the slave's end, once it has loaded the dump
  imgdb       \* the database selected at the slave's end

conns == <<st, ev, seldb, buf, bulk, img, imgdb>>
vars == <<count, data, dump, child, conns>>

Write   == [n : Nat, d : Dbs]
NoFile  == <<[n |-> 0, d |-> -1]>>    \* not a data set: no file, nothing loaded
NoChild == [snap |-> <<>>, end |-> "none"]
State   == {"closed", "none", "wait_start", "wait_end", "send_bulk", "online"}
Item    == [t : {"select"}, v : Dbs] \cup [t : {"write"}, v : Nat]
             \cup [t : {"flushall", "reply"}]
Child   == [snap : Seq(Write), end : {"running", "ok", "error", "signal"}]

TypeOK ==
  /\ count \in Nat
  /\ data \in Seq(Write)
  /\ dump \in Seq(Write) \cup {NoFile}
  /\ child \in Child \cup {NoChild}
  /\ st \in [Slaves -> State]
  /\ ev \in [Slaves -> {"none", "reply", "bulk"}]
  /\ seldb \in [Slaves -> Dbs] /\ imgdb \in [Slaves -> Dbs]
  /\ buf \in [Slaves -> Seq(Item)]
  /\ bulk \in [Slaves -> Seq(Write) \cup {NoFile}]
  /\ img \in [Slaves -> Seq(Write) \cup {NoFile}]

Init ==
  /\ count = 0 /\ data = <<>> /\ dump = NoFile /\ child = NoChild
  /\ st = [s \in Slaves |-> "closed"] /\ ev = [s \in Slaves |-> "none"]
  /\ seldb = [s \in Slaves |-> 0] /\ imgdb = [s \in Slaves |-> 0]
  /\ buf = [s \in Slaves |-> <<>>]
  /\ bulk = [s \in Slaves |-> NoFile] /\ img = [s \in Slaves |-> NoFile]

-----------------------------------------------------------------------------
(* Feeding the slaves.                                                     *)

\* replicationFeedSlaves() skips the slaves whose BGSAVE has not started.
Fed(s) == st[s] \in {"wait_end", "send_bulk", "online"}

\* Mutant: SELECT counts the databases from 1.
SelectingNext(s, d) ==
  IF seldb[s] # d THEN <<[t |-> "select", v |-> d + 1]>> ELSE <<>>

Selecting(s, d) == IF seldb[s] # d THEN <<[t |-> "select", v |-> d]>> ELSE <<>>

\* Mutant: at any time.
InstallAtOnce(s) == IF buf[s] = <<>> THEN "reply" ELSE ev[s]

\* _installWriteEvent(): the first item of an empty buffer makes the socket
\* watched, except while the dump has to go first.
InstallWriteEvent(s) ==
  IF buf[s] = <<>> /\ st[s] \in {"none", "online"} THEN "reply" ELSE ev[s]

replicationFeedSlaves(d, item) ==
  /\ buf' = [s \in Slaves |->
               IF Fed(s) THEN buf[s] \o Selecting(s, d) \o <<item>> ELSE buf[s]]
  /\ ev' = [s \in Slaves |-> IF Fed(s) THEN InstallWriteEvent(s) ELSE ev[s]]
  /\ seldb' = [s \in Slaves |-> IF Fed(s) THEN d ELSE seldb[s]]

\* call() of a command that writes to database d.
WriteCommand(d) ==
  /\ count < MaxCmds /\ count' = count + 1
  /\ data' = Append(data, [n |-> count', d |-> d])
  /\ replicationFeedSlaves(d, [t |-> "write", v |-> count'])
  /\ UNCHANGED <<dump, child, st, bulk, img, imgdb>>

\* flushallCommand(): kills the saving child and saves the empty data set in
\* the foreground, which may fail.
flushallCommand(d) ==
  /\ count < MaxCmds /\ count' = count + 1
  /\ data' = <<>>
  /\ child' = IF child # NoChild /\ child.end = "running"
              THEN [child EXCEPT !.end = "signal"] ELSE child
  /\ dump' \in {dump} \cup (IF SaveParams THEN {<<>>} ELSE {})
  /\ replicationFeedSlaves(d, [t |-> "flushall"])
  /\ UNCHANGED <<st, bulk, img, imgdb>>

-----------------------------------------------------------------------------
(* The background save.                                                    *)

\* rdbSaveBackground(), fork() having worked.
Fork == child' = [snap |-> data, end |-> "running"]

\* BGSAVE, or a save point reached in serverCron().
bgsaveCommand == child = NoChild /\ Fork /\ UNCHANGED <<count, data, dump, conns>>

\* rdbSave() in the child: the file takes its name, the child exits ...
ChildSaves ==
  /\ child # NoChild /\ child.end = "running"
  /\ dump' = child.snap /\ child' = [child EXCEPT !.end = "ok"]
  /\ UNCHANGED <<count, data, conns>>

\* ... or an error on the way removes the temporary file ...
ChildFails ==
  /\ child # NoChild /\ child.end = "running"
  /\ child' = [child EXCEPT !.end = "error"]
  /\ UNCHANGED <<count, data, dump, conns>>

\* ... or somebody kills it.
ChildKilled ==
  /\ Kills /\ child # NoChild /\ child.end = "running"
  /\ child' = [child EXCEPT !.end = "signal"]
  /\ UNCHANGED <<count, data, dump, conns>>

-----------------------------------------------------------------------------
(* Connections.                                                            *)

\* freeClient() of the slaves in S, for functions over the slaves.
Freed(f, S, empty) == [s \in Slaves |-> IF s \in S THEN empty ELSE f[s]]

accept(s) ==
  /\ st[s] = "closed" /\ st' = [st EXCEPT ![s] = "none"]
  /\ UNCHANGED <<count, data, dump, child, ev, seldb, buf, bulk, img, imgdb>>

\* The connection breaks, or a write to it fails.
freeClient(s) ==
  /\ st[s] # "closed"
  /\ st' = Freed(st, {s}, "closed") /\ ev' = Freed(ev, {s}, "none")
  /\ buf' = Freed(buf, {s}, <<>>) /\ seldb' = Freed(seldb, {s}, 0)
  /\ bulk' = Freed(bulk, {s}, NoFile)
  /\ img' = Freed(img, {s}, NoFile) /\ imgdb' = Freed(imgdb, {s}, 0)
  /\ UNCHANGED <<count, data, dump, child>>

\* A command of a client that is not a slave (yet) is answered.
addReply(s) ==
  /\ Pipelines /\ st[s] = "none" /\ buf[s] = <<>>
  /\ buf' = [buf EXCEPT ![s] = Append(@, [t |-> "reply"])]
  /\ ev' = [ev EXCEPT ![s] = InstallWriteEvent(s)]
  /\ UNCHANGED <<count, data, dump, child, st, seldb, bulk, img, imgdb>>

\* What a slave at the other end does with an item.
Received(s, i) ==
  /\ imgdb' = IF i.t = "select" THEN [imgdb EXCEPT ![s] = i.v] ELSE imgdb
  /\ img' = IF img[s] = NoFile THEN img
            ELSE CASE i.t = "write" ->
                        [img EXCEPT ![s] = Append(@, [n |-> i.v, d |-> imgdb[s]])]
                   [] i.t = "flushall" -> [img EXCEPT ![s] = <<>>]
                   [] OTHER -> img

\* sendReplyToClient(): writes what the socket takes, and deletes the event
\* when nothing is left.
sendReplyToClient(s) ==
  /\ ev[s] = "reply"
  /\ IF buf[s] = <<>> THEN UNCHANGED <<buf, img, imgdb>>
     ELSE Received(s, Head(buf[s])) /\ buf' = [buf EXCEPT ![s] = Tail(@)]
  /\ ev' = [ev EXCEPT ![s] = IF buf'[s] = <<>> THEN "none" ELSE @]
  /\ UNCHANGED <<count, data, dump, child, st, seldb, bulk>>

-----------------------------------------------------------------------------
(* SYNC.                                                                   *)

\* c->reply must be empty, but the static buffer c->buf is not looked at: a
\* short reply stands there.
\* Joining a slave whose changes since the fork are being collected.
syncJoins(s) ==
  /\ st[s] = "none" /\ child # NoChild
  /\ \E o \in Slaves :
       /\ st[o] = "wait_end" /\ (Joins \/ seldb[o] = 0)
       /\ buf' = [buf EXCEPT ![s] = buf[o]]
  /\ st' = [st EXCEPT ![s] = "wait_end"] /\ seldb' = [seldb EXCEPT ![s] = 0]
  /\ UNCHANGED <<count, data, dump, child, ev, bulk, img, imgdb>>

\* Mutant: any save in progress will do.
syncTakesAny(s) ==
  /\ st[s] = "none" /\ child # NoChild
  /\ \A o \in Slaves : st[o] # "wait_end"
  /\ st' = [st EXCEPT ![s] = "wait_end"] /\ seldb' = [seldb EXCEPT ![s] = 0]
  /\ UNCHANGED <<count, data, dump, child, ev, buf, bulk, img, imgdb>>

\* Nobody collected the changes since the fork: wait for the next one.
syncWaits(s) ==
  /\ st[s] = "none" /\ child # NoChild
  /\ \A o \in Slaves : st[o] # "wait_end"
  /\ st' = [st EXCEPT ![s] = "wait_start"] /\ seldb' = [seldb EXCEPT ![s] = 0]
  /\ UNCHANGED <<count, data, dump, child, ev, buf, bulk, img, imgdb>>

\* No save in progress: start one.  When that fails the client is told, and
\* a slave closes the connection (freeClient).
syncForks(s) ==
  /\ st[s] = "none" /\ child = NoChild
  /\ Fork
  /\ st' = [st EXCEPT ![s] = "wait_end"] /\ seldb' = [seldb EXCEPT ![s] = 0]
  /\ UNCHANGED <<count, data, dump, ev, buf, bulk, img, imgdb>>

syncCommand(s) == syncJoins(s) \/ syncWaits(s) \/ syncForks(s)

-----------------------------------------------------------------------------
(* The end of a save.                                                      *)

Waiting(state) == {s \in Slaves : st[s] = state}

\* Mutant: a slave waiting for the next save is left waiting.
updateOnlyEnded(ok, opened) ==
  LET sent == opened
      lost == Waiting("wait_end") \ opened
  IN /\ ~ok \/ dump = NoFile => opened = {}
     /\ st' = [s \in Slaves |-> IF s \in sent THEN "send_bulk"
                                ELSE IF s \in lost THEN "closed" ELSE st[s]]
     /\ ev' = [s \in Slaves |-> IF s \in sent THEN "bulk"
                                ELSE IF s \in lost THEN "none" ELSE ev[s]]
     /\ bulk' = Freed(bulk, sent, dump)
     /\ buf' = Freed(buf, lost, <<>>) /\ seldb' = Freed(seldb, lost, 0)
     /\ imgdb' = Freed(imgdb, lost, 0)
     /\ child' = NoChild
\* Mutant: it takes the save that just ended for its own.
updateNoFork(ok, opened) ==
  LET sent == opened
      lost == Waiting("wait_end") \ opened
      next == Waiting("wait_start")
  IN /\ ~ok \/ dump = NoFile => opened = {}
     /\ st' = [s \in Slaves |-> IF s \in sent THEN "send_bulk"
                                ELSE IF s \in lost THEN "closed"
                                ELSE IF s \in next THEN "wait_end" ELSE st[s]]
     /\ ev' = [s \in Slaves |-> IF s \in sent THEN "bulk"
                                ELSE IF s \in lost THEN "none" ELSE ev[s]]
     /\ bulk' = Freed(bulk, sent, dump)
     /\ buf' = Freed(buf, lost, <<>>) /\ seldb' = Freed(seldb, lost, 0)
     /\ imgdb' = Freed(imgdb, lost, 0)
     /\ child' = NoChild

\* updateSlavesWaitingBgsave().  The slaves that waited for this save start
\* to receive the file, if it can be opened and the save is said to be ok;
\* those that waited for it to end get a new one.  Those are already in
\* state wait_end when fork() fails, so that the loop that closes the ones in
\* wait_start finds none.
updateSlavesWaitingBgsave(ok, opened) ==
  LET sent == opened
      lost == Waiting("wait_end") \ opened
      next == Waiting("wait_start")
  IN /\ ~ok \/ dump = NoFile => opened = {}
     /\ st' = [s \in Slaves |-> IF s \in sent THEN "send_bulk"
                                ELSE IF s \in lost THEN "closed"
                                ELSE IF s \in next THEN "wait_end" ELSE st[s]]
     /\ ev' = [s \in Slaves |-> IF s \in sent THEN "bulk"
                                ELSE IF s \in lost THEN "none" ELSE ev[s]]
     /\ bulk' = Freed(bulk, sent, dump)
     /\ buf' = Freed(buf, lost, <<>>) /\ seldb' = Freed(seldb, lost, 0)
     /\ imgdb' = Freed(imgdb, lost, 0)
     /\ \/ next # {} /\ Fork
        \/ (next = {} \/ ForkFails) /\ child' = NoChild

\* serverCron() reaps the child and calls backgroundSaveDoneHandler(): the
\* exit code of a child that died by a signal reads as 0.
backgroundSaveDoneHandler ==
  /\ child # NoChild /\ child.end # "running"
  /\ \E opened \in SUBSET Waiting("wait_end") :
       updateSlavesWaitingBgsave(child.end # "error", opened)
  /\ UNCHANGED <<count, data, dump, img>>

\* Mutant: the buffer waits for the next command.
sendNoEvent(s) ==
  /\ st[s] = "send_bulk" /\ ev[s] = "bulk"
  /\ img' = [img EXCEPT ![s] = bulk[s]]
  /\ bulk' = [bulk EXCEPT ![s] = NoFile]
  /\ st' = [st EXCEPT ![s] = "online"] /\ ev' = [ev EXCEPT ![s] = "none"]
  /\ UNCHANGED <<count, data, dump, child, seldb, buf, imgdb>>

\* sendBulkToSlave(), its last call: the slave has the whole file and loads
\* it, and its buffer may go out.  An error on the way is a freeClient.
sendBulkToSlave(s) ==
  /\ st[s] = "send_bulk" /\ ev[s] = "bulk"
  /\ img' = [img EXCEPT ![s] = bulk[s]]
  /\ bulk' = [bulk EXCEPT ![s] = NoFile]
  /\ st' = [st EXCEPT ![s] = "online"] /\ ev' = [ev EXCEPT ![s] = "reply"]
  /\ UNCHANGED <<count, data, dump, child, seldb, buf, imgdb>>

-----------------------------------------------------------------------------

ChildNext == ChildSaves \/ ChildFails \/ ChildKilled

Next ==
  \/ \E d \in Dbs : WriteCommand(d) \/ flushallCommand(d)
  \/ bgsaveCommand \/ ChildNext \/ backgroundSaveDoneHandler
  \/ \E s \in Slaves :
       \/ accept(s) \/ freeClient(s) \/ addReply(s) \/ syncCommand(s)
       \/ sendReplyToClient(s) \/ sendBulkToSlave(s)

Spec == Init /\ [][Next]_vars

\* The child comes to an end; serverCron() runs every 100 ms; a socket that
\* stays writable is written to.
Fairness ==
  /\ WF_vars(ChildNext) /\ WF_vars(backgroundSaveDoneHandler)
  /\ \A s \in Slaves : WF_vars(sendReplyToClient(s)) /\ WF_vars(sendBulkToSlave(s))

FairSpec == Spec /\ Fairness

-----------------------------------------------------------------------------
(* Properties.                                                             *)

\* A slave that has been sent all there is for it has the data of the master:
\* no write is missing, repeated, out of order or in another database, through
\* saves that fail or are replaced, FLUSHALL, and slaves that join a save.
CaughtUpIsInSync ==
  \A s \in Slaves : st[s] = "online" /\ buf[s] = <<>> => img[s] = data

\* A slave waits for the start of a save only while another save runs, whose
\* end starts it.
StartComes ==
  \A s \in Slaves : st[s] = "wait_start" => child # NoChild

\* A slave that waits for the end of a save waits for one that runs.
EndComes ==
  \A s \in Slaves : st[s] = "wait_end" => child # NoChild

\* A slave that is online and has output pending is watched for writing, and
\* the dump has the socket for itself while it is sent.
OutputScheduled ==
  \A s \in Slaves :
    /\ st[s] = "online" /\ buf[s] # <<>> => ev[s] = "reply"
    /\ st[s] = "send_bulk" <=> ev[s] = "bulk"

\* While a slave waits for its dump nothing is written to it: the changes
\* since the fork stay in its buffer, where other slaves copy them from.
NothingBeforeDump ==
  \A s \in Slaves : st[s] \in {"wait_start", "wait_end"} => ev[s] = "none"

\* A slave that asked for SYNC gets its dump or is disconnected.
SyncAnswered ==
  \A s \in Slaves :
    st[s] \in {"wait_start", "wait_end"} ~> st[s] \in {"online", "closed"}
=============================================================================
