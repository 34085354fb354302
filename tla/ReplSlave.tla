----------------------------- MODULE ReplSlave -----------------------------
(***************************************************************************)
(* The slave's half of replication in Redis 2.4.7: SLAVEOF, the connection *)
(* to the master, the transfer and the loading of its dump, the timeouts   *)
(* of replicationCron() and the loss of the link in freeClient(); with     *)
(* what shares the data set with them: the slave's own background save,    *)
(* its append only file, and a slave of the slave.                         *)
(*                                                                         *)
(* A data set is named after what it was loaded from: the sequence of the  *)
(* chunks of the dump, each with the master and the connection it was read *)
(* from.  What is executed after that reaches the append only file and the *)
(* attached slave as it reaches the data, and needs no state.              *)
(***************************************************************************)
EXTENDS Integers, Sequences

CONSTANTS
  Masters,    \* the masters SLAVEOF may name
  Fds,        \* file descriptors for connections to them
  Nobody,     \* server.masterhost = NULL
  MaxSyncs,   \* bound: connections made
  Chunks,     \* reads it takes to receive a dump
  Appendonly, \* server.appendonly
  Saves,      \* BGSAVE, or save points, and BGREWRITEAOF are in use
  Failures,   \* fork(), or a child it made, may fail
  Impatient,  \* SLAVEOF may come while a connection is being made
  Promoted    \* SLAVEOF may come while slaves are attached to a master

ASSUME NobodyAssumption == Nobody \notin Masters
ASSUME FdsAssumption == Fds \subseteq Nat
ASSUME BoundsAssumption == MaxSyncs \in Nat /\ Chunks \in Nat \ {0}
ASSUME FlagsAssumption ==
  Appendonly \in BOOLEAN /\ Saves \in BOOLEAN /\ Failures \in BOOLEAN
    /\ Impatient \in BOOLEAN /\ Promoted \in BOOLEAN

VARIABLES
  masterhost, \* server.masterhost and masterport
  link,       \* server.replstate, repl_transfer_s, repl_transfer_left, the
              \* temporary file and the sockets with their event handlers
  syncs,      \* connections made so far
  loading,    \* readSyncBulkPayload() is between rename() and rdbLoad()
  data,       \* the data set
  dump,       \* dump.rdb
  bgsave,     \* what the saving child dumps
  aof,        \* the data set the append only file starts from
  rewrite,    \* what the rewriting child writes
  sub         \* the data set an attached slave was given

vars == <<masterhost, link, syncs, loading, data, dump, bgsave, aof, rewrite, sub>>
files == <<data, dump, bgsave, aof, rewrite>>

Data    == Seq([m : Masters, n : Nat])
Nothing == <<[m |-> Nobody, n |-> 0]>>    \* no child, no slave, no open file
NoFd    == -1
NoLen   == -1
Closed  == [to |-> Nobody, n |-> 0, ev |-> "none"]

Socket == [to : Masters, n : Nat,
           ev : {"syncWithMaster", "readSyncBulkPayload", "readQueryFromClient"}]
Link == [state : {"NONE", "CONNECT", "CONNECTING", "TRANSFER", "CONNECTED",
                  "CRASHED"},
         s : Fds \cup {NoFd}, left : Int, tmp : Data \cup {Nothing},
         sock : [Fds -> Socket \cup {Closed}]]

TypeOK ==
  /\ masterhost \in Masters \cup {Nobody}
  /\ link \in Link
  /\ syncs \in Nat
  /\ loading \in BOOLEAN
  /\ data \in Data /\ dump \in Data /\ aof \in Data
  /\ bgsave \in Data \cup {Nothing} /\ rewrite \in Data \cup {Nothing}
  /\ sub \in Data \cup {Nothing}

Init ==
  /\ masterhost = Nobody
  /\ link = [state |-> "NONE", s |-> NoFd, left |-> NoLen, tmp |-> Nothing,
             sock |-> [f \in Fds |-> Closed]]
  /\ syncs = 0 /\ loading = FALSE
  /\ data = <<>> /\ dump = <<>> /\ aof = <<>>
  /\ bgsave = Nothing /\ rewrite = Nothing /\ sub = Nothing

-----------------------------------------------------------------------------
(* What happens to the link.                                               *)

\* Mutant: their events are not deleted.
CloseKeepsEvent(l, F) ==
  [l EXCEPT !.sock = [f \in Fds |-> IF f \in F THEN [Closed EXCEPT !.ev = l.sock[f].ev]
                                   ELSE l.sock[f]]]

\* The sockets among F are closed, their events deleted.
Close(l, F) ==
  [l EXCEPT !.sock = [f \in Fds |-> IF f \in F THEN Closed ELSE l.sock[f]]]

Handles(l, handler) == {f \in Fds : l.sock[f].ev = handler}

\* redisAssert() fails, or a null pointer is followed.
Crash(l) == [l EXCEPT !.state = "CRASHED"]

\* Mutant: the socket stays open.
abortKeepsSocket(l) ==
  IF l.state # "TRANSFER" THEN Crash(l)
  ELSE [l EXCEPT !.tmp = Nothing, !.state = "CONNECT"]

replicationAbortSyncTransfer(l) ==
  IF l.state # "TRANSFER" THEN Crash(l)
  ELSE [Close(l, {l.s}) EXCEPT !.tmp = Nothing, !.state = "CONNECT"]

undoConnectWithMaster(l) ==
  [Close(l, {l.s}) EXCEPT !.s = NoFd, !.state = "CONNECT"]

\* freeClient(server.master), if there is one.
HasMaster(l) == Handles(l, "readQueryFromClient") # {}

freeMaster(l) ==
  IF HasMaster(l)
  THEN [Close(l, Handles(l, "readQueryFromClient")) EXCEPT !.state = "CONNECT"]
  ELSE l

\* ... and of the attached slaves: host is server.masterhost by then.
\* Mutant: they stay.
freeNoSlaves(l, host) == sub

freeSlaves(l, host) == IF HasMaster(l) /\ host # Nobody THEN Nothing ELSE sub

\* The transfer or the connection in progress is given up.
GivenUp(l) ==
  CASE l.state = "TRANSFER" -> replicationAbortSyncTransfer(l)
    [] l.state = "CONNECTING" -> undoConnectWithMaster(l)
    [] OTHER -> l

\* Mutant: commands are served while the dump is loaded.
ServingWhileLoading == link.state # "CRASHED"

\* Events are served; a client's command is refused during the loading.
Serving == ~loading /\ link.state # "CRASHED"

-----------------------------------------------------------------------------
(* SLAVEOF.                                                                *)

\* SLAVEOF host: a connection that is being made is not given up.
slaveofCommand(m) ==
  /\ Serving
  /\ Impatient \/ link.state # "CONNECTING"
  /\ Promoted \/ masterhost # Nobody \/ sub = Nothing
  /\ masterhost' = m
  /\ sub' = freeSlaves(link, m)
  /\ LET l == freeMaster(link)
         k == IF l.state = "TRANSFER" THEN replicationAbortSyncTransfer(l) ELSE l
     IN link' = [k EXCEPT !.state = "CONNECT"]
  /\ UNCHANGED <<syncs, loading, files>>

slaveofNoOne ==
  /\ Serving /\ masterhost # Nobody
  /\ masterhost' = Nobody
  /\ sub' = freeSlaves(link, Nobody)
  /\ link' = [GivenUp(freeMaster(link)) EXCEPT !.state = "NONE"]
  /\ UNCHANGED <<syncs, loading, files>>

-----------------------------------------------------------------------------
(* Connecting.                                                             *)

\* connectWithMaster(), and its failure.
connectWithMaster(l) ==
  \/ /\ syncs < MaxSyncs
     /\ \E f \in Fds :
          /\ l.sock[f] = Closed
          /\ link' = [l EXCEPT !.state = "CONNECTING", !.s = f,
                        !.sock[f] = [to |-> masterhost, n |-> syncs + 1,
                                     ev |-> "syncWithMaster"]]
     /\ syncs' = syncs + 1
  \/ link' = l /\ UNCHANGED syncs

\* replicationCron(): a connection, a transfer or a master that was silent
\* for too long is dropped, then a connection is made if one is due.  PINGs
\* to the attached slaves change nothing here.
replicationCron ==
  /\ Serving /\ masterhost # Nobody
  /\ \E silent \in BOOLEAN :
       LET l == IF ~silent THEN link ELSE freeMaster(GivenUp(link)) IN
       /\ silent => link.state \in {"CONNECTING", "TRANSFER", "CONNECTED"}
       /\ l.state = "CONNECT"
       /\ connectWithMaster(l)
       /\ sub' = IF silent THEN freeSlaves(link, masterhost) ELSE sub
  /\ UNCHANGED <<masterhost, loading, files>>

\* syncWithMaster(): the socket became writable.
syncWithMaster(f) ==
  /\ Serving /\ link.sock[f].ev = "syncWithMaster"
  /\ \/ /\ link.state = "NONE"
        /\ link' = Close(link, {f})
     \/ /\ link.state # "NONE"       \* AUTH, SYNC or the temporary file fails
        /\ link' = [Close(link, {f}) EXCEPT !.state = "CONNECT"]
     \/ /\ link.state # "NONE"
        /\ link' = [link EXCEPT !.state = "TRANSFER", !.left = NoLen, !.tmp = <<>>,
                                !.sock[f].ev = "readSyncBulkPayload"]
  /\ UNCHANGED <<masterhost, syncs, loading, files, sub>>

-----------------------------------------------------------------------------
(* The transfer: readSyncBulkPayload().                                    *)

\* The length of the dump arrives.  (A newline in its place is a ping.)
readBulkCount(f) ==
  /\ Serving /\ link.sock[f].ev = "readSyncBulkPayload" /\ link.left = NoLen
  /\ link' = [link EXCEPT !.left = Chunks]
  /\ UNCHANGED <<masterhost, syncs, loading, files, sub>>

\* A part of it arrives, and goes to the temporary file.  After the last one
\* the file is renamed to dump.rdb.
readBulkData(f) ==
  /\ Serving /\ link.sock[f].ev = "readSyncBulkPayload"
  /\ link.left > 0 /\ link.tmp # Nothing
  /\ link' = [link EXCEPT !.left = @ - 1,
                !.tmp = Append(@, [m |-> link.sock[f].to, n |-> link.sock[f].n])]
  /\ loading' = (link.left = 1)
  /\ dump' = IF loading' THEN link'.tmp ELSE dump
  /\ UNCHANGED <<masterhost, syncs, data, bgsave, aof, rewrite, sub>>

\* The master answers with an error, the connection is lost, the file cannot
\* be written or renamed.
readFails(f) ==
  /\ Serving /\ link.sock[f].ev = "readSyncBulkPayload"
  /\ link' = replicationAbortSyncTransfer(link)
  /\ UNCHANGED <<masterhost, syncs, loading, files, sub>>

\* createClient() for the socket of the transfer.
MasterClient(l) ==
  IF l.s = NoFd \/ l.sock[l.s] = Closed THEN Crash(l)
  ELSE [l EXCEPT !.state = "CONNECTED", !.tmp = Nothing,
                 !.sock[l.s].ev = "readQueryFromClient"]

\* Mutant: the data that was there is kept.
rdbLoadKeepsData ==
  /\ loading /\ loading' = FALSE
  /\ data' = IF data = <<>> THEN dump ELSE data
  /\ link' = MasterClient(link)
  /\ rewrite' = rewrite
  /\ UNCHANGED <<masterhost, syncs, dump, bgsave, aof, sub>>

\* emptyDb(), then rdbLoad(): dump.rdb is opened by its name.  The append only
\* file is rewritten, unless rewriteAppendOnlyFileBackground() fails, which
\* nobody notices.
rdbLoad ==
  /\ loading /\ loading' = FALSE
  /\ data' = dump
  /\ link' = MasterClient(link)
  /\ \/ Appendonly /\ rewrite = Nothing /\ rewrite' = data'
     \/ (~Appendonly \/ rewrite # Nothing \/ Failures) /\ UNCHANGED rewrite
  /\ UNCHANGED <<masterhost, syncs, dump, bgsave, aof, sub>>

\* The file cannot be opened: the data set is gone.
rdbLoadFails ==
  /\ loading /\ loading' = FALSE
  /\ data' = <<>>
  /\ link' = replicationAbortSyncTransfer(link)
  /\ UNCHANGED <<masterhost, syncs, dump, bgsave, aof, rewrite, sub>>

\* freeClient(): the connection with the master breaks.
freeClient ==
  /\ Serving /\ HasMaster(link)
  /\ link' = freeMaster(link)
  /\ sub' = freeSlaves(link, masterhost)
  /\ UNCHANGED <<masterhost, syncs, loading, files>>

-----------------------------------------------------------------------------
(* What else has to do with the data set.                                  *)

rdbSaveBackground ==
  /\ Saves /\ Serving /\ bgsave = Nothing
  /\ bgsave' = data
  /\ UNCHANGED <<masterhost, link, syncs, loading, data, dump, aof, rewrite, sub>>

\* The child renames its file while the parent does whatever it does.
ChildSaves ==
  /\ bgsave # Nothing /\ bgsave' = Nothing
  /\ \/ dump' = bgsave
     \/ Failures /\ UNCHANGED dump
  /\ UNCHANGED <<masterhost, link, syncs, loading, data, aof, rewrite, sub>>

rewriteAppendOnlyFileBackground ==
  /\ Saves /\ Appendonly /\ Serving /\ rewrite = Nothing
  /\ rewrite' = data
  /\ UNCHANGED <<masterhost, link, syncs, loading, data, dump, bgsave, aof, sub>>

\* The file of a child that succeeded takes the place of the old one.
backgroundRewriteDoneHandler ==
  /\ Serving /\ rewrite # Nothing /\ rewrite' = Nothing
  /\ \/ aof' = rewrite
     \/ Failures /\ UNCHANGED aof
  /\ UNCHANGED <<masterhost, link, syncs, loading, data, dump, bgsave, sub>>

\* A slave of this slave: syncCommand() refuses it while the link is down.
syncCommand ==
  /\ Serving /\ sub = Nothing
  /\ masterhost = Nobody \/ link.state = "CONNECTED"
  /\ sub' = data
  /\ UNCHANGED <<masterhost, link, syncs, loading, files>>

subLeaves ==
  /\ Serving /\ sub # Nothing /\ sub' = Nothing
  /\ UNCHANGED <<masterhost, link, syncs, loading, files>>

-----------------------------------------------------------------------------

Next ==
  \/ \E m \in Masters : slaveofCommand(m)
  \/ slaveofNoOne \/ replicationCron \/ freeClient
  \/ \E f \in Fds : \/ syncWithMaster(f) \/ readBulkCount(f)
                    \/ readBulkData(f) \/ readFails(f)
  \/ rdbLoad \/ rdbLoadFails
  \/ rdbSaveBackground \/ ChildSaves
  \/ rewriteAppendOnlyFileBackground \/ backgroundRewriteDoneHandler
  \/ syncCommand \/ subLeaves

Spec == Init /\ [][Next]_vars

-----------------------------------------------------------------------------
(* Properties.                                                             *)

\* The state of the link says which socket is open and who handles it: there
\* is never a second one, none is left open when the link is given up, and it
\* leads to the master SLAVEOF named last.  The assertions on the state in
\* replicationAbortSyncTransfer() and undoConnectWithMaster() follow.
LinkSound ==
  LET open == {f \in Fds : link.sock[f] # Closed}
      Only(handler) == /\ open = {link.s}
                       /\ link.sock[link.s].ev = handler
                       /\ link.sock[link.s].to = masterhost
  IN /\ link.state = "NONE" <=> masterhost = Nobody
     /\ CASE link.state \in {"NONE", "CONNECT"} -> open = {}
          [] link.state = "CONNECTING" -> Only("syncWithMaster")
          [] link.state = "TRANSFER" -> Only("readSyncBulkPayload")
          [] link.state = "CONNECTED" -> Only("readQueryFromClient")
          [] link.state = "CRASHED" -> FALSE
     /\ loading => link.state = "TRANSFER"

\* A slave whose link is up has the dump its master sent over this link, the
\* whole of it and nothing else.
LoadedFromMaster ==
  link.state = "CONNECTED" =>
    data = [i \in 1..Chunks |-> [m |-> masterhost, n |-> link.sock[link.s].n]]

\* After SLAVEOF NO ONE the data set is the server's own: no transfer, no
\* connection that was being made and no event that was pending replaces it.
NoOneIsFinal == [][masterhost = Nobody => data' = data]_vars

\* A slave attached to this one was given the data set this one has: when the
\* data set is replaced, it has to start again.
SubFollows == sub # Nothing => sub = data

\* Once no rewrite is running the append only file starts from the data set
\* the server has: after a restart the server has the same again.
AofFollows == link.state = "CONNECTED" /\ rewrite = Nothing => aof = data
=============================================================================
