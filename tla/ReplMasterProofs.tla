-------------------------- MODULE ReplMasterProofs --------------------------
(***************************************************************************)
(* Proofs about the master's half of replication, for every set of slaves  *)
(* and databases and any number of commands.                               *)
(***************************************************************************)
EXTENDS ReplMaster, TLAPS

-----------------------------------------------------------------------------
(* Types.                                                                  *)

LEMMA ForkTypes ==
  ASSUME TypeOK, Fork
  PROVE  child' \in Child
BY DEF TypeOK, Fork, Child

\* Feeding the slaves an item keeps the types of what it changes.
LEMMA FeedTypes ==
  ASSUME TypeOK, NEW d \in Dbs, NEW item \in Item, replicationFeedSlaves(d, item)
  PROVE  /\ buf' \in [Slaves -> Seq(Item)]
         /\ ev' \in [Slaves -> {"none", "reply", "bulk"}]
         /\ seldb' \in [Slaves -> Dbs]
<1>1. \A s \in Slaves : Selecting(s, d) \in Seq(Item)
  <2>1. [t |-> "select", v |-> d] \in Item
    BY DEF Item
  <2> QED BY <2>1 DEF Selecting
<1>2. ASSUME NEW s \in Slaves
      PROVE buf[s] \o Selecting(s, d) \o <<item>> \in Seq(Item)
  <2>1. buf[s] \in Seq(Item) /\ Selecting(s, d) \in Seq(Item) /\ <<item>> \in Seq(Item)
    BY <1>1 DEF TypeOK
  <2>2. buf[s] \o Selecting(s, d) \in Seq(Item)
    BY <2>1
  <2> QED BY <2>1, <2>2
<1>3. buf' \in [Slaves -> Seq(Item)]
  BY <1>2 DEF replicationFeedSlaves, TypeOK
<1>4. ev' \in [Slaves -> {"none", "reply", "bulk"}] /\ seldb' \in [Slaves -> Dbs]
  BY DEF replicationFeedSlaves, InstallWriteEvent, TypeOK
<1> QED BY <1>3, <1>4

\* Closing connections keeps the types of what is kept per slave.
LEMMA UpdateTypes ==
  ASSUME TypeOK, NEW ok \in BOOLEAN, NEW opened \in SUBSET Waiting("wait_end"),
         updateSlavesWaitingBgsave(ok, opened)
  PROVE  /\ child' \in Child \cup {NoChild}
         /\ st' \in [Slaves -> State]
         /\ ev' \in [Slaves -> {"none", "reply", "bulk"}]
         /\ seldb' \in [Slaves -> Dbs] /\ imgdb' \in [Slaves -> Dbs]
         /\ buf' \in [Slaves -> Seq(Item)]
         /\ bulk' \in [Slaves -> Seq(Write) \cup {NoFile}]
<1>1. child' \in Child \cup {NoChild}
  BY ForkTypes DEF updateSlavesWaitingBgsave
<1>2. st' \in [Slaves -> State] /\ ev' \in [Slaves -> {"none", "reply", "bulk"}]
  BY DEF updateSlavesWaitingBgsave, TypeOK, State
<1>3. seldb' \in [Slaves -> Dbs] /\ imgdb' \in [Slaves -> Dbs]
  BY DbsAssumption DEF updateSlavesWaitingBgsave, TypeOK, Freed
<1>4. buf' \in [Slaves -> Seq(Item)]
  BY DEF updateSlavesWaitingBgsave, TypeOK, Freed
<1>5. bulk' \in [Slaves -> Seq(Write) \cup {NoFile}]
  BY DEF updateSlavesWaitingBgsave, TypeOK, Freed
<1> QED BY <1>1, <1>2, <1>3, <1>4, <1>5

LEMMA InitTypes == Init => TypeOK
BY DbsAssumption DEF Init, TypeOK, State

LEMMA NextTypes == TypeOK /\ [Next]_vars => TypeOK'
<1> SUFFICES ASSUME TypeOK, [Next]_vars PROVE TypeOK'
  OBVIOUS
<1>1. ASSUME NEW d \in Dbs, WriteCommand(d) PROVE TypeOK'
  <2>1. count' \in Nat
    BY <1>1 DEF WriteCommand, TypeOK
  <2>2. [t |-> "write", v |-> count'] \in Item
    BY <2>1 DEF Item
  <2>3. [n |-> count', d |-> d] \in Write
    BY <2>1 DEF Write
  <2>4. data' \in Seq(Write)
    BY <1>1, <2>3 DEF WriteCommand, TypeOK
  <2> QED BY <1>1, <2>1, <2>2, <2>4, FeedTypes DEF WriteCommand, TypeOK
<1>2. ASSUME NEW d \in Dbs, flushallCommand(d) PROVE TypeOK'
  <2>1. count' \in Nat /\ data' \in Seq(Write)
    BY <1>2 DEF flushallCommand, TypeOK
  <2>4. dump' = dump \/ dump' = <<>>
    BY <1>2, FlagsAssumption DEF flushallCommand
  <2>5. dump' \in Seq(Write) \cup {NoFile}
    <3>1. CASE dump' = dump
      BY <3>1 DEF TypeOK
    <3>2. CASE dump' = <<>>
      BY <3>2
    <3> QED BY <2>4, <3>1, <3>2
  <2>2. child' \in Child \cup {NoChild}
    BY <1>2 DEF flushallCommand, TypeOK, Child
  <2>3. [t |-> "flushall"] \in Item
    BY DEF Item
  <2> QED BY <1>2, <2>1, <2>2, <2>3, <2>5, FeedTypes DEF flushallCommand, TypeOK
<1>3. CASE bgsaveCommand
  BY <1>3, ForkTypes DEF bgsaveCommand, conns, TypeOK
<1>4. CASE ChildNext
  BY <1>4 DEF ChildNext, ChildSaves, ChildFails, ChildKilled, conns, TypeOK, Child
<1>5. CASE backgroundSaveDoneHandler
  <2>1. (child.end # "error") \in BOOLEAN
    OBVIOUS
  <2> QED BY <1>5, <2>1, UpdateTypes DEF backgroundSaveDoneHandler, TypeOK
<1>6. ASSUME NEW s \in Slaves, accept(s) PROVE TypeOK'
  BY <1>6 DEF accept, TypeOK, State
<1>7. ASSUME NEW s \in Slaves, freeClient(s) PROVE TypeOK'
  BY <1>7, DbsAssumption DEF freeClient, Freed, TypeOK, State
<1>8. ASSUME NEW s \in Slaves, addReply(s) PROVE TypeOK'
  <2>1. [t |-> "reply"] \in Item
    BY DEF Item
  <2> QED BY <1>8, <2>1 DEF addReply, InstallWriteEvent, TypeOK
<1>9. ASSUME NEW s \in Slaves, syncCommand(s) PROVE TypeOK'
  <2>1. CASE syncJoins(s)
    BY <2>1, DbsAssumption DEF syncJoins, TypeOK, State
  <2>2. CASE syncWaits(s)
    BY <2>2, DbsAssumption DEF syncWaits, TypeOK, State
  <2>3. CASE syncForks(s)
    BY <2>3, DbsAssumption, ForkTypes DEF syncForks, TypeOK, State
  <2> QED BY <1>9, <2>1, <2>2, <2>3 DEF syncCommand
<1>10. ASSUME NEW s \in Slaves, sendReplyToClient(s) PROVE TypeOK'
  <2>1. CASE buf[s] = <<>>
    BY <1>10, <2>1 DEF sendReplyToClient, TypeOK
  <2>2. CASE buf[s] # <<>>
    <3> DEFINE i == Head(buf[s])
    <3>1. i \in Item /\ Tail(buf[s]) \in Seq(Item)
      BY <2>2 DEF TypeOK
    <3>2. imgdb' \in [Slaves -> Dbs]
      BY <1>10, <2>2, <3>1 DEF sendReplyToClient, Received, TypeOK, Item
    <3>3. img' \in [Slaves -> Seq(Write) \cup {NoFile}]
      <4>1. CASE img[s] = NoFile
        BY <1>10, <2>2, <4>1 DEF sendReplyToClient, Received, TypeOK
      <4>2. CASE img[s] # NoFile /\ i.t = "write"
        <5>1. [n |-> i.v, d |-> imgdb[s]] \in Write
          BY <3>1, <4>2 DEF Item, Write, TypeOK
        <5>2. img[s] \in Seq(Write)
          BY <4>2 DEF TypeOK
        <5>3. img' = [img EXCEPT ![s] = Append(@, [n |-> i.v, d |-> imgdb[s]])]
          BY <1>10, <2>2, <4>2 DEF sendReplyToClient, Received
        <5> QED BY <5>1, <5>2, <5>3 DEF TypeOK
      <4>3. CASE img[s] # NoFile /\ i.t = "flushall"
        <5>1. img' = [img EXCEPT ![s] = <<>>]
          BY <1>10, <2>2, <4>3 DEF sendReplyToClient, Received
        <5> QED BY <5>1 DEF TypeOK
      <4>4. CASE img[s] # NoFile /\ i.t \notin {"write", "flushall"}
        BY <1>10, <2>2, <4>4 DEF sendReplyToClient, Received, TypeOK
      <4> QED BY <4>1, <4>2, <4>3, <4>4
    <3>4. buf' \in [Slaves -> Seq(Item)] /\ ev' \in [Slaves -> {"none", "reply", "bulk"}]
      BY <1>10, <2>2, <3>1 DEF sendReplyToClient, TypeOK
    <3> QED BY <1>10, <3>2, <3>3, <3>4 DEF sendReplyToClient, TypeOK
  <2> QED BY <2>1, <2>2
<1>11. ASSUME NEW s \in Slaves, sendBulkToSlave(s) PROVE TypeOK'
  BY <1>11 DEF sendBulkToSlave, TypeOK, State
<1>12. CASE UNCHANGED vars
  BY <1>12 DEF vars, conns, TypeOK
<1> QED BY <1>1, <1>2, <1>3, <1>4, <1>5, <1>6, <1>7, <1>8, <1>9, <1>10, <1>11,
           <1>12 DEF Next

\* Every variable keeps its type: SELECT names a database that exists, what is
\* sent is well formed, and a dump is a data set.
THEOREM TypeCorrect == Spec => []TypeOK
BY InitTypes, NextTypes, PTL DEF Spec

-----------------------------------------------------------------------------
(* Waiting for a save.                                                     *)

LEMMA ForkMakesChild == Fork => child' # NoChild
BY DEF Fork, NoChild

LEMMA StepStartComes == TypeOK /\ StartComes /\ [Next]_vars => StartComes'
<1> SUFFICES ASSUME TypeOK, StartComes, [Next]_vars PROVE StartComes'
  OBVIOUS
<1> USE DEF StartComes, TypeOK
<1>1. ASSUME NEW d \in Dbs, WriteCommand(d) PROVE StartComes'
  BY <1>1 DEF WriteCommand
<1>2. ASSUME NEW d \in Dbs, flushallCommand(d) PROVE StartComes'
  BY <1>2 DEF flushallCommand, NoChild, Child
<1>3. CASE bgsaveCommand
  BY <1>3, ForkMakesChild DEF bgsaveCommand, conns
<1>4. CASE ChildNext
  BY <1>4 DEF ChildNext, ChildSaves, ChildFails, ChildKilled, conns, NoChild, Child
<1>5. CASE backgroundSaveDoneHandler
  BY <1>5 DEF backgroundSaveDoneHandler, updateSlavesWaitingBgsave, Waiting
<1>6. ASSUME NEW s \in Slaves,
             \/ accept(s) \/ freeClient(s) \/ addReply(s) \/ sendReplyToClient(s)
             \/ sendBulkToSlave(s)
      PROVE StartComes'
  BY <1>6 DEF accept, freeClient, addReply, sendReplyToClient, sendBulkToSlave, Freed
<1>7. ASSUME NEW s \in Slaves, syncCommand(s) PROVE StartComes'
  BY <1>7, ForkMakesChild DEF syncCommand, syncJoins, syncWaits, syncForks
<1>8. CASE UNCHANGED vars
  BY <1>8 DEF vars, conns
<1> QED BY <1>1, <1>2, <1>3, <1>4, <1>5, <1>6, <1>7, <1>8 DEF Next

\* A slave that waits for the start of a save has a running save to wait for,
\* whatever fails.
THEOREM StartAlwaysComes == Spec => []StartComes
<1>1. Init => StartComes
  BY DEF Init, StartComes
<1> QED BY <1>1, TypeCorrect, StepStartComes, PTL DEF Spec

LEMMA StepEndComes ==
  ASSUME ~ForkFails
  PROVE  TypeOK /\ EndComes /\ [Next]_vars => EndComes'
<1> SUFFICES ASSUME TypeOK, EndComes, [Next]_vars PROVE EndComes'
  OBVIOUS
<1> USE DEF EndComes, TypeOK
<1>1. ASSUME NEW d \in Dbs, WriteCommand(d) PROVE EndComes'
  BY <1>1 DEF WriteCommand
<1>2. ASSUME NEW d \in Dbs, flushallCommand(d) PROVE EndComes'
  BY <1>2 DEF flushallCommand, NoChild, Child
<1>3. CASE bgsaveCommand
  BY <1>3, ForkMakesChild DEF bgsaveCommand, conns
<1>4. CASE ChildNext
  BY <1>4 DEF ChildNext, ChildSaves, ChildFails, ChildKilled, conns, NoChild, Child
<1>5. CASE backgroundSaveDoneHandler
  BY <1>5, ForkMakesChild
     DEF backgroundSaveDoneHandler, updateSlavesWaitingBgsave, Waiting
<1>6. ASSUME NEW s \in Slaves,
             \/ accept(s) \/ freeClient(s) \/ addReply(s) \/ sendReplyToClient(s)
             \/ sendBulkToSlave(s)
      PROVE EndComes'
  BY <1>6 DEF accept, freeClient, addReply, sendReplyToClient, sendBulkToSlave, Freed
<1>7. ASSUME NEW s \in Slaves, syncCommand(s) PROVE EndComes'
  BY <1>7, ForkMakesChild DEF syncCommand, syncJoins, syncWaits, syncForks
<1>8. CASE UNCHANGED vars
  BY <1>8 DEF vars, conns
<1> QED BY <1>1, <1>2, <1>3, <1>4, <1>5, <1>6, <1>7, <1>8 DEF Next

\* When fork() does not fail, a slave that waits for the end of a save has a
\* running save to wait for.
THEOREM EndAlwaysComes ==
  ASSUME ~ForkFails
  PROVE  Spec => []EndComes
<1>1. Init => EndComes
  BY DEF Init, EndComes
<1> QED BY <1>1, TypeCorrect, StepEndComes, PTL DEF Spec

-----------------------------------------------------------------------------
(* Output.                                                                 *)

LEMMA StepOutputScheduled ==
  TypeOK /\ OutputScheduled /\ [Next]_vars => OutputScheduled'
<1> SUFFICES ASSUME TypeOK, OutputScheduled, [Next]_vars PROVE OutputScheduled'
  OBVIOUS
<1> USE DEF OutputScheduled, TypeOK
<1>1. ASSUME NEW d \in Dbs, WriteCommand(d) PROVE OutputScheduled'
  BY <1>1 DEF WriteCommand, replicationFeedSlaves, InstallWriteEvent, Fed
<1>2. ASSUME NEW d \in Dbs, flushallCommand(d) PROVE OutputScheduled'
  BY <1>2 DEF flushallCommand, replicationFeedSlaves, InstallWriteEvent, Fed
<1>3. CASE bgsaveCommand \/ ChildNext
  BY <1>3 DEF bgsaveCommand, ChildNext, ChildSaves, ChildFails, ChildKilled, conns
<1>4. CASE backgroundSaveDoneHandler
  BY <1>4 DEF backgroundSaveDoneHandler, updateSlavesWaitingBgsave, Waiting, Freed
<1>5. ASSUME NEW s \in Slaves, accept(s) \/ freeClient(s) PROVE OutputScheduled'
  BY <1>5 DEF accept, freeClient, Freed
<1>6. ASSUME NEW s \in Slaves, addReply(s) PROVE OutputScheduled'
  BY <1>6 DEF addReply, InstallWriteEvent
<1>7. ASSUME NEW s \in Slaves, syncCommand(s) PROVE OutputScheduled'
  BY <1>7 DEF syncCommand, syncJoins, syncWaits, syncForks
<1>8. ASSUME NEW s \in Slaves, sendReplyToClient(s) PROVE OutputScheduled'
  BY <1>8 DEF sendReplyToClient
<1>9. ASSUME NEW s \in Slaves, sendBulkToSlave(s) PROVE OutputScheduled'
  BY <1>9 DEF sendBulkToSlave
<1>10. CASE UNCHANGED vars
  BY <1>10 DEF vars, conns
<1> QED BY <1>1, <1>2, <1>3, <1>4, <1>5, <1>6, <1>7, <1>8, <1>9, <1>10 DEF Next

\* The buffer of a slave that is online is always on its way out.
THEOREM OutputAlwaysScheduled == Spec => []OutputScheduled
<1>1. Init => OutputScheduled
  BY DEF Init, OutputScheduled
<1> QED BY <1>1, TypeCorrect, StepOutputScheduled, PTL DEF Spec

\* What makes NothingBeforeDump inductive: before SYNC nothing is scheduled.
Quiet ==
  \A s \in Slaves :
    st[s] \in {"closed", "none", "wait_start", "wait_end"} => ev[s] = "none"

LEMMA StepQuiet ==
  ASSUME ~Pipelines
  PROVE  TypeOK /\ Quiet /\ [Next]_vars => Quiet'
<1> SUFFICES ASSUME TypeOK, Quiet, [Next]_vars PROVE Quiet'
  OBVIOUS
<1> USE DEF Quiet, TypeOK
<1>1. ASSUME NEW d \in Dbs, WriteCommand(d) PROVE Quiet'
  BY <1>1 DEF WriteCommand, replicationFeedSlaves, InstallWriteEvent, Fed
<1>2. ASSUME NEW d \in Dbs, flushallCommand(d) PROVE Quiet'
  BY <1>2 DEF flushallCommand, replicationFeedSlaves, InstallWriteEvent, Fed
<1>3. CASE bgsaveCommand \/ ChildNext
  BY <1>3 DEF bgsaveCommand, ChildNext, ChildSaves, ChildFails, ChildKilled, conns
<1>4. CASE backgroundSaveDoneHandler
  BY <1>4 DEF backgroundSaveDoneHandler, updateSlavesWaitingBgsave, Waiting, Freed
<1>5. ASSUME NEW s \in Slaves, accept(s) \/ freeClient(s) \/ addReply(s) PROVE Quiet'
  BY <1>5 DEF accept, freeClient, addReply, Freed
<1>6. ASSUME NEW s \in Slaves, syncCommand(s) PROVE Quiet'
  BY <1>6 DEF syncCommand, syncJoins, syncWaits, syncForks
<1>7. ASSUME NEW s \in Slaves, sendReplyToClient(s) \/ sendBulkToSlave(s)
      PROVE Quiet'
  BY <1>7 DEF sendReplyToClient, sendBulkToSlave
<1>8. CASE UNCHANGED vars
  BY <1>8 DEF vars, conns
<1> QED BY <1>1, <1>2, <1>3, <1>4, <1>5, <1>6, <1>7, <1>8 DEF Next

\* When SYNC is the first thing a slave sends, nothing goes out to it before
\* its dump.
THEOREM NothingEverBeforeDump ==
  ASSUME ~Pipelines
  PROVE  Spec => []NothingBeforeDump
<1>1. Init => Quiet
  BY DEF Init, Quiet
<1>2. Quiet => NothingBeforeDump
  BY DEF Quiet, NothingBeforeDump
<1> QED BY <1>1, <1>2, TypeCorrect, StepQuiet, PTL DEF Spec

-----------------------------------------------------------------------------
(* What a slave is sent brings it to the data of the master.               *)

\* What an item of a buffer does at the slave's end to the database selected
\* there, and to the data set: what Received does, once the dump is loaded.
Selects(i, d) == IF i.t = "select" THEN i.v ELSE d

Applies(x, i, d) ==
  IF i.t = "write" THEN Append(x, [n |-> i.v, d |-> d])
  ELSE IF i.t = "flushall" THEN <<>> ELSE x

\* Playing the items of b, from data set x with database d selected, leads to
\* data set y with database e selected.  The function db names the database
\* selected after each item, set the data after each; what came before a
\* FLUSHALL, at k, does not matter (k = 0: there need be none).
Replays(b, x, d, y, e) ==
  \E db \in [0..Len(b) -> Dbs], set \in [0..Len(b) -> Seq(Write)], k \in 0..Len(b) :
    /\ db[0] = d /\ db[Len(b)] = e /\ set[Len(b)] = y
    /\ \A i \in 1..Len(b) : db[i] = Selects(b[i], db[i - 1])
    /\ k = 0 => set[0] = x
    /\ k > 0 => b[k].t = "flushall" /\ set[k] = <<>>
    /\ \A i \in (k + 1)..Len(b) : set[i] = Applies(set[i - 1], b[i], db[i - 1])

\* An empty buffer leads nowhere ...
LEMMA ReplaysNothing ==
  ASSUME NEW x \in Seq(Write), NEW d \in Dbs
  PROVE  Replays(<<>>, x, d, x, d)
<1> DEFINE db == [i \in 0..0 |-> d]
           set == [i \in 0..0 |-> x]
<1>1. db \in [0..0 -> Dbs] /\ set \in [0..0 -> Seq(Write)] /\ Len(<<>>) = 0
  OBVIOUS
<1>2. /\ db[0] = d /\ set[0] = x
      /\ 0 \in 0..0 /\ 1..0 = {} /\ (0 + 1)..0 = {}
  OBVIOUS
<1> HIDE DEF db, set
<1> SUFFICES \E f \in [0..0 -> Dbs], g \in [0..0 -> Seq(Write)], k \in 0..0 :
      /\ f[0] = d /\ f[0] = d /\ g[0] = x
      /\ \A i \in 1..0 : f[i] = Selects(<<>>[i], f[i - 1])
      /\ k = 0 => g[0] = x
      /\ k > 0 => <<>>[k].t = "flushall" /\ g[k] = <<>>
      /\ \A i \in (k + 1)..0 : g[i] = Applies(g[i - 1], <<>>[i], f[i - 1])
  BY <1>1 DEF Replays
<1> USE <1>1, <1>2
<1> WITNESS db \in [0..0 -> Dbs], set \in [0..0 -> Seq(Write)], 0 \in 0..0
<1> QED OBVIOUS

\* ... and nowhere else.
LEMMA NothingReplays ==
  ASSUME NEW x, NEW d, NEW y, NEW e, Replays(<<>>, x, d, y, e)
  PROVE  x = y /\ d = e
<1>1. Len(<<>>) = 0
  OBVIOUS
<1> QED BY <1>1 DEF Replays

\* An item makes a data set of a data set, and selects a database.
LEMMA AppliesType ==
  ASSUME NEW x \in Seq(Write), NEW i \in Item, NEW d \in Dbs
  PROVE  Applies(x, i, d) \in Seq(Write) /\ Selects(i, d) \in Dbs
<1>1. CASE i.t = "write"
  <2>1. i.v \in Nat
    BY <1>1 DEF Item
  <2>2. [n |-> i.v, d |-> d] \in Write
    BY <2>1 DEF Write
  <2> QED BY <1>1, <2>2 DEF Applies, Selects
<1>2. CASE i.t # "write"
  BY <1>2 DEF Applies, Selects, Item
<1> QED BY <1>1, <1>2

\* An item added to the buffer is played last.
LEMMA ReplaysOneMore ==
  ASSUME NEW b \in Seq(Item), NEW x, NEW d, NEW y, NEW e, NEW i \in Item,
         Replays(b, x, d, y, e)
  PROVE  Replays(Append(b, i), x, d, Applies(y, i, e), Selects(i, e))
<1>1. PICK db \in [0..Len(b) -> Dbs], set \in [0..Len(b) -> Seq(Write)], k \in 0..Len(b) :
        /\ db[0] = d /\ db[Len(b)] = e /\ set[Len(b)] = y
        /\ \A j \in 1..Len(b) : db[j] = Selects(b[j], db[j - 1])
        /\ k = 0 => set[0] = x
        /\ k > 0 => b[k].t = "flushall" /\ set[k] = <<>>
        /\ \A j \in (k + 1)..Len(b) : set[j] = Applies(set[j - 1], b[j], db[j - 1])
  BY DEF Replays
<1> DEFINE c == Append(b, i)
           n == Len(b) + 1
           db2 == [j \in 0..n |-> IF j = n THEN Selects(i, e) ELSE db[j]]
           set2 == [j \in 0..n |-> IF j = n THEN Applies(y, i, e) ELSE set[j]]
<1>2. Len(b) \in Nat /\ Len(c) = n /\ c[n] = i /\ \A j \in 1..Len(b) : c[j] = b[j]
  OBVIOUS
<1>3. y \in Seq(Write) /\ e \in Dbs
  BY <1>1, <1>2
<1>4. db2 \in [0..n -> Dbs] /\ set2 \in [0..n -> Seq(Write)]
  BY <1>1, <1>2, <1>3, AppliesType
<1>5. k \in 0..n
  BY <1>2
<1>6. /\ db2[0] = d /\ db2[n] = Selects(i, e) /\ set2[n] = Applies(y, i, e)
      /\ k = 0 => set2[0] = x
      /\ k > 0 => c[k].t = "flushall" /\ set2[k] = <<>>
  BY <1>1, <1>2
<1>7. \A j \in 1..n : db2[j] = Selects(c[j], db2[j - 1])
  BY <1>1, <1>2
<1>8. ASSUME NEW j \in (k + 1)..n
      PROVE  set2[j] = Applies(set2[j - 1], c[j], db2[j - 1])
  <2>1. j \in 1..n /\ j - 1 \in 0..Len(b) /\ j - 1 # n
    BY <1>2
  <2>2. set2[j - 1] = set[j - 1] /\ db2[j - 1] = db[j - 1]
    BY <1>2, <2>1
  <2>3. CASE j = n
    BY <1>1, <1>2, <2>1, <2>2, <2>3
  <2>4. CASE j # n
    <3>1. j \in (k + 1)..Len(b) /\ j \in 0..n /\ j \in 1..Len(b)
      BY <1>2, <2>4
    <3>2. set2[j] = set[j] /\ c[j] = b[j]
      BY <1>2, <2>4, <3>1
    <3> HIDE DEF set2, db2, c
    <3> QED BY <1>1, <2>2, <3>1, <3>2
  <2> QED BY <2>3, <2>4
<1> HIDE DEF db2, set2, c, n
<1> SUFFICES Replays(c, x, d, Applies(y, i, e), Selects(i, e))
  BY DEF c
<1> SUFFICES \E f \in [0..Len(c) -> Dbs], g \in [0..Len(c) -> Seq(Write)], l \in 0..Len(c) :
      /\ f[0] = d /\ f[Len(c)] = Selects(i, e) /\ g[Len(c)] = Applies(y, i, e)
      /\ \A j \in 1..Len(c) : f[j] = Selects(c[j], f[j - 1])
      /\ l = 0 => g[0] = x
      /\ l > 0 => c[l].t = "flushall" /\ g[l] = <<>>
      /\ \A j \in (l + 1)..Len(c) : g[j] = Applies(g[j - 1], c[j], f[j - 1])
  BY Zenon DEF Replays
<1> USE <1>2, <1>4, <1>5
<1> WITNESS db2 \in [0..Len(c) -> Dbs], set2 \in [0..Len(c) -> Seq(Write)], k \in 0..Len(c)
<1> QED BY <1>2, <1>4, <1>5, <1>6, <1>7, <1>8

\* A FLUSHALL added to the buffer makes it lead to no data, from anywhere.
LEMMA ReplaysFlushall ==
  ASSUME NEW b \in Seq(Item), NEW x, NEW d, NEW y, NEW e, NEW z,
         Replays(b, x, d, y, e)
  PROVE  Replays(Append(b, [t |-> "flushall"]), z, d, <<>>, e)
<1>1. PICK db \in [0..Len(b) -> Dbs] :
        /\ db[0] = d /\ db[Len(b)] = e
        /\ \A j \in 1..Len(b) : db[j] = Selects(b[j], db[j - 1])
  BY DEF Replays
<1> DEFINE c == Append(b, [t |-> "flushall"])
           n == Len(b) + 1
           db2 == [j \in 0..n |-> IF j = n THEN e ELSE db[j]]
           set2 == [j \in 0..n |-> <<>>]
<1>2. /\ Len(b) \in Nat /\ Len(c) = n /\ c[n].t = "flushall"
      /\ \A j \in 1..Len(b) : c[j] = b[j]
  OBVIOUS
<1>3. db2 \in [0..n -> Dbs] /\ set2 \in [0..n -> Seq(Write)]
  BY <1>1, <1>2
<1>4. n \in 0..n /\ n > 0 /\ set2[n] = <<>>
  BY <1>2
<1>5. db2[0] = d /\ db2[n] = e /\ \A j \in 1..n : db2[j] = Selects(c[j], db2[j - 1])
  BY <1>1, <1>2 DEF Selects
<1>6. (n + 1)..n = {}
  BY <1>2
<1> HIDE DEF db2, set2, c, n
<1> SUFFICES Replays(c, z, d, <<>>, e)
  BY DEF c
<1> SUFFICES \E f \in [0..Len(c) -> Dbs], g \in [0..Len(c) -> Seq(Write)], l \in 0..Len(c) :
      /\ f[0] = d /\ f[Len(c)] = e /\ g[Len(c)] = <<>>
      /\ \A j \in 1..Len(c) : f[j] = Selects(c[j], f[j - 1])
      /\ l = 0 => g[0] = z
      /\ l > 0 => c[l].t = "flushall" /\ g[l] = <<>>
      /\ \A j \in (l + 1)..Len(c) : g[j] = Applies(g[j - 1], c[j], f[j - 1])
  BY Zenon DEF Replays
<1> USE <1>2, <1>3, <1>4
<1> WITNESS db2 \in [0..Len(c) -> Dbs], set2 \in [0..Len(c) -> Seq(Write)], Len(c) \in 0..Len(c)
<1> QED BY <1>2, <1>3, <1>4, <1>5, <1>6

\* An item taken from the buffer was to be played first.
LEMMA ReplaysTail ==
  ASSUME NEW b \in Seq(Item), b # <<>>, NEW x \in Seq(Write), NEW d \in Dbs, NEW y, NEW e,
         Replays(b, x, d, y, e)
  PROVE  Replays(Tail(b), Applies(x, Head(b), d), Selects(Head(b), d), y, e)
<1>1. PICK db \in [0..Len(b) -> Dbs], set \in [0..Len(b) -> Seq(Write)], k \in 0..Len(b) :
        /\ db[0] = d /\ db[Len(b)] = e /\ set[Len(b)] = y
        /\ \A j \in 1..Len(b) : db[j] = Selects(b[j], db[j - 1])
        /\ k = 0 => set[0] = x
        /\ k > 0 => b[k].t = "flushall" /\ set[k] = <<>>
        /\ \A j \in (k + 1)..Len(b) : set[j] = Applies(set[j - 1], b[j], db[j - 1])
  BY DEF Replays
<1> DEFINE c == Tail(b)
           n == Len(b) - 1
           m == IF k = 0 THEN 0 ELSE k - 1
           db2 == [j \in 0..n |-> db[j + 1]]
           set2 == [j \in 0..n |-> set[j + 1]]
<1>2. /\ Len(b) \in Nat /\ n \in Nat /\ Len(c) = n /\ Head(b) = b[1]
      /\ \A j \in 1..n : c[j] = b[j + 1]
  OBVIOUS
<1>3. db2 \in [0..n -> Dbs] /\ set2 \in [0..n -> Seq(Write)] /\ m \in 0..n
  BY <1>1, <1>2
<1>4. db2[0] = Selects(b[1], d) /\ db2[n] = e /\ set2[n] = y
  BY <1>1, <1>2
<1>5. \A j \in 1..n : db2[j] = Selects(c[j], db2[j - 1])
  BY <1>1, <1>2
<1>6. m > 0 => c[m].t = "flushall" /\ set2[m] = <<>>
  BY <1>1, <1>2
<1>7. m = 0 => set2[0] = Applies(x, b[1], d)
  <2>1. CASE k = 0
    BY <1>1, <1>2, <2>1
  <2>2. CASE k = 1
    BY <1>1, <1>2, <2>2 DEF Applies
  <2> QED BY <1>2, <2>1, <2>2
<1>8. ASSUME NEW j \in (m + 1)..n
      PROVE  set2[j] = Applies(set2[j - 1], c[j], db2[j - 1])
  <2>1. j \in 1..n /\ j - 1 \in 0..n /\ j \in 0..n /\ j + 1 \in (k + 1)..Len(b)
    BY <1>2, <1>3
  <2>2. (j + 1) - 1 = j /\ (j - 1) + 1 = j
    BY <2>1
  <2>3. set2[j] = set[j + 1] /\ set2[j - 1] = set[j] /\ db2[j - 1] = db[j]
    BY <2>1, <2>2
  <2>4. c[j] = b[j + 1]
    BY <1>2, <2>1
  <2> HIDE DEF set2, db2, c, m
  <2>5. set[j + 1] = Applies(set[(j + 1) - 1], b[j + 1], db[(j + 1) - 1])
    BY <1>1, <2>1
  <2> QED BY <2>2, <2>3, <2>4, <2>5
<1> HIDE DEF db2, set2, c, n, m
<1> SUFFICES Replays(c, Applies(x, Head(b), d), Selects(Head(b), d), y, e)
  BY DEF c
<1> SUFFICES \E f \in [0..Len(c) -> Dbs], g \in [0..Len(c) -> Seq(Write)], l \in 0..Len(c) :
      /\ f[0] = Selects(Head(b), d) /\ f[Len(c)] = e /\ g[Len(c)] = y
      /\ \A j \in 1..Len(c) : f[j] = Selects(c[j], f[j - 1])
      /\ l = 0 => g[0] = Applies(x, Head(b), d)
      /\ l > 0 => c[l].t = "flushall" /\ g[l] = <<>>
      /\ \A j \in (l + 1)..Len(c) : g[j] = Applies(g[j - 1], c[j], f[j - 1])
  BY Zenon DEF Replays
<1> USE <1>2, <1>3
<1> WITNESS db2 \in [0..Len(c) -> Dbs], set2 \in [0..Len(c) -> Seq(Write)], m \in 0..Len(c)
<1> QED BY <1>2, <1>4, <1>5, <1>6, <1>7, <1>8

\* Selecting the database a command runs in changes no data.
LEMMA SelectingReplays ==
  ASSUME TypeOK, NEW s \in Slaves, NEW d \in Dbs, NEW x, NEW e,
         Replays(buf[s], x, e, data, seldb[s])
  PROVE  /\ buf[s] \o Selecting(s, d) \in Seq(Item)
         /\ Replays(buf[s] \o Selecting(s, d), x, e, data, d)
<1> DEFINE i == [t |-> "select", v |-> d]
<1>1. buf[s] \in Seq(Item) /\ i \in Item
  BY DEF TypeOK, Item
<1>2. CASE seldb[s] = d
  <2>1. Selecting(s, d) = <<>> /\ buf[s] \o <<>> = buf[s]
    BY <1>1, <1>2 DEF Selecting
  <2> QED BY <1>1, <1>2, <2>1
<1>3. CASE seldb[s] # d
  <2>1. Selecting(s, d) = <<i>> /\ buf[s] \o <<i>> = Append(buf[s], i)
    BY <1>1, <1>3 DEF Selecting
  <2>2. Applies(data, i, seldb[s]) = data /\ Selects(i, seldb[s]) = d
    BY DEF Applies, Selects
  <2>3. Replays(Append(buf[s], i), x, e, data, d)
    BY <1>1, <2>2, ReplaysOneMore
  <2>4. Append(buf[s], i) \in Seq(Item)
    BY <1>1
  <2> HIDE DEF i
  <2> QED BY <2>1, <2>3, <2>4
<1> QED BY <1>2, <1>3

\* What a slave is fed with a write brings it to the data with that write.
LEMMA WriteReplays ==
  ASSUME TypeOK, NEW d \in Dbs, WriteCommand(d), NEW s \in Slaves, Fed(s), NEW x, NEW e,
         Replays(buf[s], x, e, data, seldb[s])
  PROVE  Replays(buf'[s], x, e, data', seldb'[s])
<1> DEFINE i == [t |-> "write", v |-> count']
           b == buf[s] \o Selecting(s, d)
<1>1. count' \in Nat /\ i \in Item
  BY DEF WriteCommand, TypeOK, Item
<1>2. b \in Seq(Item) /\ Replays(b, x, e, data, d)
  BY SelectingReplays
<1>3. /\ buf'[s] = b \o <<i>> /\ seldb'[s] = d
      /\ data' = Append(data, [n |-> count', d |-> d])
  BY DEF WriteCommand, replicationFeedSlaves
<1>4. b \o <<i>> = Append(b, i)
  BY <1>1, <1>2
<1>5. Applies(data, i, d) = Append(data, [n |-> count', d |-> d]) /\ Selects(i, d) = d
  BY DEF Applies, Selects
<1> HIDE DEF b, i
<1>6. Replays(Append(b, i), x, e, Applies(data, i, d), Selects(i, d))
  BY <1>1, <1>2, ReplaysOneMore
<1> QED BY <1>3, <1>4, <1>5, <1>6

\* After a FLUSHALL it does not matter what the slave started from.
LEMMA FlushallReplays ==
  ASSUME TypeOK, NEW d \in Dbs, flushallCommand(d), NEW s \in Slaves, Fed(s),
         NEW x, NEW e, NEW z, Replays(buf[s], x, e, data, seldb[s])
  PROVE  Replays(buf'[s], z, e, data', seldb'[s])
<1> DEFINE i == [t |-> "flushall"]
           b == buf[s] \o Selecting(s, d)
<1>1. i \in Item
  BY DEF Item
<1>2. b \in Seq(Item) /\ Replays(b, x, e, data, d)
  BY SelectingReplays
<1>3. buf'[s] = b \o <<i>> /\ seldb'[s] = d /\ data' = <<>>
  BY DEF flushallCommand, replicationFeedSlaves
<1>4. b \o <<i>> = Append(b, i)
  BY <1>1, <1>2
<1> HIDE DEF b
<1>5. Replays(Append(b, i), z, e, <<>>, d)
  BY <1>2, ReplaysFlushall
<1> QED BY <1>3, <1>4, <1>5

\* Playing its buffer on top of x brings slave s to the data of the master.
Brings(s, x) == x \in Seq(Write) /\ Replays(buf[s], x, imgdb[s], data, seldb[s])

\* Before it is online a slave has selected nothing, and before its dump is
\* being made nothing is collected for it.
Fresh(s) ==
  /\ st[s] # "online" => imgdb[s] = 0
  /\ st[s] \in {"closed", "none", "wait_start"} => buf[s] = <<>>
  /\ st[s] = "wait_start" => seldb[s] = 0

\* A slave that is online, or is being sent a file, is brought to the data of
\* the master from what it has, or is sent.
Sent(s) ==
  /\ st[s] = "online" => Brings(s, img[s])
  /\ st[s] = "send_bulk" => Brings(s, bulk[s])

\* A slave that waits for the end of a save is brought there from what the
\* save writes or has written, or from any file when a FLUSHALL killed it.
Collecting(s) ==
  st[s] = "wait_end" =>
    /\ child.end = "running" => Brings(s, child.snap)
    /\ child.end = "ok" => Brings(s, dump)
    /\ child.end = "signal" => \A z \in Seq(Write) : Brings(s, z)

\* What makes CaughtUpIsInSync inductive.
SyncInv ==
  /\ TypeOK /\ EndComes /\ Quiet /\ OutputScheduled
  /\ \A s \in Slaves : Fresh(s) /\ Sent(s) /\ Collecting(s)

\* What stands for no file is no data set.
LEMMA NoFileIsNoData == NoFile \notin Seq(Write)
<1>1. SUFFICES ASSUME NoFile \in Seq(Write) PROVE FALSE
  OBVIOUS
<1>2. NoFile[1] \in Write
  BY <1>1 DEF NoFile
<1>3. -1 \in Dbs
  BY <1>2 DEF NoFile, Write
<1> QED BY <1>3, DbsAssumption

\* A step that leaves a slave's connection, the data and the save alone leaves
\* its part of the invariant alone.
LEMMA Untouched ==
  ASSUME NEW s \in Slaves, Fresh(s), Sent(s), Collecting(s),
         st'[s] = st[s], buf'[s] = buf[s], seldb'[s] = seldb[s],
         imgdb'[s] = imgdb[s], img'[s] = img[s], bulk'[s] = bulk[s],
         UNCHANGED <<data, dump, child>>
  PROVE  Fresh(s)' /\ Sent(s)' /\ Collecting(s)'
BY DEF Fresh, Sent, Collecting, Brings

\* A write reaches every slave that is fed.
LEMMA WriteSync ==
  ASSUME SyncInv, NEW d \in Dbs, WriteCommand(d), NEW s \in Slaves
  PROVE  Fresh(s)' /\ Sent(s)' /\ Collecting(s)'
<1> TypeOK /\ Fresh(s) /\ Sent(s) /\ Collecting(s)
  BY DEF SyncInv
<1>1. /\ UNCHANGED <<dump, child, st, bulk, img, imgdb>>
      /\ ~Fed(s) => buf'[s] = buf[s] /\ seldb'[s] = seldb[s]
  BY DEF WriteCommand, replicationFeedSlaves
<1>2. ASSUME NEW x, Brings(s, x), Fed(s) PROVE Brings(s, x)'
  BY <1>1, <1>2, WriteReplays DEF Brings
<1>3. Fresh(s)'
  BY <1>1 DEF Fresh, Fed
<1>4. Sent(s)'
  BY <1>1, <1>2 DEF Sent, Fed
<1>5. Collecting(s)'
  BY <1>1, <1>2 DEF Collecting, Fed
<1> QED BY <1>3, <1>4, <1>5

\* FLUSHALL kills a save that runs, and may put an empty file in the place of the
\* one a save has just written: its buffer brings a slave there from any.
LEMMA FlushallSync ==
  ASSUME SyncInv, NEW d \in Dbs, flushallCommand(d), NEW s \in Slaves
  PROVE  Fresh(s)' /\ Sent(s)' /\ Collecting(s)'
<1> TypeOK /\ EndComes /\ Fresh(s) /\ Sent(s) /\ Collecting(s)
  BY DEF SyncInv
<1>1. /\ UNCHANGED <<st, bulk, img, imgdb>>
      /\ ~Fed(s) => buf'[s] = buf[s] /\ seldb'[s] = seldb[s]
      /\ dump' = dump \/ dump' = <<>>
  BY FlagsAssumption DEF flushallCommand, replicationFeedSlaves
<1>2. ASSUME NEW x, Brings(s, x), Fed(s), NEW z \in Seq(Write) PROVE Brings(s, z)'
  BY <1>1, <1>2, FlushallReplays DEF Brings
<1>3. Fresh(s)'
  BY <1>1 DEF Fresh, Fed
<1>4. Sent(s)'
  BY <1>1, <1>2 DEF Sent, Fed, Brings
<1>5. ASSUME st[s] = "wait_end"
      PROVE  /\ child.end = "running" => child'.end = "signal"
             /\ child.end # "running" => child' = child
             /\ child.end \in {"running", "ok", "error", "signal"}
  BY <1>5 DEF flushallCommand, EndComes, TypeOK, Child
<1>6. Collecting(s)'
  <2>1. SUFFICES ASSUME st[s] = "wait_end" PROVE Collecting(s)'
    BY <1>1 DEF Collecting
  <2>2. Fed(s)
    BY <2>1 DEF Fed
  <2>3. CASE child.end \in {"running", "ok"}
    <3>1. PICK x : Brings(s, x)
      BY <2>1, <2>3 DEF Collecting
    <3>2. \A z \in Seq(Write) : Brings(s, z)'
      BY <1>2, <2>2, <3>1
    <3>3. child.end = "ok" => dump' \in Seq(Write)
      <4>1. <<>> \in Seq(Write)
        OBVIOUS
      <4> QED BY <1>1, <2>1, <4>1 DEF Collecting, Brings
    <3> QED BY <1>5, <2>1, <2>3, <3>2, <3>3 DEF Collecting
  <2>4. CASE child.end = "signal"
    <3>1. data \in Seq(Write) /\ Brings(s, data)
      BY <2>1, <2>4 DEF Collecting, TypeOK
    <3>2. \A z \in Seq(Write) : Brings(s, z)'
      BY <1>2, <2>2, <3>1
    <3> QED BY <1>5, <2>1, <2>4, <3>2 DEF Collecting
  <2>5. CASE child.end = "error"
    BY <1>5, <2>1, <2>5 DEF Collecting
  <2> QED BY <1>5, <2>1, <2>3, <2>4, <2>5
<1> QED BY <1>3, <1>4, <1>6

\* Nothing to play, and both at database 0: the slave is there already.
LEMMA BringsFromData ==
  ASSUME TypeOK, NEW s \in Slaves, buf[s] = <<>>, imgdb[s] = 0, seldb[s] = 0
  PROVE  Brings(s, data)
BY ReplaysNothing, DbsAssumption DEF Brings, TypeOK

\* The save ends well, badly, or not at all: the slaves that wait for it.
LEMMA ChildSync ==
  ASSUME ~Kills, SyncInv, ChildNext, NEW s \in Slaves
  PROVE  Fresh(s)' /\ Sent(s)' /\ Collecting(s)'
<1> TypeOK /\ Fresh(s) /\ Sent(s) /\ Collecting(s)
  BY DEF SyncInv
<1>1. UNCHANGED <<data, conns>>
  BY DEF ChildNext, ChildSaves, ChildFails, ChildKilled
<1>2. Fresh(s)' /\ Sent(s)'
  BY <1>1 DEF conns, Fresh, Sent, Brings
<1>3. \A x : Brings(s, x) => Brings(s, x)'
  BY <1>1 DEF conns, Brings
<1>4. child \in Child /\ child.end = "running"
  BY DEF ChildNext, ChildSaves, ChildFails, ChildKilled, TypeOK, NoChild
<1>5. CASE ChildSaves
  <2>1. child'.end = "ok" /\ dump' = child.snap
    BY <1>4, <1>5 DEF ChildSaves, Child
  <2> QED BY <1>1, <1>2, <1>3, <1>4, <2>1 DEF Collecting, conns
<1>6. CASE ChildFails
  <2>1. child'.end = "error"
    BY <1>4, <1>6 DEF ChildFails, Child
  <2> QED BY <1>1, <1>2, <2>1 DEF Collecting, conns
<1> QED BY <1>5, <1>6 DEF ChildNext, ChildKilled

\* The end of a save: the slaves that waited for it are sent the file or closed,
\* and those that waited for the next one have collected nothing.
LEMMA DoneSync ==
  ASSUME ~ForkFails, SyncInv, backgroundSaveDoneHandler, NEW s \in Slaves
  PROVE  Fresh(s)' /\ Sent(s)' /\ Collecting(s)'
<1> TypeOK /\ EndComes /\ Fresh(s) /\ Sent(s) /\ Collecting(s)
  BY DEF SyncInv
<1>1. PICK opened \in SUBSET Waiting("wait_end") :
        updateSlavesWaitingBgsave(child.end # "error", opened)
  BY DEF backgroundSaveDoneHandler
<1>2. UNCHANGED <<data, dump, img>>
  BY DEF backgroundSaveDoneHandler
<1>3. child \in Child /\ child.end \in {"ok", "error", "signal"}
  BY DEF backgroundSaveDoneHandler, TypeOK, Child
<1>4. CASE s \in opened
  <2>1. st[s] = "wait_end" /\ child.end # "error" /\ dump # NoFile
    BY <1>1, <1>4 DEF updateSlavesWaitingBgsave, Waiting
  <2>2. /\ st'[s] = "send_bulk" /\ bulk'[s] = dump
        /\ buf'[s] = buf[s] /\ seldb'[s] = seldb[s] /\ imgdb'[s] = imgdb[s]
    BY <1>1, <1>4 DEF updateSlavesWaitingBgsave, Freed
  <2>3. dump \in Seq(Write)
    BY <2>1 DEF TypeOK
  <2>4. Brings(s, dump)
    BY <1>3, <2>1, <2>3 DEF Collecting
  <2>5. Brings(s, dump)'
    BY <1>2, <2>2, <2>4 DEF Brings
  <2>6. Sent(s)'
    BY <1>2, <2>2, <2>5 DEF Sent
  <2>7. imgdb[s] = 0
    BY <2>1 DEF Fresh
  <2> QED BY <2>2, <2>6, <2>7 DEF Fresh, Collecting
<1>5. CASE st[s] = "wait_end" /\ s \notin opened
  <2>1. st'[s] = "closed" /\ buf'[s] = <<>> /\ imgdb'[s] = 0
    BY <1>1, <1>5 DEF updateSlavesWaitingBgsave, Freed, Waiting
  <2> QED BY <2>1 DEF Fresh, Sent, Collecting
<1>6. CASE st[s] = "wait_start"
  <2>1. s \notin opened /\ s \notin Waiting("wait_end") /\ s \in Waiting("wait_start")
    BY <1>1, <1>6 DEF Waiting
  <2>2. /\ st'[s] = "wait_end" /\ buf'[s] = buf[s]
        /\ seldb'[s] = seldb[s] /\ imgdb'[s] = imgdb[s]
    BY <1>1, <2>1 DEF updateSlavesWaitingBgsave, Freed
  <2>3. child' = [snap |-> data, end |-> "running"]
    BY <1>1, <2>1, FlagsAssumption DEF updateSlavesWaitingBgsave, Fork
  <2>4. Brings(s, data)
    BY <1>6, BringsFromData DEF Fresh
  <2>5. Brings(s, data)'
    BY <1>2, <2>2, <2>4 DEF Brings
  <2>6. imgdb[s] = 0
    BY <1>6 DEF Fresh
  <2> QED BY <1>2, <2>2, <2>3, <2>5, <2>6 DEF Fresh, Sent, Collecting
<1>7. CASE st[s] \notin {"wait_start", "wait_end"}
  <2>1. s \notin opened /\ s \notin Waiting("wait_end") /\ s \notin Waiting("wait_start")
    BY <1>1, <1>7 DEF Waiting
  <2>2. /\ st'[s] = st[s] /\ bulk'[s] = bulk[s]
        /\ buf'[s] = buf[s] /\ seldb'[s] = seldb[s] /\ imgdb'[s] = imgdb[s]
    BY <1>1, <2>1 DEF updateSlavesWaitingBgsave, Freed
  <2>3. \A x : Brings(s, x) => Brings(s, x)'
    BY <1>2, <2>2 DEF Brings
  <2> QED BY <1>2, <1>7, <2>2, <2>3 DEF Fresh, Sent, Collecting
<1> QED BY <1>4, <1>5, <1>6, <1>7

\* SYNC.  A slave that joins copies what another one has collected since the
\* fork, which plays from database 0: the other's must end there.
LEMMA SyncSync ==
  ASSUME ~Joins, SyncInv, NEW c \in Slaves, syncCommand(c), NEW s \in Slaves
  PROVE  Fresh(s)' /\ Sent(s)' /\ Collecting(s)'
<1> TypeOK /\ EndComes /\ Fresh(s) /\ Sent(s) /\ Collecting(s)
  BY DEF SyncInv
<1>1. /\ st[c] = "none" /\ UNCHANGED <<count, data, dump, ev, bulk, img, imgdb>>
      /\ c # s => st'[s] = st[s] /\ buf'[s] = buf[s] /\ seldb'[s] = seldb[s]
      /\ child' = child \/ child = NoChild
  BY DEF syncCommand, syncJoins, syncWaits, syncForks, TypeOK
<1>2. CASE c # s
  <2>1. CASE child' = child
    BY <1>1, <1>2, <2>1, Untouched
  <2>2. CASE child = NoChild
    <3>1. st[s] # "wait_end"
      BY <2>2 DEF EndComes
    <3>2. \A x : Brings(s, x) => Brings(s, x)'
      BY <1>1, <1>2 DEF Brings
    <3> QED BY <1>1, <1>2, <3>1, <3>2 DEF Fresh, Sent, Collecting
  <2> QED BY <1>1, <2>1, <2>2
<1>3. CASE c = s
  <2>1. buf[s] = <<>> /\ imgdb[s] = 0 /\ imgdb'[s] = 0
    BY <1>1, <1>3 DEF Fresh
  <2>2. CASE syncJoins(s)
    <3>1. PICK o \in Slaves : st[o] = "wait_end" /\ seldb[o] = 0 /\ buf'[s] = buf[o]
      BY <2>2 DEF syncJoins, TypeOK
    <3>2. /\ st'[s] = "wait_end" /\ seldb'[s] = 0 /\ child' = child
      BY <2>2 DEF syncJoins, TypeOK
    <3>3. Fresh(o) /\ Collecting(o)
      BY DEF SyncInv
    <3>4. imgdb[o] = 0
      BY <3>1, <3>3 DEF Fresh
    <3>5. \A x : Brings(o, x) => Brings(s, x)'
      BY <1>1, <2>1, <3>1, <3>2, <3>4 DEF Brings
    <3>6. Collecting(s)'
      BY <1>1, <3>1, <3>2, <3>3, <3>5 DEF Collecting
    <3> QED BY <2>1, <3>2, <3>6 DEF Fresh, Sent
  <2>3. CASE syncWaits(s)
    <3>1. st'[s] = "wait_start" /\ buf' = buf /\ seldb'[s] = 0
      BY <2>3 DEF syncWaits, TypeOK
    <3> QED BY <2>1, <3>1 DEF Fresh, Sent, Collecting
  <2>4. CASE syncForks(s)
    <3>1. /\ st'[s] = "wait_end" /\ buf' = buf /\ seldb'[s] = 0
          /\ child' = [snap |-> data, end |-> "running"]
      BY <2>4 DEF syncForks, Fork, TypeOK
    <3>2. data \in Seq(Write) /\ 0 \in Dbs
      BY DbsAssumption DEF TypeOK
    <3>3. Brings(s, data)'
      BY <1>1, <2>1, <3>1, <3>2, ReplaysNothing DEF Brings
    <3> QED BY <1>1, <2>1, <3>1, <3>3 DEF Fresh, Sent, Collecting
  <2> QED BY <1>3, <2>2, <2>3, <2>4 DEF syncCommand
<1> QED BY <1>2, <1>3

\* An item leaves the buffer and is played at the other end.
LEMMA ReplySync ==
  ASSUME SyncInv, NEW c \in Slaves, sendReplyToClient(c), NEW s \in Slaves
  PROVE  Fresh(s)' /\ Sent(s)' /\ Collecting(s)'
<1> TypeOK /\ Quiet /\ OutputScheduled /\ Fresh(s) /\ Sent(s) /\ Collecting(s)
  BY DEF SyncInv
<1>1. UNCHANGED <<count, data, dump, child, st, seldb, bulk>>
  BY DEF sendReplyToClient
<1>2. st[c] = "online"
  BY DEF sendReplyToClient, Quiet, OutputScheduled, TypeOK, State
<1>3. CASE c # s \/ buf[c] = <<>>
  <2>1. buf'[s] = buf[s] /\ img'[s] = img[s] /\ imgdb'[s] = imgdb[s]
    BY <1>3 DEF sendReplyToClient, Received, TypeOK
  <2> QED BY <1>1, <2>1, Untouched
<1>4. CASE c = s /\ buf[s] # <<>>
  <2> DEFINE i == Head(buf[s])
  <2>1. i \in Item /\ buf[s] \in Seq(Item)
    BY <1>4 DEF TypeOK
  <2>2. Brings(s, img[s])
    BY <1>2, <1>4 DEF Sent
  <2>3. img[s] # NoFile
    BY <2>2, NoFileIsNoData DEF Brings
  <2>4. Received(s, i) /\ buf'[s] = Tail(buf[s])
    BY <1>4 DEF sendReplyToClient, TypeOK
  <2>5. imgdb'[s] = Selects(i, imgdb[s])
    BY <2>4 DEF Received, Selects, TypeOK
  <2>6. img'[s] = Applies(img[s], i, imgdb[s])
    BY <2>3, <2>4 DEF Received, Applies, TypeOK
  <2>7. imgdb[s] \in Dbs
    BY DEF TypeOK
  <2>8. Applies(img[s], i, imgdb[s]) \in Seq(Write)
    BY <2>1, <2>2, <2>7, AppliesType DEF Brings
  <2>9. Replays(Tail(buf[s]), img'[s], imgdb'[s], data, seldb[s])
    BY <1>4, <2>1, <2>2, <2>5, <2>6, <2>7, ReplaysTail DEF Brings
  <2>10. Brings(s, img[s])'
    BY <1>1, <2>4, <2>6, <2>8, <2>9 DEF Brings
  <2> QED BY <1>1, <1>2, <1>4, <2>10 DEF Fresh, Sent, Collecting
<1> QED BY <1>3, <1>4

\* The dump is loaded.
LEMMA BulkSync ==
  ASSUME SyncInv, NEW c \in Slaves, sendBulkToSlave(c), NEW s \in Slaves
  PROVE  Fresh(s)' /\ Sent(s)' /\ Collecting(s)'
<1> TypeOK /\ Fresh(s) /\ Sent(s) /\ Collecting(s)
  BY DEF SyncInv
<1>1. CASE c # s
  BY <1>1, Untouched DEF sendBulkToSlave, TypeOK
<1>2. CASE c = s
  <2>1. /\ st[s] = "send_bulk" /\ st'[s] = "online" /\ img'[s] = bulk[s]
        /\ UNCHANGED <<data, seldb, buf, imgdb>>
    BY <1>2 DEF sendBulkToSlave, TypeOK
  <2>2. Brings(s, img[s])'
    BY <2>1 DEF Sent, Brings
  <2> QED BY <2>1, <2>2 DEF Fresh, Sent, Collecting
<1> QED BY <1>1, <1>2

\* SyncInv is inductive.
LEMMA NextSync ==
  ASSUME ~ForkFails, ~Kills, ~Pipelines, ~Joins
  PROVE  SyncInv /\ [Next]_vars => SyncInv'
<1> SUFFICES ASSUME SyncInv, [Next]_vars PROVE SyncInv'
  OBVIOUS
<1>1. TypeOK' /\ EndComes' /\ Quiet' /\ OutputScheduled'
  BY NextTypes, StepEndComes, StepQuiet, StepOutputScheduled DEF SyncInv
<1> SUFFICES ASSUME NEW s \in Slaves PROVE Fresh(s)' /\ Sent(s)' /\ Collecting(s)'
  BY <1>1 DEF SyncInv
<1> DEFINE Goal == Fresh(s)' /\ Sent(s)' /\ Collecting(s)'
<1> TypeOK /\ EndComes /\ Fresh(s) /\ Sent(s) /\ Collecting(s)
  BY DEF SyncInv
<1>2. ASSUME NEW d \in Dbs, WriteCommand(d) \/ flushallCommand(d) PROVE Goal
  BY <1>2, WriteSync, FlushallSync
<1>3. CASE bgsaveCommand
  <2>1. st[s] # "wait_end"
    BY <1>3 DEF bgsaveCommand, EndComes
  <2> QED BY <1>3, <2>1 DEF bgsaveCommand, conns, Fresh, Sent, Collecting, Brings
<1>4. CASE ChildNext \/ backgroundSaveDoneHandler
  BY <1>4, ChildSync, DoneSync
<1>5. ASSUME NEW c \in Slaves, accept(c) PROVE Goal
  <2>1. CASE c # s
    BY <1>5, <2>1, Untouched DEF accept, TypeOK
  <2>2. CASE c = s
    <3>1. st[s] = "closed" /\ st'[s] = "none" /\ UNCHANGED <<buf, imgdb>>
      BY <1>5, <2>2 DEF accept, TypeOK
    <3> QED BY <3>1 DEF Fresh, Sent, Collecting
  <2> QED BY <2>1, <2>2
<1>6. ASSUME NEW c \in Slaves, freeClient(c) PROVE Goal
  <2>1. CASE c # s
    BY <1>6, <2>1, Untouched DEF freeClient, Freed
  <2>2. CASE c = s
    <3>1. st'[s] = "closed" /\ buf'[s] = <<>> /\ imgdb'[s] = 0
      BY <1>6, <2>2 DEF freeClient, Freed
    <3> QED BY <3>1 DEF Fresh, Sent, Collecting
  <2> QED BY <2>1, <2>2
<1>7. ASSUME NEW c \in Slaves, syncCommand(c) PROVE Goal
  BY <1>7, SyncSync
<1>8. ASSUME NEW c \in Slaves, sendReplyToClient(c) \/ sendBulkToSlave(c) PROVE Goal
  BY <1>8, ReplySync, BulkSync
<1>9. CASE UNCHANGED vars
  BY <1>9, Untouched DEF vars, conns
<1>10. \A c \in Slaves : ~addReply(c)
  BY DEF addReply
<1> QED BY <1>2, <1>3, <1>4, <1>5, <1>6, <1>7, <1>8, <1>9, <1>10 DEF Next

\* While fork() works, no signal from outside kills the save, SYNC is the first
\* thing a slave sends, and no slave joins one that has another database than 0
\* selected, a slave that has been sent all there is for it has exactly the data
\* of the master: through saves that fail, FLUSHALL, slaves that come and go and
\* slaves that copy what others have collected.
THEOREM CaughtUpIsAlwaysInSync ==
  ASSUME ~ForkFails, ~Kills, ~Pipelines, ~Joins
  PROVE  Spec => []CaughtUpIsInSync
<1>1. Init => SyncInv
  <2> SUFFICES ASSUME Init PROVE SyncInv
    OBVIOUS
  <2>1. TypeOK
    BY InitTypes
  <2> QED BY <2>1 DEF Init, SyncInv, EndComes, Quiet, OutputScheduled, Fresh, Sent,
                      Collecting
<1>2. SyncInv => CaughtUpIsInSync
  BY NothingReplays DEF SyncInv, Sent, Brings, CaughtUpIsInSync
<1> QED BY <1>1, <1>2, NextSync, PTL DEF Spec
=============================================================================
