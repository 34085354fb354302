--------------------------- MODULE DataSetProofs ---------------------------
(***************************************************************************)
(* Proofs about the data set of a slave and about the saving of a data     *)
(* set, the two halves of MCDataSet.                                       *)
(*                                                                         *)
(* First the slave's half of replication, for every set of masters and     *)
(* descriptors, any length of a dump and any number of connections.        *)
(*                                                                         *)
(* Then what SavingProofs proves of Saving, for the behaviours of          *)
(* MCDataSet.  P is Saving with its proofs, in the variables of MCDataSet; *)
(* S, the instance of MCDataSet, is the same specification, which the      *)
(* lemmas Same... say definition by definition, since to the provers its   *)
(* operators are others.                                                   *)
(***************************************************************************)
EXTENDS MCDataSet, TLAPS

Handler == {"syncWithMaster", "readSyncBulkPayload", "readQueryFromClient"}

-----------------------------------------------------------------------------
(* Types.                                                                  *)

LEMMA ClosedIsNoSocket == Closed \notin Socket /\ Closed.ev \notin Handler
BY NobodyAssumption DEF Closed, Socket, Handler

LEMMA HandledIsSocket ==
  ASSUME NEW l \in Link, NEW f \in Fds, l.sock[f].ev \in Handler
  PROVE  l.sock[f] \in Socket
BY ClosedIsNoSocket DEF Link

LEMMA CloseTypes ==
  ASSUME NEW l \in Link, NEW F
  PROVE  Close(l, F) \in Link
BY DEF Close, Link

LEMMA GiveUpTypes ==
  ASSUME NEW l \in Link
  PROVE  /\ replicationAbortSyncTransfer(l) \in Link
         /\ undoConnectWithMaster(l) \in Link
         /\ freeMaster(l) \in Link
         /\ GivenUp(l) \in Link
<1>1. replicationAbortSyncTransfer(l) \in Link
  <2>1. Close(l, {l.s}) \in Link
    BY CloseTypes
  <2> QED BY <2>1 DEF replicationAbortSyncTransfer, Crash, Link
<1>2. undoConnectWithMaster(l) \in Link
  <2>1. Close(l, {l.s}) \in Link
    BY CloseTypes
  <2> QED BY <2>1 DEF undoConnectWithMaster, Link
<1>3. freeMaster(l) \in Link
  <2>1. Close(l, Handles(l, "readQueryFromClient")) \in Link
    BY CloseTypes
  <2> QED BY <2>1 DEF freeMaster, Link
<1> QED BY <1>1, <1>2, <1>3 DEF GivenUp

LEMMA NextTypes == TypeOK /\ [Next]_vars => TypeOK'
<1> SUFFICES ASSUME TypeOK, [Next]_vars PROVE TypeOK'
  OBVIOUS
<1>0. /\ link \in Link /\ masterhost \in Masters \cup {Nobody} /\ syncs \in Nat
      /\ data \in Data /\ dump \in Data /\ aof \in Data
      /\ bgsave \in Data \cup {Nothing} /\ rewrite \in Data \cup {Nothing}
      /\ sub \in Data \cup {Nothing} /\ loading \in BOOLEAN
  BY DEF TypeOK
<1>1. ASSUME NEW m \in Masters, slaveofCommand(m) PROVE TypeOK'
  <2> DEFINE l == freeMaster(link)
             k == IF l.state = "TRANSFER" THEN replicationAbortSyncTransfer(l) ELSE l
  <2>1. k \in Link
    BY <1>0, GiveUpTypes
  <2>2. link' = [k EXCEPT !.state = "CONNECT"]
    BY <1>1 DEF slaveofCommand
  <2>3. link' \in Link
    BY <2>1, <2>2 DEF Link
  <2> QED BY <1>0, <1>1, <2>3 DEF slaveofCommand, freeSlaves, files, TypeOK
<1>2. CASE slaveofNoOne
  <2>1. GivenUp(freeMaster(link)) \in Link
    BY <1>0, GiveUpTypes
  <2>2. link' \in Link
    BY <1>2, <2>1 DEF slaveofNoOne, Link
  <2> QED BY <1>0, <1>2, <2>2 DEF slaveofNoOne, freeSlaves, files, TypeOK
<1>3. CASE replicationCron
  <2>1. PICK l \in Link : connectWithMaster(l)
    BY <1>0, <1>3, GiveUpTypes DEF replicationCron
  <2>2. masterhost \in Masters
    BY <1>0, <1>3 DEF replicationCron
  <2>3. link' \in Link /\ syncs' \in Nat
    <3>1. CASE link' = l /\ UNCHANGED syncs
      BY <1>0, <3>1
    <3>2. ASSUME NEW f \in Fds,
                 link' = [l EXCEPT !.state = "CONNECTING", !.s = f,
                           !.sock[f] = [to |-> masterhost, n |-> syncs + 1,
                                        ev |-> "syncWithMaster"]],
                 syncs' = syncs + 1
          PROVE link' \in Link /\ syncs' \in Nat
      <4>1. [to |-> masterhost, n |-> syncs + 1, ev |-> "syncWithMaster"] \in Socket
        BY <1>0, <2>2 DEF Socket
      <4> DEFINE Q == [l.sock EXCEPT ![f] = [to |-> masterhost, n |-> syncs + 1,
                                             ev |-> "syncWithMaster"]]
      <4>2. Q \in [Fds -> Socket \cup {Closed}]
        BY <4>1 DEF Link
      <4>3. link' = [l EXCEPT !.state = "CONNECTING", !.s = f, !.sock = Q]
        BY <3>2 DEF Link
      <4> HIDE DEF Q
      <4>4. f \in Fds \cup {NoFd}
        OBVIOUS
      <4>5. link' \in Link
        BY <4>2, <4>3, <4>4 DEF Link
      <4> QED BY <1>0, <3>2, <4>5
    <3> QED BY <2>1, <3>1, <3>2 DEF connectWithMaster
  <2>4. sub' \in Data \cup {Nothing}
    BY <1>0, <1>3 DEF replicationCron, freeSlaves
  <2> QED BY <1>0, <1>3, <2>3, <2>4 DEF replicationCron, files, TypeOK
<1>4. ASSUME NEW f \in Fds, syncWithMaster(f) PROVE TypeOK'
  <2>1. Close(link, {f}) \in Link /\ link.sock[f] \in Socket
    BY <1>0, <1>4, CloseTypes, HandledIsSocket DEF syncWithMaster, Handler
  <2>2. [link.sock[f] EXCEPT !.ev = "readSyncBulkPayload"] \in Socket
    BY <2>1 DEF Socket
  <2>3. <<>> \in Data /\ NoLen \in Int
    BY DEF Data, NoLen
  <2>4. link' \in Link
    <3> DEFINE Q == [link.sock EXCEPT ![f] = [@ EXCEPT !.ev = "readSyncBulkPayload"]]
    <3>1. Q \in [Fds -> Socket \cup {Closed}]
      BY <1>0, <2>2 DEF Link
    <3>2. CASE link' = Close(link, {f})
      BY <2>1, <3>2
    <3>3. CASE link' = [Close(link, {f}) EXCEPT !.state = "CONNECT"]
      BY <2>1, <3>3 DEF Link
    <3>4. CASE link' = [link EXCEPT !.state = "TRANSFER", !.left = NoLen, !.tmp = <<>>,
                                    !.sock[f].ev = "readSyncBulkPayload"]
      <4>1. link' = [link EXCEPT !.state = "TRANSFER", !.left = NoLen, !.tmp = <<>>,
                                 !.sock = Q]
        BY <1>0, <3>4 DEF Link
      <4> HIDE DEF Q
      <4> QED BY <1>0, <2>3, <3>1, <4>1 DEF Link
    <3> QED BY <1>4, <3>2, <3>3, <3>4 DEF syncWithMaster
  <2> QED BY <1>0, <1>4, <2>4 DEF syncWithMaster, files, TypeOK
<1>5. ASSUME NEW f \in Fds, readBulkCount(f) PROVE TypeOK'
  <2>1. link' \in Link
    BY <1>0, <1>5, BoundsAssumption DEF readBulkCount, Link
  <2> QED BY <1>0, <1>5, <2>1 DEF readBulkCount, files, TypeOK
<1>6. ASSUME NEW f \in Fds, readBulkData(f) PROVE TypeOK'
  <2> DEFINE c == [m |-> link.sock[f].to, n |-> link.sock[f].n]
  <2>1. c \in [m : Masters, n : Nat]
    BY <1>0, <1>6, HandledIsSocket DEF readBulkData, Handler, Socket
  <2>2. Append(link.tmp, c) \in Data
    BY <1>0, <1>6, <2>1 DEF readBulkData, Link, Data
  <2>3. link' = [link EXCEPT !.left = @ - 1, !.tmp = Append(@, c)]
    BY <1>6 DEF readBulkData
  <2>4. link' \in Link /\ link'.tmp \in Data
    <3> DEFINE T == Append(link.tmp, c)
    <3>1. link' = [link EXCEPT !.left = @ - 1, !.tmp = T]
      BY <2>3
    <3> HIDE DEF T
    <3>2. T \in Data
      BY <2>2 DEF T
    <3>3. T \in Data \cup {Nothing} /\ link.left - 1 \in Int
      BY <1>0, <3>2 DEF Link
    <3>4. link' \in Link
      BY <1>0, <3>1, <3>3 DEF Link
    <3>5. link'.tmp = T
      BY <1>0, <3>1 DEF Link
    <3> QED BY <3>2, <3>4, <3>5
  <2> QED BY <1>0, <1>6, <2>4 DEF readBulkData, TypeOK
<1>7. ASSUME NEW f \in Fds, readFails(f) PROVE TypeOK'
  BY <1>0, <1>7, GiveUpTypes DEF readFails, files, TypeOK
<1>8. CASE rdbLoad
  <2>1. MasterClient(link) \in Link
    <3>1. CASE link.s = NoFd \/ link.sock[link.s] = Closed
      BY <1>0, <3>1 DEF MasterClient, Crash, Link
    <3>2. CASE link.s # NoFd /\ link.sock[link.s] # Closed
      <4>1. link.s \in Fds /\ link.sock[link.s] \in Socket
        BY <1>0, <3>2 DEF Link
      <4>2. [link.sock[link.s] EXCEPT !.ev = "readQueryFromClient"] \in Socket
        BY <4>1 DEF Socket
      <4> QED BY <1>0, <3>2, <4>1, <4>2 DEF MasterClient, Link
    <3> QED BY <3>1, <3>2
  <2> QED BY <1>0, <1>8, <2>1 DEF rdbLoad, TypeOK
<1>9. CASE rdbLoadFails
  <2>1. <<>> \in Data
    BY DEF Data
  <2> QED BY <1>0, <1>9, <2>1, GiveUpTypes DEF rdbLoadFails, TypeOK
<1>10. CASE freeClient
  BY <1>0, <1>10, GiveUpTypes DEF freeClient, freeSlaves, files, TypeOK
<1>11. CASE rdbSaveBackground \/ ChildSaves
  BY <1>0, <1>11 DEF rdbSaveBackground, ChildSaves, TypeOK
<1>12. CASE rewriteAppendOnlyFileBackground \/ backgroundRewriteDoneHandler
  BY <1>0, <1>12 DEF rewriteAppendOnlyFileBackground, backgroundRewriteDoneHandler,
                     TypeOK
<1>13. CASE syncCommand \/ subLeaves
  BY <1>0, <1>13 DEF syncCommand, subLeaves, files, TypeOK
<1>14. CASE UNCHANGED vars
  BY <1>14 DEF vars, TypeOK
<1> QED BY <1>1, <1>2, <1>3, <1>4, <1>5, <1>6, <1>7, <1>8, <1>9, <1>10, <1>11,
           <1>12, <1>13, <1>14 DEF Next

LEMMA InitTypes == Init => TypeOK
<1>1. <<>> \in Data
  BY DEF Data
<1>2. Init => link \in Link
  BY DEF Init, Link, NoFd, NoLen
<1>3. Init => syncs \in Nat
  BY SMT DEF Init
<1>4. Init => loading \in BOOLEAN
  BY Zenon DEF Init
<1> QED BY <1>1, <1>2, <1>3, <1>4 DEF Init, TypeOK

\* Every variable keeps its type, with SLAVEOF at any time and every failure.
THEOREM TypeCorrect == Spec => []TypeOK
BY InitTypes, NextTypes, PTL DEF Spec
-----------------------------------------------------------------------------
(* The state of the link and its sockets.                                  *)

Shut(l) == \A f \in Fds : l.sock[f] = Closed

Only(l, h, handler) ==
  /\ l.s \in Fds /\ l.sock[l.s] # Closed
  /\ l.sock[l.s].ev = handler /\ l.sock[l.s].to = h
  /\ \A f \in Fds : f # l.s => l.sock[f] = Closed

\* LinkSound of a link to host h, without the set of open sockets.
Sound(l, h) ==
  /\ l.state = "NONE" <=> h = Nobody
  /\ l.state # "CRASHED"
  /\ l.state \in {"NONE", "CONNECT"} => Shut(l)
  /\ l.state = "CONNECTING" => Only(l, h, "syncWithMaster")
  /\ l.state = "TRANSFER" => Only(l, h, "readSyncBulkPayload")
  /\ l.state = "CONNECTED" => Only(l, h, "readQueryFromClient")

SoundInv == Sound(link, masterhost) /\ (loading => link.state = "TRANSFER")

LEMMA CloseShuts ==
  ASSUME NEW l \in Link, NEW F, \A f \in Fds : f \notin F => l.sock[f] = Closed
  PROVE  Shut(Close(l, F)) /\ Close(l, F).state = l.state
BY DEF Close, Shut, Link

LEMMA Restate ==
  ASSUME NEW l \in Link, NEW st
  PROVE  /\ [l EXCEPT !.state = st].state = st
         /\ Shut(l) => Shut([l EXCEPT !.state = st])
BY DEF Shut, Link

LEMMA ShutIsSound ==
  ASSUME NEW l, NEW h, Shut(l),
         \/ l.state = "NONE" /\ h = Nobody
         \/ l.state = "CONNECT" /\ h # Nobody
  PROVE  Sound(l, h)
BY DEF Sound

\* The handler of an open socket gives the state away.
LEMMA StateOfHandler ==
  ASSUME NEW l \in Link, NEW h, Sound(l, h), NEW f \in Fds
  PROVE  /\ l.sock[f].ev = "syncWithMaster" => l.state = "CONNECTING" /\ f = l.s
         /\ l.sock[f].ev = "readSyncBulkPayload" => l.state = "TRANSFER" /\ f = l.s
         /\ l.sock[f].ev = "readQueryFromClient" => l.state = "CONNECTED" /\ f = l.s
<1>1. Closed.ev = "none"
  BY DEF Closed
<1>2. l.state \in {"NONE", "CONNECT", "CONNECTING", "TRANSFER", "CONNECTED"}
  BY DEF Link, Sound
<1>3. CASE l.state \in {"NONE", "CONNECT"}
  BY <1>1, <1>3 DEF Sound, Shut
<1>4. CASE l.state = "CONNECTING"
  BY <1>1, <1>4 DEF Sound, Only
<1>5. CASE l.state = "TRANSFER"
  BY <1>1, <1>5 DEF Sound, Only
<1>6. CASE l.state = "CONNECTED"
  BY <1>1, <1>6 DEF Sound, Only
<1> QED BY <1>2, <1>3, <1>4, <1>5, <1>6

LEMMA Released ==
  ASSUME NEW l \in Link, NEW h, Sound(l, h)
  PROVE  /\ HasMaster(l) <=> l.state = "CONNECTED"
         /\ l.state = "CONNECTED" =>
              Shut(freeMaster(l)) /\ freeMaster(l).state = "CONNECT"
         /\ l.state # "CONNECTED" => freeMaster(l) = l
         /\ l.state = "TRANSFER" =>
              /\ Shut(replicationAbortSyncTransfer(l))
              /\ replicationAbortSyncTransfer(l).state = "CONNECT"
         /\ l.state = "CONNECTING" =>
              Shut(undoConnectWithMaster(l)) /\ undoConnectWithMaster(l).state = "CONNECT"
<1>1. HasMaster(l) <=> l.state = "CONNECTED"
  <2>1. HasMaster(l) => l.state = "CONNECTED"
    BY StateOfHandler DEF HasMaster, Handles
  <2>2. l.state = "CONNECTED" => l.s \in Handles(l, "readQueryFromClient")
    BY DEF Sound, Only, Handles
  <2> QED BY <2>1, <2>2 DEF HasMaster
<1>2. l.state # "CONNECTED" => freeMaster(l) = l
  BY <1>1 DEF freeMaster
<1>3. ASSUME l.state = "CONNECTED"
      PROVE Shut(freeMaster(l)) /\ freeMaster(l).state = "CONNECT"
  <2> DEFINE F == Handles(l, "readQueryFromClient")
  <2>1. \A f \in Fds : f \notin F => l.sock[f] = Closed
    BY <1>3 DEF Sound, Only, Handles
  <2>2. Shut(Close(l, F)) /\ Close(l, F) \in Link
    BY <2>1, CloseShuts, CloseTypes
  <2> QED BY <1>1, <1>3, <2>2, Restate DEF freeMaster
<1>4. ASSUME l.state = "TRANSFER"
      PROVE /\ Shut(replicationAbortSyncTransfer(l))
            /\ replicationAbortSyncTransfer(l).state = "CONNECT"
  <2>1. \A f \in Fds : f \notin {l.s} => l.sock[f] = Closed
    BY <1>4 DEF Sound, Only
  <2>2. Shut(Close(l, {l.s})) /\ Close(l, {l.s}) \in Link
    BY <2>1, CloseShuts, CloseTypes
  <2> QED BY <1>4, <2>2 DEF replicationAbortSyncTransfer, Shut, Link
<1>5. ASSUME l.state = "CONNECTING"
      PROVE Shut(undoConnectWithMaster(l)) /\ undoConnectWithMaster(l).state = "CONNECT"
  <2>1. \A f \in Fds : f \notin {l.s} => l.sock[f] = Closed
    BY <1>5 DEF Sound, Only
  <2>2. Shut(Close(l, {l.s})) /\ Close(l, {l.s}) \in Link
    BY <2>1, CloseShuts, CloseTypes
  <2> QED BY <2>2 DEF undoConnectWithMaster, Shut, Link
<1> QED BY <1>1, <1>2, <1>3, <1>4, <1>5

\* Whatever it was doing, the link is shut when it is given up.
LEMMA AllReleased ==
  ASSUME NEW l \in Link, NEW h, Sound(l, h)
  PROVE  /\ Shut(GivenUp(freeMaster(l)))
         /\ Shut(freeMaster(GivenUp(l)))
         /\ freeMaster(GivenUp(l)).state \in {"NONE", "CONNECT"}
         /\ freeMaster(GivenUp(l)).state = "NONE" => l.state = "NONE"
<1>1. l.state \in {"NONE", "CONNECT", "CONNECTING", "TRANSFER", "CONNECTED"}
  BY DEF Link, Sound
<1>2. ASSUME NEW k, Shut(k) PROVE freeMaster(k) = k
  BY <1>2 DEF freeMaster, HasMaster, Handles, Shut, Closed
<1>3. CASE l.state \in {"NONE", "CONNECT"}
  <2>1. Shut(l) /\ GivenUp(l) = l
    BY <1>3 DEF Sound, GivenUp
  <2> QED BY <1>2, <1>3, <2>1
<1>4. CASE l.state = "CONNECTED"
  <2>1. GivenUp(l) = l /\ Shut(freeMaster(l)) /\ freeMaster(l).state = "CONNECT"
    BY <1>4, Released DEF GivenUp
  <2>2. GivenUp(freeMaster(l)) = freeMaster(l)
    BY <2>1 DEF GivenUp
  <2> QED BY <1>4, <2>1, <2>2
<1>5. CASE l.state = "TRANSFER"
  <2>1. freeMaster(l) = l /\ GivenUp(l) = replicationAbortSyncTransfer(l)
    BY <1>5, Released DEF GivenUp
  <2> QED BY <1>2, <1>5, <2>1, Released
<1>6. CASE l.state = "CONNECTING"
  <2>1. freeMaster(l) = l /\ GivenUp(l) = undoConnectWithMaster(l)
    BY <1>6, Released DEF GivenUp
  <2> QED BY <1>2, <1>6, <2>1, Released
<1> QED BY <1>1, <1>3, <1>4, <1>5, <1>6
LEMMA NextSound == ~Impatient /\ TypeOK /\ SoundInv /\ [Next]_vars => SoundInv'
<1> SUFFICES ASSUME ~Impatient, TypeOK, SoundInv, [Next]_vars PROVE SoundInv'
  OBVIOUS
<1>0. /\ link \in Link /\ Sound(link, masterhost)
      /\ masterhost \in Masters \cup {Nobody} /\ syncs \in Nat
      /\ loading => link.state = "TRANSFER"
  BY DEF TypeOK, SoundInv
<1>s. ASSUME loading' = loading, ~loading, Sound(link', masterhost') PROVE SoundInv'
  BY <1>s DEF SoundInv
<1>1. ASSUME NEW m \in Masters, slaveofCommand(m) PROVE SoundInv'
  <2> DEFINE l == freeMaster(link)
             k == IF l.state = "TRANSFER" THEN replicationAbortSyncTransfer(l) ELSE l
  <2>1. link.state \in {"NONE", "CONNECT", "TRANSFER", "CONNECTED"}
    BY <1>0, <1>1 DEF slaveofCommand, Link, Sound
  <2>2. k \in Link /\ Shut(k)
    BY <1>0, <2>1, GiveUpTypes, Released DEF Sound
  <2>3. link' = [k EXCEPT !.state = "CONNECT"] /\ masterhost' = m
    BY <1>1 DEF slaveofCommand
  <2>4. Shut(link') /\ link'.state = "CONNECT"
    BY <2>2, <2>3, Restate
  <2>5. Sound(link', masterhost')
    BY <2>3, <2>4, ShutIsSound, NobodyAssumption
  <2> QED BY <1>s, <1>1, <2>5 DEF slaveofCommand, Serving
<1>2. CASE slaveofNoOne
  <2> DEFINE k == GivenUp(freeMaster(link))
  <2>1. k \in Link /\ Shut(k)
    BY <1>0, GiveUpTypes, AllReleased
  <2>2. link' = [k EXCEPT !.state = "NONE"] /\ masterhost' = Nobody
    BY <1>2 DEF slaveofNoOne
  <2>3. Shut(link') /\ link'.state = "NONE"
    BY <2>1, <2>2, Restate
  <2>4. Sound(link', masterhost')
    BY <2>2, <2>3, ShutIsSound
  <2> QED BY <1>s, <1>2, <2>4 DEF slaveofNoOne, Serving
<1>3. CASE replicationCron
  <2>1. PICK l \in Link : Shut(l) /\ l.state = "CONNECT" /\ connectWithMaster(l)
    BY <1>0, <1>3, GiveUpTypes, AllReleased DEF replicationCron, Sound
  <2>2. masterhost \in Masters /\ masterhost # Nobody /\ masterhost' = masterhost
    BY <1>0, <1>3 DEF replicationCron
  <2>3. CASE link' = l
    BY <2>1, <2>2, <2>3, <1>s, <1>3, ShutIsSound DEF replicationCron, Serving
  <2>4. ASSUME NEW f \in Fds,
               link' = [l EXCEPT !.state = "CONNECTING", !.s = f,
                           !.sock[f] = [to |-> masterhost, n |-> syncs + 1,
                                        ev |-> "syncWithMaster"]]
        PROVE SoundInv'
    <3> DEFINE c == [to |-> masterhost, n |-> syncs + 1, ev |-> "syncWithMaster"]
    <3>1. link'.state = "CONNECTING" /\ link'.s = f
      BY <2>4 DEF Link
    <3>2. link'.sock = [l.sock EXCEPT ![f] = c]
      BY <2>4 DEF Link
    <3>3. link'.sock[f] = c /\ \A g \in Fds : g # f => link'.sock[g] = l.sock[g]
      BY <3>2 DEF Link
    <3>4. c # Closed /\ c.ev = "syncWithMaster" /\ c.to = masterhost
      BY <2>2 DEF Closed
    <3>5. Only(link', masterhost', "syncWithMaster")
      BY <2>1, <2>2, <3>1, <3>3, <3>4 DEF Only, Shut
    <3>6. Sound(link', masterhost')
      BY <2>2, <3>1, <3>5 DEF Sound
    <3> QED BY <1>s, <1>3, <3>6 DEF replicationCron, Serving
  <2> QED BY <2>1, <2>3, <2>4 DEF connectWithMaster
<1>4. ASSUME NEW f \in Fds, syncWithMaster(f) PROVE SoundInv'
  <2>1. link.state = "CONNECTING" /\ f = link.s /\ masterhost # Nobody
    BY <1>0, <1>4, StateOfHandler DEF syncWithMaster, Sound
  <2>2. Only(link, masterhost, "syncWithMaster") /\ UNCHANGED masterhost
    BY <1>0, <1>4, <2>1 DEF Sound, syncWithMaster
  <2>3. CASE link' = [Close(link, {f}) EXCEPT !.state = "CONNECT"]
    <3>1. Shut(Close(link, {f})) /\ Close(link, {f}) \in Link
      BY <1>0, <2>1, <2>2, CloseShuts, CloseTypes DEF Only
    <3>2. Shut(link') /\ link'.state = "CONNECT"
      BY <2>3, <3>1, Restate
    <3>3. Sound(link', masterhost')
      BY <2>1, <2>2, <3>2, ShutIsSound
    <3> QED BY <1>s, <1>4, <3>3 DEF syncWithMaster, Serving
  <2>4. CASE link' = [link EXCEPT !.state = "TRANSFER", !.left = NoLen, !.tmp = <<>>,
                                  !.sock[f].ev = "readSyncBulkPayload"]
    <3> DEFINE c == [link.sock[f] EXCEPT !.ev = "readSyncBulkPayload"]
    <3>1. link'.state = "TRANSFER" /\ link'.s = f /\ link'.sock = [link.sock EXCEPT ![f] = c]
      BY <1>0, <2>1, <2>4 DEF Link
    <3>2. link'.sock[f] = c /\ \A g \in Fds : g # f => link'.sock[g] = link.sock[g]
      BY <1>0, <3>1 DEF Link
    <3>3. link.sock[f] \in Socket
      BY <1>0, <1>4, HandledIsSocket DEF syncWithMaster, Handler
    <3>4. c # Closed /\ c.ev = "readSyncBulkPayload" /\ c.to = masterhost
      BY <2>1, <2>2, <3>3 DEF Closed, Socket, Only
    <3>5. Only(link', masterhost', "readSyncBulkPayload")
      BY <2>1, <2>2, <3>1, <3>2, <3>4 DEF Only
    <3>6. Sound(link', masterhost')
      BY <2>1, <2>2, <3>1, <3>5 DEF Sound
    <3> QED BY <1>s, <1>4, <3>6 DEF syncWithMaster, Serving
  <2> QED BY <1>4, <2>1, <2>3, <2>4 DEF syncWithMaster
<1>5. ASSUME NEW f \in Fds, readBulkCount(f) \/ readBulkData(f) PROVE SoundInv'
  <2>1. /\ link'.state = link.state /\ link'.s = link.s /\ link'.sock = link.sock
        /\ UNCHANGED masterhost
    BY <1>0, <1>5 DEF readBulkCount, readBulkData, Link
  <2>2. link.state = "TRANSFER"
    BY <1>0, <1>5, StateOfHandler DEF readBulkCount, readBulkData
  <2> QED BY <1>0, <2>1, <2>2 DEF SoundInv, Sound, Only, Shut
<1>6. ASSUME NEW f \in Fds, readFails(f) PROVE SoundInv'
  <2>1. link.state = "TRANSFER" /\ masterhost # Nobody
    BY <1>0, <1>6, StateOfHandler DEF readFails, Sound
  <2>2. Shut(link') /\ link'.state = "CONNECT" /\ UNCHANGED masterhost
    BY <1>0, <1>6, <2>1, Released DEF readFails
  <2> QED BY <1>s, <1>6, <2>1, <2>2, ShutIsSound DEF readFails, Serving
<1>7. CASE rdbLoad
  <2>1. /\ link.state = "TRANSFER" /\ masterhost # Nobody /\ UNCHANGED masterhost
        /\ Only(link, masterhost, "readSyncBulkPayload") /\ loading' = FALSE
    BY <1>0, <1>7 DEF rdbLoad, Sound
  <2>2. link.s \in Fds /\ link.s # NoFd
    BY <2>1, FdsAssumption DEF Only, NoFd
  <2> DEFINE f == link.s
             c == [link.sock[f] EXCEPT !.ev = "readQueryFromClient"]
  <2>3. link' = [link EXCEPT !.state = "CONNECTED", !.tmp = Nothing,
                             !.sock[f].ev = "readQueryFromClient"]
    BY <1>7, <2>1, <2>2 DEF rdbLoad, MasterClient, Only
  <2>4. link'.state = "CONNECTED" /\ link'.s = f /\ link'.sock = [link.sock EXCEPT ![f] = c]
    BY <1>0, <2>2, <2>3 DEF Link
  <2>5. link'.sock[f] = c /\ \A g \in Fds : g # f => link'.sock[g] = link.sock[g]
    BY <1>0, <2>2, <2>4 DEF Link
  <2>6. link.sock[f] \in Socket
    BY <1>0, <2>1, <2>2, HandledIsSocket DEF Handler, Only
  <2>7. c # Closed /\ c.ev = "readQueryFromClient" /\ c.to = masterhost
    BY <2>1, <2>6 DEF Closed, Socket, Only
  <2>8. Only(link', masterhost', "readQueryFromClient")
    BY <2>1, <2>2, <2>4, <2>5, <2>7 DEF Only
  <2> QED BY <2>1, <2>4, <2>8 DEF Sound, SoundInv
<1>8. CASE rdbLoadFails
  <2>1. link.state = "TRANSFER" /\ masterhost # Nobody
    BY <1>0, <1>8 DEF rdbLoadFails, Sound
  <2>2. Shut(link') /\ link'.state = "CONNECT" /\ UNCHANGED masterhost /\ ~loading'
    BY <1>0, <1>8, <2>1, Released DEF rdbLoadFails
  <2> QED BY <2>1, <2>2, ShutIsSound DEF SoundInv
<1>9. CASE freeClient
  <2>1. link.state = "CONNECTED" /\ masterhost # Nobody
    BY <1>0, <1>9, Released DEF freeClient, Sound
  <2>2. Shut(link') /\ link'.state = "CONNECT" /\ UNCHANGED masterhost
    BY <1>0, <1>9, <2>1, Released DEF freeClient
  <2> QED BY <1>s, <1>9, <2>1, <2>2, ShutIsSound DEF freeClient, Serving
<1>10. CASE UNCHANGED <<masterhost, link, loading>>
  BY <1>10 DEF SoundInv
<1> QED BY <1>1, <1>2, <1>3, <1>4, <1>5, <1>6, <1>7, <1>8, <1>9, <1>10
        DEF Next, vars, rdbSaveBackground, ChildSaves, rewriteAppendOnlyFileBackground,
            backgroundRewriteDoneHandler, syncCommand, subLeaves

LEMMA InitSound == Init => SoundInv
BY DEF Init, SoundInv, Sound, Shut

LEMMA SoundInvLinkSound == TypeOK /\ SoundInv => LinkSound
<1> SUFFICES ASSUME TypeOK, SoundInv PROVE LinkSound
  OBVIOUS
<1> DEFINE open == {f \in Fds : link.sock[f] # Closed}
<1>1. link \in Link /\ Sound(link, masterhost)
  BY DEF TypeOK, SoundInv
<1>2. Shut(link) => open = {}
  BY DEF Shut
<1>3. ASSUME NEW h, Only(link, masterhost, h)
      PROVE  open = {link.s} /\ link.sock[link.s].ev = h /\ link.sock[link.s].to = masterhost
  BY <1>3 DEF Only
<1>4. link.state \in {"NONE", "CONNECT", "CONNECTING", "TRANSFER", "CONNECTED"}
  BY <1>1 DEF Link, Sound
<1> HIDE DEF open
<1>5. link.state = "NONE" <=> masterhost = Nobody
  BY <1>1 DEF Sound
<1>6. link.state \in {"NONE", "CONNECT"} => open = {}
  BY <1>1, <1>2 DEF Sound
<1>7. /\ link.state = "CONNECTING" => /\ open = {link.s}
                                      /\ link.sock[link.s].ev = "syncWithMaster"
                                      /\ link.sock[link.s].to = masterhost
      /\ link.state = "TRANSFER" => /\ open = {link.s}
                                    /\ link.sock[link.s].ev = "readSyncBulkPayload"
                                    /\ link.sock[link.s].to = masterhost
      /\ link.state = "CONNECTED" => /\ open = {link.s}
                                     /\ link.sock[link.s].ev = "readQueryFromClient"
                                     /\ link.sock[link.s].to = masterhost
  BY <1>1, <1>3 DEF Sound
<1> QED BY <1>4, <1>5, <1>6, <1>7 DEF LinkSound, open, SoundInv

\* LinkSound, where SLAVEOF waits for a connection that is being made.  The
\* invariant is about one socket at a time.
THEOREM LinkAlwaysSound ==
  ASSUME ~Impatient
  PROVE  Spec => []LinkSound
<1>1. Init => TypeOK /\ SoundInv
  BY InitTypes, InitSound
<1>2. TypeOK /\ SoundInv /\ [Next]_vars => (TypeOK /\ SoundInv)'
  BY NextTypes, NextSound
<1>3. TypeOK /\ SoundInv => LinkSound
  BY SoundInvLinkSound
<1> QED BY <1>1, <1>2, <1>3, PTL DEF Spec

\* NoOneIsFinal, under the same condition: data is only replaced while
\* loading, a state the link of a server without a master is never in.
THEOREM NoOneIsAlwaysFinal ==
  ASSUME ~Impatient
  PROVE  Spec => NoOneIsFinal
<1>1. Init => TypeOK /\ SoundInv
  BY InitTypes, InitSound
<1>2. TypeOK /\ SoundInv /\ [Next]_vars => (TypeOK /\ SoundInv)'
  BY NextTypes, NextSound
<1>3. TypeOK /\ SoundInv /\ [Next]_vars => [masterhost = Nobody => data' = data]_vars
  <2> SUFFICES ASSUME SoundInv, Next, masterhost = Nobody PROVE data' = data
    OBVIOUS
  <2>1. ~loading
    BY DEF SoundInv, Sound
  <2> QED BY <2>1 DEF Next, slaveofCommand, slaveofNoOne, replicationCron, freeClient,
       syncWithMaster, readBulkCount, readBulkData, readFails, rdbLoad, rdbLoadFails,
       rdbSaveBackground, ChildSaves, rewriteAppendOnlyFileBackground,
       backgroundRewriteDoneHandler, syncCommand, subLeaves, files
<1> QED BY <1>1, <1>2, <1>3, PTL DEF Spec, NoOneIsFinal
-----------------------------------------------------------------------------
(* The slaves of the slave.                                                *)

\* Slaves are attached only while the data set cannot be replaced.
SubInv == sub # Nothing => sub = data /\ link.state \in {"NONE", "CONNECTED"}

LEMMA NextSub ==
  ~Impatient /\ ~Promoted /\ TypeOK /\ SoundInv /\ SubInv /\ [Next]_vars => SubInv'
<1> SUFFICES ASSUME ~Impatient, ~Promoted, TypeOK, SoundInv, SubInv, [Next]_vars
             PROVE SubInv'
  OBVIOUS
<1>0. /\ link \in Link /\ Sound(link, masterhost)
      /\ loading => link.state = "TRANSFER"
      /\ HasMaster(link) <=> link.state = "CONNECTED"
  BY Released DEF TypeOK, SoundInv
<1>1. ASSUME NEW m \in Masters, slaveofCommand(m) PROVE SubInv'
  <2>1. HasMaster(link) => sub' = Nothing
    BY <1>1, NobodyAssumption DEF slaveofCommand, freeSlaves
  <2>2. ~HasMaster(link) => sub' = Nothing
    BY <1>0, <1>1 DEF slaveofCommand, freeSlaves, SubInv, Sound
  <2> QED BY <2>1, <2>2 DEF SubInv
<1>2. CASE slaveofNoOne
  <2>1. sub' = sub /\ data' = data
    BY <1>2 DEF slaveofNoOne, freeSlaves, files
  <2>2. GivenUp(freeMaster(link)) \in Link
    BY <1>0, GiveUpTypes
  <2>3. link'.state = "NONE"
    BY <1>2, <2>2, Restate DEF slaveofNoOne
  <2> QED BY <2>1, <2>3 DEF SubInv
<1>3. CASE replicationCron
  <2>1. masterhost # Nobody /\ link.state # "NONE"
    BY <1>0, <1>3 DEF replicationCron, Sound
  <2>2. PICK silent \in BOOLEAN :
          /\ silent => link.state \in {"CONNECTING", "TRANSFER", "CONNECTED"}
          /\ ~silent => link.state = "CONNECT"
          /\ sub' = IF silent THEN freeSlaves(link, masterhost) ELSE sub
    BY <1>3 DEF replicationCron
  <2>3. sub' = Nothing
    BY <1>0, <2>1, <2>2 DEF freeSlaves, SubInv
  <2> QED BY <2>3 DEF SubInv
<1>4. ASSUME NEW f \in Fds, syncWithMaster(f) \/ readBulkCount(f) \/ readBulkData(f)
                              \/ readFails(f)
      PROVE SubInv'
  <2>1. link.state \in {"CONNECTING", "TRANSFER"} /\ sub' = sub
    BY <1>0, <1>4, StateOfHandler
       DEF syncWithMaster, readBulkCount, readBulkData, readFails
  <2> QED BY <2>1 DEF SubInv
<1>5. CASE rdbLoad \/ rdbLoadFails
  <2>1. link.state = "TRANSFER" /\ sub' = sub
    BY <1>0, <1>5 DEF rdbLoad, rdbLoadFails
  <2> QED BY <2>1 DEF SubInv
<1>6. CASE freeClient
  <2>1. masterhost # Nobody
    BY <1>0, <1>6 DEF freeClient, Sound
  <2> QED BY <1>6, <2>1 DEF freeClient, freeSlaves, SubInv
<1>7. CASE syncCommand
  BY <1>0, <1>7 DEF syncCommand, files, SubInv, Sound
<1>8. CASE subLeaves
  BY <1>8 DEF subLeaves, SubInv
<1>9. CASE UNCHANGED <<link, data, sub>>
  BY <1>9 DEF SubInv
<1> QED BY <1>1, <1>2, <1>3, <1>4, <1>5, <1>6, <1>7, <1>8, <1>9
        DEF Next, vars, rdbSaveBackground, ChildSaves, rewriteAppendOnlyFileBackground,
            backgroundRewriteDoneHandler

\* SubFollows, where no slave is attached to a server that becomes a slave.
\* freeClient() drops the attached slaves with the master, syncCommand() lets
\* no other in before the next data set is loaded.
THEOREM SubAlwaysFollows ==
  ASSUME ~Impatient, ~Promoted
  PROVE  Spec => []SubFollows
<1> DEFINE I == TypeOK /\ SoundInv /\ SubInv
<1>1. Init => I
  BY InitTypes, InitSound DEF Init, SubInv
<1>2. I /\ [Next]_vars => I'
  BY NextTypes, NextSound, NextSub
<1>3. I => SubFollows
  BY DEF SubInv, SubFollows
<1> QED BY <1>1, <1>2, <1>3, PTL DEF Spec

-----------------------------------------------------------------------------
(* The dump.                                                               *)

\* The first k chunks of the dump the open connection brings.
Copy(k) == [i \in 1..k |-> [m |-> masterhost, n |-> link.sock[link.s].n]]

Receiving ==
  link.state = "TRANSFER" =>
    \/ link.left = NoLen /\ link.tmp = <<>>
    \/ link.left \in 0..Chunks /\ link.tmp = Copy(Chunks - link.left)

LoadInv ==
  /\ bgsave = Nothing
  /\ Receiving
  /\ loading => link.left = 0 /\ dump = link.tmp
  /\ LoadedFromMaster

\* One more chunk.
LEMMA CopyGrows ==
  ASSUME NEW k \in Nat, NEW c
  PROVE  Append([i \in 1..k |-> c], c) = [i \in 1..(k + 1) |-> c]
OBVIOUS

LEMMA CopyNone == ASSUME NEW c PROVE [i \in 1..0 |-> c] = <<>>
OBVIOUS

LEMMA NextLoad ==
  ~Impatient /\ ~Saves /\ TypeOK /\ SoundInv /\ LoadInv /\ [Next]_vars => LoadInv'
<1> SUFFICES ASSUME ~Impatient, ~Saves, TypeOK, SoundInv, LoadInv, [Next]_vars
             PROVE LoadInv'
  OBVIOUS
<1>0. /\ link \in Link /\ Sound(link, masterhost) /\ Sound(link', masterhost')
      /\ loading => link.state = "TRANSFER"
      /\ bgsave = Nothing /\ Receiving /\ LoadedFromMaster
      /\ loading => link.left = 0 /\ dump = link.tmp
  BY NextSound DEF TypeOK, SoundInv, LoadInv
<1>d. ASSUME link'.state \in {"NONE", "CONNECT", "CONNECTING"}, ~loading',
             bgsave' = bgsave
      PROVE  LoadInv'
  BY <1>0, <1>d DEF LoadInv, Receiving, LoadedFromMaster
<1>1. ASSUME NEW m \in Masters, slaveofCommand(m) PROVE LoadInv'
  <2> DEFINE l == freeMaster(link)
             k == IF l.state = "TRANSFER" THEN replicationAbortSyncTransfer(l) ELSE l
  <2>1. k \in Link /\ link' = [k EXCEPT !.state = "CONNECT"]
    BY <1>0, <1>1, GiveUpTypes DEF slaveofCommand
  <2>2. link'.state = "CONNECT"
    BY <2>1, Restate
  <2> QED BY <1>d, <1>1, <2>2 DEF slaveofCommand, files, Serving
<1>2. CASE slaveofNoOne
  <2>1. GivenUp(freeMaster(link)) \in Link
    BY <1>0, GiveUpTypes
  <2>2. link'.state = "NONE"
    BY <1>2, <2>1, Restate DEF slaveofNoOne
  <2> QED BY <1>d, <1>2, <2>2 DEF slaveofNoOne, files, Serving
<1>3. CASE replicationCron
  <2>1. PICK l \in Link : l.state = "CONNECT" /\ connectWithMaster(l)
    BY <1>0, <1>3, GiveUpTypes DEF replicationCron
  <2>2. link'.state \in {"CONNECT", "CONNECTING"}
    BY <2>1 DEF connectWithMaster, Link
  <2> QED BY <1>d, <1>3, <2>2 DEF replicationCron, files, Serving
<1>4. ASSUME NEW f \in Fds, syncWithMaster(f) PROVE LoadInv'
  <2>1. ~loading /\ loading' = FALSE /\ bgsave' = bgsave /\ link.state # "NONE"
    BY <1>0, <1>4, StateOfHandler DEF syncWithMaster, files, Serving
  <2>2. CASE link' = [Close(link, {f}) EXCEPT !.state = "CONNECT"]
    <3>1. link'.state = "CONNECT"
      BY <1>0, <2>2, CloseTypes, Restate
    <3> QED BY <1>d, <2>1, <3>1
  <2>3. CASE link' = [link EXCEPT !.state = "TRANSFER", !.left = NoLen, !.tmp = <<>>,
                                  !.sock[f].ev = "readSyncBulkPayload"]
    <3>1. link'.state = "TRANSFER" /\ link'.left = NoLen /\ link'.tmp = <<>>
      BY <1>0, <2>3 DEF Link
    <3> QED BY <1>0, <2>1, <3>1 DEF LoadInv, Receiving, LoadedFromMaster
  <2> QED BY <1>4, <2>1, <2>2, <2>3 DEF syncWithMaster
<1>5. ASSUME NEW f \in Fds, readBulkCount(f) PROVE LoadInv'
  <2>1. link.state = "TRANSFER" /\ ~loading /\ loading' = FALSE /\ bgsave' = bgsave
    BY <1>0, <1>5, StateOfHandler DEF readBulkCount, files, Serving
  <2>2. /\ link'.state = "TRANSFER" /\ link'.left = Chunks
        /\ link'.tmp = link.tmp /\ link.left = NoLen
    BY <1>0, <1>5, <2>1 DEF readBulkCount, Link
  <2>3. link.tmp = <<>>
    BY <1>0, <2>1, <2>2 DEF Receiving, NoLen
  <2>4. link'.left \in 0..Chunks /\ Chunks - link'.left = 0
    BY <2>2, BoundsAssumption
  <2>5. Copy(Chunks - link.left)' = <<>>
    BY <2>4, CopyNone DEF Copy
  <2> QED BY <1>0, <2>1, <2>2, <2>3, <2>4, <2>5 DEF LoadInv, Receiving, LoadedFromMaster
<1>6. ASSUME NEW f \in Fds, readBulkData(f) PROVE LoadInv'
  <2> DEFINE c == [m |-> masterhost, n |-> link.sock[link.s].n]
             k == Chunks - link.left
  <2>1. link.state = "TRANSFER" /\ f = link.s /\ link.sock[f].to = masterhost
    BY <1>0, <1>6, StateOfHandler DEF readBulkData, Sound, Only
  <2>2. link.left > 0 /\ link.left \in Int /\ link.left \in 1..Chunks /\ link.tmp = Copy(k)
    BY <1>0, <1>6, <2>1, BoundsAssumption DEF readBulkData, Receiving, Link, NoLen
  <2>3. /\ link' = [link EXCEPT !.left = @ - 1, !.tmp = Append(@, c)]
        /\ UNCHANGED <<masterhost, bgsave>>
        /\ loading' = (link.left = 1)
        /\ dump' = IF loading' THEN link'.tmp ELSE dump
    BY <1>6, <2>1 DEF readBulkData
  <2>4. /\ link'.state = "TRANSFER" /\ link'.left = link.left - 1
        /\ link'.tmp = Append(link.tmp, c)
        /\ link'.s = link.s /\ link'.sock = link.sock
    BY <1>0, <2>1, <2>3 DEF Link
  <2>5. k \in Nat /\ Chunks - link'.left = k + 1 /\ link'.left \in 0..Chunks
    BY <2>2, <2>4, BoundsAssumption
  <2>6. Copy(Chunks - link.left)' = [i \in 1..(k + 1) |-> c]
    BY <2>3, <2>4, <2>5 DEF Copy
  <2>7. link'.tmp = Copy(Chunks - link.left)'
    BY <2>2, <2>4, <2>5, <2>6, CopyGrows DEF Copy
  <2>8. loading' => link'.left = 0 /\ dump' = link'.tmp
    <3>1. loading' => link.left = 1
      BY <2>3, Zenon
    <3>2. loading' => dump' = link'.tmp
      BY <2>3, Zenon
    <3> QED BY <2>4, <3>1, <3>2
  <2> QED BY <1>0, <2>3, <2>4, <2>5, <2>7, <2>8 DEF LoadInv, Receiving, LoadedFromMaster
<1>7. ASSUME NEW f \in Fds, readFails(f) PROVE LoadInv'
  <2>1. link.state = "TRANSFER"
    BY <1>0, <1>7, StateOfHandler DEF readFails
  <2>2. link'.state = "CONNECT"
    BY <1>0, <1>7, <2>1, Released DEF readFails
  <2> QED BY <1>d, <1>7, <2>2 DEF readFails, files, Serving
<1>8. CASE rdbLoad
  <2>1. /\ link.state = "TRANSFER" /\ masterhost' = masterhost /\ loading' = FALSE
        /\ bgsave' = bgsave /\ data' = dump
        /\ Only(link, masterhost, "readSyncBulkPayload")
    BY <1>0, <1>8 DEF rdbLoad, Sound
  <2>2. link.left = 0 /\ dump = Copy(Chunks)
    BY <1>0, <1>8, <2>1, BoundsAssumption DEF rdbLoad, Receiving, NoLen
  <2>3. link.s \in Fds /\ link.s # NoFd
    BY <2>1, FdsAssumption DEF Only, NoFd
  <2> DEFINE g == [link.sock[link.s] EXCEPT !.ev = "readQueryFromClient"]
  <2>4. link' = [link EXCEPT !.state = "CONNECTED", !.tmp = Nothing,
                             !.sock[link.s].ev = "readQueryFromClient"]
    BY <1>8, <2>1, <2>3 DEF rdbLoad, MasterClient, Only
  <2>5. /\ link'.state = "CONNECTED" /\ link'.s = link.s
        /\ link'.sock = [link.sock EXCEPT ![link.s] = g]
    BY <1>0, <2>3, <2>4 DEF Link
  <2>6. link'.sock[link'.s] = g
    BY <1>0, <2>3, <2>5 DEF Link
  <2>7. link.sock[link.s] \in Socket
    BY <1>0, <2>1, <2>3, HandledIsSocket DEF Handler, Only
  <2>8. link'.sock[link'.s].n = link.sock[link.s].n
    BY <2>6, <2>7 DEF Socket
  <2>9. LoadedFromMaster'
    BY <2>1, <2>2, <2>8 DEF LoadedFromMaster, Copy
  <2> QED BY <1>0, <2>1, <2>5, <2>9 DEF LoadInv, Receiving
<1>9. CASE rdbLoadFails
  <2>1. link.state = "TRANSFER"
    BY <1>0, <1>9 DEF rdbLoadFails
  <2>2. link'.state = "CONNECT"
    BY <1>0, <1>9, <2>1, Released DEF rdbLoadFails
  <2> QED BY <1>d, <1>9, <2>2 DEF rdbLoadFails
<1>10. CASE freeClient
  <2>1. link.state = "CONNECTED"
    BY <1>0, <1>10, Released DEF freeClient
  <2>2. link'.state = "CONNECT"
    BY <1>0, <1>10, <2>1, Released DEF freeClient
  <2> QED BY <1>d, <1>10, <2>2 DEF freeClient, files, Serving
<1>11. CASE rdbSaveBackground \/ ChildSaves
  BY <1>0, <1>11 DEF rdbSaveBackground, ChildSaves
<1>12. CASE UNCHANGED <<masterhost, link, loading, data, dump, bgsave>>
  BY <1>12 DEF LoadInv, Receiving, Copy, LoadedFromMaster
<1> QED BY <1>1, <1>2, <1>3, <1>4, <1>5, <1>6, <1>7, <1>8, <1>9, <1>10, <1>11, <1>12
        DEF Next, vars, files, rewriteAppendOnlyFileBackground,
            backgroundRewriteDoneHandler, syncCommand, subLeaves

\* LoadedFromMaster, where nothing else writes dump.rdb: what is in the
\* temporary file is always the beginning of what the open connection brings.
THEOREM AlwaysLoadedFromMaster ==
  ASSUME ~Impatient, ~Saves
  PROVE  Spec => []LoadedFromMaster
<1> DEFINE I == TypeOK /\ SoundInv /\ LoadInv
<1>1. Init => I
  BY InitTypes, InitSound DEF Init, LoadInv, Receiving, LoadedFromMaster
<1>2. I /\ [Next]_vars => I'
  BY NextTypes, NextSound, NextLoad
<1>3. I => LoadedFromMaster
  BY DEF LoadInv
<1> QED BY <1>1, <1>2, <1>3, PTL DEF Spec

-----------------------------------------------------------------------------
(* Saving beside it.                                                       *)

P == INSTANCE SavingProofs WITH dump <- dumped

(* Both instances start in the same states.                                *)
LEMMA SameInit == S!SavingInit => P!SavingInit
  BY DEF S!SavingInit, P!SavingInit

(* The constants are as SavingProofs assumes.                              *)
LEMMA SameConst == P!SavingConstants
  BY SavingAssumption DEF S!SavingConstants, P!SavingConstants

(* A step of one instance is a step of the other, action by action.        *)
LEMMA SameNext == S!SavingNext => P!SavingNext
  <1>1. S!Write => P!Write
    BY DEF S!Write, P!Write
  <1>2. S!saveCommand => P!saveCommand
    BY DEF S!saveCommand, P!saveCommand, S!Command, P!Command, S!rdbSave, P!rdbSave,
       S!Fault, P!Fault
  <1>3. S!bgsaveCommand => P!bgsaveCommand
    BY DEF S!bgsaveCommand, P!bgsaveCommand, S!Command, P!Command, S!rdbSaveBackground,
       P!rdbSaveBackground, S!WithChild, P!WithChild, S!Fault, P!Fault,
       S!resizeAfterFork, P!resizeAfterFork, S!Kept, P!Kept
  <1>4. S!syncCommand => P!syncCommand
    BY DEF S!syncCommand, P!syncCommand, S!Command, P!Command, S!rdbSaveBackground,
       P!rdbSaveBackground, S!WithChild, P!WithChild, S!Fault, P!Fault,
       S!resizeAfterFork, P!resizeAfterFork, S!Kept, P!Kept
  <1>5. S!bgrewriteaofCommand => P!bgrewriteaofCommand
    BY DEF S!bgrewriteaofCommand, P!bgrewriteaofCommand, S!Command, P!Command,
       S!rewriteAppendOnlyFileBackground, P!rewriteAppendOnlyFileBackground,
       S!WithChild, P!WithChild, S!Fault, P!Fault, S!resizeAfterFork, P!resizeAfterFork,
       S!Kept, P!Kept
  <1>6. S!flushallCommand => P!flushallCommand
    BY DEF S!flushallCommand, P!flushallCommand, S!Command, P!Command, S!Killed,
       P!Killed, S!Dead, P!Dead, S!rdbSave, P!rdbSave, S!Fault, P!Fault
  <1>7. S!prepareForShutdown => P!prepareForShutdown
    BY DEF S!prepareForShutdown, P!prepareForShutdown, S!Command, P!Command, S!rdbSave,
       P!rdbSave, S!Fault, P!Fault, S!Killed, P!Killed, S!Dead, P!Dead
  <1>8. S!stopAppendOnly => P!stopAppendOnly
    BY DEF S!stopAppendOnly, P!stopAppendOnly, S!Command, P!Command, S!Dead, P!Dead,
       S!Killed, P!Killed
  <1>9. S!startAppendOnly => P!startAppendOnly
    BY DEF S!startAppendOnly, P!startAppendOnly, S!Command, P!Command,
       S!rewriteAppendOnlyFileBackground, P!rewriteAppendOnlyFileBackground,
       S!WithChild, P!WithChild, S!Fault, P!Fault, S!resizeAfterFork, P!resizeAfterFork,
       S!Kept, P!Kept
  <1>10. S!Restart => P!Restart
    BY DEF S!Restart, P!Restart
  <1>11. S!Stopped => P!Stopped
    BY DEF S!Stopped, P!Stopped, S!savingVars, P!savingVars
  <1>12. S!cronReaps => P!cronReaps
    BY DEF S!cronReaps, P!cronReaps, S!Kept, P!Kept, S!Dead, P!Dead,
       S!backgroundSaveDoneHandler, P!backgroundSaveDoneHandler,
       S!updateSlavesWaitingBgsave, P!updateSlavesWaitingBgsave, S!rdbSaveBackground,
       P!rdbSaveBackground, S!WithChild, P!WithChild, S!Fault, P!Fault, S!Without,
       P!Without, S!updateDictResizePolicy, P!updateDictResizePolicy
  <1>13. ASSUME NEW p \in Pids PROVE S!ChildSteps(p) => P!ChildSteps(p)
    BY DEF S!ChildSteps, P!ChildSteps, S!Dead, P!Dead, S!Fault, P!Fault
  <1>14. ASSUME NEW e \in BOOLEAN, NEW g \in BOOLEAN
         PROVE  S!cronStarts(e, g) => P!cronStarts(e, g)
    <2>1. \A ps, p, job : S!WithChild(ps, p, job) = P!WithChild(ps, p, job)
      BY DEF S!WithChild, P!WithChild
    <2>2. S!resizeAfterFork <=> P!resizeAfterFork
      BY DEF S!resizeAfterFork, P!resizeAfterFork, S!Kept, P!Kept
    <2>3. S!Kept = P!Kept
      BY DEF S!Kept, P!Kept
    <2>4. S!cronTries(e, g) = P!cronTries(e, g)
      BY DEF S!cronTries, P!cronTries
    <2>5. \A X : S!Cardinality(X) = P!Cardinality(X)
      BY DEF S!Cardinality, P!Cardinality
    <2> DEFINE failed(i) == P!Cardinality({j \in 1..(i - 1) : P!cronTries(e, g)[j]})
    <2> SUFFICES ASSUME S!cronStarts(e, g) PROVE P!cronStarts(e, g)
      OBVIOUS
    <2> HIDE DEF failed
    <2>6. PICK i \in 1..4 :
                /\ IF i < 4 THEN P!cronTries(e, g)[i] ELSE failed(4) > 0
                /\ faults + failed(i) <= MaxFaults /\ faults' = faults + failed(i)
                /\ dirty_before_bgsave' = IF P!cronTries(e, g)[2] /\ i > 1 THEN dirty
                                          ELSE dirty_before_bgsave
                /\ \/ i = 4 /\ UNCHANGED <<procs, bgsavechildpid, bgrewritechildpid,
                                           aofrewrite_scheduled>>
                   \/ i < 4 /\ \E p \in Pids \ DOMAIN procs :
                        /\ procs' = P!WithChild(procs, p, IF i = 2 THEN "save" ELSE "rewrite")
                        /\ bgsavechildpid' = IF i = 2 THEN p ELSE NoPid
                        /\ bgrewritechildpid' = IF i = 2 THEN NoPid ELSE p
                        /\ aofrewrite_scheduled' = (i = 2 /\ aofrewrite_scheduled)
      BY <2>1, <2>4, <2>5, Zenon DEF S!cronStarts, failed
    <2>7. /\ P!Kept = {} /\ P!resizeAfterFork
          /\ UNCHANGED <<changes, dirty, dumped, appendonly, waiting, up, misreaped, commands>>
      BY <2>2, <2>3, Zenon DEF S!cronStarts
    <2> QED BY <2>6, <2>7, Zenon DEF P!cronStarts, failed
  <1> QED
    BY <1>1, <1>2, <1>3, <1>4, <1>5, <1>6, <1>7, <1>8, <1>9, <1>10, <1>11, <1>12, <1>13,
       <1>14 DEF S!SavingNext, P!SavingNext, S!serverCron, P!serverCron

(* A step of the slave leaves the variables of Saving alone.               *)
LEMMA SameVars == UNCHANGED savingVars => UNCHANGED P!savingVars
  BY DEF savingVars, P!savingVars

(* So a step of the composition is one of Saving, or changes nothing in it.*)
LEMMA SavesOrNot == [MCNext]_allVars => [P!SavingNext]_(P!savingVars)
  BY SameNext, SameVars DEF MCNext, allVars

-----------------------------------------------------------------------------

(* The inductive invariant of SavingProofs, along the behaviours of the    *)
(* composition.                                                            *)
LEMMA SavingInvHolds == MCSpec => []P!SavingInv
  <1>1. MCInit => P!SavingInv
    BY SameInit, SameConst, P!InitInv DEF MCInit
  <1>2. P!SavingInv /\ [MCNext]_allVars => P!SavingInv'
    BY SavesOrNot, SameConst, P!SavingNextInv
  <1> QED BY <1>1, <1>2, PTL DEF MCSpec

(* What the server remembers of its dump and of its children is true:      *)
(* server.dirty never says less than dump.rdb lacks, a clean exit leaves   *)
(* nothing unsaved, bgsavechildpid and bgrewritechildpid are those of the  *)
(* children that are there, and hash tables are not resized meanwhile.     *)
THEOREM ServerRemembersItsSaves == MCSpec => []SavingSound
  <1>1. P!SavingInv => P!SavingSound
    BY DEF P!SavingInv, P!SavingSound, P!NoSaverIsLeft, P!CleanExitIsSaved, P!ChildrenKnown,
           P!ChildrenAreKept
  <1>2. P!SavingSound => SavingSound
    BY DEF P!SavingSound, SavingSound, S!SavingSound, P!TypeOK, S!TypeOK,
       P!UnsavedAreCounted, S!UnsavedAreCounted, P!CleanExitIsSaved, S!CleanExitIsSaved,
       P!ChildrenAreKept, S!ChildrenAreKept, P!ResizeOffWithChildren, S!ResizeOffWithChildren,
       P!Kept, S!Kept
  <1> QED BY SavingInvHolds, <1>1, <1>2, PTL

(* dump.rdb is never replaced by an older data set.                        *)
THEOREM DumpIsNeverOlder == MCSpec => DumpNeverGoesBack
  <1>1. P!SavingInv /\ [MCNext]_allVars => [dumped' >= dumped]_allVars
    BY SavesOrNot, SameConst, P!DumpStep
  <1> QED BY SavingInvHolds, <1>1, PTL DEF MCSpec, DumpNeverGoesBack
=============================================================================
