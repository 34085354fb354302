--------------------------- MODULE MCMmPipeline ---------------------------
(***************************************************************************)
(* Two instances of MmPipeline side by side, `calm' telling which one a    *)
(* behaviour belongs to: the one the cfg describes, in which the days do   *)
(* not overlap and only the Hive job fails, and one in which two runs      *)
(* overlap, every call may fail and every script may die.                  *)
(***************************************************************************)
EXTENDS MmPipeline, TLC

CONSTANTS v1, v2, c1, x1, o1, o2, r1, r2

KindOf == v1 :> "views" @@ v2 :> "views" @@ c1 :> "channel" @@ x1 :> "other"
            @@ o1 :> "carrier" @@ o2 :> "other"

Only(F) == [f \in F |-> KindOf[f]]

AllLogs   == {v1, v2, c1, x1}
OneLog    == {v1}
OneOut    == {o1}
TwoOuts   == {o1, o2}
KindAll   == Only(AllLogs \cup TwoOuts)
KindOne   == Only(OneLog \cup OneOut)

VARIABLE calm

F == INSTANCE MmPipeline WITH
       Logs <- OneLog, Outs <- OneOut, Kind <- KindOne, Runs <- {r1, r2},
       Transactional <- TRUE, Failures <- TRUE

allVars == <<vars, calm>>

MCInit == calm \in BOOLEAN /\ IF calm THEN Init ELSE F!Init

MCNext == UNCHANGED calm /\ IF calm THEN Next ELSE F!Next

\* The fairness of FairSpec, for its own instance.
MCSpec ==
  /\ MCInit /\ [][MCNext]_allVars
  /\ \A r \in Runs :
       /\ WF_allVars(calm /\ Proceeds(r) /\ UNCHANGED calm)
       /\ SF_allVars(calm /\ JobReads(r) /\ UNCHANGED calm)
       /\ SF_allVars(calm /\ JobCompletes(r) /\ UNCHANGED calm)

\* On calm days the archive and the tables agree: an archived log file was loaded
\* once, recorded unless reported, and read by a job that completed, however often
\* a job fails and mm_events_importer.py finds the file in mmlogs again.
CalmArchiveAgrees == calm => ArchiveAgrees

\* On calm days a file of page views that arrives ends up in the archive.
CalmViewsGetArchived ==
  \A f \in Logs : Kind[f] = "views" =>
    (calm /\ f \in bucket["mm_logs"] ~> f \in bucket["mmlogsarchive"])
=============================================================================
