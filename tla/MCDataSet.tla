------------------------------ MODULE MCDataSet ------------------------------
(***************************************************************************)
(* The data set of a slave, and the saving of a data set, side by side: a  *)
(* behaviour moves one of the two, and the run is over the sum of their    *)
(* state spaces.  ReplSlave has saves of its own, as whole steps.          *)
(***************************************************************************)
EXTENDS MCReplSlave

CONSTANTS Pids, NoPid, MaxChanges, MaxCommands, MaxFaults

VARIABLES
    saves,      \* the behaviour is one of Saving
    changes, dirty, dirty_before_bgsave, dumped, procs, bgsavechildpid,
    bgrewritechildpid, aofrewrite_scheduled, appendonly, dict_can_resize,
    waiting, up, misreaped, commands, faults

S == INSTANCE Saving WITH dump <- dumped

ASSUME SavingAssumption == S!SavingConstants

savingVars == <<changes, dirty, dirty_before_bgsave, dumped, procs, bgsavechildpid,
                bgrewritechildpid, aofrewrite_scheduled, appendonly,
                dict_can_resize, waiting, up, misreaped, commands, faults>>
allVars == <<saves, vars, savingVars>>

MCInit == saves \in BOOLEAN /\ Init /\ S!SavingInit /\ (~saves => appendonly)

MCNext ==
    /\ UNCHANGED saves
    /\ \/ saves /\ S!SavingNext /\ UNCHANGED vars
       \/ ~saves /\ Next /\ UNCHANGED savingVars

(* The fairness of SavingSpec, for its behaviours.                         *)
OfSaving(A) == saves /\ A /\ UNCHANGED <<saves, vars>>
MCSpec ==
    /\ MCInit /\ [][MCNext]_allVars
    /\ WF_allVars(OfSaving(up /\ ~misreaped /\ S!cronReaps))
    /\ SF_allVars(OfSaving(up /\ ~misreaped /\ S!cronStarts(TRUE, FALSE)))
    /\ \A p \in Pids : WF_allVars(OfSaving(S!ChildSteps(p)))

(* What the server remembers of its dump and of its children is true:      *)
(* server.dirty never says less than dump.rdb lacks, a clean exit leaves   *)
(* nothing unsaved, the two identifiers are those of the children that are *)
(* there, and hash tables are not resized meanwhile.                       *)
SavingSound == S!SavingSound

(* dump.rdb is never replaced by an older data set.                        *)
DumpNeverGoesBack == [][dumped' >= dumped]_allVars

(* serverCron() brings every change to the dump, through failed forks and  *)
(* dead children, and starts a BGREWRITEAOF that was scheduled.            *)
DueWorkGetsDone == S!DueWorkGetsDone
=============================================================================
