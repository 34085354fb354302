---------------------------- MODULE MmPipeline ----------------------------
(***************************************************************************)
(* The daily processing of the MM log files: mm_daily_process.py and the   *)
(* four scripts it runs one after the other.                               *)
(*                                                                         *)
(*   bucket_sorter       mm_logs -> mmhandset, mmchannels or mmlogs        *)
(*   mm_events_importer  mmlogs -> table events, recorded in keyfiles      *)
(*   hadoop_job_runner   a Hive job over mmlogs, then mmlogs ->            *)
(*                       mmlogsarchive                                     *)
(*   mm_hadoop_to_mysql_migrator                                           *)
(*                       dphiveoutput -> placement, handset (also the      *)
(*                       carrier files) or dma, recorded in hadoopfiles,   *)
(*                       -> dphiveoutputuploaded                           *)
(*                                                                         *)
(* A script lists a bucket once and then takes the names it has read one   *)
(* by one, in several steps each, while files arrive and, if a run takes   *)
(* longer than a day, the next run does the same.  S3, MySQL and Hive are  *)
(* modelled by how the scripts use them.                                   *)
(***************************************************************************)
EXTENDS Integers, FiniteSets

CONSTANTS
  Logs,          \* names of log files
  Outs,          \* names of the files Hive writes
  Kind,          \* what the name of a file says it is
  Runs,          \* runs of mm_daily_process.py that may overlap
  None,          \* no file
  Transactional, \* the engine of the MySQL tables has transactions
  Failures       \* calls may fail and scripts may die

LogKind == {"capabilities", "channel", "views", "other"}
OutKind == {"placement", "carrier", "handset", "dma", "other"}

ASSUME KindAssumption ==
  /\ Logs \cap Outs = {}
  /\ Kind \in [Logs \cup Outs -> LogKind \cup OutKind]
  /\ \A f \in Logs : Kind[f] \in LogKind
  /\ \A f \in Outs : Kind[f] \in OutKind
ASSUME NoneAssumption == None \notin Logs \cup Outs
ASSUME FlagsAssumption == Transactional \in BOOLEAN /\ Failures \in BOOLEAN

VARIABLES
  bucket,   \* per S3 bucket, the keys in it
  rows,     \* per file, how often it was loaded into a table (2: more)
  recorded, \* the names in keyfiles and hadoopfiles, committed
  rolled,   \* per log file, how many completed jobs read it (2: more)
  pc,       \* per run, the script and the step it is at
  todo,     \* per run, the names its script still has to take
  item,     \* per run, the name it is working on
  pending,  \* per run, names inserted by its MySQL session, not committed
  failed,   \* per run, the names in the failure mail of its script
  input     \* per run, the keys its Hive job has read

vars == <<bucket, rows, recorded, rolled, pc, todo, item, pending, failed, input>>
tables == <<rows, recorded, rolled>>

Files == Logs \cup Outs
Buckets == {"mm_logs", "mmhandset", "mmchannels", "mmlogs", "mmlogsarchive",
            "dphiveoutput", "dphiveoutputuploaded"}
Script == {"sorter", "importer", "runner", "migrator"}
Step == {"start", "select", "submitted", "running", "completed",
         "take", "load", "record", "copy", "delete"}
Idle == [script |-> "none", step |-> "start"]

TypeOK ==
  /\ bucket \in [Buckets -> SUBSET Files]
  /\ rows \in [Files -> 0..2] /\ recorded \subseteq Files
  /\ rolled \in [Logs -> 0..2]
  /\ pc \in [Runs -> [script : Script, step : Step] \cup {Idle}]
  /\ todo \in [Runs -> SUBSET Files] /\ item \in [Runs -> Files \cup {None}]
  /\ pending \in [Runs -> SUBSET Files] /\ failed \in [Runs -> SUBSET Files]
  /\ input \in [Runs -> SUBSET Files]

Init ==
  /\ bucket = [b \in Buckets |-> {}]
  /\ rows = [f \in Files |-> 0] /\ recorded = {} /\ rolled = [f \in Logs |-> 0]
  /\ pc = [r \in Runs |-> Idle]
  /\ todo = [r \in Runs |-> {}] /\ item = [r \in Runs |-> None]
  /\ pending = [r \in Runs |-> {}] /\ failed = [r \in Runs |-> {}]
  /\ input = [r \in Runs |-> {}]

More(n) == IF n = 2 THEN 2 ELSE n + 1
At(r, script, step) == pc[r] = [script |-> script, step |-> step]
Go(r, step) == pc' = [pc EXCEPT ![r].step = step]

\* The bucket a script works on, and where it moves a file to.
Source(r) ==
  CASE pc[r].script = "sorter" -> "mm_logs"
    [] pc[r].script \in {"importer", "runner"} -> "mmlogs"
    [] pc[r].script = "migrator" -> "dphiveoutput"

Target(r, f) ==
  CASE pc[r].script = "runner" -> "mmlogsarchive"
    [] pc[r].script = "migrator" -> "dphiveoutputuploaded"
    [] pc[r].script = "sorter" /\ Kind[f] = "capabilities" -> "mmhandset"
    [] pc[r].script = "sorter" /\ Kind[f] = "channel" -> "mmchannels"
    [] pc[r].script = "sorter" /\ Kind[f] = "views" -> "mmlogs"

-----------------------------------------------------------------------------
(* The runs and their scripts.                                             *)

\* A file arrives in mm_logs, once.
Arrives(f) ==
  /\ \A b \in Buckets : f \notin bucket[b]
  /\ bucket' = [bucket EXCEPT !["mm_logs"] = @ \cup {f}]
  /\ UNCHANGED <<tables, pc, todo, item, pending, failed, input>>

\* cron starts mm_daily_process.py.
cron(r) ==
  /\ pc[r] = Idle
  /\ pc' = [pc EXCEPT ![r] = [script |-> "sorter", step |-> "start"]]
  /\ UNCHANGED <<bucket, tables, todo, item, pending, failed, input>>

\* Mutant: the events are imported from what the job has left.
FollowingLate(script) ==
  CASE script = "sorter" -> [script |-> "runner", step |-> "start"]
    [] script = "runner" -> [script |-> "importer", step |-> "start"]
    [] script = "importer" -> [script |-> "migrator", step |-> "start"]
    [] script = "migrator" -> Idle

Following(script) ==
  CASE script = "sorter" -> [script |-> "importer", step |-> "start"]
    [] script = "importer" -> [script |-> "runner", step |-> "start"]
    [] script = "runner" -> [script |-> "migrator", step |-> "start"]
    [] script = "migrator" -> Idle

\* The next script starts, whatever became of this one: subprocess.call() is
\* not checked.  The session of MySQL is closed without a commit.
NextScript(r) ==
  /\ pc' = [pc EXCEPT ![r] = Following(@.script)]
  /\ todo' = [todo EXCEPT ![r] = {}] /\ item' = [item EXCEPT ![r] = None]
  /\ pending' = [pending EXCEPT ![r] = {}] /\ input' = [input EXCEPT ![r] = {}]

ScriptEnds(r) ==
  /\ pc[r].step = "take" /\ todo[r] = {}
  /\ NextScript(r) /\ UNCHANGED <<bucket, tables, failed>>

\* An exception that is not caught.
ScriptDies(r) ==
  /\ Failures /\ pc[r] # Idle
  /\ NextScript(r) /\ UNCHANGED <<bucket, tables, failed>>

\* bucket.list(), at the beginning and, in the runner, after the job.
lists(r) ==
  /\ \/ pc[r].script # "runner" /\ pc[r] # Idle /\ pc[r].step = "start"
     \/ At(r, "runner", "completed")
  /\ todo' = [todo EXCEPT ![r] = bucket[Source(r)]]
  /\ failed' = [failed EXCEPT ![r] = {}]
  /\ Go(r, IF pc[r].script \in {"importer", "migrator"} THEN "select" ELSE "take")
  /\ UNCHANGED <<bucket, tables, item, pending, input>>

\* Mutant: the names it finds are not left out.
selectsNothing(r) ==
  /\ pc[r].step = "select" /\ Go(r, "take")
  /\ UNCHANGED <<bucket, tables, todo, item, pending, failed, input>>

\* select filename from keyfiles (or hadoopfiles): those are left out.
selects(r) ==
  /\ pc[r].step = "select" /\ Go(r, "take")
  /\ todo' = [todo EXCEPT ![r] = @ \ recorded]
  /\ UNCHANGED <<bucket, tables, item, pending, failed, input>>

\* Mutant: the migrator moves a file before it has loaded it.
FirstStepMoves(r, f) ==
  CASE pc[r].script = "importer" -> "load"
    [] pc[r].script = "sorter" /\ Kind[f] = "other" -> "take"
    [] OTHER -> "copy"

\* What is done with a file first.  The sorter leaves a name it does not know
\* where it is, the migrator moves it without loading it.
FirstStep(r, f) ==
  CASE pc[r].script = "importer" -> "load"
    [] pc[r].script = "migrator" /\ Kind[f] # "other" -> "load"
    [] pc[r].script = "sorter" /\ Kind[f] = "other" -> "take"
    [] OTHER -> "copy"

\* The loops of the scripts: the next name.  A loader downloads the file; when
\* the key is gone get_key() has returned None, and the script dies.
takes(r) ==
  /\ pc[r].step = "take"
  /\ \E f \in todo[r] :
       LET step == FirstStep(r, f) IN
       IF step = "load" /\ f \notin bucket[Source(r)] THEN NextScript(r)
       ELSE /\ todo' = [todo EXCEPT ![r] = @ \ {f}]
            /\ item' = [item EXCEPT ![r] = IF step = "take" THEN None ELSE f]
            /\ Go(r, step) /\ UNCHANGED <<pending, input>>
  /\ UNCHANGED <<bucket, tables, failed>>

\* The except clauses, with a rollback() in the loaders that also takes back
\* what earlier files have left pending.  The migrator has none around the
\* moving of a name it does not know.
GivesUp(r) ==
  IF pc[r].script = "migrator" /\ Kind[item[r]] = "other"
  THEN NextScript(r) /\ UNCHANGED failed
  ELSE /\ Go(r, "take")
       /\ item' = [item EXCEPT ![r] = None]
       /\ pending' = [pending EXCEPT ![r] = {}]
       /\ failed' = [failed EXCEPT ![r] = @ \cup {item[r]}]
       /\ UNCHANGED <<todo, input>>

-----------------------------------------------------------------------------
(* Loading a file into MySQL.                                              *)

\* LOAD DATA INFILE and db.commit(), which also commits what is pending.  The
\* table is the one the branch names: handset for the carrier files, too.
loads(r) ==
  /\ pc[r].step = "load"
  /\ \/ /\ rows' = [rows EXCEPT ![item[r]] = More(@)]
        /\ recorded' = recorded \cup pending[r]
        /\ pending' = [pending EXCEPT ![r] = {}]
        /\ Go(r, "record")
        /\ UNCHANGED <<todo, item, failed, input>>
     \/ Failures /\ GivesUp(r) /\ UNCHANGED <<rows, recorded>>
  /\ UNCHANGED <<bucket, rolled>>

\* Mutants: the name of the unpacked file is inserted; the insert is left to a
\* later commit, whatever the engine.
InsertLocalName(r) ==
  recorded' = recorded \cup {<<"unpacked", item[r]>>} /\ UNCHANGED pending
InsertLeft(r) ==
  /\ pending' = [pending EXCEPT ![r] = @ \cup {item[r]}]
  /\ UNCHANGED recorded

\* insert into keyfiles (or hadoopfiles), without a commit.
Insert(r) ==
  IF Transactional
  THEN pending' = [pending EXCEPT ![r] = @ \cup {item[r]}] /\ UNCHANGED recorded
  ELSE recorded' = recorded \cup {item[r]} /\ UNCHANGED pending

\* The importer is done with the file then.
records(r) ==
  /\ pc[r].step = "record"
  /\ \/ /\ Insert(r)
        /\ IF pc[r].script = "importer"
           THEN Go(r, "take") /\ item' = [item EXCEPT ![r] = None]
           ELSE Go(r, "copy") /\ UNCHANGED item
        /\ UNCHANGED <<todo, failed, input>>
     \/ Failures /\ GivesUp(r) /\ UNCHANGED recorded
  /\ UNCHANGED <<bucket, rows, rolled>>

-----------------------------------------------------------------------------
(* Moving a file to another bucket.                                        *)

\* Mutant: the key is deleted, whatever became of the copy.
copiesOrNot(r) ==
  /\ pc[r].step = "copy" /\ Go(r, "delete")
  /\ \/ /\ item[r] \in bucket[Source(r)]
        /\ bucket' = [bucket EXCEPT ![Target(r, item[r])] = @ \cup {item[r]}]
     \/ (Failures \/ item[r] \notin bucket[Source(r)]) /\ UNCHANGED bucket
  /\ UNCHANGED <<tables, todo, item, pending, failed, input>>

\* Key.copy(): it fails when the key is gone.
copies(r) ==
  /\ pc[r].step = "copy"
  /\ \/ /\ item[r] \in bucket[Source(r)]
        /\ bucket' = [bucket EXCEPT ![Target(r, item[r])] = @ \cup {item[r]}]
        /\ Go(r, "delete")
        /\ UNCHANGED <<todo, item, pending, failed, input>>
     \/ /\ Failures \/ item[r] \notin bucket[Source(r)]
        /\ GivesUp(r) /\ UNCHANGED bucket
  /\ UNCHANGED tables

\* Key.delete(): deleting a key that is gone is no error.
deletes(r) ==
  /\ pc[r].step = "delete"
  /\ \/ /\ bucket' = [bucket EXCEPT ![Source(r)] = @ \ {item[r]}]
        /\ Go(r, "take") /\ item' = [item EXCEPT ![r] = None]
        /\ UNCHANGED <<todo, pending, failed, input>>
     \/ Failures /\ GivesUp(r) /\ UNCHANGED bucket
  /\ UNCHANGED tables

-----------------------------------------------------------------------------
(* The Hive job.                                                           *)

\* run_jobflow()
submits(r) ==
  /\ At(r, "runner", "start") /\ Go(r, "submitted")
  /\ UNCHANGED <<bucket, tables, todo, item, pending, failed, input>>

\* The job opens its input: what is in mmlogs at that moment.
JobReads(r) ==
  /\ At(r, "runner", "submitted") /\ Go(r, "running")
  /\ input' = [input EXCEPT ![r] = bucket["mmlogs"]]
  /\ UNCHANGED <<bucket, tables, todo, item, pending, failed>>

\* It ends and has written some files with new names.
JobWrites(r) ==
  /\ \E O \in SUBSET {f \in Outs : \A b \in Buckets : f \notin bucket[b]} :
       bucket' = [bucket EXCEPT !["dphiveoutput"] = @ \cup O]
  /\ rolled' = [f \in Logs |-> IF f \in input[r] THEN More(rolled[f]) ELSE rolled[f]]
  /\ UNCHANGED <<rows, recorded, failed>>

\* Mutant: the runner ends there.
JobCompletesOnly(r) ==
  /\ At(r, "runner", "running") /\ JobWrites(r)
  /\ NextScript(r)

\* The runner polls until it sees COMPLETED ...
JobCompletes(r) ==
  /\ At(r, "runner", "running") /\ JobWrites(r)
  /\ Go(r, "completed")
  /\ UNCHANGED <<todo, item, pending, input>>

\* ... or has died by then.
JobOutlives(r) ==
  /\ Failures /\ At(r, "runner", "running") /\ JobWrites(r)
  /\ NextScript(r)

\* Mutant: the files are archived all the same.
JobFailsArchives(r) ==
  /\ pc[r].script = "runner" /\ pc[r].step \in {"submitted", "running"}
  /\ Go(r, "completed")
  /\ UNCHANGED <<bucket, tables, todo, item, pending, failed, input>>

\* FAILED or TERMINATED: nothing is archived.
JobFails(r) ==
  /\ pc[r].script = "runner" /\ pc[r].step \in {"submitted", "running"}
  /\ NextScript(r) /\ UNCHANGED <<bucket, tables, failed>>

-----------------------------------------------------------------------------

\* Everything a run does but the failing of its job.
Proceeds(r) ==
  \/ cron(r) \/ lists(r) \/ selects(r) \/ takes(r) \/ loads(r) \/ records(r)
  \/ copies(r) \/ deletes(r) \/ submits(r) \/ JobReads(r) \/ JobCompletes(r)
  \/ ScriptEnds(r)

Next ==
  \/ \E f \in Logs : Arrives(f)
  \/ \E r \in Runs : Proceeds(r) \/ ScriptDies(r) \/ JobOutlives(r) \/ JobFails(r)

Spec == Init /\ [][Next]_vars

\* The scripts run, cron starts them every day, and not every job fails.
FairSpec ==
  Spec /\ \A r \in Runs : /\ WF_vars(Proceeds(r))
                           /\ SF_vars(JobReads(r)) /\ SF_vars(JobCompletes(r))

-----------------------------------------------------------------------------
(* Properties.                                                             *)

\* A file that has arrived, or that a job has written, stays in some bucket:
\* the scripts copy before they delete, and no crash, failure or other run
\* between the two loses it.
NothingLost ==
  [][\A f \in Files : (\E b \in Buckets : f \in bucket[b])
                        => \E b \in Buckets : f \in bucket'[b]]_vars

\* A file of the job's output is put away only once it has been loaded into a
\* table, unless its name was not known.
UploadedWereLoaded ==
  \A f \in bucket["dphiveoutputuploaded"] : Kind[f] = "other" \/ rows[f] > 0

\* A log file is archived only when a job that has completed had read it.
ArchivedWereRolledUp == \A f \in bucket["mmlogsarchive"] : rolled[f] > 0

\* ... and when its events are in the database.
ArchivedWereImported == \A f \in bucket["mmlogsarchive"] : rows[f] > 0

\* The events of a log file are loaded once, however often its job fails and
\* it is found in mmlogs again.
LoadedOnce == \A f \in Logs : rows[f] <= 1

\* When the importer has ended, a file that was loaded and that is not in the
\* mail about the files that "failed to be written to the keyfile table" is
\* in the table keyfiles.
ReportedAreRecorded ==
  \A r \in Runs : At(r, "runner", "start") =>
    \A f \in Logs : rows[f] > 0 => f \in recorded \cup failed[r]

\* The tables and the archive tell the same: a log file that hadoop_job_runner.py
\* has archived was imported, recorded and read by a job, each exactly as often
\* as it should.
ArchiveAgrees ==
  LoadedOnce /\ ArchivedWereImported /\ ArchivedWereRolledUp /\ ReportedAreRecorded

\* A file of page views that arrives ends up in the archive.
ViewsGetArchived ==
  \A f \in Logs : Kind[f] = "views" =>
    (f \in bucket["mm_logs"] ~> f \in bucket["mmlogsarchive"])
=============================================================================
