-------------------------- MODULE MmPipelineProofs --------------------------
(***************************************************************************)
(* Proofs about the daily processing of the MM log files, for any files,   *)
(* any number of overlapping runs, with or without transactions and        *)
(* failures: nothing is lost, and what is put away as uploaded was loaded. *)
(* And, for days that do not overlap, that the archive agrees with the     *)
(* tables.                                                                 *)
(***************************************************************************)
EXTENDS MCMmPipeline, TLAPS

-----------------------------------------------------------------------------
(* The inductive invariant.                                                *)

\* The steps a script goes through.
StepsOf(script) ==
  CASE script = "sorter" -> {"start", "take", "copy", "delete"}
    [] script = "importer" -> {"start", "select", "take", "load", "record"}
    [] script = "runner" -> {"start", "submitted", "running", "completed",
                             "take", "copy", "delete"}
    [] script = "migrator" -> {"start", "select", "take", "load", "record",
                               "copy", "delete"}

\* The files a script works on, and those a bucket holds.
Own(script) == IF script = "migrator" THEN Outs ELSE Logs

\* A bucket holds log files, or files of Hive, and never both.
BucketsSorted ==
  \A b \in Buckets :
    bucket[b] \subseteq IF b \in {"dphiveoutput", "dphiveoutputuploaded"}
                        THEN Outs ELSE Logs

\* What a run keeps: it is at a step of its script, works on a file of that
\* script, and the sorter moves no name it does not know.
Local(r) ==
  /\ pc[r] # Idle => pc[r].step \in StepsOf(pc[r].script)
  /\ pc[r] = Idle => todo[r] = {}
  /\ todo[r] \subseteq Own(pc[r].script)
  /\ item[r] \in Own(pc[r].script) \cup {None}
  /\ item[r] # None <=> pc[r].step \in {"load", "record", "copy", "delete"}
  /\ pc[r].script = "sorter" /\ pc[r].step \in {"copy", "delete"}
       => Kind[item[r]] # "other"

\* Files are moved from a bucket to one of a higher rank, never back.
Rank(b) ==
  CASE b \in {"mm_logs", "dphiveoutput"} -> 0
    [] b = "mmlogs" -> 1
    [] b \in {"mmhandset", "mmchannels", "mmlogsarchive", "dphiveoutputuploaded"} -> 2

\* A run that is about to delete a file from its bucket knows it further on.  It
\* need not be where this run has copied it to: another run may have moved it on.
Copied(r) ==
  pc[r].step = "delete" =>
    \E b \in Buckets : Rank(b) > Rank(Source(r)) /\ item[r] \in bucket[b]

\* The migrator has loaded a file before it moves it, unless it does not know it.
Loaded(r) ==
  pc[r].script = "migrator" =>
    /\ pc[r].step = "record" => rows[item[r]] > 0
    /\ pc[r].step \in {"copy", "delete"} => rows[item[r]] > 0 \/ Kind[item[r]] = "other"

\* What makes UploadedWereLoaded inductive, and NothingLost true of every step.
PipeInv ==
  /\ TypeOK /\ BucketsSorted /\ UploadedWereLoaded
  /\ \A r \in Runs : Local(r) /\ Copied(r) /\ Loaded(r)

-----------------------------------------------------------------------------
\* A run that is not idle is at some step of some script.
LEMMA PcType ==
  ASSUME TypeOK, NEW r \in Runs, pc[r] # Idle
  PROVE  pc[r].script \in Script /\ pc[r].step \in Step
         /\ pc[r] \in [script : Script, step : Step]
  BY DEF TypeOK

\* A run past its start is not idle.
LEMMA NotIdle ==
  ASSUME TypeOK, NEW r \in Runs, pc[r].step # "start"
  PROVE  pc[r] # Idle
  BY DEF Idle

\* The other runs stay where they are.
Others(r) ==
  \A s \in Runs \ {r} : pc'[s] = pc[s] /\ todo'[s] = todo[s] /\ item'[s] = item[s]

\* Going to another step keeps the script, and the other runs where they are.
LEMMA Goes ==
  ASSUME TypeOK, NEW r \in Runs, pc[r] # Idle, NEW step \in Step, Go(r, step)
  PROVE  /\ pc' \in [Runs -> [script : Script, step : Step] \cup {Idle}]
         /\ pc'[r].script = pc[r].script /\ pc'[r].step = step /\ pc'[r] # Idle
         /\ \A s \in Runs \ {r} : pc'[s] = pc[s]
  <1>1. pc[r] \in [script : Script, step : Step]
    BY PcType
  <1>2. pc' = [pc EXCEPT ![r] = [pc[r] EXCEPT !.step = step]]
    BY DEF Go
  <1>3. [pc[r] EXCEPT !.step = step] \in [script : Script, step : Step]
    BY <1>1
  <1>4. pc'[r] = [pc[r] EXCEPT !.step = step]
    BY <1>2 DEF TypeOK
  <1>5. pc'[r].script = pc[r].script /\ pc'[r].step = step
    BY <1>1, <1>4
  <1>6. pc'[r] # Idle
    BY <1>1, <1>5 DEF Idle, Script
  <1> QED BY <1>2, <1>3, <1>4, <1>5, <1>6 DEF TypeOK

\* The next script begins with nothing in hand.
LEMMA ScriptChanges ==
  ASSUME TypeOK, NEW r \in Runs, pc[r] # Idle, NextScript(r)
  PROVE  /\ pc' \in [Runs -> [script : Script, step : Step] \cup {Idle}]
         /\ pc'[r] = Following(pc[r].script) /\ pc'[r].step = "start"
         /\ todo' \in [Runs -> SUBSET Files] /\ item' \in [Runs -> Files \cup {None}]
         /\ pending' \in [Runs -> SUBSET Files] /\ input' \in [Runs -> SUBSET Files]
         /\ todo'[r] = {} /\ item'[r] = None /\ pending'[r] = {} /\ input'[r] = {}
         /\ Others(r)
  <1>1. pc[r].script \in Script
    BY PcType
  <1>2. Following(pc[r].script) \in [script : Script, step : Step] \cup {Idle}
    BY <1>1 DEF Following, Script, Step
  <1>3. Following(pc[r].script).step = "start"
    BY <1>1 DEF Following, Script, Idle
  <1>4. pc'[r] = Following(pc[r].script)
    BY DEF NextScript, TypeOK
  <1>5. pc' \in [Runs -> [script : Script, step : Step] \cup {Idle}]
    BY <1>2 DEF NextScript, TypeOK
  <1>6. /\ todo' \in [Runs -> SUBSET Files] /\ item' \in [Runs -> Files \cup {None}]
        /\ pending' \in [Runs -> SUBSET Files] /\ input' \in [Runs -> SUBSET Files]
    BY DEF NextScript, TypeOK
  <1>7. todo'[r] = {} /\ item'[r] = None /\ pending'[r] = {} /\ input'[r] = {}
    BY DEF NextScript, TypeOK
  <1>8. Others(r)
    BY DEF NextScript, TypeOK, Others
  <1> QED BY <1>3, <1>4, <1>5, <1>6, <1>7, <1>8

\* Files that are added and rows that are loaded do not disturb the other runs.
LEMMA OthersKeep ==
  ASSUME PipeInv, NEW r \in Runs, Others(r),
         rows' \in [Files -> 0..2], \A f \in Files : rows'[f] >= rows[f],
         \A b \in Buckets : bucket[b] \subseteq bucket'[b],
         NEW s \in Runs \ {r}
  PROVE  Local(s)' /\ Copied(s)' /\ Loaded(s)'
  <1>1. pc'[s] = pc[s] /\ todo'[s] = todo[s] /\ item'[s] = item[s]
    BY DEF Others
  <1>2. Local(s) /\ Copied(s) /\ Loaded(s)
    BY DEF PipeInv
  <1>3. Local(s)'
    BY <1>1, <1>2 DEF Local
  <1>4. Copied(s)'
    BY <1>1, <1>2 DEF Copied, Source
  <1>5. Loaded(s)'
    <2>1. pc[s].step \in {"load", "record", "copy", "delete"} => item[s] \in Files
      BY <1>2 DEF Local, Own, Files
    <2>2. \A f \in Files : rows[f] > 0 => rows'[f] > 0
      BY DEF PipeInv, TypeOK
    <2> QED BY <1>1, <1>2, <2>1, <2>2 DEF Loaded
  <1> QED BY <1>3, <1>4, <1>5

\* A script that has not begun owes nothing.
LEMMA FreshRun ==
  ASSUME NEW r \in Runs, pc'[r].step = "start", todo'[r] = {}, item'[r] = None,
         pc'[r] = Idle \/ pc'[r].script \in Script
  PROVE  Local(r)' /\ Copied(r)' /\ Loaded(r)'
  <1>1. Local(r)'
    BY DEF Local, Own, StepsOf, Script
  <1> QED BY <1>1 DEF Copied, Loaded

\* The next script, wherever the last one was.
LEMMA ScriptChangesInv ==
  ASSUME PipeInv, NEW r \in Runs, pc[r] # Idle, NextScript(r),
         UNCHANGED <<bucket, tables>>, failed' \in [Runs -> SUBSET Files]
  PROVE  PipeInv'
  <1>1. TypeOK
    BY DEF PipeInv
  <1>2. TypeOK'
    BY <1>1, ScriptChanges DEF TypeOK, tables
  <1>3. BucketsSorted' /\ UploadedWereLoaded'
    BY DEF PipeInv, BucketsSorted, UploadedWereLoaded, tables
  <1>4. pc'[r] = Idle \/ pc'[r].script \in Script
    BY <1>2 DEF TypeOK
  <1>5. Local(r)' /\ Copied(r)' /\ Loaded(r)'
    BY <1>1, <1>4, ScriptChanges, FreshRun
  <1>6. ASSUME NEW s \in Runs \ {r} PROVE Local(s)' /\ Copied(s)' /\ Loaded(s)'
    <2>1. rows' \in [Files -> 0..2] /\ \A f \in Files : rows'[f] >= rows[f]
      BY <1>1 DEF TypeOK, tables
    <2> QED BY <1>1, <2>1, ScriptChanges, OthersKeep
  <1> QED BY <1>2, <1>3, <1>5, <1>6 DEF PipeInv

-----------------------------------------------------------------------------
\* The invariant is kept by each action, one after the other.
LEMMA ArrivesInv ==
  ASSUME PipeInv, NEW f \in Logs, Arrives(f) PROVE PipeInv'
  <1>1. TypeOK'
    BY DEF PipeInv, TypeOK, Arrives, tables, Files, Buckets
  <1>2. /\ \A b \in Buckets : bucket[b] \subseteq bucket'[b]
        /\ bucket'["dphiveoutputuploaded"] = bucket["dphiveoutputuploaded"]
    BY DEF PipeInv, TypeOK, Arrives, Buckets
  <1>3. BucketsSorted'
    BY DEF PipeInv, TypeOK, Arrives, BucketsSorted
  <1>4. UploadedWereLoaded'
    BY <1>2 DEF PipeInv, Arrives, UploadedWereLoaded, tables
  <1>5. ASSUME NEW s \in Runs PROVE Local(s)' /\ Copied(s)' /\ Loaded(s)'
    BY <1>2 DEF PipeInv, Arrives, tables, Local, Copied, Source, Loaded
  <1> QED BY <1>1, <1>3, <1>4, <1>5 DEF PipeInv

\* The rest of a step that moves run r to another step of its script and
\* changes neither a bucket nor a table.
LEMMA QuietInv ==
  ASSUME PipeInv, NEW r \in Runs, UNCHANGED <<bucket, tables>>, TypeOK', Others(r),
         Local(r)', Copied(r)', Loaded(r)'
  PROVE  PipeInv'
  <1>1. BucketsSorted' /\ UploadedWereLoaded'
    BY DEF PipeInv, BucketsSorted, UploadedWereLoaded, tables
  <1>2. rows' \in [Files -> 0..2] /\ \A f \in Files : rows'[f] >= rows[f]
    BY DEF PipeInv, TypeOK, tables
  <1>3. \A b \in Buckets : bucket[b] \subseteq bucket'[b]
    OBVIOUS
  <1>4. \A s \in Runs \ {r} : Local(s)' /\ Copied(s)' /\ Loaded(s)'
    BY <1>2, <1>3, OthersKeep
  <1> QED BY <1>1, <1>4 DEF PipeInv

\* A run begins.
LEMMA cronInv == ASSUME PipeInv, NEW r \in Runs, cron(r) PROVE PipeInv'
  <1>1. TypeOK'
    BY DEF PipeInv, TypeOK, cron, tables, Script, Step
  <1>2. pc'[r] = [script |-> "sorter", step |-> "start"] /\ Others(r)
    BY DEF PipeInv, TypeOK, cron, Others
  <1>3. todo'[r] = {} /\ item'[r] = None
    BY DEF PipeInv, Local, cron, Idle
  <1>4. Local(r)' /\ Copied(r)' /\ Loaded(r)'
    BY <1>2, <1>3, FreshRun DEF Script
  <1> QED BY <1>1, <1>2, <1>4, QuietInv DEF cron

\* What a script lists is in its bucket, and so of its own kind.
LEMMA listsInv == ASSUME PipeInv, NEW r \in Runs, lists(r) PROVE PipeInv'
  <1> DEFINE next == IF pc[r].script \in {"importer", "migrator"} THEN "select" ELSE "take"
  <1>1. TypeOK /\ Local(r) /\ BucketsSorted
    BY DEF PipeInv
  <1>2. pc[r] # Idle
    BY DEF lists, At, Idle
  <1>3. pc[r].script \in Script
    BY <1>1, <1>2, PcType
  <1>4. /\ pc' \in [Runs -> [script : Script, step : Step] \cup {Idle}]
        /\ pc'[r].script = pc[r].script /\ pc'[r].step = next /\ pc'[r] # Idle
        /\ \A s \in Runs \ {r} : pc'[s] = pc[s]
    <2>1. next \in Step /\ Go(r, next)
      BY DEF lists, Step
    <2> QED BY <1>1, <1>2, <2>1, Goes
  <1>5. Source(r) \in Buckets /\ bucket[Source(r)] \subseteq Own(pc[r].script)
    BY <1>1, <1>3 DEF Source, Buckets, Script, Own, BucketsSorted
  <1>6. TypeOK'
    BY <1>1, <1>4, <1>5 DEF lists, TypeOK, tables
  <1>7. Others(r) /\ todo'[r] = bucket[Source(r)] /\ item'[r] = None
    <2>1. item[r] = None
      BY <1>1 DEF lists, At, Local
    <2> QED BY <1>1, <1>4, <2>1 DEF lists, TypeOK, Others
  <1>8. Local(r)'
    BY <1>1, <1>3, <1>4, <1>5, <1>7 DEF Local, StepsOf, Script, Own
  <1>9. Copied(r)' /\ Loaded(r)'
    BY <1>4 DEF Copied, Loaded
  <1> QED BY <1>6, <1>7, <1>8, <1>9, QuietInv DEF lists

\* Names are left out.
LEMMA selectsInv == ASSUME PipeInv, NEW r \in Runs, selects(r) PROVE PipeInv'
  <1>1. TypeOK /\ Local(r)
    BY DEF PipeInv
  <1>2. pc[r] # Idle
    BY <1>1, NotIdle DEF selects
  <1>3. pc[r].script \in Script
    BY <1>1, <1>2, PcType
  <1>4. /\ pc' \in [Runs -> [script : Script, step : Step] \cup {Idle}]
        /\ pc'[r].script = pc[r].script /\ pc'[r].step = "take" /\ pc'[r] # Idle
        /\ \A s \in Runs \ {r} : pc'[s] = pc[s]
    BY <1>1, <1>2, Goes DEF selects, Step
  <1>5. TypeOK'
    BY <1>1, <1>4 DEF selects, TypeOK, tables
  <1>6. Others(r) /\ todo'[r] \subseteq todo[r] /\ item'[r] = None
    <2>1. item[r] = None
      BY <1>1 DEF selects, Local
    <2> QED BY <1>1, <1>4, <2>1 DEF selects, TypeOK, Others
  <1>7. Local(r)'
    BY <1>1, <1>3, <1>4, <1>6 DEF Local, StepsOf, Script, Own
  <1>8. Copied(r)' /\ Loaded(r)'
    BY <1>4 DEF Copied, Loaded
  <1> QED BY <1>5, <1>6, <1>7, <1>8, QuietInv DEF selects

\* A name is taken: the sorter skips what it does not know, the loaders die of a
\* file that is gone.
LEMMA takesInv == ASSUME PipeInv, NEW r \in Runs, takes(r) PROVE PipeInv'
  <1>1. TypeOK /\ Local(r)
    BY DEF PipeInv
  <1>2. pc[r] # Idle
    BY <1>1, NotIdle DEF takes
  <1>3. pc[r].script \in Script
    BY <1>1, <1>2, PcType
  <1>4. PICK f \in todo[r] :
          IF FirstStep(r, f) = "load" /\ f \notin bucket[Source(r)] THEN NextScript(r)
          ELSE /\ todo' = [todo EXCEPT ![r] = @ \ {f}]
               /\ item' = [item EXCEPT ![r] = IF FirstStep(r, f) = "take" THEN None ELSE f]
               /\ Go(r, FirstStep(r, f)) /\ UNCHANGED <<pending, input>>
    BY DEF takes
  <1>5. CASE FirstStep(r, f) = "load" /\ f \notin bucket[Source(r)]
    <2>1. NextScript(r) /\ failed' \in [Runs -> SUBSET Files] /\ UNCHANGED <<bucket, tables>>
      BY <1>1, <1>4, <1>5 DEF takes, TypeOK
    <2> QED BY <1>2, <2>1, ScriptChangesInv
  <1>6. CASE ~(FirstStep(r, f) = "load" /\ f \notin bucket[Source(r)])
    <2>1. FirstStep(r, f) \in StepsOf(pc[r].script) \cap {"load", "take", "copy"}
      BY <1>3 DEF FirstStep, StepsOf, Script
    <2>2. /\ pc' \in [Runs -> [script : Script, step : Step] \cup {Idle}]
          /\ pc'[r].script = pc[r].script /\ pc'[r].step = FirstStep(r, f) /\ pc'[r] # Idle
          /\ \A s \in Runs \ {r} : pc'[s] = pc[s]
      BY <1>1, <1>2, <1>4, <1>6, <2>1, Goes DEF Step
    <2>3. f \in Files /\ f \in Own(pc[r].script) /\ f # None
      BY <1>1, NoneAssumption DEF TypeOK, Local, Files
    <2>4. TypeOK'
      BY <1>1, <1>4, <1>6, <2>2, <2>3 DEF takes, TypeOK, tables
    <2>5. /\ Others(r) /\ todo'[r] \subseteq todo[r]
          /\ item'[r] = IF FirstStep(r, f) = "take" THEN None ELSE f
      BY <1>1, <1>4, <1>6, <2>2 DEF TypeOK, Others
    <2>6. pc[r].script = "sorter" /\ FirstStep(r, f) = "copy" => Kind[f] # "other"
      BY DEF FirstStep
    <2>7. Local(r)'
      BY <1>1, <2>1, <2>2, <2>3, <2>5, <2>6 DEF Local
    <2>8. Copied(r)' /\ Loaded(r)'
      <3>1. pc[r].script = "migrator" /\ FirstStep(r, f) = "copy" => Kind[f] = "other"
        BY DEF FirstStep
      <3> QED BY <2>1, <2>2, <2>5, <3>1 DEF Copied, Loaded
    <2> QED BY <2>4, <2>5, <2>7, <2>8, QuietInv DEF takes
  <1> QED BY <1>5, <1>6

\* The except clauses keep the invariant, also where a table was or was not
\* reached before.
LEMMA GivesUpInv ==
  ASSUME PipeInv, NEW r \in Runs, pc[r].step \in {"load", "record", "copy", "delete"},
         GivesUp(r), UNCHANGED <<bucket, tables>>
  PROVE  PipeInv'
  <1>1. TypeOK /\ Local(r)
    BY DEF PipeInv
  <1>2. pc[r] # Idle
    BY <1>1, NotIdle
  <1>3. pc[r].script \in Script
    BY <1>1, <1>2, PcType
  <1>4. CASE pc[r].script = "migrator" /\ Kind[item[r]] = "other"
    <2>1. NextScript(r) /\ failed' \in [Runs -> SUBSET Files]
      BY <1>1, <1>4 DEF GivesUp, TypeOK
    <2> QED BY <1>2, <2>1, ScriptChangesInv
  <1>5. CASE ~(pc[r].script = "migrator" /\ Kind[item[r]] = "other")
    <2>1. /\ Go(r, "take")
          /\ item' = [item EXCEPT ![r] = None]
          /\ pending' = [pending EXCEPT ![r] = {}]
          /\ failed' = [failed EXCEPT ![r] = @ \cup {item[r]}]
          /\ UNCHANGED <<todo, input>>
      BY <1>5 DEF GivesUp
    <2>2. /\ pc' \in [Runs -> [script : Script, step : Step] \cup {Idle}]
          /\ pc'[r].script = pc[r].script /\ pc'[r].step = "take" /\ pc'[r] # Idle
          /\ \A s \in Runs \ {r} : pc'[s] = pc[s]
      BY <1>1, <1>2, <2>1, Goes DEF Step
    <2>3. item[r] \in Files
      BY <1>1 DEF Local, Own, Files
    <2>4. TypeOK'
      BY <1>1, <2>1, <2>2, <2>3 DEF TypeOK, tables
    <2>5. Others(r) /\ todo'[r] = todo[r] /\ item'[r] = None
      BY <1>1, <2>1, <2>2 DEF TypeOK, Others
    <2>6. Local(r)'
      BY <1>1, <1>3, <2>2, <2>5 DEF Local, StepsOf, Script, Own
    <2>7. Copied(r)' /\ Loaded(r)'
      BY <2>2 DEF Copied, Loaded
    <2> QED BY <2>4, <2>5, <2>6, <2>7, QuietInv
  <1> QED BY <1>4, <1>5

\* A file is loaded, or not.
LEMMA loadsInv == ASSUME PipeInv, NEW r \in Runs, loads(r) PROVE PipeInv'
  <1>1. TypeOK /\ Local(r)
    BY DEF PipeInv
  <1>2. pc[r] # Idle /\ pc[r].step = "load"
    BY <1>1, NotIdle DEF loads
  <1>3. pc[r].script \in {"importer", "migrator"}
    BY <1>1, <1>2, PcType DEF Local, StepsOf, Script
  <1>4. item[r] \in Files /\ rows[item[r]] \in 0..2
    BY <1>1, <1>2 DEF TypeOK, Local, Own, Files
  <1>5. CASE /\ rows' = [rows EXCEPT ![item[r]] = More(@)]
             /\ recorded' = recorded \cup pending[r]
             /\ pending' = [pending EXCEPT ![r] = {}]
             /\ Go(r, "record")
             /\ UNCHANGED <<todo, item, failed, input>>
    <2>1. UNCHANGED <<bucket, rolled>>
      BY DEF loads
    <2>2. /\ pc' \in [Runs -> [script : Script, step : Step] \cup {Idle}]
          /\ pc'[r].script = pc[r].script /\ pc'[r].step = "record" /\ pc'[r] # Idle
          /\ \A s \in Runs \ {r} : pc'[s] = pc[s]
      BY <1>1, <1>2, <1>5, Goes DEF Step
    <2>3. /\ rows' \in [Files -> 0..2] /\ \A f \in Files : rows'[f] >= rows[f]
          /\ rows'[item[r]] > 0
      BY <1>1, <1>4, <1>5 DEF TypeOK, More
    <2>4. TypeOK'
      BY <1>1, <1>5, <2>1, <2>2, <2>3 DEF TypeOK
    <2>5. BucketsSorted'
      BY <2>1 DEF PipeInv, BucketsSorted
    <2>6. UploadedWereLoaded'
      <3>1. \A f \in bucket["dphiveoutputuploaded"] : f \in Files
        BY <1>1 DEF TypeOK, Buckets
      <3>2. \A f \in Files : rows[f] > 0 => rows'[f] > 0
        BY <1>1, <2>3 DEF TypeOK
      <3> QED BY <2>1, <3>1, <3>2 DEF PipeInv, UploadedWereLoaded
    <2>7. Others(r)
      BY <1>5, <2>2 DEF Others
    <2>8. Local(r)' /\ Copied(r)' /\ Loaded(r)'
      <3>1. Local(r)'
        BY <1>1, <1>2, <1>3, <1>5, <2>2 DEF Local, StepsOf, Own
      <3> QED BY <1>5, <2>2, <2>3, <3>1 DEF Copied, Loaded
    <2>9. \A s \in Runs \ {r} : Local(s)' /\ Copied(s)' /\ Loaded(s)'
      BY <2>1, <2>3, <2>7, OthersKeep
    <2> QED BY <2>4, <2>5, <2>6, <2>8, <2>9 DEF PipeInv
  <1>6. CASE Failures /\ GivesUp(r) /\ UNCHANGED <<rows, recorded>>
    BY <1>2, <1>6, GivesUpInv DEF loads, tables
  <1> QED BY <1>5, <1>6 DEF loads

\* A name is inserted, or not; the migrator goes on to move the file it has
\* loaded.
LEMMA recordsInv == ASSUME PipeInv, NEW r \in Runs, records(r) PROVE PipeInv'
  <1>1. TypeOK /\ Local(r) /\ Loaded(r)
    BY DEF PipeInv
  <1>2. pc[r] # Idle /\ pc[r].step = "record"
    BY <1>1, NotIdle DEF records
  <1>3. pc[r].script \in {"importer", "migrator"}
    BY <1>1, <1>2, PcType DEF Local, StepsOf, Script
  <1>4. item[r] \in Files
    BY <1>1, <1>2 DEF Local, Own, Files
  <1>5. CASE /\ Insert(r)
             /\ IF pc[r].script = "importer"
                THEN Go(r, "take") /\ item' = [item EXCEPT ![r] = None]
                ELSE Go(r, "copy") /\ UNCHANGED item
             /\ UNCHANGED <<todo, failed, input>>
    <2> DEFINE next == IF pc[r].script = "importer" THEN "take" ELSE "copy"
    <2>1. UNCHANGED <<bucket, rows, rolled>>
      BY DEF records
    <2>2. /\ pc' \in [Runs -> [script : Script, step : Step] \cup {Idle}]
          /\ pc'[r].script = pc[r].script /\ pc'[r].step = next /\ pc'[r] # Idle
          /\ \A s \in Runs \ {r} : pc'[s] = pc[s]
      <3>1. next \in Step /\ Go(r, next)
        BY <1>5 DEF Step
      <3> QED BY <1>1, <1>2, <3>1, Goes
    <2>3. pending' \in [Runs -> SUBSET Files] /\ recorded' \subseteq Files
      BY <1>1, <1>4, <1>5 DEF Insert, TypeOK
    <2>4. /\ item' \in [Runs -> Files \cup {None}]
          /\ item'[r] = IF pc[r].script = "importer" THEN None ELSE item[r]
          /\ \A s \in Runs \ {r} : item'[s] = item[s]
      BY <1>1, <1>5 DEF TypeOK
    <2>5. TypeOK'
      BY <1>1, <1>5, <2>1, <2>2, <2>3, <2>4 DEF TypeOK
    <2>6. BucketsSorted' /\ UploadedWereLoaded'
      BY <2>1 DEF PipeInv, BucketsSorted, UploadedWereLoaded
    <2>7. Others(r)
      BY <1>5, <2>2, <2>4 DEF Others
    <2>8. Local(r)' /\ Copied(r)' /\ Loaded(r)'
      <3>1. Local(r)'
        BY <1>1, <1>2, <1>3, <1>5, <2>2, <2>4 DEF Local, StepsOf, Own
      <3> QED BY <1>1, <1>2, <1>3, <2>1, <2>2, <2>4, <3>1 DEF Copied, Loaded
    <2>9. \A s \in Runs \ {r} : Local(s)' /\ Copied(s)' /\ Loaded(s)'
      <3>1. rows' \in [Files -> 0..2] /\ \A f \in Files : rows'[f] >= rows[f]
        BY <1>1, <2>1 DEF TypeOK
      <3> QED BY <2>1, <2>7, <3>1, OthersKeep
    <2> QED BY <2>5, <2>6, <2>8, <2>9 DEF PipeInv
  <1>6. CASE Failures /\ GivesUp(r) /\ UNCHANGED recorded
    BY <1>2, <1>6, GivesUpInv DEF records, tables
  <1> QED BY <1>5, <1>6 DEF records

\* Every script moves a file one way.
LEMMA Moves ==
  ASSUME PipeInv, NEW r \in Runs, pc[r].step \in {"copy", "delete"}
  PROVE  \/ /\ pc[r].script = "migrator" /\ Source(r) = "dphiveoutput"
            /\ Target(r, item[r]) = "dphiveoutputuploaded"
         \/ /\ pc[r].script = "runner" /\ Source(r) = "mmlogs"
            /\ Target(r, item[r]) = "mmlogsarchive"
         \/ /\ pc[r].script = "sorter" /\ Source(r) = "mm_logs"
            /\ Target(r, item[r]) \in {"mmhandset", "mmchannels", "mmlogs"}
  <1>1. TypeOK /\ Local(r) /\ pc[r] # Idle
    BY NotIdle DEF PipeInv
  <1>2. pc[r].script \in {"sorter", "runner", "migrator"}
    BY <1>1, PcType DEF Local, StepsOf, Script
  <1>3. pc[r].script = "sorter" => Kind[item[r]] \in {"capabilities", "channel", "views"}
    BY <1>1, KindAssumption DEF Local, Own, LogKind
  <1> QED BY <1>2, <1>3 DEF Source, Target

\* A file is copied, further on and, by the migrator, once it is loaded.
LEMMA copiesInv == ASSUME PipeInv, NEW r \in Runs, copies(r) PROVE PipeInv'
  <1>1. TypeOK /\ Local(r) /\ Loaded(r) /\ BucketsSorted
    BY DEF PipeInv
  <1>2. pc[r] # Idle /\ pc[r].step = "copy" /\ UNCHANGED tables
    BY <1>1, NotIdle DEF copies
  <1> DEFINE to == Target(r, item[r])
  <1>3. CASE /\ item[r] \in bucket[Source(r)]
             /\ bucket' = [bucket EXCEPT ![to] = @ \cup {item[r]}]
             /\ Go(r, "delete")
             /\ UNCHANGED <<todo, item, pending, failed, input>>
    <2>1. /\ pc' \in [Runs -> [script : Script, step : Step] \cup {Idle}]
          /\ pc'[r].script = pc[r].script /\ pc'[r].step = "delete" /\ pc'[r] # Idle
          /\ \A s \in Runs \ {r} : pc'[s] = pc[s]
      BY <1>1, <1>2, <1>3, Goes DEF Step
    <2>2. to \in Buckets /\ Source(r) \in Buckets /\ Rank(to) > Rank(Source(r))
      BY <1>2, Moves DEF Rank, Buckets
    <2>3. item[r] \in Files /\ item[r] \in Own(pc[r].script) /\ item[r] # None
      BY <1>1, <1>2 DEF Local, Own, Files
    <2>4. /\ bucket' \in [Buckets -> SUBSET Files] /\ item[r] \in bucket'[to]
          /\ \A b \in Buckets : bucket[b] \subseteq bucket'[b]
      BY <1>1, <1>3, <2>2, <2>3 DEF TypeOK
    <2>5. TypeOK'
      BY <1>1, <1>2, <1>3, <2>1, <2>4 DEF TypeOK, tables
    <2>6. BucketsSorted'
      <3>1. (to \in {"dphiveoutput", "dphiveoutputuploaded"}) <=> pc[r].script = "migrator"
        BY <1>2, Moves
      <3> QED BY <1>1, <1>3, <2>2, <2>3, <3>1 DEF BucketsSorted, TypeOK, Own
    <2>7. UploadedWereLoaded'
      <3>1. CASE pc[r].script = "migrator"
        BY <1>1, <1>2, <1>3, <2>2, <3>1
           DEF PipeInv, UploadedWereLoaded, Loaded, TypeOK, tables, Buckets
      <3>2. CASE pc[r].script # "migrator"
        <4>1. to # "dphiveoutputuploaded"
          BY <1>2, <3>2, Moves
        <4> QED BY <1>1, <1>2, <1>3, <4>1
                   DEF PipeInv, UploadedWereLoaded, TypeOK, tables, Buckets
      <3> QED BY <3>1, <3>2
    <2>8. Others(r)
      BY <1>3, <2>1 DEF Others
    <2>9. Local(r)' /\ Copied(r)' /\ Loaded(r)'
      <3>1. Local(r)'
        <4>1. pc[r].script \in {"sorter", "runner", "migrator"}
          BY <1>2, Moves
        <4> QED BY <1>1, <1>2, <1>3, <2>1, <4>1 DEF Local, StepsOf, Own
      <3>2. Source(r)' = Source(r)
        BY <2>1 DEF Source
      <3>3. Copied(r)'
        BY <1>3, <2>2, <2>4, <3>2 DEF Copied
      <3> QED BY <1>1, <1>2, <1>3, <2>1, <3>1, <3>3 DEF Loaded, tables
    <2>10. \A s \in Runs \ {r} : Local(s)' /\ Copied(s)' /\ Loaded(s)'
      <3>1. rows' \in [Files -> 0..2] /\ \A f \in Files : rows'[f] >= rows[f]
        BY <1>1, <1>2 DEF TypeOK, tables
      <3> QED BY <2>4, <2>8, <3>1, OthersKeep
    <2> QED BY <2>5, <2>6, <2>7, <2>9, <2>10 DEF PipeInv
  <1>4. CASE GivesUp(r) /\ UNCHANGED bucket
    BY <1>2, <1>4, GivesUpInv
  <1> QED BY <1>3, <1>4 DEF copies

\* Deleting a file from the bucket of run r: what any run has copied is still
\* further on, because the file was further on than the bucket of r.
LEMMA deletesInv == ASSUME PipeInv, NEW r \in Runs, deletes(r) PROVE PipeInv'
  <1>1. TypeOK /\ Local(r) /\ Copied(r) /\ BucketsSorted
    BY DEF PipeInv
  <1>2. pc[r] # Idle /\ pc[r].step = "delete" /\ UNCHANGED tables
    BY <1>1, NotIdle DEF deletes
  <1>3. CASE /\ bucket' = [bucket EXCEPT ![Source(r)] = @ \ {item[r]}]
             /\ Go(r, "take") /\ item' = [item EXCEPT ![r] = None]
             /\ UNCHANGED <<todo, pending, failed, input>>
    <2>1. /\ pc' \in [Runs -> [script : Script, step : Step] \cup {Idle}]
          /\ pc'[r].script = pc[r].script /\ pc'[r].step = "take" /\ pc'[r] # Idle
          /\ \A s \in Runs \ {r} : pc'[s] = pc[s]
      BY <1>1, <1>2, <1>3, Goes DEF Step
    <2>2. /\ bucket' \in [Buckets -> SUBSET Files]
          /\ \A b \in Buckets : bucket'[b] \subseteq bucket[b]
          /\ \A b \in Buckets, f \in Files :
                f \in bucket[b] => f \in bucket'[b] \/ (b = Source(r) /\ f = item[r])
      BY <1>1, <1>3 DEF TypeOK
    <2>3. TypeOK'
      BY <1>1, <1>2, <1>3, <2>1, <2>2 DEF TypeOK, tables
    <2>4. BucketsSorted' /\ UploadedWereLoaded'
      <3>1. "dphiveoutputuploaded" \in Buckets
        BY DEF Buckets
      <3>2. UploadedWereLoaded'
        BY <1>2, <2>2, <3>1 DEF PipeInv, UploadedWereLoaded, tables
      <3> QED BY <1>1, <2>2, <3>2 DEF BucketsSorted
    <2>5. /\ Others(r) /\ todo'[r] = todo[r] /\ item'[r] = None
      BY <1>1, <1>3, <2>1 DEF TypeOK, Others
    <2>6. Local(r)' /\ Copied(r)' /\ Loaded(r)'
      <3>1. pc[r].script \in {"sorter", "runner", "migrator"}
        BY <1>2, Moves
      <3>2. Local(r)'
        BY <1>1, <2>1, <2>5, <3>1 DEF Local, StepsOf, Own
      <3> QED BY <2>1, <3>2 DEF Copied, Loaded
    <2>7. ASSUME NEW s \in Runs \ {r} PROVE Local(s)' /\ Copied(s)' /\ Loaded(s)'
      <3>1. pc'[s] = pc[s] /\ todo'[s] = todo[s] /\ item'[s] = item[s]
        BY <2>5 DEF Others
      <3>2. Local(s) /\ Copied(s) /\ Loaded(s)
        BY DEF PipeInv
      <3>3. Local(s)' /\ Loaded(s)'
        BY <1>2, <3>1, <3>2 DEF Local, Loaded, tables
      <3>4. Copied(s)'
        <4> SUFFICES ASSUME pc[s].step = "delete"
                     PROVE  \E b \in Buckets :
                              Rank(b) > Rank(Source(s)) /\ item[s] \in bucket'[b]
          BY <3>1 DEF Copied, Source
        <4>1. PICK b \in Buckets : Rank(b) > Rank(Source(s)) /\ item[s] \in bucket[b]
          BY <3>2 DEF Copied
        <4>2. PICK c \in Buckets : Rank(c) > Rank(Source(r)) /\ item[r] \in bucket[c]
          BY <1>1, <1>2 DEF Copied
        <4>3. item[s] \in Files /\ item[r] \in Files
          BY <1>1, <4>1, <4>2 DEF TypeOK
        <4>4. CASE b = Source(r) /\ item[s] = item[r]
          <5>1. Rank(b) \in Nat /\ Rank(c) \in Nat /\ Rank(Source(s)) \in Nat
            BY <1>2, Moves DEF Rank, Buckets
          <5>2. Rank(c) > Rank(Source(s))
            BY <4>1, <4>2, <4>4, <5>1
          <5>3. c # Source(r)
            BY <4>2, <4>4, <5>1
          <5> QED BY <2>2, <4>2, <4>3, <4>4, <5>2, <5>3
        <4>5. CASE ~(b = Source(r) /\ item[s] = item[r])
          BY <2>2, <4>1, <4>3, <4>5
        <4> QED BY <4>4, <4>5
      <3> QED BY <3>3, <3>4
    <2> QED BY <2>3, <2>4, <2>6, <2>7 DEF PipeInv
  <1>4. CASE Failures /\ GivesUp(r) /\ UNCHANGED bucket
    BY <1>2, <1>4, GivesUpInv
  <1> QED BY <1>3, <1>4 DEF deletes

\* The job is submitted ...
LEMMA submitsInv == ASSUME PipeInv, NEW r \in Runs, submits(r) PROVE PipeInv'
  <1>1. TypeOK /\ Local(r)
    BY DEF PipeInv
  <1>2. pc[r] # Idle /\ pc[r].script = "runner"
    BY DEF submits, At, Idle
  <1>3. /\ pc' \in [Runs -> [script : Script, step : Step] \cup {Idle}]
        /\ pc'[r].script = pc[r].script /\ pc'[r].step = "submitted" /\ pc'[r] # Idle
        /\ \A s \in Runs \ {r} : pc'[s] = pc[s]
    BY <1>1, <1>2, Goes DEF submits, Step
  <1>4. TypeOK' /\ Others(r)
    BY <1>1, <1>3 DEF submits, TypeOK, tables, Others
  <1>5. Local(r)'
    BY <1>1, <1>2, <1>3 DEF submits, At, Local, StepsOf, Own
  <1>6. Copied(r)' /\ Loaded(r)'
    BY <1>3 DEF Copied, Loaded
  <1> QED BY <1>4, <1>5, <1>6, QuietInv DEF submits

\* ... opens its input ...
LEMMA JobReadsInv == ASSUME PipeInv, NEW r \in Runs, JobReads(r) PROVE PipeInv'
  <1>1. TypeOK /\ Local(r)
    BY DEF PipeInv
  <1>2. pc[r] # Idle /\ pc[r].script = "runner"
    BY DEF JobReads, At, Idle
  <1>3. /\ pc' \in [Runs -> [script : Script, step : Step] \cup {Idle}]
        /\ pc'[r].script = pc[r].script /\ pc'[r].step = "running" /\ pc'[r] # Idle
        /\ \A s \in Runs \ {r} : pc'[s] = pc[s]
    BY <1>1, <1>2, Goes DEF JobReads, Step
  <1>4. TypeOK' /\ Others(r)
    BY <1>1, <1>3 DEF JobReads, TypeOK, tables, Others, Buckets
  <1>5. Local(r)'
    BY <1>1, <1>2, <1>3 DEF JobReads, At, Local, StepsOf, Own
  <1>6. Copied(r)' /\ Loaded(r)'
    BY <1>3 DEF Copied, Loaded
  <1> QED BY <1>4, <1>5, <1>6, QuietInv DEF JobReads

\* The job adds files to dphiveoutput, and that is all it does to a bucket.
LEMMA JobWritesKeeps ==
  ASSUME PipeInv, NEW r \in Runs, JobWrites(r)
  PROVE  /\ bucket' \in [Buckets -> SUBSET Files] /\ rolled' \in [Logs -> 0..2]
         /\ \A b \in Buckets : bucket[b] \subseteq bucket'[b]
         /\ \A b \in Buckets : b # "dphiveoutput" => bucket'[b] = bucket[b]
         /\ rows' = rows /\ recorded' = recorded /\ failed' = failed
         /\ rows' \in [Files -> 0..2] /\ \A f \in Files : rows'[f] >= rows[f]
         /\ BucketsSorted' /\ UploadedWereLoaded'
  <1>1. TypeOK /\ BucketsSorted /\ UploadedWereLoaded
    BY DEF PipeInv
  <1>2. PICK O \in SUBSET {f \in Outs : \A b \in Buckets : f \notin bucket[b]} :
          bucket' = [bucket EXCEPT !["dphiveoutput"] = @ \cup O]
    BY DEF JobWrites
  <1>3. O \subseteq Outs /\ O \subseteq Files
    BY DEF Files
  <1>4. rows' = rows /\ recorded' = recorded /\ failed' = failed
    BY DEF JobWrites
  <1>5. /\ bucket' \in [Buckets -> SUBSET Files]
        /\ \A b \in Buckets : bucket[b] \subseteq bucket'[b]
        /\ \A b \in Buckets : b # "dphiveoutput" => bucket'[b] = bucket[b]
    BY <1>1, <1>2, <1>3 DEF TypeOK
  <1>6. rolled' \in [Logs -> 0..2]
    BY <1>1 DEF JobWrites, TypeOK, More
  <1>7. BucketsSorted'
    BY <1>1, <1>2, <1>3, <1>5 DEF BucketsSorted, TypeOK
  <1>8. UploadedWereLoaded'
    BY <1>1, <1>4, <1>5 DEF UploadedWereLoaded, Buckets
  <1>9. rows' \in [Files -> 0..2] /\ \A f \in Files : rows'[f] >= rows[f]
    BY <1>1, <1>4 DEF TypeOK
  <1> QED BY <1>4, <1>5, <1>6, <1>7, <1>8, <1>9

\* ... and completes, seen by its runner ...
LEMMA JobCompletesInv == ASSUME PipeInv, NEW r \in Runs, JobCompletes(r) PROVE PipeInv'
  <1>1. TypeOK /\ Local(r) /\ JobWrites(r)
    BY DEF PipeInv, JobCompletes
  <1>2. pc[r] # Idle /\ pc[r].script = "runner"
    BY DEF JobCompletes, At, Idle
  <1>3. /\ pc' \in [Runs -> [script : Script, step : Step] \cup {Idle}]
        /\ pc'[r].script = pc[r].script /\ pc'[r].step = "completed" /\ pc'[r] # Idle
        /\ \A s \in Runs \ {r} : pc'[s] = pc[s]
    BY <1>1, <1>2, Goes DEF JobCompletes, Step
  <1>4. TypeOK' /\ Others(r)
    BY <1>1, <1>3, JobWritesKeeps DEF JobCompletes, TypeOK, Others
  <1>5. Local(r)' /\ Copied(r)' /\ Loaded(r)'
    BY <1>1, <1>2, <1>3 DEF JobCompletes, At, Local, StepsOf, Own, Copied, Loaded
  <1>6. \A s \in Runs \ {r} : Local(s)' /\ Copied(s)' /\ Loaded(s)'
    BY <1>1, <1>4, JobWritesKeeps, OthersKeep
  <1> QED BY <1>1, <1>4, <1>5, <1>6, JobWritesKeeps DEF PipeInv

\* ... or not.
LEMMA JobOutlivesInv == ASSUME PipeInv, NEW r \in Runs, JobOutlives(r) PROVE PipeInv'
  <1>1. TypeOK /\ JobWrites(r) /\ NextScript(r)
    BY DEF PipeInv, JobOutlives
  <1>2. pc[r] # Idle
    BY DEF JobOutlives, At, Idle
  <1>3. TypeOK'
    BY <1>1, <1>2, ScriptChanges, JobWritesKeeps DEF TypeOK
  <1>4. pc'[r] = Idle \/ pc'[r].script \in Script
    BY <1>3 DEF TypeOK
  <1>5. Local(r)' /\ Copied(r)' /\ Loaded(r)'
    BY <1>1, <1>2, <1>4, ScriptChanges, FreshRun
  <1>6. \A s \in Runs \ {r} : Local(s)' /\ Copied(s)' /\ Loaded(s)'
    BY <1>1, <1>2, JobWritesKeeps, ScriptChanges, OthersKeep
  <1> QED BY <1>1, <1>3, <1>5, <1>6, JobWritesKeeps DEF PipeInv

\* A script ends or dies, or its job fails: the next one starts.
LEMMA ScriptOverInv ==
  ASSUME PipeInv, NEW r \in Runs, ScriptEnds(r) \/ ScriptDies(r) \/ JobFails(r)
  PROVE  PipeInv'
  <1>1. TypeOK
    BY DEF PipeInv
  <1>2. pc[r] # Idle
    BY DEF ScriptEnds, ScriptDies, JobFails, Idle
  <1>3. /\ NextScript(r) /\ UNCHANGED <<bucket, tables>>
        /\ failed' \in [Runs -> SUBSET Files]
    BY <1>1 DEF ScriptEnds, ScriptDies, JobFails, TypeOK
  <1> QED BY <1>2, <1>3, ScriptChangesInv

-----------------------------------------------------------------------------
\* It holds at first ...
LEMMA PipeInit == Init => PipeInv
  <1> SUFFICES ASSUME Init PROVE PipeInv
    OBVIOUS
  <1>1. TypeOK
    BY DEF Init, TypeOK
  <1>2. BucketsSorted /\ UploadedWereLoaded
    BY DEF Init, BucketsSorted, UploadedWereLoaded, Buckets
  <1>3. \A r \in Runs : Local(r) /\ Copied(r) /\ Loaded(r)
    BY DEF Init, Local, Copied, Loaded, Idle, Own
  <1> QED BY <1>1, <1>2, <1>3 DEF PipeInv

\* ... and is kept by every step.
LEMMA PipeNext == PipeInv /\ [Next]_vars => PipeInv'
  <1> SUFFICES ASSUME PipeInv, [Next]_vars PROVE PipeInv'
    OBVIOUS
  <1>1. CASE UNCHANGED vars
    BY <1>1 DEF vars, PipeInv, TypeOK, BucketsSorted, UploadedWereLoaded, Local, Copied,
                Loaded, Source
  <1>2. ASSUME NEW f \in Logs, Arrives(f) PROVE PipeInv'
    BY <1>2, ArrivesInv
  <1>3. ASSUME NEW r \in Runs, Proceeds(r) PROVE PipeInv'
    BY <1>3, cronInv, listsInv, selectsInv, takesInv, loadsInv, recordsInv, copiesInv,
       deletesInv, submitsInv, JobReadsInv, JobCompletesInv, ScriptOverInv DEF Proceeds
  <1>4. ASSUME NEW r \in Runs, ScriptDies(r) \/ JobOutlives(r) \/ JobFails(r)
        PROVE  PipeInv'
    BY <1>4, ScriptOverInv, JobOutlivesInv
  <1> QED BY <1>1, <1>2, <1>3, <1>4 DEF Next

\* Whatever fails, dies or overlaps, a file mm_hadoop_to_mysql_migrator.py has put
\* away in dphiveoutputuploaded was loaded into a table, if its name was known.
THEOREM UploadedAreLoaded == Spec => []UploadedWereLoaded
  <1>1. PipeInv => UploadedWereLoaded
    BY DEF PipeInv
  <1> QED BY <1>1, PipeInit, PipeNext, PTL DEF Spec

\* Whatever fails, dies or overlaps, no step of a script removes the last copy of
\* a file: each copies before it deletes, and no run moves a file back to where
\* another is about to delete it.
THEOREM NothingIsLost == Spec => NothingLost
  <1>1. ASSUME PipeInv, [Next]_vars
        PROVE  [\A f \in Files : (\E b \in Buckets : f \in bucket[b])
                                => \E b \in Buckets : f \in bucket'[b]]_vars
    <2> SUFFICES ASSUME Next, NEW f \in Files, NEW b \in Buckets, f \in bucket[b]
                 PROVE  \E c \in Buckets : f \in bucket'[c]
      BY <1>1
    <2>1. ASSUME NEW r \in Runs, deletes(r) PROVE \E c \in Buckets : f \in bucket'[c]
      <3>1. CASE UNCHANGED bucket
        BY <3>1
      <3>2. CASE bucket' = [bucket EXCEPT ![Source(r)] = @ \ {item[r]}]
        <4>1. PICK c \in Buckets : Rank(c) > Rank(Source(r)) /\ item[r] \in bucket[c]
          BY <1>1, <2>1 DEF PipeInv, Copied, deletes
        <4>2. Source(r) \in Buckets
          BY <1>1, <2>1, Moves DEF deletes, Buckets
        <4>3. c # Source(r)
          BY <4>1, <4>2 DEF Rank, Buckets
        <4>4. CASE f = item[r]
          BY <1>1, <3>2, <4>1, <4>3, <4>4 DEF PipeInv, TypeOK
        <4>5. CASE f # item[r]
          BY <1>1, <3>2, <4>5 DEF PipeInv, TypeOK
        <4> QED BY <4>4, <4>5
      <3> QED BY <2>1, <3>1, <3>2 DEF deletes
    <2>2. ASSUME NEW r \in Runs, copies(r) PROVE \E c \in Buckets : f \in bucket'[c]
      BY <1>1, <2>2 DEF copies, PipeInv, TypeOK
    <2>3. ASSUME NEW r \in Runs, JobWrites(r) PROVE \E c \in Buckets : f \in bucket'[c]
      BY <1>1, <2>3, JobWritesKeeps
    <2>4. ASSUME NEW g \in Logs, Arrives(g) PROVE \E c \in Buckets : f \in bucket'[c]
      BY <1>1, <2>4 DEF Arrives, PipeInv, TypeOK
    <2> QED
      BY <2>1, <2>2, <2>3, <2>4 DEF Next, Proceeds, cron, lists, selects, takes, loads,
         records, submits, JobReads, JobCompletes, JobOutlives, JobFails, ScriptEnds,
         ScriptDies
  <1> QED BY <1>1, PipeInit, PipeNext, PTL DEF Spec, NothingLost

-----------------------------------------------------------------------------
(* Calm days.                                                              *)

\* The days do not overlap, no call fails, and the tables have no transactions.
Calm == (\A r, s \in Runs : r = s) /\ ~Failures /\ ~Transactional

\* What was loaded is recorded, but for the file between the two.
RowsAreRecorded(r) ==
  \A f \in Logs :
    rows[f] > 0 <=>
      \/ f \in recorded
      \/ pc[r].script = "importer" /\ pc[r].step = "record" /\ item[r] = f

\* The importer has before it just the files of mmlogs that are not recorded.
Imports(r) ==
  pc[r].script = "importer" =>
    /\ pc[r].step = "select" => todo[r] = bucket["mmlogs"]
    /\ pc[r].step \in {"take", "load", "record"} =>
         /\ todo[r] \subseteq bucket["mmlogs"] /\ todo[r] \cap recorded = {}
         /\ item[r] \notin todo[r] \cup recorded
         /\ bucket["mmlogs"] \subseteq todo[r] \cup recorded \cup {item[r]}

\* When the runner begins all of mmlogs was imported; its job, once it runs, has
\* read all of mmlogs, and nothing is added while files are archived.
RollsUp(r) ==
  pc[r].script = "runner" =>
    /\ \A f \in bucket["mmlogs"] : rows[f] > 0
    /\ pc[r].step = "running" => bucket["mmlogs"] \subseteq input[r]
    /\ pc[r].step \in {"completed", "take", "copy", "delete"} =>
         \A f \in bucket["mmlogs"] : rolled[f] > 0

CalmRun(r) == pending[r] = {} /\ RowsAreRecorded(r) /\ Imports(r) /\ RollsUp(r)

\* What makes ArchiveAgrees inductive, together with PipeInv.
CalmInv ==
  /\ LoadedOnce /\ ArchivedWereImported /\ ArchivedWereRolledUp
  /\ \A r \in Runs : CalmRun(r)

\* The two buckets between the sorter and the archive hold log files.
LEMMA MmlogsAreLogs ==
  ASSUME PipeInv
  PROVE  /\ "mmlogs" \in Buckets /\ bucket["mmlogs"] \subseteq Logs
         /\ "mmlogsarchive" \in Buckets /\ bucket["mmlogsarchive"] \subseteq Logs
         /\ None \notin bucket["mmlogs"]
  BY NoneAssumption DEF PipeInv, BucketsSorted, Buckets

\* Once the importer has taken every name all of mmlogs was imported.
LEMMA CalmScriptChanges ==
  ASSUME PipeInv, NEW r \in Runs, CalmRun(r), pc[r] # Idle, NextScript(r),
         UNCHANGED <<bucket, tables>>,
         pc[r].script = "importer" => pc[r].step = "take" /\ todo[r] = {}
  PROVE  CalmRun(r)'
  <1>1. TypeOK
    BY DEF PipeInv
  <1>2. pc[r].script \in Script
    BY <1>1, PcType
  <1>3. /\ pc'[r] = Following(pc[r].script) /\ pc'[r].step = "start" /\ pending'[r] = {}
        /\ pc'[r].script = "runner" => pc[r].script = "importer"
    <2>1. pc'[r] = Following(pc[r].script) /\ pc'[r].step = "start" /\ pending'[r] = {}
      BY <1>1, ScriptChanges
    <2>2. pc'[r].script = "runner" => pc[r].script = "importer"
      BY <1>2, <2>1 DEF Following, Script, Idle
    <2> QED BY <2>1, <2>2
  <1>4. \A f \in Logs : rows[f] > 0 <=> f \in recorded
    BY DEF CalmRun, RowsAreRecorded
  <1>5. pc[r].script = "importer" => \A f \in bucket["mmlogs"] : rows[f] > 0
    <2>1. pc[r].script = "importer" => item[r] = None
      BY DEF PipeInv, Local
    <2> QED BY <1>4, <2>1, MmlogsAreLogs DEF CalmRun, Imports
  <1>6. RowsAreRecorded(r)'
    BY <1>3, <1>4 DEF RowsAreRecorded, tables
  <1>7. Imports(r)' /\ RollsUp(r)'
    BY <1>3, <1>5 DEF Imports, RollsUp, tables
  <1> QED BY <1>3, <1>6, <1>7 DEF CalmRun

\* The archive and the tables stay as they are.
LEMMA CalmTables ==
  ASSUME CalmInv, UNCHANGED tables, bucket'["mmlogsarchive"] = bucket["mmlogsarchive"]
  PROVE  LoadedOnce' /\ ArchivedWereImported' /\ ArchivedWereRolledUp'
  BY DEF CalmInv, LoadedOnce, ArchivedWereImported, ArchivedWereRolledUp, tables

\* A new file is in mm_logs, where neither script looks.
LEMMA CalmArrives ==
  ASSUME PipeInv, CalmInv, NEW f \in Logs, Arrives(f) PROVE CalmInv'
  <1>1. UNCHANGED <<tables, pc, todo, item, pending, failed, input>>
    BY DEF Arrives
  <1>2. /\ bucket'["mmlogs"] = bucket["mmlogs"]
        /\ bucket'["mmlogsarchive"] = bucket["mmlogsarchive"]
    BY DEF Arrives, PipeInv, TypeOK, Buckets
  <1>3. \A r \in Runs : CalmRun(r)'
    BY <1>1, <1>2 DEF CalmInv, CalmRun, RowsAreRecorded, Imports, RollsUp, tables
  <1> QED BY <1>1, <1>2, <1>3, CalmTables DEF CalmInv

\* A step that changes neither a bucket nor a table leaves the rest to CalmRun.
LEMMA CalmQuiet ==
  ASSUME Calm, CalmInv, NEW r \in Runs, UNCHANGED <<bucket, tables>>, CalmRun(r)'
  PROVE  CalmInv'
  BY CalmTables DEF Calm, CalmInv

\* Steps that only list, select, or move the job on.
LEMMA CalmControl ==
  ASSUME Calm, PipeInv, CalmInv, NEW r \in Runs,
         cron(r) \/ lists(r) \/ selects(r) \/ submits(r) \/ JobReads(r)
  PROVE  CalmInv'
  <1>1. TypeOK /\ CalmRun(r)
    BY DEF PipeInv, CalmInv
  <1>2. CASE cron(r)
    <2>1. pc'[r] = [script |-> "sorter", step |-> "start"]
          /\ UNCHANGED <<bucket, tables, pending>>
      BY <1>1, <1>2 DEF cron, TypeOK
    <2>2. CalmRun(r)'
      BY <1>1, <1>2, <2>1 DEF cron, Idle, CalmRun, RowsAreRecorded, Imports, RollsUp,
         tables
    <2> QED BY <2>1, <2>2, CalmQuiet
  <1>3. CASE lists(r)
    <2> DEFINE next == IF pc[r].script \in {"importer", "migrator"} THEN "select" ELSE "take"
    <2>1. pc[r] # Idle /\ pc[r].step \in {"start", "completed"}
          /\ (pc[r].script = "runner" <=> pc[r].step = "completed")
      BY <1>1, <1>3 DEF lists, At, Idle
    <2>2. pc'[r].script = pc[r].script /\ pc'[r].step = next
      <3>1. next \in Step /\ Go(r, next)
        BY <1>3 DEF lists, Step
      <3> QED BY <1>1, <2>1, <3>1, Goes
    <2>3. /\ UNCHANGED <<bucket, tables, item, pending, input>>
          /\ todo'[r] = bucket[Source(r)]
      BY <1>1, <1>3 DEF lists, TypeOK
    <2>4. pc[r].script = "importer" => Source(r) = "mmlogs"
      BY DEF Source
    <2>5. CalmRun(r)'
      BY <1>1, <2>1, <2>2, <2>3, <2>4 DEF CalmRun, RowsAreRecorded, Imports, RollsUp,
         tables
    <2> QED BY <2>3, <2>5, CalmQuiet
  <1>4. CASE selects(r)
    <2>1. pc[r] # Idle /\ pc[r].step = "select"
      BY <1>1, <1>4, NotIdle DEF selects
    <2>2. pc'[r].script = pc[r].script /\ pc'[r].step = "take"
      BY <1>1, <1>4, <2>1, Goes DEF selects, Step
    <2>3. /\ UNCHANGED <<bucket, tables, item, pending, input>>
          /\ todo'[r] = todo[r] \ recorded
      BY <1>1, <1>4 DEF selects, TypeOK
    <2>4. pc[r].script \in {"importer", "migrator"}
      BY <1>1, <2>1, PcType DEF PipeInv, Local, StepsOf, Script
    <2>5. item[r] = None /\ None \notin recorded /\ None \notin todo[r]
      BY <1>1, <2>1, NoneAssumption DEF PipeInv, TypeOK, Local, Files
    <2>6. CalmRun(r)'
      BY <1>1, <2>1, <2>2, <2>3, <2>4, <2>5 DEF CalmRun, RowsAreRecorded, Imports,
         RollsUp, tables
    <2> QED BY <2>3, <2>6, CalmQuiet
  <1>5. CASE submits(r)
    <2>1. pc[r] # Idle /\ pc[r].script = "runner"
      BY <1>5 DEF submits, At, Idle
    <2>2. pc'[r].script = pc[r].script /\ pc'[r].step = "submitted"
      BY <1>1, <1>5, <2>1, Goes DEF submits, Step
    <2>3. UNCHANGED <<bucket, tables, pending>>
      BY <1>5 DEF submits
    <2>4. CalmRun(r)'
      BY <1>1, <2>1, <2>2, <2>3 DEF CalmRun, RowsAreRecorded, Imports, RollsUp, tables
    <2> QED BY <2>3, <2>4, CalmQuiet
  <1>6. CASE JobReads(r)
    <2>1. pc[r] # Idle /\ pc[r].script = "runner"
      BY <1>6 DEF JobReads, At, Idle
    <2>2. pc'[r].script = pc[r].script /\ pc'[r].step = "running"
      BY <1>1, <1>6, <2>1, Goes DEF JobReads, Step
    <2>3. UNCHANGED <<bucket, tables, pending>> /\ input'[r] = bucket["mmlogs"]
      BY <1>1, <1>6 DEF JobReads, TypeOK
    <2>4. CalmRun(r)'
      BY <1>1, <2>1, <2>2, <2>3 DEF CalmRun, RowsAreRecorded, Imports, RollsUp, tables
    <2> QED BY <2>3, <2>4, CalmQuiet
  <1> QED BY <1>2, <1>3, <1>4, <1>5, <1>6

\* A script ends or its job fails.  The importer ends when every file of mmlogs
\* is recorded.
LEMMA CalmScriptOver ==
  ASSUME Calm, PipeInv, CalmInv, NEW r \in Runs, ScriptEnds(r) \/ JobFails(r)
  PROVE  CalmInv'
  <1>1. pc[r] # Idle /\ NextScript(r) /\ UNCHANGED <<bucket, tables>>
    BY DEF ScriptEnds, JobFails, Idle
  <1>2. pc[r].script = "importer" => pc[r].step = "take" /\ todo[r] = {}
    BY DEF ScriptEnds, JobFails
  <1>3. CalmRun(r)'
    BY <1>1, <1>2, CalmScriptChanges DEF CalmInv
  <1> QED BY <1>1, <1>3, CalmQuiet

\* A name is taken: it is still in mmlogs, nobody else being at work.
LEMMA CalmTakes ==
  ASSUME Calm, PipeInv, CalmInv, NEW r \in Runs, takes(r) PROVE CalmInv'
  <1>1. TypeOK /\ Local(r) /\ CalmRun(r)
    BY DEF PipeInv, CalmInv
  <1>2. pc[r] # Idle /\ pc[r].step = "take" /\ UNCHANGED <<bucket, tables>>
    BY <1>1, NotIdle DEF takes
  <1>3. pc[r].script \in Script
    BY <1>1, <1>2, PcType
  <1>4. PICK f \in todo[r] :
          IF FirstStep(r, f) = "load" /\ f \notin bucket[Source(r)] THEN NextScript(r)
          ELSE /\ todo' = [todo EXCEPT ![r] = @ \ {f}]
               /\ item' = [item EXCEPT ![r] = IF FirstStep(r, f) = "take" THEN None ELSE f]
               /\ Go(r, FirstStep(r, f)) /\ UNCHANGED <<pending, input>>
    BY DEF takes
  <1>5. CASE FirstStep(r, f) = "load" /\ f \notin bucket[Source(r)]
    <2>1. pc[r].script # "importer"
      BY <1>1, <1>2, <1>5 DEF CalmRun, Imports, Source
    <2>2. CalmRun(r)'
      BY <1>1, <1>2, <1>4, <1>5, <2>1, CalmScriptChanges
    <2> QED BY <1>2, <2>2, CalmQuiet
  <1>6. CASE ~(FirstStep(r, f) = "load" /\ f \notin bucket[Source(r)])
    <2>1. FirstStep(r, f) \in {"load", "take", "copy"}
          /\ (pc[r].script = "importer" => FirstStep(r, f) = "load")
      BY <1>3 DEF FirstStep, Script
    <2>2. pc'[r].script = pc[r].script /\ pc'[r].step = FirstStep(r, f)
      BY <1>1, <1>2, <1>4, <1>6, <2>1, Goes DEF Step
    <2>3. /\ todo'[r] = todo[r] \ {f} /\ pending' = pending /\ input' = input
          /\ FirstStep(r, f) # "take" => item'[r] = f
      BY <1>1, <1>4, <1>6 DEF TypeOK
    <2>4. item[r] = None
      BY <1>1, <1>2 DEF Local
    <2>5. RowsAreRecorded(r)'
      BY <1>1, <1>2, <2>1, <2>2 DEF CalmRun, RowsAreRecorded, tables
    <2>6. Imports(r)'
      BY <1>1, <1>2, <2>1, <2>2, <2>3, <2>4, MmlogsAreLogs DEF CalmRun, Imports, tables
    <2>7. RollsUp(r)'
      BY <1>1, <1>2, <2>1, <2>2 DEF CalmRun, RollsUp, tables
    <2>8. CalmRun(r)'
      BY <1>1, <2>3, <2>5, <2>6, <2>7 DEF CalmRun
    <2> QED BY <1>2, <2>8, CalmQuiet
  <1> QED BY <1>5, <1>6

\* A file that is loaded was not recorded, and so never loaded before ...
LEMMA CalmLoads ==
  ASSUME Calm, PipeInv, CalmInv, NEW r \in Runs, loads(r) PROVE CalmInv'
  <1>1. TypeOK /\ Local(r) /\ CalmRun(r)
    BY DEF PipeInv, CalmInv
  <1>2. pc[r] # Idle /\ pc[r].step = "load"
    BY <1>1, NotIdle DEF loads
  <1>3. pc[r].script \in {"importer", "migrator"}
    BY <1>1, <1>2, PcType DEF Local, StepsOf, Script
  <1>4. /\ rows' = [rows EXCEPT ![item[r]] = More(@)]
        /\ recorded' = recorded /\ pending'[r] = {}
        /\ Go(r, "record")
        /\ UNCHANGED <<bucket, rolled, todo, item, input>>
    BY <1>1 DEF loads, Calm, CalmRun, TypeOK
  <1>5. item[r] \in Files /\ (pc[r].script = "importer" <=> item[r] \in Logs)
    BY <1>1, <1>2, <1>3, KindAssumption DEF Local, Own, Files
  <1>6. pc'[r].script = pc[r].script /\ pc'[r].step = "record"
    BY <1>1, <1>2, <1>4, Goes DEF Step
  <1>7. /\ \A f \in Files : f # item[r] => rows'[f] = rows[f]
        /\ rows'[item[r]] = More(rows[item[r]]) /\ rows[item[r]] \in 0..2
    BY <1>1, <1>4, <1>5 DEF TypeOK
  <1>8. pc[r].script = "importer" => rows[item[r]] = 0 /\ item[r] \notin recorded
    <2>1. pc[r].script = "importer" => item[r] \notin recorded
      BY <1>1, <1>2 DEF CalmRun, Imports
    <2>2. pc[r].script = "importer" => ~(rows[item[r]] > 0)
      BY <1>1, <1>2, <1>5, <2>1 DEF CalmRun, RowsAreRecorded
    <2> QED BY <1>7, <2>1, <2>2
  <1>9. /\ pc[r].script = "importer" => rows'[item[r]] = 1
        /\ rows'[item[r]] > 0
    BY <1>7, <1>8 DEF More
  <1>10. \A f \in Logs : f \in Files
    BY DEF Files
  <1>11. LoadedOnce'
    BY <1>1, <1>5, <1>7, <1>9, <1>10 DEF CalmInv, LoadedOnce
  <1>12. ArchivedWereImported' /\ ArchivedWereRolledUp'
    BY <1>4, <1>7, <1>9, <1>10, MmlogsAreLogs
       DEF CalmInv, ArchivedWereImported, ArchivedWereRolledUp
  <1>13. RowsAreRecorded(r)'
    <2> SUFFICES ASSUME NEW f \in Logs
                 PROVE  rows'[f] > 0 <=>
                          \/ f \in recorded
                          \/ pc[r].script = "importer" /\ item[r] = f
      BY <1>4, <1>6 DEF RowsAreRecorded
    <2>1. rows[f] > 0 <=> f \in recorded
      BY <1>1, <1>2 DEF CalmRun, RowsAreRecorded
    <2> QED BY <1>5, <1>7, <1>9, <1>10, <2>1
  <1>14. Imports(r)' /\ RollsUp(r)'
    BY <1>1, <1>2, <1>3, <1>4, <1>6 DEF CalmRun, Imports, RollsUp
  <1>15. CalmRun(r)'
    BY <1>4, <1>13, <1>14 DEF CalmRun
  <1> QED BY <1>11, <1>12, <1>15 DEF CalmInv, Calm

\* ... and now is recorded.
LEMMA CalmRecords ==
  ASSUME Calm, PipeInv, CalmInv, NEW r \in Runs, records(r) PROVE CalmInv'
  <1>1. TypeOK /\ Local(r) /\ CalmRun(r)
    BY DEF PipeInv, CalmInv
  <1>2. pc[r] # Idle /\ pc[r].step = "record"
    BY <1>1, NotIdle DEF records
  <1>3. pc[r].script \in {"importer", "migrator"}
    BY <1>1, <1>2, PcType DEF Local, StepsOf, Script
  <1> DEFINE next == IF pc[r].script = "importer" THEN "take" ELSE "copy"
  <1>4. /\ recorded' = recorded \cup {item[r]}
        /\ Go(r, next)
        /\ item'[r] = IF pc[r].script = "importer" THEN None ELSE item[r]
        /\ UNCHANGED <<bucket, rows, rolled, todo, pending, input>>
    BY <1>1 DEF records, Insert, Calm, TypeOK
  <1>5. (pc[r].script = "importer" <=> item[r] \in Logs) /\ item[r] # None
    BY <1>1, <1>2, <1>3, KindAssumption DEF Local, Own
  <1>6. pc'[r].script = pc[r].script /\ pc'[r].step = next
    <2>1. next \in Step
      BY DEF Step
    <2> QED BY <1>1, <1>2, <1>4, <2>1, Goes
  <1>7. LoadedOnce' /\ ArchivedWereImported' /\ ArchivedWereRolledUp'
    BY <1>4 DEF CalmInv, LoadedOnce, ArchivedWereImported, ArchivedWereRolledUp
  <1>8. RowsAreRecorded(r)'
    <2> SUFFICES ASSUME NEW f \in Logs
                 PROVE  rows[f] > 0 <=> f \in recorded \cup {item[r]}
      BY <1>4, <1>6 DEF RowsAreRecorded
    <2>1. rows[f] > 0 <=>
            \/ f \in recorded
            \/ pc[r].script = "importer" /\ item[r] = f
      BY <1>1, <1>2 DEF CalmRun, RowsAreRecorded
    <2> QED BY <1>5, <2>1
  <1>9. Imports(r)' /\ RollsUp(r)'
    <2>1. None \notin recorded /\ None \notin todo[r]
      BY <1>1, NoneAssumption DEF TypeOK, Files
    <2> QED BY <1>1, <1>2, <1>3, <1>4, <1>5, <1>6, <2>1 DEF CalmRun, Imports, RollsUp
  <1>10. CalmRun(r)'
    BY <1>1, <1>4, <1>8, <1>9 DEF CalmRun
  <1> QED BY <1>7, <1>10 DEF CalmInv, Calm

\* copy() fails only when the key is gone.
LEMMA CalmGivesUp ==
  ASSUME Calm, PipeInv, CalmInv, NEW r \in Runs, GivesUp(r), pc[r].step = "copy",
         UNCHANGED <<bucket, tables>>
  PROVE  CalmInv'
  <1>1. TypeOK /\ CalmRun(r) /\ pc[r] # Idle
    BY NotIdle DEF PipeInv, CalmInv
  <1>2. pc[r].script \in {"sorter", "runner", "migrator"}
    BY Moves
  <1>3. CASE NextScript(r)
    BY <1>1, <1>2, <1>3, CalmScriptChanges, CalmQuiet
  <1>4. CASE ~NextScript(r)
    <2>1. Go(r, "take") /\ pending'[r] = {}
      BY <1>1, <1>4 DEF GivesUp, TypeOK
    <2>2. pc'[r].script = pc[r].script /\ pc'[r].step = "take"
      BY <1>1, <2>1, Goes DEF Step
    <2>3. CalmRun(r)'
      BY <1>1, <1>2, <2>1, <2>2 DEF CalmRun, RowsAreRecorded, Imports, RollsUp, tables
    <2> QED BY <2>3, CalmQuiet
  <1> QED BY <1>3, <1>4

\* Moving a file: only the sorter adds to mmlogs, and only the runner adds to
\* the archive what it finds in mmlogs, after the job has read all there was.
LEMMA CalmMoves ==
  ASSUME Calm, PipeInv, CalmInv, NEW r \in Runs, copies(r) \/ deletes(r) PROVE CalmInv'
  <1>1. TypeOK /\ CalmRun(r) /\ Local(r)
    BY DEF PipeInv, CalmInv
  <1>2. pc[r] # Idle /\ pc[r].step \in {"copy", "delete"} /\ UNCHANGED tables
    BY <1>1, NotIdle DEF copies, deletes
  <1>3. pc[r].script \in {"sorter", "runner", "migrator"}
    BY <1>2, Moves
  <1>4. CASE GivesUp(r) /\ pc[r].step = "copy" /\ UNCHANGED bucket
    BY <1>2, <1>4, CalmGivesUp
  <1>5. CASE /\ item[r] \in bucket[Source(r)] /\ pc[r].step = "copy"
             /\ bucket' = [bucket EXCEPT ![Target(r, item[r])] = @ \cup {item[r]}]
             /\ Go(r, "delete")
             /\ UNCHANGED <<todo, item, pending, failed, input>>
    <2>1. pc'[r].script = pc[r].script /\ pc'[r].step = "delete"
      BY <1>1, <1>2, <1>5, Goes DEF Step
    <2>2. CASE pc[r].script = "runner"
      <3>1. /\ item[r] \in bucket["mmlogs"]
            /\ bucket'["mmlogs"] = bucket["mmlogs"]
            /\ bucket'["mmlogsarchive"] = bucket["mmlogsarchive"] \cup {item[r]}
        BY <1>1, <1>2, <1>5, <2>2, Moves DEF TypeOK, Buckets
      <3>2. rows[item[r]] > 0 /\ rolled[item[r]] > 0
        BY <1>1, <1>5, <2>2, <3>1 DEF CalmRun, RollsUp
      <3>3. LoadedOnce' /\ ArchivedWereImported' /\ ArchivedWereRolledUp'
        BY <1>2, <3>1, <3>2
           DEF CalmInv, LoadedOnce, ArchivedWereImported, ArchivedWereRolledUp, tables
      <3>4. CalmRun(r)'
        BY <1>1, <1>2, <1>5, <2>1, <2>2, <3>1
           DEF CalmRun, RowsAreRecorded, Imports, RollsUp, tables
      <3> QED BY <3>3, <3>4 DEF CalmInv, Calm
    <2>3. CASE pc[r].script # "runner"
      <3>1. bucket'["mmlogsarchive"] = bucket["mmlogsarchive"]
        BY <1>1, <1>2, <1>5, <2>3, Moves DEF TypeOK, Buckets
      <3>2. CalmRun(r)'
        BY <1>1, <1>2, <1>3, <1>5, <2>1, <2>3
           DEF CalmRun, RowsAreRecorded, Imports, RollsUp, tables
      <3> QED BY <1>2, <3>1, <3>2, CalmTables DEF CalmInv, Calm
    <2> QED BY <2>2, <2>3
  <1>6. CASE /\ bucket' = [bucket EXCEPT ![Source(r)] = @ \ {item[r]}]
             /\ Go(r, "take") /\ item' = [item EXCEPT ![r] = None] /\ pc[r].step = "delete"
             /\ UNCHANGED <<todo, pending, failed, input>>
    <2>1. pc'[r].script = pc[r].script /\ pc'[r].step = "take"
      BY <1>1, <1>2, <1>6, Goes DEF Step
    <2>2. /\ bucket'["mmlogsarchive"] = bucket["mmlogsarchive"]
          /\ bucket'["mmlogs"] \subseteq bucket["mmlogs"]
      BY <1>1, <1>2, <1>6, Moves DEF TypeOK, Buckets
    <2>3. CalmRun(r)'
      BY <1>1, <1>3, <1>2, <1>6, <2>1, <2>2
         DEF CalmRun, RowsAreRecorded, Imports, RollsUp, tables
    <2> QED BY <1>2, <2>2, <2>3, CalmTables DEF CalmInv, Calm
  <1> QED BY <1>4, <1>5, <1>6 DEF copies, deletes, Calm

\* The job has read all that the runner will find in mmlogs.
LEMMA CalmJobCompletes ==
  ASSUME Calm, PipeInv, CalmInv, NEW r \in Runs, JobCompletes(r) PROVE CalmInv'
  <1>1. TypeOK /\ CalmRun(r) /\ JobWrites(r)
    BY DEF PipeInv, CalmInv, JobCompletes
  <1>2. pc[r] # Idle /\ pc[r].script = "runner" /\ pc[r].step = "running"
    BY DEF JobCompletes, At, Idle
  <1>3. pc'[r].script = pc[r].script /\ pc'[r].step = "completed"
    BY <1>1, <1>2, Goes DEF JobCompletes, Step
  <1>4. /\ bucket'["mmlogs"] = bucket["mmlogs"] /\ rows' = rows /\ recorded' = recorded
        /\ bucket'["mmlogsarchive"] = bucket["mmlogsarchive"]
    BY <1>1, JobWritesKeeps DEF Buckets
  <1>5. \A f \in Logs : rolled[f] > 0 \/ f \in input[r] => rolled'[f] > 0
    BY <1>1 DEF JobWrites, TypeOK, More
  <1>6. LoadedOnce' /\ ArchivedWereImported' /\ ArchivedWereRolledUp'
    BY <1>4, <1>5, MmlogsAreLogs
       DEF CalmInv, LoadedOnce, ArchivedWereImported, ArchivedWereRolledUp
  <1>7. RowsAreRecorded(r)' /\ Imports(r)'
    BY <1>1, <1>2, <1>3, <1>4 DEF CalmRun, RowsAreRecorded, Imports
  <1>8. RollsUp(r)'
    BY <1>1, <1>2, <1>3, <1>4, <1>5, MmlogsAreLogs DEF CalmRun, RollsUp
  <1>9. CalmRun(r)'
    BY <1>1, <1>7, <1>8 DEF CalmRun, JobCompletes
  <1> QED BY <1>6, <1>9 DEF CalmInv, Calm

\* It holds at first ...
LEMMA CalmInit == Init => CalmInv
  BY DEF Init, CalmInv, LoadedOnce, ArchivedWereImported, ArchivedWereRolledUp, CalmRun,
         RowsAreRecorded, Imports, RollsUp, Idle, Buckets, Files

\* ... and is kept by every step of a calm day.
LEMMA CalmNext ==
  ASSUME Calm, PipeInv, CalmInv, [Next]_vars PROVE CalmInv'
  <1>1. CASE UNCHANGED vars
    BY <1>1 DEF vars, CalmInv, LoadedOnce, ArchivedWereImported, ArchivedWereRolledUp,
                CalmRun, RowsAreRecorded, Imports, RollsUp
  <1>2. ASSUME NEW f \in Logs, Arrives(f) PROVE CalmInv'
    BY <1>2, CalmArrives
  <1>3. ASSUME NEW r \in Runs, Proceeds(r) PROVE CalmInv'
    BY <1>3, CalmControl, CalmTakes, CalmLoads, CalmRecords, CalmMoves,
       CalmJobCompletes, CalmScriptOver DEF Proceeds
  <1>4. ASSUME NEW r \in Runs, ScriptDies(r) \/ JobOutlives(r) \/ JobFails(r)
        PROVE  CalmInv'
    BY <1>4, CalmScriptOver DEF ScriptDies, JobOutlives, Calm
  <1> QED BY <1>1, <1>2, <1>3, <1>4 DEF Next

\* The invariant gives what is to be shown: when the importer is done no name
\* is between the table and keyfiles.
LEMMA CalmAgrees == CalmInv => ArchiveAgrees
  <1> SUFFICES ASSUME CalmInv PROVE ReportedAreRecorded
    BY DEF CalmInv, ArchiveAgrees
  <1> QED BY DEF CalmInv, CalmRun, RowsAreRecorded, ReportedAreRecorded, At

\* When one run does not overtake another, no call fails and MySQL has no
\* transactions, then however often a Hive job fails a log file is loaded into
\* the table of events at most once, and is in the archive only when it was
\* loaded, recorded in keyfiles (or reported) and read by a job that completed.
THEOREM ArchiveAgreesOnCalmDays == ASSUME Calm PROVE Spec => []ArchiveAgrees
  <1>1. Init => PipeInv /\ CalmInv
    BY PipeInit, CalmInit
  <1>2. PipeInv /\ CalmInv /\ [Next]_vars => (PipeInv /\ CalmInv)'
    BY PipeNext, CalmNext
  <1> QED BY <1>1, <1>2, CalmAgrees, PTL DEF Spec

\* The same of the instance TLC checks, where the calm days are told from the
\* others by a variable that never changes.
THEOREM CalmArchiveAlwaysAgrees == ASSUME Calm PROVE MCSpec => []CalmArchiveAgrees
  <1> DEFINE Inv == calm => PipeInv /\ CalmInv
  <1>1. MCInit => Inv
    BY PipeInit, CalmInit DEF MCInit
  <1>2. Inv /\ [MCNext]_allVars => Inv'
    <2> SUFFICES ASSUME Inv, [MCNext]_allVars, calm' PROVE (PipeInv /\ CalmInv)'
      OBVIOUS
    <2>1. calm /\ [Next]_vars
      BY DEF MCNext, allVars
    <2> QED BY <2>1, PipeNext, CalmNext
  <1>3. Inv => CalmArchiveAgrees
    BY CalmAgrees DEF CalmArchiveAgrees
  <1> QED BY <1>1, <1>2, <1>3, PTL DEF MCSpec
=============================================================================
