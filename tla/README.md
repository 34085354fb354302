# Verification of the ec2-user repository

TLA+ models, TLC runs and TLAPS proofs for the programs of this repository. Two
of them carry state that concurrency and failures can corrupt, and they are what
the project is about:

* **Redis 2.4.7** (`src/redis-2.4.7`), the data server kept in the tree: its
  persistence (append only file, dump, children), key space and transactions,
  both halves of replication, blocking lists, publish and subscribe, the parser
  of requests, the virtual memory, and the structures that hold the data;
* the **daily MM log pipeline** (`src/mm_daily_process.py` and the scripts it
  runs), which moves log files between S3 buckets and loads them into MySQL.

`PROJECT.json` lists components, runs, mutants, findings, hazards and theorems,
and maps every definition to the lines it models. Line numbers below are of the
file named; Redis files are under `src/redis-2.4.7/src/`.

## 1. Inventory

| Component | State | Operations | What is hard |
|---|---|---|---|
| append only file (`aof.c`, `bio.c`, `redis-check-aof.c`) | `aofbuf`, the file, `bgrewritebuf`, `appendseldb`, times of the last fsync and of a postponed flush | feed, flush, rewrite in a child, switch of files, CONFIG SET, load, repair | a second thread fsyncs; a child copies the data while it changes; power is lost anywhere; a reply promises durability |
| event loop (`ae.c`, `redis.c`) | ready events, time events | before-sleep, readable, writable, `serverCron` | the order of these decides what a reply means |
| key space (`db.c`) | dict, expires per database | commands on keys, lazy and active expiry | keys expire between any two lookups; a slave sees only what is propagated |
| transactions (`multi.c`) | flags and queue of a client, two mirrored watch lists | MULTI, EXEC, DISCARD, WATCH, UNWATCH, disconnection | a change between WATCH and EXEC made through any command, database or expiry |
| replication, master (`replication.c`, `rdb.c`, `networking.c`) | replication state, output buffer, selected database and event of each slave, the saving child | SYNC, feed, end of a save, transfer | slaves arrive while a save runs, saves fail, children are killed |
| replication, slave (`replication.c`, `networking.c`) | `masterhost`, `replstate`, socket and handler, temporary file | SLAVEOF, connect, transfer, load, timeouts, loss of the link | callbacks of an attempt that was given up; its own saves use the same file |
| RDB persistence (`rdb.c`, `db.c`, `redis.c`) | `dump.rdb`, `dirty`, the two children and their pids, the scheduled rewrite | SAVE, BGSAVE, save points, FLUSHALL, SHUTDOWN, `wait3()`; encode, decode | two children end in any order; forks fail; an older dump may be renamed over a newer one; lengths at the edge of an encoding |
| requests (`networking.c`) | query buffer, `reqtype`, `multibulklen`, `bulklen` | read, parse, execute, close | the network cuts a request anywhere |
| blocking lists (`t_list.c`) | `blocking_keys`, `bpop`, `unblocked_clients` | BLPOP, BRPOPLPUSH, pushes, time outs, disconnection | a push serves a client that pushes again; what is propagated is another command |
| pub/sub (`pubsub.c`) | the same subscriptions in tables of the client and of the server | SUBSCRIBE, PSUBSCRIBE and their opposites, PUBLISH | the tables must mirror each other, or a message goes to freed memory |
| hash tables (`dict.c`) | two tables, `rehashidx`, iterators | add, replace, find, delete, resize, iterate | entries move between the tables while they are read |
| virtual memory (`vm.c`) | storage and pages of each value, three queues of jobs, clients that wait for keys | swap out and in by threads, cancel, wake | the main thread, the I/O threads and a saving child share values, pages and the swap file |
| eviction (`redis.c`) | the key space | `freeMemoryIfNeeded` | deletes outside of a command, and has to be propagated |
| sorted sets, sets, lists (`t_zset.c`, `t_set.c`, `t_list.c`, `intset.c`, `ziplist.c`) | a compact encoding and a linked one for each | their commands and the conversions | spans, widening in place, lengths that cascade |
| MM pipeline (`bucket_sorter.py`, `mm_events_importer.py`, `hadoop_job_runner.py`, `mm_hadoop_to_mysql_migrator.py`, `mm_daily_process.py`) | S3 buckets, MySQL tables, the table of files already loaded | sort, import, run the Hive job, archive, load its output | a script dies between any two steps; the next day's run may overlap; commits are late |
| strings, hashes, SORT, visualisation, CDO bid optimiser, campaign statistics | JSON files, MySQL tables | queries, formulas, reports | not modelled, section 6 |

How they interact: a command executed by `call()` changes the key space, is fed
to the append only file and to every attached slave, and is answered through the
client's output buffer. The event loop flushes the file before it sleeps. A save
(`rdb.c`) is at once the persistence of the server and the first half of a
slave's synchronisation. A slave that loads a dump replaces the key space, drops
its own slaves and rewrites its append only file. The two children share one
`wait3()`: the cron, CONFIG SET, FLUSHALL and SHUTDOWN all have to know which of
them is alive, and hash tables are not resized meanwhile. A push may run the
rest of another client's command, and what it propagates is not what it was
given. The pipeline's scripts share nothing but the buckets and the tables.

## 2. Modules

| Module | Models | Lines |
|---|---|---|
| `AppendOnly` | the append only file, the event loop around it, the fsync thread | 670 |
| `Keyspace` | databases, expiry, eviction, MULTI/EXEC/WATCH, propagation | 416 |
| `ReplMaster` | SYNC, background saves, output buffers | 362 |
| `ReplSlave` | SLAVEOF, the transfer, loading, what shares the data set | 352 |
| `Saving` | `dump.rdb`, both children, `wait3()`, `dirty`, the save points | 432 |
| `Rdb` | the bytes of the dump: encoding and decoding | 315 |
| `Blocking` | blocking list operations and the event loop around them | 436 |
| `PubSub`, `Subscriptions` | publish and subscribe; the relation it implements | 171, 39 |
| `Protocol` | the parser of requests | 249 |
| `Dict`, `Map` | the hash table; the function it implements | 357, 54 |
| `Zset`, `Sets`, `Lists` | sorted sets, sets and lists, both encodings of each | 503, 299, 391 |
| `Vm` | the virtual memory with its I/O threads | 474 |
| `MmPipeline` | the daily run of the log scripts | 381 |
| `MC…` | the small sets and command lists the runs use, and the sums below | |
| `…Proofs` | theorems about the module of that name; `TableProofs` about `PubSub` and `Dict` | |

Some runs are over several components at once. Those components share no state,
so a behaviour moves one of them only (`MCServer`: blocking, pub/sub, parser;
`MCValues`: hash table, sorted set, sets, list, virtual memory; `MCDataSet`: the
slave and the saving; `MCSlaveLink`: the link and the dump's bytes), or one of two
instances of one module (`MCMmPipeline`: calm days, and overlapping runs with all failures). The state
space is the sum and not the product; a variable set once by the initial
predicate says which part it is. `ReplSlave`, `AppendOnly`, `Keyspace` and
`Saving` each contain the others' steps they depend on (a save as a whole step in
`ReplSlave`, for example), which is how components that do interact are composed.

A definition that begins with *Mutant:* in its comment is a plausible mistake in
the definition below it. No specification uses one; they show that the
properties notice. A run's property that is a conjunction of named parts
(`SortedSetSound`, `SwapSound`, `SavingSound`, ...) is listed with one of them;
each part has an operator of its own that violates it in the same run.

### AppendOnly

A command is its rank in `executed`, which keeps the database of each. The file
is the data after `base` commands followed by entries; an entry says whether a
SELECT stands in front of it. `phase` is where the single thread is in
`aeMain()`: before sleep (the flush), events (for each client the readable, then
the writable handler), and the parts of `serverCron` in their order. Between two
parts of the cron, and between two events, the environment moves: `Tick` (the
second changes), `BioStart` and `BioEnd` (the fsync thread), `ChildExit`,
`BgsaveExit`, `PowerLoss`.

* `flushAppendOnlyFile(force)`: aof.c 77-190, with the postponing while an fsync
  runs, `WriteFails` for the short write that ends the process.
* `call(d)` with `FedEntry`: `feedAppendOnlyFile()` and its SELECT.
* `backgroundRewriteDoneHandler()` is two steps. `CronRename` writes the
  differences to the temporary file and renames it (aof.c:825): the log is now a
  file of which only what the child wrote is synced. `CronSwitch` replaces the
  descriptor, fsyncs by the policy and drops the buffer (aof.c:833-861). Between
  the two, in the phase "renamed", power may be lost. When the child failed the
  old file stays (`KeepOldFile`); `rewriteCleanup` follows in either case.
* What the child writes is the data set at its fork, in one step (`ChildExit`).
* `stopAppendOnly`, `startAppendOnly`: CONFIG SET; `exitCleanly`: SHUTDOWN.
* `PowerLoss` keeps of the file anything from the durable part on, perhaps with
  a torn entry; in the phase "renamed" it leads to "cut", otherwise to "down".
  `CheckAofFix` is redis-check-aof; `Restart` replays the file.

Time is what the code compares: `sinceFsync` and `postponed` saturate at the
values the code distinguishes.

### Keyspace

`val` and `exp` are the dict and the expires of all databases. `run(c, cmd)` is
`call()` of one command, with the lookups that expire keys, in their order, and
the DELs that are propagated first. EXEC is a loop with a step per command, as
is RANDOMKEY, whose loop may not end. `rep` is a ghost: the values of a slave
that has received everything, `rtxn` the same after the block being received,
`stale` the clients one of whose watched keys a command has changed.
`freeMemoryIfNeeded(p)` deletes a key of the table the policy names and
propagates its DEL, before a command and not as part of one.

### ReplMaster

Per slave: `st` (`replstate`), `ev` (the writable handler), `seldb`, `buf`,
`bulk`; `img` and `imgdb` are what the slave's end makes of what it received.
`syncJoins`, `syncWaits` and `syncForks` are the three branches of
`syncCommand()`; `backgroundSaveDoneHandler` contains
`updateSlavesWaitingBgsave()` with the fork for those who waited for the next
save and the opening of the dump, which may fail.

### ReplSlave

`link` holds `replstate`, `repl_transfer_s`, `repl_transfer_left`, the temporary
file and every open socket with its handler, so that a handler left behind by an
abandoned attempt can still run. A data set is named by the chunks it was loaded
from. `loading` separates `rename()` from `rdbLoad()`: the saving child of the
slave is another process and can rename in between. `CRASHED` is a failed
assertion or a null pointer followed.

### Saving and Rdb

A data set is the number of changes that led to it; `dump` is how many of them
`dump.rdb` holds. `procs` are the children the kernel knows of, running, exited
or killed; `bgsavechildpid` and `bgrewritechildpid` what the server remembers.
`cronReaps` and `cronStarts` are the two halves of `serverCron()` that begin and
end children, `cronTries` the tests between them. `prepareForShutdown`,
`flushallCommand`, `stopAppendOnly` and `startAppendOnly` are whole commands.

`Rdb` writes and reads sequences of bytes. `ByteBits` is 8 in the code and 4 in
the run, so that every length and integer at which the encoding changes is small
enough to be enumerated; `compress` is LZF by its contract. A file may be cut
after any byte before it is loaded.

### Blocking, PubSub, Protocol

An iteration of the loop in `Blocking` is `beforeSleep()`, at most one read per
socket, `serverCron()`. A read executes what the client has sent until it blocks.
`call` follows one command through every client it serves: `argv` may be
rewritten, and `replica` executes what is propagated. Each element is the number
of its push, and `taken` counts how often it was given to a client. A client
draws a ticket when it blocks (`since`); `lastServed` is the ticket a push on a
key has served last. `diverged` is set by the two pushes whose propagation leaves
a waiter out (section 3); from then on `replica` is not followed.

`PubSub` has the four tables; `Subscriptions` one relation between clients and
topics, the pairs a message was sent to and the number the publisher was told.

`Protocol` keeps `reqtype`, `multibulklen`, `bulklen` and the buffer between
reads of any size. `ParsedAsSent` compares the commands executed with a parse of
the whole stream.

### Dict, Zset, Sets, Lists, Vm

`Dict` has both tables chain by chain, steps of rehashing with every operation
and with the timer, and an iterator that is safe or not. `Map` is a function and
the result of the last operation; the mapping takes the entries of both tables.

`Zset` keeps the skip list node by node with forward pointers and spans, `Sets`
the cells of the intset, `Lists` the entries of a ziplist with the width of their
`prevlen`. Each has the abstract value beside it, changed by each command as the
command's documentation says, and the properties compare the two.

In `Vm` a job is in one of the three queues or with a thread, which takes a step
to fetch, one for the I/O and one to hand over. The main thread's waits (a job in
processing, an empty queue) are guards.

### MmPipeline

A script lists a bucket once, then takes the names one by one with a step for
each call to S3 or MySQL: download and load, commit, insert the name, copy,
delete. `ScriptDies` is an exception nobody catches; the next script starts
regardless, since `subprocess.call()` is not checked. `JobReads` and
`JobCompletes` are the Hive job, which reads what is in the bucket at its start.

## 3. Runs

"Passes" means that TLC explored every state. The flags named are constants of
the module; they say what the environment may do.

| Run | Bounds | Shows |
|---|---|---|
| `AofAlways` | 2 clients, 2 databases, 3 commands, 2 queued fsyncs, a clock two seconds ahead | with `appendfsync always`, a reply means the command is durable, but for the time between the `rename()` of a rewritten file and its fsync; that fsync puts back all that the `rename()` has taken; the file replays to a prefix, whenever power is lost; a clean exit loses nothing acknowledged |
| `AofEverysec` | 1 client, 1 database, 2 commands, 1 queued fsync, a clock one second ahead, CONFIG SET at any time | a postponed flush is made, even if no fsync ever returns; the differences of a rewrite are those since its own fork |
| `KeyspaceData` | 1 client, 2 keys, 2 databases, 2 queued commands, clock to 2, eviction from all keys, no WATCH | expires belong to keys; a slave has the master's values; RANDOMKEY ends on a master |
| `KeyspaceWatch` | 2 clients, 1 key, 2 databases, 1 queued command, eviction of keys with an expire | the watch lists mirror each other; EXEC aborts when it must |
| `MasterSync` | 2 slaves, 2 databases, 3 commands | a slave that has read all that was sent has the data set; nothing precedes the dump; SYNC is answered or the slave is disconnected |
| `MasterFaults` | 2 slaves, 2 databases, 2 commands, failing forks, killed children, pipelining, joins at any time | a waiting slave waits for something; output is never without an event |
| `MasterJoin` | 2 slaves, 2 databases, 3 commands | violated: see below |
| `SlaveLink` | 2 masters, 2 descriptors, 3 connections, dump of 2 chunks, all failures, saves; 4-bit bytes, up to 2 keys, 2 databases | one socket, with the handler its state says, to the master named last; no failed assertion; after SLAVEOF NO ONE nothing replaces the data; a dump reads back to what was saved, and never if it was cut |
| `DataSet` | 5 connections, dump of 3 chunks; 2 pids, 3 changes, 4 commands, 2 faults | the data are those of the link; the slave's slaves have them too; the dump never goes back, `dirty` never counts too little, no child is forgotten; every change is saved and every scheduled rewrite started in the end |
| `Mm` | 4 log files (two of page views, a channel, an unknown name), 2 outputs, jobs fail, scripts do not; 2 overlapping runs, 1 log file, 1 output, all failures | archived files were read by a job, imported once and recorded; each file of page views is archived in the end; nothing is lost, nothing put away unprocessed |
| `Server` | 3 clients, 2 keys, 2 elements, 4 commands; 2 channels, 2 patterns; 4 pieces of input of 10 kinds | an element is in one list or went to one client; a push serves who has waited longest for its key; slaves follow, until one of the two propagations of the table below that leave a waiter out; no command stays unexecuted; pub/sub implements its relation; the commands executed are those sent |
| `Values` | 3 keys; 3 members, 2 levels; 6 elements, 3 widths; lists to 5; 2 keys on 2 pages, 2 threads, 2 clients | the hash table implements a function, also while it is rehashed and iterated; sorted sets, sets and lists hold and return what was put there; swapped values, pages, jobs and waiters agree |

Why the bounds are enough to be interesting: two databases and two commands make
a SELECT necessary and make it wrong when forgotten; two queued fsyncs make one
of them be of a file already replaced; three commands put one before a rewrite's
fork, one during it and one after the switch; two slaves make one join the save
of another; two descriptors and two masters let an abandoned connection coexist
with its successor; two chunks let two transfers interleave in one file. Three
clients and two keys let a push serve a BRPOPLPUSH whose target another client
waits for; two pids let both children be gone when `wait3()` is called; limits of
1 and 7 for the integers and of 12 bytes for `prevlen` put the values on both sides of
each limit, three at a time for a cascade; two pages for two values make the swap
file full. Each
property has a mutant of the code that the run's own bounds expose.

Symmetry (of clients, of slaves) is used only in runs whose properties are safety
(the two refinements are: their abstract specifications have no fairness). The
master's runs set `CHECK_DEADLOCK FALSE`: they stop when the commands (`MaxCmds`)
are used up and everything is sent. All others check deadlock.

### Disagreements between the code and what is said of it

`MasterJoin` is a finding: a slave that joins a save copies another's buffer,
SELECTs included, and sets `slaveseldb` to 0 (replication.c:146). If the buffer
selects database 1 and the next write is to database 0, no SELECT is sent and the
write lands in database 1 of that slave. The comment at replication.c:123-124
says that the differences being registered are right for the second slave.

The models show more places where the code does less than its comments or its
documentation say. The passing runs exclude each by a constant and nothing else
with it, or the model records it in a variable and the properties except it; some
are outside of the model and known from reading. The last column says how to see
it. Only the first one has a run of its own.

| Where | What happens | Constants and property |
|---|---|---|
| replication.c:146 | above | `MasterSync` with `Joins = TRUE`: `CaughtUpIsInSync` |
| ae.c:340 | the writable event of a client is served right after its readable one, so a client that sends a command before it has read the last reply gets both replies before the buffer is written, which aof.c:233-235 excludes | `AofAlways` with `Pipelining = TRUE`: `AckedAreDurable` |
| redis.c:1172 | SHUTDOWN fsyncs the file but does not write the buffer a postponed flush has left | `AofEverysec`: `CleanExitKeepsAcked` |
| aof.c:825-842 | between `rename()` and `aof_fsync()` the log is a file whose differences are not synced: power lost there takes back commands that were acknowledged and synced, with the policy redis.conf:274 calls "Safest" | `AofAlways` with an `AckedAreDurable` that excepts neither "renamed" nor "cut" |
| aof.c:614-622 | a rewrite writes a key that has expired and then skips its EXPIREAT only: after a restart it is there for ever. The comment says "If this key is already expired skip it" | by reading: the keys have no expires in `AppendOnly` |
| aof.c:844 | the rewritten file replaces a synced one before its own differences are synced | `AofEverysec`: `DurableNeverShrinks` |
| aof.c:46 | CONFIG SET appendonly no, writes, then yes: until the rewrite ends the old file is appended to behind a gap | `AofAlways` with `ConfigSet = TRUE`: `RecoversPrefix` |
| aof.c:47 | when `open()` fails, `startAppendOnly()` reports the error and leaves `appendonly` set | `AofAlways` with `ConfigSet = TRUE`: `AofOnHasFile` |
| db.c:430, 589-603 | MOVE and PERSIST do not call `signalModifiedKey()`, which db.c:180-181 says is called for every modification | `KeyspaceWatch` with `DataCommands` and two `Keys`: `ChangedWatchAborts` |
| db.c:135 | on a slave whose keys have all expired, RANDOMKEY does not return | `KeyspaceData` with `Slave = TRUE`: `RandomKeyReturns` |
| rdb.c:1081 | a saving child killed by a signal counts as a success, and the slave is sent an older dump | `MasterSync` with `Kills = TRUE`: `CaughtUpIsInSync` |
| replication.c:256 | when the fork for waiting slaves fails, the loop that should close them looks for a state they have left | `MasterSync` with `ForkFails = TRUE`: `CaughtUpIsInSync`, `EndComes` |
| replication.c:101 | SYNC looks at `c->reply` for pending output and not at `c->buf` | `MasterSync` with `Pipelines = TRUE`: `NothingBeforeDump` |
| replication.c:510 | SLAVEOF during a connection attempt leaves the attempt's socket registered | `DataSet` with `Impatient = TRUE`: a deadlock (a failed assertion) and, with `CHECK_DEADLOCK FALSE`, `LoadedFromMaster` |
| replication.c:509 | a master that becomes a slave keeps its slaves attached | `DataSet` with `Promoted = TRUE`: `SubFollows` |
| replication.c:347 | the slave's saving child may replace the received dump before it is loaded | `DataSet` with `Saves = TRUE`: `LoadedFromMaster` |
| replication.c:361 | the rewrite after the loading is refused while another runs, and nobody looks at the result | `SlaveLink`: `AofFollows` |
| hadoop_job_runner.py:80 | the runner archives what it lists after the job, also what arrived since | `Mm` with two `Runs`: `CalmArchiveAgrees` |
| mm_events_importer.py:72 | the name of a loaded file is inserted after the commit, so the last one of a run is lost where the engine has transactions | `Mm` with `Transactional = TRUE`: `CalmArchiveAgrees` |
| mm_hadoop_to_mysql_migrator.py:83 | carrier files are loaded `INTO TABLE handset`, with a column `carrier_id`; the other kinds each have their own table | by reading: `rows` counts loads of a file, into whichever table |
| db.c:276 | KEYS deletes the expired keys it meets under an iterator that is not safe, which dict.h:77-80 forbids | `Values` with `ExpiredKeys = {1, 2, 3}`: `TableSound` |
| ziplist.c:523 | an insertion in front of an entry whose `prevlen` shrinks by more than the new entry takes makes the block smaller before the tail is moved, and the last entry is cut | `Values` with a value of 2 bytes in `ZlBody`: `ListSound` |
| vm.c:837 | a failed write to the swap file marks the job as canceled in the thread: its pages are never freed | `Values` with `VmWriteFails = TRUE`: `SwapSound` |
| db.c:206 | FLUSHALL does not wake the clients that wait for a swapped key | recorded in `vmstuck`, which `WaitersComeBack` excepts |
| networking.c:503 | a client freed while `beforeSleep()` works through `unblocked_clients` may be on that list | `Server` with `"kill"` in `Kinds`: `UnblockedAreConnected` |
| t_list.c:272 | an LPUSH of several elements of which one is handed to a BRPOPLPUSH waiter is propagated as the LPUSH of that one, and the loop ends with its arguments: the others get to no list, on the master and on the slaves | recorded in `dropped`, which `ElementsOnce` counts |
| t_list.c:271-290 | an LPUSH of several elements of which BLPOP waiters take some, while the rest becomes a list, is propagated whole: the slave keeps the elements taken | recorded in `diverged`, which `ReplicaFollows` excepts |
| t_list.c:652 | RPOPLPUSH to a key somebody waits for is propagated as RPOPLPUSH: the slave keeps the element | recorded in `diverged`, if a waiter was served |
| db.c:353 | RENAME onto a key somebody waits for wakes nobody | recorded in `renamed` |
| aof.c:33 | "kill it, wait child exit" (aof.c:28): `wait3()` may reap the saving child instead. Its pid is then kept, BGSAVE and SYNC are refused, and the cron handles a status nobody has set | recorded in `misreaped`, after which `SavingSound` and `DueWorkGetsDone` promise nothing about the children |
| aof.c:37 | `stopAppendOnly()` does not call `updateDictResizePolicy()`: hash tables stay as they are until another child ends | by reading |
| networking.c:783 | "too big bulk count string" looks at the whole query buffer: a well-formed request with a large argument that is cut in the header after it is refused | `ParsedAsSent` excepts this error |
| rdb.c:26 | the time of an expire is written with 32 bits: one after 2038 comes back wrong, and one that wraps to -1 makes `rdbLoad()` give up | `SlaveLink` with an expire of 65535 in `MCDataSets`: `DumpReadsBack` |
| redis.c:1621 | an evicted key does not abort the EXEC of a client that watches it | `stale` does not count it |
| debug.c:221 | DEBUG RELOAD during a BGSAVE makes `dirty` negative | by reading |

## 4. Fairness

* `AofEverysec`: weak fairness of the main thread (the event loop never stops),
  of the clock, and strong fairness of the time event: `serverCron` is due every
  100 ms and `aeProcessEvents()` serves due time events on each pass. Nothing is
  assumed of the fsync thread or of a child: that the flush is made without them
  is the point.
* `KeyspaceData`: weak fairness of a pass of `dbRandomKey()`'s loop, which is
  the only thing the thread does.
* `MasterSync`: a saving child ends, `serverCron` reaps it, a writable socket
  gets written. A slave that never reads is outside: its connection would have
  to be closed by TCP, which `freeClient` models as possible and not as certain.
* `DataSet`: weak fairness of a child's steps and of the reaping in `serverCron`,
  strong fairness of a pass of `serverCron` that finds a save point reached and
  whose `fork()` works. Faults are bounded (`MaxFaults`), so `fork()` works in the
  end. Nothing is assumed after `misreaped`.
* `Mm`: the scripts run, cron starts the next one, and of the Hive jobs
  started for ever some read their input and complete.

Liveness is model-checked only.

## 5. Proofs

All theorems are for every value of the constants that satisfies the named
`ASSUME`s: any number of clients, keys, databases, slaves, masters, descriptors
and commands, and any length of a dump. A theorem that needs the environment
restricted has the restriction as a hypothesis in its statement.

**AppendOnlyProofs.** `TypeCorrect` needs three more conjuncts (`TypeInv`): the
commands named anywhere were executed, a queued fsync of the present file covers
no more than the file has, and a dead process has no buffers.
`AlwaysRecovers`, `AlwaysLogged` and `AlwaysMerges` (hypothesis: no CONFIG SET)
follow from `LogInv`. RecoversPrefix alone speaks of the file; a crash may cut
off any tail of it, a flush appends the buffer to it and a switch replaces it by
the child's data and the differences. So the invariant says of file and buffer
together, and of child and differences together, that they are the whole data set
(`Logged`, `Merges`), and `Selected` says that the last entry of both was for
`appendseldb`, without which the next entry could miss a SELECT.
`AckedAlwaysDurable`, `CleanExitAlwaysKeepsAcked` and `DurableNeverShrinksAlways`
(hypothesis: `appendfsync always`, fsync also during rewrites, no pipelining, no
CONFIG SET) follow from `DurInv`: a command with a pending reply is durable or
still in the buffer, and a client whose writable event was found ready after the
flush has sent nothing since. The two theorems about durability do not take the
switch for one step. In the phase "renamed" little is durable, and
`AckedAreDurable` promises nothing for it, nor for a power loss in it ("cut",
aof.c:825-842, section 3). What they do say is that this window is the only one
and that it closes: `DurableNext`, what the fsync that comes next in the switch
makes durable, is never less than before, and a reply is never ahead of it.
For this `Renamed`, a part of `LogInv`, says that in the phase "renamed" the file
is the child's data with the differences, by `Merges` the whole data set, and `DurInv` that a file cut in the window is synced as
far as it goes.

**KeyspaceProofs.** `ExpiresAlwaysInDict` and `SlaveAlwaysAgrees` hold for any
set of commands and any eviction policy; the inductive invariant relates the ghost slave to the master
after the block being received. `SlaveAgrees` is about what a master propagates,
whatever `Slave` says. `WatchListsAlwaysMirror` is inductive with the types.
`ChangedWatchAlwaysAborts` needs the mirror, that a client in EXEC watches
nothing, and as hypothesis that no command is MOVE or PERSIST.

**ReplMasterProofs.** `StartAlwaysComes` and `OutputAlwaysScheduled` hold with
all faults. `EndAlwaysComes` needs that fork works, `NothingEverBeforeDump` that
clients do not pipeline before SYNC, with `Quiet` (no event before the dump is
ready) as the inductive invariant. `CaughtUpIsAlwaysInSync` has as hypothesis
that none of the four events of the table in section 3 happens that break it:
fork works, nobody kills the child, no pipelining, no joining. The buffer a
slave is sent has any length, and what it does to a data set is a recursive
function of it; `SyncInv` does not compute it but says that there is a trace, a
sequence of data sets one for each command, that leads from what the slave has,
or will get as its dump, to the master's data and database. A write adds one
step to the trace and a read takes one off its front, so no induction is needed.
While a child saves, the trace starts at the data it has forked with; after
FLUSHALL has killed it, it starts at any data set.

**DataSetProofs, the slave's link.** `SoundInv` says socket by socket what `LinkSound` says of
the set of open sockets, and that loading happens only in the transfer state; it
needs that SLAVEOF does not interrupt a connection attempt. On it rest
`NoOneIsAlwaysFinal`, `SubAlwaysFollows` (through `SubInv`: slaves are attached
only while the data cannot be replaced) and `AlwaysLoadedFromMaster` (through
`LoadInv`: what the temporary file holds is the first chunks of this
connection's dump, as many as `repl_transfer_left` says).

**SavingProofs and DataSetProofs, the saving.** `SavingSound` and `DumpNeverGoesBack` speak
of `dirty`, of the children and of the file, and none is inductive. `SavingInv`
adds what ties them together: while a child saves, `dirty - dirty_before_bgsave`
is the number of changes since its fork, the file is no newer than the child's
data until the child renames, and no older after (`SaverAgrees`); the two pids
the server remembers are those of the children there are, unless
`stopAppendOnly()` has reaped the wrong one (`ChildrenKnown`); a server that has
exited leaves no child that could still rename (`NoSaverIsLeft`). The constants
are as `SavingConstants` says. `DataSetProofs` carries both to the specification
the run `DataSet` checks, in which `Saving` is an instance beside the slave's
link.

**MmPipelineProofs.** `UploadedAreLoaded` and `NothingIsLost` hold for any
number of overlapping runs and all failures. The run that is about to delete a
file need not find it where it has copied it: another run may have moved it on.
So `PipeInv` says that the file is in a bucket of higher rank, and ranks grow
from bucket to bucket. `CalmArchiveAlwaysAgrees` is about behaviours whose days
are calm (`Calm`: one run at a time, no script fails, no transactions), and its
invariant `CalmInv` follows a file through the scripts: loaded rows are
recorded, all of `mmlogs` is imported when the runner begins, and its job, once
it runs, has read all of it.

**TableProofs, publish and subscribe.** `IndicesAlwaysAgree` and the refinement `PubSubIsARelation`.
The invariant `PsInv` says that the four tables are in a `Good` state (lists
without repetitions that hold the same pairs, and finite sets of channels) and
that a client that is gone has nothing in its own. A command is a fold over
arguments, and the unsubscription of everything a fold over a table that the
fold itself takes apart. What a fold does is proved by induction over its
positions: `UpTo` is induction about a *set* of positions, which needs no
operator parameter and follows from the well-foundedness of the naturals;
`FoldExists` and `FoldRuns` turn the choice in the definition of `FoldLeft` into
the sequence of states it goes through. The assumption is that channels and
patterns have different names: in the code the command says which of the two a
name is.

**TableProofs, the hash table.** `DictIsAMap` is the refinement of `Map`, `DictAlwaysSound` the
soundness of the two tables, `TableAlwaysSound` that of the tables and of the
iterations.

* The invariant of the first two is `DictInv`. Of one table it says (`Sound`)
  that every entry is in the chain its hash names, that no chain holds a key
  twice, and that `used` is the number of keys; of the two (`DSound`) that they
  share no key, that the second one is there during a rehash only, and that the
  buckets before `rehashidx` are empty; of the iterator (`IterOk`) that its saved
  next entry is still in the table and is not the one its user may delete, for it
  would be freed memory otherwise. `Linked`, `Unlinked` and `WithValue`, the
  changes of one chain, are described once (`LinkedTable`, `UnlinkedTable`,
  `ValuedTable`); moving a bucket is a fold of `Linked` (`LinkFold`), several
  buckets are repetitions of one (`RepeatExists`), by the induction lemmas
  above.
* `DictInv` does not say what an iteration has met. `Rest` is the set of keys it
  has still to meet: the chain from the saved next entry on, the later buckets,
  and the second table while it is in the first. `IterInv` adds that it has seen
  exactly the keys that stay and are not in `Rest`, and that the dictionary
  counts a safe iterator from its first step on, so that `_dictRehashStep()` does
  nothing meanwhile. Each operation under a safe iterator is shown to keep the
  order of the chains but for its own key (`Later`), hence `Rest`; `dictNext()`
  takes one key out of it, or it is empty. The hypothesis `ExpiredKeys = {}` says
  that nobody deletes under an iterator that is not safe: KEYS does (section 3),
  and `TableSound` is then false.
* The assumption is that there are finitely many keys: they are byte strings of
  a bounded length. Sizes are natural numbers; the overflow of `unsigned long`
  is not modelled.

**VmProofs.** `SwapAlwaysSound` is `SwapSound` for any clients, keys, sizes of
values, pages, threads and commands, under the hypothesis `VmWriteFails = FALSE`:
after a failed write the pages of the job are never freed (vm.c:837, section 3),
and `PagesAccounted` is then false. The invariant is `VmInv`.

* `Core` is about the values, the jobs and the pages. What `SwapSound` says is not
  inductive: a job in processing is on its way to become a value, so `JobOk` says
  what the job of each kind has at each step (a load that is done holds the data
  of the key, a write that is done has put them on its pages), `KeyOk` what its
  value is like meanwhile, and `Queues` that there is one live job for a key, in
  one queue. `LeftAlone` is about jobs that were cancelled after they were done: as
  long as such a job owns a reference to the value, that value is not being
  swapped, for the job, when the main thread meets it, would put it back into
  memory under another job. `PagesOk` gives each used page one key, the one whose
  value or live write has it.
* `Agree`, `WaitsFor` and `ReadyOk` are about the clients: the two indices count
  the same, a client waits for what is being loaded or was left by a FLUSHALL, and
  who waits for nothing is on the list of the ready ones, once.
* `VmChildOk`: while a child saves, only loads are queued and done, which is what
  `waitEmptyIOJobsQueue()` before the fork and `vmCanSwapOut()` after it are for;
  so the swap file does not change under the child. `VmStart`: at start up there
  are neither jobs nor clients.

A step changes one key, and `OneKey` says what is to be shown of that key, of its
job and of its pages to have `Core` again; `Canceled`, `Replaced`, `JobStarted`,
`Moved`, `SwappedOut` and `LiveOff` show it for the changes the code is made of.
Commands, FLUSHALL, the waking of clients and the start of more swaps are folds of
those, by the lemmas about folds of `TableProofs`. The assumptions are that there
are finitely many keys, that every value takes a page at least, and that a command
names its keys.

**Proved and not checked by a run.** The types of the four modules,
`NothingUnlogged` and `EndComes`: the theorems are about all instances.

**Only model-checked.** Liveness: `BufferGetsWritten`, `RandomKeyReturns`,
`SyncAnswered`, `DueWorkGetsDone`, `CalmViewsGetArchived`. `Blocking`, `Zset`,
`Sets`, `Lists`, `Protocol` and `Rdb` (`BlockingSound`, `ElementsOnce`,
`ReplicaFollows`, `ServedInOrder`, `SortedSetSound`, `SetsSound`, `ListSound`,
`RequestsAreParsed`, `DumpReadsBack`) use RECURSIVE operators, which the provers
cannot use. What the hypotheses of `TableAlwaysSound` and `SwapAlwaysSound`
exclude is false of the code, and section 3 has the constants that show it.

## 6. Assumptions and what is left out

* `rename()` is atomic and its effect survives a power loss; an fsync makes what
  was written before it durable; a power loss keeps a prefix of the rest, perhaps
  cut inside an entry, never garbage.
* Entries of the append only file are units: one command, its SELECT and its
  EXPIREAT translation. A MULTI block in the file is its commands. The file a
  rewrite begins with is the data set at the fork, without the bytes of
  `rewriteAppendOnlyFile()`.
* In `AppendOnly`, `stopAppendOnly()` reaps the child it has killed; that it may
  be the other one is the subject of `Saving`.
* The clock of the LRU and the samples of `freeMemoryIfNeeded()` are abstracted to
  any key of the table; so is the age of a value in `vmSwapOneObject()`.
* Scores are integers; infinities and NaN are in `Rdb` only. A command with several
  members, where the code does them one after the other, has one in `Zset` and
  `Sets`.
* The hash function is a constant; a dictionary is iterated inside of one command,
  so the timer does not rehash meanwhile.
* The new score of a ZINCRBY is computed from the abstract value, which the
  properties compare with the structure after every step.
* In `Vm` a command waits to touch a key that a thread is just loading; the code
  makes the client a waiter of the same load.
* Among the pieces of input of `Protocol` there is no negative count of arguments.
* LZF is what `compress` and `decompress` give each other.
* RANDOMKEY is not queued in MULTI in the model: the loop would be the same.
* A key that expires does not count as changed for WATCH, which is what
  `tests/unit/cas.tcl:125` expects.
* PINGs and monitors are left out of the slaves' buffers: they change no data. A
  slave that joins copies the buffer of any slave in the right state: the code
  takes the first of the list.
* In `ReplSlave` timeouts may happen whenever the code tests for one, the end of
  a saving child and its reaping are one step, and a closed descriptor that is
  still stored (`repl_transfer_fd`) is not reused by another file.
* S3, MySQL and Elastic MapReduce are modelled by how the scripts use them:
  listing sees every key, a copy is complete or fails, deleting a missing key is
  no error. The prefix the migrator gives to rejected names is abstracted to the
  bucket.
* Replies, logs, statistics and mails are left out, except the list of failed
  files, which `ReportedAreRecorded` is about.

Not modelled: strings, hashes (`zipmap.c`) and SORT, which are writes like SET for
the key space; redis-check-dump; INFO, CLIENT LIST, SLOWLOG and the other
commands that only report; the blocking mode of the virtual memory; the command
line tools; third-party libraries. The CDO formulas are floating point. The
visualisation and the reports are input and output.

## 7. Plan

Done: the append only file, the key space with transactions and eviction, both
halves of replication, saving and the children, the dump's encoding, blocking
lists, pub/sub, requests, hash tables, sorted sets, sets, lists, the virtual
memory, the log pipeline; proofs about the append only file, the key space, both
halves of replication, saving, the log pipeline, pub/sub, the hash tables and the
virtual memory.

Modelling left: `ReplMaster` and `ReplSlave` over a channel with an abstract
specification (the slave's data are always a state the master had); a log with a
durable prefix as the abstract specification of `AppendOnly`; hashes in their two
encodings; the JSON files of the visualisation against the server that reads
them; the import and upload of bids of the CDO.
