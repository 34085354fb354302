--------------------------------- MODULE Vm ---------------------------------
(***************************************************************************)
(* The virtual memory (vm.c): values swapped out to pages of a file and    *)
(* loaded back by I/O threads, jobs passed between them and the main       *)
(* thread through three queues and a pipe, jobs cancelled because a        *)
(* command needs the value, clients waiting for keys that are being        *)
(* loaded, and a saving child that reads the swap file as it was.          *)
(*                                                                         *)
(* The main thread takes one step per command, per completed job and per   *)
(* run of serverCron(); an I/O thread takes one to fetch a job, one to do  *)
(* the I/O and one to hand the job over.  Where the main thread waits for  *)
(* a thread (vmCancelThreadedIOJob of a job in processing,                 *)
(* waitEmptyIOJobsQueue) its step is enabled when the wait is over.        *)
(***************************************************************************)
EXTENDS Integers, Sequences, FiniteSets, SequencesExt, FiniteSetsExt

CONSTANTS
    VmClients,          \* the connections
    VmKeys,             \* the keys
    VmPagesOf,          \* the pages the value of a key takes on disk
    VmPages,            \* vm-pages
    VmMaxThreads,       \* vm-max-threads, at least 1
    VmArgs,             \* the keys of a command, as a tuple
    VmOps,              \* the commands: "get", "append", "set", "del", "flush"
    VmMaxWrites,        \* bound: writes ever made
    VmWriteFails        \* vmWriteObjectOnSwap() may fail

ASSUME VmAssumption ==
    /\ IsFiniteSet(VmKeys) /\ VmPagesOf \in [VmKeys -> Nat \ {0}] /\ VmPages \in Nat
    /\ VmMaxThreads \in Nat \ {0} /\ VmMaxWrites \in Nat /\ VmWriteFails \in BOOLEAN
    /\ VmArgs \subseteq Seq(VmKeys) \ {<<>>}
    /\ VmOps \subseteq {"get", "append", "set", "del", "flush"}

VARIABLES
    vm,                 \* the state of the server, a record of:
                        \*   val: key -> the value, in memory or a vmpointer
                        \*   newjobs, processing, processed: the queues
                        \*   threads: io_active_threads
                        \*   used: pages marked in vm_bitmap
                        \*   waiters: db->io_keys, key -> clients
                        \*   io_keys: client -> keys it waits for
                        \*   ready: io_ready_clients
    vmcmd,              \* the command of each client in REDIS_IO_WAIT
    swapfile,           \* page -> <<key, data>> written there
    vmdata,             \* history: what each key should hold; 0: nothing
    vmwrites,           \* history: writes made
    vmchild,            \* the saving child, and the values it finds swapped out
    vmloading,          \* the data set is being loaded at start up
    vmstuck             \* history: clients that waited when FLUSHALL came

vmVars == <<vm, vmcmd, swapfile, vmdata, vmwrites, vmchild,
            vmloading, vmstuck>>

NoVal == [storage |-> "none", data |-> 0, page |-> -1]
InMemory(d) == [storage |-> "memory", data |-> d, page |-> -1]
NoCmd == [op |-> "none", args |-> <<>>]
NoChild == [state |-> "none", page |-> [k \in VmKeys |-> -1], data |-> [k \in VmKeys |-> 0]]
Cluster(k, page) == page..(page + VmPagesOf[k] - 1)

\* All jobs, by the queue they are in.
Jobs(s) == Range(s.newjobs) \cup s.processing \cup Range(s.processed)

\* The values that may be swapped out: in memory, and with no job left that holds
\* a reference.
Swappable(s) ==
    {k \in VmKeys : /\ s.val[k].storage = "memory"
                    /\ \A j \in Jobs(s) : j.key = k /\ j.type # "load" => ~j.mine}

\* vmCanSwapOut(): no child is saving.
vmCanSwapOut == vmchild = NoChild

-----------------------------------------------------------------------------
(* Jobs and pages. *)

\* Mutant: one page is taken for free although it is used.
FreeClustersOff(s, k) ==
    {p \in 0..(VmPages - 1) : Cluster(k, p) \subseteq (0..(VmPages - 1)) \ (s.used \ {p})}

\* vmFindContiguousPages(): it starts near the last pages found and may jump, so
\* any free cluster can be the one, and it may miss them all.
FreeClusters(s, k) ==
    {p \in 0..(VmPages - 1) : Cluster(k, p) \subseteq (0..(VmPages - 1)) \ s.used}

queueIOJob(s, j) ==
    [s EXCEPT !.newjobs = Append(@, j),
              !.threads = IF @ < VmMaxThreads THEN @ + 1 ELSE @]

\* A swapping job owns a reference to the value (mine) until the key gets another.
vmSwapObjectThreaded(s, k) ==
    queueIOJob([s EXCEPT !.val[k].storage = "swapping"],
               [type |-> "prepare", key |-> k, data |-> 0, page |-> -1,
                canceled |-> FALSE, mine |-> TRUE, step |-> "queued"])

\* The job vmCancelThreadedIOJob() looks for.
JobOf(s, k) == {j \in Jobs(s) : j.key = k /\ ~j.canceled}

\* The main thread may go on with k: no thread is at work on its job.
Settled(s, k) ==
    s.val[k].storage \in {"swapping", "loading"} => JobOf(s, k) \cap s.processing = {}

\* Mutant: the pages of a job that was still queued are not given back.
CancelKeepsPages(s, k) ==
    LET mark(q) == [i \in DOMAIN q |->
            IF q[i].key = k THEN [q[i] EXCEPT !.canceled = TRUE] ELSE q[i]] IN
    [s EXCEPT
        !.newjobs = RemoveFirstMatch(@, LAMBDA j : j.key = k /\ ~j.canceled),
        !.processed = mark(@),
        !.val[k].storage = IF @ = "loading" THEN "swapped" ELSE "memory"]

\* vmCancelThreadedIOJob(): a queued job is removed, a processed one is marked; the
\* pages of a swap that will not be are free again, and the value is what it was.
vmCancelThreadedIOJob(s, k) ==
    LET swap == {j \in JobOf(s, k) : j.type = "do"}
        mark(q) == [i \in DOMAIN q |->
            IF q[i].key = k THEN [q[i] EXCEPT !.canceled = TRUE] ELSE q[i]] IN
    [s EXCEPT
        !.newjobs = RemoveFirstMatch(@, LAMBDA j : j.key = k /\ ~j.canceled),
        !.processed = mark(@),
        !.used = @ \ UNION {Cluster(k, j.page) : j \in swap},
        !.val[k].storage = IF @ = "loading" THEN "swapped" ELSE "memory"]

\* The key gets another object, or none: jobs no longer own what it holds.
Disown(s, k) ==
    [s EXCEPT !.processed = [i \in DOMAIN @ |->
        IF @[i].key = k THEN [@[i] EXCEPT !.mine = FALSE] ELSE @[i]]]

-----------------------------------------------------------------------------
(* Clients that wait for keys. *)

\* dontWaitForSwappedKey()
dontWaitForSwappedKey(s, c, k) ==
    [s EXCEPT !.io_keys[c] = RemoveFirst(@, k), !.waiters[k] = RemoveFirst(@, c)]

\* handleClientsBlockedOnSwappedKey(): everyone waiting, in order; who waits for
\* nothing else is ready.
handleClientsBlockedOnSwappedKey(s, k) ==
    FoldLeft(LAMBDA t, c :
                LET u == dontWaitForSwappedKey(t, c, k) IN
                IF u.io_keys[c] = <<>> THEN [u EXCEPT !.ready = Append(@, c)] ELSE u,
             s, s.waiters[k])

waitForSwappedKey(s, c, k) ==
    LET w == [s EXCEPT !.io_keys[c] = Append(@, k), !.waiters[k] = Append(@, c)] IN
    CASE s.val[k].storage \in {"none", "memory"} -> s
      [] s.val[k].storage = "swapping" -> vmCancelThreadedIOJob(s, k)
      [] s.val[k].storage = "swapped" ->
           queueIOJob([w EXCEPT !.val[k].storage = "loading"],
                      [type |-> "load", key |-> k, data |-> 0, page |-> s.val[k].page,
                       canceled |-> FALSE, mine |-> FALSE, step |-> "queued"])
      [] s.val[k].storage = "loading" -> w

\* blockClientOnSwappedKeys()
blockClientOnSwappedKeys(s, c, args) ==
    FoldLeft(LAMBDA t, k : waitForSwappedKey(t, c, k), s, args)

-----------------------------------------------------------------------------
(* What commands do with a value. *)

\* Mutant: the clients that wait for the key are not told that it is there.
lookupKeySilent(s, k) ==
    LET v == s.val[k]
        u == IF v.storage \in {"loading", "swapping"} THEN vmCancelThreadedIOJob(s, k) ELSE s
    IN  IF v.storage \in {"loading", "swapped"}
        THEN [u EXCEPT !.val[k] = InMemory(swapfile[v.page][2]),
                       !.used = @ \ Cluster(k, v.page)]
        ELSE u

\* lookupKey(), with vmLoadObject(): a value being swapped out stays, one that is
\* out is read at once, and a job that was loading it is cancelled.
lookupKey(s, k) ==
    LET v == s.val[k]
        u == IF v.storage \in {"loading", "swapping"} THEN vmCancelThreadedIOJob(s, k) ELSE s
        l == [u EXCEPT !.val[k] = InMemory(swapfile[v.page][2]),
                       !.used = @ \ Cluster(k, v.page)] IN
    CASE v.storage \in {"none", "memory", "swapping"} -> u
      [] v.storage = "swapped" -> l
      [] v.storage = "loading" -> handleClientsBlockedOnSwappedKey(l, k)

\* Mutant: the job is left alone as long as it holds a reference.
dropValueOnly(s, k) ==
    LET v == s.val[k]
        u == IF v.storage = "loading" THEN vmCancelThreadedIOJob(s, k) ELSE s IN
    Disown([u EXCEPT !.val[k] = NoVal,
                     !.used = IF v.page = -1 THEN @ ELSE @ \ Cluster(k, v.page)], k)

\* decrRefCount() of the value of a key that goes away.
dropValue(s, k) ==
    LET v == s.val[k]
        u == IF v.storage \in {"loading", "swapping"} THEN vmCancelThreadedIOJob(s, k) ELSE s IN
    Disown([u EXCEPT !.val[k] = NoVal,
                     !.used = IF v.page = -1 THEN @ ELSE @ \ Cluster(k, v.page)], k)

\* dbDelete()
vmDbDelete(s, k) == dropValue(handleClientsBlockedOnSwappedKey(s, k), k)

\* The new data a command writes.
NewData == vmwrites + 1

\* One command on one of its keys.
Access(s, op, k) ==
    CASE op = "get" -> lookupKey(s, k)
      [] op = "append" ->
           LET u == lookupKey(s, k) IN
           IF u.val[k].storage = "none" THEN u
           ELSE [u EXCEPT !.val[k].data = NewData]
      [] op = "set" -> [dropValue(lookupKey(s, k), k) EXCEPT !.val[k] = InMemory(NewData)]
      [] op = "del" -> vmDbDelete(s, k)

Truth(op, args) ==
    [k \in VmKeys |->
        CASE k \notin Range(args) -> vmdata[k]
          [] k \in Range(args) /\ op = "set" -> NewData
          [] k \in Range(args) /\ op = "append" -> IF vmdata[k] = 0 THEN 0 ELSE NewData
          [] k \in Range(args) /\ op = "del" -> 0
          [] k \in Range(args) /\ op = "get" -> vmdata[k]]

\* call() of a command, from state s.
vmCall(s, op, args) ==
    /\ op \in {"set", "append"} => vmwrites < VmMaxWrites
    /\ vm' = FoldLeft(LAMBDA t, k : Access(t, op, k), s, args)
    /\ vmdata' = Truth(op, args)
    /\ vmwrites' = IF op \in {"set", "append"} THEN vmwrites + 1 ELSE vmwrites

CanTouch(s, args) == \A k \in Range(args) : Settled(s, k)

Waiting(c) == vmcmd[c] # NoCmd

-----------------------------------------------------------------------------
VmInit ==
    /\ vm = [val |-> [k \in VmKeys |-> NoVal], newjobs |-> <<>>, processing |-> {},
             processed |-> <<>>, threads |-> 0, used |-> {},
             waiters |-> [k \in VmKeys |-> <<>>], io_keys |-> [c \in VmClients |-> <<>>],
             ready |-> <<>>]
    /\ vmcmd = [c \in VmClients |-> NoCmd]
    /\ swapfile = [p \in 0..(VmPages - 1) |-> <<>>]
    /\ vmdata = [k \in VmKeys |-> 0] /\ vmwrites = 0
    /\ vmchild = NoChild /\ vmloading = TRUE /\ vmstuck = {}

\* Start up: a key is loaded from the dump, or the append only file, and is
\* swapped out at once when memory is short (vmSwapOneObjectBlocking).
LoadKey == \E k \in VmKeys :
    /\ vmloading /\ vmdata[k] = 0
    /\ vmdata' = [vmdata EXCEPT ![k] = VmMaxWrites + 1]
    /\ vm' = [vm EXCEPT !.val[k] = InMemory(VmMaxWrites + 1)]
    /\ UNCHANGED <<vmcmd, swapfile, vmwrites, vmchild, vmloading, vmstuck>>

vmSwapObjectBlocking == \E k \in Swappable(vm) : \E p \in FreeClusters(vm, k) :
    /\ vmloading
    /\ swapfile' = [q \in DOMAIN swapfile |->
            IF q \in Cluster(k, p) THEN <<k, vm.val[k].data>> ELSE swapfile[q]]
    /\ vm' = [vm EXCEPT !.val[k] = [storage |-> "swapped", data |-> 0, page |-> p],
                        !.used = @ \cup Cluster(k, p)]
    /\ UNCHANGED <<vmcmd, vmdata, vmwrites, vmchild, vmloading, vmstuck>>

LoadingEnds ==
    /\ vmloading /\ vmloading' = FALSE
    /\ UNCHANGED <<vm, vmcmd, swapfile, vmdata, vmwrites, vmchild, vmstuck>>

\* serverCron(), when memory is over the limit: vmSwapOneObject(1).
vmSwapOneObject == \E k \in Swappable(vm) :
    /\ ~vmloading /\ vmCanSwapOut
    /\ vm' = vmSwapObjectThreaded(vm, k)
    /\ UNCHANGED <<vmcmd, swapfile, vmdata, vmwrites, vmchild,
                   vmloading, vmstuck>>

\* processCommand(): the client waits for what is swapped, or the command is run.
vmCommand == \E c \in VmClients, op \in VmOps \ {"flush"}, args \in VmArgs :
    LET s == blockClientOnSwappedKeys(vm, c, args) IN
    /\ ~vmloading /\ ~Waiting(c) /\ CanTouch(vm, args)
    /\ IF s.io_keys[c] # <<>>
       THEN /\ vmcmd' = [vmcmd EXCEPT ![c] = [op |-> op, args |-> args]]
            /\ vm' = s /\ UNCHANGED <<vmdata, vmwrites>>
       ELSE vmCall(s, op, args) /\ UNCHANGED vmcmd
    /\ UNCHANGED <<swapfile, vmchild, vmloading, vmstuck>>

\* FLUSHALL: every value goes, without a word to the clients that wait for it.  A
\* child that saves a dump is killed, one that rewrites the log is not.
vmFlush ==
    /\ "flush" \in VmOps /\ ~vmloading /\ \A k \in VmKeys : Settled(vm, k)
    /\ \E c \in VmClients : ~Waiting(c)
    /\ vm' = FoldLeft(LAMBDA s, k : dropValue(s, k), vm, SetToSeq(VmKeys))
    /\ vmdata' = [k \in VmKeys |-> 0]
    /\ \/ UNCHANGED vmchild
       \/ vmchild # NoChild /\ vmchild' = [NoChild EXCEPT !.state = "killed"]
    /\ vmstuck' = vmstuck \cup {c \in VmClients : vm.io_keys[c] # <<>>}
    /\ UNCHANGED <<vmcmd, swapfile, vmwrites, vmloading>>

\* beforeSleep(): the first client whose keys have all come runs its command.
vmResume ==
    LET c == Head(vm.ready) IN
    /\ vm.ready # <<>> /\ CanTouch(vm, vmcmd[c].args)
    /\ vmCall([vm EXCEPT !.ready = Tail(@)], vmcmd[c].op, vmcmd[c].args)
    /\ vmcmd' = [vmcmd EXCEPT ![c] = NoCmd] /\ vmstuck' = vmstuck \ {c}
    /\ UNCHANGED <<swapfile, vmchild, vmloading>>

\* freeClient() of a client that waits.
vmFreeClient == \E c \in VmClients :
    /\ Waiting(c)
    /\ vm' = IF vm.io_keys[c] = <<>> THEN [vm EXCEPT !.ready = RemoveFirst(@, c)]
             ELSE FoldLeft(LAMBDA s, k : dontWaitForSwappedKey(s, c, k), vm, vm.io_keys[c])
    /\ vmcmd' = [vmcmd EXCEPT ![c] = NoCmd] /\ vmstuck' = vmstuck \ {c}
    /\ UNCHANGED <<swapfile, vmdata, vmwrites, vmchild, vmloading>>

-----------------------------------------------------------------------------
(* The I/O threads. *)

Looking == vm.threads - Cardinality(vm.processing)

FetchJob ==
    /\ Looking > 0 /\ vm.newjobs # <<>>
    /\ vm' = [vm EXCEPT !.newjobs = Tail(@),
                        !.processing = @ \cup {[Head(vm.newjobs) EXCEPT !.step = "taken"]}]
    /\ UNCHANGED <<vmcmd, swapfile, vmdata, vmwrites, vmchild,
                   vmloading, vmstuck>>

ThreadExits ==
    /\ Looking > 0 /\ vm.newjobs = <<>>
    /\ vm' = [vm EXCEPT !.threads = @ - 1]
    /\ UNCHANGED <<vmcmd, swapfile, vmdata, vmwrites, vmchild,
                   vmloading, vmstuck>>

\* The job with the result of its I/O: a load reads the value, a write may fail,
\* and the thread then marks the job itself.
Worked(j, failed) ==
    [j EXCEPT !.step = "done", !.canceled = failed,
              !.data = IF j.type = "load" THEN swapfile[j.page][2] ELSE @]

DoJob == \E j \in vm.processing, failed \in BOOLEAN :
    /\ j.step = "taken"
    /\ failed => VmWriteFails /\ j.type = "do"
    /\ vm' = [vm EXCEPT !.processing = (@ \ {j}) \cup {Worked(j, failed)}]
    /\ swapfile' = IF j.type = "do" /\ ~failed
                   THEN [q \in DOMAIN swapfile |-> IF q \in Cluster(j.key, j.page)
                            THEN <<j.key, vm.val[j.key].data>> ELSE swapfile[q]]
                   ELSE swapfile
    /\ UNCHANGED <<vmcmd, vmdata, vmwrites, vmchild, vmloading, vmstuck>>

\* The job goes to the main thread and a byte into the pipe; a handler that runs
\* between the two finds no byte, and leaves the job for later.
HandOver == \E j \in vm.processing :
    /\ j.step = "done"
    /\ vm' = [vm EXCEPT !.processing = @ \ {j}, !.processed = Append(@, j)]
    /\ UNCHANGED <<vmcmd, swapfile, vmdata, vmwrites, vmchild, vmloading, vmstuck>>

-----------------------------------------------------------------------------
(* vmThreadedIOCompletedJob(): one byte of the pipe is one completed job. *)

\* The value a job left behind is in memory again (freeIOJob of one that the
\* thread marked).
Undo(s, j) ==
    IF j.mine /\ j.type # "load" /\ s.val[j.key].storage = "swapping"
    THEN [s EXCEPT !.val[j.key].storage = "memory"] ELSE s

CompletedCanceled(s, j) == j.canceled /\ vm' = Undo(s, j)

CompletedLoad(s, j) ==
    /\ ~j.canceled /\ j.type = "load"
    /\ vm' = handleClientsBlockedOnSwappedKey(
                [s EXCEPT !.used = @ \ Cluster(j.key, s.val[j.key].page),
                          !.val[j.key] = InMemory(j.data)], j.key)

\* Mutant: a swap is begun although a child is saving.
CompletedPrepareAnyway(s, j) ==
    /\ ~j.canceled /\ j.type = "prepare"
    /\ \E p \in FreeClusters(s, j.key) :
            vm' = queueIOJob([s EXCEPT !.used = @ \cup Cluster(j.key, p)],
                      [j EXCEPT !.type = "do", !.page = p, !.step = "queued"])

\* Now the pages are known: the job is queued again to write, or it is undone.
CompletedPrepare(s, j) ==
    /\ ~j.canceled /\ j.type = "prepare"
    /\ \/ vm' = Undo(s, j)
       \/ /\ vmCanSwapOut
          /\ \E p \in FreeClusters(s, j.key) :
                vm' = queueIOJob([s EXCEPT !.used = @ \cup Cluster(j.key, p)],
                          [j EXCEPT !.type = "do", !.page = p, !.step = "queued"])

\* The value is out; if memory is still short more values follow.
CompletedSwap(s, j) ==
    LET out == [s EXCEPT !.val[j.key] =
                    [storage |-> "swapped", data |-> 0, page |-> j.page]] IN
    /\ ~j.canceled /\ j.type = "do"
    /\ \E more \in SetToAllKPermutations(Swappable(out)) :
        /\ more # <<>> => vmCanSwapOut
        /\ vm' = FoldLeft(LAMBDA t, k : vmSwapObjectThreaded(t, k), out, more)

vmThreadedIOCompletedJob ==
    LET j == Head(vm.processed)
        s == [vm EXCEPT !.processed = Tail(@)] IN
    /\ vm.processed # <<>>
    /\ CompletedCanceled(s, j) \/ CompletedLoad(s, j) \/ CompletedPrepare(s, j)
         \/ CompletedSwap(s, j)
    /\ UNCHANGED <<vmcmd, swapfile, vmdata, vmwrites, vmchild, vmloading, vmstuck>>

-----------------------------------------------------------------------------
(* A saving child. *)

\* waitEmptyIOJobsQueue() has returned: fork().
vmFork ==
    /\ ~vmloading /\ vmchild = NoChild
    /\ vm.newjobs = <<>> /\ vm.processing = {} /\ vm.threads = 0
    /\ vmchild' = [state |-> "running", page |-> [k \in VmKeys |-> vm.val[k].page],
                   data |-> [k \in VmKeys |-> IF vm.val[k].page = -1 THEN 0 ELSE vmdata[k]]]
    /\ UNCHANGED <<vm, vmcmd, swapfile, vmdata, vmwrites, vmloading, vmstuck>>

vmChildExits ==
    /\ vmchild # NoChild /\ vmchild' = NoChild
    /\ UNCHANGED <<vm, vmcmd, swapfile, vmdata, vmwrites, vmloading, vmstuck>>

VmNext ==
    \/ LoadKey \/ vmSwapObjectBlocking \/ LoadingEnds
    \/ vmSwapOneObject \/ vmCommand \/ vmFlush \/ vmResume \/ vmFreeClient
    \/ FetchJob \/ ThreadExits \/ DoJob \/ HandOver
    \/ vmThreadedIOCompletedJob \/ vmFork \/ vmChildExits

VmSpec == VmInit /\ [][VmNext]_vmVars

-----------------------------------------------------------------------------
(* Properties. *)

\* A value is where it should be and is the one last written: in memory, or on the
\* pages its vmpointer names.
VmHolds ==
    \A k \in VmKeys :
        LET v == vm.val[k] IN
        CASE v.storage = "none" -> vmdata[k] = 0
          [] v.storage \in {"memory", "swapping"} -> v.data = vmdata[k]
          [] v.storage \in {"swapped", "loading"} ->
               \A p \in Cluster(k, v.page) : swapfile[p] = <<k, vmdata[k]>>

\* The pages marked as used are those of swapped values and of writes under way,
\* and no page is of two of them.
PagesAccounted ==
    LET swapped == {<<k, vm.val[k].page>> : k \in {x \in VmKeys : vm.val[x].page # -1}}
        writes == {<<j.key, j.page>> : j \in {x \in Jobs(vm) : x.type = "do" /\ ~x.canceled}}
    IN  /\ vm.used = UNION {Cluster(o[1], o[2]) : o \in swapped \cup writes}
        /\ \A o1, o2 \in swapped \cup writes :
             o1 # o2 => Cluster(o1[1], o1[2]) \cap Cluster(o2[1], o2[2]) = {}

\* A value that is on its way has one live job, and a live job has its value: the
\* search of vmCancelThreadedIOJob() always ends in a job.
OneJobEach ==
    \A k \in VmKeys :
        LET live == JobOf(vm, k)
            types == CASE vm.val[k].storage = "loading" -> {"load"}
                       [] vm.val[k].storage = "swapping" -> {"prepare", "do"}
                       [] OTHER -> {} IN
        /\ Cardinality(live) = IF types = {} THEN 0 ELSE 1
        /\ \A j \in live : j.type \in types

\* What a saving child still has to read from the swap file is what was there.
ChildReadsItsData ==
    \A k \in VmKeys : vmchild.page[k] # -1 =>
        \A p \in Cluster(k, vmchild.page[k]) : swapfile[p] = <<k, vmchild.data[k]>>

Times(q, e) == Cardinality({i \in DOMAIN q : q[i] = e})

\* A client waits only for keys that are being loaded, and is ready to go when
\* nothing is left; the two indices agree.
WaitersComeBack ==
    \A c \in VmClients :
        /\ ~Waiting(c) => vm.io_keys[c] = <<>>
        /\ Waiting(c) /\ vm.io_keys[c] = <<>> =>
             Times(vm.ready, c) = 1
        /\ \A k \in VmKeys :
             /\ Times(vm.io_keys[c], k) = Times(vm.waiters[k], c)
             /\ k \in Range(vm.io_keys[c]) =>
                  vm.val[k].storage = "loading" \/ c \in vmstuck

\* The swap is right, whatever the main thread, the I/O threads and a saving child
\* of vm.c do at the same time: values, pages, jobs, the child's data, waiters.
SwapSound ==
    VmHolds /\ PagesAccounted /\ OneJobEach /\ ChildReadsItsData /\ WaitersComeBack
=============================================================================
