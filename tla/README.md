# Formal models of the OP-TEE core

OP-TEE OS is the kernel of the secure world of an Arm TrustZone system. The
normal world (Linux and `tee-supplicant`) enters it with SMCs; the core runs
trusted applications (TAs) on a fixed pool of threads, and leaves again when a
call has been answered or when it needs something from the normal world (an
RPC: sleep, wake another thread, read a file). There is no scheduler in the
core: a thread that leaves by RPC or by a foreign interrupt runs again when the
normal world resumes it. This project models the parts of the core in which
such interleavings, failures and crashes decide correctness.

## 1. Inventory

| Part | State | Operations | What makes it hard | What makes it correct |
|---|---|---|---|---|
| Mutexes, condition variables (`core/kernel/mutex.c`, `wait_queue.c`) | lock word, queue of elements on the waiters' stacks, notifications in the normal world | lock, read lock, trylock, unlock, wait, signal, broadcast, destroy | the lock word and the queue have different spinlocks; wake-ups are RPCs that can fail or be stale | exclusion, no lost wake-up, a condvar waiter is woken by signals only |
| TA manager (`core/kernel/tee_ta_manager.c`, `user_ta.c`, `pseudo_ta.c`) | contexts with reference count, busy flag, panic state; sessions with reference count and lock; the single-instance lock | open, invoke, close, cancel, panic, release, destroy | five kinds of condition variable, TAs that call TAs, a close racing with everything else | exact counts, no use after free, every call returns |
| Cancellation (`tee_ta_manager.c`, `tee_svc.c`) | cancel flag, mask, deadline | set at entry, ask, mask, poll, wait | asynchronous requests, carries and overflow, a normal world that ends a sleep when it likes | no cancellation left over from an earlier call, no sleep that is too short or too long |
| Hash tree files (`core/tee/fs_htree.c`) | two versions of a header, of tree nodes and of blocks in the normal world's file system | create, open, read, write, truncate, sync | crash between any two writes | after a crash the last committed contents |
| REE file system (`tee_ree_fs.c`, `fs_dirfile.c`) | one file per object, a directory file with their hashes, a directory handle that all share, a counter | create, open, write, truncate, rename, remove, enumerate | several files change in one operation, any error closes the shared handle | all or nothing, one object per name and per file |
| Registered shared memory (`mobj_dyn_shm.c`) | reference and map counts, list of cookies | register, get, put, map, unmap, release by cookie | counters without lock | freed once, never while used |
| Threads (`thread.c`, `thread_optee_smc.c`) | thread states, current thread of each core, buffers lent by the normal world for RPC arguments and payloads, a cache of them | alloc, suspend, resume, free, RPC, Ocall, enable and disable the cache | several cores, foreign interrupts, a normal world that resumes what it likes | a thread is on one core, reads only answers to its own RPCs, gives no buffer back twice and loses none that was described correctly |
| Persistent objects (`tee_pobj.c`, `tee_svc_storage.c`, `tee_obj.c`) | a list of objects with reference count and sharing flags, a TA's handles | get, release, rename, create-final, read, write, truncate, remove | TAs and enumerators share an object; a corrupt object is removed under its users | the sharing flags are kept, an object is freed once |
| TA database (`tadb.c`) | a directory object with entries, one file per TA | create, write, close, delete, open | two files change in one operation | all or nothing |
| RPMB file system (`tee_rpmb_fs.c`) | a FAT, a write counter, a key state | the same file operations | a write counter the device may have advanced without an answer | a write is done once, the FAT is consistent after a crash |
| Notifications (`notif.c`) | asynchronous values, pending and enabled bits | alloc, free, send, retrieve | several cores and an interrupt handler | a value sent is retrieved |
| User mode memory (`core/mm/vm.c`, `pgt_cache.c`, `fobj.c`) | regions, cached page tables | map, unmap, set rights, get and put tables | a shared cache with waiters | no table is used twice |
| PKCS#11 TA (`ta/pkcs11/src`) | tokens, sessions, objects, an active operation per session | the commands of the interface | long sequences of legal calls | login and operation states agree |

The list with every part, including those that are not modelled (pager, MMU
set-up, boot, drivers, virtualization, secure partitions, vendored libraries) and
the reason, is under `components` in `PROJECT.json`; what can go wrong where is
under `hazards`.

How the parts interact. `entry_std.c` turns a message of the normal world into a
call of the TA manager; a TA that runs makes system calls, which call the TA
manager again (a session to another TA) or the storage. The TA manager protects
its lists with one mutex, `tee_ta_mutex`, and waits on condition variables of
`mutex.c`; the file system has a mutex of its own, `ree_fs_mutex`, which is held
over the RPCs of a whole operation. A mutex sleeps and wakes by RPC. A panic of a
TA comes back to the TA manager as the result of entering it. The object file is
made valid by the directory file, which holds its hash; the directory file is
made valid by a counter or by a hash in RPMB.

What is hard to test: what happens between dropping one spinlock and taking the
next; a close that races with an invocation, a panic and another close; nested
calls that share a lock with other threads' nested calls; an RPC that fails or a
power failure between any two writes of a file; carries and overflow of times.

## 2. Plan

Done, in this order:

1. `Mutex` (with its abstract specification `Monitor`, and `MutexProofs`): what
   everything else waits with.
2. `TaManager` (with `TaManagerProofs`), which uses mutex and condition variables as
   `Monitor` specifies.
3. `Cancellation`, the part of a session that is changed without its lock.
4. `FsHtree`: one object file.
5. `RegShm` (with its abstract specification `ShmRegistry`): reference and map
   counts of `mobj_dyn_shm.c`, interleaved at its atomic operations.
6. `Storage` (with `ObjectStore`): the sharing rules of `tee_pobj.c`, the storage
   syscalls, and the directory of the REE file system with its shared handle.
7. `Threads` (with `BufferLoans`, and `ThreadsProofs`): allocation, suspension
   and resumption of threads, RPCs, foreign interrupts, the buffers that the
   normal world lends.

Left, in this order: asynchronous notifications (`notif.c`); the directory file
itself as a second hash tree whose header is chosen by its counter; `RpmbFs`,
`Tadb`, `PgtCache`; sessions of the PKCS#11 TA; recursive and spinning mutexes.

Every component but `FsHtree` has its theorems, each in a module of its own (section 5).
What is left to prove is about `FsHtree`: that the slots written by an operation are
disjoint from the slots of the committed version. It needs an induction over the tree
(section 5, end).

## 3. Modules

| Module | Code | State and actions |
|---|---|---|
| `Mutex` | `mutex.c`, `wait_queue.c` | `state` is the lock word, `wq` the queue of elements `wqe`, `notif` the notifications that the normal world holds, `pc` where a thread is. One action per spinlock section or RPC: `MutexLock`, `LockAcquire`, `LockBlock`, `TryLock`, `WaitNotified`, `WaitFailed`, `WaitCheck`, `MutexUnlock`, `MutexReadUnlock`, `WakePick`, `WakeDone`, `NotifySend`, `CondvarWait`, `CondvarSignal`, `CondvarBroadcast`, `Destroy` |
| `Monitor` | the comments in `mutex.h` | abstract: who is inside, who waits on which condition variable |
| `MutexProofs` | | theorems about `Mutex` |
| `TaManager` | `tee_ta_manager.c`, `user_ta.c`, `pseudo_ta.c`, `ts_manager.c`, the session calls of `entry_std.c` and `tee_svc.c` | contexts (`tee_ctxes`, `ref_count`, `busy`, `is_initializing`, `is_releasing`, `panicked`), sessions (`owner`, `ts_ctx`, `refs`, `lock_thread`, `unlink`), the single-instance lock, and per thread a stack of calls. One action per section under `tee_ta_mutex` |
| `Cancellation` | `tee_ta_manager.c`, `tee_svc.c`, `user_ta.c` | one session's `cancel`, `cancel_mask`, `cancel_time`, a clock, and `syscall_wait()` |
| `FsHtree` | `fs_htree.c`, the object operations of `tee_ree_fs.c`, the object syscalls of `tee_svc_storage.c` | the file (`heads`, `nodes`, `blocks`, two versions of each), the directory's hash `dir`, the tree in memory, the operation in progress; one action per RPC, and for each the same RPC failing; `Crash` |
| `RegShm` | `mobj_dyn_shm.c`, `msg_param.c`, `refcount.c`, the shared memory requests of `entry_std.c` | `reg_shm_list`, the fields of a `struct mobj_reg_shm` (`cookie`, `refc`, `mapcount`, `mm`, `guarded`, `releasing`, `release_frees`), `shm_mu` and `shm_cv`, and what each thread is doing. A step is an atomic operation on a counter, a spinlock section or a section under `shm_mu` |
| `ShmRegistry` | what `entry_std.c` promises the driver | abstract: a buffer is gone, shared or leaving, and who uses it |
| `Storage` | `tee_pobj.c`, `tee_svc_storage.c`, `tee_obj.c`, `tee_ree_fs.c`, `fs_dirfile.c` | `dent` is the committed directory, `dirh` the shared directory handle, `tee_pobjs` the list of open objects, `obj` and `en` the object and the enumerator of each TA instance. One action per section under `pobjs_mutex` or `ree_fs_mutex`, each file operation also failing, or committed and not confirmed; `Reset` |
| `ObjectStore` | what the directory promises | abstract: the file that each name stands for; one name changes at a time |
| `Threads` | `thread.c`, `thread_optee_smc.c`, the assembly of `thread_rpc()` and of the interrupt exit, `kernel/thread.c`, the Ocall loop of `scmi.c` | `state`, `copy_args`, `x` (the saved registers), `rpc_arg`, `rpc_mobj`, `shm_cache` of a thread; `cpu`, `curr_thread` of a core; `thread_prealloc_rpc_cache`; and the normal world's side: which RPC a thread `asked`, its `answer`, and to whom a buffer is `lent`. `Call`, `Start`, `Resume`, `Continue`, `Preempt`, `Serve`, `Enable`, `Disable`, and one action per stretch of `call_entry_std()` between two RPCs |
| `BufferLoans` | what `optee_smc.h` promises the driver | abstract: who has a buffer, who has a call, whether the cache is on |
| `TaManagerProofs`, `ThreadsProofs`, `RegShmProofs`, `StorageProofs`, `CancellationProofs` | | theorems about `TaManager`, `Threads`, `RegShm`, `Storage` and `Cancellation` |
| `MCMutex`, `MCTaManager`, `MCCancellation`, `MCFsHtree`, `MCRegShm`, `MCStorage`, `MCThreads` | | instances for TLC |

Abstractions worth knowing:

* `Mutex`. A spinlock section is one step, which the spinlocks justify. Callers
  release what they hold. A notification RPC may fail, and one that was not
  consumed stays with the normal world and wakes a later wait with the same
  thread id.
* `TaManager`. The mutex and its condition variables behave as `Monitor` says,
  which `Mutex` is shown to implement: no spurious wake-up, and no lost one. A
  request uses a session id that its owner knows and has not asked to close;
  `new_session_id()` tries the id after that of the last session in the list, then the
  next ones, and may so give out an id that has just become free; the model takes any id
  that no request in progress carries (`FreeIds`). `check_params()` succeeds (it can
  fail only with `CFG_SECURE_DATA_PATH`). A TA may return, fail or panic at any
  time, and calls the TAs that `CallGraph` allows. Pseudo TAs cannot fail to load; they are
  single-instance, multi-session and kept alive, which `verify_pseudo_tas_conformance()`
  checks at boot, and only they are concurrent (`TA_FLAG_CONCURRENT`): `PseudoOK`.
* `Cancellation`. A second has `Second` milliseconds, and seconds and milliseconds are
  of the same width, `MaxUint`, so that the carry and the overflow of `ADD_OVERFLOW`
  and the wrapping of `mytime` in `syscall_wait()` happen. A sleep is one SUSPEND
  request for all the time that is left (`tee_time_wait()`). The normal world may end it
  at any time, but not later than `Late` after the time it was asked for; a cancellation does
  not end it, and is seen when the thread comes back (`Resume`). `asked` is a history
  variable: the phase of the session (`Phase`: a call, or the time between two calls) in
  which a cancellation was last asked for.
* `FsHtree`. A hash is the structure it is computed from, encryption yields a tag
  that no other encryption yields: cryptography is ideal. A write RPC is durable
  when it has succeeded, and when it fails the slot has its old value or is
  illegible. The directory is one cell. Operations exclude each other
  (`ree_fs_mutex`). A read that succeeds, and an open or a lookup that fails for
  want of memory, change nothing and are no actions. TAs with
  `TA_FLAG_DONT_CLOSE_HANDLE_ON_CORRUPT_OBJECT` are not modelled here (`Storage` has
  them). A sync that cannot get memory for its hash context leaves the tree open
  (`SyncNotStarted`); any later error closes it. `ht->dirty` is
  left out: whenever the code syncs a tree the flag is set, but for a write of
  length zero, which changes nothing. `harm` is a history variable: it names
  the cases in which the code gives up the committed version (section 4, run
  `htree`), and nothing in the model depends on it.
* `RegShm`. Memory accesses are sequentially consistent (the counters are atomic
  and everything else is under a lock). The driver keeps its side: a cookie names one
  registration at a time, no request names a cookie once its unregistering was
  asked for, and it is not asked for while a request with it is on its way; the `shm_ref` of
  a temporary parameter is no registered cookie. The object of a non-contiguous temporary
  parameter is not put when its request ends, because `cleanup_shm_refs()` skips it
  (`Skip`, section 6); `left` is the history of these objects. A list of pages is
  read through a mapping of each of its pages. Freed memory keeps no value: its
  fields are reset, so that a use of them after the free shows
  (`NoUseAfterFree`). `shm_mu` and `shm_cv` behave as `Monitor` says.
* `Storage`. The address of a `struct tee_pobj` is its place in the list. An
  instance has one object or one enumerator open at a time (`Unused`).
  An operation of the file system is one step under `ree_fs_mutex` with three outcomes:
  done; failed, with the directory handle closed; committed although the
  monotonic counter could not be advanced. What is in a file is one bit per entry,
  `there`: the directory leads to a legible version. A write or a truncation, successful
  or not, may take it away (`Spoil`, `Fits`): the file is cut before the directory has
  the new hash, a retried write overwrites the version that the directory still names, and a tree
  that is `behind` (another handle has written the file) may have lost blocks. Which of
  these happens when is in `FsHtree`. An object that turns out corrupt is removed, and
  the handle closed or, with `TA_FLAG_DONT_CLOSE_HANDLE_ON_CORRUPT_OBJECT`, kept; a creation that
  fails in a way that stands for corruption removes the name as well (`create_unmake`).
  `dead` is a failed assertion or an access to a freed or closed directory, after
  which the core is restarted; all six of its causes are reachable (section 6). A lookup that
  fails has closed the tree of the directory, and the next lookup of the same operation reads
  through NULL (`find_on_closed`). The same access through a handle whose tree an error has
  closed, and after a failed `readdir`, is not a step of its own: its effect is that of
  `Reset`. `torn` is a
  history variable: the directory was changed behind the handle, in one of the
  ways of section 6, or the handle was kept on an object that it removed. `pobjs_usage_mutex` only serialises and is left out. A file that
  cannot be removed by RPC is leaked in the normal world, and not modelled;
  neither is clearing an entry with a duplicate file number when the
  directory is opened, which `DirectoryUnique` shows never happens.
* `Threads`. The request of a call is only its RPCs, at most `MaxRpcs` of them. A
  thread has one entry in its shared memory cache. The normal world answers
  every RPC before it resumes the thread, and lends a buffer to one thread at a
  time, but lends none, or one that cannot be used, when it likes. A payload whose number of
  parameters, attribute or size is wrong (`ServeWrong`, at most `MaxAstray` of them) is not
  given back: `get_rpc_alloc_res()` forgets it, and it stays lent to nobody (`Astray`,
  section 6). One that has no `struct mobj` is given back at once. The normal world may resume any
  thread from any core, and after a foreign interrupt with any registers. A call that
  is refused changes nothing and is no step. A buffer is its cookie: whether
  its `struct mobj` is freed is not modelled (section 6). `curr_thread` is
  set with the state under the lock; the code sets it right after, and only its
  own core reads it.

## 4. Runs

"Mutant" below refers to a deliberately wrong form of a definition, kept beside
it in the module, with which the property is violated; `PROJECT.json` names one
for each property.

| Run | Instance | What it shows |
|---|---|---|
| `mutex_safety` | 3 threads, 1 condition variable, readers and writers, notifications may be lost | `TypeOK`; the lock word counts the holders (`StateTellsHolders`); no `panic()` (`NoPanic`); no lost wake-up (`NoMissedWakeup`); an unlock does not wake a condvar waiter that was not signalled (`OnlyPromotedWoken`); the refinement of `Monitor` (`ImplementsMonitor`) |
| `mutex_live` | the same, notifications reliable | a thread that was picked gets its notification (`WakeDelivered`), a free mutex with waiters is taken (`FreeMutexIsTaken`), a blocked thread gets to retry unless readers keep coming (`EveryWaiterRetries`) |
| `ta_shared` | 3 threads, one single-instance multi-session keep-alive TA, 2 sessions, 2 instances, 5 requests | both kinds of reference are counted exactly (`StateExact`: `TypeOK`, `RefCountsExact`), nothing is used after it is freed and no `panic()` is reached (`NoCrash`: `NoUseAfterFree`, `NoCorePanic`), a TA whose mappings were released does not run (`NoRunAfterRelease`), an idle core holds nothing it could free (`NothingLeaks`), a panicked context gets no new session (`NoRevival`); no deadlock |
| `ta_chain` | 2 threads, a multi-instance TA that calls itself and a single-session TA, which calls a pseudo TA; recursion limit 2, 4 requests | who may share an instance (`InstanceRules`), the busy flag and the single-instance lock tell who is in the TA (`BusyExact`), and `NoCrash` for nested calls; no deadlock |
| `ta_live` | 2 threads, a shared TA that may call itself once, 4 requests | `EveryCallReturns` |
| `ta_callback` | the same with deeper recursion | a violation of `NoCorePanic`: see findings |
| `cancellation` | `Second` = 4, seconds and milliseconds up to 6, timeouts around the carries, up to 3 too late, 3 calls | a cancellation that a call without timeout sees was asked for after the call before had ended (`NoSpuriousCancel`), a call is cancelled on time when the milliseconds of its timeout do not carry (`DeadlineOK`: `TypeOK`, `CancelledOnTime`; for the others see section 6), `syscall_wait()` ends neither early (`WaitNotEarly`) nor, but for what the normal world oversleeps one request, late (`WaitNotLate`, if the time fits `mytime`) |
| `htree` | a file of up to 5 blocks of 2 units, positions and lengths in and between blocks, 3 operations, 2 failures of any kind at any step | `CommittedIntact`: at every moment the file opens under the directory's hash with the contents last committed; `OpenFileOK` (`TypeOK`, `HandleReads`): a handle reads what was written through it |
| `htree_truncate` | 4 blocks, no failure | a violation of `UpdatesAtomic`: see findings |
| `reg_shm` | 3 threads, 3 objects, 2 cookies, 2 address ranges | references and mappings are counted exactly (`CountsExact`: `TypeOK`, `RefcountExact`, `MapcountExact`), nothing is used after it is freed (`NoUseAfterFree`), an idle core has no object but the registered ones and those that `cleanup_shm_refs()` skipped, and none is mapped (`NothingLeaks`), a releaser that sleeps has someone to wake it (`SleepersAwaited`), a mapping does not move while it is used (`AddressStable`), the registry is implemented (`ImplementsRegistry`); no deadlock |
| `storage` | 2 instances of a TA, 2 identifiers, 2 file numbers, handles that are exclusive, shared, and shared with overwriting | list and handle counts are exact (`RefsExact`: `TypeOK`, `PobjRefsExact`, `DirhRefsExact`), a name and a file number occur once in the directory (`DirectoryUnique`), an object being created has one user and the sharing flags are kept (`SharingRules`: `CreatorAlone`, `SharingKept`), a handle is on the entry, file and name that it opened, and nobody else has written the file if writing is not shared (`HandleOnObject`; that the file is legible is not part of it), a handle that has a right and shares none is torn only by a rename or a removal of its own (`ExclusiveNotTorn`), every operation changes the store at once or not at all (`ImplementsStore`); no deadlock |
| `threads` | 2 cores, 2 threads, 3 buffers, 2 RPCs a call, 1 payload described wrongly | a thread is on one core (`ThreadOnOneCore`), reads the answers to its own RPCs and nothing else of the normal world's, and a command is where the normal world is told (`RpcsMatch`: `RepliesIntact`, `CommandWhereTold`), every buffer but the wrongly described payload is in one place of one thread or back (`LoansExact`: `TypeOK`, `BuffersExact`), the promise to the driver is kept (`ImplementsLoans`); no deadlock |

`CommittedIntact` excepts the states that `harm` marks, `HandleReads` those marked
`short` or `lost`. TLC finds one of the two violated when any of these marks is
taken out, so each is a weakness of the code, and the run shows that there is no
other within its bounds:

* `cut`: a truncation has cut the file and is not committed yet;
* `stale`: a truncation has taken a child from a node other than the root
  (finding);
* `retry`: an operation works on a tree whose last commit of the directory failed,
  and writes the slots that the directory still names;
* `forgot`: a sync that ended before its first write left a tree that lacks the nodes
  of the committed version that a truncation removed, and a later write extends it
  over their slots;
* `same`: a truncation to the size the object has yields the same root hash, and
  until its header is written `init_head_from_data()` may pair the root with an
  older header;
* `short`: the truncate RPC failed after the nodes were removed from the tree in
  memory;
* `lost`: one of these has happened, and the operation was given up, or committed;
  or the directory was committed, the monotonic counter was not, and
  `ree_fs_create()` removed the file.

Bounds. Three threads are what the mutex needs for a holder, a waiter and a third
thread that comes in between; a second condition variable adds no new
interleaving with the queue, and the proofs hold for any number. In the TA
manager three threads are a closer, a user and an opener. Five requests let a TA
be opened, used, closed, and opened anew. In the file system five blocks are the smallest tree with a node, other than the
root, that has two children, `block_nodes` = 2 puts nodes in more than one
physical block, and two failures are a failed operation and a crash after it.
For shared memory three threads are a user, a second user and a releaser, and two
address ranges can run out. In the storage two instances are enough for every
conflict of sharing flags, and two file numbers for the reuse of a number that
another instance still has; the third flag set is the one that overwrites. For the threads two cores can
race for one thread, two threads compete for the buffers, three buffers are an
argument and a payload for one of them and an argument for the other, and two
RPCs are what an eviction from the cache, or a command within an Ocall, takes.
Threads, sessions and instances are interchangeable in the safety runs and
symmetry is used there; runs with liveness properties have none.
Deadlock is checked in `reg_shm`, `storage` and `threads`, and in the TA runs that look for it, where a state in which all
requests are answered stutters (`AllAnswered`); elsewhere a bound on operations
ends a behaviour, or threads may simply not call.

Fairness. `Mutex`: a thread inside the mutex code goes on (the normal world
resumes every thread that it has suspended), and one that holds the mutex
releases it; nothing is assumed of threads outside. `TaManager`: weak fairness of each
thread's steps, that is, the normal world schedules the thread that has a request
in progress and TAs return. `Cancellation`, `FsHtree`, `RegShm`, `Storage` and `Threads`
have only safety properties, and assume no fairness.

## 5. Proofs

`MutexProofs` proves, for any finite set of threads, any set of condition
variables and either kind of notification, `TypeCorrect`, `MutualExclusion`,
`NeverPanics`, `NoWakeupMissed`, `WakeupsDelivered`, `CondvarWaitersSleep` and
`Refinement` (`Spec => ImplementsMonitor`, the safety part of what a user of the
mutex relies on). The assumptions are those named in `Mutex`: `ThreadsFinite`
(holders are counted), `ModesOK`, `NoCvOK`, `NotifReliableOK`.

All invariants rest on one inductive invariant, `IInv`, the conjunction of the
properties with the facts that make them inductive: `QueueOK` (an element is
queued exactly while its thread is between `wq_wait_init_condvar()` and the
unlinking in `wq_wait_final()`, and once), `ElemOK` (what an element says while
its thread is where), `WakerOK` (what a thread that scans the queue remembers).
Mutual exclusion alone would need only the lock word; that no wake-up is missed
needs the position of every thread relative to the queue, because the lock word
and the queue are protected by different spinlocks and every thread may have
moved in between. `InitIInv` and `IInvStep` are the two halves; `IInvStep` is
put together from one lemma per conjunct, each with one step per action.
`Refinement` maps a thread's place in the code to one of the four places of
`Monitor` and shows, under `IInv`, that an action is a step of `Monitor` or
changes nothing in it (`StepImplementsMonitor`).

`ThreadsProofs` proves `OneCore` (`Spec => []ThreadOnOneCore`) for any sets of cores,
threads and buffers and any `MaxRpcs`. `PlaceStep` lists what a step can do to the
places of the threads: take one, run it, give it back. `NextPlace` shows that every
action is one of these, with the RPCs of a call, however it makes them, falling
under one lemma (`AskGives`). The strengthening is `CoreHasThread`: a core in the normal world has no
thread, without which a call could overwrite the thread of its core. The
assumption is `CoresThreads`.

On top of it, `RepliesToTheirRpc` (`RpcsMatch`), `BuffersAccounted` (`LoansExact`) and
`LoansImplemented` (`ImplementsLoans`) rest on `LoanInv`. Its parts are `ControlOK` (what
is saved in the registers of a thread and which answer the normal world has for it, by
where the thread is), `DataOK` (for each thread: where its argument is and what
`rpc_arg` and `rpc_mobj` then are, what a command said, which buffer an RPC is
about, and that the four places in which a thread may know a buffer name
different ones) and `LentOK` (a buffer is lent to the thread that knows it). That a
buffer is not given back twice cannot be shown from the counts alone: between the
RPC that frees a buffer and the code that forgets it, both sides name it, and only
`asked`, `answer` and the place in the code tell which of them is right.
A step of `call_entry_std()` changes one thread; `Unconcerned` and `OtherCores` are
the frame lemmas, and there is one lemma per stretch between two RPCs
(`EntryStdKeeps` to `ClearedKeeps`). `LoansImplemented` shows that only `Call`, `Exit`,
`Serve`, `Enable` and `Disable` are seen by the driver.

`RegShmProofs` proves, for any finite set of threads and any sets of objects, cookies
and address ranges, `CountsAreExact`, `NeverUsedAfterFree`, `NothingIsLeaked`,
`NoLostWakeUp`, `AddressIsStable` and `RegistryImplemented`. The inductive invariant
`IInv` joins the properties with `Frames` (what a place in the code says of a
request), `PrivateOK` (an object without a cookie has one thread), `KindOK`, `GuardOK`
(`guarded` is off only once registration is over), `ReleasingOK` (one
release at a time, and who may still refer to the object), `ZeroOK` (when the count is
zero, exactly one thread is on its way to free the object or to hand it over to a
sleeper), `RegOK` (cookies and objects match one to one) and `SyncOK` (who holds `shm_mu`,
who sleeps, who will signal). The count of references alone is not inductive: the last
`mobj_put()` decrements outside the list lock, and that the object found with count zero is
still there depends on `guarded`, `releasing` and on whoever comes to free it
(`FreedAlone`). There is one lemma per conjunct, with one step per action. The counts
are cardinalities of sets of threads, and change by one through `CardMore` and `CardLess`.

`CancellationProofs` proves `CancelledForAReason`, `CancelledAtItsTime`, `NoEarlyReturn` and
`NoLateReturn` for any length of a second, any width of the times and any timeouts. The
invariant says that a pending cancellation was asked for in this phase of the session or
in the one before (`AskedFor`), that a sleeper began before now and, if `mytime` does not
wrap, is to wake when its time is over (`AsleepSince`, `AsleepUntil`), and that `cancel_time` is the sum that `set_invoke_timeout()` computes
(`DueAt`). The rest is arithmetic of seconds and milliseconds: `Split`, `Longer`, `Compare`
and `ModuloLess` relate the comparison of pairs to that of times, and `DeadlineSum` shows
that without a carry the pair is the sum.

`StorageProofs` proves every property of the run `storage`, for any finite sets of
instances and identifiers, any set of flags and any number of files:
`ReferencesCounted`, `NamesUnique`, `StoreImplemented`, `HandlesOnObjects`,
`SharingObeyed` and `ExclusiveSafe`. The assumptions are `FlagsOK`, `SizesOK` and
`NoneOK` (the value for "no name" or "no file" is neither). There are two layers.

* `RefInv`: the types, `Frames` (what a place in the code says of the object, the
  enumerator and the second reference of an instance), the two counts, `DirsOpen` and
  `DirectoryUnique`. It is inductive by itself, and the first three theorems follow from
  it. The count of an object is the number of uses (an instance, and which of its two
  references) at a place of the list; `tee_pobj_release()` of the last use removes the
  place and moves those behind it, and the proof carries the set of uses along with that
  shift. A step of the directory is one of a few kinds (an entry is
  added, replaced, removed, renamed, or left alone), and each kind is shown once to keep
  the names unique and to be a step of `ObjectStore`.
* `ListInv`, for the other three. That two handles of one *object* admit
  each other (`HandlesAgree`) needs that the flags kept in the list stand for those of
  every handle (`FlagsAgree`); that two handles of one *name* do, needs that a name is in
  the list once. It is not: a rename that is under way, or was given up, keeps the new
  name in an object of its own. `NamesOK` and `RenamesOK` say that such an object is
  `Reserved`, has no handle, and comes after the one that is being renamed.
  `SameName` joins them: same name, same place, checked against each other. With it a
  step of another instance that changes an entry under a handle of this one had a
  flag that shares it, or marks the handle `torn`. A write, done or failed, leaves names and
  file numbers as they are, whatever it does to the contents (`Wrote`), so that these
  theorems do not depend on which writes spoil a file.

`IInv` is their conjunction with `HandleOnObject`. Proving `ExclusiveNotTorn` showed
that it had been stated too widely: a handle that was opened with no right at all
does not lock its object, since `tee_pobj_check_access()` compares rights only (section
6); its `Exclusive` asks for one right now.

`TaManagerProofs` proves every safety property of the runs `ta_shared` and `ta_chain`, for
any finite sets of threads, sessions and contexts, any TAs with their flags and call graph,
any recursion limit and any number of requests: `ReferencesExact`, `OneInstance`,
`NothingFreedIsUsed`, `OneCallInside`, `NothingRunsReleased`, `NothingLeft`, `NeverRevived`,
`OnlySetBusyPanics` and `NoCrashWithoutCallback`. The assumptions are those named in
`TaManager` (`FlagsOK`, `PseudoOK`, `BoundsOK`, `GraphOK`, `SetsOK`, `NsecOK`, `NoneOK`).

The calls in progress are the elements of all stacks; a place is a thread and a depth, and
`fr[p]` is the call there. `IInv` says of every place:

* which operation may be where in the code and what it has by then (`Shapes`), and how a
  call relates to the one it is nested in (`Nested`, `Over`);
* `SessionInv`: a session belongs to the list that its users name, has at most one opener,
  one closer and one holder of its lock, is known only while nobody opens or closes
  it, and is marked `unlink` only while its closer drains it;
* of the contexts: everything that is referred to is allocated (`LiveOK`); the list has
  exactly the contexts that are not being released, each once (`ListOK`); one that is
  loading has one call and one session (`InitOK`); one that is about to be destroyed has no
  reference and one destroyer, and a context without references has a destroyer unless it is
  kept alive (`DyingOK`); a call that releases one follows its panic (`PanicOK`); `busy` and
  the single-instance lock count who is inside (`InsideOK`, `LockCountOK`);
* a thread sleeps only at the places that sleep, on the condition variable of its own
  session or context (`WaitOK`).

The reference counts alone are not inductive: `tee_ta_close_session()` drops the session
first and the reference of its context two sections later, with `tee_ta_clear_busy()` in
between, so that `ref_count` counts the sessions together with the calls that
are between the two, and that the last of them finds the context still there needs what
every other call may be doing with it. A step changes at most the top of one stack;
`Replaced`, `Returned` and `Pushed` say what that does to the places, the lemmas on moved
places show each conjunct once for a class of changes, and each action has a lemma of its own
(`OpenInitInv` to `EndInv`), put together in `StepInv` and `Inductive`. Taking a context off
the list of contexts, and the first context with a given UUID, are lemmas about sequences.

`OnlySetBusyPanics` says that of all `panic()` calls and assertions in the model only the one in
`tee_ta_set_busy()` can be reached, whatever the TAs call. `NoCrashWithoutCallback` shows that
this one is not reached either under the hypothesis `NoCallback`: no chain of calls comes back
to a TA with one instance for all its sessions (single-instance and multi-session), which is
stated as a ranking of the TAs. The run `ta_callback` (section 6) shows that the hypothesis
cannot be dropped; `ta_shared` and `ta_chain` satisfy it (in `ta_chain` the pseudo TA ranks
below the others). The proof adds `EdgesOK` to the invariant: every call in progress, every
open session and every context that goes away on behalf of another follows the call graph.
When `tee_ta_set_busy()` finds the context busy and does not have to wait, the thread itself
is in that TA further down its stack (`LockCountOK`, or by the counts if the TA takes one
session, `OneSession`); from there up the ranks do not rise (`StackRanks`), and the last
call would have to go down.

TLC has checked each inductive invariant on the instance of its component's run, and
`EdgesOK` also on a call graph with a cycle.

Only model-checked: the liveness properties (those of `mutex_live` and `ta_live`: the prover has no rule for fairness here), and the properties of
`FsHtree`, which compare what a recursive walk over the tree returns before and after a
step, an induction over data that the prover cannot do.

## 6. Findings

* `ta_callback`. A single-instance multi-session TA that opens a session to itself makes the
  core panic: the branch that avoids the deadlock closes the new session, and the
  close makes the busy context busy again.
* `htree_truncate`. `tee_fs_htree_truncate()` does not mark the parent of a
  removed node dirty; a file of four or more blocks that is truncated so that a
  node other than the root loses a child cannot be opened again, and is then
  removed as corrupt.

Noticed on the way, and not a run:

* Cancellation. A request to cancel that is handled after its call has returned is
  pending in the next call of the session, against the comment in `user_ta_enter()`
  (`NoSpuriousCancel` says that this is the only way). A TA that sleeps is not
  woken by a cancellation. `set_invoke_timeout()` adds the carry of
  the milliseconds to the wrong variable, so that such a timeout comes a second
  early.
* Files. A truncation cuts the file before the shorter version is committed. The
  comment in `get_offs_size()` places version 1 of data block 30 at physical block
  63 and node 31 at 64; the code places them the other way round, consistently for
  reading and writing. A handle whose tree an error has freed makes the next
  operation read a length through NULL (`UseClosed`). `out_of_place_write()`
  does not return its temporary block when `copy_from_user()` fails.
* Directory handle. The comment in `put_dirh_primitive()` says that all operations
  but close call `get_dirh()`; enumerators keep the handle they got, and any
  operation that fails closes it under them: the next `readdir` uses a
  freed handle and `closedir` fails an assertion (`dead`). `start_enum` that fails
  leaves `e->fops` set and `e->dir` NULL, which `next_enum` dereferences.
* Torn handles. Overwriting an object that another handle shares, or removing a
  corrupt one, leaves the other handle with a directory index and a file number
  that are gone, or reused: its next write fails the assertion in
  `tee_fs_dirfile_update_hash()` or puts its hash into another object's
  entry. A rename changes the directory first and the list of objects second; an
  enumeration step in between makes the second fail, and the handle goes on under
  the old name. Handles that share writing have hash trees of their own, so that
  updates are lost. A creation that is committed and not confirmed removes the
  file that the directory now names. A creation that fails with an error that stands for
  corruption, in the directory or anywhere else, removes the object that had the name
  (`tee_svc_storage.c:432-435`), and `set_name()` and `ree_fs_rename()` take any
  failure of the lookup for a name that is free. `creating` stays set when a transient object
  becomes the persistent one.
* Locked objects. The comment in `tee_pobj_check_access()` (`tee_pobj.c:60`) says that an
  object opened with no flag set is completely locked; the code lets in whoever asks for
  no right either, to open the object or to overwrite it. `Exclusive` therefore asks for
  a right.
* Shared memory. `cleanup_shm_refs()` (`entry_std.c:258`) compares the whole saved attribute with
  the parameter types; `OPTEE_MSG_ATTR_NONCONTIG` is still set in it, so the object that
  `msg_param_mobj_from_noncontig()` made for such a parameter is never put.
* RPC buffers. `get_rpc_alloc_res()` gives a payload back when it cannot make a `struct mobj`
  of it, but not when its size or attribute is wrong (`thread_optee_smc.c:721-733`). `thread_rpc_ocall2_unprepare()` gives the buffer back to the normal
  world and drops its `struct mobj` without `mobj_put()`; so does `get_rpc_arg()`
  when the buffer has no address.

## 7. Not modelled

Most of the repository is vendored (mbedTLS, LibTomCrypt, libpng, zlib), driver and
platform code, or sequential code that runs to completion in one call:
cryptographic syscalls, loading and linking of TAs, boot, MMU set-up. Its
correctness is about arithmetic, formats and hardware, which a state machine would
leave out. Components that do have states and interleavings of their own, and are
left for later because of the size of the project: asynchronous notifications, the
directory file as a second hash tree, the RPMB file system, the TA database, the
page table cache and the pager, the sessions of the PKCS#11 TA, and FF-A and
virtualization, which are off by default. `PROJECT.json` gives the reason for
each.

## 8. Running

    tlc -config MCMutex.cfg MCMutex
    tlapm MutexProofs.tla

and likewise for the other configurations.
