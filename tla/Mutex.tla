------------------------------- MODULE Mutex -------------------------------
(***************************************************************************)
(* The sleeping read/write mutex of the OP-TEE core and the condition      *)
(* variables attached to it: core/kernel/mutex.c over the wait queue of    *)
(* core/kernel/wait_queue.c.                                               *)
(*                                                                         *)
(* One mutex, the threads of the core that use it, and the condition       *)
(* variables linked to it.  A step is one section of the code that runs    *)
(* under m->spin_lock and/or wq_spin_lock, or one RPC to the normal world. *)
(* Between two steps of a thread any other thread may run.  A local        *)
(* variable that has gone out of scope is back at its initial value.       *)
(***************************************************************************)
EXTENDS Integers, Sequences, FiniteSets

CONSTANTS
    Threads,        \* the core's threads, their ids are the wait handles
    CondVars,       \* the condition variables used with this mutex
    Modes,          \* the kinds of lock the callers take
    NoCv,           \* wqe->cv == NULL
    NoThread,       \* no handle picked yet
    NotifReliable   \* no notification RPC fails in the normal world

ASSUME ThreadsFinite == IsFiniteSet(Threads)
ASSUME ModesOK == Modes \subseteq {"read", "write"}
ASSUME NoCvOK == NoCv \notin CondVars
ASSUME NotifReliableOK == NotifReliable \in BOOLEAN

VARIABLES
    state,      \* m->state: -1 write locked, 0 free, n > 0 readers
    wq,         \* m->wq: the threads whose element is linked, in list order
    wqe,        \* struct wait_queue_elem on each thread's stack
    linked,     \* the condvars whose cv->m is this mutex
    notif,      \* the handles the normal world holds a notification for
    pc,         \* where each thread is
    mode,       \* the kind of lock a thread holds or is acquiring
    wake_read,  \* wake_type_assigned and wake_read of wq_wake_next()
    whom,       \* handle of wq_wake_next()
    ret,        \* where a thread goes after wq_wake_next()
    panicked    \* panic() was called

vars == <<state, wq, wqe, linked, notif, pc, mode, wake_read, whom, ret, panicked>>

\* "lock": top of the loop of __mutex_lock()/__mutex_read_lock();
\* "sleep", "check": in wq_wait_final(), before and after notif_wait();
\* "wake", "notify": in wq_wake_next(), before and after picking an element;
\* "cs": the mutex is held.
Locations == {"idle", "lock", "sleep", "check", "cs", "wake", "notify"}

Elem == [done : BOOLEAN, wait_read : BOOLEAN, cv : CondVars \cup {NoCv}]

TypeOK ==
    /\ state \in Int /\ state >= -1
    /\ wq \in Seq(Threads)
    /\ wqe \in [Threads -> Elem]
    /\ linked \subseteq CondVars
    /\ notif \subseteq Threads
    /\ pc \in [Threads -> Locations]
    /\ mode \in [Threads -> {"read", "write"}]
    /\ wake_read \in [Threads -> {"unset", "read", "write"}]
    /\ whom \in [Threads -> Threads \cup {NoThread}]
    /\ ret \in [Threads -> {"idle", "sleep"}]
    /\ panicked \in BOOLEAN

NoElem == [done |-> FALSE, wait_read |-> FALSE, cv |-> NoCv]

Init ==
    /\ state = 0
    /\ wq = <<>>
    /\ wqe = [t \in Threads |-> NoElem]
    /\ linked = {}
    /\ notif = {}
    /\ pc = [t \in Threads |-> "idle"]
    /\ mode = [t \in Threads |-> "write"]
    /\ wake_read = [t \in Threads |-> "unset"]
    /\ whom = [t \in Threads |-> NoThread]
    /\ ret = [t \in Threads |-> "idle"]
    /\ panicked = FALSE

----------------------------------------------------------------------------
\* The wait queue

\* Mutant: the element goes to the head of the list.
EnqueueAtHead(t, read, cv) ==
    /\ wq' = <<t>> \o wq
    /\ wqe' = [wqe EXCEPT ![t] = [done |-> FALSE, wait_read |-> read, cv |-> cv]]

\* wq_wait_init() and wq_wait_init_condvar(): the element goes to the tail.
Enqueue(t, read, cv) ==
    /\ wq' = Append(wq, t)
    /\ wqe' = [wqe EXCEPT ![t] = [done |-> FALSE, wait_read |-> read, cv |-> cv]]

\* SLIST_REMOVE() of the element at position i.
Unlink(q, i) == [j \in 1 .. Len(q) - 1 |-> IF j < i THEN q[j] ELSE q[j + 1]]

\* Mutant: the check of wqe->cv is missing.
ActiveOnCondvar(t) == ~wqe[t].done

\* An element wq_wake_next() may wake: not on a condvar, not woken already.
Active(t) == wqe[t].cv = NoCv /\ ~wqe[t].done

\* wqe->done = true and wqe->cv = NULL.
Done(e) == [done |-> TRUE, wait_read |-> e.wait_read, cv |-> e.cv]
Promoted(e) == [done |-> e.done, wait_read |-> e.wait_read, cv |-> NoCv]

Kind(read) == IF read THEN "read" ELSE "write"

\* The positions the scan of wq_wake_next() by thread t does not skip.
Wakeable(t) ==
    {i \in 1 .. Len(wq) :
        /\ Active(wq[i])
        /\ wake_read[t] \in {"unset", Kind(wqe[wq[i]].wait_read)}}

\* The positions of the waiters on cv.
WaitersOn(cv) == {i \in 1 .. Len(wq) : wqe[wq[i]].cv = cv}

IsFirst(i, S) == i \in S /\ \A j \in S : i <= j

\* Entering wq_wake_next(), which returns to r.
StartWake(t, r) ==
    /\ pc' = [pc EXCEPT ![t] = "wake"]
    /\ wake_read' = [wake_read EXCEPT ![t] = "unset"]
    /\ ret' = [ret EXCEPT ![t] = r]

\* Leaving it.
EndWake(t) ==
    /\ pc' = [pc EXCEPT ![t] = ret[t]]
    /\ wake_read' = [wake_read EXCEPT ![t] = "unset"]
    /\ whom' = [whom EXCEPT ![t] = NoThread]
    /\ ret' = [ret EXCEPT ![t] = "idle"]

----------------------------------------------------------------------------
\* Taking the mutex

\* Mutant: a reader does not look at the lock word.
CanLockAnyReader(k) == IF k = "write" THEN state = 0 ELSE TRUE

CanLock(k) == IF k = "write" THEN state = 0 ELSE state # -1

Take(k) == state' = IF k = "write" THEN -1 ELSE state + 1

\* A call of mutex_lock() or mutex_read_lock().
MutexLock(t, k) ==
    /\ pc[t] = "idle"
    /\ pc' = [pc EXCEPT ![t] = "lock"]
    /\ mode' = [mode EXCEPT ![t] = k]
    /\ UNCHANGED <<state, wq, wqe, linked, notif, wake_read, whom, ret, panicked>>

\* An iteration of the loop that finds the mutex available.
LockAcquire(t) ==
    /\ pc[t] = "lock"
    /\ CanLock(mode[t])
    /\ Take(mode[t])
    /\ pc' = [pc EXCEPT ![t] = "cs"]
    /\ UNCHANGED <<wq, wqe, linked, notif, mode, wake_read, whom, ret, panicked>>

\* An iteration that does not: the element is queued before m->spin_lock is
\* released.
LockBlock(t) ==
    /\ pc[t] = "lock"
    /\ ~CanLock(mode[t])
    /\ Enqueue(t, mode[t] = "read", NoCv)
    /\ pc' = [pc EXCEPT ![t] = "sleep"]
    /\ UNCHANGED <<state, linked, notif, mode, wake_read, whom, ret, panicked>>

\* mutex_trylock() and mutex_read_trylock() that succeed; a failed one
\* changes nothing.
TryLock(t, k) ==
    /\ pc[t] = "idle"
    /\ CanLock(k)
    /\ Take(k)
    /\ pc' = [pc EXCEPT ![t] = "cs"]
    /\ mode' = [mode EXCEPT ![t] = k]
    /\ UNCHANGED <<wq, wqe, linked, notif, wake_read, whom, ret, panicked>>

----------------------------------------------------------------------------
\* Sleeping: wq_wait_final()

\* notif_wait() returns because a notification for the handle was sent.
WaitNotified(t) ==
    /\ pc[t] = "sleep"
    /\ t \in notif
    /\ notif' = notif \ {t}
    /\ pc' = [pc EXCEPT ![t] = "check"]
    /\ UNCHANGED <<state, wq, wqe, linked, mode, wake_read, whom, ret, panicked>>

\* notif_wait() returns an error, which do_notif() only traces.
WaitFailed(t) ==
    /\ ~NotifReliable
    /\ pc[t] = "sleep"
    /\ pc' = [pc EXCEPT ![t] = "check"]
    /\ UNCHANGED <<state, wq, wqe, linked, notif, mode, wake_read, whom, ret, panicked>>

\* wqe->done decides under wq_spin_lock whether to sleep again.  After a
\* condvar wait as after a blocked lock the thread tries to lock next.
WaitCheck(t) ==
    /\ pc[t] = "check"
    /\ IF wqe[t].done
       THEN /\ \E i \in 1 .. Len(wq) : wq[i] = t /\ wq' = Unlink(wq, i)
            /\ wqe' = [wqe EXCEPT ![t] = NoElem]
            /\ pc' = [pc EXCEPT ![t] = "lock"]
       ELSE /\ pc' = [pc EXCEPT ![t] = "sleep"]
            /\ UNCHANGED <<wq, wqe>>
    /\ UNCHANGED <<state, linked, notif, mode, wake_read, whom, ret, panicked>>

----------------------------------------------------------------------------
\* Releasing the mutex

MutexUnlock(t) ==
    /\ pc[t] = "cs" /\ mode[t] = "write"
    /\ panicked' = (state = 0)
    /\ state' = 0
    /\ StartWake(t, "idle")
    /\ UNCHANGED <<wq, wqe, linked, notif, mode, whom>>

\* Mutant: the last reader does not wake anybody.
MutexReadUnlockNoWake(t) ==
    /\ pc[t] = "cs" /\ mode[t] = "read"
    /\ panicked' = (state <= 0)
    /\ state' = state - 1
    /\ pc' = [pc EXCEPT ![t] = "idle"]
    /\ mode' = [mode EXCEPT ![t] = "write"]
    /\ UNCHANGED <<wq, wqe, linked, notif, whom, wake_read, ret>>

\* Mutant: the first reader to leave frees the mutex.
MutexReadUnlockFrees(t) ==
    /\ pc[t] = "cs" /\ mode[t] = "read"
    /\ panicked' = (state <= 0)
    /\ state' = 0
    /\ StartWake(t, "idle")
    /\ mode' = [mode EXCEPT ![t] = "write"]
    /\ UNCHANGED <<wq, wqe, linked, notif, whom>>

MutexReadUnlock(t) ==
    /\ pc[t] = "cs" /\ mode[t] = "read"
    /\ panicked' = (state <= 0)
    /\ state' = state - 1
    /\ IF state = 1
       THEN StartWake(t, "idle")
       ELSE /\ pc' = [pc EXCEPT ![t] = "idle"]
            /\ UNCHANGED <<wake_read, ret>>
    /\ mode' = [mode EXCEPT ![t] = "write"]
    /\ UNCHANGED <<wq, wqe, linked, notif, whom>>

\* One pass of the loop of wq_wake_next() that marks the first element of
\* the wake type done.
WakePick(t) ==
    /\ pc[t] = "wake"
    /\ \E i \in 1 .. Len(wq) :
          /\ IsFirst(i, Wakeable(t))
          /\ wqe' = [wqe EXCEPT ![wq[i]] = Done(wqe[wq[i]])]
          /\ wake_read' = [wake_read EXCEPT ![t] = Kind(wqe[wq[i]].wait_read)]
          /\ whom' = [whom EXCEPT ![t] = wq[i]]
    /\ pc' = [pc EXCEPT ![t] = "notify"]
    /\ UNCHANGED <<state, wq, linked, notif, mode, ret, panicked>>

\* The pass that finds nothing (more) to wake.
WakeDone(t) ==
    /\ pc[t] = "wake"
    /\ Wakeable(t) = {}
    /\ EndWake(t)
    /\ UNCHANGED <<state, wq, wqe, linked, notif, mode, panicked>>

\* Mutant: only writers are notified.
NotifySendWriter(t) ==
    /\ pc[t] = "notify"
    /\ notif' = IF wake_read[t] = "read" THEN notif ELSE notif \cup {whom[t]}
    /\ IF wake_read[t] = "read"
       THEN /\ pc' = [pc EXCEPT ![t] = "wake"]
            /\ whom' = [whom EXCEPT ![t] = NoThread]
            /\ UNCHANGED <<wake_read, ret>>
       ELSE EndWake(t)
    /\ UNCHANGED <<state, wq, wqe, linked, mode, panicked>>

\* notif_send_sync(): readers are woken in a loop, a writer alone.  An error
\* of the RPC is only traced.
NotifySend(t) ==
    /\ pc[t] = "notify"
    /\ \/ notif' = notif \cup {whom[t]}
       \/ ~NotifReliable /\ notif' = notif
    /\ IF wake_read[t] = "read"
       THEN /\ pc' = [pc EXCEPT ![t] = "wake"]
            /\ whom' = [whom EXCEPT ![t] = NoThread]
            /\ UNCHANGED <<wake_read, ret>>
       ELSE EndWake(t)
    /\ UNCHANGED <<state, wq, wqe, linked, mode, panicked>>

----------------------------------------------------------------------------
\* Condition variables

\* condvar_wait() of thread t on cv: queue as a waiter on cv, leave the lock
\* word at s, scan the queue for a waiter if wake, and take a lock of kind k
\* again later.
DoCondvarWait(t, cv, s, wake, k) ==
    /\ pc[t] = "cs"
    /\ panicked' = (state = 0)
    /\ linked' = linked \cup {cv}
    /\ Enqueue(t, state > 0, cv)
    /\ mode' = [mode EXCEPT ![t] = k]
    /\ state' = s
    /\ IF wake
       THEN StartWake(t, "sleep")
       ELSE /\ pc' = [pc EXCEPT ![t] = "sleep"]
            /\ UNCHANGED <<wake_read, ret>>
    /\ UNCHANGED <<notif, whom>>

\* Mutant: the lock word is decremented whatever its value.
CondvarWaitDecrement(t, cv) ==
    DoCondvarWait(t, cv, state - 1, state <= 1, Kind(state > 0))

\* Mutant: the mutex is freed without waking anybody.
CondvarWaitNoWake(t, cv) ==
    DoCondvarWait(t, cv, IF state > 1 THEN state - 1 ELSE 0, FALSE, Kind(state > 0))

\* Mutant: old_state is not remembered.
CondvarWaitWriter(t, cv) ==
    DoCondvarWait(t, cv, IF state > 1 THEN state - 1 ELSE 0, state <= 1, "write")

\* __condvar_wait() up to wq_wait_final(): one lock of the kind held is given
\* up, and old_state remembers the kind to take again.
CondvarWait(t, cv) ==
    DoCondvarWait(t, cv, IF state > 1 THEN state - 1 ELSE 0, state <= 1, Kind(state > 0))

\* wq_promote_condvar() for the elements at the positions P.
Promote(P) ==
    wqe' = [u \in Threads |->
              IF \E i \in P : wq[i] = u THEN Promoted(wqe[u]) ELSE wqe[u]]

\* condvar_signal(): the first waiter on cv becomes a waiter on the mutex.
\* Every caller in the core holds the mutex.
CondvarSignal(t, cv) ==
    /\ pc[t] = "cs"
    /\ cv \in linked
    /\ \E i \in 1 .. Len(wq) : IsFirst(i, WaitersOn(cv)) /\ Promote({i})
    /\ UNCHANGED <<state, wq, linked, notif, pc, mode, wake_read, whom, ret, panicked>>

\* condvar_broadcast(): all of them do.
CondvarBroadcast(t, cv) ==
    /\ pc[t] = "cs"
    /\ cv \in linked
    /\ Promote(WaitersOn(cv))
    /\ UNCHANGED <<state, wq, linked, notif, pc, mode, wake_read, whom, ret, panicked>>

\* mutex_destroy() of the mutex and condvar_destroy() of its condvars, once
\* the caller has made sure that no thread uses them.
Destroy ==
    /\ \A t \in Threads : pc[t] = "idle"
    /\ panicked' = (\/ state # 0
                    \/ wq # <<>>
                    \/ \E cv \in linked : WaitersOn(cv) # {})
    /\ linked' = {}
    /\ UNCHANGED <<state, wq, wqe, notif, pc, mode, wake_read, whom, ret>>

----------------------------------------------------------------------------

\* What a thread does by itself once it is inside the mutex code.
Inside(t) ==
    \/ LockAcquire(t) \/ LockBlock(t)
    \/ WaitNotified(t) \/ WaitCheck(t)
    \/ WakePick(t) \/ WakeDone(t) \/ NotifySend(t)

Release(t) == MutexUnlock(t) \/ MutexReadUnlock(t)

Step(t) ==
    \/ \E k \in Modes : MutexLock(t, k) \/ TryLock(t, k)
    \/ Inside(t)
    \/ WaitFailed(t)
    \/ Release(t)
    \/ \E cv \in CondVars :
          CondvarWait(t, cv) \/ CondvarSignal(t, cv) \/ CondvarBroadcast(t, cv)

\* panic() stops the core.
Next == ~panicked /\ ((\E t \in Threads : Step(t)) \/ Destroy)

Spec == Init /\ [][Next]_vars

\* Each thread inside the mutex code is eventually scheduled again, and no
\* thread keeps the mutex for ever.
Fairness == \A t \in Threads : WF_vars(~panicked /\ Inside(t)) /\ WF_vars(~panicked /\ Release(t))

FairSpec == Spec /\ Fairness

----------------------------------------------------------------------------
\* Properties

Holders(k) == {t \in Threads : pc[t] = "cs" /\ mode[t] = k}

\* m->state always tells who holds the mutex: -1 exactly one writer and no
\* reader, n >= 0 exactly n readers and no writer.  It must survive every
\* interleaving of lock, unlock, trylock and the two-step release and
\* re-acquisition of condvar_wait(), for which the thread remembers in
\* old_state which kind of lock it gave up.
StateTellsHolders ==
    \/ /\ state = -1
       /\ Holders("read") = {}
       /\ \E w \in Threads : Holders("write") = {w}
    \/ /\ state >= 0
       /\ Holders("write") = {}
       /\ Cardinality(Holders("read")) = state

\* No sequence of correct calls reaches one of the panic() calls of
\* mutex.c; in particular no element stays queued once every thread has
\* left, so mutex_destroy() and condvar_destroy() succeed.
NoPanic == ~panicked

Queued(t) == \E i \in 1 .. Len(wq) : wq[i] = t

\* wq_wait_init() is called before m->spin_lock is released "to guarantee
\* that we don't miss the wakeup from mutex_unlock()": whenever the mutex is
\* free and a thread waits for it, some thread is about to scan the queue
\* from the start, or has been marked done and will retry, or is retrying.
NoMissedWakeup ==
    (state = 0 /\ \E t \in Threads : Queued(t) /\ Active(t)) =>
        \/ \E u \in Threads : pc[u] = "wake" /\ wake_read[u] = "unset"
        \/ \E u \in Threads : Queued(u) /\ wqe[u].done
        \/ \E u \in Threads : pc[u] = "lock"

\* An element marked done by wq_wake_next() belongs to a thread that is
\* awake or has a notification, sent or about to be sent, for its handle:
\* no stale or consumed notification leaves it asleep for ever.
WakeDelivered ==
    NotifReliable =>
        \A t \in Threads :
            (Queued(t) /\ wqe[t].done) =>
                \/ pc[t] = "check"
                \/ t \in notif
                \/ \E u \in Threads : pc[u] = "notify" /\ whom[u] = t

\* A thread sleeping on a condvar is never woken by an unlock of the mutex
\* before a signal has promoted it.
OnlyPromotedWoken == \A t \in Threads : Queued(t) /\ wqe[t].done => wqe[t].cv = NoCv

\* The mutex does not stay free while somebody waits for it.
FreeMutexIsTaken ==
    (state = 0 /\ \E t \in Threads : Queued(t) /\ Active(t)) ~> state # 0

\* The queue is first in, first woken: every thread that blocks is eventually
\* woken and tries again, whatever the others do, unless readers keep coming
\* back (a reader is let in past a waiting writer).
EveryWaiterRetries ==
    \/ []<>(Holders("read") # {})
    \/ \A t \in Threads : (pc[t] = "sleep" /\ Active(t)) ~> pc[t] = "lock"

\* What the mutex looks like to its users.
Place(t) ==
    IF pc[t] = "cs" THEN "in"
    ELSE IF pc[t] = "idle" \/ (pc[t] \in {"wake", "notify"} /\ ret[t] = "idle") THEN "out"
    ELSE IF wqe[t].cv # NoCv THEN "waiting"
    ELSE "entering"

M == INSTANCE Monitor WITH
        place <- [t \in Threads |-> Place(t)],
        kind <- mode,
        on <- [t \in Threads |-> wqe[t].cv]

\* mutex.c implements the monitor its header describes: the two-step release
\* and re-acquisition of condvar_wait(), the scans of wq_wake_next() and the
\* promotion of waiters are never visible, no wakeup is spurious, and a
\* thread leaves condvar_wait() with the kind of lock it had.
ImplementsMonitor == M!Spec
=============================================================================
