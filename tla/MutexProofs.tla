---------------------------- MODULE MutexProofs ----------------------------
(***************************************************************************)
(* Proofs about Mutex, for any number of threads and condition variables.  *)
(***************************************************************************)
EXTENDS Mutex, FiniteSetTheorems, SequenceTheorems, TLAPS

\* Thread t has an element in m->wq.
InQueue(t) ==
    \/ pc[t] \in {"sleep", "check"}
    \/ pc[t] \in {"wake", "notify"} /\ ret[t] = "sleep"

\* An element is in the queue once, and exactly while its thread is between
\* wq_wait_init() and the end of wq_wait_final().
QueueOK ==
    /\ \A i, j \in 1 .. Len(wq) : wq[i] = wq[j] => i = j
    /\ \A t \in Threads : Queued(t) <=> InQueue(t)

ElemOK == \A t \in Threads : ~InQueue(t) => wqe[t] = NoElem

WakerOK == \A t \in Threads : pc[t] = "notify" => whom[t] \in Threads

\* Inductive invariant behind all the theorems of this module.
IInv ==
    /\ TypeOK
    /\ StateTellsHolders
    /\ NoPanic
    /\ QueueOK
    /\ ElemOK
    /\ WakerOK
    /\ OnlyPromotedWoken
    /\ NoMissedWakeup
    /\ WakeDelivered

----------------------------------------------------------------------------
\* The wait queue as a sequence

\* Removing a position of a queue gives a queue without that position.
LEMMA UnlinkSeq ==
    ASSUME NEW q \in Seq(Threads), NEW i \in 1 .. Len(q)
    PROVE  /\ Unlink(q, i) \in Seq(Threads)
           /\ Len(Unlink(q, i)) = Len(q) - 1
           /\ \A j \in 1 .. Len(q) - 1 :
                 Unlink(q, i)[j] = IF j < i THEN q[j] ELSE q[j + 1]
<1>1. Len(q) \in Nat /\ Len(q) - 1 \in Nat
  OBVIOUS
<1>2. \A j \in 1 .. Len(q) - 1 : (IF j < i THEN q[j] ELSE q[j + 1]) \in Threads
  OBVIOUS
<1>3. Unlink(q, i) \in [1 .. Len(q) - 1 -> Threads]
  BY <1>2 DEF Unlink
<1>4. Unlink(q, i) \in Seq(Threads)
  BY <1>1, <1>3, SeqDef
<1>5. Len(Unlink(q, i)) = Len(q) - 1
  BY <1>1, <1>3, <1>4, LenProperties
<1> QED BY <1>4, <1>5 DEF Unlink

----------------------------------------------------------------------------
\* Type correctness

LEMMA InitIInv == Init => IInv
<1> SUFFICES ASSUME Init PROVE IInv
  OBVIOUS
<1>1. TypeOK
  <2>1. wq \in Seq(Threads)
    BY EmptySeq DEF Init
  <2>2. wqe \in [Threads -> Elem]
    BY DEF Init, NoElem, Elem
  <2>3. panicked \in BOOLEAN /\ linked \subseteq CondVars /\ notif \subseteq Threads
    BY DEF Init
  <2>4. /\ state \in Int /\ state >= -1
        /\ pc \in [Threads -> Locations]
        /\ mode \in [Threads -> {"read", "write"}]
        /\ wake_read \in [Threads -> {"unset", "read", "write"}]
        /\ whom \in [Threads -> Threads \cup {NoThread}]
        /\ ret \in [Threads -> {"idle", "sleep"}]
    BY DEF Init, Locations
  <2> QED BY <2>1, <2>2, <2>3, <2>4 DEF TypeOK
<1>2. StateTellsHolders
  <2>1. Holders("write") = {} /\ Holders("read") = {}
    BY DEF Init, Holders
  <2>2. Cardinality(Holders("read")) = 0
    BY <2>1, FS_EmptySet
  <2>3. state = 0
    BY DEF Init
  <2> QED BY <2>1, <2>2, <2>3 DEF StateTellsHolders
<1>3. \A i \in 1 .. Len(wq) : FALSE
  <2>1. wq = <<>>
    BY DEF Init
  <2> QED BY <2>1
<1>4. \A t \in Threads : ~InQueue(t) /\ wqe[t] = NoElem /\ pc[t] = "idle"
  BY DEF Init, InQueue
<1>5. QueueOK
  BY <1>3, <1>4 DEF QueueOK, Queued
<1>6. ElemOK /\ WakerOK
  BY <1>4 DEF ElemOK, WakerOK
<1>7. OnlyPromotedWoken /\ NoMissedWakeup /\ WakeDelivered
  BY <1>3 DEF OnlyPromotedWoken, NoMissedWakeup, WakeDelivered, Queued
<1>8. NoPanic
  BY DEF Init, NoPanic
<1> QED
  BY <1>1, <1>2, <1>5, <1>6, <1>7, <1>8 DEF IInv

LEMMA TypeStep ==
    ASSUME TypeOK, StateTellsHolders, WakerOK, [Next]_vars
    PROVE  TypeOK'
<1> USE DEF TypeOK, Locations
<1>1. ASSUME NEW t \in Threads, NEW k \in Modes, MutexLock(t, k) PROVE TypeOK'
  BY <1>1, ModesOK DEF MutexLock
<1>2. ASSUME NEW t \in Threads, NEW k \in Modes, TryLock(t, k) PROVE TypeOK'
  BY <1>2, ModesOK DEF TryLock, Take, CanLock
<1>3. ASSUME NEW t \in Threads, LockAcquire(t) PROVE TypeOK'
  BY <1>3 DEF LockAcquire, Take, CanLock
<1>4. ASSUME NEW t \in Threads, LockBlock(t) PROVE TypeOK'
  BY <1>4 DEF LockBlock, Enqueue, Elem
<1>5. ASSUME NEW t \in Threads, WaitNotified(t) PROVE TypeOK'
  BY <1>5 DEF WaitNotified
<1>6. ASSUME NEW t \in Threads, WaitCheck(t) PROVE TypeOK'
  <2>1. CASE wqe[t].done
    <3>1. PICK i \in 1 .. Len(wq) : wq' = Unlink(wq, i)
      BY <1>6, <2>1 DEF WaitCheck
    <3>2. wq' \in Seq(Threads)
      BY <3>1, UnlinkSeq
    <3>3. NoElem \in Elem
      BY DEF NoElem, Elem
    <3> QED BY <1>6, <2>1, <3>2, <3>3 DEF WaitCheck
  <2>2. CASE ~wqe[t].done
    BY <1>6, <2>2 DEF WaitCheck
  <2> QED BY <2>1, <2>2
<1>7. ASSUME NEW t \in Threads, WakePick(t) PROVE TypeOK'
  BY <1>7, ElementOfSeq DEF WakePick, Done, Elem, Kind
<1>8. ASSUME NEW t \in Threads, WakeDone(t) PROVE TypeOK'
  BY <1>8 DEF WakeDone, EndWake
<1>9. ASSUME NEW t \in Threads, NotifySend(t) PROVE TypeOK'
  BY <1>9 DEF NotifySend, EndWake, WakerOK
<1>10. ASSUME NEW t \in Threads, WaitFailed(t) PROVE TypeOK'
  BY <1>10 DEF WaitFailed
<1>11. ASSUME NEW t \in Threads, MutexUnlock(t) PROVE TypeOK'
  BY <1>11 DEF MutexUnlock, StartWake
<1>12. ASSUME NEW t \in Threads, MutexReadUnlock(t) PROVE TypeOK'
  BY <1>12 DEF MutexReadUnlock, StartWake, StateTellsHolders, Holders
<1>13. ASSUME NEW t \in Threads, NEW cv \in CondVars, CondvarWait(t, cv) PROVE TypeOK'
  <2>1. state' \in Int /\ state' >= -1
    BY <1>13 DEF CondvarWait, DoCondvarWait
  <2>2. wq' \in Seq(Threads) /\ wqe' \in [Threads -> Elem]
    BY <1>13 DEF CondvarWait, DoCondvarWait, Enqueue, Elem
  <2>3. /\ pc' \in [Threads -> Locations]
        /\ wake_read' \in [Threads -> {"unset", "read", "write"}]
        /\ ret' \in [Threads -> {"idle", "sleep"}]
    BY <1>13 DEF CondvarWait, DoCondvarWait, StartWake
  <2> QED BY <1>13, <2>1, <2>2, <2>3 DEF CondvarWait, DoCondvarWait, Kind
<1>14. ASSUME NEW t \in Threads, NEW cv \in CondVars, CondvarSignal(t, cv) PROVE TypeOK'
  BY <1>14 DEF CondvarSignal, Promote, Promoted, Elem
<1>15. ASSUME NEW t \in Threads, NEW cv \in CondVars, CondvarBroadcast(t, cv) PROVE TypeOK'
  BY <1>15 DEF CondvarBroadcast, Promote, Promoted, Elem
<1>16. CASE Destroy
  BY <1>16 DEF Destroy
<1>17. CASE UNCHANGED vars
  BY <1>17 DEF vars
<1> QED
  BY <1>1, <1>2, <1>3, <1>4, <1>5, <1>6, <1>7, <1>8, <1>9, <1>10, <1>11, <1>12,
     <1>13, <1>14, <1>15, <1>16, <1>17 DEF Next, Step, Inside, Release

----------------------------------------------------------------------------
\* The lock word tells who holds the mutex

\* Nothing but entering or leaving "cs" matters to the lock word.
LEMMA HoldersSame ==
    ASSUME StateTellsHolders, state' = state,
           \A u \in Threads : pc'[u] = "cs" <=> pc[u] = "cs",
           \A u \in Threads : pc[u] = "cs" => mode'[u] = mode[u]
    PROVE  StateTellsHolders'
<1>1. Holders("read")' = Holders("read") /\ Holders("write")' = Holders("write")
  BY DEF Holders
<1> QED BY <1>1 DEF StateTellsHolders

\* A thread that takes the mutex as its lock word allows.
LEMMA HoldersEnter ==
    ASSUME TypeOK, StateTellsHolders, NEW t \in Threads, NEW k \in {"read", "write"},
           CanLock(k), Take(k), pc[t] # "cs", pc'[t] = "cs", mode'[t] = k,
           \A u \in Threads \ {t} : pc'[u] = pc[u] /\ mode'[u] = mode[u]
    PROVE  StateTellsHolders'
<1>1. state >= 0 /\ Holders("write") = {} /\ Cardinality(Holders("read")) = state
  BY DEF StateTellsHolders, CanLock
<1>2. IsFiniteSet(Holders("read"))
  BY ThreadsFinite, FS_Subset DEF Holders
<1>3. CASE k = "write"
  <2>1. state = 0 /\ state' = -1
    BY <1>3 DEF CanLock, Take
  <2>2. Holders("read") = {}
    BY <1>1, <1>2, <2>1, FS_EmptySet
  <2>3. Holders("read")' = {} /\ Holders("write")' = {t}
    BY <1>1, <1>3, <2>2 DEF Holders
  <2> QED BY <2>1, <2>3 DEF StateTellsHolders
<1>4. CASE k = "read"
  <2>1. state' = state + 1
    BY <1>4 DEF Take
  <2>2. Holders("read")' = Holders("read") \cup {t} /\ Holders("write")' = {}
    BY <1>1, <1>4 DEF Holders
  <2>3. t \notin Holders("read")
    BY DEF Holders
  <2>4. Cardinality(Holders("read")') = state + 1
    BY <1>1, <1>2, <2>2, <2>3, FS_AddElement
  <2> QED BY <1>1, <2>1, <2>2, <2>4 DEF StateTellsHolders, TypeOK
<1> QED BY <1>3, <1>4

\* While a thread holds the mutex its lock word is not free.
LEMMA HeldNotFree ==
    ASSUME TypeOK, StateTellsHolders, NEW t \in Threads, pc[t] = "cs"
    PROVE  /\ state # 0
           /\ mode[t] = "write" => state = -1
           /\ mode[t] = "read" => state >= 1
<1>1. IsFiniteSet(Holders("read"))
  BY ThreadsFinite, FS_Subset DEF Holders
<1>2. CASE mode[t] = "write"
  <2>1. t \in Holders("write")
    BY <1>2 DEF Holders
  <2> QED BY <1>2, <2>1 DEF StateTellsHolders
<1>3. CASE mode[t] = "read"
  <2>1. t \in Holders("read")
    BY <1>3 DEF Holders
  <2>2. state >= 0 /\ Cardinality(Holders("read")) = state
    BY <2>1 DEF StateTellsHolders
  <2>3. state # 0
    BY <1>1, <2>1, <2>2, FS_EmptySet
  <2> QED BY <1>3, <2>2, <2>3 DEF TypeOK
<1> QED BY <1>2, <1>3 DEF TypeOK

\* A thread that holds the mutex gives up what it holds.
LEMMA HoldersLeave ==
    ASSUME TypeOK, StateTellsHolders, NEW t \in Threads, pc[t] = "cs", pc'[t] # "cs",
           \A u \in Threads \ {t} : pc'[u] = pc[u] /\ mode'[u] = mode[u],
           state' = IF state > 1 THEN state - 1 ELSE 0
    PROVE  StateTellsHolders'
<1>1. IsFiniteSet(Holders("read"))
  BY ThreadsFinite, FS_Subset DEF Holders
<1>2. CASE mode[t] = "write"
  <2>1. t \in Holders("write")
    BY <1>2 DEF Holders
  <2>2. state = -1 /\ Holders("read") = {} /\ Holders("write") = {t}
    BY <2>1 DEF StateTellsHolders
  <2>3. Holders("read")' = {} /\ Holders("write")' = {}
    BY <2>2 DEF Holders
  <2>4. Cardinality(Holders("read")') = 0
    BY <2>3, FS_EmptySet
  <2> QED BY <2>2, <2>3, <2>4 DEF StateTellsHolders
<1>3. CASE mode[t] = "read"
  <2>1. t \in Holders("read")
    BY <1>3 DEF Holders
  <2>2. state >= 1 /\ Holders("write") = {} /\ Cardinality(Holders("read")) = state
    BY <1>3, <2>1, HeldNotFree DEF StateTellsHolders
  <2>3. Holders("read")' = Holders("read") \ {t} /\ Holders("write")' = {}
    BY <2>2 DEF Holders
  <2>4. Cardinality(Holders("read")') = state - 1
    BY <1>1, <2>1, <2>2, <2>3, FS_RemoveElement
  <2> QED BY <2>2, <2>3, <2>4 DEF StateTellsHolders, TypeOK
<1> QED BY <1>2, <1>3 DEF TypeOK

LEMMA HoldersStep ==
    ASSUME TypeOK, StateTellsHolders, [Next]_vars
    PROVE  StateTellsHolders'
<1> USE DEF TypeOK
<1>1. ASSUME NEW t \in Threads, NEW k \in Modes, MutexLock(t, k) PROVE StateTellsHolders'
  BY <1>1, HoldersSame DEF MutexLock
<1>2. ASSUME NEW t \in Threads, NEW k \in Modes, TryLock(t, k) PROVE StateTellsHolders'
  BY <1>2, HoldersEnter, ModesOK DEF TryLock
<1>3. ASSUME NEW t \in Threads, LockAcquire(t) PROVE StateTellsHolders'
  BY <1>3, HoldersEnter DEF LockAcquire
<1>4. ASSUME NEW t \in Threads, LockBlock(t) PROVE StateTellsHolders'
  BY <1>4, HoldersSame DEF LockBlock
<1>5. ASSUME NEW t \in Threads, WaitNotified(t) \/ WaitFailed(t) PROVE StateTellsHolders'
  BY <1>5, HoldersSame DEF WaitNotified, WaitFailed
<1>6. ASSUME NEW t \in Threads, WaitCheck(t) PROVE StateTellsHolders'
  BY <1>6, HoldersSame DEF WaitCheck
<1>7. ASSUME NEW t \in Threads, WakePick(t) PROVE StateTellsHolders'
  BY <1>7, HoldersSame DEF WakePick
<1>8. ASSUME NEW t \in Threads, WakeDone(t) \/ NotifySend(t) PROVE StateTellsHolders'
  BY <1>8, HoldersSame DEF WakeDone, NotifySend, EndWake
<1>9. ASSUME NEW t \in Threads, MutexUnlock(t) PROVE StateTellsHolders'
  <2>1. state = -1
    BY <1>9, HeldNotFree DEF MutexUnlock
  <2> QED BY <1>9, <2>1, HoldersLeave DEF MutexUnlock, StartWake
<1>10. ASSUME NEW t \in Threads, MutexReadUnlock(t) PROVE StateTellsHolders'
  <2>1. state >= 1
    BY <1>10, HeldNotFree DEF MutexReadUnlock
  <2> QED BY <1>10, <2>1, HoldersLeave DEF MutexReadUnlock, StartWake
<1>11. ASSUME NEW t \in Threads, NEW cv \in CondVars, CondvarWait(t, cv)
       PROVE  StateTellsHolders'
  BY <1>11, HoldersLeave DEF CondvarWait, DoCondvarWait, StartWake
<1>12. ASSUME NEW t \in Threads, NEW cv \in CondVars,
              CondvarSignal(t, cv) \/ CondvarBroadcast(t, cv)
       PROVE  StateTellsHolders'
  BY <1>12, HoldersSame DEF CondvarSignal, CondvarBroadcast
<1>13. CASE Destroy \/ UNCHANGED vars
  BY <1>13, HoldersSame DEF Destroy, vars
<1> QED
  BY <1>1, <1>2, <1>3, <1>4, <1>5, <1>6, <1>7, <1>8, <1>9, <1>10, <1>11, <1>12, <1>13
  DEF Next, Step, Inside, Release

----------------------------------------------------------------------------
\* The elements in the queue

LEMMA QueueSame ==
    ASSUME QueueOK, wq' = wq, \A u \in Threads : InQueue(u)' <=> InQueue(u)
    PROVE  QueueOK'
  BY DEF QueueOK, Queued

LEMMA QueueAdd ==
    ASSUME TypeOK, QueueOK, NEW t \in Threads, wq' = Append(wq, t),
           ~InQueue(t), InQueue(t)',
           \A u \in Threads \ {t} : InQueue(u)' <=> InQueue(u)
    PROVE  QueueOK'
<1>1. /\ Len(wq') = Len(wq) + 1 /\ Len(wq) \in Nat
      /\ \A i \in 1 .. Len(wq) : wq'[i] = wq[i]
      /\ wq'[Len(wq) + 1] = t
  BY DEF TypeOK
<1>2. \A i \in 1 .. Len(wq) : wq[i] # t
  BY DEF QueueOK, Queued
<1>3. \A i, j \in 1 .. Len(wq') : wq'[i] = wq'[j] => i = j
  BY <1>1, <1>2 DEF QueueOK
<1>4. Queued(t)'
  BY <1>1 DEF Queued
<1>5. ASSUME NEW u \in Threads \ {t} PROVE Queued(u)' <=> Queued(u)
  <2>1. ASSUME Queued(u)' PROVE Queued(u)
    BY <1>1, <2>1 DEF Queued
  <2>2. ASSUME Queued(u) PROVE Queued(u)'
    BY <1>1, <2>2 DEF Queued
  <2> QED BY <2>1, <2>2
<1> QED BY <1>3, <1>4, <1>5 DEF QueueOK

LEMMA QueueRemove ==
    ASSUME TypeOK, QueueOK, NEW t \in Threads, NEW p \in 1 .. Len(wq),
           wq[p] = t, wq' = Unlink(wq, p), ~InQueue(t)',
           \A u \in Threads \ {t} : InQueue(u)' <=> InQueue(u)
    PROVE  QueueOK'
<1>1. /\ Len(wq) \in Nat /\ Len(wq') = Len(wq) - 1
      /\ \A j \in 1 .. Len(wq) - 1 : wq'[j] = IF j < p THEN wq[j] ELSE wq[j + 1]
  <2>1. wq \in Seq(Threads)
    BY DEF TypeOK
  <2>2. Len(wq) \in Nat
    BY <2>1, LenProperties
  <2> QED BY <2>1, <2>2, UnlinkSeq
<1>2. \A i, j \in 1 .. Len(wq) : wq[i] = wq[j] => i = j
  BY DEF QueueOK
<1>3. \A i, j \in 1 .. Len(wq') : wq'[i] = wq'[j] => i = j
  <2> SUFFICES ASSUME NEW i \in 1 .. Len(wq'), NEW j \in 1 .. Len(wq'), wq'[i] = wq'[j]
               PROVE  i = j
    OBVIOUS
  <2> DEFINE f(x) == IF x < p THEN x ELSE x + 1
  <2>1. f(i) \in 1 .. Len(wq) /\ f(j) \in 1 .. Len(wq)
    BY <1>1
  <2>2. wq'[i] = wq[f(i)] /\ wq'[j] = wq[f(j)]
    BY <1>1
  <2>3. f(i) = f(j)
    BY <1>2, <2>1, <2>2
  <2> QED BY <1>1, <2>3
<1>4. ~Queued(t)'
  <2> SUFFICES ASSUME NEW i \in 1 .. Len(wq'), wq'[i] = t PROVE FALSE
    BY DEF Queued
  <2> DEFINE f == IF i < p THEN i ELSE i + 1
  <2>1. f \in 1 .. Len(wq) /\ wq[f] = t /\ f # p
    BY <1>1
  <2> QED BY <1>2, <2>1
<1>5. ASSUME NEW u \in Threads \ {t} PROVE Queued(u)' <=> Queued(u)
  <2>1. ASSUME Queued(u)' PROVE Queued(u)
    <3>1. PICK i \in 1 .. Len(wq') : wq'[i] = u
      BY <2>1 DEF Queued
    <3> DEFINE f == IF i < p THEN i ELSE i + 1
    <3>2. f \in 1 .. Len(wq) /\ wq[f] = u
      BY <1>1, <3>1
    <3> QED BY <3>2 DEF Queued
  <2>2. ASSUME Queued(u) PROVE Queued(u)'
    <3>1. PICK i \in 1 .. Len(wq) : wq[i] = u
      BY <2>2 DEF Queued
    <3> DEFINE g == IF i < p THEN i ELSE i - 1
    <3>2. i # p
      BY <3>1
    <3>3. g \in 1 .. Len(wq') /\ wq'[g] = u
      BY <1>1, <3>1, <3>2
    <3> QED BY <3>3 DEF Queued
  <2> QED BY <2>1, <2>2
<1> QED BY <1>3, <1>4, <1>5 DEF QueueOK

LEMMA QueueStep ==
    ASSUME TypeOK, QueueOK, ElemOK, WakerOK, [Next]_vars
    PROVE  QueueOK' /\ ElemOK' /\ WakerOK'
<1> DEFINE Q == QueueOK' /\ ElemOK' /\ WakerOK'
<1> USE DEF TypeOK, InQueue, ElemOK, WakerOK
<1>1. ASSUME NEW t \in Threads, NEW k \in Modes, MutexLock(t, k) \/ TryLock(t, k) PROVE Q
  BY <1>1, QueueSame DEF MutexLock, TryLock
<1>2. ASSUME NEW t \in Threads, LockAcquire(t) PROVE Q
  BY <1>2, QueueSame DEF LockAcquire
<1>3. ASSUME NEW t \in Threads, LockBlock(t) PROVE Q
  BY <1>3, QueueAdd DEF LockBlock, Enqueue
<1>4. ASSUME NEW t \in Threads, WaitNotified(t) \/ WaitFailed(t) PROVE Q
  BY <1>4, QueueSame DEF WaitNotified, WaitFailed
<1>5. ASSUME NEW t \in Threads, WaitCheck(t) PROVE Q
  <2>1. CASE wqe[t].done
    <3>1. PICK p \in 1 .. Len(wq) : wq[p] = t /\ wq' = Unlink(wq, p)
      BY <1>5, <2>1 DEF WaitCheck
    <3>2. ~InQueue(t)' /\ \A u \in Threads \ {t} : InQueue(u)' <=> InQueue(u)
      BY <1>5, <2>1 DEF WaitCheck
    <3>3. QueueOK'
      BY <3>1, <3>2, QueueRemove
    <3> QED BY <1>5, <2>1, <3>3 DEF WaitCheck
  <2>2. CASE ~wqe[t].done
    BY <1>5, <2>2, QueueSame DEF WaitCheck
  <2> QED BY <2>1, <2>2
<1>6. ASSUME NEW t \in Threads, WakePick(t) PROVE Q
  <2>1. PICK p \in 1 .. Len(wq) :
          /\ wqe' = [wqe EXCEPT ![wq[p]] = Done(wqe[wq[p]])]
          /\ whom' = [whom EXCEPT ![t] = wq[p]]
    BY <1>6 DEF WakePick
  <2>2. wq[p] \in Threads /\ InQueue(wq[p])
    BY <2>1, ElementOfSeq DEF QueueOK, Queued
  <2>3. QueueOK'
    BY <1>6, QueueSame DEF WakePick
  <2>4. \A u \in Threads : InQueue(u)' <=> InQueue(u)
    BY <1>6 DEF WakePick
  <2> QED BY <1>6, <2>1, <2>2, <2>3, <2>4 DEF WakePick
<1>7. ASSUME NEW t \in Threads, WakeDone(t) \/ NotifySend(t) PROVE Q
  <2>1. \A u \in Threads : InQueue(u)' <=> InQueue(u)
    BY <1>7 DEF WakeDone, NotifySend, EndWake
  <2>2. QueueOK'
    BY <1>7, <2>1, QueueSame DEF WakeDone, NotifySend
  <2> QED BY <1>7, <2>1, <2>2 DEF WakeDone, NotifySend, EndWake
<1>8. ASSUME NEW t \in Threads, MutexUnlock(t) \/ MutexReadUnlock(t) PROVE Q
  <2>1. \A u \in Threads : InQueue(u)' <=> InQueue(u)
    BY <1>8 DEF MutexUnlock, MutexReadUnlock, StartWake
  <2>2. QueueOK'
    BY <1>8, <2>1, QueueSame DEF MutexUnlock, MutexReadUnlock
  <2> QED BY <1>8, <2>1, <2>2 DEF MutexUnlock, MutexReadUnlock, StartWake
<1>9. ASSUME NEW t \in Threads, NEW cv \in CondVars, CondvarWait(t, cv) PROVE Q
  <2>1. ~InQueue(t) /\ InQueue(t)' /\ \A u \in Threads \ {t} : InQueue(u)' <=> InQueue(u)
    BY <1>9 DEF CondvarWait, DoCondvarWait, StartWake
  <2>2. QueueOK'
    BY <1>9, <2>1, QueueAdd DEF CondvarWait, DoCondvarWait, Enqueue
  <2>3. ElemOK'
    BY <1>9, <2>1 DEF CondvarWait, DoCondvarWait, Enqueue
  <2> QED BY <1>9, <2>2, <2>3 DEF CondvarWait, DoCondvarWait, StartWake
<1>10. ASSUME NEW t \in Threads, NEW cv \in CondVars,
              CondvarSignal(t, cv) \/ CondvarBroadcast(t, cv)
       PROVE  Q
  <2>1. \A u \in Threads : InQueue(u)' <=> InQueue(u)
    BY <1>10 DEF CondvarSignal, CondvarBroadcast
  <2>2. QueueOK'
    BY <1>10, <2>1, QueueSame DEF CondvarSignal, CondvarBroadcast
  <2>3. ASSUME NEW u \in Threads, ~InQueue(u) PROVE wqe'[u] = wqe[u]
    <3>1. \A i \in 1 .. Len(wq) : wq[i] # u
      BY <2>3 DEF QueueOK, Queued
    <3>2. CASE CondvarSignal(t, cv)
      <4>1. PICK p \in 1 .. Len(wq) : Promote({p})
        BY <3>2 DEF CondvarSignal
      <4> QED BY <3>1, <4>1 DEF Promote
    <3>3. CASE CondvarBroadcast(t, cv)
      <4>1. \A i \in WaitersOn(cv) : wq[i] # u
        BY <3>1 DEF WaitersOn
      <4> QED BY <3>3, <4>1 DEF CondvarBroadcast, Promote
    <3> QED BY <1>10, <3>2, <3>3
  <2>4. ElemOK'
    BY <2>1, <2>3
  <2> QED BY <1>10, <2>2, <2>4 DEF CondvarSignal, CondvarBroadcast
<1>11. CASE Destroy \/ UNCHANGED vars
  BY <1>11, QueueSame DEF Destroy, vars
<1> QED
  BY <1>1, <1>2, <1>3, <1>4, <1>5, <1>6, <1>7, <1>8, <1>9, <1>10, <1>11
  DEF Next, Step, Inside, Release

----------------------------------------------------------------------------
\* No panic

LEMMA NoPanicStep ==
    ASSUME TypeOK, StateTellsHolders, QueueOK, NoPanic, [Next]_vars
    PROVE  NoPanic'
<1>1. ASSUME NEW t \in Threads, MutexUnlock(t) PROVE NoPanic'
  BY <1>1, HeldNotFree DEF MutexUnlock, NoPanic
<1>2. ASSUME NEW t \in Threads, MutexReadUnlock(t) PROVE NoPanic'
  <2>1. state >= 1
    BY <1>2, HeldNotFree DEF MutexReadUnlock
  <2>2. ~(state <= 0)
    BY <2>1 DEF TypeOK
  <2> QED BY <1>2, <2>2 DEF MutexReadUnlock, NoPanic
<1>3. ASSUME NEW t \in Threads, NEW cv \in CondVars, CondvarWait(t, cv) PROVE NoPanic'
  BY <1>3, HeldNotFree DEF CondvarWait, DoCondvarWait, NoPanic
<1>4. CASE Destroy
  <2>1. \A t \in Threads : pc[t] = "idle"
    BY <1>4 DEF Destroy
  <2>2. Holders("read") = {} /\ Holders("write") = {}
    BY <2>1 DEF Holders
  <2>3. state = 0
    <3>1. Cardinality(Holders("read")) = 0
      BY <2>2, FS_EmptySet
    <3> QED BY <2>2, <3>1 DEF StateTellsHolders
  <2>4. \A i \in 1 .. Len(wq) : FALSE
    BY <2>1 DEF QueueOK, Queued, InQueue, TypeOK
  <2>5. wq = <<>>
    BY <2>4, EmptySeq DEF TypeOK
  <2>6. \A cv \in linked : WaitersOn(cv) = {}
    BY <2>4 DEF WaitersOn
  <2> QED BY <1>4, <2>3, <2>5, <2>6 DEF Destroy, NoPanic
<1>5. CASE UNCHANGED panicked
  BY <1>5 DEF NoPanic
<1>6. \/ UNCHANGED panicked
      \/ \E t \in Threads : MutexUnlock(t) \/ MutexReadUnlock(t)
      \/ \E t \in Threads, cv \in CondVars : CondvarWait(t, cv)
      \/ Destroy
  BY DEF Next, Step, Inside, Release, vars, MutexLock, TryLock, LockAcquire, LockBlock,
     WaitNotified, WaitFailed, WaitCheck, WakePick, WakeDone, NotifySend,
     CondvarSignal, CondvarBroadcast
<1> QED BY <1>1, <1>2, <1>3, <1>4, <1>5, <1>6

----------------------------------------------------------------------------
\* Wakeups

LEMMA PromotedStep ==
    ASSUME TypeOK, QueueOK, ElemOK, OnlyPromotedWoken, [Next]_vars
    PROVE  \A t \in Threads : wqe'[t].done => wqe'[t].cv = NoCv
<1> DEFINE P == \A t \in Threads : wqe[t].done => wqe[t].cv = NoCv
<1>1. P
  <2> SUFFICES ASSUME NEW t \in Threads, wqe[t].done PROVE wqe[t].cv = NoCv
    OBVIOUS
  <2> QED BY DEF OnlyPromotedWoken, QueueOK, ElemOK, NoElem
<1>2. ASSUME NEW t \in Threads, NEW r, NEW cv, Enqueue(t, r, cv) PROVE P'
  BY <1>1, <1>2 DEF Enqueue, TypeOK, Elem
<1>3. ASSUME NEW t \in Threads, WaitCheck(t) PROVE P'
  BY <1>1, <1>3 DEF WaitCheck, NoElem, TypeOK, Elem
<1>4. ASSUME NEW t \in Threads, WakePick(t) PROVE P'
  <2>1. PICK p \in 1 .. Len(wq) :
          p \in Wakeable(t) /\ wqe' = [wqe EXCEPT ![wq[p]] = Done(wqe[wq[p]])]
    BY <1>4 DEF WakePick, IsFirst
  <2>2. wqe[wq[p]].cv = NoCv /\ wq[p] \in Threads
    BY <2>1, ElementOfSeq DEF Wakeable, Active, TypeOK
  <2> QED BY <1>1, <2>1, <2>2 DEF Done, TypeOK, Elem
<1>5. ASSUME NEW S, Promote(S) PROVE P'
  BY <1>1, <1>5 DEF Promote, Promoted
<1>6. CASE UNCHANGED wqe
  BY <1>1, <1>6
<1>7. \/ UNCHANGED wqe
      \/ \E t \in Threads : WaitCheck(t) \/ WakePick(t)
      \/ \E t \in Threads : \E r, cv : Enqueue(t, r, cv)
      \/ \E S : Promote(S)
  BY DEF Next, Step, Inside, Release, vars, MutexLock, TryLock, LockAcquire, LockBlock,
     WaitNotified, WaitFailed, WakeDone, NotifySend, MutexUnlock, MutexReadUnlock,
     CondvarWait, DoCondvarWait, CondvarSignal, CondvarBroadcast, Destroy
<1> QED BY <1>2, <1>3, <1>4, <1>5, <1>6, <1>7

\* Only steps that leave the mutex free can endanger a waiter.
LEMMA MissedWakeupStep ==
    ASSUME TypeOK, StateTellsHolders, QueueOK, NoMissedWakeup, [Next]_vars
    PROVE  NoMissedWakeup'
<1> DEFINE Awake == \/ \E u \in Threads : pc[u] = "wake" /\ wake_read[u] = "unset"
                    \/ \E u \in Threads : Queued(u) /\ wqe[u].done
                    \/ \E u \in Threads : pc[u] = "lock"
<1> DEFINE Someone == \E u \in Threads : Queued(u) /\ Active(u)
<1> SUFFICES ASSUME state' = 0, Someone' PROVE Awake'
  BY DEF NoMissedWakeup
<1>0. ASSUME state = 0, Someone PROVE Awake
  BY <1>0 DEF NoMissedWakeup
<1> HIDE DEF Awake
<1> USE DEF TypeOK
<1>1. ASSUME NEW t \in Threads, NEW k \in Modes, MutexLock(t, k) PROVE Awake'
  BY <1>1 DEF MutexLock, Awake
<1>2. ASSUME NEW t \in Threads, NEW k \in Modes, TryLock(t, k) PROVE FALSE
  BY <1>2 DEF TryLock, CanLock, Take
<1>3. ASSUME NEW t \in Threads, LockAcquire(t) PROVE FALSE
  BY <1>3 DEF LockAcquire, CanLock, Take
<1>4. ASSUME NEW t \in Threads, LockBlock(t) PROVE FALSE
  BY <1>4 DEF LockBlock, CanLock
<1>5. ASSUME NEW t \in Threads, WaitNotified(t) \/ WaitFailed(t) PROVE Awake'
  <2>1. Awake
    BY <1>0, <1>5 DEF WaitNotified, WaitFailed, Queued, Active
  <2> QED BY <1>5, <2>1 DEF WaitNotified, WaitFailed, Awake, Queued
<1>6. ASSUME NEW t \in Threads, WaitCheck(t) PROVE Awake'
  <2>1. CASE wqe[t].done
    BY <1>6, <2>1 DEF WaitCheck, Awake
  <2>2. CASE ~wqe[t].done
    <3>1. Awake
      BY <1>0, <1>6, <2>2 DEF WaitCheck, Queued, Active
    <3> QED BY <1>6, <2>2, <3>1 DEF WaitCheck, Awake, Queued
  <2> QED BY <2>1, <2>2
<1>7. ASSUME NEW t \in Threads, MutexUnlock(t) PROVE Awake'
  BY <1>7 DEF MutexUnlock, StartWake, Awake
<1>8. ASSUME NEW t \in Threads, MutexReadUnlock(t) PROVE Awake'
  <2>1. state = 1
    BY <1>8 DEF MutexReadUnlock
  <2> QED BY <1>8, <2>1 DEF MutexReadUnlock, StartWake, Awake
<1>9. ASSUME NEW t \in Threads, WakePick(t) PROVE Awake'
  <2>1. PICK p \in 1 .. Len(wq) : wqe' = [wqe EXCEPT ![wq[p]] = Done(wqe[wq[p]])]
    BY <1>9 DEF WakePick
  <2>2. PICK x \in Threads : x = wq[p]
    BY ElementOfSeq
  <2>3. wqe'[x].done
    BY <2>1, <2>2 DEF Done
  <2>4. Queued(x)'
    BY <1>9, <2>2 DEF WakePick, Queued
  <2> QED BY <2>3, <2>4 DEF Awake
<1>10. ASSUME NEW t \in Threads, WakeDone(t) PROVE Awake'
  <2>1. state = 0 /\ Someone
    BY <1>10 DEF WakeDone, Queued, Active
  <2>2. wake_read[t] # "unset"
    <3>1. PICK i \in 1 .. Len(wq) : Active(wq[i])
      BY <2>1 DEF Queued
    <3> QED BY <1>10, <3>1 DEF WakeDone, Wakeable
  <2>3. Awake
    BY <1>0, <2>1
  <2>4. ASSUME NEW u \in Threads, pc[u] = "wake" \/ pc[u] = "lock",
               pc[u] = "wake" => wake_read[u] = "unset"
        PROVE  pc'[u] = pc[u] /\ wake_read'[u] = wake_read[u]
    BY <1>10, <2>2, <2>4 DEF WakeDone, EndWake
  <2>5. \A u \in Threads : wqe'[u] = wqe[u] /\ (Queued(u)' <=> Queued(u))
    BY <1>10 DEF WakeDone, Queued
  <2> QED BY <2>3, <2>4, <2>5 DEF Awake
<1>11. ASSUME NEW t \in Threads, NotifySend(t) PROVE Awake'
  <2>1. Awake
    BY <1>0, <1>11 DEF NotifySend, Queued, Active
  <2> QED BY <1>11, <2>1 DEF NotifySend, EndWake, Awake, Queued
<1>12. ASSUME NEW t \in Threads, NEW cv \in CondVars, CondvarWait(t, cv) PROVE Awake'
  <2>1. state <= 1
    BY <1>12 DEF CondvarWait, DoCondvarWait
  <2> QED BY <1>12, <2>1 DEF CondvarWait, DoCondvarWait, StartWake, Awake
<1>13. ASSUME NEW t \in Threads, NEW cv \in CondVars,
              CondvarSignal(t, cv) \/ CondvarBroadcast(t, cv)
       PROVE  FALSE
  BY <1>13, HeldNotFree DEF CondvarSignal, CondvarBroadcast
<1>14. CASE Destroy \/ UNCHANGED vars
  <2>1. Awake
    BY <1>0, <1>14 DEF Destroy, vars, Queued, Active
  <2> QED BY <1>14, <2>1 DEF Destroy, vars, Awake, Queued
<1> QED
  BY <1>1, <1>2, <1>3, <1>4, <1>5, <1>6, <1>7, <1>8, <1>9, <1>10, <1>11, <1>12,
     <1>13, <1>14 DEF Next, Step, Inside, Release

LEMMA DeliveredStep ==
    ASSUME TypeOK, QueueOK, ElemOK, WakerOK, WakeDelivered, NotifReliable, [Next]_vars
    PROVE  WakeDelivered'
<1> DEFINE Reached(t) == \/ pc[t] = "check"
                         \/ t \in notif
                         \/ \E u \in Threads : pc[u] = "notify" /\ whom[u] = t
<1> SUFFICES ASSUME NEW x \in Threads, Queued(x)', wqe'[x].done PROVE Reached(x)'
  BY DEF WakeDelivered
<1>0. ASSUME Queued(x), wqe[x].done PROVE Reached(x)
  BY <1>0 DEF WakeDelivered
<1> HIDE DEF Reached
<1> USE DEF TypeOK
<1>1. ASSUME NEW t \in Threads, NEW k \in Modes, MutexLock(t, k) \/ TryLock(t, k)
      PROVE  Reached(x)'
  BY <1>0, <1>1 DEF MutexLock, TryLock, Reached, Queued
<1>2. ASSUME NEW t \in Threads, LockAcquire(t) PROVE Reached(x)'
  BY <1>0, <1>2 DEF LockAcquire, Reached, Queued
<1>3. ASSUME NEW t \in Threads, LockBlock(t) PROVE Reached(x)'
  <2>1. x # t
    BY <1>3 DEF LockBlock, Enqueue
  <2>2. Queued(x) /\ wqe[x].done
    BY <1>3, <2>1 DEF LockBlock, Enqueue, Queued
  <2> QED BY <1>0, <1>3, <2>2 DEF LockBlock, Reached
<1>4. ASSUME NEW t \in Threads, WaitNotified(t) PROVE Reached(x)'
  BY <1>0, <1>4 DEF WaitNotified, Reached, Queued
<1>5. ASSUME NEW t \in Threads, WaitCheck(t) PROVE Reached(x)'
  <2>1. CASE wqe[t].done
    <3>1. x # t
      BY <1>5, <2>1 DEF WaitCheck, NoElem
    <3>2. PICK p \in 1 .. Len(wq) : wq[p] = t /\ wq' = Unlink(wq, p)
      BY <1>5, <2>1 DEF WaitCheck
    <3>3. PICK i \in 1 .. Len(wq') : wq'[i] = x
      BY DEF Queued
    <3>4. /\ Len(wq) \in Nat /\ Len(wq') = Len(wq) - 1
          /\ \A j \in 1 .. Len(wq) - 1 : wq'[j] = IF j < p THEN wq[j] ELSE wq[j + 1]
      <4>1. wq \in Seq(Threads) /\ Len(wq) \in Nat
        BY LenProperties
      <4> QED BY <3>2, <4>1, UnlinkSeq
    <3> DEFINE f == IF i < p THEN i ELSE i + 1
    <3>5. f \in 1 .. Len(wq) /\ wq[f] = x
      BY <3>3, <3>4
    <3>6. Queued(x) /\ wqe[x].done
      BY <1>5, <2>1, <3>1, <3>5 DEF WaitCheck, Queued
    <3> QED BY <1>0, <1>5, <2>1, <3>1, <3>6 DEF WaitCheck, Reached
  <2>2. CASE ~wqe[t].done
    BY <1>0, <1>5, <2>2 DEF WaitCheck, Reached, Queued
  <2> QED BY <2>1, <2>2
<1>6. ASSUME NEW t \in Threads, WakePick(t) PROVE Reached(x)'
  <2>1. PICK p \in 1 .. Len(wq) :
          /\ wqe' = [wqe EXCEPT ![wq[p]] = Done(wqe[wq[p]])]
          /\ whom' = [whom EXCEPT ![t] = wq[p]]
    BY <1>6 DEF WakePick
  <2>2. CASE x = wq[p]
    BY <1>6, <2>1, <2>2 DEF WakePick, Reached
  <2>3. CASE x # wq[p]
    <3>1. Queued(x) /\ wqe[x].done
      BY <1>6, <2>1, <2>3 DEF WakePick, Queued
    <3> QED BY <1>0, <1>6, <2>1, <3>1 DEF WakePick, Reached
  <2> QED BY <2>2, <2>3
<1>7. ASSUME NEW t \in Threads, WakeDone(t) PROVE Reached(x)'
  BY <1>0, <1>7 DEF WakeDone, EndWake, Reached, Queued
<1>8. ASSUME NEW t \in Threads, NotifySend(t) PROVE Reached(x)'
  <2>1. Queued(x) /\ wqe[x].done
    BY <1>8 DEF NotifySend, Queued
  <2>2. notif' = notif \cup {whom[t]}
    BY <1>8 DEF NotifySend
  <2> QED BY <1>0, <1>8, <2>1, <2>2 DEF NotifySend, EndWake, Reached
<1>9. ASSUME NEW t \in Threads, MutexUnlock(t) \/ MutexReadUnlock(t) PROVE Reached(x)'
  BY <1>0, <1>9 DEF MutexUnlock, MutexReadUnlock, StartWake, Reached, Queued
<1>10. ASSUME NEW t \in Threads, NEW cv \in CondVars, CondvarWait(t, cv) PROVE Reached(x)'
  <2>1. x # t
    BY <1>10 DEF CondvarWait, DoCondvarWait, Enqueue
  <2>2. Queued(x) /\ wqe[x].done
    BY <1>10, <2>1 DEF CondvarWait, DoCondvarWait, Enqueue, Queued
  <2> QED BY <1>0, <1>10, <2>1, <2>2 DEF CondvarWait, DoCondvarWait, StartWake, Reached
<1>11. ASSUME NEW t \in Threads, NEW cv \in CondVars,
              CondvarSignal(t, cv) \/ CondvarBroadcast(t, cv)
       PROVE  Reached(x)'
  <2>1. wqe[x].done
    BY <1>11 DEF CondvarSignal, CondvarBroadcast, Promote, Promoted
  <2> QED BY <1>0, <1>11, <2>1 DEF CondvarSignal, CondvarBroadcast, Reached, Queued
<1>12. CASE Destroy \/ UNCHANGED vars
  BY <1>0, <1>12 DEF Destroy, vars, Reached, Queued
<1> QED
  BY <1>1, <1>2, <1>3, <1>4, <1>5, <1>6, <1>7, <1>8, <1>9, <1>10, <1>11, <1>12
  DEF Next, Step, Inside, Release, WaitFailed

----------------------------------------------------------------------------
\* The theorems

LEMMA IInvStep == IInv /\ [Next]_vars => IInv'
<1> SUFFICES ASSUME IInv, [Next]_vars PROVE IInv'
  OBVIOUS
<1> USE DEF IInv
<1>1. TypeOK' /\ StateTellsHolders' /\ NoPanic'
  BY TypeStep, HoldersStep, NoPanicStep
<1>2. QueueOK' /\ ElemOK' /\ WakerOK'
  BY QueueStep
<1>3. OnlyPromotedWoken'
  BY PromotedStep DEF OnlyPromotedWoken
<1>4. NoMissedWakeup'
  BY MissedWakeupStep
<1>5. WakeDelivered'
  <2>1. CASE NotifReliable
    BY <2>1, DeliveredStep
  <2>2. CASE ~NotifReliable
    BY <2>2 DEF WakeDelivered
  <2> QED BY <2>1, <2>2
<1> QED BY <1>1, <1>2, <1>3, <1>4, <1>5

\* IInv is an invariant of the specification.
THEOREM Invariance == Spec => []IInv
  BY InitIInv, IInvStep, PTL DEF Spec

\* The variables of mutex.c and wait_queue.c keep their types; m->state is
\* never below -1.
THEOREM TypeCorrect == Spec => []TypeOK
<1>1. IInv => TypeOK
  BY DEF IInv
<1> QED BY <1>1, Invariance, PTL

\* Mutual exclusion: the lock word m->state tells exactly which threads hold
\* the mutex and how.
THEOREM MutualExclusion == Spec => []StateTellsHolders
<1>1. IInv => StateTellsHolders
  BY DEF IInv
<1> QED BY <1>1, Invariance, PTL

\* No panic() of mutex.c is reached, mutex_destroy() included.
THEOREM NeverPanics == Spec => []NoPanic
<1>1. IInv => NoPanic
  BY DEF IInv
<1> QED BY <1>1, Invariance, PTL

\* No unlock forgets a waiter.
THEOREM NoWakeupMissed == Spec => []NoMissedWakeup
<1>1. IInv => NoMissedWakeup
  BY DEF IInv
<1> QED BY <1>1, Invariance, PTL

\* If the notification RPCs do not fail, whom wq_wake_next() marks wakes up.
THEOREM WakeupsDelivered == Spec => []WakeDelivered
<1>1. IInv => WakeDelivered
  BY DEF IInv
<1> QED BY <1>1, Invariance, PTL

\* wq_wake_next() wakes nobody who still waits for a signal.
THEOREM CondvarWaitersSleep == Spec => []OnlyPromotedWoken
<1>1. IInv => OnlyPromotedWoken
  BY DEF IInv
<1> QED BY <1>1, Invariance, PTL

----------------------------------------------------------------------------
\* mutex.c implements the monitor

\* What a thread outside the mutex may take is what the monitor lets in.
LEMMA CanLockCompatible ==
    ASSUME TypeOK, StateTellsHolders, NEW k \in {"read", "write"}, CanLock(k)
    PROVE  M!Compatible(k)
<1> SUFFICES ASSUME NEW u \in Threads, Place(u) = "in" PROVE k = "read" /\ mode[u] = "read"
  BY DEF M!Compatible
<1>1. pc[u] = "cs"
  BY DEF Place
<1> QED BY <1>1, HeldNotFree DEF CanLock, TypeOK

LEMMA StepImplementsMonitor ==
    ASSUME IInv, [Next]_vars
    PROVE  [M!Next]_(M!vars)
<1> DEFINE Stutter == \A u \in Threads :
                         Place(u)' = Place(u) /\ mode'[u] = mode[u] /\ wqe'[u].cv = wqe[u].cv
<1>0. ASSUME Stutter, mode' = mode PROVE UNCHANGED M!vars
  BY <1>0 DEF M!vars
<1> USE DEF IInv, TypeOK
<1>1. ASSUME NEW t \in Threads, NEW k \in Modes, MutexLock(t, k) PROVE M!Call(t, k)
  <2>1. \A u \in Threads : Place(u)' = IF u = t THEN "entering" ELSE Place(u)
    BY <1>1 DEF MutexLock, Place, ElemOK, InQueue, NoElem
  <2>2. Place(t) = "out"
    BY <1>1 DEF MutexLock, Place
  <2> QED BY <1>1, <2>1, <2>2 DEF MutexLock, M!Call
<1>2. ASSUME NEW t \in Threads, NEW k \in Modes, TryLock(t, k) PROVE M!TryEnter(t, k)
  <2>1. \A u \in Threads : Place(u)' = IF u = t THEN "in" ELSE Place(u)
    BY <1>2 DEF TryLock, Place
  <2>2. Place(t) = "out"
    BY <1>2 DEF TryLock, Place
  <2>3. M!Compatible(k)
    BY <1>2, ModesOK, CanLockCompatible DEF TryLock
  <2> QED BY <1>2, <2>1, <2>2, <2>3 DEF TryLock, M!TryEnter
<1>3. ASSUME NEW t \in Threads, LockAcquire(t) PROVE M!Enter(t)
  <2>1. \A u \in Threads : Place(u)' = IF u = t THEN "in" ELSE Place(u)
    BY <1>3 DEF LockAcquire, Place
  <2>2. Place(t) = "entering"
    BY <1>3 DEF LockAcquire, Place, ElemOK, InQueue, NoElem
  <2>3. M!Compatible(mode[t])
    BY <1>3, CanLockCompatible DEF LockAcquire
  <2> QED BY <1>3, <2>1, <2>2, <2>3 DEF LockAcquire, M!Enter
<1>4. ASSUME NEW t \in Threads, LockBlock(t) PROVE UNCHANGED M!vars
  <2>1. wqe[t].cv = NoCv
    <3>1. ~InQueue(t)
      BY <1>4 DEF LockBlock, InQueue
    <3> QED BY <3>1 DEF ElemOK, NoElem
  <2>2. \A u \in Threads : wqe'[u].cv = wqe[u].cv
    BY <1>4, <2>1 DEF LockBlock, Enqueue
  <2> QED BY <1>0, <1>4, <2>1, <2>2 DEF LockBlock, Place
<1>5. ASSUME NEW t \in Threads, WaitNotified(t) \/ WaitFailed(t) PROVE UNCHANGED M!vars
  BY <1>0, <1>5 DEF WaitNotified, WaitFailed, Place
<1>6. ASSUME NEW t \in Threads, WaitCheck(t) PROVE UNCHANGED M!vars
  <2>1. CASE wqe[t].done
    <3>1. wqe[t].cv = NoCv
      BY <1>6, <2>1 DEF WaitCheck, OnlyPromotedWoken, QueueOK, InQueue
    <3>2. \A u \in Threads : wqe'[u].cv = wqe[u].cv
      BY <1>6, <2>1, <3>1 DEF WaitCheck, NoElem
    <3> QED BY <1>0, <1>6, <2>1, <3>1, <3>2 DEF WaitCheck, Place
  <2>2. CASE ~wqe[t].done
    BY <1>0, <1>6, <2>2 DEF WaitCheck, Place
  <2> QED BY <2>1, <2>2
<1>7. ASSUME NEW t \in Threads, MutexUnlock(t) \/ MutexReadUnlock(t) PROVE M!Leave(t)
  <2>1. \A u \in Threads : Place(u)' = IF u = t THEN "out" ELSE Place(u)
    BY <1>7 DEF MutexUnlock, MutexReadUnlock, StartWake, Place
  <2>2. Place(t) = "in"
    BY <1>7 DEF MutexUnlock, MutexReadUnlock, Place
  <2>3. mode' = [mode EXCEPT ![t] = "write"] /\ wqe' = wqe
    BY <1>7 DEF MutexUnlock, MutexReadUnlock
  <2> QED BY <2>1, <2>2, <2>3 DEF M!Leave
<1>8. ASSUME NEW t \in Threads, WakePick(t) PROVE UNCHANGED M!vars
  <2>1. PICK p \in 1 .. Len(wq) : wqe' = [wqe EXCEPT ![wq[p]] = Done(wqe[wq[p]])]
    BY <1>8 DEF WakePick
  <2>2. \A u \in Threads : wqe'[u].cv = wqe[u].cv
    BY <2>1 DEF Done
  <2> QED BY <1>0, <1>8, <2>2 DEF WakePick, Place
<1>9. ASSUME NEW t \in Threads, WakeDone(t) \/ NotifySend(t) PROVE UNCHANGED M!vars
  <2>1. mode' = mode /\ wqe' = wqe
    BY <1>9 DEF WakeDone, NotifySend
  <2>2. \A u \in Threads : Place(u)' = Place(u)
    BY <1>9, <2>1 DEF WakeDone, NotifySend, EndWake, Place
  <2> QED BY <1>0, <2>1, <2>2
<1>10. ASSUME NEW t \in Threads, NEW cv \in CondVars, CondvarWait(t, cv) PROVE M!Wait(t, cv)
  <2>1. Kind(state > 0) = mode[t]
    BY <1>10, HeldNotFree DEF CondvarWait, DoCondvarWait, Kind
  <2>2. \A u \in Threads : wqe'[u].cv = IF u = t THEN cv ELSE wqe[u].cv
    BY <1>10 DEF CondvarWait, DoCondvarWait, Enqueue
  <2>3. \A u \in Threads : Place(u)' = IF u = t THEN "waiting" ELSE Place(u)
    BY <1>10, <2>2, NoCvOK DEF CondvarWait, DoCondvarWait, StartWake, Place
  <2>4. Place(t) = "in"
    BY <1>10 DEF CondvarWait, DoCondvarWait, Place
  <2>5. mode' = mode
    BY <1>10, <2>1 DEF CondvarWait, DoCondvarWait
  <2> QED BY <2>2, <2>3, <2>4, <2>5 DEF M!Wait
<1>11. ASSUME NEW t \in Threads, NEW cv \in CondVars, CondvarSignal(t, cv)
       PROVE  M!Signal(t, cv)
  <2>1. PICK p \in 1 .. Len(wq) : p \in WaitersOn(cv) /\ Promote({p})
    BY <1>11 DEF CondvarSignal, IsFirst
  <2>2. PICK w \in Threads : w = wq[p]
    BY ElementOfSeq
  <2>3. \A u \in Threads : wqe'[u].cv = IF u \in {w} THEN NoCv ELSE wqe[u].cv
    BY <2>1, <2>2 DEF Promote, Promoted
  <2>4. wqe[w].cv = cv /\ InQueue(w) /\ Place(w) = "waiting"
    BY <2>1, <2>2, NoCvOK DEF WaitersOn, QueueOK, Queued, InQueue, Place
  <2>5. \A u \in Threads : Place(u)' = IF u \in {w} THEN "entering" ELSE Place(u)
    BY <1>11, <2>3, <2>4 DEF CondvarSignal, Place, InQueue
  <2>6. Place(t) = "in" /\ mode' = mode
    BY <1>11 DEF CondvarSignal, Place
  <2> QED BY <2>3, <2>4, <2>5, <2>6 DEF M!Signal, M!Waiting, M!WakeUp
<1>12. ASSUME NEW t \in Threads, NEW cv \in CondVars, CondvarBroadcast(t, cv)
       PROVE  M!Broadcast(t, cv)
  <2>1. ASSUME NEW u \in Threads, wqe[u].cv = cv
        PROVE  Place(u) = "waiting" /\ InQueue(u) /\ \E i \in WaitersOn(cv) : wq[i] = u
    <3>1. InQueue(u)
      BY <2>1, NoCvOK DEF ElemOK, NoElem
    <3> QED BY <2>1, <3>1, NoCvOK DEF InQueue, Place, QueueOK, Queued, WaitersOn
  <2>2. \A u \in Threads : u \in M!Waiting(cv) <=> wqe[u].cv = cv
    BY <2>1 DEF M!Waiting
  <2>3. \A u \in Threads : (\E i \in WaitersOn(cv) : wq[i] = u) <=> wqe[u].cv = cv
    BY <2>1 DEF WaitersOn
  <2>4. \A u \in Threads : wqe'[u].cv = IF u \in M!Waiting(cv) THEN NoCv ELSE wqe[u].cv
    BY <1>12, <2>2, <2>3 DEF CondvarBroadcast, Promote, Promoted
  <2>5. \A u \in Threads : Place(u)' = IF u \in M!Waiting(cv) THEN "entering" ELSE Place(u)
    <3> SUFFICES ASSUME NEW u \in Threads
                 PROVE  Place(u)' = IF u \in M!Waiting(cv) THEN "entering" ELSE Place(u)
      OBVIOUS
    <3>1. UNCHANGED <<pc, ret>>
      BY <1>12 DEF CondvarBroadcast
    <3>2. CASE u \in M!Waiting(cv)
      <4>1. wqe'[u].cv = NoCv /\ InQueue(u)
        BY <2>1, <2>2, <2>4, <3>2
      <4> QED BY <3>1, <3>2, <4>1 DEF Place, InQueue
    <3>3. CASE u \notin M!Waiting(cv)
      BY <2>4, <3>1, <3>3 DEF Place
    <3> QED BY <3>2, <3>3
  <2>6. Place(t) = "in" /\ mode' = mode
    BY <1>12 DEF CondvarBroadcast, Place
  <2> HIDE DEF M!Waiting
  <2> QED BY <2>4, <2>5, <2>6 DEF M!Broadcast, M!WakeUp
<1>13. CASE Destroy \/ UNCHANGED vars
  BY <1>0, <1>13 DEF Destroy, vars, Place
<1> QED
  BY <1>1, <1>2, <1>3, <1>4, <1>5, <1>6, <1>7, <1>8, <1>9, <1>10, <1>11, <1>12, <1>13
  DEF Next, Step, Inside, Release, M!Next

\* mutex.c and wait_queue.c implement the monitor that mutex.h describes.
THEOREM Refinement == Spec => ImplementsMonitor
<1>1. Init => M!Init
  <2> SUFFICES ASSUME Init PROVE M!Init
    OBVIOUS
  <2>1. \A t \in Threads : Place(t) = "out" /\ wqe[t].cv = NoCv
    BY DEF Init, Place, NoElem
  <2> QED BY <2>1 DEF Init, M!Init
<1>2. IInv /\ [Next]_vars => [M!Next]_(M!vars)
  BY StepImplementsMonitor
<1> QED BY <1>1, <1>2, Invariance, PTL DEF Spec, M!Spec, ImplementsMonitor

=============================================================================
