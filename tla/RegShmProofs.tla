---------------------------- MODULE RegShmProofs ----------------------------
(***************************************************************************)
(* Proofs about RegShm, for any finite set of threads and any sets of      *)
(* memory objects, cookies and address ranges.                             *)
(***************************************************************************)
EXTENDS RegShm, FiniteSetTheorems, TLAPS

\* Thread t has a pointer to object m that it will use again.
Refers(t, m) == mobj[t] = m /\ (pc[t] # "notify" \/ job[t] = "unregister")

\* The last user is on its way to free the object, or to hand it over.
Leaving == {"free", "freeguarded", "freenotify"}

Releaser == {"rlock", "rcheck", "rwait", "sleep"}

\* What its place in the code says of a thread's own variables.
Frame(t) ==
    /\ mobj[t] = NoMobj <=> pc[t] \in {"idle", "page", "alloc", "find", "rfind"}
    /\ pc[t] = "idle" <=> job[t] = "none"
    /\ pc[t] \in {"page", "alloc"} => job[t] \in {"register", "tmem", "rpc"} /\ ~page[t]
    /\ pc[t] = "unguard" => job[t] = "register" /\ ~page[t]
    /\ pc[t] \in {"find", "get"} => job[t] = "rmem"
    /\ pc[t] \in {"inc", "inclock", "use"} => job[t] \in {"register", "tmem", "rpc", "rmem"}
    /\ pc[t] \in {"dec", "declock"} => job[t] \in {"tmem", "rmem"} /\ ~page[t]
    /\ pc[t] \in Releaser \cup {"rfind"} => job[t] = "unregister"
    /\ page[t] => job[t] \in {"register", "tmem", "rpc"} /\ pc[t] # "idle"
    /\ job[t] = "register" => page[t] \/ pc[t] \in {"page", "alloc", "unguard"}
    /\ job[t] \in {"register", "rmem", "unregister"} => arg[t] \in Cookies
    /\ job[t] \in {"none", "tmem", "rpc"} => arg[t] = NoCookie

Frames == \A t \in Threads : Frame(t)

\* An object without a cookie has one thread, which frees or leaves it.
PrivateOK ==
    \A m \in reg_shm_list : cookie[m] = NoCookie =>
        /\ guarded[m] /\ ~releasing[m]
        /\ m \in left \/ \E t \in Threads : Refers(t, m)
        /\ \A t, u \in Threads : Refers(t, m) /\ Refers(u, m) => t = u

\* Nobody refers to an object that cleanup_shm_refs() skipped.
LeftOK ==
    \A m \in left :
        /\ m \in reg_shm_list /\ cookie[m] = NoCookie
        /\ \A t \in Threads : ~Refers(t, m)

\* Which kind of object a request works on.
KindOK ==
    \A t \in Threads, m \in Mobjs : Refers(t, m) =>
        /\ page[t] \/ job[t] \in {"tmem", "rpc"} => cookie[m] = NoCookie
        /\ job[t] \in {"rmem", "unregister"} \/ pc[t] = "unguard" => cookie[m] = arg[t]

\* An object with a cookie is guarded exactly until its registration returns.
GuardOK ==
    /\ \A t \in Threads : pc[t] = "unguard" => guarded[mobj[t]]
    /\ \A m \in reg_shm_list : guarded[m] /\ cookie[m] # NoCookie =>
         \E t \in Threads : mobj[t] = m /\ pc[t] = "unguard"

\* An object that is being released has one releaser.
ReleasingOK ==
    /\ \A m \in reg_shm_list : releasing[m] =>
         /\ ~guarded[m] /\ cookie[m] # NoCookie /\ reg[cookie[m]] = "leaving"
         /\ \E t \in Threads : job[t] = "unregister" /\ mobj[t] = m
    /\ \A t \in Threads : job[t] = "unregister" /\ mobj[t] # NoMobj => releasing[mobj[t]]
    /\ \A t, u \in Threads :
         job[t] = "unregister" /\ job[u] = "unregister" /\ mobj[t] = mobj[u] /\ mobj[t] # NoMobj
           => t = u

\* When the count reaches zero, one thread leaves the object, and then it is left.
ZeroOK ==
    /\ \A m \in reg_shm_list :
         /\ refc[m] = 0 => release_frees[m] \/ \E t \in Threads : mobj[t] = m /\ pc[t] \in Leaving
         /\ release_frees[m] =>
              /\ refc[m] = 0 /\ releasing[m]
              /\ \A t \in Threads : mobj[t] = m => pc[t] \notin Leaving
    /\ \A t \in Threads : pc[t] \in Leaving => refc[mobj[t]] = 0
    /\ \A t,
         u \in Threads : pc[t] \in Leaving /\ pc[u] \in Leaving /\ mobj[t] = mobj[u] => t = u
    /\ \A t \in Threads : pc[t] = "freeguarded" => guarded[mobj[t]] /\ ~releasing[mobj[t]]
    /\ \A t \in Threads : pc[t] = "freenotify" => releasing[mobj[t]]

\* What the driver knows of a cookie is what the list has.
RegOK ==
    /\ \A m, n \in reg_shm_list : cookie[m] = cookie[n] /\ cookie[m] # NoCookie => m = n
    /\ \A m \in reg_shm_list : cookie[m] # NoCookie => reg[cookie[m]] # "none"
    /\ \A c \in Cookies :
         /\ reg[c] = "busy" => \E t \in Threads : job[t] = "register" /\ arg[t] = c
         /\ reg[c] \in {"shared", "leaving"} =>
              \E m \in reg_shm_list : cookie[m] = c /\ ~guarded[m]
         /\ reg[c] = "leaving" =>
              \/ \E m \in reg_shm_list : cookie[m] = c /\ releasing[m]
              \/ \E t \in Threads : pc[t] = "rfind" /\ arg[t] = c
    /\ \A t \in Threads :
         /\ job[t] = "register" =>
              /\ reg[arg[t]] = "busy"
              /\ \A m \in reg_shm_list : cookie[m] = arg[t] => pc[t] = "unguard" /\ mobj[t] = m
         /\ job[t] = "unregister" => reg[arg[t]] \in {"leaving", "none"}
         /\ pc[t] \in {"find", "get"} => reg[arg[t]] # "leaving"
    /\ \A t, u \in Threads :
         job[t] = "register" /\ job[u] = "register" /\ arg[t] = arg[u] => t = u

\* The threads that shm_release_waiters counts.
Waiters == {t \in Threads : pc[t] \in {"rcheck", "rwait", "sleep"}}

\* shm_mu and shm_cv.
SyncOK ==
    /\ \A t \in Threads : shm_mu = t <=> pc[t] \in {"rcheck", "rwait"}
    /\ \A t \in shm_cv : pc[t] = "sleep"
    /\ shm_release_waiters = Cardinality(Waiters)
    /\ \A t \in Threads :
         (t \in shm_cv \/ pc[t] = "rwait") /\ release_frees[mobj[t]] =>
           \E u \in Threads : pc[u] = "notify"

ObjectsOK == PrivateOK /\ LeftOK /\ KindOK /\ GuardOK /\ ReleasingOK /\ ZeroOK

IInv ==
    /\ TypeOK /\ Frames
    /\ RefcountExact /\ NoUseAfterFree /\ MapcountExact
    /\ ObjectsOK /\ RegOK /\ SyncOK

----------------------------------------------------------------------------
\* A step of thread t

\* The names of places and jobs.
LEMMA Places ==
    /\ "idle" \in Pcs /\ "page" \in Pcs /\ "alloc" \in Pcs /\ "unguard" \in Pcs
    /\ "find" \in Pcs /\ "get" \in Pcs /\ "inc" \in Pcs /\ "inclock" \in Pcs
    /\ "use" \in Pcs /\ "dec" \in Pcs /\ "declock" \in Pcs /\ "put" \in Pcs
    /\ "free" \in Pcs /\ "freeguarded" \in Pcs /\ "freenotify" \in Pcs /\ "notify" \in Pcs
    /\ "rfind" \in Pcs /\ "rlock" \in Pcs /\ "rcheck" \in Pcs /\ "rwait" \in Pcs
    /\ "sleep" \in Pcs /\ "panic" \in Pcs /\ "none" \in Jobs /\ "register" \in Jobs
    /\ "tmem" \in Jobs /\ "rpc" \in Jobs /\ "rmem" \in Jobs /\ "unregister" \in Jobs
    /\ "failed" \in Jobs
BY DEF Pcs, Jobs

\* A thread that holds a reference or a mapping, or waits, is counted.
LEMMA Positive ==
    ASSUME IInv, NEW t \in Threads
    PROVE  /\ pc[t] \in Holding => refc[mobj[t]] > 0
           /\ pc[t] = "dec" => mapcount[mobj[t]] > 0
           /\ pc[t] = "rcheck" => shm_release_waiters > 0
<1> DEFINE m == mobj[t]
<1> USE ThreadsFinite, NoneOK DEF IInv
<1>1. CASE pc[t] \in Holding
  <2>1. m \in reg_shm_list
    BY <1>1 DEF NoUseAfterFree, Frames, Frame, Holding
  <2>2. IsFiniteSet(RefHolders(m)) /\ t \in RefHolders(m)
    BY <1>1, FS_Subset DEF RefHolders
  <2>3. Cardinality(RefHolders(m)) \in Nat /\ Cardinality(RefHolders(m)) # 0
    BY <2>2, FS_EmptySet, FS_CardinalityType
  <2>4. refc[m] > 0
    BY <2>1, <2>3 DEF RefcountExact
  <2>5. CASE pc[t] = "dec"
    <3>1. IsFiniteSet(MapHolders(m)) /\ t \in MapHolders(m)
      BY <2>5, FS_Subset DEF MapHolders
    <3>2. Cardinality(MapHolders(m)) \in Nat /\ Cardinality(MapHolders(m)) # 0
      BY <3>1, FS_EmptySet, FS_CardinalityType
    <3> QED
      BY <2>1, <2>4, <2>5, <3>2 DEF MapcountExact
  <2> QED
    BY <1>1, <2>4, <2>5 DEF Holding
<1>2. CASE pc[t] = "rcheck"
  <2>1. IsFiniteSet(Waiters) /\ t \in Waiters
    BY <1>2, FS_Subset DEF Waiters
  <2>2. Cardinality(Waiters) \in Nat /\ Cardinality(Waiters) # 0
    BY <2>1, FS_EmptySet, FS_CardinalityType
  <2>3. shm_release_waiters = Cardinality(Waiters)
    BY DEF SyncOK
  <2> QED
    BY <1>2, <2>2, <2>3 DEF Holding
<1> QED
  BY <1>1, <1>2 DEF Holding

\* mobj_put() returns, or its object was freed.
LEMMA AfterType ==
    ASSUME TypeOK, Frames, NEW t \in Threads, NEW from, After(t, from)
    PROVE  /\ pc' \in [Threads -> Pcs] /\ job' \in [Threads -> Jobs]
           /\ page' \in [Threads -> BOOLEAN] /\ mobj' \in [Threads -> Mobjs \cup {NoMobj}]
           /\ arg' \in [Threads -> Cookies \cup {NoCookie}]
           /\ reg' \in [Cookies -> {"none", "busy", "shared", "leaving"}]
<1> USE Places, NoneOK DEF TypeOK, Goto, locals, After, Return, Conclude
<1>1. pc' \in [Threads -> Pcs]
  OBVIOUS
<1>2. page' \in [Threads -> BOOLEAN]
  OBVIOUS
<1>3. mobj' \in [Threads -> Mobjs \cup {NoMobj}] /\ arg' \in [Threads -> Cookies \cup {NoCookie}]
  OBVIOUS
<1>4. job' \in [Threads -> Jobs] /\ reg' \in [Cookies -> {"none", "busy", "shared",
     "leaving"}]
  OBVIOUS
<1> QED
  BY <1>1, <1>2, <1>3, <1>4

\* Types
LEMMA TypeStep ==
    ASSUME IInv, NEW t \in Threads, Request(t) \/ Steps(t) \/ Locking(t),
           UNCHANGED left
    PROVE  TypeOK'
<1>0. TypeOK /\ Frames
  BY DEF IInv
<1> USE <1>0, Places, NoneOK DEF TypeOK, Goto, fields, sync, locals
<1>1. ASSUME NEW c \in Cookies, CallRegister(t, c) PROVE TypeOK'
  BY <1>1 DEF CallRegister, Requests
<1>2. ASSUME NEW c \in Cookies, CallRmem(t, c) PROVE TypeOK'
  BY <1>2 DEF CallRmem, Requests
<1>3. ASSUME NEW c \in Cookies, CallUnregister(t, c) PROVE TypeOK'
  BY <1>3 DEF CallUnregister, Requests
<1>4. ASSUME NEW j \in Jobs, CallTmem(t, j) PROVE TypeOK'
  BY <1>4 DEF CallTmem, Requests
<1>5. ASSUME NEW m \in Mobjs, PageAlloc(t, m) PROVE TypeOK'
  BY <1>5 DEF PageAlloc, Insert
<1>6. ASSUME NEW m \in Mobjs, BufferAlloc(t, m) PROVE TypeOK'
  BY <1>6 DEF BufferAlloc, Insert
<1>7. CASE AllocFails(t)
  BY <1>7 DEF AllocFails, Return, Conclude
<1>8. CASE Unguard(t)
  BY <1>8 DEF Unguard, Return, Conclude
<1>9. CASE Find(t)
  BY <1>9 DEF Find, Finds
<1>10. CASE FindNothing(t)
  BY <1>10 DEF FindNothing, Return, Conclude
<1>11. CASE Get(t)
  <2>1. mobj[t] \in Mobjs /\ refc[mobj[t]] \in Nat
    BY <1>11 DEF Get, Frames, Frame
  <2>2. refc' \in [Mobjs -> Nat]
    BY <1>11, <2>1 DEF Get
  <2> QED
    BY <1>11, <2>2 DEF Get
<1>12. CASE IncMap(t)
  <2>1. mobj[t] \in Mobjs /\ mapcount[mobj[t]] \in Nat
    BY <1>12 DEF IncMap, Frames, Frame
  <2>2. mapcount' \in [Mobjs -> Nat]
    BY <1>12, <2>1 DEF IncMap
  <2> QED
    BY <1>12, <2>2 DEF IncMap
<1>13. CASE IncMapLocked(t)
  BY <1>13 DEF IncMapLocked, FreeVas
<1>14. CASE MapFails(t)
  BY <1>14 DEF MapFails, Skipped
<1>15. CASE Use(t)
  BY <1>15 DEF Use
<1>16. CASE DecMap(t)
  <2>1. mobj[t] \in Mobjs /\ mapcount[mobj[t]] \in Nat
    BY <1>16 DEF DecMap, Frames, Frame
  <2>2. mapcount' \in [Mobjs -> Nat]
    BY <1>16, <2>1, Positive DEF DecMap
  <2> QED
    BY <1>16, <2>2 DEF DecMap
<1>17. CASE DecMapLocked(t)
  BY <1>17 DEF DecMapLocked
<1>18. CASE Put(t)
  <2>0. mobj[t] \in Mobjs /\ refc[mobj[t]] \in Nat
    BY <1>18 DEF Put, Frames, Frame
  <2>1. refc' \in [Mobjs -> Nat]
    BY <1>18, <2>0, Positive DEF Put, Holding
  <2>2. CASE After(t, "put")
    BY <1>18, <2>1, <2>2, AfterType DEF Put, IInv
  <2>3. CASE Goto(t, "put", "free") /\ UNCHANGED <<locals, reg>>
    BY <1>18, <2>1, <2>3 DEF Put
  <2> QED
    BY <1>18, <2>2, <2>3 DEF Put
<1>19. CASE Free(t)
  BY <1>19 DEF Free
<1>20. CASE FreeGuarded(t)
  BY <1>20, AfterType DEF FreeGuarded, FreeHelper, IInv
<1>21. CASE FreeNotify(t)
  BY <1>21 DEF FreeNotify
<1>22. CASE ReleaseFind(t)
  BY <1>22 DEF ReleaseFind, Releasable, Finds
<1>23. CASE ReleaseRefused(t)
  BY <1>23 DEF ReleaseRefused, Releasable, Finds, Return, Conclude
<1>24. CASE ReleaseFrees(t)
  <2>1. shm_release_waiters' \in Nat
    BY <1>24, Positive DEF ReleaseFrees, Return
  <2>2. UNCHANGED shm_cv /\ shm_mu' = NoThread
    BY <1>24 DEF ReleaseFrees
  <2>3. pc' \in [Threads -> Pcs] /\ job' \in [Threads -> Jobs] /\ page' \in [Threads -> BOOLEAN]
    BY <1>24 DEF ReleaseFrees, Return
  <2>4. mobj' \in [Threads -> Mobjs \cup {NoMobj}] /\ arg' \in [Threads -> Cookies \cup {NoCookie}]
    BY <1>24 DEF ReleaseFrees, Return
  <2>5. reg' \in [Cookies -> {"none", "busy", "shared", "leaving"}]
    BY <1>24 DEF ReleaseFrees, Return, Conclude
  <2> QED
    BY <1>24, <2>1, <2>2, <2>3, <2>4, <2>5 DEF ReleaseFrees, FreeHelper
<1>25. CASE ReleaseNotYet(t)
  BY <1>25 DEF ReleaseNotYet
<1>26. CASE ReleaseWait(t)
  BY <1>26 DEF ReleaseWait
<1>27. CASE Notify(t)
  BY <1>27, AfterType DEF Notify, IInv
<1>28. CASE ReleaseLock(t)
  BY <1>28 DEF ReleaseLock
<1>29. CASE ReleaseWoken(t)
  BY <1>29 DEF ReleaseWoken
<1> QED
  BY <1>1, <1>2, <1>3, <1>4, <1>5, <1>6, <1>7, <1>8, <1>9, <1>10, <1>11, <1>12, <1>13,
     <1>14, <1>15, <1>16, <1>17, <1>18, <1>19, <1>20, <1>21, <1>22, <1>23, <1>24, <1>25,
     <1>26, <1>27, <1>28, <1>29
     DEF Request, Steps, Locking

\* A thread's own variables
LEMMA FramesStep ==
    ASSUME TypeOK, Frames, NEW t \in Threads, Request(t) \/ Steps(t) \/ Locking(t)
    PROVE  Frames'
<1> USE NoneOK DEF TypeOK, Goto, fields, sync, locals, Frames, Frame, Releaser
<1>1. ASSUME NEW c \in Cookies, CallRegister(t, c) PROVE Frames'
  BY <1>1 DEF CallRegister, Requests
<1>2. ASSUME NEW c \in Cookies, CallRmem(t, c) PROVE Frames'
  BY <1>2 DEF CallRmem, Requests
<1>3. ASSUME NEW c \in Cookies, CallUnregister(t, c) PROVE Frames'
  BY <1>3 DEF CallUnregister, Requests
<1>4. ASSUME NEW j \in Jobs, CallTmem(t, j) PROVE Frames'
  BY <1>4 DEF CallTmem, Requests
<1>5. ASSUME NEW m \in Mobjs, PageAlloc(t, m) PROVE Frames'
  BY <1>5 DEF PageAlloc, Insert
<1>6. ASSUME NEW m \in Mobjs, BufferAlloc(t, m) PROVE Frames'
  BY <1>6 DEF BufferAlloc, Insert
<1>7. CASE AllocFails(t)
  BY <1>7 DEF AllocFails, Return, Conclude
<1>8. CASE Unguard(t)
  BY <1>8 DEF Unguard, Return, Conclude
<1>9. CASE Find(t)
  BY <1>9 DEF Find, Finds
<1>10. CASE FindNothing(t)
  BY <1>10 DEF FindNothing, Return, Conclude
<1>11. CASE Get(t)
  BY <1>11 DEF Get
<1>12. CASE IncMap(t)
  BY <1>12 DEF IncMap
<1>13. CASE IncMapLocked(t)
  BY <1>13 DEF IncMapLocked, FreeVas
<1>14. CASE MapFails(t)
  BY <1>14 DEF MapFails, Skipped
<1>15. CASE Use(t)
  BY <1>15 DEF Use
<1>16. CASE DecMap(t)
  BY <1>16 DEF DecMap
<1>17. CASE DecMapLocked(t)
  BY <1>17 DEF DecMapLocked
<1>18. CASE Put(t)
  BY <1>18 DEF Put, After, Return, Conclude
<1>19. CASE Free(t)
  BY <1>19 DEF Free
<1>20. CASE FreeGuarded(t)
  BY <1>20 DEF FreeGuarded, After, Return, Conclude
<1>21. CASE FreeNotify(t)
  BY <1>21 DEF FreeNotify
<1>22. CASE ReleaseFind(t)
  BY <1>22 DEF ReleaseFind, Releasable, Finds
<1>23. CASE ReleaseRefused(t)
  BY <1>23 DEF ReleaseRefused, Releasable, Finds, Return, Conclude
<1>24. CASE ReleaseFrees(t)
  BY <1>24 DEF ReleaseFrees, FreeHelper, Return, Conclude
<1>25. CASE ReleaseNotYet(t)
  BY <1>25 DEF ReleaseNotYet
<1>26. CASE ReleaseWait(t)
  BY <1>26 DEF ReleaseWait
<1>27. CASE Notify(t)
  BY <1>27 DEF Notify, After, Return, Conclude
<1>28. CASE ReleaseLock(t)
  BY <1>28 DEF ReleaseLock
<1>29. CASE ReleaseWoken(t)
  BY <1>29 DEF ReleaseWoken
<1> QED
  BY <1>1, <1>2, <1>3, <1>4, <1>5, <1>6, <1>7, <1>8, <1>9, <1>10, <1>11, <1>12, <1>13,
     <1>14, <1>15, <1>16, <1>17, <1>18, <1>19, <1>20, <1>21, <1>22, <1>23, <1>24, <1>25,
     <1>26, <1>27, <1>28, <1>29
     DEF Request, Steps, Locking

\* No reference, no holder, and no registration.
LEMMA NoHolders ==
    ASSUME IInv, NEW m \in reg_shm_list, refc[m] = 0
    PROVE  /\ \A t \in Threads : mobj[t] = m => pc[t] \notin Holding
           /\ guarded[m] \/ releasing[m]
<1> USE DEF IInv
<1>1. IsFiniteSet(RefHolders(m))
  BY ThreadsFinite, FS_Subset DEF RefHolders
<1>2. Cardinality(RefHolders(m)) \in Nat
  BY <1>1, FS_CardinalityType
<1>3. Cardinality(RefHolders(m)) = 0 /\ (guarded[m] \/ releasing[m])
  BY <1>2 DEF RefcountExact
<1>4. RefHolders(m) = {}
  BY <1>1, <1>3, FS_EmptySet
<1> QED
  BY <1>3, <1>4 DEF RefHolders

\* The thread of a private object has its only reference.
LEMMA PrivateOne ==
    ASSUME IInv, NEW t \in Threads, pc[t] \in Holding, cookie[mobj[t]] = NoCookie
    PROVE  refc[mobj[t]] = 1
<1> USE DEF IInv
<1>1. mobj[t] \in reg_shm_list
  BY NoneOK DEF NoUseAfterFree, Frames, Frame, Holding
<1>2. RefHolders(mobj[t]) = {t}
  BY <1>1 DEF RefHolders, ObjectsOK, PrivateOK, Refers, Holding
<1>3. Cardinality(RefHolders(mobj[t])) = 1
  BY <1>2, FS_Singleton
<1>4. mobj[t] \notin left
  BY DEF ObjectsOK, LeftOK, Refers, Holding
<1> QED
  BY <1>1, <1>3, <1>4 DEF RefcountExact, ObjectsOK, PrivateOK

\* What follows mobj_put() changes nothing but the thread's own variables.
Returned(t) ==
    /\ \A u \in Threads \ {t} :
         /\ pc'[u] = pc[u] /\ mobj'[u] = mobj[u] /\ job'[u] = job[u]
         /\ page'[u] = page[u] /\ arg'[u] = arg[u]
    /\ reg' = reg
    /\ job[t] = "unregister" =>
         /\ pc'[t] = "rlock" /\ page'[t] = page[t]
         /\ mobj'[t] = mobj[t] /\ job'[t] = job[t] /\ arg'[t] = arg[t]
    /\ job[t] # "unregister" =>
         /\ mobj'[t] = NoMobj /\ ~page'[t]
         /\ IF page[t] THEN pc'[t] \in {"page",
              "alloc"} /\ job'[t] = job[t] /\ arg'[t] = arg[t]
                       ELSE pc'[t] = "idle" /\ job'[t] = "none" /\ arg'[t] = NoCookie

\* After() is as Returned says.
LEMMA AfterReturns ==
    ASSUME TypeOK, Frames, NEW t \in Threads, NEW from \in {"put", "freeguarded", "notify"},
           After(t, from)
    PROVE  Returned(t) /\ pc[t] = from
<1> USE DEF TypeOK, Frames, Frame, Goto, locals, After, Return, Conclude, Returned
<1>1. CASE job[t] = "unregister"
  BY <1>1
<1>2. CASE job[t] # "unregister" /\ page[t]
  BY <1>2
<1>3. CASE job[t] # "unregister" /\ ~page[t]
  BY <1>3
<1> QED
  BY <1>1, <1>2, <1>3

\* Whoever frees an object is the only one that refers to it.
LEMMA FreedAlone ==
    ASSUME IInv, NEW t \in Threads,
           pc[t] = "freeguarded" \/ (pc[t] = "rcheck" /\ release_frees[mobj[t]])
    PROVE  /\ mobj[t] \in reg_shm_list
           /\ pc[t] = "freeguarded" => cookie[mobj[t]] = NoCookie /\ job[t] # "unregister"
           /\ pc[t] = "rcheck" => cookie[mobj[t]] = arg[t] /\ releasing[mobj[t]]
           /\ \A u \in Threads : Refers(u, mobj[t]) => u = t
<1> DEFINE m == mobj[t]
<1> USE DEF IInv, ObjectsOK
<1>1. m \in reg_shm_list
  BY NoneOK DEF NoUseAfterFree, Frames, Frame
<1>2. refc[m] = 0
  BY <1>1 DEF ZeroOK, Leaving
<1>3. \A u \in Threads : mobj[u] = m => pc[u] \notin Holding
  BY <1>1, <1>2, NoHolders
<1>4. CASE pc[t] = "freeguarded"
  <2>1. cookie[m] = NoCookie
    BY <1>1, <1>3, <1>4 DEF GuardOK, ZeroOK, Holding
  <2>2. job[t] # "unregister"
    BY <1>1, <1>4, <2>1, NoneOK DEF KindOK, Refers, Frames, Frame, TypeOK
  <2> QED
    BY <1>1, <1>4, <2>1, <2>2 DEF PrivateOK, Refers
<1>5. CASE pc[t] = "rcheck" /\ release_frees[m]
  <2>1. job[t] = "unregister" /\ releasing[m] /\ arg[t] \in Cookies
    BY <1>1, <1>5 DEF Frames, Frame, Releaser, ZeroOK
  <2>2. Refers(t, m) /\ m \in Mobjs
    BY <1>1, <2>1 DEF Refers, TypeOK
  <2>3. cookie[m] = arg[t] /\ reg[arg[t]] = "leaving"
    BY <1>1, <2>1, <2>2 DEF KindOK, ReleasingOK
  <2>4. ASSUME NEW u \in Threads, Refers(u, m) PROVE u = t
    <3>1. CASE job[u] = "unregister"
      BY <2>1, <2>4, <3>1, <1>1, NoneOK DEF ReleasingOK, Refers, TypeOK
    <3>2. CASE job[u] # "unregister"
      <4>1. mobj[u] = m /\ mobj[u] # NoMobj /\ pc[u] # "notify" /\ pc[u] # "panic"
        BY <2>4, <2>2, <3>2, NoneOK DEF Refers, NoUseAfterFree
      <4>2. pc[u] \notin Holding /\ pc[u] \notin Leaving
        BY <4>1, <1>1, <1>3, <1>5 DEF ZeroOK
      <4>3. pc[u] \notin Releaser \cup {"rfind", "idle", "page", "alloc", "find"}
        BY <4>1, <3>2 DEF Frames, Frame
      <4>4. pc[u] \in Pcs
        BY DEF TypeOK
      <4>5. pc[u] = "get"
        BY <4>1, <4>2, <4>3, <4>4 DEF Pcs, Holding, Leaving, Releaser
      <4>6. cookie[m] = arg[u]
        BY <4>5, <2>4, <2>2 DEF KindOK, Frames, Frame
      <4>7. reg[arg[u]] # "leaving"
        BY <4>5 DEF RegOK
      <4> QED
        BY <4>6, <4>7, <2>3
    <3> QED
      BY <3>1, <3>2
  <2> QED
    BY <1>1, <1>5, <2>1, <2>3, <2>4
<1> QED
  BY <1>4, <1>5

\* A page, or a buffer of one request, stays the object of one thread.
LEMMA PrivateStep ==
    ASSUME IInv, NEW t \in Threads, Request(t) \/ Steps(t) \/ Locking(t),
           UNCHANGED left
    PROVE  PrivateOK'
<1> USE NoneOK DEF IInv, TypeOK, Goto, fields, sync, locals, Frames, Frame, Releaser,
     PrivateOK, Refers, NoUseAfterFree, ObjectsOK
<1>1. ASSUME NEW c \in Cookies, CallRegister(t, c) PROVE PrivateOK'
  BY <1>1 DEF CallRegister, Requests
<1>2. ASSUME NEW c \in Cookies, CallRmem(t, c) PROVE PrivateOK'
  BY <1>2 DEF CallRmem, Requests
<1>3. ASSUME NEW c \in Cookies, CallUnregister(t, c) PROVE PrivateOK'
  BY <1>3 DEF CallUnregister, Requests
<1>4. ASSUME NEW j \in Jobs, CallTmem(t, j) PROVE PrivateOK'
  BY <1>4 DEF CallTmem, Requests
<1>5. ASSUME NEW m \in Mobjs, PageAlloc(t, m) PROVE PrivateOK'
  BY <1>5 DEF PageAlloc, Insert
<1>6. ASSUME NEW m \in Mobjs, BufferAlloc(t, m) PROVE PrivateOK'
  BY <1>6 DEF BufferAlloc, Insert
<1>7. CASE AllocFails(t)
  BY <1>7 DEF AllocFails, Return, Conclude
<1>8. CASE Unguard(t)
  <2>1. cookie[mobj[t]] # NoCookie
    BY <1>8 DEF Unguard, Return, KindOK
  <2> QED
    BY <1>8, <2>1 DEF Unguard, Return
<1>9. CASE Find(t)
  BY <1>9 DEF Find, Finds
<1>10. CASE FindNothing(t)
  BY <1>10 DEF FindNothing, Return, Conclude
<1>11. CASE Get(t)
  BY <1>11 DEF Get
<1>12. CASE IncMap(t)
  BY <1>12 DEF IncMap
<1>13. CASE IncMapLocked(t)
  BY <1>13 DEF IncMapLocked, FreeVas
<1>14. CASE MapFails(t)
  BY <1>14 DEF MapFails, Skipped
<1>15. CASE Use(t)
  BY <1>15 DEF Use
<1>16. CASE DecMap(t)
  BY <1>16 DEF DecMap
<1>17. CASE DecMapLocked(t)
  BY <1>17 DEF DecMapLocked
<1>18. CASE Put(t)
  <2>1. cookie[mobj[t]] = NoCookie => refc[mobj[t]] = 1
    BY <1>18, PrivateOne DEF Put, Holding
  <2> QED
    BY <1>18, <2>1, SMTT(20) DEF Put, After, Return
<1>19. CASE Free(t)
  BY <1>19 DEF Free
<1>20. CASE FreeGuarded(t)
  <2>1. Returned(t) /\ pc[t] = "freeguarded"
    BY <1>20, AfterReturns DEF FreeGuarded
  <2>2. PICK m \in reg_shm_list :
           /\ m = mobj[t] /\ cookie[m] = NoCookie /\ job[t] # "unregister"
           /\ \A u \in Threads : Refers(u, m) => u = t
    BY <2>1, FreedAlone
  <2>3. FreeHelper(m)
    BY <1>20, <2>2 DEF FreeGuarded
  <2>4. \A u \in Threads : ~Refers(u, m)'
    BY <2>1, <2>2 DEF Returned
  <2>5. \A u \in Threads, n \in Mobjs \ {m} :
           /\ Refers(u, n)' <=> Refers(u, n)
           /\ Refers(u, n) =>
               pc'[u] = pc[u] /\ job'[u] = job[u] /\ page'[u] = page[u] /\ arg'[u] = arg[u]
    BY <2>1, <2>2 DEF Returned
  <2> HIDE DEF Refers
  <2> QED
    BY <2>1, <2>2, <2>3, <2>4, <2>5 DEF FreeHelper
<1>21. CASE FreeNotify(t)
  <2>1. cookie[mobj[t]] # NoCookie
    BY <1>21 DEF FreeNotify, ZeroOK, ReleasingOK
  <2> QED
    BY <1>21, <2>1 DEF FreeNotify
<1>22. CASE ReleaseFind(t)
  BY <1>22 DEF ReleaseFind, Releasable, Finds
<1>23. CASE ReleaseRefused(t)
  BY <1>23 DEF ReleaseRefused, Releasable, Finds, Return, Conclude
<1>24. CASE ReleaseFrees(t)
  BY <1>24, FreedAlone DEF ReleaseFrees, FreeHelper, Return, Conclude
<1>25. CASE ReleaseNotYet(t)
  BY <1>25 DEF ReleaseNotYet
<1>26. CASE ReleaseWait(t)
  BY <1>26 DEF ReleaseWait
<1>27. CASE Notify(t)
  <2>1. Returned(t) /\ pc[t] = "notify"
    BY <1>27, AfterReturns DEF Notify
  <2> QED
    BY <1>27, <2>1, SMTT(20) DEF Notify, Returned
<1>28. CASE ReleaseLock(t)
  BY <1>28 DEF ReleaseLock
<1>29. CASE ReleaseWoken(t)
  BY <1>29 DEF ReleaseWoken
<1> QED
  BY <1>1, <1>2, <1>3, <1>4, <1>5, <1>6, <1>7, <1>8, <1>9, <1>10, <1>11, <1>12, <1>13,
     <1>14, <1>15, <1>16, <1>17, <1>18, <1>19, <1>20, <1>21, <1>22, <1>23, <1>24, <1>25,
     <1>26, <1>27, <1>28, <1>29
     DEF Request, Steps, Locking

\* An object that cleanup_shm_refs() skipped is never looked up again.
LEMMA LeftStep ==
    ASSUME IInv, NEW t \in Threads, Request(t) \/ Steps(t) \/ Locking(t),
           UNCHANGED left
    PROVE  LeftOK'
<1> USE NoneOK DEF IInv, TypeOK, Goto, fields, sync, locals, Frames, Frame, Releaser,
     LeftOK, Refers, NoUseAfterFree, ObjectsOK
<1>1. ASSUME NEW c \in Cookies, CallRegister(t, c) PROVE LeftOK'
  BY <1>1 DEF CallRegister, Requests
<1>2. ASSUME NEW c \in Cookies, CallRmem(t, c) PROVE LeftOK'
  BY <1>2 DEF CallRmem, Requests
<1>3. ASSUME NEW c \in Cookies, CallUnregister(t, c) PROVE LeftOK'
  BY <1>3 DEF CallUnregister, Requests
<1>4. ASSUME NEW j \in Jobs, CallTmem(t, j) PROVE LeftOK'
  BY <1>4 DEF CallTmem, Requests
<1>5. ASSUME NEW m \in Mobjs, PageAlloc(t, m) PROVE LeftOK'
  BY <1>5 DEF PageAlloc, Insert
<1>6. ASSUME NEW m \in Mobjs, BufferAlloc(t, m) PROVE LeftOK'
  BY <1>6 DEF BufferAlloc, Insert
<1>7. CASE AllocFails(t)
  BY <1>7 DEF AllocFails, Return, Conclude
<1>8. CASE Unguard(t)
  <2>1. cookie[mobj[t]] # NoCookie
    BY <1>8 DEF Unguard, Return, KindOK
  <2> QED
    BY <1>8, <2>1 DEF Unguard, Return
<1>9. CASE Find(t)
  BY <1>9 DEF Find, Finds
<1>10. CASE FindNothing(t)
  BY <1>10 DEF FindNothing, Return, Conclude
<1>11. CASE Get(t)
  BY <1>11 DEF Get
<1>12. CASE IncMap(t)
  BY <1>12 DEF IncMap
<1>13. CASE IncMapLocked(t)
  BY <1>13 DEF IncMapLocked, FreeVas
<1>14. CASE MapFails(t)
  BY <1>14 DEF MapFails, Skipped
<1>15. CASE Use(t)
  BY <1>15 DEF Use
<1>16. CASE DecMap(t)
  BY <1>16 DEF DecMap
<1>17. CASE DecMapLocked(t)
  BY <1>17 DEF DecMapLocked
<1>18. CASE Put(t)
  <2>1. cookie[mobj[t]] = NoCookie => refc[mobj[t]] = 1
    BY <1>18, PrivateOne DEF Put, Holding
  <2> QED
    BY <1>18, <2>1, SMTT(20) DEF Put, After, Return
<1>19. CASE Free(t)
  BY <1>19 DEF Free
<1>20. CASE FreeGuarded(t)
  <2>1. Returned(t) /\ pc[t] = "freeguarded"
    BY <1>20, AfterReturns DEF FreeGuarded
  <2>2. PICK m \in reg_shm_list :
           /\ m = mobj[t] /\ cookie[m] = NoCookie /\ job[t] # "unregister"
           /\ \A u \in Threads : Refers(u, m) => u = t
    BY <2>1, FreedAlone
  <2>3. FreeHelper(m)
    BY <1>20, <2>2 DEF FreeGuarded
  <2>4. \A u \in Threads : ~Refers(u, m)'
    BY <2>1, <2>2 DEF Returned
  <2>5. \A u \in Threads, n \in Mobjs \ {m} :
           /\ Refers(u, n)' <=> Refers(u, n)
           /\ Refers(u, n) =>
               pc'[u] = pc[u] /\ job'[u] = job[u] /\ page'[u] = page[u] /\ arg'[u] = arg[u]
    BY <2>1, <2>2 DEF Returned
  <2>6. m \notin left
    BY <2>1, <2>2
  <2> HIDE DEF Refers
  <2> QED
    BY <2>1, <2>2, <2>3, <2>4, <2>5, <2>6 DEF FreeHelper
<1>21. CASE FreeNotify(t)
  <2>1. cookie[mobj[t]] # NoCookie
    BY <1>21 DEF FreeNotify, ZeroOK, ReleasingOK
  <2> QED
    BY <1>21, <2>1 DEF FreeNotify
<1>22. CASE ReleaseFind(t)
  BY <1>22 DEF ReleaseFind, Releasable, Finds
<1>23. CASE ReleaseRefused(t)
  BY <1>23 DEF ReleaseRefused, Releasable, Finds, Return, Conclude
<1>24. CASE ReleaseFrees(t)
  BY <1>24, FreedAlone DEF ReleaseFrees, FreeHelper, Return, Conclude
<1>25. CASE ReleaseNotYet(t)
  BY <1>25 DEF ReleaseNotYet
<1>26. CASE ReleaseWait(t)
  BY <1>26 DEF ReleaseWait
<1>27. CASE Notify(t)
  <2>1. Returned(t) /\ pc[t] = "notify"
    BY <1>27, AfterReturns DEF Notify
  <2> QED
    BY <1>27, <2>1, SMTT(20) DEF Notify, Returned
<1>28. CASE ReleaseLock(t)
  BY <1>28 DEF ReleaseLock
<1>29. CASE ReleaseWoken(t)
  BY <1>29 DEF ReleaseWoken
<1> QED
  BY <1>1, <1>2, <1>3, <1>4, <1>5, <1>6, <1>7, <1>8, <1>9, <1>10, <1>11, <1>12, <1>13,
     <1>14, <1>15, <1>16, <1>17, <1>18, <1>19, <1>20, <1>21, <1>22, <1>23, <1>24, <1>25,
     <1>26, <1>27, <1>28, <1>29
     DEF Request, Steps, Locking

\* A request works on objects of its own kind.
LEMMA KindStep ==
    ASSUME IInv, NEW t \in Threads, Request(t) \/ Steps(t) \/ Locking(t)
    PROVE  KindOK'
<1> USE NoneOK DEF IInv, TypeOK, Goto, fields, sync, locals, Frames, Frame, Releaser,
     KindOK, Refers, NoUseAfterFree, ObjectsOK
<1>1. ASSUME NEW c \in Cookies, CallRegister(t, c) PROVE KindOK'
  BY <1>1 DEF CallRegister, Requests
<1>2. ASSUME NEW c \in Cookies, CallRmem(t, c) PROVE KindOK'
  BY <1>2 DEF CallRmem, Requests
<1>3. ASSUME NEW c \in Cookies, CallUnregister(t, c) PROVE KindOK'
  BY <1>3 DEF CallUnregister, Requests
<1>4. ASSUME NEW j \in Jobs, CallTmem(t, j) PROVE KindOK'
  BY <1>4 DEF CallTmem, Requests
<1>5. ASSUME NEW m \in Mobjs, PageAlloc(t, m) PROVE KindOK'
  BY <1>5 DEF PageAlloc, Insert
<1>6. ASSUME NEW m \in Mobjs, BufferAlloc(t, m) PROVE KindOK'
  BY <1>6 DEF BufferAlloc, Insert
<1>7. CASE AllocFails(t)
  BY <1>7 DEF AllocFails, Return, Conclude
<1>8. CASE Unguard(t)
  BY <1>8 DEF Unguard, Return, Conclude
<1>9. CASE Find(t)
  BY <1>9 DEF Find, Finds
<1>10. CASE FindNothing(t)
  BY <1>10 DEF FindNothing, Return, Conclude
<1>11. CASE Get(t)
  BY <1>11 DEF Get
<1>12. CASE IncMap(t)
  BY <1>12 DEF IncMap
<1>13. CASE IncMapLocked(t)
  BY <1>13 DEF IncMapLocked, FreeVas
<1>14. CASE MapFails(t)
  BY <1>14 DEF MapFails, Skipped
<1>15. CASE Use(t)
  BY <1>15 DEF Use
<1>16. CASE DecMap(t)
  BY <1>16 DEF DecMap
<1>17. CASE DecMapLocked(t)
  BY <1>17 DEF DecMapLocked
<1>18. CASE Put(t)
  BY <1>18 DEF Put, After, Return, Conclude
<1>19. CASE Free(t)
  BY <1>19 DEF Free
<1>20. CASE FreeGuarded(t)
  <2>1. Returned(t) /\ pc[t] = "freeguarded"
    BY <1>20, AfterReturns DEF FreeGuarded
  <2>2. PICK m \in reg_shm_list :
           /\ m = mobj[t] /\ cookie[m] = NoCookie /\ job[t] # "unregister"
           /\ \A u \in Threads : Refers(u, m) => u = t
    BY <2>1, FreedAlone
  <2>3. FreeHelper(m)
    BY <1>20, <2>2 DEF FreeGuarded
  <2>4. \A u \in Threads : ~Refers(u, m)'
    BY <2>1, <2>2 DEF Returned
  <2>5. \A u \in Threads, n \in Mobjs \ {m} :
           /\ Refers(u, n)' <=> Refers(u, n)
           /\ Refers(u, n) =>
               pc'[u] = pc[u] /\ job'[u] = job[u] /\ page'[u] = page[u] /\ arg'[u] = arg[u]
    BY <2>1, <2>2 DEF Returned
  <2> HIDE DEF Refers
  <2> QED
    BY <2>1, <2>2, <2>3, <2>4, <2>5 DEF FreeHelper
<1>21. CASE FreeNotify(t)
  BY <1>21 DEF FreeNotify
<1>22. CASE ReleaseFind(t)
  BY <1>22 DEF ReleaseFind, Releasable, Finds
<1>23. CASE ReleaseRefused(t)
  BY <1>23 DEF ReleaseRefused, Releasable, Finds, Return, Conclude
<1>24. CASE ReleaseFrees(t)
  BY <1>24, FreedAlone DEF ReleaseFrees, FreeHelper, Return, Conclude
<1>25. CASE ReleaseNotYet(t)
  BY <1>25 DEF ReleaseNotYet
<1>26. CASE ReleaseWait(t)
  BY <1>26 DEF ReleaseWait
<1>27. CASE Notify(t)
  <2>1. Returned(t) /\ pc[t] = "notify"
    BY <1>27, AfterReturns DEF Notify
  <2> QED
    BY <1>27, <2>1, SMTT(20) DEF Notify, Returned
<1>28. CASE ReleaseLock(t)
  BY <1>28 DEF ReleaseLock
<1>29. CASE ReleaseWoken(t)
  BY <1>29 DEF ReleaseWoken
<1> QED
  BY <1>1, <1>2, <1>3, <1>4, <1>5, <1>6, <1>7, <1>8, <1>9, <1>10, <1>11, <1>12, <1>13,
     <1>14, <1>15, <1>16, <1>17, <1>18, <1>19, <1>20, <1>21, <1>22, <1>23, <1>24, <1>25,
     <1>26, <1>27, <1>28, <1>29
     DEF Request, Steps, Locking

\* guarded is cleared by the thread that registers the object, and by no other.
LEMMA GuardStep ==
    ASSUME IInv, NEW t \in Threads, Request(t) \/ Steps(t) \/ Locking(t)
    PROVE  GuardOK'
<1> USE NoneOK DEF IInv, TypeOK, Goto, fields, sync, locals, Frames, Frame, Releaser,
     GuardOK, Refers, NoUseAfterFree, ObjectsOK
<1>1. ASSUME NEW c \in Cookies, CallRegister(t, c) PROVE GuardOK'
  BY <1>1 DEF CallRegister, Requests
<1>2. ASSUME NEW c \in Cookies, CallRmem(t, c) PROVE GuardOK'
  BY <1>2 DEF CallRmem, Requests
<1>3. ASSUME NEW c \in Cookies, CallUnregister(t, c) PROVE GuardOK'
  BY <1>3 DEF CallUnregister, Requests
<1>4. ASSUME NEW j \in Jobs, CallTmem(t, j) PROVE GuardOK'
  BY <1>4 DEF CallTmem, Requests
<1>5. ASSUME NEW m \in Mobjs, PageAlloc(t, m) PROVE GuardOK'
  BY <1>5 DEF PageAlloc, Insert
<1>6. ASSUME NEW m \in Mobjs, BufferAlloc(t, m) PROVE GuardOK'
  BY <1>6 DEF BufferAlloc, Insert
<1>7. CASE AllocFails(t)
  BY <1>7 DEF AllocFails, Return, Conclude
<1>8. CASE Unguard(t)
  <2>1. \A u \in Threads : pc[u] = "unguard" /\ mobj[u] = mobj[t] => u = t
    BY <1>8 DEF Unguard, Return, KindOK, RegOK
  <2> QED
    BY <1>8, <2>1 DEF Unguard, Return
<1>9. CASE Find(t)
  BY <1>9 DEF Find, Finds
<1>10. CASE FindNothing(t)
  BY <1>10 DEF FindNothing, Return, Conclude
<1>11. CASE Get(t)
  BY <1>11 DEF Get
<1>12. CASE IncMap(t)
  BY <1>12 DEF IncMap
<1>13. CASE IncMapLocked(t)
  BY <1>13 DEF IncMapLocked, FreeVas
<1>14. CASE MapFails(t)
  BY <1>14 DEF MapFails, Skipped
<1>15. CASE Use(t)
  BY <1>15 DEF Use
<1>16. CASE DecMap(t)
  BY <1>16 DEF DecMap
<1>17. CASE DecMapLocked(t)
  BY <1>17 DEF DecMapLocked
<1>18. CASE Put(t)
  BY <1>18 DEF Put, After, Return, Conclude
<1>19. CASE Free(t)
  BY <1>19 DEF Free
<1>20. CASE FreeGuarded(t)
  <2>1. Returned(t) /\ pc[t] = "freeguarded"
    BY <1>20, AfterReturns DEF FreeGuarded
  <2>2. PICK m \in reg_shm_list :
           /\ m = mobj[t] /\ cookie[m] = NoCookie /\ job[t] # "unregister"
           /\ \A u \in Threads : Refers(u, m) => u = t
    BY <2>1, FreedAlone
  <2>3. FreeHelper(m)
    BY <1>20, <2>2 DEF FreeGuarded
  <2> QED
    BY <2>1, <2>2, <2>3, SMTT(20) DEF FreeHelper, Returned
<1>21. CASE FreeNotify(t)
  BY <1>21 DEF FreeNotify
<1>22. CASE ReleaseFind(t)
  BY <1>22 DEF ReleaseFind, Releasable, Finds
<1>23. CASE ReleaseRefused(t)
  BY <1>23 DEF ReleaseRefused, Releasable, Finds, Return, Conclude
<1>24. CASE ReleaseFrees(t)
  BY <1>24, FreedAlone DEF ReleaseFrees, FreeHelper, Return, Conclude
<1>25. CASE ReleaseNotYet(t)
  BY <1>25 DEF ReleaseNotYet
<1>26. CASE ReleaseWait(t)
  BY <1>26 DEF ReleaseWait
<1>27. CASE Notify(t)
  <2>1. Returned(t) /\ pc[t] = "notify"
    BY <1>27, AfterReturns DEF Notify
  <2> QED
    BY <1>27, <2>1, SMTT(20) DEF Notify, Returned
<1>28. CASE ReleaseLock(t)
  BY <1>28 DEF ReleaseLock
<1>29. CASE ReleaseWoken(t)
  BY <1>29 DEF ReleaseWoken
<1> QED
  BY <1>1, <1>2, <1>3, <1>4, <1>5, <1>6, <1>7, <1>8, <1>9, <1>10, <1>11, <1>12, <1>13,
     <1>14, <1>15, <1>16, <1>17, <1>18, <1>19, <1>20, <1>21, <1>22, <1>23, <1>24, <1>25,
     <1>26, <1>27, <1>28, <1>29
     DEF Request, Steps, Locking

\* No pointer to a freed object arises: whoever frees an object is alone with it,
\* and a cookie that a request looks up is not being released.
LEMMA PointersStep ==
    ASSUME IInv, NEW t \in Threads, Request(t) \/ Steps(t) \/ Locking(t)
    PROVE  NoUseAfterFree'
<1> USE NoneOK DEF IInv, TypeOK, Goto, fields, sync, locals, Frames, Frame, Releaser,
     Refers, NoUseAfterFree, ObjectsOK
<1>1. ASSUME NEW c \in Cookies, CallRegister(t, c) PROVE NoUseAfterFree'
  BY <1>1 DEF CallRegister, Requests
<1>2. ASSUME NEW c \in Cookies, CallRmem(t, c) PROVE NoUseAfterFree'
  BY <1>2 DEF CallRmem, Requests
<1>3. ASSUME NEW c \in Cookies, CallUnregister(t, c) PROVE NoUseAfterFree'
  BY <1>3 DEF CallUnregister, Requests
<1>4. ASSUME NEW j \in Jobs, CallTmem(t, j) PROVE NoUseAfterFree'
  BY <1>4 DEF CallTmem, Requests
<1>5. ASSUME NEW m \in Mobjs, PageAlloc(t, m) PROVE NoUseAfterFree'
  BY <1>5 DEF PageAlloc, Insert
<1>6. ASSUME NEW m \in Mobjs, BufferAlloc(t, m) PROVE NoUseAfterFree'
  BY <1>6 DEF BufferAlloc, Insert
<1>7. CASE AllocFails(t)
  BY <1>7 DEF AllocFails, Return, Conclude
<1>8. CASE Unguard(t)
  BY <1>8 DEF Unguard, Return, Conclude
<1>9. CASE Find(t)
  BY <1>9 DEF Find, Finds
<1>10. CASE FindNothing(t)
  BY <1>10 DEF FindNothing, Return, Conclude
<1>11. CASE Get(t)
  <2>1. mobj[t] \in reg_shm_list /\ refc[mobj[t]] # 0
    <3>1. mobj[t] \in reg_shm_list /\ cookie[mobj[t]] = arg[t] /\ arg[t] # NoCookie
      BY <1>11 DEF Get, KindOK
    <3>2. reg[arg[t]] # "leaving"
      BY <1>11 DEF Get, RegOK
    <3>3. ~releasing[mobj[t]]
      BY <3>1, <3>2 DEF ReleasingOK
    <3>4. guarded[mobj[t]] => \E u \in Threads : mobj[u] = mobj[t] /\ pc[u] = "unguard"
      BY <3>1 DEF GuardOK
    <3> QED
      BY <3>1, <3>3, <3>4, NoHolders DEF Holding
  <2> QED
    BY <1>11, <2>1 DEF Get
<1>12. CASE IncMap(t)
  BY <1>12 DEF IncMap
<1>13. CASE IncMapLocked(t)
  BY <1>13 DEF IncMapLocked, FreeVas
<1>14. CASE MapFails(t)
  BY <1>14 DEF MapFails, Skipped
<1>15. CASE Use(t)
  BY <1>15 DEF Use
<1>16. CASE DecMap(t)
  BY <1>16 DEF DecMap
<1>17. CASE DecMapLocked(t)
  BY <1>17 DEF DecMapLocked
<1>18. CASE Put(t)
  BY <1>18 DEF Put, After, Return, Conclude
<1>19. CASE Free(t)
  BY <1>19 DEF Free
<1>20. CASE FreeGuarded(t)
  <2>1. Returned(t) /\ pc[t] = "freeguarded"
    BY <1>20, AfterReturns DEF FreeGuarded
  <2>2. PICK m \in reg_shm_list :
           /\ m = mobj[t] /\ cookie[m] = NoCookie /\ job[t] # "unregister"
           /\ \A u \in Threads : Refers(u, m) => u = t
    BY <2>1, FreedAlone
  <2>3. FreeHelper(m)
    BY <1>20, <2>2 DEF FreeGuarded
  <2> QED
    BY <2>1, <2>2, <2>3, SMTT(20) DEF FreeHelper, Returned
<1>21. CASE FreeNotify(t)
  BY <1>21 DEF FreeNotify
<1>22. CASE ReleaseFind(t)
  BY <1>22 DEF ReleaseFind, Releasable, Finds
<1>23. CASE ReleaseRefused(t)
  BY <1>23 DEF ReleaseRefused, Releasable, Finds, Return, Conclude
<1>24. CASE ReleaseFrees(t)
  BY <1>24, FreedAlone DEF ReleaseFrees, FreeHelper, Return, Conclude
<1>25. CASE ReleaseNotYet(t)
  BY <1>25 DEF ReleaseNotYet
<1>26. CASE ReleaseWait(t)
  BY <1>26 DEF ReleaseWait
<1>27. CASE Notify(t)
  <2>1. Returned(t) /\ pc[t] = "notify"
    BY <1>27, AfterReturns DEF Notify
  <2> QED
    BY <1>27, <2>1, SMTT(20) DEF Notify, Returned
<1>28. CASE ReleaseLock(t)
  BY <1>28 DEF ReleaseLock
<1>29. CASE ReleaseWoken(t)
  BY <1>29 DEF ReleaseWoken
<1> QED
  BY <1>1, <1>2, <1>3, <1>4, <1>5, <1>6, <1>7, <1>8, <1>9, <1>10, <1>11, <1>12, <1>13,
     <1>14, <1>15, <1>16, <1>17, <1>18, <1>19, <1>20, <1>21, <1>22, <1>23, <1>24, <1>25,
     <1>26, <1>27, <1>28, <1>29
     DEF Request, Steps, Locking

\* Of two releases of one cookie, one finds the object.
LEMMA ReleasingStep ==
    ASSUME IInv, NEW t \in Threads, Request(t) \/ Steps(t) \/ Locking(t)
    PROVE  ReleasingOK'
<1> USE NoneOK DEF IInv, TypeOK, Goto, fields, sync, locals, Frames, Frame, Releaser,
     ReleasingOK, Refers, NoUseAfterFree, ObjectsOK
<1>1. ASSUME NEW c \in Cookies, CallRegister(t, c) PROVE ReleasingOK'
  BY <1>1 DEF CallRegister, Requests
<1>2. ASSUME NEW c \in Cookies, CallRmem(t, c) PROVE ReleasingOK'
  BY <1>2 DEF CallRmem, Requests
<1>3. ASSUME NEW c \in Cookies, CallUnregister(t, c) PROVE ReleasingOK'
  BY <1>3 DEF CallUnregister, Requests
<1>4. ASSUME NEW j \in Jobs, CallTmem(t, j) PROVE ReleasingOK'
  BY <1>4 DEF CallTmem, Requests
<1>5. ASSUME NEW m \in Mobjs, PageAlloc(t, m) PROVE ReleasingOK'
  BY <1>5 DEF PageAlloc, Insert
<1>6. ASSUME NEW m \in Mobjs, BufferAlloc(t, m) PROVE ReleasingOK'
  BY <1>6 DEF BufferAlloc, Insert
<1>7. CASE AllocFails(t)
  BY <1>7 DEF AllocFails, Return, Conclude, RegOK
<1>8. CASE Unguard(t)
  BY <1>8 DEF Unguard, Return, Conclude, RegOK
<1>9. CASE Find(t)
  BY <1>9 DEF Find, Finds
<1>10. CASE FindNothing(t)
  BY <1>10 DEF FindNothing, Return, Conclude
<1>11. CASE Get(t)
  BY <1>11 DEF Get
<1>12. CASE IncMap(t)
  BY <1>12 DEF IncMap
<1>13. CASE IncMapLocked(t)
  BY <1>13 DEF IncMapLocked, FreeVas
<1>14. CASE MapFails(t)
  BY <1>14 DEF MapFails, RegOK
<1>15. CASE Use(t)
  BY <1>15 DEF Use
<1>16. CASE DecMap(t)
  BY <1>16 DEF DecMap
<1>17. CASE DecMapLocked(t)
  BY <1>17 DEF DecMapLocked
<1>18. CASE Put(t)
  <2>1. CASE refc[mobj[t]] = 1
    BY <1>18, <2>1 DEF Put
  <2>2. CASE refc[mobj[t]] # 1
    <3>1. Returned(t) /\ pc[t] = "put"
      BY <1>18, <2>2, AfterReturns DEF Put
    <3> QED
      BY <1>18, <2>2, <3>1, SMTT(20) DEF Put, Returned
  <2> QED
    BY <2>1, <2>2
<1>19. CASE Free(t)
  BY <1>19 DEF Free
<1>20. CASE FreeGuarded(t)
  <2>1. Returned(t) /\ pc[t] = "freeguarded"
    BY <1>20, AfterReturns DEF FreeGuarded
  <2>2. PICK m \in reg_shm_list :
           /\ m = mobj[t] /\ cookie[m] = NoCookie /\ job[t] # "unregister"
           /\ \A u \in Threads : Refers(u, m) => u = t
    BY <2>1, FreedAlone
  <2>3. FreeHelper(m)
    BY <1>20, <2>2 DEF FreeGuarded
  <2>4. reg' = reg /\ UNCHANGED sync
    BY <1>20, <2>1 DEF FreeGuarded, Returned
  <2>5. \A u \in Threads : job[u] = "unregister" =>
           pc'[u] = pc[u] /\ job'[u] = job[u] /\ mobj'[u] = mobj[u] /\ arg'[u] = arg[u] /\ mobj[u] # m
    BY <2>1, <2>2 DEF Returned
  <2>6. \A u \in Threads : job'[u] \in {"register", "unregister", "rmem"} =>
           job'[u] = job[u] /\ arg'[u] = arg[u] /\ (pc'[u] # pc[u] => pc'[u] \in {"page",
                "alloc"})
    BY <2>1, <2>2 DEF Returned
  <2> QED
    BY <2>1, <2>2, <2>3, <2>4, <2>5, <2>6 DEF FreeHelper, Returned
<1>21. CASE FreeNotify(t)
  BY <1>21 DEF FreeNotify
<1>22. CASE ReleaseFind(t)
  <2>1. PICK m \in reg_shm_list :
           /\ cookie[m] = arg[t] /\ ~guarded[m] /\ ~releasing[m]
           /\ releasing' = [releasing EXCEPT ![m] = TRUE] /\ mobj' = [mobj EXCEPT ![t] = m]
    BY <1>22 DEF ReleaseFind, Releasable, Finds
  <2>2. job[t] = "unregister" /\ arg[t] \in Cookies /\ reg[arg[t]] = "leaving"
    BY <1>22, <2>1 DEF ReleaseFind, RegOK
  <2> QED
    BY <1>22, <2>1, <2>2 DEF ReleaseFind
<1>23. CASE ReleaseRefused(t)
  BY <1>23 DEF ReleaseRefused, Releasable, Finds, Return, Conclude
<1>24. CASE ReleaseFrees(t)
  <2>1. pc[t] = "rcheck" /\ release_frees[mobj[t]] /\ job[t] = "unregister"
    BY <1>24 DEF ReleaseFrees, Return
  <2>2. PICK m \in reg_shm_list :
           m = mobj[t] /\ cookie[m] = arg[t] /\ \A u \in Threads : Refers(u, m) => u = t
    BY <2>1, FreedAlone
  <2>3. FreeHelper(m)
    BY <1>24, <2>2 DEF ReleaseFrees
  <2>4. \A n \in reg_shm_list \ {m} : cookie[n] # arg[t]
    BY <2>1, <2>2 DEF RegOK
  <2> QED
    BY <1>24, <2>1, <2>2, <2>3, <2>4 DEF ReleaseFrees, FreeHelper, Return, Conclude
<1>25. CASE ReleaseNotYet(t)
  BY <1>25 DEF ReleaseNotYet
<1>26. CASE ReleaseWait(t)
  BY <1>26 DEF ReleaseWait
<1>27. CASE Notify(t)
  <2>1. Returned(t) /\ pc[t] = "notify"
    BY <1>27, AfterReturns DEF Notify
  <2> QED
    BY <1>27, <2>1, SMTT(20) DEF Notify, Returned
<1>28. CASE ReleaseLock(t)
  BY <1>28 DEF ReleaseLock
<1>29. CASE ReleaseWoken(t)
  BY <1>29 DEF ReleaseWoken
<1> QED
  BY <1>1, <1>2, <1>3, <1>4, <1>5, <1>6, <1>7, <1>8, <1>9, <1>10, <1>11, <1>12, <1>13,
     <1>14, <1>15, <1>16, <1>17, <1>18, <1>19, <1>20, <1>21, <1>22, <1>23, <1>24, <1>25,
     <1>26, <1>27, <1>28, <1>29
     DEF Request, Steps, Locking

\* The thread that takes the count to zero is the only one to leave the object.
LEMMA ZeroStep ==
    ASSUME IInv, NEW t \in Threads, Request(t) \/ Steps(t) \/ Locking(t)
    PROVE  ZeroOK'
<1> USE NoneOK DEF IInv, TypeOK, Goto, fields, sync, locals, Frames, Frame, Releaser,
     ZeroOK, Leaving, Refers, NoUseAfterFree, ObjectsOK
<1>1. ASSUME NEW c \in Cookies, CallRegister(t, c) PROVE ZeroOK'
  BY <1>1 DEF CallRegister, Requests
<1>2. ASSUME NEW c \in Cookies, CallRmem(t, c) PROVE ZeroOK'
  BY <1>2 DEF CallRmem, Requests
<1>3. ASSUME NEW c \in Cookies, CallUnregister(t, c) PROVE ZeroOK'
  BY <1>3 DEF CallUnregister, Requests
<1>4. ASSUME NEW j \in Jobs, CallTmem(t, j) PROVE ZeroOK'
  BY <1>4 DEF CallTmem, Requests
<1>5. ASSUME NEW m \in Mobjs, PageAlloc(t, m) PROVE ZeroOK'
  BY <1>5 DEF PageAlloc, Insert
<1>6. ASSUME NEW m \in Mobjs, BufferAlloc(t, m) PROVE ZeroOK'
  BY <1>6 DEF BufferAlloc, Insert
<1>7. CASE AllocFails(t)
  BY <1>7 DEF AllocFails, Return, Conclude
<1>8. CASE Unguard(t)
  <2>1. refc[mobj[t]] > 0
    BY <1>8, Positive DEF Unguard, Return, Holding
  <2> QED
    BY <1>8, <2>1 DEF Unguard, Return
<1>9. CASE Find(t)
  BY <1>9 DEF Find, Finds
<1>10. CASE FindNothing(t)
  BY <1>10 DEF FindNothing, Return, Conclude
<1>11. CASE Get(t)
  BY <1>11 DEF Get
<1>12. CASE IncMap(t)
  BY <1>12 DEF IncMap
<1>13. CASE IncMapLocked(t)
  BY <1>13 DEF IncMapLocked, FreeVas
<1>14. CASE MapFails(t)
  BY <1>14 DEF MapFails, Skipped
<1>15. CASE Use(t)
  BY <1>15 DEF Use
<1>16. CASE DecMap(t)
  BY <1>16 DEF DecMap
<1>17. CASE DecMapLocked(t)
  BY <1>17 DEF DecMapLocked
<1>18. CASE Put(t)
  <2>0. mobj[t] \in reg_shm_list /\ refc[mobj[t]] \in Nat /\ refc[mobj[t]] > 0
    BY <1>18, Positive DEF Put, Holding
  <2>1. CASE refc[mobj[t]] = 1
    BY <1>18, <2>1, <2>0 DEF Put
  <2>2. CASE refc[mobj[t]] # 1
    <3>1. Returned(t) /\ pc[t] = "put"
      BY <1>18, <2>2, AfterReturns DEF Put
    <3> QED
      BY <1>18, <2>2, <3>1, <2>0, SMTT(20) DEF Put, Returned
  <2> QED
    BY <2>1, <2>2
<1>19. CASE Free(t)
  <2>1. guarded[mobj[t]] \/ releasing[mobj[t]]
    BY <1>19, NoHolders DEF Free
  <2> QED
    BY <1>19, <2>1 DEF Free
<1>20. CASE FreeGuarded(t)
  <2>1. Returned(t) /\ pc[t] = "freeguarded"
    BY <1>20, AfterReturns DEF FreeGuarded
  <2>2. PICK m \in reg_shm_list :
           /\ m = mobj[t] /\ cookie[m] = NoCookie /\ job[t] # "unregister"
           /\ \A u \in Threads : Refers(u, m) => u = t
    BY <2>1, FreedAlone
  <2>3. FreeHelper(m)
    BY <1>20, <2>2 DEF FreeGuarded
  <2> QED
    BY <2>1, <2>2, <2>3, SMTT(20) DEF FreeHelper, Returned
<1>21. CASE FreeNotify(t)
  BY <1>21 DEF FreeNotify
<1>22. CASE ReleaseFind(t)
  BY <1>22 DEF ReleaseFind, Releasable, Finds
<1>23. CASE ReleaseRefused(t)
  BY <1>23 DEF ReleaseRefused, Releasable, Finds, Return, Conclude
<1>24. CASE ReleaseFrees(t)
  BY <1>24, FreedAlone DEF ReleaseFrees, FreeHelper, Return, Conclude
<1>25. CASE ReleaseNotYet(t)
  BY <1>25 DEF ReleaseNotYet
<1>26. CASE ReleaseWait(t)
  BY <1>26 DEF ReleaseWait
<1>27. CASE Notify(t)
  <2>1. Returned(t) /\ pc[t] = "notify"
    BY <1>27, AfterReturns DEF Notify
  <2> QED
    BY <1>27, <2>1, SMTT(20) DEF Notify, Returned
<1>28. CASE ReleaseLock(t)
  BY <1>28 DEF ReleaseLock
<1>29. CASE ReleaseWoken(t)
  BY <1>29 DEF ReleaseWoken
<1> QED
  BY <1>1, <1>2, <1>3, <1>4, <1>5, <1>6, <1>7, <1>8, <1>9, <1>10, <1>11, <1>12, <1>13,
     <1>14, <1>15, <1>16, <1>17, <1>18, <1>19, <1>20, <1>21, <1>22, <1>23, <1>24, <1>25,
     <1>26, <1>27, <1>28, <1>29
     DEF Request, Steps, Locking

\* The driver and the list agree on the cookies.
LEMMA RegStep ==
    ASSUME IInv, NEW t \in Threads, Request(t) \/ Steps(t) \/ Locking(t)
    PROVE  RegOK'
<1> USE NoneOK DEF IInv, TypeOK, Goto, fields, sync, locals, Frames, Frame, Releaser,
     RegOK, Refers, NoUseAfterFree, ObjectsOK
<1>1. ASSUME NEW c \in Cookies, CallRegister(t, c) PROVE RegOK'
  BY <1>1 DEF CallRegister, Requests
<1>2. ASSUME NEW c \in Cookies, CallRmem(t, c) PROVE RegOK'
  BY <1>2 DEF CallRmem, Requests
<1>3. ASSUME NEW c \in Cookies, CallUnregister(t, c) PROVE RegOK'
  BY <1>3 DEF CallUnregister, Requests
<1>4. ASSUME NEW j \in Jobs, CallTmem(t, j) PROVE RegOK'
  BY <1>4 DEF CallTmem, Requests
<1>5. ASSUME NEW m \in Mobjs, PageAlloc(t, m) PROVE RegOK'
  BY <1>5 DEF PageAlloc, Insert
<1>6. ASSUME NEW m \in Mobjs, BufferAlloc(t, m) PROVE RegOK'
  <2>1. CASE job[t] = "register"
    <3>1. pc'[t] = "unguard" /\ \A n \in reg_shm_list : cookie[n] # arg[t]
      BY <1>6, <2>1 DEF BufferAlloc, Insert
    <3> QED
      BY <1>6, <2>1, <3>1, SMTT(20) DEF BufferAlloc, Insert
  <2>2. CASE job[t] # "register"
    <3>1. arg[t] = NoCookie
      BY <1>6, <2>2 DEF BufferAlloc
    <3> QED
      BY <1>6, <2>2, <3>1, SMTT(20) DEF BufferAlloc, Insert
  <2> QED
    BY <2>1, <2>2
<1>7. CASE AllocFails(t)
  BY <1>7, SMTT(30) DEF AllocFails, Return, Conclude
<1>8. CASE Unguard(t)
  <2>1. PICK m \in reg_shm_list : m = mobj[t] /\ cookie[m] = arg[t]
    BY <1>8 DEF Unguard, Return, KindOK
  <2>2. PICK c \in Cookies : c = arg[t] /\ reg[c] = "busy" /\ reg' = [reg EXCEPT ![c] = "shared"]
    BY <1>8 DEF Unguard, Return, Conclude
  <2>3. \A u \in Threads \ {t} : arg[u] = c => job[u] # "register"
    BY <1>8, <2>2 DEF Unguard, Return
  <2>4. \A n \in reg_shm_list : cookie[n] = c => n = m
    BY <1>8, <2>1, <2>2
  <2> QED
    BY <1>8, <2>1, <2>2, <2>3, <2>4 DEF Unguard, Return
<1>9. CASE Find(t)
  BY <1>9 DEF Find, Finds
<1>10. CASE FindNothing(t)
  BY <1>10 DEF FindNothing, Return, Conclude
<1>11. CASE Get(t)
  BY <1>11 DEF Get
<1>12. CASE IncMap(t)
  BY <1>12 DEF IncMap
<1>13. CASE IncMapLocked(t)
  BY <1>13 DEF IncMapLocked, FreeVas
<1>14. CASE MapFails(t)
  BY <1>14 DEF MapFails, Skipped
<1>15. CASE Use(t)
  BY <1>15 DEF Use
<1>16. CASE DecMap(t)
  BY <1>16 DEF DecMap
<1>17. CASE DecMapLocked(t)
  BY <1>17 DEF DecMapLocked
<1>18. CASE Put(t)
  <2>1. CASE refc[mobj[t]] = 1
    BY <1>18, <2>1 DEF Put
  <2>2. CASE refc[mobj[t]] # 1
    <3>1. Returned(t) /\ pc[t] = "put"
      BY <1>18, <2>2, AfterReturns DEF Put
    <3> QED
      BY <1>18, <2>2, <3>1, SMTT(20) DEF Put, Returned
  <2> QED
    BY <2>1, <2>2
<1>19. CASE Free(t)
  BY <1>19 DEF Free
<1>20. CASE FreeGuarded(t)
  <2>1. Returned(t) /\ pc[t] = "freeguarded"
    BY <1>20, AfterReturns DEF FreeGuarded
  <2>2. PICK m \in reg_shm_list :
           /\ m = mobj[t] /\ cookie[m] = NoCookie /\ job[t] # "unregister"
           /\ \A u \in Threads : Refers(u, m) => u = t
    BY <2>1, FreedAlone
  <2>3. FreeHelper(m)
    BY <1>20, <2>2 DEF FreeGuarded
  <2>4. reg' = reg
    BY <1>20, <2>1 DEF FreeGuarded, Returned
  <2>5. \A n \in reg_shm_list' :
           /\ n \in reg_shm_list /\ n # m
           /\ cookie'[n] = cookie[n] /\ guarded'[n] = guarded[n] /\ releasing'[n] = releasing[n]
    BY <2>2, <2>3 DEF FreeHelper
  <2>6. \A n \in reg_shm_list : cookie[n] # NoCookie => n \in reg_shm_list'
    BY <2>2, <2>3 DEF FreeHelper
  <2>7. \A u \in Threads :
           /\ job[u] \in {"register", "unregister"} <=> job'[u] \in {"register",
                "unregister"}
           /\ job'[u] \in {"register", "unregister"} => job'[u] = job[u] /\ arg'[u] = arg[u]
           /\ pc[u] \in {"unguard", "rfind", "find", "get"} \/ pc'[u] \in {"unguard",
                "rfind", "find", "get"}
                => pc'[u] = pc[u] /\ arg'[u] = arg[u] /\ mobj'[u] = mobj[u]
    BY <2>1, <2>2 DEF Returned
  <2> HIDE DEF TypeOK, Frames, ObjectsOK, NoUseAfterFree, Refers
  <2> QED
    BY <2>2, <2>4, <2>5, <2>6, <2>7
<1>21. CASE FreeNotify(t)
  BY <1>21 DEF FreeNotify
<1>22. CASE ReleaseFind(t)
  BY <1>22 DEF ReleaseFind, Releasable, Finds
<1>23. CASE ReleaseRefused(t)
  BY <1>23 DEF ReleaseRefused, Releasable, Finds, Return, Conclude
<1>24. CASE ReleaseFrees(t)
  <2>1. pc[t] = "rcheck" /\ release_frees[mobj[t]] /\ job[t] = "unregister"
    BY <1>24 DEF ReleaseFrees, Return
  <2>2. PICK m \in reg_shm_list :
           m = mobj[t] /\ cookie[m] = arg[t] /\ \A u \in Threads : Refers(u, m) => u = t
    BY <2>1, FreedAlone
  <2>3. FreeHelper(m)
    BY <1>24, <2>2 DEF ReleaseFrees
  <2>4. \A n \in reg_shm_list \ {m} : cookie[n] # arg[t]
    BY <2>1, <2>2
  <2>5. \A u \in Threads : arg[u] = arg[t] => job[u] # "register"
    BY <2>1, <2>2, <2>3 DEF ReleasingOK
  <2> QED
    BY <1>24, <2>1, <2>2, <2>3, <2>4, <2>5, SMTT(30) DEF ReleaseFrees, FreeHelper, Return, Conclude
<1>25. CASE ReleaseNotYet(t)
  BY <1>25 DEF ReleaseNotYet
<1>26. CASE ReleaseWait(t)
  BY <1>26 DEF ReleaseWait
<1>27. CASE Notify(t)
  <2>1. Returned(t) /\ pc[t] = "notify"
    BY <1>27, AfterReturns DEF Notify
  <2> QED
    BY <1>27, <2>1, SMTT(20) DEF Notify, Returned
<1>28. CASE ReleaseLock(t)
  BY <1>28 DEF ReleaseLock
<1>29. CASE ReleaseWoken(t)
  BY <1>29 DEF ReleaseWoken
<1> QED
  BY <1>1, <1>2, <1>3, <1>4, <1>5, <1>6, <1>7, <1>8, <1>9, <1>10, <1>11, <1>12, <1>13,
     <1>14, <1>15, <1>16, <1>17, <1>18, <1>19, <1>20, <1>21, <1>22, <1>23, <1>24, <1>25,
     <1>26, <1>27, <1>28, <1>29
     DEF Request, Steps, Locking

\* Counting one element more or less.
LEMMA CardOne ==
    ASSUME NEW S, NEW x, S = {x}
    PROVE  Cardinality(S) = 1
BY FS_Singleton

\* One element more ...
LEMMA CardMore ==
    ASSUME NEW S, NEW T, NEW x, IsFiniteSet(S), x \notin S, T = S \cup {x}
    PROVE  Cardinality(T) = Cardinality(S) + 1
BY FS_AddElement

\* ... and one less.
LEMMA CardLess ==
    ASSUME NEW S, NEW T, NEW x, IsFiniteSet(S), x \in S, T = S \ {x}
    PROVE  Cardinality(T) = Cardinality(S) - 1
BY FS_RemoveElement

\* The reference counts stay exact.
LEMMA RefcountStep ==
    ASSUME IInv, NEW t \in Threads, Request(t) \/ Steps(t) \/ Locking(t),
           UNCHANGED left
    PROVE  RefcountExact'
<1> USE NoneOK DEF IInv, TypeOK, Goto, fields, sync, locals, Frames, Frame, Releaser,
     NoUseAfterFree
<1>1. ASSUME NEW c \in Cookies, CallRegister(t, c) PROVE RefcountExact'
  <2>1. \A n \in Mobjs : RefHolders(n)' = RefHolders(n)
    BY <1>1 DEF CallRegister, Requests, RefHolders, Holding
  <2> QED
    BY <1>1, <2>1 DEF CallRegister, Requests, RefcountExact
<1>2. ASSUME NEW c \in Cookies, CallRmem(t, c) PROVE RefcountExact'
  <2>1. \A n \in Mobjs : RefHolders(n)' = RefHolders(n)
    BY <1>2 DEF CallRmem, Requests, RefHolders, Holding
  <2> QED
    BY <1>2, <2>1 DEF CallRmem, Requests, RefcountExact
<1>3. ASSUME NEW c \in Cookies, CallUnregister(t, c) PROVE RefcountExact'
  <2>1. \A n \in Mobjs : RefHolders(n)' = RefHolders(n)
    BY <1>3 DEF CallUnregister, Requests, RefHolders, Holding
  <2> QED
    BY <1>3, <2>1 DEF CallUnregister, Requests, RefcountExact
<1>4. ASSUME NEW j \in Jobs, CallTmem(t, j) PROVE RefcountExact'
  <2>1. \A n \in Mobjs : RefHolders(n)' = RefHolders(n)
    BY <1>4 DEF CallTmem, Requests, RefHolders, Holding
  <2> QED
    BY <1>4, <2>1 DEF CallTmem, Requests, RefcountExact
<1>5. ASSUME NEW m \in Mobjs, PageAlloc(t, m) PROVE RefcountExact'
  <2>1. RefHolders(m)' = {t}
    BY <1>5 DEF PageAlloc, Insert, RefHolders, Holding
  <2>2. \A n \in Mobjs \ {m} : RefHolders(n)' = RefHolders(n)
    BY <1>5 DEF PageAlloc, Insert, RefHolders, Holding
  <2>3. Cardinality(RefHolders(m)') = 1
    BY <2>1, CardOne, ZenonT(60)
  <2>4. m \notin left
    BY <1>5 DEF PageAlloc, Insert, ObjectsOK, LeftOK
  <2> QED
    BY <1>5, <2>2, <2>3, <2>4 DEF PageAlloc, Insert, RefcountExact
<1>6. ASSUME NEW m \in Mobjs, BufferAlloc(t, m) PROVE RefcountExact'
  <2>1. RefHolders(m)' = {t}
    BY <1>6 DEF BufferAlloc, Insert, RefHolders, Holding
  <2>2. \A n \in Mobjs \ {m} : RefHolders(n)' = RefHolders(n)
    BY <1>6 DEF BufferAlloc, Insert, RefHolders, Holding
  <2>3. Cardinality(RefHolders(m)') = 1
    BY <2>1, CardOne, ZenonT(60)
  <2>4. m \notin left
    BY <1>6 DEF BufferAlloc, Insert, ObjectsOK, LeftOK
  <2> QED
    BY <1>6, <2>2, <2>3, <2>4 DEF BufferAlloc, Insert, RefcountExact
<1>7. CASE AllocFails(t)
  <2>1. \A n \in Mobjs : RefHolders(n)' = RefHolders(n)
    BY <1>7 DEF AllocFails, Return, Conclude, RefHolders, Holding
  <2> QED
    BY <1>7, <2>1 DEF AllocFails, Return, Conclude, RefcountExact
<1>8. CASE Unguard(t)
  <2>0. PICK m \in reg_shm_list : m = mobj[t]
    BY <1>8 DEF Unguard, Return
  <2>1. t \in RefHolders(m) /\ RefHolders(m)' = RefHolders(m) \ {t}
    BY <1>8, <2>0 DEF Unguard, Return, RefHolders, Holding
  <2>2. \A n \in Mobjs \ {m} : RefHolders(n)' = RefHolders(n)
    BY <1>8, <2>0 DEF Unguard, Return, RefHolders, Holding
  <2>3. IsFiniteSet(RefHolders(m)) /\ Cardinality(RefHolders(m)) \in Nat
    BY ThreadsFinite, FS_Subset, FS_CardinalityType DEF RefHolders
  <2>4. Cardinality(RefHolders(m)') = Cardinality(RefHolders(m)) - 1
    BY <2>1, <2>3, CardLess
  <2>5. guarded[m] /\ ~releasing[m]
    BY <1>8, <2>0 DEF Unguard, Return, ObjectsOK, GuardOK, ReleasingOK
  <2>6. m \notin left
    BY <1>8, <2>0 DEF Unguard, Return, ObjectsOK, LeftOK, Refers
  <2> QED
    BY <1>8, <2>0, <2>2, <2>3, <2>4, <2>5, <2>6 DEF Unguard, Return, RefcountExact
<1>9. CASE Find(t)
  <2>1. \A n \in Mobjs : RefHolders(n)' = RefHolders(n)
    BY <1>9 DEF Find, Finds, RefHolders, Holding
  <2> QED
    BY <1>9, <2>1 DEF Find, Finds, RefcountExact
<1>10. CASE FindNothing(t)
  <2>1. \A n \in Mobjs : RefHolders(n)' = RefHolders(n)
    BY <1>10 DEF FindNothing, Return, Conclude, RefHolders, Holding
  <2> QED
    BY <1>10, <2>1 DEF FindNothing, Return, Conclude, RefcountExact
<1>11. CASE Get(t)
  <2>0. PICK m \in reg_shm_list : m = mobj[t]
    BY <1>11 DEF Get
  <2>a. refc[m] # 0
    BY <1>11, <2>0, PointersStep DEF Get
  <2>1. t \notin RefHolders(m) /\ RefHolders(m)' = RefHolders(m) \cup {t}
    BY <1>11, <2>0, <2>a DEF Get, RefHolders, Holding
  <2>2. \A n \in Mobjs \ {m} : RefHolders(n)' = RefHolders(n)
    BY <1>11, <2>0, <2>a DEF Get, RefHolders, Holding
  <2>3. IsFiniteSet(RefHolders(m)) /\ Cardinality(RefHolders(m)) \in Nat
    BY ThreadsFinite, FS_Subset, FS_CardinalityType DEF RefHolders
  <2>4. Cardinality(RefHolders(m)') = Cardinality(RefHolders(m)) + 1
    BY <2>1, <2>3, CardMore
  <2> QED
    BY <1>11, <2>0, <2>a, <2>2, <2>3, <2>4 DEF Get, RefcountExact
<1>12. CASE IncMap(t)
  <2>1. \A n \in Mobjs : RefHolders(n)' = RefHolders(n)
    BY <1>12 DEF IncMap, RefHolders, Holding
  <2> QED
    BY <1>12, <2>1 DEF IncMap, RefcountExact
<1>13. CASE IncMapLocked(t)
  <2>1. \A n \in Mobjs : RefHolders(n)' = RefHolders(n)
    BY <1>13 DEF IncMapLocked, FreeVas, RefHolders, Holding
  <2> QED
    BY <1>13, <2>1 DEF IncMapLocked, FreeVas, RefcountExact
<1>14. CASE MapFails(t)
  <2>1. \A n \in Mobjs : RefHolders(n)' = RefHolders(n)
    BY <1>14 DEF MapFails, RefHolders, Holding
  <2> QED
    BY <1>14, <2>1 DEF MapFails, RefcountExact
<1>15. CASE Use(t)
  <2>1. \A n \in Mobjs : RefHolders(n)' = RefHolders(n)
    BY <1>15 DEF Use, RefHolders, Holding
  <2> QED
    BY <1>15, <2>1 DEF Use, RefcountExact
<1>16. CASE DecMap(t)
  <2>1. \A n \in Mobjs : RefHolders(n)' = RefHolders(n)
    BY <1>16 DEF DecMap, RefHolders, Holding
  <2> QED
    BY <1>16, <2>1 DEF DecMap, RefcountExact
<1>17. CASE DecMapLocked(t)
  <2>1. \A n \in Mobjs : RefHolders(n)' = RefHolders(n)
    BY <1>17 DEF DecMapLocked, RefHolders, Holding
  <2> QED
    BY <1>17, <2>1 DEF DecMapLocked, RefcountExact
<1>18. CASE Put(t)
  <2>0. PICK m \in reg_shm_list : m = mobj[t]
    BY <1>18 DEF Put
  <2>1. t \in RefHolders(m) /\ RefHolders(m)' = RefHolders(m) \ {t}
    BY <1>18, <2>0, AfterReturns DEF Put, Returned, RefHolders, Holding
  <2>2. \A n \in Mobjs \ {m} : RefHolders(n)' = RefHolders(n)
    BY <1>18, <2>0, AfterReturns DEF Put, Returned, RefHolders, Holding
  <2>3. IsFiniteSet(RefHolders(m)) /\ Cardinality(RefHolders(m)) \in Nat
    BY ThreadsFinite, FS_Subset, FS_CardinalityType DEF RefHolders
  <2>4. Cardinality(RefHolders(m)') = Cardinality(RefHolders(m)) - 1
    BY <2>1, <2>3, CardLess
  <2> QED
    BY <1>18, <2>0, <2>2, <2>3, <2>4 DEF Put, RefcountExact
<1>19. CASE Free(t)
  <2>1. \A n \in Mobjs : RefHolders(n)' = RefHolders(n)
    BY <1>19 DEF Free, RefHolders, Holding
  <2> QED
    BY <1>19, <2>1 DEF Free, RefcountExact
<1>20. CASE FreeGuarded(t)
  <2>0. Returned(t) /\ pc[t] = "freeguarded"
    BY <1>20, AfterReturns DEF FreeGuarded
  <2>1. \A n \in Mobjs : RefHolders(n)' = RefHolders(n)
    BY <2>0 DEF Returned, RefHolders, Holding
  <2> QED
    BY <1>20, <2>1 DEF FreeGuarded, FreeHelper, RefcountExact
<1>21. CASE FreeNotify(t)
  <2>1. \A n \in Mobjs : RefHolders(n)' = RefHolders(n)
    BY <1>21 DEF FreeNotify, RefHolders, Holding
  <2> QED
    BY <1>21, <2>1 DEF FreeNotify, RefcountExact
<1>22. CASE ReleaseFind(t)
  <2>0. PICK m \in reg_shm_list :
           /\ ~guarded[m] /\ ~releasing[m]
           /\ releasing' = [releasing EXCEPT ![m] = TRUE] /\ mobj' = [mobj EXCEPT ![t] = m]
    BY <1>22 DEF ReleaseFind, Releasable, Finds
  <2>1. t \notin RefHolders(m) /\ RefHolders(m)' = RefHolders(m) \cup {t}
    BY <1>22, <2>0 DEF ReleaseFind, RefHolders, Holding
  <2>2. \A n \in Mobjs \ {m} : RefHolders(n)' = RefHolders(n)
    BY <1>22, <2>0 DEF ReleaseFind, RefHolders, Holding
  <2>3. IsFiniteSet(RefHolders(m)) /\ Cardinality(RefHolders(m)) \in Nat
    BY ThreadsFinite, FS_Subset, FS_CardinalityType DEF RefHolders
  <2>4. Cardinality(RefHolders(m)') = Cardinality(RefHolders(m)) + 1
    BY <2>1, <2>3, CardMore
  <2>5. m \notin left
    BY <2>0 DEF ObjectsOK, LeftOK, PrivateOK
  <2> QED
    BY <1>22, <2>0, <2>2, <2>3, <2>4, <2>5 DEF ReleaseFind, RefcountExact
<1>23. CASE ReleaseRefused(t)
  <2>1. \A n \in Mobjs : RefHolders(n)' = RefHolders(n)
    BY <1>23 DEF ReleaseRefused, Releasable, Finds, Return, Conclude, RefHolders, Holding
  <2> QED
    BY <1>23, <2>1 DEF ReleaseRefused, Releasable, Finds, Return, Conclude, RefcountExact
<1>24. CASE ReleaseFrees(t)
  <2>1. \A n \in Mobjs : RefHolders(n)' = RefHolders(n)
    BY <1>24 DEF ReleaseFrees, FreeHelper, Return, Conclude, RefHolders, Holding
  <2> QED
    BY <1>24, <2>1 DEF ReleaseFrees, FreeHelper, Return, Conclude, RefcountExact
<1>25. CASE ReleaseNotYet(t)
  <2>1. \A n \in Mobjs : RefHolders(n)' = RefHolders(n)
    BY <1>25 DEF ReleaseNotYet, RefHolders, Holding
  <2> QED
    BY <1>25, <2>1 DEF ReleaseNotYet, RefcountExact
<1>26. CASE ReleaseWait(t)
  <2>1. \A n \in Mobjs : RefHolders(n)' = RefHolders(n)
    BY <1>26 DEF ReleaseWait, RefHolders, Holding
  <2> QED
    BY <1>26, <2>1 DEF ReleaseWait, RefcountExact
<1>27. CASE Notify(t)
  <2>0. Returned(t) /\ pc[t] = "notify"
    BY <1>27, AfterReturns DEF Notify
  <2>1. \A n \in Mobjs : RefHolders(n)' = RefHolders(n)
    BY <2>0 DEF Returned, RefHolders, Holding
  <2> QED
    BY <1>27, <2>1 DEF Notify, RefcountExact
<1>28. CASE ReleaseLock(t)
  <2>1. \A n \in Mobjs : RefHolders(n)' = RefHolders(n)
    BY <1>28 DEF ReleaseLock, RefHolders, Holding
  <2> QED
    BY <1>28, <2>1 DEF ReleaseLock, RefcountExact
<1>29. CASE ReleaseWoken(t)
  <2>1. \A n \in Mobjs : RefHolders(n)' = RefHolders(n)
    BY <1>29 DEF ReleaseWoken, RefHolders, Holding
  <2> QED
    BY <1>29, <2>1 DEF ReleaseWoken, RefcountExact
<1> QED
  BY <1>1, <1>2, <1>3, <1>4, <1>5, <1>6, <1>7, <1>8, <1>9, <1>10, <1>11, <1>12, <1>13,
     <1>14, <1>15, <1>16, <1>17, <1>18, <1>19, <1>20, <1>21, <1>22, <1>23, <1>24, <1>25,
     <1>26, <1>27, <1>28, <1>29
     DEF Request, Steps, Locking

\* The map counts stay exact.
LEMMA MapcountStep ==
    ASSUME IInv, NEW t \in Threads, Request(t) \/ Steps(t) \/ Locking(t)
    PROVE  MapcountExact'
<1> USE NoneOK DEF IInv, TypeOK, Goto, fields, sync, locals, Frames, Frame, Releaser,
     NoUseAfterFree
<1>1. ASSUME NEW c \in Cookies, CallRegister(t, c) PROVE MapcountExact'
  <2>1. \A n \in Mobjs : MapHolders(n)' = MapHolders(n)
    BY <1>1 DEF CallRegister, Requests, MapHolders
  <2>2. \A u \in Threads : pc[u] = "declock" => pc'[u] = pc[u] /\ mobj'[u] = mobj[u]
    BY <1>1 DEF CallRegister, Requests
  <2> QED
    BY <1>1, <2>1, <2>2 DEF CallRegister, Requests, MapcountExact
<1>2. ASSUME NEW c \in Cookies, CallRmem(t, c) PROVE MapcountExact'
  <2>1. \A n \in Mobjs : MapHolders(n)' = MapHolders(n)
    BY <1>2 DEF CallRmem, Requests, MapHolders
  <2>2. \A u \in Threads : pc[u] = "declock" => pc'[u] = pc[u] /\ mobj'[u] = mobj[u]
    BY <1>2 DEF CallRmem, Requests
  <2> QED
    BY <1>2, <2>1, <2>2 DEF CallRmem, Requests, MapcountExact
<1>3. ASSUME NEW c \in Cookies, CallUnregister(t, c) PROVE MapcountExact'
  <2>1. \A n \in Mobjs : MapHolders(n)' = MapHolders(n)
    BY <1>3 DEF CallUnregister, Requests, MapHolders
  <2>2. \A u \in Threads : pc[u] = "declock" => pc'[u] = pc[u] /\ mobj'[u] = mobj[u]
    BY <1>3 DEF CallUnregister, Requests
  <2> QED
    BY <1>3, <2>1, <2>2 DEF CallUnregister, Requests, MapcountExact
<1>4. ASSUME NEW j \in Jobs, CallTmem(t, j) PROVE MapcountExact'
  <2>1. \A n \in Mobjs : MapHolders(n)' = MapHolders(n)
    BY <1>4 DEF CallTmem, Requests, MapHolders
  <2>2. \A u \in Threads : pc[u] = "declock" => pc'[u] = pc[u] /\ mobj'[u] = mobj[u]
    BY <1>4 DEF CallTmem, Requests
  <2> QED
    BY <1>4, <2>1, <2>2 DEF CallTmem, Requests, MapcountExact
<1>5. ASSUME NEW m \in Mobjs, PageAlloc(t, m) PROVE MapcountExact'
  <2>1. MapHolders(m)' = {}
    BY <1>5 DEF PageAlloc, Insert, MapHolders
  <2>2. \A n \in Mobjs \ {m} : MapHolders(n)' = MapHolders(n)
    BY <1>5 DEF PageAlloc, Insert, MapHolders
  <2>3. Cardinality(MapHolders(m)') = 0
    BY <2>1, FS_EmptySet
  <2>4. \A u \in Threads : pc[u] = "declock" => pc'[u] = pc[u] /\ mobj'[u] = mobj[u]
    BY <1>5 DEF PageAlloc
  <2> QED
    BY <1>5, <2>2, <2>3, <2>4 DEF PageAlloc, Insert, MapcountExact
<1>6. ASSUME NEW m \in Mobjs, BufferAlloc(t, m) PROVE MapcountExact'
  <2>1. MapHolders(m)' = {}
    BY <1>6 DEF BufferAlloc, Insert, MapHolders
  <2>2. \A n \in Mobjs \ {m} : MapHolders(n)' = MapHolders(n)
    BY <1>6 DEF BufferAlloc, Insert, MapHolders
  <2>3. Cardinality(MapHolders(m)') = 0
    BY <2>1, FS_EmptySet
  <2>4. \A u \in Threads : pc[u] = "declock" => pc'[u] = pc[u] /\ mobj'[u] = mobj[u]
    BY <1>6 DEF BufferAlloc
  <2> QED
    BY <1>6, <2>2, <2>3, <2>4 DEF BufferAlloc, Insert, MapcountExact
<1>7. CASE AllocFails(t)
  <2>1. \A n \in Mobjs : MapHolders(n)' = MapHolders(n)
    BY <1>7 DEF AllocFails, Return, Conclude, MapHolders
  <2>2. \A u \in Threads : pc[u] = "declock" => pc'[u] = pc[u] /\ mobj'[u] = mobj[u]
    BY <1>7 DEF AllocFails, Return, Conclude
  <2> QED
    BY <1>7, <2>1, <2>2 DEF AllocFails, Return, Conclude, MapcountExact
<1>8. CASE Unguard(t)
  <2>1. \A n \in Mobjs : MapHolders(n)' = MapHolders(n)
    BY <1>8 DEF Unguard, Return, Conclude, MapHolders
  <2>2. \A u \in Threads : pc[u] = "declock" => pc'[u] = pc[u] /\ mobj'[u] = mobj[u]
    BY <1>8 DEF Unguard, Return, Conclude
  <2> QED
    BY <1>8, <2>1, <2>2 DEF Unguard, Return, Conclude, MapcountExact
<1>9. CASE Find(t)
  <2>1. \A n \in Mobjs : MapHolders(n)' = MapHolders(n)
    BY <1>9 DEF Find, Finds, MapHolders
  <2>2. \A u \in Threads : pc[u] = "declock" => pc'[u] = pc[u] /\ mobj'[u] = mobj[u]
    BY <1>9 DEF Find, Finds
  <2> QED
    BY <1>9, <2>1, <2>2 DEF Find, Finds, MapcountExact
<1>10. CASE FindNothing(t)
  <2>1. \A n \in Mobjs : MapHolders(n)' = MapHolders(n)
    BY <1>10 DEF FindNothing, Return, Conclude, MapHolders
  <2>2. \A u \in Threads : pc[u] = "declock" => pc'[u] = pc[u] /\ mobj'[u] = mobj[u]
    BY <1>10 DEF FindNothing, Return, Conclude
  <2> QED
    BY <1>10, <2>1, <2>2 DEF FindNothing, Return, Conclude, MapcountExact
<1>11. CASE Get(t)
  <2>1. \A n \in Mobjs : MapHolders(n)' = MapHolders(n)
    BY <1>11 DEF Get, MapHolders
  <2>2. \A u \in Threads : pc[u] = "declock" => pc'[u] = pc[u] /\ mobj'[u] = mobj[u]
    BY <1>11 DEF Get
  <2> QED
    BY <1>11, <2>1, <2>2 DEF Get, MapcountExact
<1>12. CASE IncMap(t)
  <2>0. PICK m \in reg_shm_list : m = mobj[t] /\ mapcount[m] \in Nat
    BY <1>12 DEF IncMap
  <2>1. CASE mapcount[m] = 0
    <3>1. \A n \in Mobjs : MapHolders(n)' = MapHolders(n)
      BY <1>12, <2>0, <2>1 DEF IncMap, MapHolders
    <3> QED
      BY <1>12, <2>0, <2>1, <3>1 DEF IncMap, MapcountExact
  <2>2. CASE mapcount[m] # 0
    <3>1. t \notin MapHolders(m) /\ MapHolders(m)' = MapHolders(m) \cup {t}
      BY <1>12, <2>0, <2>2 DEF IncMap, MapHolders
    <3>2. \A n \in Mobjs \ {m} : MapHolders(n)' = MapHolders(n)
      BY <1>12, <2>0 DEF IncMap, MapHolders
    <3>3. IsFiniteSet(MapHolders(m))
      BY ThreadsFinite, FS_Subset DEF MapHolders
    <3>4. Cardinality(MapHolders(m)') = Cardinality(MapHolders(m)) + 1
      BY <3>1, <3>3, CardMore
    <3> QED
      BY <1>12, <2>0, <2>2, <3>2, <3>4 DEF IncMap, MapcountExact
  <2> QED
    BY <2>1, <2>2
<1>13. CASE IncMapLocked(t)
  <2>0. PICK m \in reg_shm_list : m = mobj[t] /\ mapcount[m] \in Nat
    BY <1>13 DEF IncMapLocked
  <2>1. CASE mapcount[m] # 0
    <3>1. \A n \in Mobjs : MapHolders(n)' = MapHolders(n)
      BY <1>13, <2>0, <2>1 DEF IncMapLocked, MapHolders
    <3> QED
      BY <1>13, <2>0, <2>1, <3>1 DEF IncMapLocked, MapcountExact
  <2>2. CASE mapcount[m] = 0
    <3>1. IsFiniteSet(MapHolders(m)) /\ Cardinality(MapHolders(m)) = 0
      BY <2>0, <2>2, ThreadsFinite, FS_Subset DEF MapHolders, MapcountExact
    <3>2. MapHolders(m) = {}
      BY <3>1, FS_EmptySet
    <3>3. MapHolders(m)' = {t}
      BY <1>13, <2>0, <2>2, <3>2 DEF IncMapLocked, MapHolders
    <3>4. \A n \in Mobjs \ {m} : MapHolders(n)' = MapHolders(n)
      BY <1>13, <2>0 DEF IncMapLocked, MapHolders
    <3>5. Cardinality(MapHolders(m)') = 1
      BY <3>3, CardOne, ZenonT(60)
    <3>6. PICK v \in Vas :
             /\ mm' = [mm EXCEPT ![m] = v]
             /\ v # NoVa /\ \A n \in reg_shm_list \ {m} : mm[n] # v
      BY <1>13, <2>0, <2>2 DEF IncMapLocked, FreeVas, MapcountExact
    <3>7. mapcount' = [mapcount EXCEPT ![m] = 1] /\ reg_shm_list' = reg_shm_list
      BY <1>13, <2>0, <2>2 DEF IncMapLocked
    <3>8. \A u \in Threads : pc[u] = "declock" => pc'[u] = pc[u] /\ mobj'[u] = mobj[u]
      BY <1>13 DEF IncMapLocked
    <3> QED
      BY <2>0, <3>4, <3>5, <3>6, <3>7, <3>8 DEF MapcountExact
  <2> QED
    BY <2>1, <2>2
<1>14. CASE MapFails(t)
  <2>1. \A n \in Mobjs : MapHolders(n)' = MapHolders(n)
    <3>1. /\ pc[t] = "inclock" /\ pc'[t] = "put" /\ ~page'[t] /\ mobj'[t] = mobj[t]
          /\ job'[t] # "rpc"
      BY <1>14 DEF MapFails, Skipped
    <3>2. \A u \in Threads \ {t} :
             pc'[u] = pc[u] /\ mobj'[u] = mobj[u] /\ page'[u] = page[u] /\ job'[u] = job[u]
      BY <1>14 DEF MapFails
    <3> QED
      BY <3>1, <3>2 DEF MapHolders
  <2>2. \A u \in Threads : pc[u] = "declock" => pc'[u] = pc[u] /\ mobj'[u] = mobj[u]
    BY <1>14 DEF MapFails, Skipped
  <2> QED
    BY <1>14, <2>1, <2>2 DEF MapFails, MapcountExact
<1>15. CASE Use(t)
  <2>1. \A n \in Mobjs : MapHolders(n)' = MapHolders(n)
    BY <1>15 DEF Use, MapHolders
  <2>2. \A u \in Threads : pc[u] = "declock" => pc'[u] = pc[u] /\ mobj'[u] = mobj[u]
    BY <1>15 DEF Use
  <2> QED
    BY <1>15, <2>1, <2>2 DEF Use, MapcountExact
<1>16. CASE DecMap(t)
  <2>0. PICK m \in reg_shm_list : m = mobj[t] /\ mapcount[m] \in Nat
    BY <1>16 DEF DecMap
  <2>1. t \in MapHolders(m) /\ MapHolders(m)' = MapHolders(m) \ {t}
    BY <1>16, <2>0 DEF DecMap, MapHolders
  <2>2. \A n \in Mobjs \ {m} : MapHolders(n)' = MapHolders(n)
    BY <1>16, <2>0 DEF DecMap, MapHolders
  <2>3. IsFiniteSet(MapHolders(m)) /\ Cardinality(MapHolders(m)) \in Nat
    BY ThreadsFinite, FS_Subset, FS_CardinalityType DEF MapHolders
  <2>4. Cardinality(MapHolders(m)') = Cardinality(MapHolders(m)) - 1
    BY <2>1, <2>3, CardLess
  <2>5. \A u \in Threads : pc[u] = "declock" => pc'[u] = pc[u] /\ mobj'[u] = mobj[u]
    BY <1>16 DEF DecMap
  <2>6. mapcount[m] > 0
    BY <1>16, <2>0, Positive DEF DecMap
  <2>7. mapcount'[m] = mapcount[m] - 1 /\ (mapcount'[m] = 0 => pc'[t] = "declock" /\ mobj'[t] = m)
    BY <1>16, <2>0, <2>6 DEF DecMap
  <2>8. \A n \in Mobjs \ {m} : mapcount'[n] = mapcount[n]
    BY <1>16, <2>0 DEF DecMap
  <2>9. reg_shm_list' = reg_shm_list /\ mm' = mm
    BY <1>16 DEF DecMap
  <2> QED
    BY <2>0, <2>2, <2>4, <2>5, <2>6, <2>7, <2>8, <2>9 DEF MapcountExact
<1>17. CASE DecMapLocked(t)
  <2>0. PICK m \in reg_shm_list : m = mobj[t] /\ mapcount[m] \in Nat
    BY <1>17 DEF DecMapLocked
  <2>1. \A n \in Mobjs : MapHolders(n)' = MapHolders(n)
    BY <1>17 DEF DecMapLocked, MapHolders
  <2>2. \A u \in Threads \ {t} : pc'[u] = pc[u] /\ mobj'[u] = mobj[u]
    BY <1>17 DEF DecMapLocked
  <2> QED
    BY <1>17, <2>0, <2>1, <2>2 DEF DecMapLocked, MapcountExact
<1>18. CASE Put(t)
  <2>0. PICK m \in reg_shm_list : m = mobj[t]
    BY <1>18 DEF Put
  <2>1. page[t] \/ job[t] = "rpc" => refc[m] = 1
    <3>1. page[t] \/ job[t] = "rpc" => cookie[m] = NoCookie
      BY <1>18, <2>0 DEF Put, ObjectsOK, KindOK, Refers
    <3> QED
      BY <1>18, <2>0, <3>1, PrivateOne DEF Put, Holding
  <2>2. \A n \in Mobjs : MapHolders(n)' = MapHolders(n)
    <3>1. CASE refc[m] = 1
      BY <1>18, <2>0, <3>1 DEF Put, MapHolders
    <3>2. CASE refc[m] # 1
      <4>1. Returned(t) /\ pc[t] = "put"
        BY <1>18, <2>0, <3>2, AfterReturns DEF Put
      <4> QED
        BY <2>0, <2>1, <3>2, <4>1 DEF Returned, MapHolders
    <3> QED
      BY <3>1, <3>2
  <2>3. \A u \in Threads : pc[u] = "declock" => pc'[u] = pc[u] /\ mobj'[u] = mobj[u]
    BY <1>18, AfterReturns DEF Put, Returned
  <2> QED
    BY <1>18, <2>2, <2>3 DEF Put, MapcountExact
<1>19. CASE Free(t)
  <2>0. page[t] \/ job[t] = "rpc" => guarded[mobj[t]] /\ ~releasing[mobj[t]]
    BY <1>19 DEF Free, ObjectsOK, PrivateOK, KindOK, Refers
  <2>1. \A n \in Mobjs : MapHolders(n)' = MapHolders(n)
    BY <1>19, <2>0 DEF Free, MapHolders
  <2>2. \A u \in Threads : pc[u] = "declock" => pc'[u] = pc[u] /\ mobj'[u] = mobj[u]
    BY <1>19 DEF Free
  <2> QED
    BY <1>19, <2>1, <2>2 DEF Free, MapcountExact
<1>20. CASE FreeGuarded(t)
  <2>1. Returned(t) /\ pc[t] = "freeguarded"
    BY <1>20, AfterReturns DEF FreeGuarded
  <2>2. PICK m \in reg_shm_list : m = mobj[t] /\ job[t] # "unregister"
    BY <2>1, FreedAlone
  <2>3. FreeHelper(m)
    BY <1>20, <2>2 DEF FreeGuarded
  <2>4. \A n \in Mobjs \ {m} : MapHolders(n)' = MapHolders(n)
    BY <1>20, <2>1, <2>2 DEF MapHolders, Returned
  <2>5. \A u \in Threads : pc[u] = "declock" => pc'[u] = pc[u] /\ mobj'[u] = mobj[u]
    BY <1>20, <2>1 DEF Returned
  <2> QED
    BY <2>3, <2>4, <2>5 DEF FreeHelper, MapcountExact
<1>21. CASE FreeNotify(t)
  <2>1. \A n \in Mobjs : MapHolders(n)' = MapHolders(n)
    BY <1>21 DEF FreeNotify, MapHolders
  <2>2. \A u \in Threads : pc[u] = "declock" => pc'[u] = pc[u] /\ mobj'[u] = mobj[u]
    BY <1>21 DEF FreeNotify
  <2> QED
    BY <1>21, <2>1, <2>2 DEF FreeNotify, MapcountExact
<1>22. CASE ReleaseFind(t)
  <2>1. \A n \in Mobjs : MapHolders(n)' = MapHolders(n)
    BY <1>22 DEF ReleaseFind, Releasable, Finds, MapHolders
  <2>2. \A u \in Threads : pc[u] = "declock" => pc'[u] = pc[u] /\ mobj'[u] = mobj[u]
    BY <1>22 DEF ReleaseFind, Releasable, Finds
  <2> QED
    BY <1>22, <2>1, <2>2 DEF ReleaseFind, Releasable, Finds, MapcountExact
<1>23. CASE ReleaseRefused(t)
  <2>1. \A n \in Mobjs : MapHolders(n)' = MapHolders(n)
    BY <1>23 DEF ReleaseRefused, Releasable, Finds, Return, Conclude, MapHolders
  <2>2. \A u \in Threads : pc[u] = "declock" => pc'[u] = pc[u] /\ mobj'[u] = mobj[u]
    BY <1>23 DEF ReleaseRefused, Releasable, Finds, Return, Conclude
  <2> QED
    BY <1>23, <2>1, <2>2 DEF ReleaseRefused, Releasable, Finds, Return, Conclude,
         MapcountExact
<1>24. CASE ReleaseFrees(t)
  <2>1. pc[t] = "rcheck" /\ release_frees[mobj[t]] /\ job[t] = "unregister"
    BY <1>24 DEF ReleaseFrees, Return
  <2>2. PICK m \in reg_shm_list : m = mobj[t]
    BY <2>1
  <2>3. FreeHelper(m)
    BY <1>24, <2>2 DEF ReleaseFrees
  <2>4. \A n \in Mobjs \ {m} : MapHolders(n)' = MapHolders(n)
    BY <1>24, <2>1, <2>2 DEF MapHolders, ReleaseFrees, Return
  <2>5. \A u \in Threads : pc[u] = "declock" => pc'[u] = pc[u] /\ mobj'[u] = mobj[u]
    BY <1>24, <2>1 DEF ReleaseFrees, Return
  <2> QED
    BY <2>3, <2>4, <2>5 DEF FreeHelper, MapcountExact
<1>25. CASE ReleaseNotYet(t)
  <2>1. \A n \in Mobjs : MapHolders(n)' = MapHolders(n)
    BY <1>25 DEF ReleaseNotYet, MapHolders
  <2>2. \A u \in Threads : pc[u] = "declock" => pc'[u] = pc[u] /\ mobj'[u] = mobj[u]
    BY <1>25 DEF ReleaseNotYet
  <2> QED
    BY <1>25, <2>1, <2>2 DEF ReleaseNotYet, MapcountExact
<1>26. CASE ReleaseWait(t)
  <2>1. \A n \in Mobjs : MapHolders(n)' = MapHolders(n)
    BY <1>26 DEF ReleaseWait, MapHolders
  <2>2. \A u \in Threads : pc[u] = "declock" => pc'[u] = pc[u] /\ mobj'[u] = mobj[u]
    BY <1>26 DEF ReleaseWait
  <2> QED
    BY <1>26, <2>1, <2>2 DEF ReleaseWait, MapcountExact
<1>27. CASE Notify(t)
  <2>0. Returned(t) /\ pc[t] = "notify"
    BY <1>27, AfterReturns DEF Notify
  <2>1. \A n \in Mobjs : MapHolders(n)' = MapHolders(n)
    BY <2>0 DEF Returned, MapHolders
  <2>2. \A u \in Threads : pc[u] = "declock" => pc'[u] = pc[u] /\ mobj'[u] = mobj[u]
    BY <2>0 DEF Returned
  <2> QED
    BY <1>27, <2>1, <2>2 DEF Notify, MapcountExact
<1>28. CASE ReleaseLock(t)
  <2>1. \A n \in Mobjs : MapHolders(n)' = MapHolders(n)
    BY <1>28 DEF ReleaseLock, MapHolders
  <2>2. \A u \in Threads : pc[u] = "declock" => pc'[u] = pc[u] /\ mobj'[u] = mobj[u]
    BY <1>28 DEF ReleaseLock
  <2> QED
    BY <1>28, <2>1, <2>2 DEF ReleaseLock, MapcountExact
<1>29. CASE ReleaseWoken(t)
  <2>1. \A n \in Mobjs : MapHolders(n)' = MapHolders(n)
    BY <1>29 DEF ReleaseWoken, MapHolders
  <2>2. \A u \in Threads : pc[u] = "declock" => pc'[u] = pc[u] /\ mobj'[u] = mobj[u]
    BY <1>29 DEF ReleaseWoken
  <2> QED
    BY <1>29, <2>1, <2>2 DEF ReleaseWoken, MapcountExact
<1> QED
  BY <1>1, <1>2, <1>3, <1>4, <1>5, <1>6, <1>7, <1>8, <1>9, <1>10, <1>11, <1>12, <1>13,
     <1>14, <1>15, <1>16, <1>17, <1>18, <1>19, <1>20, <1>21, <1>22, <1>23, <1>24, <1>25,
     <1>26, <1>27, <1>28, <1>29
     DEF Request, Steps, Locking

\* The lock shm_mu, its sleepers and their count
LEMMA SyncStep ==
    ASSUME IInv, NEW t \in Threads, Request(t) \/ Steps(t) \/ Locking(t)
    PROVE  SyncOK'
<1> USE NoneOK DEF IInv, TypeOK, Goto, fields, sync, locals, Frames, Frame, Releaser,
     NoUseAfterFree, ObjectsOK
<1>1. ASSUME NEW c \in Cookies, CallRegister(t, c) PROVE SyncOK'
  <2>1. Waiters' = Waiters
    BY <1>1 DEF CallRegister, Requests, Waiters
  <2> QED
    BY <1>1, <2>1 DEF CallRegister, Requests, SyncOK
<1>2. ASSUME NEW c \in Cookies, CallRmem(t, c) PROVE SyncOK'
  <2>1. Waiters' = Waiters
    BY <1>2 DEF CallRmem, Requests, Waiters
  <2> QED
    BY <1>2, <2>1 DEF CallRmem, Requests, SyncOK
<1>3. ASSUME NEW c \in Cookies, CallUnregister(t, c) PROVE SyncOK'
  <2>1. Waiters' = Waiters
    BY <1>3 DEF CallUnregister, Requests, Waiters
  <2> QED
    BY <1>3, <2>1 DEF CallUnregister, Requests, SyncOK
<1>4. ASSUME NEW j \in Jobs, CallTmem(t, j) PROVE SyncOK'
  <2>1. Waiters' = Waiters
    BY <1>4 DEF CallTmem, Requests, Waiters
  <2> QED
    BY <1>4, <2>1 DEF CallTmem, Requests, SyncOK
<1>5. ASSUME NEW m \in Mobjs, PageAlloc(t, m) PROVE SyncOK'
  <2>1. Waiters' = Waiters
    BY <1>5 DEF PageAlloc, Insert, Waiters
  <2> QED
    BY <1>5, <2>1 DEF PageAlloc, Insert, SyncOK
<1>6. ASSUME NEW m \in Mobjs, BufferAlloc(t, m) PROVE SyncOK'
  <2>1. Waiters' = Waiters
    BY <1>6 DEF BufferAlloc, Insert, Waiters
  <2> QED
    BY <1>6, <2>1 DEF BufferAlloc, Insert, SyncOK
<1>7. CASE AllocFails(t)
  <2>1. Waiters' = Waiters
    BY <1>7 DEF AllocFails, Return, Conclude, Waiters
  <2> QED
    BY <1>7, <2>1 DEF AllocFails, Return, Conclude, SyncOK
<1>8. CASE Unguard(t)
  <2>1. Waiters' = Waiters
    BY <1>8 DEF Unguard, Return, Conclude, Waiters
  <2> QED
    BY <1>8, <2>1 DEF Unguard, Return, Conclude, SyncOK
<1>9. CASE Find(t)
  <2>1. Waiters' = Waiters
    BY <1>9 DEF Find, Finds, Waiters
  <2> QED
    BY <1>9, <2>1 DEF Find, Finds, SyncOK
<1>10. CASE FindNothing(t)
  <2>1. Waiters' = Waiters
    BY <1>10 DEF FindNothing, Return, Conclude, Waiters
  <2> QED
    BY <1>10, <2>1 DEF FindNothing, Return, Conclude, SyncOK
<1>11. CASE Get(t)
  <2>1. Waiters' = Waiters
    BY <1>11 DEF Get, Waiters
  <2> QED
    BY <1>11, <2>1 DEF Get, SyncOK
<1>12. CASE IncMap(t)
  <2>1. Waiters' = Waiters
    BY <1>12 DEF IncMap, Waiters
  <2> QED
    BY <1>12, <2>1 DEF IncMap, SyncOK
<1>13. CASE IncMapLocked(t)
  <2>1. Waiters' = Waiters
    BY <1>13 DEF IncMapLocked, FreeVas, Waiters
  <2> QED
    BY <1>13, <2>1 DEF IncMapLocked, FreeVas, SyncOK
<1>14. CASE MapFails(t)
  <2>1. Waiters' = Waiters
    BY <1>14 DEF MapFails, Waiters
  <2> QED
    BY <1>14, <2>1 DEF MapFails, SyncOK
<1>15. CASE Use(t)
  <2>1. Waiters' = Waiters
    BY <1>15 DEF Use, Waiters
  <2> QED
    BY <1>15, <2>1 DEF Use, SyncOK
<1>16. CASE DecMap(t)
  <2>1. Waiters' = Waiters
    BY <1>16 DEF DecMap, Waiters
  <2> QED
    BY <1>16, <2>1 DEF DecMap, SyncOK
<1>17. CASE DecMapLocked(t)
  <2>1. Waiters' = Waiters
    BY <1>17 DEF DecMapLocked, Waiters
  <2> QED
    BY <1>17, <2>1 DEF DecMapLocked, SyncOK
<1>18. CASE Put(t)
  <2>1. \A u \in Threads :
           /\ pc[u] \in {"rcheck", "rwait", "sleep"} \/ pc'[u] \in {"rcheck", "rwait",
                "sleep"}
                => pc'[u] = pc[u] /\ mobj'[u] = mobj[u]
           /\ pc[u] = "notify" => pc'[u] = "notify"
    BY <1>18, AfterReturns DEF Put, Returned
  <2>2. Waiters' = Waiters
    BY <2>1 DEF Waiters
  <2> QED
    BY <1>18, <2>1, <2>2 DEF Put, SyncOK
<1>19. CASE Free(t)
  <2>1. Waiters' = Waiters
    BY <1>19 DEF Free, Waiters
  <2> QED
    BY <1>19, <2>1 DEF Free, SyncOK
<1>20. CASE FreeGuarded(t)
  <2>1. Returned(t) /\ pc[t] = "freeguarded"
    BY <1>20, AfterReturns DEF FreeGuarded
  <2>2. PICK m \in reg_shm_list :
           m = mobj[t] /\ job[t] # "unregister" /\ \A u \in Threads : Refers(u, m) => u = t
    BY <2>1, FreedAlone
  <2>3. FreeHelper(m) /\ UNCHANGED sync
    BY <1>20, <2>2 DEF FreeGuarded
  <2>4. \A u \in Threads :
           /\ pc[u] \in {"rcheck", "rwait", "sleep"} \/ pc'[u] \in {"rcheck", "rwait",
                "sleep"}
                => pc'[u] = pc[u] /\ mobj'[u] = mobj[u]
           /\ pc[u] = "notify" => pc'[u] = "notify"
    BY <2>1, <2>2 DEF Returned
  <2>5. Waiters' = Waiters
    BY <2>4 DEF Waiters
  <2> QED
    BY <2>2, <2>3, <2>4, <2>5 DEF FreeHelper, SyncOK, Refers
<1>21. CASE FreeNotify(t)
  <2>1. Waiters' = Waiters
    BY <1>21 DEF FreeNotify, Waiters
  <2>2. pc'[t] = "notify"
    BY <1>21 DEF FreeNotify
  <2> QED
    BY <1>21, <2>1, <2>2 DEF FreeNotify, SyncOK
<1>22. CASE ReleaseFind(t)
  <2>1. Waiters' = Waiters
    BY <1>22 DEF ReleaseFind, Releasable, Finds, Waiters
  <2> QED
    BY <1>22, <2>1 DEF ReleaseFind, Releasable, Finds, SyncOK
<1>23. CASE ReleaseRefused(t)
  <2>1. Waiters' = Waiters
    BY <1>23 DEF ReleaseRefused, Releasable, Finds, Return, Conclude, Waiters
  <2> QED
    BY <1>23, <2>1 DEF ReleaseRefused, Releasable, Finds, Return, Conclude, SyncOK
<1>24. CASE ReleaseFrees(t)
  <2>1. pc[t] = "rcheck" /\ release_frees[mobj[t]] /\ job[t] = "unregister"
    BY <1>24 DEF ReleaseFrees, Return
  <2>2. PICK m \in reg_shm_list : m = mobj[t] /\ \A u \in Threads : Refers(u, m) => u = t
    BY <2>1, FreedAlone
  <2>3. \A u \in Threads \ {t} : job[u] = "unregister" => mobj[u] # m
    BY <2>1, <2>2 DEF Refers
  <2>4. FreeHelper(m)
    BY <1>24, <2>2 DEF ReleaseFrees
  <2>5. t \in Waiters /\ Waiters' = Waiters \ {t}
    BY <1>24, <2>1 DEF ReleaseFrees, Return, Waiters
  <2>6. IsFiniteSet(Waiters)
    BY ThreadsFinite, FS_Subset DEF Waiters
  <2>7. Cardinality(Waiters') = Cardinality(Waiters) - 1
    BY <2>5, <2>6, CardLess
  <2> QED
    BY <1>24, <2>1, <2>2, <2>3, <2>4, <2>7 DEF ReleaseFrees, Return, FreeHelper, SyncOK
<1>25. CASE ReleaseNotYet(t)
  <2>1. Waiters' = Waiters
    BY <1>25 DEF ReleaseNotYet, Waiters
  <2> QED
    BY <1>25, <2>1 DEF ReleaseNotYet, SyncOK
<1>26. CASE ReleaseWait(t)
  <2>1. Waiters' = Waiters
    BY <1>26 DEF ReleaseWait, Waiters
  <2> QED
    BY <1>26, <2>1 DEF ReleaseWait, SyncOK
<1>27. CASE Notify(t)
  <2>1. Returned(t) /\ pc[t] = "notify" /\ shm_mu = NoThread
    BY <1>27, AfterReturns DEF Notify
  <2>2. Waiters' = Waiters
    BY <2>1 DEF Returned, Waiters
  <2>3. \A u \in Threads : pc'[u] \notin {"rcheck", "rwait"}
    BY <2>1 DEF Returned, SyncOK
  <2>4. shm_cv' = {}
    <3>1. CASE shm_cv = {}
      BY <1>27, <3>1 DEF Notify
    <3>2. CASE shm_cv # {}
      <4>1. Waiters # {} /\ IsFiniteSet(Waiters)
        BY <3>2, ThreadsFinite, FS_Subset DEF SyncOK, Waiters
      <4>2. shm_release_waiters # 0
        BY <4>1, FS_EmptySet DEF SyncOK
      <4> QED
        BY <1>27, <4>2 DEF Notify
    <3> QED
      BY <3>1, <3>2
  <2> QED
    BY <1>27, <2>1, <2>2, <2>3, <2>4 DEF Notify, SyncOK
<1>28. CASE ReleaseLock(t)
  <2>1. t \notin Waiters /\ Waiters' = Waiters \cup {t}
    BY <1>28 DEF ReleaseLock, Waiters
  <2>2. IsFiniteSet(Waiters)
    BY ThreadsFinite, FS_Subset DEF Waiters
  <2>3. Cardinality(Waiters') = Cardinality(Waiters) + 1
    BY <2>1, <2>2, CardMore
  <2> QED
    BY <1>28, <2>3 DEF ReleaseLock, SyncOK
<1>29. CASE ReleaseWoken(t)
  <2>1. Waiters' = Waiters
    BY <1>29 DEF ReleaseWoken, Waiters
  <2> QED
    BY <1>29, <2>1 DEF ReleaseWoken, SyncOK
<1> QED
  BY <1>1, <1>2, <1>3, <1>4, <1>5, <1>6, <1>7, <1>8, <1>9, <1>10, <1>11, <1>12, <1>13,
     <1>14, <1>15, <1>16, <1>17, <1>18, <1>19, <1>20, <1>21, <1>22, <1>23, <1>24, <1>25,
     <1>26, <1>27, <1>28, <1>29
     DEF Request, Steps, Locking

----------------------------------------------------------------------------
\* The invariant of the specification

\* cleanup_shm_refs() skips the object of a request that ends.
LEMMA SkipStep ==
    ASSUME IInv, NEW t \in Threads, Skip(t)
    PROVE  IInv'
<1> USE NoneOK, Places DEF IInv, ObjectsOK, TypeOK, Frames, Frame, NoUseAfterFree, Goto, Skip,
     Skipped, Return, Conclude, fields, sync
<1>0. PICK m \in Mobjs : m = mobj[t]
  OBVIOUS
<1>1. /\ pc[t] = "put" /\ job[t] = "tmem" /\ ~page[t] /\ arg[t] = NoCookie
      /\ m \in reg_shm_list /\ m \in Mobjs /\ Refers(t, m) /\ cookie[m] = NoCookie
      /\ m \notin left /\ guarded[m] /\ ~releasing[m]
  BY <1>0 DEF Refers, KindOK, LeftOK, PrivateOK
<1>2. \A u \in Threads : Refers(u, m) => u = t
  BY <1>1 DEF PrivateOK
<1>3. /\ reg' = reg /\ left' = left \cup {m}
      /\ pc'[t] = "idle" /\ job'[t] = "none" /\ mobj'[t] = NoMobj /\ arg'[t] = NoCookie /\ ~page'[t]
      /\ \A u \in Threads \ {t} :
           /\ pc'[u] = pc[u] /\ mobj'[u] = mobj[u] /\ job'[u] = job[u]
           /\ page'[u] = page[u] /\ arg'[u] = arg[u]
  BY <1>0, <1>1
<1>4. /\ \A u \in Threads, n \in Mobjs : Refers(u, n)' <=> u # t /\ Refers(u, n)
      /\ \A u \in Threads : Refers(u, m)' <=> FALSE
  BY <1>0, <1>1, <1>2, <1>3 DEF Refers
<1>5. TypeOK' /\ Frames'
  <2>1. TypeOK'
    BY <1>0, <1>1, <1>3
  <2>2. Frames'
    BY <1>0, <1>1, <1>3 DEF Releaser
  <2> QED
    BY <2>1, <2>2
<1>6. NoUseAfterFree'
  BY <1>0, <1>1, <1>3
<1>7. RefcountExact'
  <2>1. IsFiniteSet(RefHolders(m)) /\ t \in RefHolders(m)
    BY <1>0, <1>1, ThreadsFinite, FS_Subset DEF RefHolders, Holding
  <2>2. RefHolders(m)' = RefHolders(m) \ {t}
    BY <1>0, <1>1, <1>3 DEF RefHolders, Holding
  <2>3. \A n \in Mobjs \ {m} : RefHolders(n)' = RefHolders(n)
    BY <1>0, <1>1, <1>3 DEF RefHolders, Holding
  <2>4. Cardinality(RefHolders(m)') = Cardinality(RefHolders(m)) - 1
    BY <2>1, <2>2, CardLess, ZenonT(60)
  <2>5. Cardinality(RefHolders(m)) \in Nat
    BY <2>1, FS_CardinalityType
  <2> QED
    BY <1>0, <1>1, <1>3, <2>3, <2>4, <2>5 DEF RefcountExact
<1>8. MapcountExact'
  <2>1. \A n \in Mobjs : MapHolders(n)' = MapHolders(n)
    BY <1>0, <1>1, <1>3 DEF MapHolders
  <2> QED
    BY <1>0, <1>1, <1>3, <2>1 DEF MapcountExact
<1>9. ObjectsOK'
  <2>1. PrivateOK'
    <3>1. \A n \in Mobjs : Refers(t, n) => n = m
      BY <1>0 DEF Refers
    <3>2. reg_shm_list' = reg_shm_list /\ cookie' = cookie /\ guarded' = guarded
          /\ releasing' = releasing /\ reg_shm_list \subseteq Mobjs
      OBVIOUS
    <3> SUFFICES ASSUME NEW n \in reg_shm_list, cookie[n] = NoCookie
                 PROVE  /\ guarded[n] /\ ~releasing[n]
                        /\ n \in left' \/ \E u \in Threads : Refers(u, n)'
                        /\ \A u, w \in Threads : Refers(u, n)' /\ Refers(w, n)' => u = w
      BY <3>2 DEF PrivateOK
    <3>3. /\ guarded[n] /\ ~releasing[n]
          /\ n \in left \/ \E u \in Threads : Refers(u, n)
          /\ \A u, w \in Threads : Refers(u, n) /\ Refers(w, n) => u = w
      BY DEF PrivateOK
    <3>4. n \in Mobjs /\ left' = left \cup {m}
      BY <1>3, <3>2
    <3> HIDE DEF IInv, ObjectsOK, TypeOK, Frames, Frame, NoUseAfterFree, Skip
    <3> QED
      BY <1>4, <3>1, <3>3, <3>4, Zenon
  <2>2. LeftOK'
    BY <1>0, <1>1, <1>3, <1>4 DEF LeftOK
  <2>3. KindOK'
    BY <1>0, <1>1, <1>3, <1>4 DEF KindOK
  <2>4. GuardOK'
    BY <1>0, <1>1, <1>3 DEF GuardOK
  <2>5. ReleasingOK'
    BY <1>0, <1>1, <1>3 DEF ReleasingOK
  <2>6. ZeroOK'
    BY <1>0, <1>1, <1>3 DEF ZeroOK, Leaving
  <2> QED
    BY <2>1, <2>2, <2>3, <2>4, <2>5, <2>6
<1>10. RegOK'
  BY <1>0, <1>1, <1>3 DEF RegOK
<1>11. SyncOK'
  <2>1. Waiters' = Waiters
    BY <1>0, <1>1, <1>3 DEF Waiters
  <2> QED
    BY <1>0, <1>1, <1>3, <2>1 DEF SyncOK
<1> QED
  BY <1>5, <1>6, <1>7, <1>8, <1>9, <1>10, <1>11

\* The initial state satisfies the invariant ...
LEMMA InitIInv == Init => IInv
<1> SUFFICES ASSUME Init PROVE IInv
  OBVIOUS
<1> USE NoneOK, Places DEF Init
<1>1. TypeOK
  BY DEF TypeOK
<1>2. Frames
  BY DEF Frames, Frame, Releaser
<1>3. RefcountExact /\ NoUseAfterFree /\ MapcountExact
  BY DEF RefcountExact, NoUseAfterFree, MapcountExact
<1>4. ObjectsOK
  BY DEF ObjectsOK, PrivateOK, LeftOK, KindOK, GuardOK, ReleasingOK, ZeroOK, Leaving, Refers
<1>5. RegOK
  BY DEF RegOK
<1>6. SyncOK
  <2>1. Waiters = {}
    BY DEF Waiters
  <2> QED
    BY <2>1, FS_EmptySet DEF SyncOK
<1> QED
  BY <1>1, <1>2, <1>3, <1>4, <1>5, <1>6 DEF IInv

\* ... and every step preserves it.
LEMMA IInvStep == IInv /\ [Next]_vars => IInv'
<1> SUFFICES ASSUME IInv, [Next]_vars PROVE IInv'
  OBVIOUS
<1>1. ASSUME NEW t \in Threads, Request(t) \/ Steps(t) \/ Locking(t), UNCHANGED left
      PROVE  IInv'
  <2>1. TypeOK' /\ Frames'
    BY <1>1, TypeStep, FramesStep DEF IInv
  <2>2. RefcountExact' /\ NoUseAfterFree' /\ MapcountExact'
    BY <1>1, RefcountStep, PointersStep, MapcountStep
  <2>3. ObjectsOK'
    BY <1>1, PrivateStep, LeftStep, KindStep, GuardStep, ReleasingStep, ZeroStep DEF ObjectsOK
  <2>4. RegOK' /\ SyncOK'
    BY <1>1, RegStep, SyncStep
  <2> QED
    BY <2>1, <2>2, <2>3, <2>4 DEF IInv
<1>2. CASE UNCHANGED vars
  <2> USE <1>2 DEF vars, fields, sync, locals, IInv
  <2>1. TypeOK' /\ Frames'
    BY DEF TypeOK, Frames, Frame
  <2>2. RefcountExact' /\ NoUseAfterFree' /\ MapcountExact'
    BY DEF RefcountExact, RefHolders, NoUseAfterFree, MapcountExact, MapHolders
  <2>3. ObjectsOK'
    BY DEF ObjectsOK, PrivateOK, LeftOK, KindOK, GuardOK, ReleasingOK, ZeroOK, Refers
  <2>4. RegOK' /\ SyncOK'
    BY DEF RegOK, SyncOK, Waiters
  <2> QED
    BY <2>1, <2>2, <2>3, <2>4
<1> QED
  BY <1>1, <1>2, SkipStep DEF Next

\* The strengthened invariant holds in every reachable state.
THEOREM Inductive == Spec => []IInv
<1> QED
  BY InitIInv, IInvStep, PTL DEF Spec

\* The lock-free reference count and map count of every listed object are
\* exactly the number of their holders, whatever the order of mobj_get(),
\* mobj_put(), mobj_inc_map(), mobj_dec_map() and the release by cookie.
THEOREM CountsAreExact == Spec => []CountsExact
<1>1. IInv => CountsExact
  BY DEF IInv, CountsExact
<1> QED
  BY <1>1, Inductive, PTL

\* No thread uses an object that reg_shm_free_helper() has freed, and
\* mobj_get() in mobj_reg_shm_get_by_cookie(), which is called after the
\* list lock was released, never finds a count of zero.
THEOREM NeverUsedAfterFree == Spec => []NoUseAfterFree
<1>1. IInv => NoUseAfterFree
  BY DEF IInv
<1> QED
  BY <1>1, Inductive, PTL

\* When no request is in progress, reg_shm_list holds exactly the buffers
\* that the driver has registered and the objects of non-contiguous
\* temporary parameters, none of them mapped: but for cleanup_shm_refs(),
\* every error path of mobj_reg_shm_alloc(), mobj_inc_map() and mobj_put()
\* cleans up.
THEOREM NothingIsLeaked == Spec => []NothingLeaks
<1> DEFINE kept == reg_shm_list \ left
<1>1. ASSUME IInv, \A t \in Threads : pc[t] = "idle"
      PROVE  /\ {cookie[m] : m \in kept} = {c \in Cookies : reg[c] = "shared"}
             /\ \A m, n \in kept : cookie[m] = cookie[n] => m = n
             /\ \A m \in kept : ~guarded[m]
             /\ \A m \in reg_shm_list : mm[m] = NoVa
  <2> USE <1>1 DEF IInv, ObjectsOK
  <2>1. \A t \in Threads : mobj[t] = NoMobj /\ job[t] = "none"
    BY DEF Frames, Frame
  <2>2. \A m \in reg_shm_list : m # NoMobj /\ cookie[m] \in Cookies \cup {NoCookie}
    BY NoneOK DEF TypeOK
  <2>3. \A m \in kept : cookie[m] # NoCookie
    BY <2>1, <2>2 DEF PrivateOK, Refers
  <2>4. \A m \in kept : ~guarded[m] /\ ~releasing[m]
    BY <2>1, <2>2, <2>3 DEF GuardOK, ReleasingOK
  <2>5. \A m \in reg_shm_list : mm[m] = NoVa
    <3> SUFFICES ASSUME NEW m \in reg_shm_list PROVE mm[m] = NoVa
      OBVIOUS
    <3>1. MapHolders(m) = {}
      BY <2>1, <2>2 DEF MapHolders
    <3>2. mapcount[m] = 0
      BY <3>1, FS_EmptySet DEF MapcountExact
    <3> QED
      BY <3>2 DEF MapcountExact
  <2>6. \A c \in Cookies : reg[c] \in {"none", "busy", "shared", "leaving"}
    BY DEF TypeOK
  <2>0. \A m \in reg_shm_list : cookie[m] \in Cookies => m \in kept
    BY NoneOK DEF LeftOK
  <2>7. \A c \in Cookies : reg[c] # "busy" /\ reg[c] # "leaving"
    BY <2>0, <2>1, <2>4 DEF RegOK
  <2>8. \A m \in kept : cookie[m] \in Cookies /\ reg[cookie[m]] = "shared"
    BY <2>2, <2>3, <2>6, <2>7 DEF RegOK
  <2>9. \A c \in Cookies : reg[c] = "shared" => \E m \in kept : cookie[m] = c
    BY <2>0 DEF RegOK
  <2>10. \A m, n \in kept : cookie[m] = cookie[n] => m = n
    BY <2>3 DEF RegOK
  <2> QED
    BY <2>4, <2>5, <2>8, <2>9, <2>10
<1>2. IInv => NothingLeaks
  BY <1>1 DEF NothingLeaks
<1> QED
  BY <1>2, Inductive, PTL

\* Who sleeps in mobj_reg_shm_release_by_cookie() is counted in
\* shm_release_waiters, and some other thread still has to leave the object
\* or to broadcast shm_cv: there is no lost wake-up.
THEOREM NoLostWakeUp == Spec => []SleepersAwaited
<1>1. ASSUME IInv, NEW t \in shm_cv
      PROVE  /\ shm_release_waiters # 0
             /\ \E u \in Threads \ {t} :
                  \/ pc[u] = "notify"
                  \/ mobj[u] = mobj[t] /\ pc[u] \in Holding \cup {"free", "freenotify"}
  <2> USE <1>1 DEF IInv, ObjectsOK
  <2>1. t \in Threads /\ pc[t] = "sleep"
    BY DEF TypeOK, SyncOK
  <2>2. IsFiniteSet(Waiters) /\ t \in Waiters
    BY <2>1, ThreadsFinite, FS_Subset DEF Waiters
  <2>3. shm_release_waiters # 0
    BY <2>2, FS_EmptySet DEF SyncOK
  <2>4. PICK m \in reg_shm_list : m = mobj[t] /\ releasing[m]
    BY <2>1, NoneOK DEF Frames, Frame, Releaser, NoUseAfterFree, ReleasingOK
  <2>5. CASE release_frees[m]
    BY <2>1, <2>3, <2>4, <2>5 DEF SyncOK
  <2>6. CASE ~release_frees[m] /\ refc[m] = 0
    <3>1. PICK u \in Threads : mobj[u] = m /\ pc[u] \in Leaving
      BY <2>4, <2>6 DEF ZeroOK
    <3>2. pc[u] # "freeguarded"
      BY <2>4, <3>1 DEF ZeroOK
    <3> QED
      BY <2>1, <2>3, <2>4, <3>1, <3>2 DEF Leaving
  <2>7. CASE refc[m] # 0
    <3>0. Cardinality(RefHolders(m)) \in Nat
      BY ThreadsFinite, FS_Subset, FS_CardinalityType DEF RefHolders
    <3>a. m \notin left
      BY <2>4 DEF LeftOK, ReleasingOK
    <3>1. Cardinality(RefHolders(m)) # 0
      BY <2>4, <2>7, <3>0, <3>a DEF RefcountExact
    <3>2. PICK u : u \in RefHolders(m)
      BY <3>1, FS_EmptySet
    <3>3. u \in Threads /\ mobj[u] = m /\ pc[u] \in Holding
      BY <3>2 DEF RefHolders
    <3>4. u # t
      BY <2>1, <3>3 DEF Holding
    <3> QED
      BY <2>3, <2>4, <3>3, <3>4
  <2> QED
    BY <2>5, <2>6, <2>7
<1>2. IInv => SleepersAwaited
  BY <1>1 DEF SleepersAwaited
<1> QED
  BY <1>2, Inductive, PTL

\* The address of a mapped object
LEMMA AddressStep ==
    ASSUME IInv, NEW n \in Mobjs, MapHolders(n) \cap MapHolders(n)' # {},
         NEW t \in Threads, Request(t) \/ Steps(t) \/ Locking(t)
    PROVE  mm'[n] = mm[n]
<1> USE NoneOK DEF IInv, TypeOK, Goto, fields, sync, locals, Frames, Frame, Releaser,
     ObjectsOK
<1>1. ASSUME NEW c \in Cookies, CallRegister(t, c) PROVE mm'[n] = mm[n]
  BY <1>1 DEF CallRegister, Requests
<1>2. ASSUME NEW c \in Cookies, CallRmem(t, c) PROVE mm'[n] = mm[n]
  BY <1>2 DEF CallRmem, Requests
<1>3. ASSUME NEW c \in Cookies, CallUnregister(t, c) PROVE mm'[n] = mm[n]
  BY <1>3 DEF CallUnregister, Requests
<1>4. ASSUME NEW j \in Jobs, CallTmem(t, j) PROVE mm'[n] = mm[n]
  BY <1>4 DEF CallTmem, Requests
<1>5. ASSUME NEW m \in Mobjs, PageAlloc(t, m) PROVE mm'[n] = mm[n]
  <2>1. MapHolders(m) = {}
    BY <1>5 DEF PageAlloc, Insert, MapHolders, NoUseAfterFree
  <2> QED
    BY <1>5, <2>1 DEF PageAlloc, Insert
<1>6. ASSUME NEW m \in Mobjs, BufferAlloc(t, m) PROVE mm'[n] = mm[n]
  <2>1. MapHolders(m) = {}
    BY <1>6 DEF BufferAlloc, Insert, MapHolders, NoUseAfterFree
  <2> QED
    BY <1>6, <2>1 DEF BufferAlloc, Insert
<1>7. CASE AllocFails(t)
  BY <1>7 DEF AllocFails, Return, Conclude
<1>8. CASE Unguard(t)
  BY <1>8 DEF Unguard, Return, Conclude
<1>9. CASE Find(t)
  BY <1>9 DEF Find, Finds
<1>10. CASE FindNothing(t)
  BY <1>10 DEF FindNothing, Return, Conclude
<1>11. CASE Get(t)
  BY <1>11 DEF Get
<1>12. CASE IncMap(t)
  BY <1>12 DEF IncMap
<1>13. CASE IncMapLocked(t)
  <2>0. PICK m \in reg_shm_list : m = mobj[t] /\ (mm' # mm => mapcount[m] = 0)
    BY <1>13 DEF IncMapLocked, NoUseAfterFree
  <2>1. mapcount[m] = 0 => MapHolders(m) = {}
    <3>1. IsFiniteSet(MapHolders(m))
      BY ThreadsFinite, FS_Subset DEF MapHolders
    <3> QED
      BY <2>0, <3>1, FS_EmptySet DEF MapcountExact
  <2> QED
    BY <1>13, <2>0, <2>1 DEF IncMapLocked, FreeVas
<1>14. CASE MapFails(t)
  BY <1>14 DEF MapFails, Skipped
<1>15. CASE Use(t)
  BY <1>15 DEF Use
<1>16. CASE DecMap(t)
  BY <1>16 DEF DecMap
<1>17. CASE DecMapLocked(t)
  <2>0. PICK m \in reg_shm_list : m = mobj[t] /\ (mm' # mm => mapcount[m] = 0)
    BY <1>17 DEF DecMapLocked, NoUseAfterFree
  <2>1. mapcount[m] = 0 => MapHolders(m) = {}
    <3>1. IsFiniteSet(MapHolders(m))
      BY ThreadsFinite, FS_Subset DEF MapHolders
    <3> QED
      BY <2>0, <3>1, FS_EmptySet DEF MapcountExact
  <2> QED
    BY <1>17, <2>0, <2>1 DEF DecMapLocked
<1>18. CASE Put(t)
  BY <1>18 DEF Put, After, Return, Conclude
<1>19. CASE Free(t)
  BY <1>19 DEF Free
<1>20. CASE FreeGuarded(t)
  <2>1. Returned(t) /\ pc[t] = "freeguarded"
    BY <1>20, AfterReturns DEF FreeGuarded
  <2>2. PICK m \in reg_shm_list :
           m = mobj[t] /\ job[t] # "unregister" /\ \A u \in Threads : Refers(u, m) => u = t
    BY <2>1, FreedAlone
  <2>3. FreeHelper(m)
    BY <1>20, <2>2 DEF FreeGuarded
  <2>4. MapHolders(m) \subseteq {t} /\ t \notin MapHolders(m)'
    BY <2>1, <2>2 DEF Returned, MapHolders, Refers
  <2> QED
    BY <2>2, <2>3, <2>4 DEF FreeHelper
<1>21. CASE FreeNotify(t)
  BY <1>21 DEF FreeNotify
<1>22. CASE ReleaseFind(t)
  BY <1>22 DEF ReleaseFind, Releasable, Finds
<1>23. CASE ReleaseRefused(t)
  BY <1>23 DEF ReleaseRefused, Releasable, Finds, Return, Conclude
<1>24. CASE ReleaseFrees(t)
  <2>1. pc[t] = "rcheck" /\ release_frees[mobj[t]] /\ job[t] = "unregister"
    BY <1>24 DEF ReleaseFrees, Return
  <2>2. PICK m \in reg_shm_list : m = mobj[t] /\ \A u \in Threads : Refers(u, m) => u = t
    BY <2>1, FreedAlone
  <2>3. FreeHelper(m)
    BY <1>24, <2>2 DEF ReleaseFrees
  <2>4. MapHolders(m) = {}
    BY <2>1, <2>2 DEF MapHolders, Refers
  <2> QED
    BY <2>2, <2>3, <2>4 DEF FreeHelper
<1>25. CASE ReleaseNotYet(t)
  BY <1>25 DEF ReleaseNotYet
<1>26. CASE ReleaseWait(t)
  BY <1>26 DEF ReleaseWait
<1>27. CASE Notify(t)
  BY <1>27 DEF Notify
<1>28. CASE ReleaseLock(t)
  BY <1>28 DEF ReleaseLock
<1>29. CASE ReleaseWoken(t)
  BY <1>29 DEF ReleaseWoken
<1> QED
  BY <1>1, <1>2, <1>3, <1>4, <1>5, <1>6, <1>7, <1>8, <1>9, <1>10, <1>11, <1>12, <1>13,
     <1>14, <1>15, <1>16, <1>17, <1>18, <1>19, <1>20, <1>21, <1>22, <1>23, <1>24, <1>25,
     <1>26, <1>27, <1>28, <1>29
     DEF Request, Steps, Locking

\* While a thread has an object mapped, the address that
\* mobj_reg_shm_get_va() gave it stays the object's address, although other
\* threads map, unmap and free concurrently under reg_shm_map_lock.
THEOREM AddressIsStable == Spec => AddressStable
<1>1. IInv /\ [Next]_vars =>
        [\A m \in Mobjs : MapHolders(m) \cap MapHolders(m)' # {} => mm'[m] = mm[m]]_vars
  <2>1. ASSUME NEW t \in Threads, Skip(t) PROVE mm' = mm
    BY <2>1 DEF Skip, fields
  <2> QED
    BY <2>1, AddressStep DEF Next
<1> QED
  BY <1>1, Inductive, PTL DEF Spec, AddressStable

----------------------------------------------------------------------------
\* The refinement of ShmRegistry

\* What the refinement mapping makes of a cookie ...
Shown(c) ==
    IF \E m \in Finds(c) : releasing[m] THEN "leaving"
    ELSE IF Finds(c) # {} THEN "shared" ELSE "gone"

Users(c) ==
    {t \in Threads : /\ mobj[t] \in Finds(c) /\ job[t] # "unregister"
                     /\ pc[t] \in Holding \ {"unguard"}}

\* ... and the steps that it makes of a step.
Kept(C) == \A c \in C : Shown(c)' = Shown(c) /\ Users(c)' = Users(c)

Moved(c, from, to) ==
    /\ Shown(c) = from /\ Shown(c)' = to /\ Users(c)' = Users(c)
    /\ Kept(Cookies \ {c})

Begun(t, c) ==
    /\ Shown(c) = "shared" /\ Shown(c)' = Shown(c) /\ Users(c)' = Users(c) \cup {t}
    /\ Kept(Cookies \ {c})

Ended(t, c) ==
    /\ t \in Users(c) /\ Shown(c)' = Shown(c) /\ Users(c)' = Users(c) \ {t}
    /\ Kept(Cookies \ {c})

Mapped ==
    \/ Kept(Cookies)
    \/ \E c \in Cookies :
         \/ Moved(c, "gone", "shared") \/ Moved(c, "shared", "leaving")
         \/ Users(c) = {} /\ Moved(c, "leaving", "gone")
         \/ \E t \in Threads : Begun(t, c) \/ Ended(t, c)

\* Every step is one of those
LEMMA MappedStep ==
    ASSUME IInv, NEW t \in Threads, Request(t) \/ Steps(t) \/ Locking(t)
    PROVE  Mapped
<1> USE NoneOK DEF IInv, TypeOK, Goto, fields, sync, locals, Frames, Frame, Releaser,
     NoUseAfterFree, ObjectsOK
<1>1. ASSUME NEW c \in Cookies, CallRegister(t, c) PROVE Mapped
  <2>1. \A d \in Cookies : Finds(d)' = Finds(d)
    BY <1>1 DEF CallRegister, Requests, Finds
  <2>2. \A d \in Cookies : Users(d)' = Users(d)
    BY <1>1, <2>1 DEF CallRegister, Requests, Users, Holding
  <2>3. \A d \in Cookies : Shown(d)' = Shown(d)
    BY <1>1, <2>1 DEF CallRegister, Requests, Shown
  <2> QED
    BY <2>2, <2>3 DEF Mapped, Kept
<1>2. ASSUME NEW c \in Cookies, CallRmem(t, c) PROVE Mapped
  <2>1. \A d \in Cookies : Finds(d)' = Finds(d)
    BY <1>2 DEF CallRmem, Requests, Finds
  <2>2. \A d \in Cookies : Users(d)' = Users(d)
    BY <1>2, <2>1 DEF CallRmem, Requests, Users, Holding
  <2>3. \A d \in Cookies : Shown(d)' = Shown(d)
    BY <1>2, <2>1 DEF CallRmem, Requests, Shown
  <2> QED
    BY <2>2, <2>3 DEF Mapped, Kept
<1>3. ASSUME NEW c \in Cookies, CallUnregister(t, c) PROVE Mapped
  <2>1. \A d \in Cookies : Finds(d)' = Finds(d)
    BY <1>3 DEF CallUnregister, Requests, Finds
  <2>2. \A d \in Cookies : Users(d)' = Users(d)
    BY <1>3, <2>1 DEF CallUnregister, Requests, Users, Holding
  <2>3. \A d \in Cookies : Shown(d)' = Shown(d)
    BY <1>3, <2>1 DEF CallUnregister, Requests, Shown
  <2> QED
    BY <2>2, <2>3 DEF Mapped, Kept
<1>4. ASSUME NEW j \in Jobs, CallTmem(t, j) PROVE Mapped
  <2>1. \A c \in Cookies : Finds(c)' = Finds(c)
    BY <1>4 DEF CallTmem, Requests, Finds
  <2>2. \A c \in Cookies : Users(c)' = Users(c)
    BY <1>4, <2>1 DEF CallTmem, Requests, Users, Holding
  <2>3. \A c \in Cookies : Shown(c)' = Shown(c)
    BY <1>4, <2>1 DEF CallTmem, Requests, Shown
  <2> QED
    BY <2>2, <2>3 DEF Mapped, Kept
<1>5. ASSUME NEW m \in Mobjs, PageAlloc(t, m) PROVE Mapped
  <2>1. m \notin reg_shm_list /\ \A c \in Cookies : Finds(c)' = Finds(c) /\ m \notin Finds(c)
    BY <1>5 DEF PageAlloc, Insert, Finds
  <2>2. \A c \in Cookies : Users(c)' = Users(c)
    BY <1>5, <2>1 DEF PageAlloc, Insert, Users, Holding
  <2>3. \A c \in Cookies : Shown(c)' = Shown(c)
    BY <1>5, <2>1 DEF PageAlloc, Insert, Shown
  <2> QED
    BY <2>2, <2>3 DEF Mapped, Kept
<1>6. ASSUME NEW m \in Mobjs, BufferAlloc(t, m) PROVE Mapped
  <2>a. CASE job[t] # "register"
    <3>1. m \notin reg_shm_list /\ \A c \in Cookies : Finds(c)' = Finds(c) /\ m \notin Finds(c)
      BY <1>6, <2>a DEF BufferAlloc, Insert, Finds
    <3>2. \A c \in Cookies : Users(c)' = Users(c)
      BY <1>6, <3>1 DEF BufferAlloc, Insert, Users, Holding
    <3>3. \A c \in Cookies : Shown(c)' = Shown(c)
      BY <1>6, <3>1 DEF BufferAlloc, Insert, Shown
    <3> QED
      BY <3>2, <3>3 DEF Mapped, Kept
  <2>b. CASE job[t] = "register"
    <3>1. PICK c \in Cookies : c = arg[t]
      BY <2>b
    <3>2. m \notin reg_shm_list /\ Finds(c) = {} /\ Finds(c)' = {m} /\ pc'[t] = "unguard"
      BY <1>6, <2>b, <3>1 DEF BufferAlloc, Insert, Finds, RegOK
    <3>3. \A d \in Cookies \ {c} : Finds(d)' = Finds(d) /\ m \notin Finds(d)
      BY <1>6, <3>1 DEF BufferAlloc, Insert, Finds
    <3>4. Users(c) = {} /\ Users(c)' = {}
      BY <1>6, <3>2 DEF BufferAlloc, Users, Holding
    <3>5. Shown(c) = "gone" /\ Shown(c)' = "shared"
      BY <1>6, <3>2 DEF BufferAlloc, Insert, Shown
    <3>6. Kept(Cookies \ {c})
      <4>1. \A d \in Cookies \ {c} : Users(d)' = Users(d)
        BY <1>6, <3>2, <3>3 DEF BufferAlloc, Users, Holding
      <4>2. \A d \in Cookies \ {c} : Shown(d)' = Shown(d)
        BY <1>6, <3>3 DEF BufferAlloc, Insert, Shown
      <4> QED
        BY <4>1, <4>2 DEF Kept
    <3> QED
      BY <3>4, <3>5, <3>6 DEF Mapped, Moved
  <2> QED
    BY <2>a, <2>b
<1>7. CASE AllocFails(t)
  <2>1. \A c \in Cookies : Finds(c)' = Finds(c)
    BY <1>7 DEF AllocFails, Return, Conclude, Finds
  <2>2. \A c \in Cookies : Users(c)' = Users(c)
    BY <1>7, <2>1 DEF AllocFails, Return, Conclude, Users, Holding
  <2>3. \A c \in Cookies : Shown(c)' = Shown(c)
    BY <1>7, <2>1 DEF AllocFails, Shown
  <2> QED
    BY <2>2, <2>3 DEF Mapped, Kept
<1>8. CASE Unguard(t)
  <2>1. \A c \in Cookies : Finds(c)' = Finds(c)
    BY <1>8 DEF Unguard, Return, Conclude, Finds
  <2>2. \A c \in Cookies : Users(c)' = Users(c)
    BY <1>8, <2>1 DEF Unguard, Return, Conclude, Users, Holding
  <2>3. \A c \in Cookies : Shown(c)' = Shown(c)
    BY <1>8, <2>1 DEF Unguard, Shown
  <2> QED
    BY <2>2, <2>3 DEF Mapped, Kept
<1>9. CASE Find(t)
  <2>1. \A c \in Cookies : Finds(c)' = Finds(c)
    BY <1>9 DEF Find, Finds, Finds
  <2>2. \A c \in Cookies : Users(c)' = Users(c)
    BY <1>9, <2>1 DEF Find, Finds, Users, Holding
  <2>3. \A c \in Cookies : Shown(c)' = Shown(c)
    BY <1>9, <2>1 DEF Find, Finds, Shown
  <2> QED
    BY <2>2, <2>3 DEF Mapped, Kept
<1>10. CASE FindNothing(t)
  <2>1. \A c \in Cookies : Finds(c)' = Finds(c)
    BY <1>10 DEF FindNothing, Return, Conclude, Finds
  <2>2. \A c \in Cookies : Users(c)' = Users(c)
    BY <1>10, <2>1 DEF FindNothing, Return, Conclude, Users, Holding
  <2>3. \A c \in Cookies : Shown(c)' = Shown(c)
    BY <1>10, <2>1 DEF FindNothing, Shown
  <2> QED
    BY <2>2, <2>3 DEF Mapped, Kept
<1>11. CASE Get(t)
  <2>0. PICK m \in reg_shm_list : m = mobj[t] /\ cookie[m] = arg[t] /\ arg[t] \in Cookies
    BY <1>11 DEF Get, KindOK, Refers
  <2>1. pc'[t] \in {"inc", "put"} /\ job[t] = "rmem"
    BY <1>11, PointersStep DEF Get
  <2>2. ~releasing[m]
    BY <1>11, <2>0 DEF Get, RegOK, ReleasingOK
  <2>3. PICK c \in Cookies : c = arg[t] /\ m \in Finds(c) /\ \A n \in Finds(c) : n = m
    BY <2>0, NoneOK DEF Finds, RegOK
  <2>4. \A d \in Cookies : Finds(d)' = Finds(d)
    BY <1>11 DEF Get, Finds
  <2>5. \A d \in Cookies : Shown(d)' = Shown(d)
    BY <1>11, <2>4 DEF Get, Shown
  <2>6. Shown(c) = "shared"
    BY <2>2, <2>3 DEF Shown
  <2>7. Users(c)' = Users(c) \cup {t}
    BY <1>11, <2>0, <2>1, <2>3, <2>4 DEF Get, Users, Holding
  <2>8. \A d \in Cookies \ {c} : Users(d)' = Users(d)
    <3>1. \A d \in Cookies \ {c} : mobj[t] \notin Finds(d)
      BY <2>0, <2>3 DEF Finds
    <3> QED
      BY <1>11, <2>1, <2>4, <3>1 DEF Get, Users, Holding
  <2> QED
    BY <2>5, <2>6, <2>7, <2>8 DEF Mapped, Begun, Kept
<1>12. CASE IncMap(t)
  <2>1. \A c \in Cookies : Finds(c)' = Finds(c)
    BY <1>12 DEF IncMap, Finds
  <2>2. \A c \in Cookies : Users(c)' = Users(c)
    BY <1>12, <2>1 DEF IncMap, Users, Holding
  <2>3. \A c \in Cookies : Shown(c)' = Shown(c)
    BY <1>12, <2>1 DEF IncMap, Shown
  <2> QED
    BY <2>2, <2>3 DEF Mapped, Kept
<1>13. CASE IncMapLocked(t)
  <2>1. \A c \in Cookies : Finds(c)' = Finds(c)
    BY <1>13 DEF IncMapLocked, FreeVas, Finds
  <2>2. \A c \in Cookies : Users(c)' = Users(c)
    BY <1>13, <2>1 DEF IncMapLocked, FreeVas, Users, Holding
  <2>3. \A c \in Cookies : Shown(c)' = Shown(c)
    BY <1>13, <2>1 DEF IncMapLocked, FreeVas, Shown
  <2> QED
    BY <2>2, <2>3 DEF Mapped, Kept
<1>14. CASE MapFails(t)
  <2>1. \A c \in Cookies : Finds(c)' = Finds(c)
    BY <1>14 DEF MapFails, Finds
  <2>2. \A c \in Cookies : Users(c)' = Users(c)
    BY <1>14, <2>1 DEF MapFails, Users, Holding
  <2>3. \A c \in Cookies : Shown(c)' = Shown(c)
    BY <1>14, <2>1 DEF MapFails, Shown
  <2> QED
    BY <2>2, <2>3 DEF Mapped, Kept
<1>15. CASE Use(t)
  <2>1. \A c \in Cookies : Finds(c)' = Finds(c)
    BY <1>15 DEF Use, Finds
  <2>2. \A c \in Cookies : Users(c)' = Users(c)
    BY <1>15, <2>1 DEF Use, Users, Holding
  <2>3. \A c \in Cookies : Shown(c)' = Shown(c)
    BY <1>15, <2>1 DEF Use, Shown
  <2> QED
    BY <2>2, <2>3 DEF Mapped, Kept
<1>16. CASE DecMap(t)
  <2>1. \A c \in Cookies : Finds(c)' = Finds(c)
    BY <1>16 DEF DecMap, Finds
  <2>2. \A c \in Cookies : Users(c)' = Users(c)
    BY <1>16, <2>1 DEF DecMap, Users, Holding
  <2>3. \A c \in Cookies : Shown(c)' = Shown(c)
    BY <1>16, <2>1 DEF DecMap, Shown
  <2> QED
    BY <2>2, <2>3 DEF Mapped, Kept
<1>17. CASE DecMapLocked(t)
  <2>1. \A c \in Cookies : Finds(c)' = Finds(c)
    BY <1>17 DEF DecMapLocked, Finds
  <2>2. \A c \in Cookies : Users(c)' = Users(c)
    BY <1>17, <2>1 DEF DecMapLocked, Users, Holding
  <2>3. \A c \in Cookies : Shown(c)' = Shown(c)
    BY <1>17, <2>1 DEF DecMapLocked, Shown
  <2> QED
    BY <2>2, <2>3 DEF Mapped, Kept
<1>18. CASE Put(t)
  <2>0. PICK m \in reg_shm_list : m = mobj[t] /\ cookie[m] \in Cookies \cup {NoCookie}
    BY <1>18 DEF Put
  <2>1. \A d \in Cookies : Finds(d)' = Finds(d)
    BY <1>18 DEF Put, Finds
  <2>2. \A d \in Cookies : Shown(d)' = Shown(d)
    BY <1>18, <2>1 DEF Put, Shown
  <2>3. /\ pc'[t] \notin Holding
        /\ \A u \in Threads \ {t} : pc'[u] = pc[u] /\ mobj'[u] = mobj[u] /\ job'[u] = job[u]
    BY <1>18, AfterReturns DEF Put, Returned, Holding
  <2>4. pc[t] = "put" /\ \A d \in Cookies : d # cookie[m] => mobj[t] \notin Finds(d)
    BY <1>18, <2>0 DEF Put, Finds
  <2>5. \A d \in Cookies : d # cookie[m] \/ job[t] = "unregister" => Users(d)' = Users(d)
    BY <2>1, <2>3, <2>4 DEF Users
  <2>6. CASE cookie[m] \in Cookies /\ job[t] # "unregister"
    <3>1. PICK c \in Cookies : c = cookie[m]
      BY <2>6
    <3>2. t \in Users(c) /\ Users(c)' = Users(c) \ {t}
      BY <2>0, <2>1, <2>3, <2>4, <2>6, <3>1 DEF Users, Finds, Holding
    <3> QED
      BY <2>2, <2>5, <3>1, <3>2 DEF Mapped, Ended, Kept
  <2>7. CASE cookie[m] = NoCookie \/ job[t] = "unregister"
    BY <2>2, <2>5, <2>7 DEF Mapped, Kept
  <2> QED
    BY <2>0, <2>6, <2>7
<1>19. CASE Free(t)
  <2>1. \A c \in Cookies : Finds(c)' = Finds(c)
    BY <1>19 DEF Free, Finds
  <2>2. \A c \in Cookies : Users(c)' = Users(c)
    BY <1>19, <2>1 DEF Free, Users, Holding
  <2>3. \A c \in Cookies : Shown(c)' = Shown(c)
    BY <1>19, <2>1 DEF Free, Shown
  <2> QED
    BY <2>2, <2>3 DEF Mapped, Kept
<1>20. CASE FreeGuarded(t)
  <2>a. Returned(t) /\ pc[t] = "freeguarded"
    BY <1>20, AfterReturns DEF FreeGuarded
  <2>b. PICK m \in reg_shm_list : m = mobj[t] /\ cookie[m] = NoCookie
    BY <2>a, FreedAlone
  <2>c. FreeHelper(m)
    BY <1>20, <2>b DEF FreeGuarded
  <2>1. \A c \in Cookies : Finds(c)' = Finds(c) /\ m \notin Finds(c)
    BY <2>b, <2>c DEF FreeHelper, Finds
  <2>2. \A c \in Cookies : Users(c)' = Users(c)
    BY <2>a, <2>1 DEF Returned, Users, Holding
  <2>3. \A c \in Cookies : Shown(c)' = Shown(c)
    BY <2>c, <2>1 DEF FreeHelper, Shown, Finds
  <2> QED
    BY <2>2, <2>3 DEF Mapped, Kept
<1>21. CASE FreeNotify(t)
  <2>1. \A c \in Cookies : Finds(c)' = Finds(c)
    BY <1>21 DEF FreeNotify, Finds
  <2>2. \A c \in Cookies : Users(c)' = Users(c)
    BY <1>21, <2>1 DEF FreeNotify, Users, Holding
  <2>3. \A c \in Cookies : Shown(c)' = Shown(c)
    BY <1>21, <2>1 DEF FreeNotify, Shown
  <2> QED
    BY <2>2, <2>3 DEF Mapped, Kept
<1>22. CASE ReleaseFind(t)
  <2>0. PICK m \in reg_shm_list :
           /\ cookie[m] = arg[t] /\ ~guarded[m] /\ ~releasing[m]
           /\ releasing' = [releasing EXCEPT ![m] = TRUE] /\ mobj' = [mobj EXCEPT ![t] = m]
    BY <1>22 DEF ReleaseFind, Releasable, Finds
  <2>1. PICK c \in Cookies : c = arg[t] /\ m \in Finds(c) /\ \A n \in Finds(c) : n = m
    BY <1>22, <2>0 DEF ReleaseFind, Finds, RegOK
  <2>2. \A d \in Cookies : Finds(d)' = Finds(d)
    BY <1>22 DEF ReleaseFind, Finds
  <2>3. \A d \in Cookies : Users(d)' = Users(d)
    BY <1>22, <2>0, <2>2 DEF ReleaseFind, Users, Holding
  <2>4. Shown(c) = "shared" /\ Shown(c)' = "leaving"
    BY <2>0, <2>1, <2>2 DEF Shown
  <2>5. \A d \in Cookies \ {c} : Shown(d)' = Shown(d)
    BY <2>0, <2>1, <2>2 DEF Shown, Finds
  <2> QED
    BY <2>3, <2>4, <2>5 DEF Mapped, Moved, Kept
<1>23. CASE ReleaseRefused(t)
  <2>1. \A c \in Cookies : Finds(c)' = Finds(c)
    BY <1>23 DEF ReleaseRefused, Releasable, Finds, Return, Conclude, Finds
  <2>2. \A c \in Cookies : Users(c)' = Users(c)
    BY <1>23, <2>1 DEF ReleaseRefused, Releasable, Finds, Return, Conclude, Users, Holding
  <2>3. \A c \in Cookies : Shown(c)' = Shown(c)
    BY <1>23, <2>1 DEF ReleaseRefused, Releasable, Finds, Shown
  <2> QED
    BY <2>2, <2>3 DEF Mapped, Kept
<1>24. CASE ReleaseFrees(t)
  <2>0. pc[t] = "rcheck" /\ release_frees[mobj[t]] /\ job[t] = "unregister" /\ arg[t] \in Cookies
    BY <1>24 DEF ReleaseFrees, Return
  <2>1. PICK m \in reg_shm_list :
           /\ m = mobj[t] /\ cookie[m] = arg[t] /\ releasing[m]
           /\ \A u \in Threads : Refers(u, m) => u = t
    BY <2>0, FreedAlone
  <2>2. FreeHelper(m)
    BY <1>24, <2>1 DEF ReleaseFrees
  <2>3. PICK c \in Cookies : c = arg[t] /\ Finds(c) = {m}
    BY <2>0, <2>1 DEF Finds, RegOK
  <2>4. Finds(c)' = {} /\ \A d \in Cookies \ {c} : Finds(d)' = Finds(d) /\ m \notin Finds(d)
    BY <2>1, <2>2, <2>3 DEF FreeHelper, Finds
  <2>5. Users(c) = {} /\ Users(c)' = {}
    BY <2>0, <2>1, <2>3, <2>4 DEF Users, Refers, Holding
  <2>6. \A d \in Cookies \ {c} : Users(d)' = Users(d)
    BY <1>24, <2>0, <2>1, <2>4 DEF ReleaseFrees, Return, Users, Holding
  <2>7. Shown(c) = "leaving" /\ Shown(c)' = "gone"
    BY <2>1, <2>3, <2>4 DEF Shown
  <2>8. \A d \in Cookies \ {c} : Shown(d)' = Shown(d)
    BY <2>2, <2>4 DEF FreeHelper, Shown, Finds
  <2> QED
    BY <2>5, <2>6, <2>7, <2>8 DEF Mapped, Moved, Kept
<1>25. CASE ReleaseNotYet(t)
  <2>1. \A c \in Cookies : Finds(c)' = Finds(c)
    BY <1>25 DEF ReleaseNotYet, Finds
  <2>2. \A c \in Cookies : Users(c)' = Users(c)
    BY <1>25, <2>1 DEF ReleaseNotYet, Users, Holding
  <2>3. \A c \in Cookies : Shown(c)' = Shown(c)
    BY <1>25, <2>1 DEF ReleaseNotYet, Shown
  <2> QED
    BY <2>2, <2>3 DEF Mapped, Kept
<1>26. CASE ReleaseWait(t)
  <2>1. \A c \in Cookies : Finds(c)' = Finds(c)
    BY <1>26 DEF ReleaseWait, Finds
  <2>2. \A c \in Cookies : Users(c)' = Users(c)
    BY <1>26, <2>1 DEF ReleaseWait, Users, Holding
  <2>3. \A c \in Cookies : Shown(c)' = Shown(c)
    BY <1>26, <2>1 DEF ReleaseWait, Shown
  <2> QED
    BY <2>2, <2>3 DEF Mapped, Kept
<1>27. CASE Notify(t)
  <2>0. Returned(t) /\ pc[t] = "notify"
    BY <1>27, AfterReturns DEF Notify
  <2>1. \A c \in Cookies : Finds(c)' = Finds(c)
    BY <1>27 DEF Notify, Finds
  <2>2. \A c \in Cookies : Users(c)' = Users(c)
    BY <2>0, <2>1 DEF Returned, Users, Holding
  <2>3. \A c \in Cookies : Shown(c)' = Shown(c)
    BY <1>27, <2>1 DEF Notify, Shown
  <2> QED
    BY <2>2, <2>3 DEF Mapped, Kept
<1>28. CASE ReleaseLock(t)
  <2>1. \A c \in Cookies : Finds(c)' = Finds(c)
    BY <1>28 DEF ReleaseLock, Finds
  <2>2. \A c \in Cookies : Users(c)' = Users(c)
    BY <1>28, <2>1 DEF ReleaseLock, Users, Holding
  <2>3. \A c \in Cookies : Shown(c)' = Shown(c)
    BY <1>28, <2>1 DEF ReleaseLock, Shown
  <2> QED
    BY <2>2, <2>3 DEF Mapped, Kept
<1>29. CASE ReleaseWoken(t)
  <2>1. \A c \in Cookies : Finds(c)' = Finds(c)
    BY <1>29 DEF ReleaseWoken, Finds
  <2>2. \A c \in Cookies : Users(c)' = Users(c)
    BY <1>29, <2>1 DEF ReleaseWoken, Users, Holding
  <2>3. \A c \in Cookies : Shown(c)' = Shown(c)
    BY <1>29, <2>1 DEF ReleaseWoken, Shown
  <2> QED
    BY <2>2, <2>3 DEF Mapped, Kept
<1> QED
  BY <1>1, <1>2, <1>3, <1>4, <1>5, <1>6, <1>7, <1>8, <1>9, <1>10, <1>11, <1>12, <1>13,
     <1>14, <1>15, <1>16, <1>17, <1>18, <1>19, <1>20, <1>21, <1>22, <1>23, <1>24, <1>25,
     <1>26, <1>27, <1>28, <1>29
     DEF Request, Steps, Locking

\* A mapped step is a step of ShmRegistry, or leaves its variables alone.
LEMMA MappedNext ==
    ASSUME Mapped
    PROVE  [Registry!Next]_(Registry!vars)
<1> DEFINE st == [c \in Cookies |-> Shown(c)]
           us == [c \in Cookies |-> Users(c)]
<1>0. Registry!vars = <<st, us>>
  BY DEF Registry!vars, Shown, Users
<1>a. Registry!vars' = <<st', us'>>
  BY DEF Registry!vars, Shown, Users
<1> HIDE DEF st, us
<1>1. CASE Kept(Cookies)
  BY <1>1, <1>0, <1>a DEF Kept, st, us
<1>2. ASSUME NEW c \in Cookies, NEW from, NEW to, Moved(c, from, to)
      PROVE  Registry!Moves(c, from, to)
  <2>1. st[c] = from /\ st' = [st EXCEPT ![c] = to] /\ us' = us
    BY <1>2 DEF Moved, Kept, st, us
  <2> QED
    BY <2>1 DEF Registry!Moves, st, us, Shown, Users
<1>3. ASSUME NEW c \in Cookies, NEW t \in Threads, Begun(t, c)
      PROVE  Registry!Begin(t, c)
  <2>1. st[c] = "shared" /\ st' = st /\ us' = [us EXCEPT ![c] = @ \cup {t}]
    BY <1>3 DEF Begun, Kept, st, us
  <2> QED
    BY <2>1 DEF Registry!Begin, st, us, Shown, Users
<1>4. ASSUME NEW c \in Cookies, NEW t \in Threads, Ended(t, c)
      PROVE  Registry!End(t, c)
  <2>1. t \in us[c] /\ st' = st /\ us' = [us EXCEPT ![c] = @ \ {t}]
    BY <1>4 DEF Ended, Kept, st, us
  <2> QED
    BY <2>1 DEF Registry!End, st, us, Shown, Users
<1>5. ASSUME NEW c \in Cookies, Users(c) = {}, Moved(c, "leaving", "gone")
      PROVE  Registry!Unregistered(c)
  <2>1. us[c] = {}
    BY <1>5 DEF us
  <2>2. Registry!Moves(c, "leaving", "gone")
    BY <1>2, <1>5
  <2> QED
    BY <2>1, <2>2 DEF Registry!Unregistered, us, Users
<1> QED
  BY <1>1, <1>2, <1>3, <1>4, <1>5 DEF Mapped, Registry!Next, Registry!Register,
       Registry!Unregister

\* mobj_dyn_shm.c keeps what module ShmRegistry promises the normal world:
\* once the request to unregister a cookie has succeeded, no request uses
\* its buffer, and no new one does while it waits.
THEOREM RegistryImplemented == Spec => ImplementsRegistry
<1>1. Init => Registry!Init
  <2> SUFFICES ASSUME Init PROVE Registry!Init
    OBVIOUS
  <2>1. \A c \in Cookies : Finds(c) = {}
    BY DEF Init, Finds
  <2> QED
    BY <2>1 DEF Registry!Init
<1>2. IInv /\ [Next]_vars => [Registry!Next]_(Registry!vars)
  <2>1. ASSUME IInv, NEW t \in Threads, Request(t) \/ Steps(t) \/ Locking(t)
        PROVE  [Registry!Next]_(Registry!vars)
    BY <2>1, MappedStep, MappedNext
  <2>3. ASSUME IInv, NEW t \in Threads, Skip(t)
        PROVE  Kept(Cookies)
    <3>1. Refers(t, mobj[t]) /\ mobj[t] \in Mobjs /\ job[t] = "tmem" /\ ~page[t]
      BY <2>3 DEF Skip, Skipped, Return, Goto, Refers, IInv, TypeOK, Frames, Frame
    <3>2. cookie[mobj[t]] = NoCookie
      BY <2>3, <3>1 DEF IInv, ObjectsOK, KindOK
    <3>3. \A c \in Cookies : Finds(c)' = Finds(c) /\ mobj[t] \notin Finds(c) /\ NoMobj \notin Finds(c)
      BY <2>3, <3>2, NoneOK DEF Skip, fields, Finds, IInv, TypeOK
    <3>4. \A c \in Cookies : Users(c)' = Users(c)
      BY <2>3, <3>3 DEF Skip, Return, Goto, Users, IInv, TypeOK
    <3>5. \A c \in Cookies : Shown(c)' = Shown(c)
      BY <2>3, <3>3 DEF Skip, fields, Shown
    <3> QED
      BY <3>4, <3>5 DEF Kept
  <2>2. ASSUME UNCHANGED vars
        PROVE  Kept(Cookies)
    BY <2>2 DEF vars, fields, locals, Kept, Shown, Users, Finds
  <2> QED
    BY <2>1, <2>2, <2>3, MappedNext DEF Next, Mapped
<1> QED
  BY <1>1, <1>2, Inductive, PTL DEF Spec, ImplementsRegistry, Registry!Spec
=============================================================================
