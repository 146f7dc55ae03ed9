------------------------------- MODULE RegShm -------------------------------
(***************************************************************************)
(* Shared memory that the normal world registers under a cookie            *)
(* (mobj_dyn_shm.c): reference counts and map counts that change without a *)
(* lock, the list of cookies under reg_shm_slist_lock, the mappings under  *)
(* reg_shm_map_lock, and the release by cookie, which waits for the last   *)
(* user under shm_mu.  A step is one atomic operation on a counter, one    *)
(* spinlock section, or one section under shm_mu; shm_mu and shm_cv behave *)
(* as module Monitor says.                                                 *)
(*                                                                         *)
(* A thread handles one request of the normal world at a time: register a  *)
(* buffer, use a buffer described in the request ("tmem") or one that the  *)
(* core asked for by RPC ("rpc"), use a registered buffer ("rmem"), or     *)
(* unregister one.  The first three read a list of pages through a mapping *)
(* of each of its pages first (msg_param_extract_pages()).  The object of  *)
(* a buffer described in the request is not put when the request ends:     *)
(* cleanup_shm_refs() compares the whole attribute of a parameter with its *)
(* types, and OPTEE_MSG_ATTR_NONCONTIG is still set in it.                 *)
(***************************************************************************)
EXTENDS Naturals, FiniteSets

CONSTANTS
    Threads,
    Mobjs,      \* the memory objects that fit in the heap
    Cookies,    \* cookies of registered buffers
    Vas,        \* the address ranges of the pool tee_mm_shm
    NoThread, NoMobj, NoCookie, NoVa

ASSUME ThreadsFinite == IsFiniteSet(Threads)
ASSUME NoneOK == NoThread \notin Threads /\ NoMobj \notin Mobjs
                 /\ NoCookie \notin Cookies /\ NoVa \notin Vas

VARIABLES
    reg_shm_list,                           \* the objects in the list
    cookie, refc, mapcount, mm,             \* fields of struct mobj_reg_shm
    guarded, releasing, release_frees,
    shm_mu, shm_cv, shm_release_waiters,    \* owner, sleepers, count
    pc, job, page, mobj, arg,               \* the threads' places and locals
    reg,                                    \* what the driver knows of a cookie
    left                                    \* history: objects that cleanup_shm_refs() skipped

fields == <<cookie, refc, mapcount, mm, guarded, releasing, release_frees>>
sync == <<shm_mu, shm_cv, shm_release_waiters>>
locals == <<job, page, mobj, arg>>
vars == <<reg_shm_list, fields, sync, pc, locals, reg, left>>

Jobs == {"none", "register", "tmem", "rpc", "rmem", "unregister", "failed"}

Pcs == {"idle", "page", "alloc", "unguard", "find", "get", "inc", "inclock", "use", "dec",
        "declock", "put", "free", "freeguarded", "freenotify", "notify",
        "rfind", "rlock", "rcheck", "rwait", "sleep", "panic"}

TypeOK ==
    /\ reg_shm_list \subseteq Mobjs
    /\ cookie \in [Mobjs -> Cookies \cup {NoCookie}]
    /\ refc \in [Mobjs -> Nat] /\ mapcount \in [Mobjs -> Nat]
    /\ mm \in [Mobjs -> Vas \cup {NoVa}]
    /\ guarded \in [Mobjs -> BOOLEAN] /\ releasing \in [Mobjs -> BOOLEAN]
    /\ release_frees \in [Mobjs -> BOOLEAN]
    /\ shm_mu \in Threads \cup {NoThread} /\ shm_cv \subseteq Threads
    /\ shm_release_waiters \in Nat
    /\ pc \in [Threads -> Pcs] /\ job \in [Threads -> Jobs] /\ page \in [Threads -> BOOLEAN]
    /\ mobj \in [Threads -> Mobjs \cup {NoMobj}]
    /\ arg \in [Threads -> Cookies \cup {NoCookie}]
    /\ reg \in [Cookies -> {"none", "busy", "shared", "leaving"}]
    /\ left \subseteq Mobjs

Init ==
    /\ reg_shm_list = {}
    /\ cookie = [m \in Mobjs |-> NoCookie]
    /\ refc = [m \in Mobjs |-> 0] /\ mapcount = [m \in Mobjs |-> 0]
    /\ mm = [m \in Mobjs |-> NoVa]
    /\ guarded = [m \in Mobjs |-> FALSE] /\ releasing = [m \in Mobjs |-> FALSE]
    /\ release_frees = [m \in Mobjs |-> FALSE]
    /\ shm_mu = NoThread /\ shm_cv = {} /\ shm_release_waiters = 0
    /\ pc = [t \in Threads |-> "idle"] /\ job = [t \in Threads |-> "none"]
    /\ page = [t \in Threads |-> FALSE]
    /\ mobj = [t \in Threads |-> NoMobj] /\ arg = [t \in Threads |-> NoCookie]
    /\ reg = [c \in Cookies |-> "none"]
    /\ left = {}

Goto(t, from, to) == pc[t] = from /\ pc' = [pc EXCEPT ![t] = to]

----------------------------------------------------------------------------
(* The normal world *)

Requests(t, j, c, to) ==
    /\ Goto(t, "idle", to)
    /\ job' = [job EXCEPT ![t] = j]
    /\ arg' = [arg EXCEPT ![t] = c]
    /\ UNCHANGED <<reg_shm_list, fields, sync, page, mobj>>

\* The driver keeps to its side of the protocol: it gives a new buffer a
\* cookie of its own, ...
CallRegister(t, c) ==
    /\ reg[c] = "none" /\ \A u \in Threads : arg[u] = c => job[u] # "unregister"
    /\ reg' = [reg EXCEPT ![c] = "busy"]
    /\ Requests(t, "register", c, "page")

CallTmem(t, j) == j \in {"tmem", "rpc"} /\ Requests(t, j, NoCookie, "page") /\ UNCHANGED reg

\* ... does not name a buffer in a request once it has asked to unregister it
\* (a cookie that is not registered is refused), ...
CallRmem(t, c) == reg[c] # "leaving" /\ Requests(t, "rmem", c, "find") /\ UNCHANGED reg

\* ... and unregisters it, perhaps twice, while nobody is still to look it up.
CallUnregister(t, c) ==
    /\ reg[c] \in {"shared", "leaving"}
    /\ \A u \in Threads : arg[u] = c => pc[u] \notin {"find", "get"}
    /\ reg' = [reg EXCEPT ![c] = "leaving"]
    /\ Requests(t, "unregister", c, "rfind")

\* A request ends: what the driver concludes from its success or failure.
Conclude(t, ok) ==
    LET c == arg[t]
    IN reg' = IF job[t] = "register" THEN [reg EXCEPT ![c] = IF ok THEN "shared" ELSE "none"]
              ELSE IF job[t] = "unregister" /\ ok THEN [reg EXCEPT ![c] = "none"]
              ELSE reg

Return(t, from, ok) ==
    /\ Goto(t, from, "idle")
    /\ Conclude(t, ok)
    /\ job' = [job EXCEPT ![t] = "none"] /\ page' = [page EXCEPT ![t] = FALSE]
    /\ mobj' = [mobj EXCEPT ![t] = NoMobj] /\ arg' = [arg EXCEPT ![t] = NoCookie]

----------------------------------------------------------------------------
(* Allocation: mobj_reg_shm_alloc() *)

Insert(m, c) ==
    /\ m \notin reg_shm_list
    /\ reg_shm_list' = reg_shm_list \cup {m}
    /\ cookie' = [cookie EXCEPT ![m] = c]
    /\ refc' = [refc EXCEPT ![m] = 1] /\ mapcount' = [mapcount EXCEPT ![m] = 0]
    /\ mm' = [mm EXCEPT ![m] = NoVa]
    /\ guarded' = [guarded EXCEPT ![m] = TRUE] /\ releasing' = [releasing EXCEPT ![m] = FALSE]
    /\ release_frees' = [release_frees EXCEPT ![m] = FALSE]

\* mobj_mapped_shm_alloc() of a page of the list of pages
PageAlloc(t, m) ==
    /\ Goto(t, "page", "inc")
    /\ Insert(m, NoCookie)
    /\ mobj' = [mobj EXCEPT ![t] = m] /\ page' = [page EXCEPT ![t] = TRUE]
    /\ UNCHANGED <<sync, job, arg, reg>>

\* The buffer itself: registered, mapped for an RPC, or a parameter that the
\* callee maps or does not map.
BufferAlloc(t, m) ==
    /\ pc[t] = "alloc"
    /\ \E to \in IF job[t] = "register" THEN {"unguard"}
                ELSE IF job[t] = "rpc" THEN {"inc"} ELSE {"inc", "put"} :
         Goto(t, "alloc", to)
    /\ Insert(m, arg[t])
    /\ mobj' = [mobj EXCEPT ![t] = m]
    /\ UNCHANGED <<sync, job, page, arg, reg>>

\* There is no memory, or the pages are not fit to be shared.
AllocFails(t) ==
    /\ pc[t] \in {"page", "alloc"}
    /\ Return(t, pc[t], FALSE)
    /\ UNCHANGED <<reg_shm_list, fields, sync>>

\* mobj_reg_shm_unguard()
Unguard(t) ==
    /\ Return(t, "unguard", TRUE)
    /\ guarded' = [guarded EXCEPT ![mobj[t]] = FALSE]
    /\ UNCHANGED <<reg_shm_list, cookie, refc, mapcount, mm, releasing, release_frees, sync>>

----------------------------------------------------------------------------
(* Looking up a cookie *)

\* reg_shm_find_unlocked()
Finds(c) == {m \in reg_shm_list : cookie[m] = c}

\* mobj_reg_shm_get_by_cookie(): the cookie is looked up under the lock ...
Find(t) ==
    /\ \E m \in Finds(arg[t]) :
         Goto(t, "find", "get") /\ mobj' = [mobj EXCEPT ![t] = m]
    /\ UNCHANGED <<reg_shm_list, fields, sync, job, page, arg, reg>>

FindNothing(t) ==
    /\ Finds(arg[t]) = {}
    /\ Return(t, "find", FALSE)
    /\ UNCHANGED <<reg_shm_list, fields, sync>>

\* ... and the reference is taken after it was released (mobj_get()), which
\* panics if there is none left.
Get(t) ==
    LET m == mobj[t]
    IN /\ pc[t] = "get"
       /\ \E to \in IF refc[m] = 0 THEN {"panic"} ELSE {"inc", "put"} : Goto(t, "get", to)
       /\ refc' = [refc EXCEPT ![m] = IF @ = 0 THEN 0 ELSE @ + 1]
       /\ UNCHANGED <<reg_shm_list, cookie, mapcount, mm, guarded, releasing, release_frees>>
       /\ UNCHANGED <<sync, locals, reg>>

----------------------------------------------------------------------------
(* Mapping *)

\* mobj_reg_shm_inc_map(): refcount_inc() ...
IncMap(t) ==
    LET m == mobj[t]
    IN /\ Goto(t, "inc", IF mapcount[m] = 0 THEN "inclock" ELSE "use")
       /\ mapcount' = [mapcount EXCEPT ![m] = IF @ = 0 THEN 0 ELSE @ + 1]
       /\ UNCHANGED <<reg_shm_list, cookie, refc, mm, guarded, releasing, release_frees>>
       /\ UNCHANGED <<sync, locals, reg>>

FreeVas == Vas \ {mm[m] : m \in reg_shm_list}

\* Mutant: a mapping that is still there is replaced.
IncMapAnew(t) ==
    LET m == mobj[t]
    IN /\ Goto(t, "inclock", "use")
       /\ mapcount' = [mapcount EXCEPT ![m] = @ + 1]
       /\ \E v \in FreeVas : mm' = [mm EXCEPT ![m] = v]
       /\ UNCHANGED <<reg_shm_list, cookie, refc, guarded, releasing, release_frees>>
       /\ UNCHANGED <<sync, locals, reg>>

\* ... and the section under reg_shm_map_lock: restart if another thread
\* mapped the object, keep a mapping that is still there, or map it.
IncMapLocked(t) ==
    LET m == mobj[t]
    IN /\ pc[t] = "inclock"
       /\ IF mapcount[m] # 0
          THEN Goto(t, "inclock", "inc") /\ UNCHANGED <<mapcount, mm>>
          ELSE /\ Goto(t, "inclock", "use")
               /\ mapcount' = [mapcount EXCEPT ![m] = 1]
               /\ IF mm[m] # NoVa THEN UNCHANGED mm
                  ELSE \E v \in FreeVas : mm' = [mm EXCEPT ![m] = v]
       /\ UNCHANGED <<reg_shm_list, cookie, refc, guarded, releasing, release_frees>>
       /\ UNCHANGED <<sync, locals, reg>>

\* Mutant: the object stays in the list when it cannot be mapped.
MapFailsLeaving(t) ==
    /\ pc[t] = "inclock" /\ mapcount[mobj[t]] = 0 /\ mm[mobj[t]] = NoVa
    /\ Return(t, "inclock", FALSE)
    /\ UNCHANGED <<reg_shm_list, fields, sync>>

\* The thread works on the object of a non-contiguous temporary parameter,
\* the kind that cleanup_shm_refs() does not put.
Skipped(t) == job[t] = "tmem" /\ ~page[t]

\* No address range is free, or core_mmu_map_pages() fails: the request is
\* given up.
MapFails(t) ==
    LET m == mobj[t]
    IN /\ Goto(t, "inclock", "put")
       /\ mapcount[m] = 0 /\ mm[m] = NoVa
       /\ job' = [job EXCEPT ![t] = IF Skipped(t) THEN @ ELSE "failed"]
       /\ page' = [page EXCEPT ![t] = FALSE]
       /\ reg' = IF job[t] = "register" THEN [reg EXCEPT ![arg[t]] = "none"] ELSE reg
       /\ UNCHANGED <<reg_shm_list, fields, sync, mobj, arg>>

\* The memory is read or written at mobj_reg_shm_get_va().  Objects that
\* mobj_mapped_shm_alloc() has made are put while they are mapped.
Use(t) ==
    /\ Goto(t, "use", IF page[t] \/ job[t] = "rpc" THEN "put" ELSE "dec")
    /\ UNCHANGED <<reg_shm_list, fields, sync, locals, reg>>

\* mobj_reg_shm_dec_map(): refcount_dec() ...
DecMap(t) ==
    LET m == mobj[t]
    IN /\ Goto(t, "dec", IF mapcount[m] = 1 THEN "declock" ELSE "put")
       /\ mapcount' = [mapcount EXCEPT ![m] = @ - 1]
       /\ UNCHANGED <<reg_shm_list, cookie, refc, mm, guarded, releasing, release_frees>>
       /\ UNCHANGED <<sync, locals, reg>>

\* Mutant: the map count is not looked at again under the lock.
DecMapBlind(t) ==
    /\ Goto(t, "declock", "put")
    /\ mm' = [mm EXCEPT ![mobj[t]] = NoVa]
    /\ UNCHANGED <<reg_shm_list, cookie, refc, mapcount, guarded, releasing, release_frees>>
    /\ UNCHANGED <<sync, locals, reg>>

\* ... and the section under reg_shm_map_lock.
DecMapLocked(t) ==
    LET m == mobj[t]
    IN /\ Goto(t, "declock", "put")
       /\ mm' = IF mapcount[m] = 0 THEN [mm EXCEPT ![m] = NoVa] ELSE mm
       /\ UNCHANGED <<reg_shm_list, cookie, refc, mapcount, guarded, releasing, release_frees>>
       /\ UNCHANGED <<sync, locals, reg>>

----------------------------------------------------------------------------
(* Putting and freeing *)

\* What follows mobj_put(): after a page of the list the next one, or the
\* buffer; after the put in mobj_reg_shm_release_by_cookie() the wait.
After(t, from) ==
    IF job[t] = "unregister"
    THEN Goto(t, from, "rlock") /\ UNCHANGED <<locals, reg>>
    ELSE IF page[t]
    THEN /\ \E to \in {"page", "alloc"} : Goto(t, from, to)
         /\ mobj' = [mobj EXCEPT ![t] = NoMobj] /\ page' = [page EXCEPT ![t] = FALSE]
         /\ UNCHANGED <<job, arg, reg>>
    ELSE Return(t, from, job[t] # "failed")

\* mobj_put(): refcount_dec()
Put(t) ==
    LET m == mobj[t]
    IN /\ pc[t] = "put" /\ ~Skipped(t)
       /\ refc' = [refc EXCEPT ![m] = @ - 1]
       /\ IF refc[m] = 1 THEN Goto(t, "put", "free") /\ UNCHANGED <<locals, reg>>
          ELSE After(t, "put")
       /\ UNCHANGED <<reg_shm_list, cookie, mapcount, mm, guarded, releasing, release_frees>>
       /\ UNCHANGED sync

\* cleanup_shm_refs() at the end of a request with such a parameter: none
\* of its cases is the attribute, and the reference stays.
Skip(t) ==
    /\ Skipped(t)
    /\ left' = left \cup {mobj[t]}
    /\ Return(t, "put", TRUE)
    /\ UNCHANGED <<reg_shm_list, fields, sync>>

\* Mutant: the last user frees the object although it is being released.
FreeAlways(t) ==
    /\ Goto(t, "free", "freeguarded")
    /\ UNCHANGED <<reg_shm_list, fields, sync, locals, reg>>

\* mobj_reg_shm_free(): the flags are read without a lock.
Free(t) ==
    LET m == mobj[t]
    IN /\ Goto(t, "free", IF guarded[m] /\ ~releasing[m] THEN "freeguarded" ELSE "freenotify")
       /\ UNCHANGED <<reg_shm_list, fields, sync, locals, reg>>

\* reg_shm_free_helper(): a mapping that is left is removed, the object is
\* taken from the list and freed.  Freed memory is as if never used.
FreeHelper(m) ==
    /\ reg_shm_list' = reg_shm_list \ {m}
    /\ mm' = [mm EXCEPT ![m] = NoVa]
    /\ cookie' = [cookie EXCEPT ![m] = NoCookie]
    /\ refc' = [refc EXCEPT ![m] = 0] /\ mapcount' = [mapcount EXCEPT ![m] = 0]
    /\ guarded' = [guarded EXCEPT ![m] = FALSE] /\ releasing' = [releasing EXCEPT ![m] = FALSE]
    /\ release_frees' = [release_frees EXCEPT ![m] = FALSE]

FreeGuarded(t) ==
    /\ After(t, "freeguarded")
    /\ FreeHelper(mobj[t])
    /\ UNCHANGED sync

\* The object is left to mobj_reg_shm_release_by_cookie() ...
FreeNotify(t) ==
    /\ Goto(t, "freenotify", "notify")
    /\ release_frees' = [release_frees EXCEPT ![mobj[t]] = TRUE]
    /\ UNCHANGED <<reg_shm_list, cookie, refc, mapcount, mm, guarded, releasing>>
    /\ UNCHANGED <<sync, locals, reg>>

\* Mutant: the broadcast does not wait for shm_mu.
NotifyUnlocked(t) ==
    /\ shm_cv' = IF shm_release_waiters # 0 THEN {} ELSE shm_cv
    /\ After(t, "notify")
    /\ UNCHANGED <<reg_shm_list, fields, shm_mu, shm_release_waiters>>

\* ... which is told so, under shm_mu.
Notify(t) ==
    /\ shm_mu = NoThread
    /\ shm_cv' = IF shm_release_waiters # 0 THEN {} ELSE shm_cv
    /\ After(t, "notify")
    /\ UNCHANGED <<reg_shm_list, fields, shm_mu, shm_release_waiters>>

----------------------------------------------------------------------------
(* mobj_reg_shm_release_by_cookie() *)

Releasable(c) == {m \in Finds(c) : ~guarded[m] /\ ~releasing[m]}

\* The object is marked under reg_shm_slist_lock, ...
ReleaseFind(t) ==
    /\ \E m \in Releasable(arg[t]) :
         /\ releasing' = [releasing EXCEPT ![m] = TRUE]
         /\ mobj' = [mobj EXCEPT ![t] = m]
    /\ Goto(t, "rfind", "put")
    /\ UNCHANGED <<reg_shm_list, cookie, refc, mapcount, mm, guarded, release_frees>>
    /\ UNCHANGED <<sync, job, page, arg, reg>>

ReleaseRefused(t) ==
    /\ Releasable(arg[t]) = {}
    /\ Return(t, "rfind", FALSE)
    /\ UNCHANGED <<reg_shm_list, fields, sync>>

\* ... the reference of the registration is put, shm_mu is taken ...
ReleaseLock(t) ==
    /\ Goto(t, "rlock", "rcheck")
    /\ shm_mu = NoThread /\ shm_mu' = t
    /\ shm_release_waiters' = shm_release_waiters + 1
    /\ UNCHANGED <<reg_shm_list, fields, shm_cv, locals, reg>>

\* Mutant: users of the object are not waited for.
ReleaseFreesAtOnce(t) ==
    /\ Return(t, "rcheck", TRUE)
    /\ FreeHelper(mobj[t])
    /\ shm_mu' = NoThread
    /\ shm_release_waiters' = shm_release_waiters - 1
    /\ UNCHANGED shm_cv

\* ... and in a loop the object is freed if its last user has left it, ...
ReleaseFrees(t) ==
    /\ Return(t, "rcheck", TRUE)
    /\ release_frees[mobj[t]]
    /\ FreeHelper(mobj[t])
    /\ shm_mu' = NoThread
    /\ shm_release_waiters' = shm_release_waiters - 1
    /\ UNCHANGED shm_cv

ReleaseNotYet(t) ==
    /\ Goto(t, "rcheck", "rwait")
    /\ ~release_frees[mobj[t]]
    /\ UNCHANGED <<reg_shm_list, fields, sync, locals, reg>>

\* ... or waited for (condvar_wait()).
ReleaseWait(t) ==
    /\ Goto(t, "rwait", "sleep")
    /\ shm_mu' = NoThread /\ shm_cv' = shm_cv \cup {t}
    /\ UNCHANGED <<reg_shm_list, fields, shm_release_waiters, locals, reg>>

ReleaseWoken(t) ==
    /\ Goto(t, "sleep", "rcheck")
    /\ t \notin shm_cv
    /\ shm_mu = NoThread /\ shm_mu' = t
    /\ UNCHANGED <<reg_shm_list, fields, shm_cv, shm_release_waiters, locals, reg>>

----------------------------------------------------------------------------
Request(t) ==
    \/ \E c \in Cookies : CallRegister(t, c) \/ CallRmem(t, c) \/ CallUnregister(t, c)
    \/ \E j \in Jobs : CallTmem(t, j)

Steps(t) ==
    \/ \E m \in Mobjs : PageAlloc(t, m) \/ BufferAlloc(t, m)
    \/ AllocFails(t) \/ Unguard(t)
    \/ Find(t) \/ FindNothing(t) \/ Get(t)
    \/ IncMap(t) \/ IncMapLocked(t) \/ MapFails(t) \/ Use(t) \/ DecMap(t) \/ DecMapLocked(t)
    \/ Put(t) \/ Free(t) \/ FreeGuarded(t) \/ FreeNotify(t)
    \/ ReleaseFind(t) \/ ReleaseRefused(t) \/ ReleaseFrees(t) \/ ReleaseNotYet(t) \/ ReleaseWait(t)

\* The steps that take shm_mu
Locking(t) == Notify(t) \/ ReleaseLock(t) \/ ReleaseWoken(t)

Next ==
    \E t \in Threads :
        \/ (Request(t) \/ Steps(t) \/ Locking(t)) /\ UNCHANGED left
        \/ Skip(t)

Spec == Init /\ [][Next]_vars

----------------------------------------------------------------------------
(* Properties *)

\* The places at which a thread has a reference to its object, other than
\* the one of the registration, which unregistering hands to its thread.
Holding == {"unguard", "inc", "inclock", "use", "dec", "declock", "put"}

RefHolders(m) == {t \in Threads : mobj[t] = m /\ pc[t] \in Holding}

\* The threads that have the object mapped: what mobj_mapped_shm_alloc()
\* has mapped stays so until it is freed.
MapHolders(m) ==
    {t \in Threads : /\ mobj[t] = m
                     /\ \/ pc[t] \in {"use", "dec"}
                        \/ /\ page[t] \/ job[t] = "rpc"
                           /\ pc[t] \in {"put", "free", "freeguarded"}}

\* The reference count of a listed object is the number of threads that
\* hold a reference, and one for a registration that is not being released
\* or for a request that has ended without its put: counting without a lock
\* loses none, in any order of get, put and release.
RefcountExact ==
    \A m \in reg_shm_list :
        refc[m] = Cardinality(RefHolders(m))
                  + (IF (guarded[m] \/ releasing[m]) /\ m \notin left THEN 0 ELSE 1)

\* No thread has a pointer to an object that was freed, but for the one
\* that has just handed it to mobj_reg_shm_release_by_cookie() and does not
\* use it again; mobj_get() does not find a count of zero.
NoUseAfterFree ==
    \A t \in Threads :
        /\ mobj[t] # NoMobj =>
             mobj[t] \in reg_shm_list \/ (pc[t] = "notify" /\ job[t] # "unregister")
        /\ pc[t] # "panic"

\* The map count is the number of threads that have the object mapped; then
\* there is a mapping, no address range is given to two objects, and a
\* mapping that nobody uses has a thread about to remove it.
MapcountExact ==
    /\ \A m \in reg_shm_list :
         /\ mapcount[m] = Cardinality(MapHolders(m))
         /\ mapcount[m] # 0 => mm[m] # NoVa
         /\ mapcount[m] = 0 /\ mm[m] # NoVa =>
              \E t \in Threads : mobj[t] = m /\ pc[t] = "declock"
    /\ \A m, n \in reg_shm_list : mm[m] = mm[n] /\ mm[m] # NoVa => m = n

\* The address that mobj_reg_shm_get_va() returns stays good while the
\* caller has the object mapped, whoever else maps and unmaps it.
AddressStable ==
    [][\A m \in Mobjs : MapHolders(m) \cap MapHolders(m)' # {} => mm'[m] = mm[m]]_vars

\* When no request is in progress, what is left in the list is what the
\* driver has registered, once each, and the objects of non-contiguous
\* temporary parameters, which cleanup_shm_refs() skips; none of it is
\* mapped.  The pages of a list, buffers for RPCs and requests that fail
\* half-way leave nothing.
NothingLeaks ==
    (\A t \in Threads : pc[t] = "idle") =>
        LET kept == reg_shm_list \ left
        IN /\ {cookie[m] : m \in kept} = {c \in Cookies : reg[c] = "shared"}
           /\ \A m, n \in kept : cookie[m] = cookie[n] => m = n
           /\ \A m \in kept : ~guarded[m]
           /\ \A m \in reg_shm_list : mm[m] = NoVa

\* What the driver relies on (module ShmRegistry): a cookie is gone only
\* when the last user of its buffer is.
Registry == INSTANCE ShmRegistry WITH
    state <- [c \in Cookies |->
                IF \E m \in Finds(c) : releasing[m] THEN "leaving"
                ELSE IF Finds(c) # {} THEN "shared" ELSE "gone"],
    users <- [c \in Cookies |->
                {t \in Threads : /\ mobj[t] \in Finds(c) /\ job[t] # "unregister"
                                 /\ pc[t] \in Holding \ {"unguard"}}]

ImplementsRegistry == Registry!Spec

\* A thread sleeps in mobj_reg_shm_release_by_cookie() only while another
\* one has yet to leave the object, or to broadcast that it has been left,
\* which it does because the sleeper is counted.
SleepersAwaited ==
    \A t \in shm_cv :
        /\ shm_release_waiters # 0
        /\ \E u \in Threads \ {t} :
             \/ pc[u] = "notify"
             \/ mobj[u] = mobj[t] /\ pc[u] \in Holding \cup {"free", "freenotify"}

\* The state is in its types, and both counters of every object are exact at every
\* atomic step of mobj_get(), mobj_put(), mobj_inc_map() and mobj_dec_map().
CountsExact == TypeOK /\ RefcountExact /\ MapcountExact
=============================================================================
