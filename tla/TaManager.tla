----------------------------- MODULE TaManager -----------------------------
(***************************************************************************)
(* Sessions and contexts of trusted applications:                          *)
(* core/kernel/tee_ta_manager.c with core/kernel/user_ta.c,                *)
(* core/kernel/pseudo_ta.c and their callers core/tee/entry_std.c and      *)
(* core/tee/tee_svc.c.                                                     *)
(*                                                                         *)
(* A step is one section of the code under tee_ta_mutex, or one stretch of *)
(* code without it.  The mutex and its condition variables are used as     *)
(* module Monitor specifies them: a thread in condvar_wait() is in         *)
(* "waiting" until it is signalled and then tests its condition again.     *)
(* A thread has a stack of calls, for a TA may call another TA and the     *)
(* core closes the sessions of a TA that goes away.                        *)
(***************************************************************************)
EXTENDS Naturals, FiniteSets, SequencesExt

CONSTANTS
    Threads, Uuids, Sessions, Ctxs,
    Nsec,           \* owner of tee_open_sessions, the normal world's list
    Flags,          \* TA_FLAG_* of each TA
    Pseudo,         \* the TAs that are pseudo TAs
    CallGraph,      \* the pairs <<u, v>> such that TA u calls TA v
    MaxRecursion,   \* CFG_CORE_MAX_SYSCALL_RECURSION
    MaxCalls,       \* bound: how many requests are made
    None            \* no thread, no context, no condition variable

ASSUME FlagsOK == Flags \in [Uuids -> SUBSET {"single", "multi", "keep", "concurrent"}]
\* verify_pseudo_tas_conformance(); TA_FLAG_CONCURRENT is for pseudo TAs only
ASSUME PseudoOK ==
    /\ Pseudo \subseteq Uuids
    /\ \A u \in Pseudo : {"single", "multi", "keep"} \subseteq Flags[u]
    /\ \A u \in Uuids : "concurrent" \in Flags[u] => u \in Pseudo
ASSUME BoundsOK == MaxRecursion \in Nat /\ MaxCalls \in Nat
ASSUME GraphOK == CallGraph \subseteq Uuids \X Uuids
ASSUME SetsOK == IsFiniteSet(Threads) /\ IsFiniteSet(Sessions) /\ IsFiniteSet(Ctxs)
ASSUME NsecOK == Nsec \notin Ctxs

VARIABLES
    \* struct tee_ta_ctx
    tee_ctxes,      \* the list of registered contexts
    live,           \* the contexts allocated
    uuid, ref_count, busy, is_initializing, is_releasing, panicked,
    released,       \* the contexts whose user mappings are gone
    \* struct tee_ta_session
    owner,          \* whose open_sessions list a session is in; None: free
    ts_ctx, refs, lock_thread, unlink,
    known,          \* the sessions whose id was returned to the caller
    \* the single-instance lock
    si_thread, si_count,
    \* threads
    waiting,        \* the condvar a thread waits on
    stack,          \* the calls a thread is in
    calls,          \* how many requests were made
    core_panic      \* panic() or a failed assert()

ctxVars == <<tee_ctxes, live, uuid, ref_count, is_initializing, is_releasing, panicked, released>>
busyVars == <<busy, si_thread, si_count>>
sessVars == <<owner, ts_ctx, refs, lock_thread, unlink, known>>
vars == <<ctxVars, busyVars, sessVars, waiting, stack, calls, core_panic>>

\* A call in progress: the operation, where it is, the list it works on, its
\* TA, session and context, and whether it has gone well so far (for a close:
\* whether it has made the context busy).
Frame == [op : {"open", "invoke", "close", "cancel", "release", "destroy"},
          pc : {"init", "find", "load", "fail", "busy", "enter", "run", "rel", "clear",
                "put", "get", "lock", "copy", "closing", "unlink", "drain", "unref", "destroy", "loop"},
          list : Ctxs \cup {Nsec, None}, u : Uuids \cup {None},
          s : Sessions \cup {None}, c : Ctxs \cup {None}, ok : BOOLEAN]

InitCv == <<"init">>
SingleCv == <<"single">>
BusyCv(c) == <<"busy", c>>
LockCv(s) == <<"lock", s>>
RefcCv(s) == <<"refc", s>>
Cvs == {InitCv, SingleCv} \cup {BusyCv(c) : c \in Ctxs}
            \cup {LockCv(s) : s \in Sessions} \cup {RefcCv(s) : s \in Sessions}

ASSUME NoneOK == None \notin Threads \cup Uuids \cup Sessions \cup Ctxs \cup {Nsec} \cup Cvs

TypeOK ==
    /\ tee_ctxes \in Seq(Ctxs)
    /\ {live, is_initializing, is_releasing, panicked, released, busy} \subseteq SUBSET Ctxs
    /\ uuid \in [Ctxs -> Uuids \cup {None}]
    /\ ref_count \in [Ctxs -> Nat]
    /\ owner \in [Sessions -> Ctxs \cup {Nsec, None}]
    /\ ts_ctx \in [Sessions -> Ctxs \cup {None}]
    /\ refs \in [Sessions -> Nat]
    /\ lock_thread \in [Sessions -> Threads \cup {None}]
    /\ {unlink, known} \subseteq SUBSET Sessions
    /\ si_thread \in Threads \cup {None}
    /\ si_count \in Nat
    /\ waiting \in [Threads -> Cvs \cup {None}]
    /\ stack \in [Threads -> Seq(Frame)]
    /\ calls \in 0 .. MaxCalls
    /\ core_panic \in BOOLEAN

Init ==
    /\ tee_ctxes = <<>>
    /\ live = {} /\ is_initializing = {} /\ is_releasing = {}
    /\ panicked = {} /\ released = {} /\ busy = {}
    /\ uuid = [c \in Ctxs |-> None]
    /\ ref_count = [c \in Ctxs |-> 0]
    /\ owner = [s \in Sessions |-> None]
    /\ ts_ctx = [s \in Sessions |-> None]
    /\ refs = [s \in Sessions |-> 0]
    /\ lock_thread = [s \in Sessions |-> None]
    /\ unlink = {} /\ known = {}
    /\ si_thread = None /\ si_count = 0
    /\ waiting = [t \in Threads |-> None]
    /\ stack = [t \in Threads |-> <<>>]
    /\ calls = 0
    /\ core_panic = FALSE

----------------------------------------------------------------------------
\* Threads, stacks and condition variables

Top(t) == Last(stack[t])

\* Thread t runs at pc.
At(t, pc) == ~core_panic /\ stack[t] # <<>> /\ waiting[t] = None /\ Top(t).pc = pc

Replace(t, f) == stack' = [stack EXCEPT ![t] = Append(Front(@), f)]
Goto(t, pc) == Replace(t, [Top(t) EXCEPT !.pc = pc])
Return(t) == stack' = [stack EXCEPT ![t] = Front(@)]
Push(t, f) == stack' = [stack EXCEPT ![t] = Append(@, f)]

WaitersOn(cv) == {t \in Threads : waiting[t] = cv}

\* condvar_signal(): one of the waiters, if there is one.
Signalled(cv) == IF WaitersOn(cv) = {} THEN {{}} ELSE {{t} : t \in WaitersOn(cv)}

WakeUp(W) == waiting' = [t \in Threads |-> IF t \in W THEN None ELSE waiting[t]]

Wait(t, cv) == waiting' = [waiting EXCEPT ![t] = cv]

HasFlag(c, flag) == flag \in Flags[uuid[c]]

SessionsOf(l) == {s \in Sessions : owner[s] = l}

----------------------------------------------------------------------------
\* Requests: from the normal world through entry_std.c, and from a running
\* TA through the syscalls of tee_svc.c.

\* Thread t may make a request on the sessions of list l.
Caller(t, l) ==
    /\ ~core_panic /\ waiting[t] = None /\ calls < MaxCalls
    /\ \/ stack[t] = <<>> /\ l = Nsec
       \/ stack[t] # <<>> /\ Top(t).pc = "run" /\ l = Top(t).c /\ uuid[l] \notin Pseudo

Request(t, f) ==
    /\ Push(t, f)
    /\ calls' = calls + 1
    /\ UNCHANGED <<ctxVars, busyVars, waiting, core_panic>>

\* entry_open_session(), syscall_open_ta_session()
CallOpen(t, l, u) ==
    /\ Caller(t, l)
    /\ l # Nsec => <<uuid[l], u>> \in CallGraph
    /\ Request(t, [op |-> "open", pc |-> "init", list |-> l, u |-> u,
                   s |-> None, c |-> None, ok |-> TRUE])
    /\ UNCHANGED sessVars

\* entry_invoke_command(), syscall_invoke_ta_command(), entry_cancel().
CallSession(t, l, s, op) ==
    /\ Caller(t, l)
    /\ s \in known /\ owner[s] = l
    /\ op = "cancel" => l = Nsec
    /\ Request(t, [op |-> op, pc |-> "get", list |-> l, u |-> None,
                   s |-> s, c |-> None, ok |-> TRUE])
    /\ UNCHANGED sessVars

\* entry_close_session(), syscall_close_ta_session(): the caller forgets the
\* id, as the normal world's driver does, so that a session is closed once.
CallClose(t, l, s) ==
    /\ Caller(t, l)
    /\ s \in known /\ owner[s] = l
    /\ Request(t, [op |-> "close", pc |-> "get", list |-> l, u |-> None,
                   s |-> s, c |-> None, ok |-> FALSE])
    /\ known' = known \ {s}
    /\ UNCHANGED <<owner, ts_ctx, refs, lock_thread, unlink>>

----------------------------------------------------------------------------
\* tee_ta_init_session()

\* tee_ta_context_find(): the first registered context of TA u.
Registered(u) == {i \in 1 .. Len(tee_ctxes) : uuid[tee_ctxes[i]] = u}
Found(u) == IF Registered(u) = {} THEN None ELSE tee_ctxes[Min(Registered(u))]

\* tee_ta_init_session_with_context(): sleep while the context initializes.
AwaitInit(t, f) ==
    /\ Found(f.u) \in is_initializing
    /\ Replace(t, [f EXCEPT !.pc = "find"])
    /\ Wait(t, InitCv)
    /\ UNCHANGED <<ctxVars, ts_ctx>>

\* The context is there and can be shared by f's session.
Shareable(f) ==
    /\ Found(f.u) # None
    /\ Found(f.u) \notin is_initializing
    /\ "single" \in Flags[f.u]

\* Mutant: TA_FLAG_MULTI_SESSION is not looked at.
HasRoomAlways(c) == ref_count[c] \in Nat

\* A single-session TA takes a session only when it has none.
HasRoom(c) == HasFlag(c, "multi") \/ ref_count[c] = 0

Join(t, f) ==
    LET c == Found(f.u) IN
    /\ Shareable(f) /\ HasRoom(c)
    /\ ref_count' = [ref_count EXCEPT ![c] = @ + 1]
    /\ ts_ctx' = [ts_ctx EXCEPT ![f.s] = c]
    /\ Replace(t, [f EXCEPT !.pc = "busy", !.c = c])
    /\ UNCHANGED <<tee_ctxes, live, uuid, is_initializing, is_releasing, panicked, released,
                   waiting>>

Refuse(t, f) ==
    /\ Shareable(f) /\ ~HasRoom(Found(f.u))
    /\ Replace(t, [f EXCEPT !.pc = "fail"])
    /\ UNCHANGED <<ctxVars, ts_ctx, waiting>>

\* tee_ta_init_pseudo_ta_session(), tee_ta_init_user_ta_session(): a new
\* context, which a user TA has to be loaded into.
Create(t, f) ==
    /\ Found(f.u) = None \/ (Found(f.u) \notin is_initializing /\ "single" \notin Flags[f.u])
    /\ \/ /\ Replace(t, [f EXCEPT !.pc = "fail"])   \* no memory
          /\ UNCHANGED <<ctxVars, ts_ctx>>
       \/ \E c \in Ctxs \ live :
             /\ live' = live \cup {c}
             /\ uuid' = [uuid EXCEPT ![c] = f.u]
             /\ ref_count' = [ref_count EXCEPT ![c] = 1]
             /\ tee_ctxes' = Append(tee_ctxes, c)
             /\ is_initializing' = IF f.u \in Pseudo THEN is_initializing
                                 ELSE is_initializing \cup {c}
             /\ ts_ctx' = [ts_ctx EXCEPT ![f.s] = c]
             /\ Replace(t, [f EXCEPT !.c = c, !.pc = IF f.u \in Pseudo THEN "busy" ELSE "load"])
             /\ UNCHANGED <<is_releasing, panicked, released>>
    /\ UNCHANGED waiting

LookUp(t, f) == AwaitInit(t, f) \/ Join(t, f) \/ Refuse(t, f) \/ Create(t, f)

\* The ids new_session_id() may choose.  An id is not given again while a
\* request that carries it is on its way (see README, assumptions).
FreeIds ==
    {s \in SessionsOf(None) : \A t \in Threads : \A i \in 1 .. Len(stack[t]) :
        ~(stack[t][i].pc = "get" /\ stack[t][i].s = s)}

\* The session enters the list with a free id before the context is looked
\* up.
OpenInit(t) ==
    /\ At(t, "init")
    /\ \E s \in FreeIds :
          /\ owner' = [owner EXCEPT ![s] = Top(t).list]
          /\ refs' = [refs EXCEPT ![s] = 1]
          /\ LookUp(t, [Top(t) EXCEPT !.s = s])
    /\ UNCHANGED <<busyVars, lock_thread, unlink, known, calls, core_panic>>

OpenNoMem(t) ==
    /\ At(t, "init")
    /\ Return(t)
    /\ UNCHANGED <<ctxVars, busyVars, sessVars, waiting, calls, core_panic>>

\* Awake again, the context is searched for again.
OpenFind(t) ==
    /\ At(t, "find")
    /\ LookUp(t, Top(t))
    /\ UNCHANGED <<busyVars, owner, refs, lock_thread, unlink, known, calls, core_panic>>

\* tee_ta_complete_user_ta_session()
Load(t) ==
    LET c == Top(t).c IN
    /\ At(t, "load")
    /\ is_initializing' = is_initializing \ {c}
    /\ \/ /\ Goto(t, "busy")
          /\ UNCHANGED <<tee_ctxes, live, ts_ctx, ref_count, uuid>>
       \/ /\ ts_ctx' = [ts_ctx EXCEPT ![Top(t).s] = None]
          /\ tee_ctxes' = RemoveFirst(tee_ctxes, c)
          /\ live' = live \ {c}
          /\ ref_count' = [ref_count EXCEPT ![c] = 0]
          /\ uuid' = [uuid EXCEPT ![c] = None]
          /\ Replace(t, [Top(t) EXCEPT !.pc = "fail", !.c = None])
    /\ WakeUp(WaitersOn(InitCv))
    /\ UNCHANGED <<is_releasing, panicked, released, busyVars, owner, refs, lock_thread, unlink,
                   known, calls, core_panic>>

\* free(s), which leaves nothing of the session.
FreeSession(s) ==
    /\ owner' = [owner EXCEPT ![s] = None]
    /\ ts_ctx' = [ts_ctx EXCEPT ![s] = None]
    /\ refs' = [refs EXCEPT ![s] = 0]
    /\ lock_thread' = [lock_thread EXCEPT ![s] = None]
    /\ unlink' = unlink \ {s}

OpenFail(t) ==
    /\ At(t, "fail")
    /\ FreeSession(Top(t).s)
    /\ Return(t)
    /\ UNCHANGED <<ctxVars, busyVars, known, waiting, calls, core_panic>>

----------------------------------------------------------------------------
\* Entering a TA

Concurrent(c) == HasFlag(c, "concurrent")
Single(c) == HasFlag(c, "single")

\* Mutant: lock_single_instance() does not wait for the lock.
MustWaitOnBusy(t, c) == IF ~Single(c) /\ si_thread # t /\ c \in busy THEN BusyCv(c) ELSE None

\* tee_ta_try_set_busy() has to wait, for the single-instance lock or for
\* the context.
MustWaitOn(t, c) ==
    IF Single(c)
    THEN IF si_thread \in {t, None} THEN None ELSE SingleCv
    ELSE IF si_thread # t /\ c \in busy THEN BusyCv(c) ELSE None

\* It returns true ...
SetBusy(t) ==
    LET c == Top(t).c IN
    /\ At(t, "busy")
    /\ ~Concurrent(c) /\ MustWaitOn(t, c) = None /\ c \notin busy
    /\ busy' = busy \cup {c}
    /\ si_thread' = IF Single(c) THEN t ELSE si_thread
    /\ si_count' = IF Single(c) THEN si_count + 1 ELSE si_count
    /\ Goto(t, "enter")
    /\ UNCHANGED <<ctxVars, sessVars, waiting, calls, core_panic>>

SetBusyConcurrent(t) ==
    /\ At(t, "busy")
    /\ Concurrent(Top(t).c)
    /\ Goto(t, "enter")
    /\ UNCHANGED <<ctxVars, busyVars, sessVars, waiting, calls, core_panic>>

\* ... it sleeps ...
AwaitBusy(t) ==
    LET c == Top(t).c IN
    /\ At(t, "busy")
    /\ ~Concurrent(c) /\ MustWaitOn(t, c) # None
    /\ Wait(t, MustWaitOn(t, c))
    /\ UNCHANGED <<ctxVars, busyVars, sessVars, stack, calls, core_panic>>

\* ... or it returns false, the thread having the single-instance lock and
\* the context being busy: tee_ta_set_busy() panics, tee_ta_open_session()
\* goes on to close the session.
BusyRefused(t) ==
    LET c == Top(t).c IN
    /\ At(t, "busy")
    /\ ~Concurrent(c) /\ MustWaitOn(t, c) = None /\ c \in busy
    /\ IF Top(t).op = "open"
       THEN Replace(t, [Top(t) EXCEPT !.ok = FALSE, !.pc = "put"]) /\ UNCHANGED core_panic
       ELSE core_panic' = TRUE /\ UNCHANGED stack
    /\ UNCHANGED <<ctxVars, busyVars, sessVars, waiting, calls>>

\* syscall_recursion of the thread
Depth(t) == Cardinality({i \in 1 .. Len(stack[t]) :
                           stack[t][i].pc = "run" /\ uuid[stack[t][i].c] \notin Pseudo})

\* Where a call goes when the TA has returned.
AfterRun(f, dead) ==
    IF f.op = "close" THEN "unlink" ELSE IF dead THEN "rel" ELSE "clear"

\* Mutant: it does not notice that the mappings are gone.
RefusedTooDeep(t, c) == uuid[c] \notin Pseudo /\ Depth(t) >= MaxRecursion

\* user_ta_enter() refuses too deep a recursion and fails when the
\* parameters cannot be written to the TA's stack, as when its mappings are
\* gone.
Refused(t, c) == uuid[c] \notin Pseudo /\ (Depth(t) >= MaxRecursion \/ c \in released)

\* ts_ops->enter_*(): only a close does not look whether the TA has panicked.
Enter(t) ==
    LET f == Top(t)
        dead == f.c \in panicked
    IN
    /\ At(t, "enter")
    /\ IF dead /\ f.op # "close"
       THEN Replace(t, [f EXCEPT !.ok = FALSE, !.pc = "rel"])
       ELSE IF Refused(t, f.c)
       THEN Replace(t, [f EXCEPT !.ok = (f.op = "close"), !.pc = AfterRun(f, dead)])
       ELSE Goto(t, "run")
    /\ UNCHANGED <<ctxVars, busyVars, sessVars, waiting, calls, core_panic>>

\* The TA's entry point returns, with success or not ...
RunReturn(t) ==
    LET f == Top(t) IN
    /\ At(t, "run")
    /\ \E ok \in BOOLEAN :
          /\ f.op = "close" => ok
          /\ Replace(t, [f EXCEPT !.ok = ok, !.pc = AfterRun(f, f.c \in panicked)])
    /\ UNCHANGED <<ctxVars, busyVars, sessVars, waiting, calls, core_panic>>

\* ... or panics.
RunPanic(t) ==
    LET f == Top(t) IN
    /\ At(t, "run")
    /\ uuid[f.c] \notin Pseudo
    /\ panicked' = panicked \cup {f.c}
    /\ Replace(t, [f EXCEPT !.ok = (f.op = "close"), !.pc = AfterRun(f, TRUE)])
    /\ UNCHANGED <<tee_ctxes, live, uuid, ref_count, is_initializing, is_releasing, released,
                   busyVars, sessVars, waiting, calls, core_panic>>

----------------------------------------------------------------------------
\* Leaving a TA

\* Mutant: the context stays on the list.
DelistedNot(c) == IF c \in Ctxs THEN tee_ctxes ELSE <<>>

\* TAILQ_REMOVE(&tee_ctxes, ctx, link)
Delisted(c) == RemoveFirst(tee_ctxes, c)

\* release_ta_ctx() of a TA that has panicked: the first one to notice takes
\* the context off the list and releases its state.
ReleaseCtx(t) ==
    LET f == Top(t)
        last == [f EXCEPT !.ok = FALSE, !.pc = "clear"]
    IN
    /\ At(t, "rel")
    /\ is_releasing' = is_releasing \cup {f.c}
    /\ IF f.c \in is_releasing
       THEN Replace(t, last) /\ UNCHANGED tee_ctxes
       ELSE /\ tee_ctxes' = Delisted(f.c)
            /\ stack' = [stack EXCEPT ![t] = Append(Append(Front(@), last),
                            [op |-> "release", pc |-> "loop", list |-> f.c, u |-> None,
                             s |-> None, c |-> f.c, ok |-> TRUE])]
    /\ UNCHANGED <<live, uuid, ref_count, is_initializing, panicked, released, busyVars,
                   sessVars, waiting, calls, core_panic>>

\* Mutant: the signal is missing.
SingleSignalLost == {{}}

\* Whom unlock_single_instance() wakes when it gives the lock up.
SingleSignal == Signalled(SingleCv)

\* tee_ta_clear_busy()
ClearBusy(t) ==
    LET f == Top(t)
        last == si_count = 1    \* the single-instance lock is given up
    IN
    /\ At(t, "clear")
    /\ Goto(t, IF f.op = "close" THEN "unref" ELSE "put")
    /\ IF Concurrent(f.c)
       THEN UNCHANGED <<busyVars, waiting, core_panic>>
       ELSE /\ core_panic' = \/ f.c \notin busy
                             \/ Single(f.c) /\ (si_thread # t \/ si_count = 0)
            /\ busy' = busy \ {f.c}
            /\ IF Single(f.c)
               THEN /\ si_count' = IF si_count = 0 THEN 0 ELSE si_count - 1
                    /\ si_thread' = IF last THEN None ELSE si_thread
                    /\ \E W \in Signalled(BusyCv(f.c)), X \in SingleSignal :
                          WakeUp(IF last THEN W \cup X ELSE W)
               ELSE /\ \E W \in Signalled(BusyCv(f.c)) : WakeUp(W)
                    /\ UNCHANGED <<si_thread, si_count>>
    /\ UNCHANGED <<ctxVars, sessVars, calls>>

\* dec_session_ref_count()
\* Mutant: no reference is dropped.
UnreferenceNone(s) == UNCHANGED refs

Unreference(s) == refs' = [refs EXCEPT ![s] = @ - 1]
RefcSignal(s) == IF refs[s] = 2 THEN Signalled(RefcCv(s)) ELSE {{}}

\* tee_ta_put_session().  What the call goes on to: tee_ta_open_session()
\* returns its session or closes it again.  A TA is not told the id when
\* tee_svc_update_out_param() fails in syscall_open_ta_session().
Put(t) ==
    LET f == Top(t)
        mine == lock_thread[f.s] = t
    IN
    /\ At(t, "put")
    /\ IF refs[f.s] = 0
       THEN core_panic' = TRUE /\ UNCHANGED refs
       ELSE Unreference(f.s) /\ UNCHANGED core_panic
    /\ lock_thread' = IF mine THEN [lock_thread EXCEPT ![f.s] = None] ELSE lock_thread
    /\ \E W \in RefcSignal(f.s), X \in Signalled(LockCv(f.s)) :
          WakeUp(IF mine THEN W \cup X ELSE W)
    /\ IF f.op = "open" /\ ~f.ok
       THEN Replace(t, [f EXCEPT !.op = "close", !.pc = "get"])
       ELSE Return(t)
    /\ \E told \in BOOLEAN :
          /\ f.list = Nsec => told
          /\ known' = IF f.op = "open" /\ f.ok /\ told THEN known \cup {f.s} ELSE known
    /\ UNCHANGED <<ctxVars, busyVars, owner, ts_ctx, unlink, calls>>

----------------------------------------------------------------------------
\* tee_ta_get_session()

\* Where a call goes with its session in exclusive use.
Locked(f) ==
    [f EXCEPT !.c = ts_ctx[f.s], !.pc = IF f.op = "close" THEN "closing"
                                        ELSE IF f.list = Nsec THEN "busy" ELSE "copy"]

\* No such session, or one that is going away.
GetNone(t) ==
    LET f == Top(t) IN
    /\ At(t, "get")
    /\ owner[f.s] # f.list \/ f.s \in unlink
    /\ Return(t)
    /\ UNCHANGED <<ctxVars, busyVars, sessVars, waiting, calls, core_panic>>

Get(t) ==
    LET f == Top(t) IN
    /\ At(t, "get")
    /\ owner[f.s] = f.list /\ f.s \notin unlink
    /\ refs' = [refs EXCEPT ![f.s] = @ + 1]
    /\ core_panic' = (f.op # "cancel" /\ lock_thread[f.s] = t)
    /\ IF f.op = "cancel"
       THEN Goto(t, "put") /\ UNCHANGED <<waiting, lock_thread>>
       ELSE IF lock_thread[f.s] # None
       THEN Goto(t, "lock") /\ Wait(t, LockCv(f.s)) /\ UNCHANGED lock_thread
       ELSE /\ Replace(t, Locked(f))
            /\ lock_thread' = [lock_thread EXCEPT ![f.s] = t]
            /\ UNCHANGED waiting
    /\ UNCHANGED <<ctxVars, busyVars, owner, ts_ctx, unlink, known, calls>>

\* Awake in the loop on lock_cv: take the lock, give up, or sleep again.
Lock(t) ==
    LET f == Top(t) IN
    /\ At(t, "lock")
    /\ IF f.s \in unlink
       THEN /\ Unreference(f.s)
            /\ \E W \in RefcSignal(f.s) : WakeUp(W)
            /\ Return(t)
            /\ UNCHANGED lock_thread
       ELSE IF lock_thread[f.s] # None
       THEN Wait(t, LockCv(f.s)) /\ UNCHANGED <<refs, lock_thread, stack>>
       ELSE /\ lock_thread' = [lock_thread EXCEPT ![f.s] = t]
            /\ Replace(t, Locked(f))
            /\ UNCHANGED <<refs, waiting>>
    /\ UNCHANGED <<ctxVars, busyVars, owner, ts_ctx, unlink, known, calls, core_panic>>

\* tee_svc_copy_param() in syscall_invoke_ta_command() may fail.
CopyParam(t) ==
    /\ At(t, "copy")
    /\ \E pc \in {"busy", "put"} : Goto(t, pc)
    /\ UNCHANGED <<ctxVars, busyVars, sessVars, waiting, calls, core_panic>>

----------------------------------------------------------------------------
\* tee_ta_close_session()

\* ctx->panicked is read once, before the context is made busy.
Closing(t) ==
    LET f == Top(t)
        dead == f.c \in panicked
    IN
    /\ At(t, "closing")
    /\ Replace(t, [f EXCEPT !.ok = ~dead, !.pc = IF dead THEN "unlink" ELSE "busy"])
    /\ UNCHANGED <<ctxVars, busyVars, sessVars, waiting, calls, core_panic>>

AfterUnlink(f) == [f EXCEPT !.pc = IF f.ok THEN "clear" ELSE "unref"]

\* Mutant: the other users are not waited for.
LastUserAlways(s) == refs[s] \in Nat

\* Only the closing call uses the session.
LastUser(s) == refs[s] = 1

\* tee_ta_unlink_session(): nobody can get the session any more, those that
\* wait for its lock give up, and the last of them ends the wait.
Unlink(t) ==
    LET f == Top(t) IN
    /\ At(t, "unlink")
    /\ core_panic' = (refs[f.s] = 0 \/ lock_thread[f.s] # t \/ f.s \in unlink)
    /\ IF LastUser(f.s)
       THEN /\ FreeSession(f.s)
            /\ Replace(t, AfterUnlink(f))
            /\ WakeUp(WaitersOn(LockCv(f.s)))
       ELSE /\ unlink' = unlink \cup {f.s}
            /\ Goto(t, "drain")
            /\ waiting' = [u \in Threads |-> IF u = t THEN RefcCv(f.s)
                                             ELSE IF waiting[u] = LockCv(f.s) THEN None
                                             ELSE waiting[u]]
            /\ UNCHANGED <<owner, ts_ctx, refs, lock_thread>>
    /\ UNCHANGED <<ctxVars, busyVars, known, calls>>

Drain(t) ==
    LET f == Top(t) IN
    /\ At(t, "drain")
    /\ IF LastUser(f.s)
       THEN FreeSession(f.s) /\ Replace(t, AfterUnlink(f)) /\ UNCHANGED waiting
       ELSE /\ Wait(t, RefcCv(f.s))
            /\ UNCHANGED <<owner, ts_ctx, refs, lock_thread, unlink, stack>>
    /\ UNCHANGED <<ctxVars, busyVars, known, calls, core_panic>>

\* Mutant: a panicked keep-alive instance is kept.
DoomedKept(c) == ref_count[c] = 1 /\ ~(HasFlag(c, "keep") /\ Single(c))

\* The context survives its last session only as a keep-alive instance.
Doomed(c) ==
    /\ ref_count[c] = 1
    /\ c \in panicked \/ ~(HasFlag(c, "keep") /\ Single(c))

\* It is on the list unless release_ta_ctx() took it off.
MustDelist(c) == Doomed(c) /\ c \notin is_releasing

\* Taking a context off a list it is not on would corrupt the list.
Unref(t) ==
    LET f == Top(t)
        unlist == MustDelist(f.c)
    IN
    /\ At(t, "unref")
    /\ core_panic' = (ref_count[f.c] = 0 \/ (unlist /\ ~Contains(tee_ctxes, f.c)))
    /\ ref_count' = [ref_count EXCEPT ![f.c] = IF @ = 0 THEN 0 ELSE @ - 1]
    /\ tee_ctxes' = IF unlist THEN Delisted(f.c) ELSE tee_ctxes
    /\ is_releasing' = IF unlist THEN is_releasing \cup {f.c} ELSE is_releasing
    /\ IF Doomed(f.c) THEN Goto(t, "destroy") ELSE Return(t)
    /\ UNCHANGED <<live, uuid, is_initializing, panicked, released, busyVars, sessVars, waiting,
                   calls>>

\* destroy_context(): condvar_destroy() panics if somebody waits.
DestroyCtx(t) ==
    LET f == Top(t) IN
    /\ At(t, "destroy")
    /\ core_panic' = (WaitersOn(BusyCv(f.c)) # {})
    /\ Replace(t, [op |-> "destroy", pc |-> "loop", list |-> f.c, u |-> None, s |-> None,
                   c |-> f.c, ok |-> TRUE])
    /\ UNCHANGED <<ctxVars, busyVars, sessVars, waiting, calls>>

\* Mutant: the sessions are not closed.
LeftOpenNone(c) == {s \in SessionsOf(c) : owner[s] = None}

\* The sessions opened by the TA, in utc->open_sessions.
LeftOpen(c) == SessionsOf(c)

\* release_utc_state(): they are closed ...
CloseOne(t) ==
    LET f == Top(t) IN
    /\ At(t, "loop")
    /\ \E s \in LeftOpen(f.c) :
          /\ Push(t, [op |-> "close", pc |-> "get", list |-> f.c, u |-> None, s |-> s,
                      c |-> None, ok |-> FALSE])
          /\ known' = known \ {s}
    /\ UNCHANGED <<ctxVars, busyVars, owner, ts_ctx, refs, lock_thread, unlink, waiting, calls,
                   core_panic>>

\* ... before its mappings go and, in the end, the context itself.
EndRelease(t) ==
    LET f == Top(t) IN
    /\ At(t, "loop")
    /\ LeftOpen(f.c) = {}
    /\ IF f.op = "release"
       THEN released' = released \cup {f.c} /\ UNCHANGED <<live, uuid, is_releasing, panicked>>
       ELSE /\ live' = live \ {f.c}
            /\ uuid' = [uuid EXCEPT ![f.c] = None]
            /\ is_releasing' = is_releasing \ {f.c}
            /\ panicked' = panicked \ {f.c}
            /\ released' = released \ {f.c}
    /\ Return(t)
    /\ UNCHANGED <<tee_ctxes, ref_count, is_initializing, busyVars, sessVars, waiting, calls,
                   core_panic>>

----------------------------------------------------------------------------
\* The specification

\* What a thread does by itself once it has a request: it goes on, and a TA
\* it is in returns or panics.
Step(t) ==
    \/ OpenInit(t) \/ OpenNoMem(t) \/ OpenFind(t) \/ Load(t) \/ OpenFail(t)
    \/ SetBusy(t) \/ SetBusyConcurrent(t) \/ AwaitBusy(t) \/ BusyRefused(t)
    \/ Enter(t) \/ RunReturn(t) \/ RunPanic(t)
    \/ ReleaseCtx(t) \/ ClearBusy(t) \/ Put(t)
    \/ GetNone(t) \/ Get(t) \/ Lock(t) \/ CopyParam(t)
    \/ Closing(t) \/ Unlink(t) \/ Drain(t) \/ Unref(t) \/ DestroyCtx(t)
    \/ CloseOne(t) \/ EndRelease(t)

\* The bound on requests is used up and all are answered; any other state
\* without a successor is a deadlock.
AllAnswered == calls = MaxCalls /\ (\A t \in Threads : stack[t] = <<>>) /\ UNCHANGED vars

Next ==
    \/ AllAnswered
    \/ \E t \in Threads :
       \/ Step(t)
       \/ \E l \in Ctxs \cup {Nsec}, u \in Uuids : CallOpen(t, l, u)
       \/ \E s \in Sessions, op \in {"invoke", "cancel"} : CallSession(t, owner[s], s, op)
       \/ \E s \in Sessions : CallClose(t, owner[s], s)

Spec == Init /\ [][Next]_vars

\* The normal world resumes every thread it has started (it schedules the
\* thread that made the request), and TAs return.
FairSpec == Spec /\ \A t \in Threads : WF_vars(Step(t))

----------------------------------------------------------------------------
\* Properties

\* The calls in progress: a thread and how deep in its stack the call is.
Places == UNION {{<<t, i>> : i \in 1 .. Len(stack[t])} : t \in Threads}
Call(p) == stack[p[1]][p[2]]

\* Call f counts in the session's ref_count.
UsesSession(f) ==
    /\ f.s # None
    /\ f.pc \notin {"init", "get"}
    /\ ~(f.op = "close" /\ f.pc \in {"clear", "unref", "destroy"})

\* Call f is the closing of a session that is gone already, the context of
\* which still counts it.
ClosesLast(f, c) == f.op = "close" /\ f.c = c /\ f.pc \in {"clear", "unref"}

\* Call f has made its context busy.
Inside(f, c) ==
    /\ f.c = c
    /\ \/ f.pc \in {"enter", "run", "rel", "clear"}
       \/ f.op = "close" /\ f.ok /\ f.pc \in {"unlink", "drain"}

\* Both reference counts count what refers to the object: the calls that use
\* the session, and the sessions of the context with the calls that are
\* about to drop theirs (dec_session_ref_count(), tee_ta_close_session()).
RefCountsExact ==
    /\ \A s \in Sessions :
          refs[s] = Cardinality({p \in Places : Call(p).s = s /\ UsesSession(Call(p))})
    /\ \A c \in Ctxs :
          ref_count[c] = Cardinality({s \in Sessions : ts_ctx[s] = c})
                         + Cardinality({p \in Places : ClosesLast(Call(p), c)})

\* No call, no list and no sleeping thread refers to a session or to a
\* context that has been freed; a close finds at tee_ta_get_session() the
\* session it was given a pointer to.
NoUseAfterFree ==
    /\ \A p \in Places :
          LET f == Call(p) IN
          /\ UsesSession(f) \/ (f.op = "close" /\ f.pc = "get") => owner[f.s] = f.list
          /\ f.c # None => f.c \in live
          /\ f.list \in Ctxs => f.list \in live
    /\ Range(tee_ctxes) \subseteq live
    /\ \A s \in Sessions : owner[s] \in live \cup {Nsec, None} /\ ts_ctx[s] \in live \cup {None}
    /\ \A t \in Threads :
          /\ \A c \in Ctxs : waiting[t] = BusyCv(c) => c \in live
          /\ \A s \in Sessions : waiting[t] \in {LockCv(s), RefcCv(s)} => owner[s] # None

\* Of a single-instance TA there is one registered instance at a time, and of
\* a TA that is not multi-session an instance has at most one session
\* (tee_ta_init_session_with_context()), whatever races with the loading,
\* the closing and the panicking of instances.
InstanceRules ==
    \A c \in live :
       /\ Single(c) /\ Contains(tee_ctxes, c) =>
             {d \in Range(tee_ctxes) : uuid[d] = uuid[c]} = {c}
       /\ ~(Single(c) /\ HasFlag(c, "multi")) => ref_count[c] <= 1

\* A TA that is not concurrent runs for one call at a time, and the
\* single-instance lock counts exactly the calls of its owner that are in
\* single-instance TAs (tee_ta_try_set_busy(), tee_ta_clear_busy()).
BusyExact ==
    /\ \A c \in live : ~Concurrent(c) =>
          Cardinality({p \in Places : Inside(Call(p), c)}) = IF c \in busy THEN 1 ELSE 0
    /\ LET In == {p \in Places : \E c \in live :
                     Single(c) /\ ~Concurrent(c) /\ Inside(Call(p), c)}
       IN /\ si_count = Cardinality(In)
          /\ \A p \in In : p[1] = si_thread
          /\ si_count = 0 <=> si_thread = None

\* Neither panic() nor an assert() of the session code is reached, and no
\* context is taken off a list it is not on.
NoCorePanic == ~core_panic

\* A TA does not run once its mappings are gone: the close that looked at
\* ctx->panicked too early is stopped by user_ta_enter().
NoRunAfterRelease == \A p \in Places : Call(p).pc = "run" => Call(p).c \notin released

\* When no call is in progress nothing is left behind: every session of the
\* normal world is known to it, and a context has a session or is a keep-alive instance that
\* has not panicked.
NothingLeaks ==
    (\A t \in Threads : stack[t] = <<>>) =>
       /\ SessionsOf(Nsec) \subseteq known
       /\ \A c \in live :
             \/ ref_count[c] > 0
             \/ HasFlag(c, "keep") /\ Single(c) /\ c \notin panicked /\ Contains(tee_ctxes, c)

\* Every request is answered: no wakeup on busy_cv, tee_ta_cv, lock_cv,
\* refc_cv or tee_ta_init_cv is missed, and no two threads wait for each
\* other's TAs or sessions.  (Where the core has panicked nothing returns:
\* NoCorePanic tells when it does not.)
EveryCallReturns == \A t \in Threads : stack[t] # <<>> ~> stack[t] = <<>> \/ core_panic

\* A context that has panicked is out of every new session's reach: once it
\* is off the list it never gets another session.
NoRevival == [][\A c \in live : c \in is_releasing => ref_count'[c] <= ref_count[c]]_vars

\* The state is in its types, and the two kinds of reference are counted exactly
\* (tee_ta_put_session(), tee_ta_unref_ctx() and the closes that race with them).
StateExact == TypeOK /\ RefCountsExact

\* No thread touches a session or a context that was freed, and no panic() or assertion
\* of tee_ta_manager.c is reached.
NoCrash == NoUseAfterFree /\ NoCorePanic
=============================================================================
