------------------------------ MODULE Threads ------------------------------
(***************************************************************************)
(* The threads that handle standard calls (thread.c, thread_optee_smc.c):  *)
(* a call takes a free thread, runs on the core that made it, leaves for   *)
(* the normal world at each RPC and at each foreign interrupt, and comes   *)
(* back on whichever core resumes it.  With it go the buffers the normal   *)
(* world lends to the threads: the RPC argument of a thread, kept between  *)
(* calls while the cache of them is enabled, and the payload buffer of its *)
(* shared memory cache (kernel/thread.c), which lasts one call.            *)
(*                                                                         *)
(* A step of a thread is what it does between two RPCs, and a foreign      *)
(* interrupt may come between any two steps.  A step of a core is one      *)
(* section under thread_global_lock or what follows it.  Of the request    *)
(* that the thread executes only its RPCs are modelled.  The normal world  *)
(* is external: it answers each RPC once and lends a buffer to one thread  *)
(* at a time, but may describe a payload wrongly, and returns to a thread  *)
(* that an interrupt stopped with any registers.  A call refused with      *)
(* ETHREAD_LIMIT or ERESUME changes nothing.                               *)
(***************************************************************************)
EXTENDS Naturals, FiniteSets

CONSTANTS
    Cores,
    Threads,    \* threads[0 .. CFG_NUM_THREADS - 1]
    Buffers,    \* the buffers that the normal world can lend, by cookie
    MaxRpcs,    \* bound: the RPCs that the request of a call makes
    MaxAstray,  \* bound: the payloads that are described wrongly
    NoThread, NoBuffer,
    Astray,     \* in the place of a thread: none will give the buffer back
    Supplied    \* the RPC argument that came with the call

ASSUME CoresThreads ==
    NoThread \notin Threads /\ Astray \notin Threads \cup {NoThread} /\ MaxRpcs \in Nat
ASSUME BuffersOK == NoBuffer \notin Buffers /\ Supplied \notin Buffers \cup {NoBuffer}

VARIABLES
    state, copy_args, x,            \* fields of struct thread_ctx: state, a flag,
    rpc_arg, rpc_mobj, shm_cache,   \* the registers x0-x3, and the buffers
    cpu, curr_thread, args,         \* per core: where it is, its thread, x1-x5 of the SMC
    thread_prealloc_rpc_cache,
    pc, call,                       \* the step that each thread is to take, its locals
    left, asked, answer, lent       \* normal world: why a thread left it to it, the RPC,
                                    \* the answer to it, and the thread that has a buffer

sched == <<state, copy_args, cpu, curr_thread, args, left>>
bufs == <<rpc_arg, rpc_mobj, shm_cache, thread_prealloc_rpc_cache, lent>>
vars == <<sched, x, bufs, pc, call, asked, answer>>

Bufs == Buffers \cup {NoBuffer}
Ops == {"alloc", "free", "cmd", "palloc", "pfree", "ocall"}
Rpc(op, b) == [op |-> op, co |-> b, arg |-> NoBuffer, carg |-> NoBuffer]
NoRpc == Rpc("none", NoBuffer)
Rpcs == [op : Ops, co : Bufs, arg : Bufs \cup {Supplied}, carg : Bufs] \cup {NoRpc}

\* An answer: the buffer lent, if any, and whether secure world can use it.
Answers == [co : Bufs, ok : BOOLEAN]
NoAnswer == [co |-> NoBuffer, ok |-> FALSE, none |-> TRUE]
Own == [co |-> NoBuffer, ok |-> FALSE, own |-> TRUE]
Junk == [co |-> NoBuffer, ok |-> FALSE, junk |-> TRUE]

NoCall == [supplied |-> FALSE, ok |-> FALSE, rpcs |-> 0, next |-> "none", back |-> "none",
           drop |-> NoBuffer, saved |-> NoBuffer]

\* The steps that follow an RPC, and the ones with foreign interrupts masked.
AfterRpc == {"replaced", "alloced", "dropped", "sent", "ocalled", "unprepared", "cleared"}
Masked == {"free", "start", "replaced"}
Pcs == AfterRpc \cup Masked \cup {"work", "send", "ocall", "clear", "exit"}

TypeOK ==
    /\ state \in [Threads -> {"FREE", "ACTIVE", "SUSPENDED"}]
    /\ copy_args \in [Threads -> BOOLEAN]
    /\ x \in [Threads -> Answers \cup {Own, Junk}]
    /\ rpc_arg \in [Threads -> Bufs \cup {Supplied}]
    /\ rpc_mobj \in [Threads -> Bufs] /\ shm_cache \in [Threads -> Bufs]
    /\ cpu \in [Cores -> {"normal", "new", "back", "run"}]
    /\ curr_thread \in [Cores -> Threads \cup {NoThread}]
    /\ args \in [Cores -> Answers \cup {Own, Junk}]
    /\ thread_prealloc_rpc_cache \in BOOLEAN
    /\ pc \in [Threads -> Pcs]
    /\ call \in [Threads -> [supplied : BOOLEAN, ok : BOOLEAN, rpcs : 0 .. MaxRpcs,
                             next : {"none", "cmd", "palloc", "pfree", "evict", "prepare"},
                             back : {"none", "work", "ocall", "clear"},
                             drop : Bufs, saved : Bufs \cup {Supplied}]]
    /\ left \in [Threads -> {"no", "rpc", "intr"}]
    /\ asked \in [Threads -> Rpcs] /\ answer \in [Threads -> Answers \cup {NoAnswer}]
    /\ lent \in [Buffers -> Threads \cup {NoThread, Astray}]

Init ==
    /\ state = [n \in Threads |-> "FREE"] /\ copy_args = [n \in Threads |-> FALSE]
    /\ x = [n \in Threads |-> Own]
    /\ rpc_arg = [n \in Threads |-> NoBuffer] /\ rpc_mobj = [n \in Threads |-> NoBuffer]
    /\ shm_cache = [n \in Threads |-> NoBuffer]
    /\ cpu = [c \in Cores |-> "normal"] /\ curr_thread = [c \in Cores |-> NoThread]
    /\ args = [c \in Cores |-> Own]
    /\ thread_prealloc_rpc_cache = FALSE
    /\ pc = [n \in Threads |-> "free"] /\ call = [n \in Threads |-> NoCall]
    /\ left = [n \in Threads |-> "no"] /\ asked = [n \in Threads |-> NoRpc]
    /\ answer = [n \in Threads |-> NoAnswer]
    /\ lent = [b \in Buffers |-> NoThread]

----------------------------------------------------------------------------
(* Entering, leaving and coming back. *)

\* Core c stops running thread n, which is left in state s.
Leave(c, n, s) ==
    /\ cpu[c] = "run" /\ curr_thread[c] = n
    /\ state' = [state EXCEPT ![n] = s]
    /\ cpu' = [cpu EXCEPT ![c] = "normal"]
    /\ curr_thread' = [curr_thread EXCEPT ![c] = NoThread]
    /\ UNCHANGED args

\* A standard call: __thread_alloc_and_run() takes a free thread under the lock.
Call(c, n, supplied) ==
    /\ cpu[c] = "normal" /\ state[n] = "FREE"
    /\ state' = [state EXCEPT ![n] = "ACTIVE"]
    /\ cpu' = [cpu EXCEPT ![c] = "new"] /\ curr_thread' = [curr_thread EXCEPT ![c] = n]
    /\ call' = [call EXCEPT ![n] = [NoCall EXCEPT !.supplied = supplied]]
    /\ UNCHANGED <<copy_args, args, left, x, bufs, pc, asked, answer>>

\* and then, without it, sets up the thread and starts it.
Start(c) ==
    LET n == curr_thread[c] IN
    /\ cpu[c] = "new"
    /\ cpu' = [cpu EXCEPT ![c] = "run"]
    /\ copy_args' = [copy_args EXCEPT ![n] = FALSE]
    /\ x' = [x EXCEPT ![n] = Own]
    /\ pc' = [pc EXCEPT ![n] = "start"]
    /\ UNCHANGED <<state, curr_thread, args, left, bufs, call, asked, answer>>

\* Mutant of Resume: any thread with a call is resumed.
ResumeAny(c, n) ==
    /\ cpu[c] = "normal"
    /\ left[n] = "rpc" => answer[n] # NoAnswer
    /\ state[n] # "FREE"
    /\ state' = [state EXCEPT ![n] = "ACTIVE"]
    /\ cpu' = [cpu EXCEPT ![c] = "back"] /\ curr_thread' = [curr_thread EXCEPT ![c] = n]
    /\ args' = [args EXCEPT ![c] = IF left[n] = "rpc" THEN answer[n] ELSE Junk]
    /\ left' = [left EXCEPT ![n] = "no"]
    /\ UNCHANGED <<copy_args, x, bufs, pc, call, asked, answer>>

\* The return from an RPC: thread_resume_from_rpc() takes the thread that the
\* normal world names, if it is suspended.
Resume(c, n) ==
    /\ cpu[c] = "normal"
    /\ left[n] = "rpc" => answer[n] # NoAnswer
    /\ state[n] = "SUSPENDED"
    /\ state' = [state EXCEPT ![n] = "ACTIVE"]
    /\ cpu' = [cpu EXCEPT ![c] = "back"] /\ curr_thread' = [curr_thread EXCEPT ![c] = n]
    /\ args' = [args EXCEPT ![c] = IF left[n] = "rpc" THEN answer[n] ELSE Junk]
    /\ left' = [left EXCEPT ![n] = "no"]
    /\ UNCHANGED <<copy_args, x, bufs, pc, call, asked, answer>>

\* Mutant of Continue: the flag is not cleared.
ContinueFlagKept(c) ==
    LET n == curr_thread[c] IN
    /\ cpu[c] = "back"
    /\ cpu' = [cpu EXCEPT ![c] = "run"]
    /\ x' = [x EXCEPT ![n] = IF copy_args[n] THEN args[c] ELSE @]
    /\ args' = [args EXCEPT ![c] = Own]
    /\ UNCHANGED <<copy_args, state, curr_thread, left, bufs, pc, call, asked, answer>>

\* It then continues the thread, with new registers only if it left for an RPC.
Continue(c) ==
    LET n == curr_thread[c] IN
    /\ cpu[c] = "back"
    /\ cpu' = [cpu EXCEPT ![c] = "run"]
    /\ x' = [x EXCEPT ![n] = IF copy_args[n] THEN args[c] ELSE @]
    /\ copy_args' = [copy_args EXCEPT ![n] = FALSE]
    /\ args' = [args EXCEPT ![c] = Own]
    /\ UNCHANGED <<state, curr_thread, left, bufs, pc, call, asked, answer>>

\* A foreign interrupt: thread_state_suspend() with THREAD_FLAGS_EXIT_ON_FOREIGN_INTR.
Preempt(c, n) ==
    /\ Leave(c, n, "SUSPENDED")
    /\ pc[n] \notin Masked
    /\ left' = [left EXCEPT ![n] = "intr"]
    /\ UNCHANGED <<copy_args, x, bufs, pc, call, asked, answer>>

\* thread_rpc(): the thread asks for r, leaves with THREAD_FLAGS_COPY_ARGS_ON_RETURN
\* set, and will go on at `then`.
Ask(c, n, r, then) ==
    /\ Leave(c, n, "SUSPENDED")
    /\ copy_args' = [copy_args EXCEPT ![n] = TRUE]
    /\ left' = [left EXCEPT ![n] = "rpc"]
    /\ asked' = [asked EXCEPT ![n] = r]
    /\ answer' = [answer EXCEPT ![n] = NoAnswer]
    /\ pc' = [pc EXCEPT ![n] = then]
    /\ x' = [x EXCEPT ![n] = Own]

\* thread_rpc_free_arg() of a buffer that there is.
AskFree(c, n, b, then) == Ask(c, n, Rpc("free", b), then)

\* Thread n goes on, with the answer to the RPC that it last made read.
Go(c, n, to) ==
    /\ cpu[c] = "run" /\ curr_thread[c] = n
    /\ pc' = [pc EXCEPT ![n] = to]
    /\ x' = [x EXCEPT ![n] = Own] /\ answer' = [answer EXCEPT ![n] = NoAnswer]
    /\ asked' = [asked EXCEPT ![n] = NoRpc]
    /\ UNCHANGED sched

----------------------------------------------------------------------------
(* The call: call_entry_std() and the RPCs of its request. *)

SetCall(n, l) == call' = [call EXCEPT ![n] = l]
Set(f, n, b) == [f EXCEPT ![n] = b]

\* tee_entry_std(): an unknown command makes no RPC and fails, another may make some.
Enter(c, n) ==
    \E known \in BOOLEAN :
        /\ Go(c, n, IF known THEN "work" ELSE "clear")
        /\ SetCall(n, [call[n] EXCEPT !.ok = known, !.rpcs = IF known THEN MaxRpcs ELSE 0])

\* call_entry_std(), first part: a supplied argument takes the place of a cached one,
\* which is given back (clear_prealloc_rpc_cache()).
EntryStd(c, n) ==
    /\ pc[n] = "start"
    /\ UNCHANGED <<rpc_mobj, shm_cache, thread_prealloc_rpc_cache, lent>>
    /\ IF call[n].supplied /\ thread_prealloc_rpc_cache /\ rpc_mobj[n] # NoBuffer
       THEN AskFree(c, n, rpc_mobj[n], "replaced") /\ UNCHANGED <<rpc_arg, call>>
       ELSE Enter(c, n) /\ rpc_arg' = Set(rpc_arg, n, IF call[n].supplied THEN Supplied
                                                       ELSE rpc_arg[n])

\* std_smc_entry(): a call whose argument cannot be reached returns at once.
BadArg(c, n) ==
    /\ pc[n] = "start"
    /\ Go(c, n, "exit") /\ UNCHANGED <<bufs, call>>

Replaced(c, n) ==
    /\ pc[n] = "replaced"
    /\ Enter(c, n)
    /\ rpc_arg' = Set(rpc_arg, n, Supplied) /\ rpc_mobj' = Set(rpc_mobj, n, NoBuffer)
    /\ UNCHANGED <<shm_cache, thread_prealloc_rpc_cache, lent>>

\* get_rpc_arg() for a command `op`, which returns to `back`: without an argument to
\* write in, ask for one.  clear_shm_cache_entry() takes the payload out of the cache.
GetRpcArg(c, n, op, back) ==
    LET frees == op \in {"pfree", "evict"} IN
    /\ SetCall(n, [call[n] EXCEPT !.next = op, !.back = back,
                                  !.rpcs = IF back = "clear" THEN @ ELSE @ - 1,
                                  !.drop = IF frees THEN shm_cache[n] ELSE @])
    /\ shm_cache' = IF frees THEN Set(shm_cache, n, NoBuffer) ELSE shm_cache
    /\ UNCHANGED <<rpc_arg, rpc_mobj, thread_prealloc_rpc_cache, lent>>
    /\ IF rpc_arg[n] = NoBuffer
       THEN Ask(c, n, Rpc("alloc", NoBuffer), "alloced")
       ELSE Go(c, n, "send")

\* thread_rpc_ocall2_prepare(): an Ocall needs an argument that has a memory object.
Prepare(c, n) ==
    /\ SetCall(n, [call[n] EXCEPT !.next = "prepare", !.back = "work", !.rpcs = @ - 1])
    /\ UNCHANGED bufs
    /\ IF rpc_mobj[n] = NoBuffer
       THEN Ask(c, n, Rpc("alloc", NoBuffer), "alloced")
       ELSE Go(c, n, "ocall")

\* The request makes an RPC (thread_rpc_cmd(), or thread_rpc_shm_cache_alloc() that
\* finds nothing or too little in the cache), enters an Ocall loop (scmi.c), or is done.
Work(c, n) ==
    /\ pc[n] = "work"
    /\ \/ call[n].rpcs > 0 /\ GetRpcArg(c, n, "cmd", "work")
       \/ /\ call[n].rpcs > 0
          /\ GetRpcArg(c, n, IF shm_cache[n] = NoBuffer THEN "palloc" ELSE "evict", "work")
       \/ call[n].rpcs > 0 /\ Prepare(c, n)
       \/ Go(c, n, "clear") /\ UNCHANGED <<bufs, call>>

\* thread_rpc_alloc_arg() returns.  A buffer that cannot be used is given back.
Alloced(c, n) ==
    LET b == x[n].co
        prepare == call[n].next = "prepare"
    IN  /\ pc[n] = "alloced"
        /\ UNCHANGED <<shm_cache, thread_prealloc_rpc_cache, lent>>
        /\ IF x[n].ok
           THEN /\ Go(c, n, IF prepare THEN "ocall" ELSE "send")
                /\ rpc_arg' = Set(rpc_arg, n, b) /\ rpc_mobj' = Set(rpc_mobj, n, b)
                /\ SetCall(n, [call[n] EXCEPT !.saved = IF prepare THEN rpc_arg[n] ELSE @])
           ELSE /\ UNCHANGED <<rpc_arg, rpc_mobj, call>>
                /\ IF b # NoBuffer THEN AskFree(c, n, b, "dropped") ELSE Go(c, n, call[n].back)

Dropped(c, n) ==
    /\ pc[n] = "dropped"
    /\ Go(c, n, call[n].back) /\ UNCHANGED <<bufs, call>>

\* thread_rpc(OPTEE_SMC_RETURN_RPC_CMD): the command was written to rpc_arg, the normal
\* world is told the cookie of rpc_mobj.  A parameter may keep it from being sent.
Send(c, n) ==
    /\ pc[n] = "send" /\ UNCHANGED <<bufs, call>>
    /\ \/ Ask(c, n, [op |-> IF call[n].next = "evict" THEN "pfree" ELSE call[n].next,
                     co |-> call[n].drop, arg |-> rpc_arg[n], carg |-> rpc_mobj[n]], "sent")
       \/ call[n].next = "cmd" /\ Go(c, n, call[n].back)

\* The command returns.  The payload that comes with "palloc" goes to the cache, or
\* back when no memory object can be made of it or it cannot be mapped
\* (get_rpc_alloc_res() once it has the cookie, thread_rpc_shm_cache_alloc()).
Sent(c, n) ==
    LET next == call[n].next
        bad == next = "palloc" /\ x[n].co # NoBuffer /\ ~x[n].ok
    IN  /\ pc[n] = "sent"
        /\ Go(c, n, IF bad \/ next = "evict" THEN "send" ELSE call[n].back)
        /\ SetCall(n, [call[n] EXCEPT
                         !.next = IF bad THEN "pfree" ELSE IF next = "evict" THEN "palloc" ELSE @,
                         !.drop = IF bad THEN x[n].co ELSE NoBuffer])
        /\ shm_cache' = IF next = "palloc" /\ x[n].ok THEN Set(shm_cache, n, x[n].co) ELSE shm_cache
        /\ UNCHANGED <<rpc_arg, rpc_mobj, thread_prealloc_rpc_cache, lent>>

\* thread_rpc_ocall2_cmd(): the normal world sends a message or closes the loop.
Ocall(c, n) ==
    /\ pc[n] = "ocall"
    /\ Ask(c, n, Rpc("ocall", NoBuffer), "ocalled")
    /\ UNCHANGED <<bufs, call>>

\* thread_rpc_ocall2_unprepare() gives back an argument that was allocated in the place
\* of a supplied one.
Unprepare(c, n) ==
    /\ UNCHANGED <<bufs, call>>
    /\ IF call[n].saved # NoBuffer
       THEN AskFree(c, n, rpc_mobj[n], "unprepared")
       ELSE Go(c, n, "work")

\* A message, which may need an RPC of its own, or the end of the loop.
Ocalled(c, n) ==
    /\ pc[n] = "ocalled"
    /\ \/ call[n].rpcs > 0 /\ GetRpcArg(c, n, "cmd", "ocall")
       \/ Go(c, n, "ocall") /\ UNCHANGED <<bufs, call>>
       \/ Unprepare(c, n)

\* Mutant of Unprepared: the memory object stays in its field.
UnpreparedKeepsMobj(c, n) ==
    /\ pc[n] = "unprepared"
    /\ Go(c, n, "work")
    /\ rpc_arg' = Set(rpc_arg, n, call[n].saved)
    /\ SetCall(n, [call[n] EXCEPT !.saved = NoBuffer])
    /\ UNCHANGED <<rpc_mobj, shm_cache, thread_prealloc_rpc_cache, lent>>

Unprepared(c, n) ==
    /\ pc[n] = "unprepared"
    /\ Go(c, n, "work")
    /\ rpc_arg' = Set(rpc_arg, n, call[n].saved) /\ rpc_mobj' = Set(rpc_mobj, n, NoBuffer)
    /\ SetCall(n, [call[n] EXCEPT !.saved = NoBuffer])
    /\ UNCHANGED <<shm_cache, thread_prealloc_rpc_cache, lent>>

\* call_entry_std(), last part: thread_rpc_shm_cache_clear(), then the argument.
Clear(c, n) ==
    LET uncached == call[n].ok /\ ~thread_prealloc_rpc_cache IN
    /\ pc[n] = "clear"
    /\ IF shm_cache[n] # NoBuffer
       THEN GetRpcArg(c, n, "pfree", "clear")
       ELSE /\ rpc_arg' = IF call[n].supplied THEN Set(rpc_arg, n, NoBuffer) ELSE rpc_arg
            /\ UNCHANGED <<rpc_mobj, shm_cache, thread_prealloc_rpc_cache, lent, call>>
            /\ IF uncached /\ rpc_mobj[n] # NoBuffer
               THEN AskFree(c, n, rpc_mobj[n], "cleared")
               ELSE Go(c, n, "exit")

Cleared(c, n) ==
    /\ pc[n] = "cleared"
    /\ Go(c, n, "exit")
    /\ rpc_arg' = Set(rpc_arg, n, NoBuffer) /\ rpc_mobj' = Set(rpc_mobj, n, NoBuffer)
    /\ UNCHANGED <<shm_cache, thread_prealloc_rpc_cache, lent, call>>

\* thread_state_free(): the call returns to the normal world.
Exit(c, n) ==
    /\ pc[n] = "exit"
    /\ Leave(c, n, "FREE")
    /\ copy_args' = [copy_args EXCEPT ![n] = FALSE]
    /\ pc' = [pc EXCEPT ![n] = "free"]
    /\ SetCall(n, NoCall)
    /\ UNCHANGED <<left, x, bufs, asked, answer>>

Step(c, n) ==
    \/ EntryStd(c, n) \/ BadArg(c, n) \/ Replaced(c, n) \/ Work(c, n) \/ Alloced(c, n)
    \/ Dropped(c, n) \/ Send(c, n) \/ Sent(c, n) \/ Ocall(c, n) \/ Ocalled(c, n) \/ Unprepared(c, n)
    \/ Clear(c, n) \/ Cleared(c, n) \/ Exit(c, n)

----------------------------------------------------------------------------
(* The cache of RPC arguments, and the normal world. *)

\* Mutant of Idle: a suspended thread counts as idle.
IdleSuspended == \A n \in Threads : state[n] # "ACTIVE"

Idle == \A n \in Threads : state[n] = "FREE"

\* OPTEE_SMC_DISABLE_SHM_CACHE: give one cached argument back, or find none left.
Disable ==
    /\ Idle
    /\ \/ \E n \in Threads :
            /\ rpc_arg[n] # NoBuffer
            /\ rpc_arg' = Set(rpc_arg, n, NoBuffer) /\ rpc_mobj' = Set(rpc_mobj, n, NoBuffer)
            /\ lent' = [b \in Buffers |-> IF b = rpc_mobj[n] THEN NoThread ELSE lent[b]]
            /\ UNCHANGED thread_prealloc_rpc_cache
       \/ /\ \A n \in Threads : rpc_arg[n] = NoBuffer
          /\ thread_prealloc_rpc_cache' = FALSE
          /\ UNCHANGED <<rpc_arg, rpc_mobj, lent>>
    /\ UNCHANGED <<sched, x, shm_cache, pc, call, asked, answer>>

\* OPTEE_SMC_ENABLE_SHM_CACHE.
Enable ==
    /\ Idle
    /\ thread_prealloc_rpc_cache' = TRUE
    /\ UNCHANGED <<sched, x, rpc_arg, rpc_mobj, shm_cache, lent, pc, call, asked, answer>>

\* The normal world answers the RPC of thread n (external).
Serve(n) ==
    LET r == asked[n] IN
    /\ left[n] = "rpc" /\ answer[n] = NoAnswer
    /\ \/ /\ r.op \in {"alloc", "palloc"}
          /\ \E b \in Buffers, ok \in BOOLEAN :
               /\ lent[b] = NoThread
               /\ lent' = [lent EXCEPT ![b] = n]
               /\ answer' = [answer EXCEPT ![n] = [co |-> b, ok |-> ok]]
       \/ /\ r.op \in {"alloc", "palloc"} /\ UNCHANGED lent
          /\ answer' = [answer EXCEPT ![n] = [co |-> NoBuffer, ok |-> FALSE]]
       \/ /\ r.op \notin {"alloc", "palloc"}
          /\ lent' = [b \in Buffers |-> IF r.op \in {"free", "pfree"} /\ b = r.co THEN NoThread
                                                                               ELSE lent[b]]
          /\ answer' = [answer EXCEPT ![n] = [co |-> NoBuffer, ok |-> TRUE]]
    /\ UNCHANGED <<sched, x, rpc_arg, rpc_mobj, shm_cache, thread_prealloc_rpc_cache, pc, call,
                   asked>>

\* The normal world lends a payload, but it is too small or is not described as one
\* temporary buffer: get_rpc_alloc_res() returns before it gets to the cookie.  For the
\* thread there is no buffer, and nothing gives it back.
ServeWrong(n) ==
    /\ left[n] = "rpc" /\ answer[n] = NoAnswer /\ asked[n].op = "palloc"
    /\ Cardinality({b \in Buffers : lent[b] = Astray}) < MaxAstray
    /\ \E b \in Buffers :
         /\ lent[b] = NoThread
         /\ lent' = [lent EXCEPT ![b] = Astray]
    /\ answer' = [answer EXCEPT ![n] = [co |-> NoBuffer, ok |-> FALSE]]
    /\ UNCHANGED <<sched, x, rpc_arg, rpc_mobj, shm_cache, thread_prealloc_rpc_cache, pc, call,
                   asked>>

Next ==
    \/ Disable \/ Enable
    \/ \E n \in Threads : Serve(n) \/ ServeWrong(n)
    \/ \E c \in Cores :
        \/ Start(c) \/ Continue(c)
        \/ \E n \in Threads :
            \/ \E supplied \in BOOLEAN : Call(c, n, supplied)
            \/ Resume(c, n) \/ Preempt(c, n) \/ Step(c, n)

Spec == Init /\ [][Next]_vars

----------------------------------------------------------------------------
(* Properties. *)

\* A thread is ACTIVE exactly while one core has it (the assertions of
\* thread_state_suspend() and thread_state_free(), for every schedule of two cores
\* that call and resume at once), and a suspended thread is one that the normal world
\* knows how to resume.
ThreadOnOneCore ==
    /\ \A n \in Threads :
        /\ state[n] = "ACTIVE" <=> \E c \in Cores : curr_thread[c] = n
        /\ state[n] = "SUSPENDED" <=> left[n] # "no"
    /\ \A c, d \in Cores :
        curr_thread[c] = curr_thread[d] /\ c # d => curr_thread[c] = NoThread

\* "Return from RPC to request service of a foreign interrupt must not get parameters
\* from non-secure world" (thread.c:418): what a thread reads after an RPC is the
\* answer to that RPC, whatever interrupts and cores came in between, and otherwise its
\* registers are its own.
RepliesIntact ==
    \A n \in Threads :
        \/ x[n] = Own /\ ((\E c \in Cores : cpu[c] = "run" /\ curr_thread[c] = n) =>
                            pc[n] \notin AfterRpc)
        \/ x[n] = answer[n] /\ pc[n] \in AfterRpc

\* The normal world reads a command where the core wrote it: in the buffer whose cookie
\* it is told, or without one in the argument that came with the call.
CommandWhereTold ==
    \A n \in Threads :
        asked[n].op \in {"cmd", "palloc", "pfree"} =>
            asked[n].arg = IF asked[n].carg = NoBuffer THEN Supplied ELSE asked[n].carg

\* The buffers that a thread still owes: the ones in its fields and in the answer that
\* it is to read, without the one that the normal world just took back.
Owes(n) ==
    LET taken == IF asked[n].op \in {"free", "pfree"} /\ answer[n] # NoAnswer
                 THEN {asked[n].co} ELSE {}
    IN  ({rpc_mobj[n], shm_cache[n], call[n].drop, answer[n].co}
           \cup (IF asked[n].op = "free" THEN {asked[n].co} ELSE {})) \ (taken \cup {NoBuffer})

\* No buffer is given back twice, and only a payload that the normal world describes wrongly
\* is lost: what the normal world has lent to a thread otherwise is what the thread still
\* knows of, in the middle of any RPC of any thread.
BuffersExact ==
    \A n \in Threads :
        /\ {b \in Buffers : lent[b] = n} = Owes(n)
        /\ asked[n].op \in {"free", "pfree"} /\ answer[n] = NoAnswer /\ left[n] = "rpc"
              => lent[asked[n].co] = n

\* What the normal world sees of it: module BufferLoans.
Loans == INSTANCE BufferLoans WITH
    busy <- [n \in Threads |-> state[n] # "FREE"],
    lent <- lent,
    caching <- thread_prealloc_rpc_cache

\* A buffer is given back once, a call leaves none behind but the cached argument and the
\* payloads that came with a wrong description, and the cache is off only when every cached
\* buffer was given back.
ImplementsLoans == Loans!Spec

\* The state is in its types, and every buffer is accounted for at every step of
\* call_entry_std() and its RPCs.
LoansExact == TypeOK /\ BuffersExact

\* An RPC is asked where the normal world looks for it, and answered to the thread that
\* asked: thread_rpc_cmd(), thread_resume_from_rpc().
RpcsMatch == RepliesIntact /\ CommandWhereTold
=============================================================================
