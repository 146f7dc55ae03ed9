--------------------------- MODULE ThreadsProofs ---------------------------
(***************************************************************************)
(* Theorems about Threads, for any set of cores, threads and buffers.      *)
(***************************************************************************)
EXTENDS Threads, FiniteSetTheorems, TLAPS

\* The part of the state that says which core runs which thread.
place == <<state, cpu, curr_thread, left>>

PlaceType ==
    /\ state \in [Threads -> {"FREE", "ACTIVE", "SUSPENDED"}]
    /\ cpu \in [Cores -> {"normal", "new", "back", "run"}]
    /\ curr_thread \in [Cores -> Threads \cup {NoThread}]
    /\ left \in [Threads -> {"no", "rpc", "intr"}]

\* A core has a thread exactly while it is in the secure world: without this a call or
\* a resumption could overwrite the thread of a core that still runs one.
CoreHasThread == \A c \in Cores : cpu[c] = "normal" <=> curr_thread[c] = NoThread

IInv == PlaceType /\ CoreHasThread /\ ThreadOnOneCore

\* What a step does to the places of the threads.
Takes(c, n, s) ==
    /\ cpu[c] = "normal" /\ state[n] = s
    /\ state' = [state EXCEPT ![n] = "ACTIVE"]
    /\ curr_thread' = [curr_thread EXCEPT ![c] = n]
    /\ left' = [left EXCEPT ![n] = "no"]
    /\ \E to \in {"new", "back"} : cpu' = [cpu EXCEPT ![c] = to]

Runs(c) ==
    /\ cpu[c] # "normal" /\ cpu' = [cpu EXCEPT ![c] = "run"]
    /\ UNCHANGED <<state, curr_thread, left>>

Gives(c, n, s, l) ==
    /\ cpu[c] = "run" /\ curr_thread[c] = n
    /\ state' = [state EXCEPT ![n] = s]
    /\ curr_thread' = [curr_thread EXCEPT ![c] = NoThread]
    /\ cpu' = [cpu EXCEPT ![c] = "normal"]
    /\ left' = [left EXCEPT ![n] = l]

PlaceStep ==
    \/ UNCHANGED place
    \/ \E c \in Cores :
        \/ Runs(c)
        \/ \E n \in Threads :
            \/ \E s \in {"FREE", "SUSPENDED"} : Takes(c, n, s)
            \/ \E l \in {"rpc", "intr"} : Gives(c, n, "SUSPENDED", l)
            \/ Gives(c, n, "FREE", "no")

----------------------------------------------------------------------------

\* An RPC is a way to give the core back.
LEMMA AskGives ==
    ASSUME NEW c, NEW n, NEW r, NEW then, Ask(c, n, r, then)
    PROVE  Gives(c, n, "SUSPENDED", "rpc")
BY DEF Ask, Leave, Gives

\* A step that makes no RPC leaves every thread where it is.
LEMMA GoStays ==
    ASSUME NEW c, NEW n, NEW to, Go(c, n, to)
    PROVE  UNCHANGED place
BY DEF Go, sched, place

\* A step of the call before its end makes an RPC, or leaves every thread in its place.
LEMMA StepStays ==
    ASSUME NEW c \in Cores, NEW n \in Threads, Step(c, n), ~Exit(c, n)
    PROVE  UNCHANGED place \/ Gives(c, n, "SUSPENDED", "rpc")
<1> DEFINE Fine == UNCHANGED place \/ Gives(c, n, "SUSPENDED", "rpc")
<1>1. ASSUME Gives(c, n, "SUSPENDED", "rpc") PROVE Fine
  BY <1>1
<1>2. ASSUME UNCHANGED place PROVE Fine
  BY <1>2
<1> SUFFICES Fine
  OBVIOUS
<1> HIDE DEF Fine
<1>g. ASSUME NEW op, NEW back, GetRpcArg(c, n, op, back) PROVE Fine
  BY <1>g, <1>1, <1>2, AskGives, GoStays DEF GetRpcArg
<1>3. CASE EntryStd(c, n)
  BY <1>3, <1>1, <1>2, AskGives, GoStays DEF EntryStd, AskFree, Enter
<1>4. CASE BadArg(c, n)
  BY <1>4, <1>2, GoStays DEF BadArg
<1>5. CASE Replaced(c, n)
  BY <1>5, <1>2, GoStays DEF Replaced, Enter
<1>6. CASE Work(c, n)
  <2>1. CASE Prepare(c, n)
    BY <2>1, <1>1, <1>2, AskGives, GoStays DEF Prepare
  <2>2. CASE Go(c, n, "clear")
    BY <2>2, <1>2, GoStays
  <2>3. ASSUME NEW op, GetRpcArg(c, n, op, "work") PROVE Fine
    BY <2>3, <1>g
  <2> QED
    BY <2>1, <2>2, <2>3, <1>6 DEF Work
<1>7. CASE Alloced(c, n)
  BY <1>7, <1>1, <1>2, AskGives, GoStays DEF Alloced, AskFree
<1>8. CASE Dropped(c, n)
  BY <1>8, <1>2, GoStays DEF Dropped
<1>9. CASE Send(c, n)
  BY <1>9, <1>1, <1>2, AskGives, GoStays DEF Send
<1>10. CASE Sent(c, n)
  BY <1>10, <1>2, GoStays DEF Sent
<1>11. CASE Ocall(c, n)
  BY <1>11, <1>1, AskGives DEF Ocall
<1>12. CASE Ocalled(c, n)
  <2>1. CASE Unprepare(c, n)
    BY <2>1, <1>1, <1>2, AskGives, GoStays DEF Unprepare, AskFree
  <2>2. CASE Go(c, n, "ocall")
    BY <2>2, <1>2, GoStays
  <2>3. CASE GetRpcArg(c, n, "cmd", "ocall")
    BY <2>3, <1>g
  <2> QED
    BY <2>1, <2>2, <2>3, <1>12 DEF Ocalled
<1>13. CASE Unprepared(c, n)
  BY <1>13, <1>2, GoStays DEF Unprepared
<1>14. CASE Clear(c, n)
  <2>1. CASE GetRpcArg(c, n, "pfree", "clear")
    BY <2>1, <1>g
  <2>2. CASE Ask(c, n, Rpc("free", rpc_mobj[n]), "cleared")
    BY <2>2, <1>1, AskGives
  <2>3. CASE Go(c, n, "exit")
    BY <2>3, <1>2, GoStays
  <2> QED
    BY <2>1, <2>2, <2>3, <1>14 DEF Clear, AskFree
<1>15. CASE Cleared(c, n)
  BY <1>15, <1>2, GoStays DEF Cleared
<1> QED
  BY <1>3, <1>4, <1>5, <1>6, <1>7, <1>8, <1>9, <1>10, <1>11, <1>12, <1>13, <1>14, <1>15
  DEF Step

\* A step of the call makes an RPC, ends the call, or leaves every thread in its place.
LEMMA StepPlace ==
    ASSUME PlaceType, ThreadOnOneCore, NEW c \in Cores, NEW n \in Threads, Step(c, n)
    PROVE  PlaceStep
<1>1. CASE ~Exit(c, n)
  BY <1>1, StepStays DEF PlaceStep
<1>2. CASE Exit(c, n)
  <2>1. cpu[c] = "run" /\ curr_thread[c] = n /\ left' = left
    BY <1>2 DEF Exit, Leave
  <2>2. left[n] = "no"
    BY <2>1 DEF ThreadOnOneCore, PlaceType
  <2>3. left' = [left EXCEPT ![n] = "no"]
    BY <2>1, <2>2 DEF PlaceType
  <2>4. Gives(c, n, "FREE", "no")
    BY <1>2, <2>3 DEF Exit, Leave, Gives
  <2> QED
    BY <2>4 DEF PlaceStep
<1> QED
  BY <1>1, <1>2

\* Every step is one of the few that PlaceStep lists.
LEMMA NextPlace ==
    ASSUME PlaceType, ThreadOnOneCore, [Next]_vars
    PROVE  PlaceStep
<1>1. CASE UNCHANGED vars
  BY <1>1 DEF vars, sched, place, PlaceStep
<1>2. CASE Disable \/ Enable \/ \E n \in Threads : Serve(n) \/ ServeWrong(n)
  BY <1>2 DEF Disable, Enable, Serve, ServeWrong, sched, place, PlaceStep
<1>3. ASSUME NEW c \in Cores, Start(c) \/ Continue(c) PROVE PlaceStep
  <2>1. Runs(c)
    BY <1>3 DEF Start, Continue, Runs
  <2> QED
    BY <2>1 DEF PlaceStep
<1>4. ASSUME NEW c \in Cores, NEW n \in Threads, NEW b \in BOOLEAN, Call(c, n, b)
      PROVE  PlaceStep
  <2>1. cpu[c] = "normal" /\ state[n] = "FREE" /\ left' = left
    BY <1>4 DEF Call
  <2>2. left' = [left EXCEPT ![n] = "no"]
    BY <2>1 DEF PlaceType, ThreadOnOneCore
  <2>3. Takes(c, n, "FREE")
    BY <1>4, <2>2 DEF Call, Takes
  <2> QED
    BY <2>3 DEF PlaceStep
<1>5. ASSUME NEW c \in Cores, NEW n \in Threads, Resume(c, n) PROVE PlaceStep
  <2>1. Takes(c, n, "SUSPENDED")
    BY <1>5 DEF Resume, Takes
  <2> QED
    BY <2>1 DEF PlaceStep
<1>6. ASSUME NEW c \in Cores, NEW n \in Threads, Preempt(c, n) PROVE PlaceStep
  <2>1. Gives(c, n, "SUSPENDED", "intr")
    BY <1>6 DEF Preempt, Leave, Gives
  <2> QED
    BY <2>1 DEF PlaceStep
<1> QED
  BY <1>1, <1>2, <1>3, <1>4, <1>5, <1>6, StepPlace DEF Next

\* The strengthened invariant is inductive.
LEMMA PlaceStepKeeps ==
    ASSUME IInv, PlaceStep
    PROVE  IInv'
<1> USE CoresThreads DEF IInv, PlaceType, CoreHasThread, ThreadOnOneCore
<1>1. CASE UNCHANGED place
  BY <1>1 DEF place
<1>2. ASSUME NEW c \in Cores, Runs(c) PROVE IInv'
  BY <1>2 DEF Runs
<1>3. ASSUME NEW c \in Cores, NEW n \in Threads, NEW s \in {"FREE", "SUSPENDED"}, Takes(c,
     n, s)
      PROVE  IInv'
  <2>1. PlaceType' /\ CoreHasThread'
    BY <1>3 DEF Takes
  <2>2. \A d \in Cores : curr_thread[d] # n
    BY <1>3 DEF Takes
  <2>3. ThreadOnOneCore'
    BY <1>3, <2>2 DEF Takes
  <2> QED
    BY <2>1, <2>3
<1>4. ASSUME NEW c \in Cores, NEW n \in Threads, NEW s \in {"FREE", "SUSPENDED"},
             NEW l \in {"no", "rpc", "intr"}, s = "FREE" <=> l = "no", Gives(c, n, s, l)
      PROVE  IInv'
  <2>1. PlaceType' /\ CoreHasThread'
    BY <1>4 DEF Gives
  <2>2. \A d \in Cores : d # c => curr_thread[d] # n
    BY <1>4 DEF Gives
  <2>3. ThreadOnOneCore'
    BY <1>4, <2>2 DEF Gives
  <2> QED
    BY <2>1, <2>3
<1> QED
  BY <1>1, <1>2, <1>3, <1>4 DEF PlaceStep

\* A thread is ACTIVE exactly while one core has
\* it: thread_state_suspend() and thread_state_free() find the thread that their
\* assertions expect, whichever cores call and resume at once.
THEOREM OneCore == Spec => []ThreadOnOneCore
<1>1. Init => IInv
  BY CoresThreads DEF Init, IInv, PlaceType, CoreHasThread, ThreadOnOneCore
<1>2. IInv /\ [Next]_vars => IInv'
  BY NextPlace, PlaceStepKeeps DEF IInv
<1>3. IInv => ThreadOnOneCore
  BY DEF IInv
<1> QED
  BY <1>1, <1>2, <1>3, PTL DEF Spec

----------------------------------------------------------------------------
\* The answers and the buffers

\* What the registers of thread n hold: its own values, or the answer to the RPC that it
\* waited for, once the core that resumed it has copied it.
AnswerOK(n) ==
    /\ IF pc[n] \notin AfterRpc
       THEN x[n] = Own /\ ~copy_args[n] /\ asked[n] = NoRpc /\ answer[n] = NoAnswer
       ELSE IF copy_args[n] THEN x[n] = Own ELSE x[n] = answer[n] /\ answer[n] # NoAnswer
    /\ left[n] = "rpc" => copy_args[n]
    /\ left[n] = "intr" => ~copy_args[n]
    /\ state[n] = "FREE" => pc[n] = "free"
    /\ state[n] = "SUSPENDED" => pc[n] # "free"

\* What a core holds of the thread that it is about to run, or runs.
CoreOK(c) ==
    LET n == curr_thread[c] IN
    /\ cpu[c] = "new" => pc[n] = "free"
    /\ cpu[c] = "back" =>
         pc[n] # "free" /\ (copy_args[n] => args[c] = answer[n] /\ answer[n] # NoAnswer)
    /\ cpu[c] = "run" => pc[n] # "free" /\ ~copy_args[n]

\* The places at which a thread has no buffer but a cached argument, ...
Ends == {"free", "start", "replaced", "exit"}

\* ... and the ones between thread_rpc_ocall2_prepare() and its counterpart.
InLoop(n) ==
    \/ pc[n] \in {"ocall", "ocalled", "unprepared"}
    \/ pc[n] \in {"send", "sent"} /\ call[n].back = "ocall"

\* The argument that a thread writes its commands to: its own, the one that came with
\* the call, or its own in the place of that one.
ArgOK(n) ==
    /\ pc[n] \in Ends => rpc_arg[n] = rpc_mobj[n]
    /\ pc[n] \in Ends \cup {"cleared"} => shm_cache[n] = NoBuffer
    /\ pc[n] \notin Ends \cup {"cleared"} =>
         IF call[n].saved # NoBuffer
         THEN call[n].saved = Supplied /\ call[n].supplied /\ rpc_arg[n] = rpc_mobj[n]
         ELSE IF call[n].supplied THEN rpc_arg[n] = Supplied /\ rpc_mobj[n] = NoBuffer
              ELSE rpc_arg[n] = rpc_mobj[n]
    /\ InLoop(n) => rpc_mobj[n] # NoBuffer
    /\ ~InLoop(n) => call[n].saved = NoBuffer
    /\ shm_cache[n] # NoBuffer => rpc_arg[n] # NoBuffer

\* The command that a thread is about to send, waits for, or gets an argument for.
CommandOK(n) ==
    /\ pc[n] \in {"alloced", "dropped"} =>
         call[n].back = "work" /\ call[n].next \in {"cmd", "palloc", "prepare"}
    /\ pc[n] = "alloced" =>
         IF call[n].next = "prepare" THEN rpc_mobj[n] = NoBuffer ELSE rpc_arg[n] = NoBuffer
    /\ pc[n] \in {"send", "sent"} =>
         /\ call[n].back # "none" /\ call[n].next \in {"cmd", "palloc", "pfree", "evict"}
         /\ rpc_arg[n] # NoBuffer
    /\ pc[n] \in {"alloced", "send", "sent"}
       /\ call[n].next \in {"palloc", "pfree", "evict"}
         => shm_cache[n] = NoBuffer
    /\ call[n].drop # NoBuffer <=>
         pc[n] \in {"send", "sent"} /\ call[n].next \in {"pfree", "evict"}

\* The RPC that a thread waits for at each of its places, and the answer to it.
AskedOK(n) ==
    /\ pc[n] \in {"replaced", "cleared", "unprepared"} =>
         asked[n].op = "free" /\ asked[n].co = rpc_mobj[n] /\ rpc_mobj[n] # NoBuffer
    /\ pc[n] = "replaced" => call[n].supplied
    /\ pc[n] = "unprepared" => call[n].saved # NoBuffer
    /\ pc[n] = "dropped" =>
         /\ asked[n].op = "free" /\ asked[n].co # NoBuffer
         /\ asked[n].co \notin {rpc_mobj[n], shm_cache[n]}
    /\ pc[n] = "alloced" => asked[n].op = "alloc"
    /\ pc[n] = "ocalled" => asked[n].op = "ocall"
    /\ pc[n] = "sent" =>
         /\ asked[n].op = IF call[n].next = "evict" THEN "pfree" ELSE call[n].next
         /\ asked[n].co = call[n].drop /\ asked[n].arg = rpc_arg[n]
            /\ asked[n].carg = rpc_mobj[n]
    /\ answer[n] # NoAnswer =>
         IF asked[n].op \in {"alloc", "palloc"}
         THEN /\ answer[n].ok => answer[n].co # NoBuffer
              /\ answer[n].co # NoBuffer => answer[n].co \notin {rpc_mobj[n], shm_cache[n]}
         ELSE answer[n].co = NoBuffer

\* The buffers of a thread are not the same one, and none is left where none may be.
OwnOK(n) ==
    /\ rpc_mobj[n] # NoBuffer => rpc_mobj[n] # shm_cache[n] /\ rpc_mobj[n] # call[n].drop
    /\ ~call[n].ok => pc[n] \in Ends \cup {"clear"} /\ shm_cache[n] = NoBuffer
    /\ ~thread_prealloc_rpc_cache
       /\ (pc[n] \in Ends \/ ~call[n].ok) => rpc_mobj[n] = NoBuffer

DataOK(n) == ArgOK(n) /\ CommandOK(n) /\ AskedOK(n) /\ OwnOK(n)

LentOK == \A n \in Threads, b \in Buffers : lent[b] = n <=> b \in Owes(n)

\* The types that PlaceType does not give.
ControlType ==
    /\ copy_args \in [Threads -> BOOLEAN]
    /\ x \in [Threads -> Answers \cup {Own, Junk}]
    /\ args \in [Cores -> Answers \cup {Own, Junk}]
    /\ pc \in [Threads -> Pcs]
    /\ asked \in [Threads -> Rpcs] /\ answer \in [Threads -> Answers \cup {NoAnswer}]

Locals == [supplied : BOOLEAN, ok : BOOLEAN, rpcs : 0 .. MaxRpcs,
           next : {"none", "cmd", "palloc", "pfree", "evict", "prepare"},
           back : {"none", "work", "ocall", "clear"},
           drop : Bufs, saved : Bufs \cup {Supplied}]

DataType ==
    /\ rpc_arg \in [Threads -> Bufs \cup {Supplied}]
    /\ rpc_mobj \in [Threads -> Bufs] /\ shm_cache \in [Threads -> Bufs]
    /\ thread_prealloc_rpc_cache \in BOOLEAN
    /\ call \in [Threads -> Locals]
    /\ lent \in [Buffers -> Threads \cup {NoThread, Astray}]

ControlOK ==
    /\ ControlType
    /\ \A c \in Cores : CoreOK(c)
    /\ \A n \in Threads : AnswerOK(n)

LoanInv == IInv /\ ControlOK /\ DataType /\ (\A n \in Threads : DataOK(n)) /\ LentOK

----------------------------------------------------------------------------
\* Threads that a step does not concern

SameControl(m) ==
    /\ state'[m] = state[m] /\ left'[m] = left[m] /\ copy_args'[m] = copy_args[m]
    /\ x'[m] = x[m] /\ pc'[m] = pc[m] /\ asked'[m] = asked[m] /\ answer'[m] = answer[m]

SameData(m) ==
    /\ rpc_arg'[m] = rpc_arg[m] /\ rpc_mobj'[m] = rpc_mobj[m]
    /\ shm_cache'[m] = shm_cache[m] /\ call'[m] = call[m]

SameDebt(m) == \A b : b \in Owes(m)' <=> b \in Owes(m)

\* Such a thread keeps its part of the invariant, and owes what it owed.
LEMMA Unconcerned ==
    ASSUME NEW m \in Threads, SameControl(m), SameData(m),
           thread_prealloc_rpc_cache' = thread_prealloc_rpc_cache
    PROVE  /\ DataOK(m) => DataOK(m)'
           /\ SameDebt(m)
<1> USE DEF SameControl, SameData
<1>1. ArgOK(m) => ArgOK(m)'
  BY DEF ArgOK, InLoop
<1>2. CommandOK(m) => CommandOK(m)'
  BY DEF CommandOK
<1>3. AskedOK(m) => AskedOK(m)'
  BY DEF AskedOK
<1>4. OwnOK(m) => OwnOK(m)'
  BY DEF OwnOK
<1>5. SameDebt(m)
  BY DEF Owes, SameDebt
<1> QED
  BY <1>1, <1>2, <1>3, <1>4, <1>5 DEF DataOK

\* The constant records.
LEMMA Constants ==
    /\ NoRpc \in Rpcs /\ NoRpc.op = "none" /\ NoRpc.co = NoBuffer
    /\ NoAnswer.co = NoBuffer /\ NoAnswer.ok = FALSE
    /\ \A op \in Ops, b \in Bufs :
         Rpc(op, b) \in Rpcs /\ Rpc(op, b).op = op /\ Rpc(op, b).co = b
BY DEF NoRpc, NoAnswer, Rpc, Rpcs, Bufs

\* An RPC is asked by a thread that a core runs, and leaves it waiting for the answer.
LEMMA AskControl ==
    ASSUME IInv, ControlOK, NEW c \in Cores, NEW n \in Threads, NEW r \in Rpcs,
           NEW then \in AfterRpc, Ask(c, n, r, then)
    PROVE  /\ ControlOK'
           /\ \A m \in Threads \ {n} : SameControl(m)
<1> USE DEF IInv, PlaceType, Ask, Leave
<1>1. ControlType'
  BY DEF ControlOK, ControlType, Pcs
<1>2. \A m \in Threads \ {n} : SameControl(m)
  BY DEF SameControl, ControlOK, ControlType
<1>3. AnswerOK(n)'
  <2>1. /\ pc'[n] \in AfterRpc /\ pc'[n] # "free" /\ copy_args'[n] /\ x'[n] = Own
        /\ left'[n] = "rpc" /\ state'[n] = "SUSPENDED"
    BY DEF ControlOK, ControlType, AfterRpc
  <2> QED
    BY <2>1 DEF AnswerOK
<1>4. \A m \in Threads \ {n} : AnswerOK(m)'
  BY <1>2 DEF ControlOK, AnswerOK, SameControl
<1>5. ASSUME NEW d \in Cores PROVE CoreOK(d)'
  <2>1. CASE d = c
    BY <2>1 DEF CoreOK
  <2>2. CASE d # c /\ cpu[d] # "normal"
    <3>1. curr_thread[d] \in Threads \ {n} /\ curr_thread'[d] = curr_thread[d]
      BY <2>2 DEF CoreHasThread, ThreadOnOneCore
    <3> QED
      BY <1>2, <2>2, <3>1 DEF ControlOK, CoreOK, SameControl
  <2>3. CASE d # c /\ cpu[d] = "normal"
    BY <2>3 DEF CoreOK
  <2> QED
    BY <2>1, <2>2, <2>3
<1> QED
  BY <1>1, <1>2, <1>3, <1>4, <1>5 DEF ControlOK

\* A step without an RPC is taken by a thread that a core runs.
LEMMA GoControl ==
    ASSUME IInv, ControlOK, NEW c \in Cores, NEW n \in Threads,
           NEW to \in Pcs \ (AfterRpc \cup {"free"}), Go(c, n, to)
    PROVE  /\ ControlOK'
           /\ \A m \in Threads \ {n} : SameControl(m)
<1> USE DEF IInv, PlaceType, Go, sched
<1>1. ControlType'
  BY Constants DEF ControlOK, ControlType
<1>2. \A m \in Threads \ {n} : SameControl(m)
  BY DEF SameControl, ControlOK, ControlType
<1>3. AnswerOK(n)'
  <2>0. state[n] = "ACTIVE" /\ left[n] = "no" /\ ~copy_args[n]
    BY DEF ThreadOnOneCore, ControlOK, CoreOK
  <2>1. /\ pc'[n] \notin AfterRpc /\ pc'[n] # "free" /\ ~copy_args'[n] /\ x'[n] = Own
        /\ asked'[n] = NoRpc /\ answer'[n] = NoAnswer /\ left'[n] = "no"
           /\ state'[n] = "ACTIVE"
    BY <2>0 DEF ControlOK, ControlType
  <2> QED
    BY <2>1 DEF AnswerOK
<1>4. \A m \in Threads \ {n} : AnswerOK(m)'
  BY <1>2 DEF ControlOK, AnswerOK, SameControl
<1>5. ASSUME NEW d \in Cores PROVE CoreOK(d)'
  <2>1. CASE d = c
    BY <2>1 DEF ControlOK, ControlType, CoreOK
  <2>2. CASE d # c /\ cpu[d] # "normal"
    <3>1. curr_thread[d] \in Threads \ {n} /\ curr_thread'[d] = curr_thread[d]
      BY <2>2 DEF CoreHasThread, ThreadOnOneCore
    <3> QED
      BY <1>2, <2>2, <3>1 DEF ControlOK, CoreOK, SameControl
  <2>3. CASE d # c /\ cpu[d] = "normal"
    BY <2>3 DEF CoreOK
  <2> QED
    BY <2>1, <2>2, <2>3
<1> QED
  BY <1>1, <1>2, <1>3, <1>4, <1>5 DEF ControlOK

\* What thread n has after a step.
Data(n, ra, rm, sc, l) ==
    /\ rpc_arg' = [rpc_arg EXCEPT ![n] = ra] /\ rpc_mobj' = [rpc_mobj EXCEPT ![n] = rm]
    /\ shm_cache' = [shm_cache EXCEPT ![n] = sc] /\ call' = [call EXCEPT ![n] = l]
    /\ UNCHANGED <<thread_prealloc_rpc_cache, lent>>

\* A step of thread n that the invariant survives.
Keeps(n) ==
    /\ ControlOK' /\ DataType' /\ DataOK(n)' /\ SameDebt(n)
    /\ \A m \in Threads \ {n} : SameControl(m) /\ SameData(m)
    /\ UNCHANGED <<thread_prealloc_rpc_cache, lent>>

\* The data of the other threads does not move.
LEMMA DataMoves ==
    ASSUME DataType, NEW n \in Threads, NEW ra \in Bufs \cup {Supplied}, NEW rm \in Bufs,
           NEW sc \in Bufs, NEW l \in Locals, Data(n, ra, rm, sc, l)
    PROVE  /\ DataType' /\ \A m \in Threads \ {n} : SameData(m)
           /\ rpc_arg'[n] = ra /\ rpc_mobj'[n] = rm /\ shm_cache'[n] = sc /\ call'[n] = l
           /\ UNCHANGED <<thread_prealloc_rpc_cache, lent>>
<1> USE DEF Data, DataType
<1>1. DataType'
  OBVIOUS
<1>2. \A m \in Threads \ {n} : SameData(m)
  BY DEF SameData
<1> QED
  BY <1>1, <1>2

\* The thread that a core runs has read the answer to its RPC, if it made one.
LEMMA Running ==
    ASSUME LoanInv, NEW c \in Cores, NEW n \in Threads, cpu[c] = "run", curr_thread[c] = n
    PROVE  IF pc[n] \in AfterRpc
           THEN x[n] = answer[n] /\ answer[n] \in Answers /\ answer[n] # NoAnswer
           ELSE asked[n] = NoRpc /\ answer[n] = NoAnswer
BY DEF LoanInv, ControlOK, ControlType, CoreOK, AnswerOK

\* The fields of the locals and of an answer.
LEMMA Fields ==
    ASSUME DataType, NEW n \in Threads
    PROVE  /\ call[n] \in Locals
           /\ call[n].supplied \in BOOLEAN /\ call[n].ok \in BOOLEAN
           /\ call[n].drop \in Bufs /\ call[n].saved \in Bufs \cup {Supplied}
           /\ call[n].rpcs \in 0 .. MaxRpcs
           /\ rpc_arg[n] \in Bufs \cup {Supplied} /\ rpc_mobj[n] \in Bufs
              /\ shm_cache[n] \in Bufs
           /\ \A a \in Answers : a.co \in Bufs /\ a.ok \in BOOLEAN
BY DEF DataType, Locals, Answers

\* A step with an RPC, ...
LEMMA AskKeeps ==
    ASSUME LoanInv, NEW c \in Cores, NEW n \in Threads, NEW r \in Rpcs, NEW then \in AfterRpc,
           Ask(c, n, r, then),
           NEW ra \in Bufs \cup {Supplied}, NEW rm \in Bufs, NEW sc \in Bufs, NEW l \in Locals,
           Data(n, ra, rm, sc, l), DataOK(n)', SameDebt(n)
    PROVE  Keeps(n)
<1>1. ControlOK' /\ \A m \in Threads \ {n} : SameControl(m)
  BY AskControl DEF LoanInv
<1>2. DataType' /\ (\A m \in Threads \ {n} : SameData(m))
      /\ UNCHANGED <<thread_prealloc_rpc_cache, lent>>
  BY DataMoves DEF LoanInv
<1> QED
  BY <1>1, <1>2 DEF Keeps

\* ... and one without.
LEMMA GoKeeps ==
    ASSUME LoanInv, NEW c \in Cores, NEW n \in Threads,
           NEW to \in Pcs \ (AfterRpc \cup {"free"}), Go(c, n, to),
           NEW ra \in Bufs \cup {Supplied}, NEW rm \in Bufs, NEW sc \in Bufs, NEW l \in Locals,
           Data(n, ra, rm, sc, l), DataOK(n)', SameDebt(n)
    PROVE  Keeps(n)
<1>1. ControlOK' /\ \A m \in Threads \ {n} : SameControl(m)
  BY GoControl DEF LoanInv
<1>2. DataType' /\ (\A m \in Threads \ {n} : SameData(m))
      /\ UNCHANGED <<thread_prealloc_rpc_cache, lent>>
  BY DataMoves DEF LoanInv
<1> QED
  BY <1>1, <1>2 DEF Keeps

\* The first part of call_entry_std().
LEMMA EntryStdKeeps ==
    ASSUME LoanInv, NEW c \in Cores, NEW n \in Threads, EntryStd(c, n)
    PROVE  Keeps(n)
<1>0. cpu[c] = "run" /\ curr_thread[c] = n /\ pc[n] = "start"
  BY DEF EntryStd, Enter, Go, Ask, AskFree, Leave
<1>1. PICK k \in Locals : k = call[n] /\ DataType /\ DataOK(n)
  BY DEF LoanInv, DataType
<1>2. asked[n] = NoRpc /\ answer[n] = NoAnswer
  BY <1>0, Running DEF AfterRpc
<1>3. CASE call[n].supplied /\ thread_prealloc_rpc_cache /\ rpc_mobj[n] # NoBuffer
  <2> DEFINE r == Rpc("free", rpc_mobj[n])
  <2>1. Ask(c, n, r, "replaced") /\ r \in Rpcs /\ r.op = "free" /\ r.co = rpc_mobj[n]
    BY <1>0, <1>1, <1>2, <1>3, Constants, Fields DEF EntryStd, AskFree, Ops, Bufs
  <2>3. Data(n, rpc_arg[n], rpc_mobj[n], shm_cache[n], call[n])
    BY <1>0, <1>1, <1>2, <1>3 DEF EntryStd, AskFree, Data, DataType, bufs, Set, SetCall
  <2> HIDE DEF r
  <2>4. /\ rpc_arg'[n] = rpc_arg[n] /\ rpc_mobj'[n] = rpc_mobj[n]
        /\ shm_cache'[n] = shm_cache[n] /\ call'[n] = call[n]
        /\ thread_prealloc_rpc_cache' = thread_prealloc_rpc_cache
    BY <1>0, <1>1, <1>2, <1>3, <2>3 DEF Data, DataType
  <2>5. pc'[n] = "replaced" /\ asked'[n] = r /\ answer'[n] = NoAnswer
    BY <2>1 DEF Ask, LoanInv, ControlOK, ControlType
  <2>6. DataOK(n)'
    BY <1>0, <1>1, <1>2, <1>3, <2>1, <2>4, <2>5, Constants, BuffersOK DEF DataOK, ArgOK,
         InLoop, CommandOK, AskedOK, OwnOK, Ends
  <2>7. SameDebt(n)
    BY <1>0, <1>1, <1>2, <1>3, <2>1, <2>4, <2>5, Constants DEF SameDebt, Owes, DataOK,
         ArgOK, InLoop, CommandOK, AskedOK, OwnOK, Ends
  <2> QED
    BY <1>0, <1>1, <1>2, <1>3, <2>1, <2>3, <2>6, <2>7, AskKeeps, Fields DEF Pcs, AfterRpc,
         Masked
<1>4. CASE ~(call[n].supplied /\ thread_prealloc_rpc_cache /\ rpc_mobj[n] # NoBuffer)
  <2>0. PICK known \in BOOLEAN :
           Go(c, n, IF known THEN "work" ELSE "clear")
           /\ SetCall(n, [call[n] EXCEPT !.ok = known, !.rpcs = IF known THEN MaxRpcs ELSE 0])
    BY <1>4 DEF EntryStd, Enter
  <2> DEFINE v == IF known THEN MaxRpcs ELSE 0
             l == [k EXCEPT !.ok = known, !.rpcs = v]
  <2>1. Go(c, n, (IF known THEN "work" ELSE "clear"))
    BY <1>0, <1>1, <1>2, <1>4, <2>0 DEF EntryStd
  <2>3. Data(n, (IF call[n].supplied THEN Supplied ELSE rpc_arg[n]), rpc_mobj[n], shm_cache[n], l)
    BY <1>0, <1>1, <1>2, <1>4, <2>0 DEF EntryStd, Data, DataType, bufs, Set, SetCall
  <2>v. v \in 0 .. MaxRpcs
    BY <1>0, <1>1, <1>2, <1>4, <2>0, Fields, CoresThreads
  <2> HIDE DEF v
  <2>l. l \in Locals
    BY <1>1, <2>v, ZenonT(60) DEF Locals
  <2>2. l \in Locals /\ l.ok = known /\ l.supplied = call[n].supplied
        /\ l.saved = call[n].saved /\ l.drop = call[n].drop
    BY <1>1, <2>l DEF Locals
  <2> HIDE DEF l
  <2>4. /\ rpc_arg'[n] = (IF call[n].supplied THEN Supplied ELSE rpc_arg[n])
           /\ rpc_mobj'[n] = rpc_mobj[n]
        /\ shm_cache'[n] = shm_cache[n] /\ call'[n] = l
        /\ thread_prealloc_rpc_cache' = thread_prealloc_rpc_cache
    BY <1>0, <1>1, <1>2, <1>4, <2>0, <2>3 DEF Data, DataType
  <2>5. pc'[n] = (IF known THEN "work" ELSE "clear") /\ asked'[n] = NoRpc
        /\ answer'[n] = NoAnswer
    BY <2>1 DEF Go, LoanInv, ControlOK, ControlType
  <2>6. DataOK(n)'
    BY <1>0, <1>1, <1>2, <1>4, <2>0, <2>1, <2>2, <2>4, <2>5, Constants,
         BuffersOK DEF DataOK, ArgOK, InLoop, CommandOK, AskedOK, OwnOK, Ends
  <2>7. SameDebt(n)
    BY <1>0, <1>1, <1>2, <1>4, <2>0, <2>1, <2>2, <2>4, <2>5, Constants DEF SameDebt, Owes,
         DataOK, ArgOK, InLoop, CommandOK, AskedOK, OwnOK, Ends
  <2> QED
    BY <1>0, <1>1, <1>2, <1>4, <2>0, <2>1, <2>3, <2>2, <2>6, <2>7, GoKeeps, Fields DEF Pcs,
         AfterRpc, Masked
<1> QED
  BY <1>3, <1>4

\* A call whose argument cannot be reached returns at once.
LEMMA BadArgKeeps ==
    ASSUME LoanInv, NEW c \in Cores, NEW n \in Threads, BadArg(c, n)
    PROVE  Keeps(n)
<1>0. cpu[c] = "run" /\ curr_thread[c] = n /\ pc[n] = "start"
  BY DEF BadArg, Go, Ask, AskFree, Leave
<1>1. PICK k \in Locals : k = call[n] /\ DataType /\ DataOK(n)
  BY DEF LoanInv, DataType
<1>2. asked[n] = NoRpc /\ answer[n] = NoAnswer
  BY <1>0, Running DEF AfterRpc
<1>3. Keeps(n)
  <2>1. Go(c, n, "exit")
    BY <1>0, <1>1, <1>2 DEF BadArg
  <2>3. Data(n, rpc_arg[n], rpc_mobj[n], shm_cache[n], call[n])
    BY <1>0, <1>1, <1>2 DEF BadArg, Data, DataType, bufs, Set, SetCall
  <2>4. /\ rpc_arg'[n] = rpc_arg[n] /\ rpc_mobj'[n] = rpc_mobj[n]
        /\ shm_cache'[n] = shm_cache[n] /\ call'[n] = call[n]
        /\ thread_prealloc_rpc_cache' = thread_prealloc_rpc_cache
    BY <1>0, <1>1, <1>2, <2>3 DEF Data, DataType
  <2>5. pc'[n] = "exit" /\ asked'[n] = NoRpc /\ answer'[n] = NoAnswer
    BY <2>1 DEF Go, LoanInv, ControlOK, ControlType
  <2>6. DataOK(n)'
    BY <1>0, <1>1, <1>2, <2>1, <2>4, <2>5, Constants, BuffersOK DEF DataOK, ArgOK, InLoop,
         CommandOK, AskedOK, OwnOK, Ends
  <2>7. SameDebt(n)
    BY <1>0, <1>1, <1>2, <2>1, <2>4, <2>5, Constants DEF SameDebt, Owes, DataOK, ArgOK,
         InLoop, CommandOK, AskedOK, OwnOK, Ends
  <2>8. rpc_arg[n] \in Bufs \cup {Supplied} /\ rpc_mobj[n] \in Bufs /\ shm_cache[n] \in Bufs
    BY <1>0, <1>1, <1>2, Fields DEF Bufs
  <2>9. "exit" \in Pcs \ (AfterRpc \cup {"free"})
    BY <1>0, <1>1, <1>2 DEF Pcs, AfterRpc, Masked
  <2> QED
    BY <1>1, <2>1, <2>3, <2>6, <2>7, <2>8, <2>9, GoKeeps
<1> QED
  BY <1>3

\* The cached argument was given back for the supplied one.
LEMMA ReplacedKeeps ==
    ASSUME LoanInv, NEW c \in Cores, NEW n \in Threads, Replaced(c, n)
    PROVE  Keeps(n)
<1>0. cpu[c] = "run" /\ curr_thread[c] = n /\ pc[n] = "replaced"
  BY DEF Replaced, Enter, Go, Ask, AskFree, Leave
<1>1. PICK k \in Locals : k = call[n] /\ DataType /\ DataOK(n)
  BY DEF LoanInv, DataType
<1>2. x[n] = answer[n] /\ answer[n] \in Answers /\ answer[n] # NoAnswer
  BY <1>0, Running DEF AfterRpc
<1>3. PICK known \in BOOLEAN :
         Go(c, n, IF known THEN "work" ELSE "clear")
         /\ SetCall(n, [call[n] EXCEPT !.ok = known, !.rpcs = IF known THEN MaxRpcs ELSE 0])
  BY DEF Replaced, Enter
<1>4. Keeps(n)
  <2> DEFINE v == IF known THEN MaxRpcs ELSE 0
             l == [k EXCEPT !.ok = known, !.rpcs = v]
  <2>1. Go(c, n, (IF known THEN "work" ELSE "clear"))
    BY <1>0, <1>1, <1>2, <1>3 DEF Replaced
  <2>3. Data(n, Supplied, NoBuffer, shm_cache[n], l)
    BY <1>0, <1>1, <1>2, <1>3 DEF Replaced, Data, DataType, bufs, Set, SetCall
  <2>v. v \in 0 .. MaxRpcs
    BY <1>0, <1>1, <1>2, <1>3, Fields, CoresThreads
  <2> HIDE DEF v
  <2>l. l \in Locals
    BY <1>1, <1>2, <2>v, ZenonT(60) DEF Locals
  <2>2. l \in Locals /\ l.ok = known /\ l.supplied = k.supplied /\ l.saved = k.saved
        /\ l.drop = k.drop
    BY <1>1, <2>l DEF Locals
  <2> HIDE DEF l
  <2>4. /\ rpc_arg'[n] = Supplied /\ rpc_mobj'[n] = NoBuffer
        /\ shm_cache'[n] = shm_cache[n] /\ call'[n] = l
        /\ thread_prealloc_rpc_cache' = thread_prealloc_rpc_cache
    BY <1>0, <1>1, <1>2, <1>3, <2>3 DEF Data, DataType
  <2>5. pc'[n] = (IF known THEN "work" ELSE "clear") /\ asked'[n] = NoRpc
        /\ answer'[n] = NoAnswer
    BY <2>1 DEF Go, LoanInv, ControlOK, ControlType
  <2>6. DataOK(n)'
    BY <1>0, <1>1, <1>2, <1>3, <2>1, <2>2, <2>4, <2>5, Constants, BuffersOK DEF DataOK,
         ArgOK, InLoop, CommandOK, AskedOK, OwnOK, Ends
  <2>7. SameDebt(n)
    BY <1>0, <1>1, <1>2, <1>3, <2>1, <2>2, <2>4, <2>5, Constants DEF SameDebt, Owes,
         DataOK, ArgOK, InLoop, CommandOK, AskedOK, OwnOK, Ends
  <2>8. Supplied \in Bufs \cup {Supplied} /\ NoBuffer \in Bufs /\ shm_cache[n] \in Bufs
    BY <1>0, <1>1, <1>2, <1>3, Fields DEF Bufs
  <2>9. (IF known THEN "work" ELSE "clear") \in Pcs \ (AfterRpc \cup {"free"})
    BY <1>0, <1>1, <1>2, <1>3 DEF Pcs, AfterRpc, Masked
  <2> QED
    BY <1>1, <2>1, <2>3, <2>2, <2>6, <2>7, <2>8, <2>9, GoKeeps
<1> QED
  BY <1>4

\* thread_rpc_ocall2_prepare() finds an argument or asks for one.
LEMMA PrepareKeeps ==
    ASSUME LoanInv, NEW c \in Cores, NEW n \in Threads, Prepare(c, n),
           pc[n] = "work", call[n].rpcs > 0
    PROVE  Keeps(n)
<1>0. cpu[c] = "run" /\ curr_thread[c] = n /\ pc[n] = "work"
  BY DEF Prepare, Go, Ask, AskFree, Leave
<1>1. PICK k \in Locals : k = call[n] /\ DataType /\ DataOK(n)
  BY DEF LoanInv, DataType
<1>2. asked[n] = NoRpc /\ answer[n] = NoAnswer
  BY <1>0, Running DEF AfterRpc
<1>3. CASE rpc_mobj[n] = NoBuffer
  <2> DEFINE r == Rpc("alloc", NoBuffer)
             v == k.rpcs - 1
             l == [k EXCEPT !.next = "prepare", !.back = "work", !.rpcs = v]
  <2>1. Ask(c, n, r, "alloced") /\ r \in Rpcs /\ r.op = "alloc" /\ r.co = NoBuffer
    BY <1>0, <1>1, <1>2, <1>3, Constants, Fields DEF Prepare, Ops, Bufs
  <2>3. Data(n, rpc_arg[n], rpc_mobj[n], shm_cache[n], l)
    BY <1>0, <1>1, <1>2, <1>3 DEF Prepare, Data, DataType, bufs, Set, SetCall
  <2>v. v \in 0 .. MaxRpcs
    BY <1>0, <1>1, <1>2, <1>3, Fields, CoresThreads
  <2> HIDE DEF r, v
  <2>l. l \in Locals
    BY <1>1, <1>2, <2>v, ZenonT(60) DEF Locals
  <2>2. l \in Locals /\ l.ok = k.ok /\ l.supplied = k.supplied /\ l.next = "prepare"
        /\ l.back = "work" /\ l.drop = k.drop /\ l.saved = k.saved
    BY <1>1, <2>l DEF Locals
  <2> HIDE DEF l
  <2>4. /\ rpc_arg'[n] = rpc_arg[n] /\ rpc_mobj'[n] = rpc_mobj[n]
        /\ shm_cache'[n] = shm_cache[n] /\ call'[n] = l
        /\ thread_prealloc_rpc_cache' = thread_prealloc_rpc_cache
    BY <1>0, <1>1, <1>2, <1>3, <2>3 DEF Data, DataType
  <2>5. pc'[n] = "alloced" /\ asked'[n] = r /\ answer'[n] = NoAnswer
    BY <2>1 DEF Ask, LoanInv, ControlOK, ControlType
  <2>6. DataOK(n)'
    BY <1>0, <1>1, <1>2, <1>3, <2>1, <2>2, <2>4, <2>5, Constants, BuffersOK DEF DataOK,
         ArgOK, InLoop, CommandOK, AskedOK, OwnOK, Ends
  <2>7. SameDebt(n)
    BY <1>0, <1>1, <1>2, <1>3, <2>1, <2>2, <2>4, <2>5, Constants DEF SameDebt, Owes,
         DataOK, ArgOK, InLoop, CommandOK, AskedOK, OwnOK, Ends
  <2>8. rpc_arg[n] \in Bufs \cup {Supplied} /\ rpc_mobj[n] \in Bufs /\ shm_cache[n] \in Bufs
    BY <1>0, <1>1, <1>2, <1>3, <2>1, Fields DEF Bufs
  <2>9. "alloced" \in AfterRpc
    BY <1>0, <1>1, <1>2, <1>3 DEF Pcs, AfterRpc, Masked
  <2> QED
    BY <1>1, <2>1, <2>3, <2>2, <2>6, <2>7, <2>8, <2>9, AskKeeps
<1>4. CASE rpc_mobj[n] # NoBuffer
  <2> DEFINE v == k.rpcs - 1
             l == [k EXCEPT !.next = "prepare", !.back = "work", !.rpcs = v]
  <2>1. Go(c, n, "ocall")
    BY <1>0, <1>1, <1>2, <1>4 DEF Prepare
  <2>3. Data(n, rpc_arg[n], rpc_mobj[n], shm_cache[n], l)
    BY <1>0, <1>1, <1>2, <1>4 DEF Prepare, Data, DataType, bufs, Set, SetCall
  <2>v. v \in 0 .. MaxRpcs
    BY <1>0, <1>1, <1>2, <1>4, Fields, CoresThreads
  <2> HIDE DEF v
  <2>l. l \in Locals
    BY <1>1, <1>2, <2>v, ZenonT(60) DEF Locals
  <2>2. l \in Locals /\ l.ok = k.ok /\ l.supplied = k.supplied /\ l.next = "prepare"
        /\ l.back = "work" /\ l.drop = k.drop /\ l.saved = k.saved
    BY <1>1, <2>l DEF Locals
  <2> HIDE DEF l
  <2>4. /\ rpc_arg'[n] = rpc_arg[n] /\ rpc_mobj'[n] = rpc_mobj[n]
        /\ shm_cache'[n] = shm_cache[n] /\ call'[n] = l
        /\ thread_prealloc_rpc_cache' = thread_prealloc_rpc_cache
    BY <1>0, <1>1, <1>2, <1>4, <2>3 DEF Data, DataType
  <2>5. pc'[n] = "ocall" /\ asked'[n] = NoRpc /\ answer'[n] = NoAnswer
    BY <2>1 DEF Go, LoanInv, ControlOK, ControlType
  <2>6. DataOK(n)'
    BY <1>0, <1>1, <1>2, <1>4, <2>1, <2>2, <2>4, <2>5, Constants, BuffersOK DEF DataOK,
         ArgOK, InLoop, CommandOK, AskedOK, OwnOK, Ends
  <2>7. SameDebt(n)
    BY <1>0, <1>1, <1>2, <1>4, <2>1, <2>2, <2>4, <2>5, Constants DEF SameDebt, Owes,
         DataOK, ArgOK, InLoop, CommandOK, AskedOK, OwnOK, Ends
  <2>8. rpc_arg[n] \in Bufs \cup {Supplied} /\ rpc_mobj[n] \in Bufs /\ shm_cache[n] \in Bufs
    BY <1>0, <1>1, <1>2, <1>4, Fields DEF Bufs
  <2>9. "ocall" \in Pcs \ (AfterRpc \cup {"free"})
    BY <1>0, <1>1, <1>2, <1>4 DEF Pcs, AfterRpc, Masked
  <2> QED
    BY <1>1, <2>1, <2>3, <2>2, <2>6, <2>7, <2>8, <2>9, GoKeeps
<1> QED
  BY <1>3, <1>4

\* get_rpc_arg() finds an argument to write a command to, or asks for one.
LEMMA GetRpcArgKeeps ==
    ASSUME LoanInv, NEW c \in Cores, NEW n \in Threads,
           NEW op \in {"cmd", "palloc", "pfree", "evict"}, NEW back \in {"work", "ocall", "clear"},
           GetRpcArg(c, n, op, back),
           pc[n] \in {"work", "ocalled", "clear"},
           back = IF pc[n] = "ocalled" THEN "ocall" ELSE pc[n],
           pc[n] # "clear" => call[n].rpcs > 0,
           pc[n] = "clear" => op = "pfree", op = "palloc" => shm_cache[n] = NoBuffer,
           op \in {"pfree", "evict"} => shm_cache[n] # NoBuffer
    PROVE  Keeps(n)
<1> DEFINE frees == op \in {"pfree", "evict"}
           b == IF frees THEN shm_cache[n] ELSE call[n].drop
<1>0. cpu[c] = "run" /\ curr_thread[c] = n
  BY DEF GetRpcArg, Go, Ask, Leave
<1>1. PICK k \in Locals : k = call[n] /\ DataType /\ DataOK(n)
  BY DEF LoanInv, DataType
<1>2. /\ frees \in BOOLEAN /\ (frees <=> op \in {"pfree", "evict"})
      /\ b = (IF frees THEN shm_cache[n] ELSE call[n].drop)
      /\ asked[n].op \notin {"free", "pfree"} /\ answer[n].co = NoBuffer
      /\ b \in Bufs
  <2>1. CASE pc[n] = "ocalled"
    BY <1>0, <1>1, <2>1, Running, Fields DEF DataOK, AskedOK, AfterRpc
  <2>2. CASE pc[n] # "ocalled"
    BY <1>0, <1>1, <2>2, Running, Constants, Fields DEF AfterRpc
  <2> QED
    BY <2>1, <2>2
<1> HIDE DEF frees, b
<1>3. CASE rpc_arg[n] = NoBuffer
  <2> DEFINE r == Rpc("alloc", NoBuffer)
             v == IF back = "clear" THEN k.rpcs ELSE k.rpcs - 1
             l == [k EXCEPT !.next = op, !.back = back, !.rpcs = v, !.drop = b]
  <2>1. Ask(c, n, r, "alloced") /\ r \in Rpcs /\ r.op = "alloc" /\ r.co = NoBuffer
    BY <1>0, <1>1, <1>2, <1>3, Constants, Fields DEF GetRpcArg, frees, b, Ops, Bufs
  <2>3. Data(n, rpc_arg[n], rpc_mobj[n], (IF frees THEN NoBuffer ELSE shm_cache[n]), l)
    BY <1>0, <1>1, <1>2, <1>3 DEF GetRpcArg, frees, b, Data, DataType, bufs, Set, SetCall
  <2>v. v \in 0 .. MaxRpcs
    BY <1>0, <1>1, <1>2, <1>3, Fields, CoresThreads
  <2> HIDE DEF r, v
  <2>l. l \in Locals
    BY <1>1, <1>2, <2>v, ZenonT(60) DEF Locals
  <2>2. l \in Locals /\ l.ok = k.ok /\ l.supplied = k.supplied /\ l.next = op
        /\ l.back = back /\ l.drop = b /\ l.saved = k.saved
    BY <1>1, <2>l DEF Locals
  <2> HIDE DEF l
  <2>4. /\ rpc_arg'[n] = rpc_arg[n] /\ rpc_mobj'[n] = rpc_mobj[n]
        /\ shm_cache'[n] = (IF frees THEN NoBuffer ELSE shm_cache[n]) /\ call'[n] = l
        /\ thread_prealloc_rpc_cache' = thread_prealloc_rpc_cache
    BY <1>0, <1>1, <1>2, <1>3, <2>3 DEF Data, DataType
  <2>5. pc'[n] = "alloced" /\ asked'[n] = r /\ answer'[n] = NoAnswer
    BY <2>1 DEF Ask, LoanInv, ControlOK, ControlType
  <2>6. DataOK(n)'
    <3>1. ArgOK(n)'
      BY <1>0, <1>1, <1>2, <1>3, <2>1, <2>2, <2>4, <2>5, Constants, BuffersOK DEF DataOK,
           ArgOK, InLoop, CommandOK, AskedOK, OwnOK, Ends
    <3>2. CommandOK(n)'
      BY <1>0, <1>1, <1>2, <1>3, <2>1, <2>2, <2>4, <2>5, Constants, BuffersOK DEF DataOK,
           ArgOK, InLoop, CommandOK, AskedOK, OwnOK, Ends
    <3>3. AskedOK(n)'
      BY <1>0, <1>1, <1>2, <1>3, <2>1, <2>2, <2>4, <2>5, Constants, BuffersOK DEF DataOK,
           ArgOK, InLoop, CommandOK, AskedOK, OwnOK, Ends
    <3>4. OwnOK(n)'
      BY <1>0, <1>1, <1>2, <1>3, <2>1, <2>2, <2>4, <2>5, Constants, BuffersOK DEF DataOK,
           ArgOK, InLoop, CommandOK, AskedOK, OwnOK, Ends
    <3> QED
      BY <3>1, <3>2, <3>3, <3>4 DEF DataOK
  <2>7. SameDebt(n)
    BY <1>0, <1>1, <1>2, <1>3, <2>1, <2>2, <2>4, <2>5, Constants DEF SameDebt, Owes,
         DataOK, ArgOK, InLoop, CommandOK, AskedOK, OwnOK, Ends
  <2>8. rpc_arg[n] \in Bufs \cup {Supplied} /\ rpc_mobj[n] \in Bufs
        /\ (IF frees THEN NoBuffer ELSE shm_cache[n]) \in Bufs
    BY <1>0, <1>1, <1>2, <1>3, <2>1, Fields DEF Bufs
  <2>9. "alloced" \in AfterRpc
    BY <1>0, <1>1, <1>2, <1>3 DEF Pcs, AfterRpc, Masked
  <2> QED
    BY <1>1, <2>1, <2>3, <2>2, <2>6, <2>7, <2>8, <2>9, AskKeeps
<1>4. CASE rpc_arg[n] # NoBuffer
  <2> DEFINE v == IF back = "clear" THEN k.rpcs ELSE k.rpcs - 1
             l == [k EXCEPT !.next = op, !.back = back, !.rpcs = v, !.drop = b]
  <2>1. Go(c, n, "send")
    BY <1>0, <1>1, <1>2, <1>4 DEF GetRpcArg, frees, b
  <2>3. Data(n, rpc_arg[n], rpc_mobj[n], (IF frees THEN NoBuffer ELSE shm_cache[n]), l)
    BY <1>0, <1>1, <1>2, <1>4 DEF GetRpcArg, frees, b, Data, DataType, bufs, Set, SetCall
  <2>v. v \in 0 .. MaxRpcs
    BY <1>0, <1>1, <1>2, <1>4, Fields, CoresThreads
  <2> HIDE DEF v
  <2>l. l \in Locals
    BY <1>1, <1>2, <2>v, ZenonT(60) DEF Locals
  <2>2. l \in Locals /\ l.ok = k.ok /\ l.supplied = k.supplied /\ l.next = op
        /\ l.back = back /\ l.drop = b /\ l.saved = k.saved
    BY <1>1, <2>l DEF Locals
  <2> HIDE DEF l
  <2>4. /\ rpc_arg'[n] = rpc_arg[n] /\ rpc_mobj'[n] = rpc_mobj[n]
        /\ shm_cache'[n] = (IF frees THEN NoBuffer ELSE shm_cache[n]) /\ call'[n] = l
        /\ thread_prealloc_rpc_cache' = thread_prealloc_rpc_cache
    BY <1>0, <1>1, <1>2, <1>4, <2>3 DEF Data, DataType
  <2>5. pc'[n] = "send" /\ asked'[n] = NoRpc /\ answer'[n] = NoAnswer
    BY <2>1 DEF Go, LoanInv, ControlOK, ControlType
  <2>6. DataOK(n)'
    <3>1. ArgOK(n)'
      BY <1>0, <1>1, <1>2, <1>4, <2>1, <2>2, <2>4, <2>5, Constants, BuffersOK DEF DataOK,
           ArgOK, InLoop, CommandOK, AskedOK, OwnOK, Ends
    <3>2. CommandOK(n)'
      BY <1>0, <1>1, <1>2, <1>4, <2>1, <2>2, <2>4, <2>5, Constants, BuffersOK DEF DataOK,
           ArgOK, InLoop, CommandOK, AskedOK, OwnOK, Ends
    <3>3. AskedOK(n)'
      BY <1>0, <1>1, <1>2, <1>4, <2>1, <2>2, <2>4, <2>5, Constants, BuffersOK DEF DataOK,
           ArgOK, InLoop, CommandOK, AskedOK, OwnOK, Ends
    <3>4. OwnOK(n)'
      BY <1>0, <1>1, <1>2, <1>4, <2>1, <2>2, <2>4, <2>5, Constants, BuffersOK DEF DataOK,
           ArgOK, InLoop, CommandOK, AskedOK, OwnOK, Ends
    <3> QED
      BY <3>1, <3>2, <3>3, <3>4 DEF DataOK
  <2>7. SameDebt(n)
    BY <1>0, <1>1, <1>2, <1>4, <2>1, <2>2, <2>4, <2>5, Constants DEF SameDebt, Owes,
         DataOK, ArgOK, InLoop, CommandOK, AskedOK, OwnOK, Ends
  <2>8. rpc_arg[n] \in Bufs \cup {Supplied} /\ rpc_mobj[n] \in Bufs
        /\ (IF frees THEN NoBuffer ELSE shm_cache[n]) \in Bufs
    BY <1>0, <1>1, <1>2, <1>4, Fields DEF Bufs
  <2>9. "send" \in Pcs \ (AfterRpc \cup {"free"})
    BY <1>0, <1>1, <1>2, <1>4 DEF Pcs, AfterRpc, Masked
  <2> QED
    BY <1>1, <2>1, <2>3, <2>2, <2>6, <2>7, <2>8, <2>9, GoKeeps
<1> QED
  BY <1>3, <1>4

\* The request is done.
LEMMA DoneKeeps ==
    ASSUME LoanInv, NEW c \in Cores, NEW n \in Threads, pc[n] = "work",
           Go(c, n, "clear"), UNCHANGED <<bufs, call>>
    PROVE  Keeps(n)
<1>0. cpu[c] = "run" /\ curr_thread[c] = n /\ pc[n] = "work"
  BY DEF Go, Go, Ask, AskFree, Leave
<1>1. PICK k \in Locals : k = call[n] /\ DataType /\ DataOK(n)
  BY DEF LoanInv, DataType
<1>2. asked[n] = NoRpc /\ answer[n] = NoAnswer
  BY <1>0, Running DEF AfterRpc
<1>3. Keeps(n)
  <2>1. Go(c, n, "clear")
    BY <1>0, <1>1, <1>2 DEF bufs
  <2>3. Data(n, rpc_arg[n], rpc_mobj[n], shm_cache[n], call[n])
    BY <1>0, <1>1, <1>2 DEF bufs, Data, DataType, bufs, Set, SetCall
  <2>4. /\ rpc_arg'[n] = rpc_arg[n] /\ rpc_mobj'[n] = rpc_mobj[n]
        /\ shm_cache'[n] = shm_cache[n] /\ call'[n] = call[n]
        /\ thread_prealloc_rpc_cache' = thread_prealloc_rpc_cache
    BY <1>0, <1>1, <1>2, <2>3 DEF Data, DataType
  <2>5. pc'[n] = "clear" /\ asked'[n] = NoRpc /\ answer'[n] = NoAnswer
    BY <2>1 DEF Go, LoanInv, ControlOK, ControlType
  <2>6. DataOK(n)'
    BY <1>0, <1>1, <1>2, <2>1, <2>4, <2>5, Constants, BuffersOK DEF DataOK, ArgOK, InLoop,
         CommandOK, AskedOK, OwnOK, Ends
  <2>7. SameDebt(n)
    BY <1>0, <1>1, <1>2, <2>1, <2>4, <2>5, Constants DEF SameDebt, Owes, DataOK, ArgOK,
         InLoop, CommandOK, AskedOK, OwnOK, Ends
  <2>8. rpc_arg[n] \in Bufs \cup {Supplied} /\ rpc_mobj[n] \in Bufs /\ shm_cache[n] \in Bufs
    BY <1>0, <1>1, <1>2, Fields DEF Bufs
  <2>9. "clear" \in Pcs \ (AfterRpc \cup {"free"})
    BY <1>0, <1>1, <1>2 DEF Pcs, AfterRpc, Masked
  <2> QED
    BY <1>1, <2>1, <2>3, <2>6, <2>7, <2>8, <2>9, GoKeeps
<1> QED
  BY <1>3

\* The request makes an RPC, or is done.
LEMMA WorkKeeps ==
    ASSUME LoanInv, NEW c \in Cores, NEW n \in Threads, Work(c, n)
    PROVE  Keeps(n)
<1>0. pc[n] = "work"
  BY DEF Work
<1>1. CASE call[n].rpcs > 0 /\ GetRpcArg(c, n, "cmd", "work")
  BY <1>0, <1>1, GetRpcArgKeeps
<1>2. CASE call[n].rpcs > 0 /\ shm_cache[n] = NoBuffer /\ GetRpcArg(c, n, "palloc", "work")
  BY <1>0, <1>2, GetRpcArgKeeps
<1>3. CASE call[n].rpcs > 0 /\ shm_cache[n] # NoBuffer /\ GetRpcArg(c, n, "evict", "work")
  BY <1>0, <1>3, GetRpcArgKeeps
<1>4. CASE call[n].rpcs > 0 /\ Prepare(c, n)
  BY <1>0, <1>4, PrepareKeeps
<1>5. CASE Go(c, n, "clear") /\ UNCHANGED <<bufs, call>>
  BY <1>0, <1>5, DoneKeeps
<1> QED
  BY <1>1, <1>2, <1>3, <1>4, <1>5 DEF Work

\* thread_rpc_alloc_arg() returns.
LEMMA AllocedKeeps ==
    ASSUME LoanInv, NEW c \in Cores, NEW n \in Threads, Alloced(c, n)
    PROVE  Keeps(n)
<1>0. cpu[c] = "run" /\ curr_thread[c] = n /\ pc[n] = "alloced"
  BY DEF Alloced, Go, Ask, AskFree, Leave
<1>1. PICK k \in Locals : k = call[n] /\ DataType /\ DataOK(n)
  BY DEF LoanInv, DataType
<1>2. x[n] = answer[n] /\ answer[n] \in Answers /\ answer[n] # NoAnswer
  BY <1>0, Running DEF AfterRpc
<1> DEFINE s == IF call[n].next = "prepare" THEN rpc_arg[n] ELSE call[n].saved
           to == IF call[n].next = "prepare" THEN "ocall" ELSE "send"
<1>s. s \in Bufs \cup {Supplied}
      /\ (s = IF call[n].next = "prepare" THEN rpc_arg[n] ELSE call[n].saved)
      /\ (to = IF call[n].next = "prepare" THEN "ocall" ELSE "send")
         /\ asked[n].op = "alloc"
      /\ answer[n].co \in Bufs
  BY <1>0, <1>1, <1>2, Fields DEF DataOK, AskedOK
<1> HIDE DEF s, to
<1>3. CASE x[n].ok
  <2> DEFINE l == [k EXCEPT !.saved = s]
  <2>1. Go(c, n, to)
    BY <1>0, <1>1, <1>2, <1>s, <1>3 DEF Alloced, s, to
  <2>3. Data(n, x[n].co, x[n].co, shm_cache[n], l)
    BY <1>0, <1>1, <1>2, <1>s, <1>3 DEF Alloced, s, to, Data, DataType, bufs, Set, SetCall
  <2>l. l \in Locals
    BY <1>1, <1>2, <1>s, ZenonT(60) DEF Locals
  <2>2. l \in Locals /\ l.ok = k.ok /\ l.supplied = k.supplied /\ l.next = k.next
        /\ l.back = k.back /\ l.drop = k.drop /\ l.saved = s
    BY <1>1, <2>l DEF Locals
  <2> HIDE DEF l
  <2>4. /\ rpc_arg'[n] = x[n].co /\ rpc_mobj'[n] = x[n].co
        /\ shm_cache'[n] = shm_cache[n] /\ call'[n] = l
        /\ thread_prealloc_rpc_cache' = thread_prealloc_rpc_cache
    BY <1>0, <1>1, <1>2, <1>s, <1>3, <2>3 DEF Data, DataType
  <2>5. pc'[n] = to /\ asked'[n] = NoRpc /\ answer'[n] = NoAnswer
    BY <2>1 DEF Go, LoanInv, ControlOK, ControlType
  <2>6. DataOK(n)'
    <3>1. ArgOK(n)'
      BY <1>0, <1>1, <1>2, <1>s, <1>3, <2>1, <2>2, <2>4, <2>5, Constants,
           BuffersOK DEF DataOK, ArgOK, InLoop, CommandOK, AskedOK, OwnOK, Ends
    <3>2. CommandOK(n)'
      BY <1>0, <1>1, <1>2, <1>s, <1>3, <2>1, <2>2, <2>4, <2>5, Constants,
           BuffersOK DEF DataOK, ArgOK, InLoop, CommandOK, AskedOK, OwnOK, Ends
    <3>3. AskedOK(n)'
      BY <1>0, <1>1, <1>2, <1>s, <1>3, <2>1, <2>2, <2>4, <2>5, Constants,
           BuffersOK DEF DataOK, ArgOK, InLoop, CommandOK, AskedOK, OwnOK, Ends
    <3>4. OwnOK(n)'
      BY <1>0, <1>1, <1>2, <1>s, <1>3, <2>1, <2>2, <2>4, <2>5, Constants,
           BuffersOK DEF DataOK, ArgOK, InLoop, CommandOK, AskedOK, OwnOK, Ends
    <3> QED
      BY <3>1, <3>2, <3>3, <3>4 DEF DataOK
  <2>7. SameDebt(n)
    BY <1>0, <1>1, <1>2, <1>s, <1>3, <2>1, <2>2, <2>4, <2>5, Constants DEF SameDebt, Owes,
         DataOK, ArgOK, InLoop, CommandOK, AskedOK, OwnOK, Ends
  <2>8. x[n].co \in Bufs \cup {Supplied} /\ x[n].co \in Bufs /\ shm_cache[n] \in Bufs
    BY <1>0, <1>1, <1>2, <1>s, <1>3, Fields DEF Bufs
  <2>9. to \in Pcs \ (AfterRpc \cup {"free"})
    BY <1>0, <1>1, <1>2, <1>s, <1>3 DEF Pcs, AfterRpc, Masked
  <2> QED
    BY <1>1, <2>1, <2>3, <2>2, <2>6, <2>7, <2>8, <2>9, GoKeeps
<1>4. CASE ~x[n].ok /\ x[n].co # NoBuffer
  <2> DEFINE r == Rpc("free", x[n].co)
  <2>1. Ask(c, n, r, "dropped") /\ r \in Rpcs /\ r.op = "free" /\ r.co = x[n].co
    BY <1>0, <1>1, <1>2, <1>s, <1>4, Constants, Fields DEF Alloced, AskFree, Ops, Bufs
  <2>3. Data(n, rpc_arg[n], rpc_mobj[n], shm_cache[n], call[n])
    BY <1>0, <1>1, <1>2, <1>s, <1>4 DEF Alloced, AskFree, Data, DataType, bufs, Set, SetCall
  <2> HIDE DEF r
  <2>4. /\ rpc_arg'[n] = rpc_arg[n] /\ rpc_mobj'[n] = rpc_mobj[n]
        /\ shm_cache'[n] = shm_cache[n] /\ call'[n] = call[n]
        /\ thread_prealloc_rpc_cache' = thread_prealloc_rpc_cache
    BY <1>0, <1>1, <1>2, <1>s, <1>4, <2>3 DEF Data, DataType
  <2>5. pc'[n] = "dropped" /\ asked'[n] = r /\ answer'[n] = NoAnswer
    BY <2>1 DEF Ask, LoanInv, ControlOK, ControlType
  <2>6. DataOK(n)'
    <3>1. ArgOK(n)'
      BY <1>0, <1>1, <1>2, <1>s, <1>4, <2>1, <2>4, <2>5, Constants, BuffersOK DEF DataOK,
           ArgOK, InLoop, CommandOK, AskedOK, OwnOK, Ends
    <3>2. CommandOK(n)'
      BY <1>0, <1>1, <1>2, <1>s, <1>4, <2>1, <2>4, <2>5, Constants, BuffersOK DEF DataOK,
           ArgOK, InLoop, CommandOK, AskedOK, OwnOK, Ends
    <3>3. AskedOK(n)'
      BY <1>0, <1>1, <1>2, <1>s, <1>4, <2>1, <2>4, <2>5, Constants, BuffersOK DEF DataOK,
           ArgOK, InLoop, CommandOK, AskedOK, OwnOK, Ends
    <3>4. OwnOK(n)'
      BY <1>0, <1>1, <1>2, <1>s, <1>4, <2>1, <2>4, <2>5, Constants, BuffersOK DEF DataOK,
           ArgOK, InLoop, CommandOK, AskedOK, OwnOK, Ends
    <3> QED
      BY <3>1, <3>2, <3>3, <3>4 DEF DataOK
  <2>7. SameDebt(n)
    BY <1>0, <1>1, <1>2, <1>s, <1>4, <2>1, <2>4, <2>5, Constants DEF SameDebt, Owes,
         DataOK, ArgOK, InLoop, CommandOK, AskedOK, OwnOK, Ends
  <2>8. rpc_arg[n] \in Bufs \cup {Supplied} /\ rpc_mobj[n] \in Bufs /\ shm_cache[n] \in Bufs
    BY <1>0, <1>1, <1>2, <1>s, <1>4, <2>1, Fields DEF Bufs
  <2>9. "dropped" \in AfterRpc
    BY <1>0, <1>1, <1>2, <1>s, <1>4 DEF Pcs, AfterRpc, Masked
  <2> QED
    BY <1>1, <2>1, <2>3, <2>6, <2>7, <2>8, <2>9, AskKeeps
<1>5. CASE ~x[n].ok /\ x[n].co = NoBuffer
  <2>1. Go(c, n, call[n].back)
    BY <1>0, <1>1, <1>2, <1>s, <1>5 DEF Alloced
  <2>3. Data(n, rpc_arg[n], rpc_mobj[n], shm_cache[n], call[n])
    BY <1>0, <1>1, <1>2, <1>s, <1>5 DEF Alloced, Data, DataType, bufs, Set, SetCall
  <2>4. /\ rpc_arg'[n] = rpc_arg[n] /\ rpc_mobj'[n] = rpc_mobj[n]
        /\ shm_cache'[n] = shm_cache[n] /\ call'[n] = call[n]
        /\ thread_prealloc_rpc_cache' = thread_prealloc_rpc_cache
    BY <1>0, <1>1, <1>2, <1>s, <1>5, <2>3 DEF Data, DataType
  <2>5. pc'[n] = call[n].back /\ asked'[n] = NoRpc /\ answer'[n] = NoAnswer
    BY <2>1 DEF Go, LoanInv, ControlOK, ControlType
  <2>6. DataOK(n)'
    BY <1>0, <1>1, <1>2, <1>s, <1>5, <2>1, <2>4, <2>5, Constants, BuffersOK DEF DataOK,
         ArgOK, InLoop, CommandOK, AskedOK, OwnOK, Ends
  <2>7. SameDebt(n)
    BY <1>0, <1>1, <1>2, <1>s, <1>5, <2>1, <2>4, <2>5, Constants DEF SameDebt, Owes,
         DataOK, ArgOK, InLoop, CommandOK, AskedOK, OwnOK, Ends
  <2>8. rpc_arg[n] \in Bufs \cup {Supplied} /\ rpc_mobj[n] \in Bufs /\ shm_cache[n] \in Bufs
    BY <1>0, <1>1, <1>2, <1>s, <1>5, Fields DEF Bufs
  <2>9. call[n].back \in Pcs \ (AfterRpc \cup {"free"})
    BY <1>0, <1>1, <1>2, <1>s, <1>5 DEF Pcs, AfterRpc, Masked, DataOK, CommandOK
  <2> QED
    BY <1>1, <2>1, <2>3, <2>6, <2>7, <2>8, <2>9, GoKeeps
<1> QED
  BY <1>3, <1>4, <1>5

\* A buffer that cannot be used was given back.
LEMMA DroppedKeeps ==
    ASSUME LoanInv, NEW c \in Cores, NEW n \in Threads, Dropped(c, n)
    PROVE  Keeps(n)
<1>0. cpu[c] = "run" /\ curr_thread[c] = n /\ pc[n] = "dropped"
  BY DEF Dropped, Go, Ask, AskFree, Leave
<1>1. PICK k \in Locals : k = call[n] /\ DataType /\ DataOK(n)
  BY DEF LoanInv, DataType
<1>2. x[n] = answer[n] /\ answer[n] \in Answers /\ answer[n] # NoAnswer
  BY <1>0, Running DEF AfterRpc
<1>3. Keeps(n)
  <2>1. Go(c, n, call[n].back)
    BY <1>0, <1>1, <1>2 DEF Dropped
  <2>3. Data(n, rpc_arg[n], rpc_mobj[n], shm_cache[n], call[n])
    BY <1>0, <1>1, <1>2 DEF Dropped, Data, DataType, bufs, Set, SetCall
  <2>4. /\ rpc_arg'[n] = rpc_arg[n] /\ rpc_mobj'[n] = rpc_mobj[n]
        /\ shm_cache'[n] = shm_cache[n] /\ call'[n] = call[n]
        /\ thread_prealloc_rpc_cache' = thread_prealloc_rpc_cache
    BY <1>0, <1>1, <1>2, <2>3 DEF Data, DataType
  <2>5. pc'[n] = call[n].back /\ asked'[n] = NoRpc /\ answer'[n] = NoAnswer
    BY <2>1 DEF Go, LoanInv, ControlOK, ControlType
  <2>6. DataOK(n)'
    BY <1>0, <1>1, <1>2, <2>1, <2>4, <2>5, Constants, BuffersOK DEF DataOK, ArgOK, InLoop,
         CommandOK, AskedOK, OwnOK, Ends
  <2>7. SameDebt(n)
    BY <1>0, <1>1, <1>2, <2>1, <2>4, <2>5, Constants DEF SameDebt, Owes, DataOK, ArgOK,
         InLoop, CommandOK, AskedOK, OwnOK, Ends
  <2>8. rpc_arg[n] \in Bufs \cup {Supplied} /\ rpc_mobj[n] \in Bufs /\ shm_cache[n] \in Bufs
    BY <1>0, <1>1, <1>2, Fields DEF Bufs
  <2>9. call[n].back \in Pcs \ (AfterRpc \cup {"free"})
    BY <1>0, <1>1, <1>2 DEF Pcs, AfterRpc, Masked, DataOK, CommandOK
  <2> QED
    BY <1>1, <2>1, <2>3, <2>6, <2>7, <2>8, <2>9, GoKeeps
<1> QED
  BY <1>3

\* The command is sent, or is not.
LEMMA SendKeeps ==
    ASSUME LoanInv, NEW c \in Cores, NEW n \in Threads, Send(c, n)
    PROVE  Keeps(n)
<1>0. cpu[c] = "run" /\ curr_thread[c] = n /\ pc[n] = "send"
  BY DEF Send, Go, Ask, AskFree, Leave
<1>1. PICK k \in Locals : k = call[n] /\ DataType /\ DataOK(n)
  BY DEF LoanInv, DataType
<1>2. asked[n] = NoRpc /\ answer[n] = NoAnswer
  BY <1>0, Running DEF AfterRpc
<1>o. call[n].back \in {"work", "ocall", "clear"}
      /\ call[n].next \in {"cmd", "palloc", "pfree", "evict"}
  BY <1>0, <1>1, <1>2, Fields DEF DataOK, CommandOK, Locals
<1>3. CASE Ask(c, n, [op |-> IF call[n].next = "evict" THEN "pfree" ELSE call[n].next,
                  co |-> call[n].drop, arg |-> rpc_arg[n], carg |-> rpc_mobj[n]], "sent")
  <2> DEFINE r == [op |-> IF call[n].next = "evict" THEN "pfree" ELSE call[n].next,
                  co |-> call[n].drop, arg |-> rpc_arg[n], carg |-> rpc_mobj[n]]
  <2>1. Ask(c, n, r, "sent") /\ r \in Rpcs
        /\ r.op = (IF call[n].next = "evict" THEN "pfree" ELSE call[n].next)
        /\ r.co = call[n].drop /\ r.arg = rpc_arg[n] /\ r.carg = rpc_mobj[n]
    BY <1>0, <1>1, <1>2, <1>o, <1>3, Constants, Fields DEF Send, Ops, Bufs, Rpcs
  <2>3. Data(n, rpc_arg[n], rpc_mobj[n], shm_cache[n], call[n])
    BY <1>0, <1>1, <1>2, <1>o, <1>3 DEF Send, Data, DataType, bufs, Set, SetCall
  <2> HIDE DEF r
  <2>4. /\ rpc_arg'[n] = rpc_arg[n] /\ rpc_mobj'[n] = rpc_mobj[n]
        /\ shm_cache'[n] = shm_cache[n] /\ call'[n] = call[n]
        /\ thread_prealloc_rpc_cache' = thread_prealloc_rpc_cache
    BY <1>0, <1>1, <1>2, <1>o, <1>3, <2>3 DEF Data, DataType
  <2>5. pc'[n] = "sent" /\ asked'[n] = r /\ answer'[n] = NoAnswer
    BY <2>1 DEF Ask, LoanInv, ControlOK, ControlType
  <2>6. DataOK(n)'
    <3>1. ArgOK(n)'
      BY <1>0, <1>1, <1>2, <1>o, <1>3, <2>1, <2>4, <2>5, Constants, BuffersOK DEF DataOK,
           ArgOK, InLoop, CommandOK, AskedOK, OwnOK, Ends
    <3>2. CommandOK(n)'
      BY <1>0, <1>1, <1>2, <1>o, <1>3, <2>1, <2>4, <2>5, Constants, BuffersOK DEF DataOK,
           ArgOK, InLoop, CommandOK, AskedOK, OwnOK, Ends
    <3>3. AskedOK(n)'
      BY <1>0, <1>1, <1>2, <1>o, <1>3, <2>1, <2>4, <2>5, Constants, BuffersOK DEF DataOK,
           ArgOK, InLoop, CommandOK, AskedOK, OwnOK, Ends
    <3>4. OwnOK(n)'
      BY <1>0, <1>1, <1>2, <1>o, <1>3, <2>1, <2>4, <2>5, Constants, BuffersOK DEF DataOK,
           ArgOK, InLoop, CommandOK, AskedOK, OwnOK, Ends
    <3> QED
      BY <3>1, <3>2, <3>3, <3>4 DEF DataOK
  <2>7. SameDebt(n)
    BY <1>0, <1>1, <1>2, <1>o, <1>3, <2>1, <2>4, <2>5, Constants DEF SameDebt, Owes,
         DataOK, ArgOK, InLoop, CommandOK, AskedOK, OwnOK, Ends
  <2>8. rpc_arg[n] \in Bufs \cup {Supplied} /\ rpc_mobj[n] \in Bufs /\ shm_cache[n] \in Bufs
    BY <1>0, <1>1, <1>2, <1>o, <1>3, <2>1, Fields DEF Bufs
  <2>9. "sent" \in AfterRpc
    BY <1>0, <1>1, <1>2, <1>o, <1>3 DEF Pcs, AfterRpc, Masked
  <2> QED
    BY <1>1, <2>1, <2>3, <2>6, <2>7, <2>8, <2>9, AskKeeps
<1>4. CASE call[n].next = "cmd" /\ Go(c, n, call[n].back)
  <2>1. Go(c, n, call[n].back)
    BY <1>0, <1>1, <1>2, <1>o, <1>4 DEF Send
  <2>3. Data(n, rpc_arg[n], rpc_mobj[n], shm_cache[n], call[n])
    BY <1>0, <1>1, <1>2, <1>o, <1>4 DEF Send, Data, DataType, bufs, Set, SetCall
  <2>4. /\ rpc_arg'[n] = rpc_arg[n] /\ rpc_mobj'[n] = rpc_mobj[n]
        /\ shm_cache'[n] = shm_cache[n] /\ call'[n] = call[n]
        /\ thread_prealloc_rpc_cache' = thread_prealloc_rpc_cache
    BY <1>0, <1>1, <1>2, <1>o, <1>4, <2>3 DEF Data, DataType
  <2>5. pc'[n] = call[n].back /\ asked'[n] = NoRpc /\ answer'[n] = NoAnswer
    BY <2>1 DEF Go, LoanInv, ControlOK, ControlType
  <2>6. DataOK(n)'
    BY <1>0, <1>1, <1>2, <1>o, <1>4, <2>1, <2>4, <2>5, Constants, BuffersOK DEF DataOK,
         ArgOK, InLoop, CommandOK, AskedOK, OwnOK, Ends
  <2>7. SameDebt(n)
    BY <1>0, <1>1, <1>2, <1>o, <1>4, <2>1, <2>4, <2>5, Constants DEF SameDebt, Owes,
         DataOK, ArgOK, InLoop, CommandOK, AskedOK, OwnOK, Ends
  <2>8. rpc_arg[n] \in Bufs \cup {Supplied} /\ rpc_mobj[n] \in Bufs /\ shm_cache[n] \in Bufs
    BY <1>0, <1>1, <1>2, <1>o, <1>4, Fields DEF Bufs
  <2>9. call[n].back \in Pcs \ (AfterRpc \cup {"free"})
    BY <1>0, <1>1, <1>2, <1>o, <1>4 DEF Pcs, AfterRpc, Masked
  <2> QED
    BY <1>1, <2>1, <2>3, <2>6, <2>7, <2>8, <2>9, GoKeeps
<1> QED
  BY <1>3, <1>4 DEF Send

\* The command returns.
LEMMA SentKeeps ==
    ASSUME LoanInv, NEW c \in Cores, NEW n \in Threads, Sent(c, n)
    PROVE  Keeps(n)
<1>0. cpu[c] = "run" /\ curr_thread[c] = n /\ pc[n] = "sent"
  BY DEF Sent, Go, Ask, AskFree, Leave
<1>1. PICK k \in Locals : k = call[n] /\ DataType /\ DataOK(n)
  BY DEF LoanInv, DataType
<1>2. x[n] = answer[n] /\ answer[n] \in Answers /\ answer[n] # NoAnswer
  BY <1>0, Running DEF AfterRpc
<1> DEFINE next == call[n].next
           bad == next = "palloc" /\ x[n].co # NoBuffer /\ ~x[n].ok
           nx == IF bad THEN "pfree" ELSE IF next = "evict" THEN "palloc" ELSE next
           b == IF bad THEN x[n].co ELSE NoBuffer
           to == IF bad \/ next = "evict" THEN "send" ELSE call[n].back
           sc == IF next = "palloc" /\ x[n].ok THEN x[n].co ELSE shm_cache[n]
<1>3. /\ Go(c, n, to) /\ SetCall(n, [call[n] EXCEPT !.next = nx, !.drop = b])
      /\ shm_cache' = IF next = "palloc"
         /\ x[n].ok THEN Set(shm_cache, n, x[n].co) ELSE shm_cache
      /\ UNCHANGED <<rpc_arg, rpc_mobj, thread_prealloc_rpc_cache, lent>>
  BY DEF Sent
<1>4. /\ next \in {"cmd", "palloc", "pfree", "evict"}
         /\ call[n].back \in {"work", "ocall", "clear"}
      /\ answer[n].co \in Bufs /\ answer[n].ok \in BOOLEAN /\ NoBuffer \in Bufs
  BY <1>0, <1>1, <1>2, Fields DEF DataOK, CommandOK, Locals, Bufs
<1>5. /\ (bad <=> next = "palloc" /\ x[n].co # NoBuffer /\ ~x[n].ok)
      /\ (nx = IF bad THEN "pfree" ELSE IF next = "evict" THEN "palloc" ELSE next)
      /\ (b = IF bad THEN x[n].co ELSE NoBuffer)
      /\ (to = IF bad \/ next = "evict" THEN "send" ELSE call[n].back)
      /\ (sc = IF next = "palloc" /\ x[n].ok THEN x[n].co ELSE shm_cache[n])
      /\ b \in Bufs /\ sc \in Bufs /\ nx \in {"cmd", "palloc", "pfree", "evict"}
  BY <1>1, <1>2, <1>4, Fields
<1> HIDE DEF bad, nx, b, to, sc
<1>6. Keeps(n)
  <2> DEFINE l == [k EXCEPT !.next = nx, !.drop = b]
  <2>1. Go(c, n, to)
    BY <1>0, <1>1, <1>2, <1>3, <1>4, <1>5 DEF next
  <2>3. Data(n, rpc_arg[n], rpc_mobj[n], sc, l)
    BY <1>0, <1>1, <1>2, <1>3, <1>4, <1>5 DEF next, Data, DataType, bufs, Set, SetCall
  <2>l. l \in Locals
    BY <1>1, <1>2, <1>5, ZenonT(60) DEF Locals
  <2>2. l \in Locals /\ l.ok = k.ok /\ l.supplied = k.supplied /\ l.next = nx
        /\ l.back = k.back /\ l.drop = b /\ l.saved = k.saved
    BY <1>1, <2>l DEF Locals
  <2> HIDE DEF l
  <2>4. /\ rpc_arg'[n] = rpc_arg[n] /\ rpc_mobj'[n] = rpc_mobj[n]
        /\ shm_cache'[n] = sc /\ call'[n] = l
        /\ thread_prealloc_rpc_cache' = thread_prealloc_rpc_cache
    BY <1>0, <1>1, <1>2, <1>3, <1>4, <1>5, <2>3 DEF Data, DataType
  <2>5. pc'[n] = to /\ asked'[n] = NoRpc /\ answer'[n] = NoAnswer
    BY <2>1 DEF Go, LoanInv, ControlOK, ControlType
  <2>6. DataOK(n)'
    <3>1. ArgOK(n)'
      BY <1>0, <1>1, <1>2, <1>3, <1>4, <1>5, <2>1, <2>2, <2>4, <2>5, Constants,
           BuffersOK DEF DataOK, ArgOK, InLoop, CommandOK, AskedOK, OwnOK, Ends
    <3>2. CommandOK(n)'
      BY <1>0, <1>1, <1>2, <1>3, <1>4, <1>5, <2>1, <2>2, <2>4, <2>5, Constants,
           BuffersOK DEF DataOK, ArgOK, InLoop, CommandOK, AskedOK, OwnOK, Ends
    <3>3. AskedOK(n)'
      BY <1>0, <1>1, <1>2, <1>3, <1>4, <1>5, <2>1, <2>2, <2>4, <2>5, Constants,
           BuffersOK DEF DataOK, ArgOK, InLoop, CommandOK, AskedOK, OwnOK, Ends
    <3>4. OwnOK(n)'
      BY <1>0, <1>1, <1>2, <1>3, <1>4, <1>5, <2>1, <2>2, <2>4, <2>5, Constants,
           BuffersOK DEF DataOK, ArgOK, InLoop, CommandOK, AskedOK, OwnOK, Ends
    <3> QED
      BY <3>1, <3>2, <3>3, <3>4 DEF DataOK
  <2>7. SameDebt(n)
    BY <1>0, <1>1, <1>2, <1>3, <1>4, <1>5, <2>1, <2>2, <2>4, <2>5, Constants DEF SameDebt,
         Owes, DataOK, ArgOK, InLoop, CommandOK, AskedOK, OwnOK, Ends
  <2>8. rpc_arg[n] \in Bufs \cup {Supplied} /\ rpc_mobj[n] \in Bufs /\ sc \in Bufs
    BY <1>0, <1>1, <1>2, <1>3, <1>4, <1>5, Fields DEF Bufs
  <2>9. to \in Pcs \ (AfterRpc \cup {"free"})
    BY <1>0, <1>1, <1>2, <1>3, <1>4, <1>5 DEF Pcs, AfterRpc, Masked
  <2> QED
    BY <1>1, <2>1, <2>3, <2>2, <2>6, <2>7, <2>8, <2>9, GoKeeps
<1> QED
  BY <1>6

\* A thread in an Ocall loop asks for the next message.
LEMMA OcallKeeps ==
    ASSUME LoanInv, NEW c \in Cores, NEW n \in Threads, Ocall(c, n)
    PROVE  Keeps(n)
<1>0. cpu[c] = "run" /\ curr_thread[c] = n /\ pc[n] = "ocall"
  BY DEF Ocall, Go, Ask, AskFree, Leave
<1>1. PICK k \in Locals : k = call[n] /\ DataType /\ DataOK(n)
  BY DEF LoanInv, DataType
<1>2. asked[n] = NoRpc /\ answer[n] = NoAnswer
  BY <1>0, Running DEF AfterRpc
<1>3. Keeps(n)
  <2> DEFINE r == Rpc("ocall", NoBuffer)
  <2>1. Ask(c, n, r, "ocalled") /\ r \in Rpcs /\ r.op = "ocall" /\ r.co = NoBuffer
    BY <1>0, <1>1, <1>2, Constants, Fields DEF Ocall, Ops, Bufs
  <2>3. Data(n, rpc_arg[n], rpc_mobj[n], shm_cache[n], call[n])
    BY <1>0, <1>1, <1>2 DEF Ocall, Data, DataType, bufs, Set, SetCall
  <2> HIDE DEF r
  <2>4. /\ rpc_arg'[n] = rpc_arg[n] /\ rpc_mobj'[n] = rpc_mobj[n]
        /\ shm_cache'[n] = shm_cache[n] /\ call'[n] = call[n]
        /\ thread_prealloc_rpc_cache' = thread_prealloc_rpc_cache
    BY <1>0, <1>1, <1>2, <2>3 DEF Data, DataType
  <2>5. pc'[n] = "ocalled" /\ asked'[n] = r /\ answer'[n] = NoAnswer
    BY <2>1 DEF Ask, LoanInv, ControlOK, ControlType
  <2>6. DataOK(n)'
    BY <1>0, <1>1, <1>2, <2>1, <2>4, <2>5, Constants, BuffersOK DEF DataOK, ArgOK, InLoop,
         CommandOK, AskedOK, OwnOK, Ends
  <2>7. SameDebt(n)
    BY <1>0, <1>1, <1>2, <2>1, <2>4, <2>5, Constants DEF SameDebt, Owes, DataOK, ArgOK,
         InLoop, CommandOK, AskedOK, OwnOK, Ends
  <2>8. rpc_arg[n] \in Bufs \cup {Supplied} /\ rpc_mobj[n] \in Bufs /\ shm_cache[n] \in Bufs
    BY <1>0, <1>1, <1>2, <2>1, Fields DEF Bufs
  <2>9. "ocalled" \in AfterRpc
    BY <1>0, <1>1, <1>2 DEF Pcs, AfterRpc, Masked
  <2> QED
    BY <1>1, <2>1, <2>3, <2>6, <2>7, <2>8, <2>9, AskKeeps
<1> QED
  BY <1>3

\* The Ocall loop goes on, ...
LEMMA LoopKeeps ==
    ASSUME LoanInv, NEW c \in Cores, NEW n \in Threads, pc[n] = "ocalled",
           Go(c, n, "ocall"), UNCHANGED <<bufs, call>>
    PROVE  Keeps(n)
<1>0. cpu[c] = "run" /\ curr_thread[c] = n /\ pc[n] = "ocalled"
  BY DEF Go, Go, Ask, AskFree, Leave
<1>1. PICK k \in Locals : k = call[n] /\ DataType /\ DataOK(n)
  BY DEF LoanInv, DataType
<1>2. x[n] = answer[n] /\ answer[n] \in Answers /\ answer[n] # NoAnswer
  BY <1>0, Running DEF AfterRpc
<1>3. Keeps(n)
  <2>1. Go(c, n, "ocall")
    BY <1>0, <1>1, <1>2 DEF bufs
  <2>3. Data(n, rpc_arg[n], rpc_mobj[n], shm_cache[n], call[n])
    BY <1>0, <1>1, <1>2 DEF bufs, Data, DataType, bufs, Set, SetCall
  <2>4. /\ rpc_arg'[n] = rpc_arg[n] /\ rpc_mobj'[n] = rpc_mobj[n]
        /\ shm_cache'[n] = shm_cache[n] /\ call'[n] = call[n]
        /\ thread_prealloc_rpc_cache' = thread_prealloc_rpc_cache
    BY <1>0, <1>1, <1>2, <2>3 DEF Data, DataType
  <2>5. pc'[n] = "ocall" /\ asked'[n] = NoRpc /\ answer'[n] = NoAnswer
    BY <2>1 DEF Go, LoanInv, ControlOK, ControlType
  <2>6. DataOK(n)'
    BY <1>0, <1>1, <1>2, <2>1, <2>4, <2>5, Constants, BuffersOK DEF DataOK, ArgOK, InLoop,
         CommandOK, AskedOK, OwnOK, Ends
  <2>7. SameDebt(n)
    BY <1>0, <1>1, <1>2, <2>1, <2>4, <2>5, Constants DEF SameDebt, Owes, DataOK, ArgOK,
         InLoop, CommandOK, AskedOK, OwnOK, Ends
  <2>8. rpc_arg[n] \in Bufs \cup {Supplied} /\ rpc_mobj[n] \in Bufs /\ shm_cache[n] \in Bufs
    BY <1>0, <1>1, <1>2, Fields DEF Bufs
  <2>9. "ocall" \in Pcs \ (AfterRpc \cup {"free"})
    BY <1>0, <1>1, <1>2 DEF Pcs, AfterRpc, Masked
  <2> QED
    BY <1>1, <2>1, <2>3, <2>6, <2>7, <2>8, <2>9, GoKeeps
<1> QED
  BY <1>3

\* ... or ends.
LEMMA UnprepareKeeps ==
    ASSUME LoanInv, NEW c \in Cores, NEW n \in Threads, pc[n] = "ocalled", Unprepare(c, n)
    PROVE  Keeps(n)
<1>0. cpu[c] = "run" /\ curr_thread[c] = n /\ pc[n] = "ocalled"
  BY DEF Unprepare, Go, Ask, AskFree, Leave
<1>1. PICK k \in Locals : k = call[n] /\ DataType /\ DataOK(n)
  BY DEF LoanInv, DataType
<1>2. x[n] = answer[n] /\ answer[n] \in Answers /\ answer[n] # NoAnswer
  BY <1>0, Running DEF AfterRpc
<1>3. CASE call[n].saved # NoBuffer
  <2> DEFINE r == Rpc("free", rpc_mobj[n])
  <2>1. Ask(c, n, r, "unprepared") /\ r \in Rpcs /\ r.op = "free" /\ r.co = rpc_mobj[n]
    BY <1>0, <1>1, <1>2, <1>3, Constants, Fields DEF Unprepare, AskFree, Ops, Bufs
  <2>3. Data(n, rpc_arg[n], rpc_mobj[n], shm_cache[n], call[n])
    BY <1>0, <1>1, <1>2, <1>3 DEF Unprepare, AskFree, Data, DataType, bufs, Set, SetCall
  <2> HIDE DEF r
  <2>4. /\ rpc_arg'[n] = rpc_arg[n] /\ rpc_mobj'[n] = rpc_mobj[n]
        /\ shm_cache'[n] = shm_cache[n] /\ call'[n] = call[n]
        /\ thread_prealloc_rpc_cache' = thread_prealloc_rpc_cache
    BY <1>0, <1>1, <1>2, <1>3, <2>3 DEF Data, DataType
  <2>5. pc'[n] = "unprepared" /\ asked'[n] = r /\ answer'[n] = NoAnswer
    BY <2>1 DEF Ask, LoanInv, ControlOK, ControlType
  <2>6. DataOK(n)'
    BY <1>0, <1>1, <1>2, <1>3, <2>1, <2>4, <2>5, Constants, BuffersOK DEF DataOK, ArgOK,
         InLoop, CommandOK, AskedOK, OwnOK, Ends
  <2>7. SameDebt(n)
    BY <1>0, <1>1, <1>2, <1>3, <2>1, <2>4, <2>5, Constants DEF SameDebt, Owes, DataOK,
         ArgOK, InLoop, CommandOK, AskedOK, OwnOK, Ends
  <2>8. rpc_arg[n] \in Bufs \cup {Supplied} /\ rpc_mobj[n] \in Bufs /\ shm_cache[n] \in Bufs
    BY <1>0, <1>1, <1>2, <1>3, <2>1, Fields DEF Bufs
  <2>9. "unprepared" \in AfterRpc
    BY <1>0, <1>1, <1>2, <1>3 DEF Pcs, AfterRpc, Masked
  <2> QED
    BY <1>1, <2>1, <2>3, <2>6, <2>7, <2>8, <2>9, AskKeeps
<1>4. CASE call[n].saved = NoBuffer
  <2>1. Go(c, n, "work")
    BY <1>0, <1>1, <1>2, <1>4 DEF Unprepare
  <2>3. Data(n, rpc_arg[n], rpc_mobj[n], shm_cache[n], call[n])
    BY <1>0, <1>1, <1>2, <1>4 DEF Unprepare, Data, DataType, bufs, Set, SetCall
  <2>4. /\ rpc_arg'[n] = rpc_arg[n] /\ rpc_mobj'[n] = rpc_mobj[n]
        /\ shm_cache'[n] = shm_cache[n] /\ call'[n] = call[n]
        /\ thread_prealloc_rpc_cache' = thread_prealloc_rpc_cache
    BY <1>0, <1>1, <1>2, <1>4, <2>3 DEF Data, DataType
  <2>5. pc'[n] = "work" /\ asked'[n] = NoRpc /\ answer'[n] = NoAnswer
    BY <2>1 DEF Go, LoanInv, ControlOK, ControlType
  <2>6. DataOK(n)'
    BY <1>0, <1>1, <1>2, <1>4, <2>1, <2>4, <2>5, Constants, BuffersOK DEF DataOK, ArgOK,
         InLoop, CommandOK, AskedOK, OwnOK, Ends
  <2>7. SameDebt(n)
    BY <1>0, <1>1, <1>2, <1>4, <2>1, <2>4, <2>5, Constants DEF SameDebt, Owes, DataOK,
         ArgOK, InLoop, CommandOK, AskedOK, OwnOK, Ends
  <2>8. rpc_arg[n] \in Bufs \cup {Supplied} /\ rpc_mobj[n] \in Bufs /\ shm_cache[n] \in Bufs
    BY <1>0, <1>1, <1>2, <1>4, Fields DEF Bufs
  <2>9. "work" \in Pcs \ (AfterRpc \cup {"free"})
    BY <1>0, <1>1, <1>2, <1>4 DEF Pcs, AfterRpc, Masked
  <2> QED
    BY <1>1, <2>1, <2>3, <2>6, <2>7, <2>8, <2>9, GoKeeps
<1> QED
  BY <1>3, <1>4

\* A message of an Ocall loop.
LEMMA OcalledKeeps ==
    ASSUME LoanInv, NEW c \in Cores, NEW n \in Threads, Ocalled(c, n)
    PROVE  Keeps(n)
<1>0. pc[n] = "ocalled"
  BY DEF Ocalled
<1>1. CASE call[n].rpcs > 0 /\ GetRpcArg(c, n, "cmd", "ocall")
  BY <1>0, <1>1, GetRpcArgKeeps
<1>2. CASE Go(c, n, "ocall") /\ UNCHANGED <<bufs, call>>
  BY <1>0, <1>2, LoopKeeps
<1>3. CASE Unprepare(c, n)
  BY <1>0, <1>3, UnprepareKeeps
<1> QED
  BY <1>1, <1>2, <1>3 DEF Ocalled

\* The argument of an Ocall loop was given back.
LEMMA UnpreparedKeeps ==
    ASSUME LoanInv, NEW c \in Cores, NEW n \in Threads, Unprepared(c, n)
    PROVE  Keeps(n)
<1>0. cpu[c] = "run" /\ curr_thread[c] = n /\ pc[n] = "unprepared"
  BY DEF Unprepared, Go, Ask, AskFree, Leave
<1>1. PICK k \in Locals : k = call[n] /\ DataType /\ DataOK(n)
  BY DEF LoanInv, DataType
<1>2. x[n] = answer[n] /\ answer[n] \in Answers /\ answer[n] # NoAnswer
  BY <1>0, Running DEF AfterRpc
<1>3. NoBuffer \in Bufs \cup {Supplied}
  BY DEF Bufs
<1>4. Keeps(n)
  <2> DEFINE l == [k EXCEPT !.saved = NoBuffer]
  <2>1. Go(c, n, "work")
    BY <1>0, <1>1, <1>2 DEF Unprepared
  <2>3. Data(n, call[n].saved, NoBuffer, shm_cache[n], l)
    BY <1>0, <1>1, <1>2 DEF Unprepared, Data, DataType, bufs, Set, SetCall
  <2>l. l \in Locals
    BY <1>1, <1>2, <1>3, ZenonT(60) DEF Locals
  <2>2. l \in Locals /\ l.ok = k.ok /\ l.supplied = k.supplied /\ l.next = k.next
        /\ l.back = k.back /\ l.drop = k.drop /\ l.saved = NoBuffer
    BY <1>1, <2>l DEF Locals
  <2> HIDE DEF l
  <2>4. /\ rpc_arg'[n] = call[n].saved /\ rpc_mobj'[n] = NoBuffer
        /\ shm_cache'[n] = shm_cache[n] /\ call'[n] = l
        /\ thread_prealloc_rpc_cache' = thread_prealloc_rpc_cache
    BY <1>0, <1>1, <1>2, <2>3 DEF Data, DataType
  <2>5. pc'[n] = "work" /\ asked'[n] = NoRpc /\ answer'[n] = NoAnswer
    BY <2>1 DEF Go, LoanInv, ControlOK, ControlType
  <2>6. DataOK(n)'
    BY <1>0, <1>1, <1>2, <2>1, <2>2, <2>4, <2>5, Constants, BuffersOK DEF DataOK, ArgOK,
         InLoop, CommandOK, AskedOK, OwnOK, Ends
  <2>7. SameDebt(n)
    BY <1>0, <1>1, <1>2, <2>1, <2>2, <2>4, <2>5, Constants DEF SameDebt, Owes, DataOK,
         ArgOK, InLoop, CommandOK, AskedOK, OwnOK, Ends
  <2>8. call[n].saved \in Bufs \cup {Supplied} /\ NoBuffer \in Bufs /\ shm_cache[n] \in Bufs
    BY <1>0, <1>1, <1>2, Fields DEF Bufs
  <2>9. "work" \in Pcs \ (AfterRpc \cup {"free"})
    BY <1>0, <1>1, <1>2 DEF Pcs, AfterRpc, Masked
  <2> QED
    BY <1>1, <2>1, <2>3, <2>2, <2>6, <2>7, <2>8, <2>9, GoKeeps
<1> QED
  BY <1>4

\* The last part of call_entry_std().
LEMMA ClearKeeps ==
    ASSUME LoanInv, NEW c \in Cores, NEW n \in Threads, Clear(c, n)
    PROVE  Keeps(n)
<1>0. cpu[c] = "run" /\ curr_thread[c] = n /\ pc[n] = "clear"
  BY DEF Clear, GetRpcArg, Go, Ask, AskFree, Leave
<1>1. PICK k \in Locals : k = call[n] /\ DataType /\ DataOK(n)
  BY DEF LoanInv, DataType
<1>2. asked[n] = NoRpc /\ answer[n] = NoAnswer
  BY <1>0, Running DEF AfterRpc
<1>3. CASE shm_cache[n] # NoBuffer
  BY <1>0, <1>3, GetRpcArgKeeps DEF Clear
<1>4. CASE /\ shm_cache[n] = NoBuffer
           /\ call[n].ok /\ ~thread_prealloc_rpc_cache /\ rpc_mobj[n] # NoBuffer
  <2> DEFINE r == Rpc("free", rpc_mobj[n])
  <2>1. Ask(c, n, r, "cleared") /\ r \in Rpcs /\ r.op = "free" /\ r.co = rpc_mobj[n]
    BY <1>0, <1>1, <1>2, <1>4, Constants, Fields DEF Clear, AskFree, Ops, Bufs
  <2>3. Data(n, (IF call[n].supplied THEN NoBuffer ELSE rpc_arg[n]), rpc_mobj[n], shm_cache[n], call[n])
    BY <1>0, <1>1, <1>2, <1>4 DEF Clear, AskFree, Data, DataType, bufs, Set, SetCall
  <2> HIDE DEF r
  <2>4. /\ rpc_arg'[n] = (IF call[n].supplied THEN NoBuffer ELSE rpc_arg[n])
           /\ rpc_mobj'[n] = rpc_mobj[n]
        /\ shm_cache'[n] = shm_cache[n] /\ call'[n] = call[n]
        /\ thread_prealloc_rpc_cache' = thread_prealloc_rpc_cache
    BY <1>0, <1>1, <1>2, <1>4, <2>3 DEF Data, DataType
  <2>5. pc'[n] = "cleared" /\ asked'[n] = r /\ answer'[n] = NoAnswer
    BY <2>1 DEF Ask, LoanInv, ControlOK, ControlType
  <2>6. DataOK(n)'
    <3>1. ArgOK(n)'
      BY <1>0, <1>1, <1>2, <1>4, <2>1, <2>4, <2>5, Constants, BuffersOK DEF DataOK, ArgOK,
           InLoop, CommandOK, AskedOK, OwnOK, Ends
    <3>2. CommandOK(n)'
      BY <1>0, <1>1, <1>2, <1>4, <2>1, <2>4, <2>5, Constants, BuffersOK DEF DataOK, ArgOK,
           InLoop, CommandOK, AskedOK, OwnOK, Ends
    <3>3. AskedOK(n)'
      BY <1>0, <1>1, <1>2, <1>4, <2>1, <2>4, <2>5, Constants, BuffersOK DEF DataOK, ArgOK,
           InLoop, CommandOK, AskedOK, OwnOK, Ends
    <3>4. OwnOK(n)'
      BY <1>0, <1>1, <1>2, <1>4, <2>1, <2>4, <2>5, Constants, BuffersOK DEF DataOK, ArgOK,
           InLoop, CommandOK, AskedOK, OwnOK, Ends
    <3> QED
      BY <3>1, <3>2, <3>3, <3>4 DEF DataOK
  <2>7. SameDebt(n)
    BY <1>0, <1>1, <1>2, <1>4, <2>1, <2>4, <2>5, Constants DEF SameDebt, Owes, DataOK,
         ArgOK, InLoop, CommandOK, AskedOK, OwnOK, Ends
  <2>8. (IF call[n].supplied THEN NoBuffer ELSE rpc_arg[n]) \in Bufs \cup {Supplied}
        /\ rpc_mobj[n] \in Bufs /\ shm_cache[n] \in Bufs
    BY <1>0, <1>1, <1>2, <1>4, <2>1, Fields DEF Bufs
  <2>9. "cleared" \in AfterRpc
    BY <1>0, <1>1, <1>2, <1>4 DEF Pcs, AfterRpc, Masked
  <2> QED
    BY <1>1, <2>1, <2>3, <2>6, <2>7, <2>8, <2>9, AskKeeps
<1>5. CASE /\ shm_cache[n] = NoBuffer
           /\ ~(call[n].ok /\ ~thread_prealloc_rpc_cache /\ rpc_mobj[n] # NoBuffer)
  <2>1. Go(c, n, "exit")
    BY <1>0, <1>1, <1>2, <1>5 DEF Clear
  <2>3. Data(n, (IF call[n].supplied THEN NoBuffer ELSE rpc_arg[n]), rpc_mobj[n], shm_cache[n], call[n])
    BY <1>0, <1>1, <1>2, <1>5 DEF Clear, Data, DataType, bufs, Set, SetCall
  <2>4. /\ rpc_arg'[n] = (IF call[n].supplied THEN NoBuffer ELSE rpc_arg[n])
           /\ rpc_mobj'[n] = rpc_mobj[n]
        /\ shm_cache'[n] = shm_cache[n] /\ call'[n] = call[n]
        /\ thread_prealloc_rpc_cache' = thread_prealloc_rpc_cache
    BY <1>0, <1>1, <1>2, <1>5, <2>3 DEF Data, DataType
  <2>5. pc'[n] = "exit" /\ asked'[n] = NoRpc /\ answer'[n] = NoAnswer
    BY <2>1 DEF Go, LoanInv, ControlOK, ControlType
  <2>6. DataOK(n)'
    <3>1. ArgOK(n)'
      BY <1>0, <1>1, <1>2, <1>5, <2>1, <2>4, <2>5, Constants, BuffersOK DEF DataOK, ArgOK,
           InLoop, CommandOK, AskedOK, OwnOK, Ends
    <3>2. CommandOK(n)'
      BY <1>0, <1>1, <1>2, <1>5, <2>1, <2>4, <2>5, Constants, BuffersOK DEF DataOK, ArgOK,
           InLoop, CommandOK, AskedOK, OwnOK, Ends
    <3>3. AskedOK(n)'
      BY <1>0, <1>1, <1>2, <1>5, <2>1, <2>4, <2>5, Constants, BuffersOK DEF DataOK, ArgOK,
           InLoop, CommandOK, AskedOK, OwnOK, Ends
    <3>4. OwnOK(n)'
      BY <1>0, <1>1, <1>2, <1>5, <2>1, <2>4, <2>5, Constants, BuffersOK DEF DataOK, ArgOK,
           InLoop, CommandOK, AskedOK, OwnOK, Ends
    <3> QED
      BY <3>1, <3>2, <3>3, <3>4 DEF DataOK
  <2>7. SameDebt(n)
    BY <1>0, <1>1, <1>2, <1>5, <2>1, <2>4, <2>5, Constants DEF SameDebt, Owes, DataOK,
         ArgOK, InLoop, CommandOK, AskedOK, OwnOK, Ends
  <2>8. (IF call[n].supplied THEN NoBuffer ELSE rpc_arg[n]) \in Bufs \cup {Supplied}
        /\ rpc_mobj[n] \in Bufs /\ shm_cache[n] \in Bufs
    BY <1>0, <1>1, <1>2, <1>5, Fields DEF Bufs
  <2>9. "exit" \in Pcs \ (AfterRpc \cup {"free"})
    BY <1>0, <1>1, <1>2, <1>5 DEF Pcs, AfterRpc, Masked
  <2> QED
    BY <1>1, <2>1, <2>3, <2>6, <2>7, <2>8, <2>9, GoKeeps
<1> QED
  BY <1>3, <1>4, <1>5

\* The argument was given back.
LEMMA ClearedKeeps ==
    ASSUME LoanInv, NEW c \in Cores, NEW n \in Threads, Cleared(c, n)
    PROVE  Keeps(n)
<1>0. cpu[c] = "run" /\ curr_thread[c] = n /\ pc[n] = "cleared"
  BY DEF Cleared, Go, Ask, AskFree, Leave
<1>1. PICK k \in Locals : k = call[n] /\ DataType /\ DataOK(n)
  BY DEF LoanInv, DataType
<1>2. x[n] = answer[n] /\ answer[n] \in Answers /\ answer[n] # NoAnswer
  BY <1>0, Running DEF AfterRpc
<1>3. Keeps(n)
  <2>1. Go(c, n, "exit")
    BY <1>0, <1>1, <1>2 DEF Cleared
  <2>3. Data(n, NoBuffer, NoBuffer, shm_cache[n], call[n])
    BY <1>0, <1>1, <1>2 DEF Cleared, Data, DataType, bufs, Set, SetCall
  <2>4. /\ rpc_arg'[n] = NoBuffer /\ rpc_mobj'[n] = NoBuffer
        /\ shm_cache'[n] = shm_cache[n] /\ call'[n] = call[n]
        /\ thread_prealloc_rpc_cache' = thread_prealloc_rpc_cache
    BY <1>0, <1>1, <1>2, <2>3 DEF Data, DataType
  <2>5. pc'[n] = "exit" /\ asked'[n] = NoRpc /\ answer'[n] = NoAnswer
    BY <2>1 DEF Go, LoanInv, ControlOK, ControlType
  <2>6. DataOK(n)'
    BY <1>0, <1>1, <1>2, <2>1, <2>4, <2>5, Constants, BuffersOK DEF DataOK, ArgOK, InLoop,
         CommandOK, AskedOK, OwnOK, Ends
  <2>7. SameDebt(n)
    BY <1>0, <1>1, <1>2, <2>1, <2>4, <2>5, Constants DEF SameDebt, Owes, DataOK, ArgOK,
         InLoop, CommandOK, AskedOK, OwnOK, Ends
  <2>8. NoBuffer \in Bufs \cup {Supplied} /\ NoBuffer \in Bufs /\ shm_cache[n] \in Bufs
    BY <1>0, <1>1, <1>2, Fields DEF Bufs
  <2>9. "exit" \in Pcs \ (AfterRpc \cup {"free"})
    BY <1>0, <1>1, <1>2 DEF Pcs, AfterRpc, Masked
  <2> QED
    BY <1>1, <2>1, <2>3, <2>6, <2>7, <2>8, <2>9, GoKeeps
<1> QED
  BY <1>3

\* The cores and threads that a step of core c with thread n does not concern.
LEMMA OtherCores ==
    ASSUME IInv, ControlOK, NEW c \in Cores, NEW n \in Threads,
           \A m \in Threads \ {n} : SameControl(m),
           \A d \in Cores \ {c} :
             /\ cpu'[d] = cpu[d] /\ curr_thread'[d] = curr_thread[d] /\ args'[d] = args[d]
             /\ curr_thread[d] # n,
           ControlType', CoreOK(c)', AnswerOK(n)'
    PROVE  ControlOK'
<1>1. ASSUME NEW m \in Threads \ {n} PROVE AnswerOK(m)'
  <2>1. SameControl(m) /\ AnswerOK(m)
    BY DEF ControlOK
  <2> QED
    BY <2>1 DEF AnswerOK, SameControl
<1>2. ASSUME NEW d \in Cores \ {c} PROVE CoreOK(d)'
  <2>0. cpu'[d] = cpu[d] /\ curr_thread'[d] = curr_thread[d] /\ args'[d] = args[d]
        /\ CoreOK(d)
    BY DEF ControlOK
  <2>1. CASE cpu[d] = "normal"
    BY <2>0, <2>1 DEF CoreOK
  <2>2. CASE cpu[d] # "normal"
    <3>1. curr_thread[d] \in Threads \ {n}
      BY <2>2 DEF IInv, PlaceType, CoreHasThread
    <3>2. SameControl(curr_thread[d])
      BY <3>1
    <3> QED
      BY <2>0, <2>2, <3>2 DEF CoreOK, SameControl
  <2> QED
    BY <2>1, <2>2
<1> QED
  BY <1>1, <1>2 DEF ControlOK

\* A step that leaves the data of every thread alone.
LEMMA SameDataKeeps ==
    ASSUME LoanInv, NEW n \in Threads, ControlOK',
           \A m \in Threads \ {n} : SameControl(m),
           pc'[n] = pc[n], asked'[n] = asked[n], answer'[n] = answer[n], UNCHANGED <<bufs, call>>
    PROVE  Keeps(n)
<1> USE DEF bufs
<1>1. DataType' /\ \A m \in Threads : SameData(m)
  BY DEF LoanInv, DataType, SameData
<1>2. DataOK(n)'
  <2>1. ArgOK(n)'
    BY DEF LoanInv, DataOK, ArgOK, InLoop
  <2>2. CommandOK(n)'
    BY DEF LoanInv, DataOK, CommandOK
  <2>3. AskedOK(n)'
    BY DEF LoanInv, DataOK, AskedOK
  <2>4. OwnOK(n)'
    BY DEF LoanInv, DataOK, OwnOK
  <2> QED
    BY <2>1, <2>2, <2>3, <2>4 DEF DataOK
<1>3. SameDebt(n)
  BY DEF SameDebt, Owes
<1> QED
  BY <1>1, <1>2, <1>3 DEF Keeps

\* The return of a call.
LEMMA ExitKeeps ==
    ASSUME LoanInv, NEW c \in Cores, NEW n \in Threads, Exit(c, n)
    PROVE  Keeps(n)
<1> USE DEF Exit, Leave
<1>0. IInv /\ ControlOK /\ ControlType /\ DataType /\ DataOK(n)
  BY DEF LoanInv, ControlOK
<1>1. asked[n] = NoRpc /\ answer[n] = NoAnswer /\ x[n] = Own /\ left[n] = "no"
  BY <1>0 DEF AfterRpc, ControlOK, AnswerOK, IInv, PlaceType, ThreadOnOneCore
<1>2. ControlType'
  BY <1>0 DEF ControlType, Pcs, Masked
<1>3. \A m \in Threads \ {n} : SameControl(m)
  BY <1>0 DEF SameControl, ControlType, IInv, PlaceType
<1>4. AnswerOK(n)'
  BY <1>0, <1>1 DEF AnswerOK, ControlType, IInv, PlaceType, AfterRpc
<1>5. CoreOK(c)'
  BY <1>0 DEF CoreOK, IInv, PlaceType
<1>6. \A d \in Cores \ {c} :
        /\ cpu'[d] = cpu[d] /\ curr_thread'[d] = curr_thread[d] /\ args'[d] = args[d]
        /\ curr_thread[d] # n
  BY <1>0, CoresThreads DEF IInv, PlaceType, ThreadOnOneCore
<1>7. ControlOK'
  BY <1>0, <1>2, <1>3, <1>4, <1>5, <1>6, OtherCores
<1>8. NoCall \in Locals /\ NoCall.ok = FALSE /\ NoCall.drop = NoBuffer
      /\ NoCall.saved = NoBuffer
  BY CoresThreads DEF NoCall, Locals, Bufs
<1>9. Data(n, rpc_arg[n], rpc_mobj[n], shm_cache[n], NoCall)
  BY <1>0 DEF Data, DataType, bufs, SetCall
<1>10. DataType' /\ (\A m \in Threads \ {n} : SameData(m)) /\ call'[n] = NoCall
       /\ rpc_arg'[n] = rpc_arg[n] /\ rpc_mobj'[n] = rpc_mobj[n]
          /\ shm_cache'[n] = shm_cache[n]
       /\ UNCHANGED <<thread_prealloc_rpc_cache, lent>>
  <2>1. rpc_arg[n] \in Bufs \cup {Supplied} /\ rpc_mobj[n] \in Bufs /\ shm_cache[n] \in Bufs
    BY <1>0, Fields
  <2> QED
    BY <1>0, <1>8, <1>9, <2>1, DataMoves
<1>11. pc[n] = "exit" /\ pc'[n] = "free" /\ asked'[n] = NoRpc /\ answer'[n] = NoAnswer
  BY <1>0, <1>1 DEF ControlType
<1>12. DataOK(n)'
  BY <1>0, <1>8, <1>10, <1>11, Constants DEF DataOK, ArgOK, InLoop, CommandOK, AskedOK,
       OwnOK, Ends
<1>13. SameDebt(n)
  BY <1>0, <1>1, <1>8, <1>10, <1>11, Constants DEF SameDebt, Owes, DataOK, CommandOK
<1> QED
  BY <1>3, <1>7, <1>10, <1>12, <1>13 DEF Keeps

\* A new call.
LEMMA CallKeeps ==
    ASSUME LoanInv, NEW c \in Cores, NEW n \in Threads, NEW supplied \in BOOLEAN,
           Call(c, n, supplied)
    PROVE  Keeps(n)
<1> USE DEF Call
<1>0. IInv /\ ControlOK /\ ControlType /\ DataType /\ DataOK(n)
  BY DEF LoanInv, ControlOK
<1>1. /\ pc[n] = "free" /\ asked[n] = NoRpc /\ answer[n] = NoAnswer /\ x[n] = Own
         /\ left[n] = "no"
      /\ ~copy_args[n]
  BY <1>0 DEF AfterRpc, ControlOK, AnswerOK, IInv, PlaceType, ThreadOnOneCore
<1>2. ControlType'
  BY <1>0 DEF ControlType
<1>3. \A m \in Threads \ {n} : SameControl(m)
  BY <1>0 DEF SameControl, ControlType, IInv, PlaceType
<1>4. AnswerOK(n)'
  BY <1>0, <1>1 DEF AnswerOK, ControlType, IInv, PlaceType, AfterRpc
<1>5. CoreOK(c)'
  BY <1>0, <1>1 DEF CoreOK, IInv, PlaceType
<1>6. \A d \in Cores \ {c} :
        /\ cpu'[d] = cpu[d] /\ curr_thread'[d] = curr_thread[d] /\ args'[d] = args[d]
        /\ curr_thread[d] # n
  BY <1>0, CoresThreads DEF IInv, PlaceType, ThreadOnOneCore
<1>7. ControlOK'
  BY <1>0, <1>2, <1>3, <1>4, <1>5, <1>6, OtherCores
<1>a. NoCall \in Locals /\ NoCall.ok = FALSE /\ NoCall.drop = NoBuffer
      /\ NoCall.saved = NoBuffer
  BY CoresThreads DEF NoCall, Locals, Bufs
<1>b. PICK k \in Locals : k = NoCall
  BY <1>a
<1> DEFINE l == [k EXCEPT !.supplied = supplied]
<1>c. l \in Locals
  BY DEF Locals
<1>8. l \in Locals /\ l.ok = FALSE /\ l.drop = NoBuffer /\ l.saved = NoBuffer
  BY <1>a, <1>b, <1>c DEF Locals
<1>9. Data(n, rpc_arg[n], rpc_mobj[n], shm_cache[n], l)
  BY <1>0, <1>b DEF Data, DataType, bufs
<1> HIDE DEF l
<1>10. DataType' /\ (\A m \in Threads \ {n} : SameData(m)) /\ call'[n] = l
       /\ rpc_arg'[n] = rpc_arg[n] /\ rpc_mobj'[n] = rpc_mobj[n]
          /\ shm_cache'[n] = shm_cache[n]
       /\ UNCHANGED <<thread_prealloc_rpc_cache, lent>>
  <2>1. rpc_arg[n] \in Bufs \cup {Supplied} /\ rpc_mobj[n] \in Bufs /\ shm_cache[n] \in Bufs
    BY <1>0, Fields
  <2> QED
    BY <1>0, <1>8, <1>9, <2>1, DataMoves
<1>11. pc'[n] = "free" /\ asked'[n] = NoRpc /\ answer'[n] = NoAnswer
  BY <1>0, <1>1 DEF ControlType
<1>12. DataOK(n)'
  BY <1>0, <1>1, <1>8, <1>10, <1>11, Constants DEF DataOK, ArgOK, InLoop, CommandOK,
       AskedOK, OwnOK, Ends
<1>13. SameDebt(n)
  BY <1>0, <1>1, <1>8, <1>10, <1>11, Constants DEF SameDebt, Owes, DataOK, CommandOK
<1> QED
  BY <1>3, <1>7, <1>10, <1>12, <1>13 DEF Keeps

\* The start of its thread.
LEMMA StartKeeps ==
    ASSUME LoanInv, NEW c \in Cores, Start(c)
    PROVE  \E n \in Threads : Keeps(n)
<1> USE DEF Start
<1>a. PICK n \in Threads : n = curr_thread[c]
  BY DEF LoanInv, IInv, PlaceType, CoreHasThread
<1>0. IInv /\ ControlOK /\ ControlType /\ DataType /\ DataOK(n)
  BY DEF LoanInv, ControlOK
<1>1. /\ pc[n] = "free" /\ asked[n] = NoRpc /\ answer[n] = NoAnswer /\ x[n] = Own
         /\ left[n] = "no"
      /\ ~copy_args[n] /\ state[n] = "ACTIVE"
  BY <1>0, <1>a DEF AfterRpc, ControlOK, CoreOK, AnswerOK, IInv, PlaceType, ThreadOnOneCore
<1>2. ControlType'
  BY <1>0, <1>a DEF ControlType, Pcs, Masked
<1>3. \A m \in Threads \ {n} : SameControl(m)
  BY <1>0, <1>a DEF SameControl, ControlType, IInv, PlaceType
<1>4. AnswerOK(n)'
  BY <1>0, <1>a, <1>1 DEF AnswerOK, ControlType, IInv, PlaceType, AfterRpc
<1>5. CoreOK(c)'
  BY <1>0, <1>a, <1>1 DEF CoreOK, IInv, PlaceType, ControlType
<1>6. \A d \in Cores \ {c} :
        /\ cpu'[d] = cpu[d] /\ curr_thread'[d] = curr_thread[d] /\ args'[d] = args[d]
        /\ curr_thread[d] # n
  BY <1>0, <1>a, CoresThreads DEF IInv, PlaceType, ThreadOnOneCore
<1>7. ControlOK'
  BY <1>0, <1>2, <1>3, <1>4, <1>5, <1>6, OtherCores
<1>9. Data(n, rpc_arg[n], rpc_mobj[n], shm_cache[n], call[n])
  BY <1>0 DEF Data, DataType, bufs
<1>10. DataType' /\ (\A m \in Threads \ {n} : SameData(m)) /\ call'[n] = call[n]
       /\ rpc_arg'[n] = rpc_arg[n] /\ rpc_mobj'[n] = rpc_mobj[n]
          /\ shm_cache'[n] = shm_cache[n]
       /\ UNCHANGED <<thread_prealloc_rpc_cache, lent>>
  <2>1. /\ rpc_arg[n] \in Bufs \cup {Supplied} /\ rpc_mobj[n] \in Bufs
           /\ shm_cache[n] \in Bufs
        /\ call[n] \in Locals
    BY <1>0, Fields
  <2> QED
    BY <1>0, <1>9, <2>1, DataMoves
<1>11. pc'[n] = "start" /\ asked'[n] = NoRpc /\ answer'[n] = NoAnswer
  BY <1>0, <1>a, <1>1 DEF ControlType
<1>12. DataOK(n)'
  BY <1>0, <1>1, <1>10, <1>11, Constants DEF DataOK, ArgOK, InLoop, CommandOK, AskedOK,
       OwnOK, Ends
<1>13. SameDebt(n)
  BY <1>0, <1>1, <1>10, <1>11, Constants DEF SameDebt, Owes, DataOK, CommandOK
<1> QED
  BY <1>3, <1>7, <1>10, <1>12, <1>13 DEF Keeps

\* The return from an RPC or an interrupt, ...
LEMMA ResumeKeeps ==
    ASSUME LoanInv, NEW c \in Cores, NEW n \in Threads, Resume(c, n)
    PROVE  Keeps(n)
<1> USE DEF Resume
<1>0. IInv /\ ControlOK /\ ControlType
  BY DEF LoanInv, ControlOK
<1>1. pc[n] # "free" /\ (copy_args[n] => left[n] = "rpc" /\ answer[n] # NoAnswer)
  BY <1>0 DEF ControlOK, AnswerOK, IInv, PlaceType, ThreadOnOneCore
<1>2. ControlType'
  <2>1. (IF left[n] = "rpc" THEN answer[n] ELSE Junk) \in Answers \cup {Own, Junk}
    BY <1>0 DEF ControlType
  <2> QED
    BY <1>0, <2>1 DEF ControlType
<1>3. \A m \in Threads \ {n} : SameControl(m)
  BY <1>0 DEF SameControl, ControlType, IInv, PlaceType
<1>4. AnswerOK(n)'
  BY <1>0, <1>1 DEF ControlOK, AnswerOK, ControlType, IInv, PlaceType
<1>5. CoreOK(c)'
  BY <1>0, <1>1 DEF CoreOK, IInv, PlaceType, ControlType
<1>6. \A d \in Cores \ {c} :
        /\ cpu'[d] = cpu[d] /\ curr_thread'[d] = curr_thread[d] /\ args'[d] = args[d]
        /\ curr_thread[d] # n
  BY <1>0, CoresThreads DEF IInv, PlaceType, ThreadOnOneCore, ControlType
<1>7. ControlOK'
  BY <1>0, <1>2, <1>3, <1>4, <1>5, <1>6, OtherCores
<1> QED
  BY <1>3, <1>7, SameDataKeeps

\* ... which gives the thread its answer, if it waits for one.
LEMMA ContinueKeeps ==
    ASSUME LoanInv, NEW c \in Cores, Continue(c)
    PROVE  \E n \in Threads : Keeps(n)
<1> USE DEF Continue
<1>a. PICK n \in Threads : n = curr_thread[c]
  BY DEF LoanInv, IInv, PlaceType, CoreHasThread
<1>0. IInv /\ ControlOK /\ ControlType
  BY DEF LoanInv, ControlOK
<1>1. /\ pc[n] # "free" /\ (copy_args[n] => args[c] = answer[n] /\ answer[n] # NoAnswer)
      /\ left[n] = "no" /\ state[n] = "ACTIVE"
  BY <1>0, <1>a DEF ControlOK, CoreOK, AnswerOK, IInv, PlaceType, ThreadOnOneCore
<1>b. x'[n] = (IF copy_args[n] THEN args[c] ELSE x[n]) /\ ~copy_args'[n]
  BY <1>0, <1>a DEF ControlType
<1>2. ControlType'
  <2>1. x' \in [Threads -> Answers \cup {Own, Junk}]
    BY <1>0, <1>a DEF ControlType
  <2>2. args' \in [Cores -> Answers \cup {Own, Junk}] /\ copy_args' \in [Threads -> BOOLEAN]
    BY <1>0 DEF ControlType
  <2> QED
    BY <1>0, <2>1, <2>2 DEF ControlType
<1>3. \A m \in Threads \ {n} : SameControl(m)
  BY <1>0, <1>a DEF SameControl, ControlType, IInv, PlaceType
<1>4. AnswerOK(n)'
  BY <1>0, <1>1, <1>b DEF ControlOK, AnswerOK
<1>5. CoreOK(c)'
  BY <1>0, <1>a, <1>1, <1>b DEF CoreOK, IInv, PlaceType
<1>6. \A d \in Cores \ {c} :
        /\ cpu'[d] = cpu[d] /\ curr_thread'[d] = curr_thread[d] /\ args'[d] = args[d]
        /\ curr_thread[d] # n
  BY <1>0, <1>a, CoresThreads DEF IInv, PlaceType, ThreadOnOneCore, ControlType
<1>7. ControlOK'
  BY <1>0, <1>2, <1>3, <1>4, <1>5, <1>6, OtherCores
<1> QED
  BY <1>3, <1>7, SameDataKeeps

\* A foreign interrupt.
LEMMA PreemptKeeps ==
    ASSUME LoanInv, NEW c \in Cores, NEW n \in Threads, Preempt(c, n)
    PROVE  Keeps(n)
<1> USE DEF Preempt, Leave
<1>0. IInv /\ ControlOK /\ ControlType
  BY DEF LoanInv, ControlOK
<1>1. pc[n] # "free" /\ ~copy_args[n]
  BY <1>0 DEF ControlOK, CoreOK
<1>2. ControlType'
  BY <1>0 DEF ControlType
<1>3. \A m \in Threads \ {n} : SameControl(m)
  BY <1>0 DEF SameControl, ControlType, IInv, PlaceType
<1>4. AnswerOK(n)'
  BY <1>0, <1>1 DEF ControlOK, AnswerOK, IInv, PlaceType
<1>5. CoreOK(c)'
  BY <1>0 DEF CoreOK, IInv, PlaceType
<1>6. \A d \in Cores \ {c} :
        /\ cpu'[d] = cpu[d] /\ curr_thread'[d] = curr_thread[d] /\ args'[d] = args[d]
        /\ curr_thread[d] # n
  BY <1>0, CoresThreads DEF IInv, PlaceType, ThreadOnOneCore
<1>7. ControlOK'
  BY <1>0, <1>2, <1>3, <1>4, <1>5, <1>6, OtherCores
<1> QED
  BY <1>3, <1>7, SameDataKeeps

\* Such a step keeps the whole invariant.
LEMMA KeepsAll ==
    ASSUME LoanInv, IInv', NEW n \in Threads, Keeps(n)
    PROVE  LoanInv'
<1>1. \A m \in Threads : DataOK(m)' /\ SameDebt(m)
  BY Unconcerned DEF Keeps, LoanInv
<1>2. LentOK'
  BY <1>1 DEF Keeps, LoanInv, LentOK, SameDebt
<1> QED
  BY <1>1, <1>2 DEF Keeps, LoanInv

\* The normal world answers an RPC of a thread that waits for it.
LEMMA ServeControl ==
    ASSUME LoanInv, NEW n \in Threads, NEW a \in Answers, left[n] = "rpc", a # NoAnswer,
           answer[n] = NoAnswer, answer' = [answer EXCEPT ![n] = a], UNCHANGED <<sched, x, pc, asked>>
    PROVE  /\ ControlOK' /\ \A m \in Threads \ {n} : SameControl(m)
           /\ answer'[n] = a /\ pc[n] \in AfterRpc
<1> USE DEF sched
<1>0. IInv /\ ControlOK /\ ControlType
  BY DEF LoanInv, ControlOK
<1>1. pc[n] \in AfterRpc /\ copy_args[n] /\ x[n] = Own
  BY <1>0 DEF ControlOK, AnswerOK
<1>2. ControlType' /\ answer'[n] = a
  BY <1>0 DEF ControlType
<1>3. \A m \in Threads \ {n} : SameControl(m)
  BY <1>0 DEF SameControl, ControlType
<1>4. \A m \in Threads : AnswerOK(m)'
  <2>1. AnswerOK(n)'
    BY <1>0, <1>1 DEF ControlOK, AnswerOK
  <2>2. \A m \in Threads \ {n} : AnswerOK(m)'
    BY <1>0, <1>3 DEF ControlOK, AnswerOK, SameControl
  <2> QED
    BY <2>1, <2>2
<1>5. \A c \in Cores : curr_thread[c] # n
  BY <1>0 DEF IInv, PlaceType, ThreadOnOneCore
<1>6. ASSUME NEW c \in Cores PROVE CoreOK(c)'
  <2>1. CASE cpu[c] = "normal"
    BY <2>1 DEF CoreOK
  <2>2. CASE cpu[c] # "normal"
    <3>1. curr_thread[c] \in Threads \ {n}
      BY <1>0, <1>5, <2>2 DEF IInv, PlaceType, CoreHasThread
    <3> QED
      BY <1>0, <1>3, <2>2, <3>1 DEF ControlOK, CoreOK, SameControl
  <2> QED
    BY <2>1, <2>2
<1> QED
  BY <1>1, <1>2, <1>3, <1>4, <1>6 DEF ControlOK

\* What a thread that waits for an answer waits for.
LEMMA Waits ==
    ASSUME LoanInv, NEW n \in Threads, pc[n] \in AfterRpc, answer[n] = NoAnswer
    PROVE  /\ asked[n].op \in {"free", "pfree"} =>
                asked[n].co \in Buffers /\ asked[n].co \in Owes(n)
           /\ asked[n].op \in {"alloc", "palloc"} =>
                \A b \in {rpc_mobj[n], shm_cache[n]} : b # NoBuffer => b \in Owes(n)
<1>0. DataType /\ DataOK(n)
  BY DEF LoanInv
<1>1. CASE pc[n] = "sent"
  <2>1. asked[n].op \in {"free", "pfree"} => asked[n].co = call[n].drop
        /\ call[n].drop # NoBuffer
    BY <1>0, <1>1 DEF DataOK, AskedOK, CommandOK
  <2>2. call[n].drop \in Bufs
    BY <1>0, Fields
  <2> QED
    BY <2>1, <2>2 DEF Owes, Bufs
<1>2. CASE pc[n] = "dropped"
  <2>1. asked[n].op = "free" /\ asked[n].co # NoBuffer
    BY <1>0, <1>2 DEF DataOK, AskedOK
  <2>2. asked[n].co \in Bufs
    BY <2>1 DEF LoanInv, ControlOK, ControlType, Rpcs, NoRpc, Rpc, Bufs
  <2> QED
    BY <2>1, <2>2 DEF Owes, Bufs
<1>3. CASE pc[n] \in {"replaced", "cleared", "unprepared"}
  <2>1. asked[n].op = "free" /\ asked[n].co = rpc_mobj[n] /\ rpc_mobj[n] # NoBuffer
    BY <1>0, <1>3 DEF DataOK, AskedOK
  <2>2. rpc_mobj[n] \in Bufs
    BY <1>0, Fields
  <2> QED
    BY <2>1, <2>2 DEF Owes, Bufs
<1>4. CASE pc[n] \in {"alloced", "ocalled"}
  BY <1>0, <1>4 DEF DataOK, AskedOK, Owes
<1> QED
  BY <1>1, <1>2, <1>3, <1>4 DEF AfterRpc

\* The answer lends a buffer to the thread, takes one back, or does neither.
LEMMA ServeKeeps ==
    ASSUME LoanInv, IInv', NEW n \in Threads, Serve(n) \/ ServeWrong(n)
    PROVE  LoanInv'
<1>0. DataType /\ DataOK(n) /\ LentOK /\ ControlType /\ IInv
  BY DEF LoanInv, ControlOK
<1>a. left[n] = "rpc" /\ answer[n] = NoAnswer /\ UNCHANGED <<sched, x, pc, asked>>
      /\ UNCHANGED <<rpc_arg, rpc_mobj, shm_cache, thread_prealloc_rpc_cache, call>>
  BY DEF Serve, ServeWrong
<1>b. \A m \in Threads : SameData(m)
  BY <1>a DEF SameData
<1>c. ASSUME NEW b \in Bufs, NEW ok \in BOOLEAN
      PROVE  [co |-> b, ok |-> ok] \in Answers /\ [co |-> b, ok |-> ok] # NoAnswer
  <2>1. [co |-> b, ok |-> ok] \in Answers
    BY DEF Answers
  <2>2. DOMAIN [co |-> b, ok |-> ok] = {"co", "ok"}
        /\ DOMAIN NoAnswer = {"co", "ok", "none"}
    BY DEF NoAnswer
  <2> QED
    BY <2>1, <2>2
<1>d. NoBuffer \in Bufs /\ \A b \in Buffers : b \in Bufs /\ b # NoBuffer
  BY BuffersOK DEF Bufs
<1>e. ASSUME NEW a \in Answers, a # NoAnswer, answer' = [answer EXCEPT ![n] = a],
             lent' \in [Buffers -> Threads \cup {NoThread, Astray}],
             IF asked[n].op \in {"alloc", "palloc"}
             THEN /\ a.ok => a.co # NoBuffer
                  /\ a.co # NoBuffer => a.co \notin {rpc_mobj[n], shm_cache[n]}
             ELSE a.co = NoBuffer,
             \A b \in Buffers : lent'[b] = n <=> b \in Owes(n)',
             \A b \in Buffers, m \in Threads \ {n} : lent'[b] = m <=> lent[b] = m
      PROVE  LoanInv'
  <2>1. /\ ControlOK' /\ answer'[n] = a /\ \A m \in Threads \ {n} : SameControl(m)
    BY <1>a, <1>e, ServeControl
  <2>2. DataType'
    BY <1>0, <1>a, <1>e DEF DataType
  <2>3. \A m \in Threads \ {n} : DataOK(m)' /\ SameDebt(m)
    BY <1>a, <1>b, <2>1, Unconcerned DEF LoanInv
  <2>4. DataOK(n)'
    <3>1. ArgOK(n)'
      BY <1>0, <1>a DEF DataOK, ArgOK, InLoop
    <3>2. CommandOK(n)'
      BY <1>0, <1>a DEF DataOK, CommandOK
    <3>3. AskedOK(n)'
      BY <1>0, <1>a, <1>e, <2>1 DEF DataOK, AskedOK
    <3>4. OwnOK(n)'
      BY <1>0, <1>a DEF DataOK, OwnOK
    <3> QED
      BY <3>1, <3>2, <3>3, <3>4 DEF DataOK
  <2>5. LentOK'
    BY <1>0, <1>e, <2>3 DEF LentOK, SameDebt
  <2> QED
    BY <2>1, <2>2, <2>3, <2>4, <2>5 DEF LoanInv
<1>f. pc[n] \in AfterRpc /\ n # NoThread
  BY <1>a, CoresThreads DEF LoanInv, ControlOK, AnswerOK
<1>1. CASE Serve(n) /\ asked[n].op \in {"alloc", "palloc"} /\ lent' # lent
  <2>1. PICK b \in Buffers, ok \in BOOLEAN :
           /\ lent[b] = NoThread /\ lent' = [lent EXCEPT ![b] = n]
           /\ answer' = [answer EXCEPT ![n] = [co |-> b, ok |-> ok]]
    BY <1>1 DEF Serve
  <2>2. PICK a \in Answers : a = [co |-> b, ok |-> ok] /\ a # NoAnswer /\ a.co = b
    BY <1>c, <1>d
  <2>3. b \notin Owes(n) /\ b \notin {rpc_mobj[n], shm_cache[n]}
    BY <1>0, <1>a, <1>d, <1>f, <1>1, <2>1, Waits DEF LentOK
  <2>4. lent' \in [Buffers -> Threads \cup {NoThread, Astray}]
    BY <1>0, <2>1 DEF DataType
  <2>5. answer'[n] = a
    BY <1>0, <2>1, <2>2 DEF ControlType
  <2>6. ASSUME NEW e \in Buffers PROVE lent'[e] = n <=> e \in Owes(n)'
    <3>1. lent'[e] = n <=> e = b \/ lent[e] = n
      BY <1>0, <2>1 DEF DataType
    <3>2. e \in Owes(n)' <=> e = b \/ e \in Owes(n)
      BY <1>a, <1>d, <1>1, <2>2, <2>5, Constants DEF Owes
    <3> QED
      BY <1>0, <3>1, <3>2 DEF LentOK
  <2>7. \A e \in Buffers, m \in Threads \ {n} : lent'[e] = m <=> lent[e] = m
    BY <1>0, <2>1, CoresThreads DEF DataType
  <2> QED
    BY <1>e, <1>d, <1>1, <2>1, <2>2, <2>3, <2>4, <2>6, <2>7
<1>2. CASE Serve(n) /\ asked[n].op \in {"alloc", "palloc"} /\ lent' = lent
  <2>1. answer' = [answer EXCEPT ![n] = [co |-> NoBuffer, ok |-> FALSE]]
    <3>1. ASSUME NEW b \in Buffers, lent[b] = NoThread, lent' = [lent EXCEPT ![b] = n]
          PROVE  FALSE
      BY <1>0, <1>2, <1>f, <3>1 DEF DataType
    <3> QED
      BY <1>2, <3>1 DEF Serve
  <2>2. PICK a \in Answers : a = [co |-> NoBuffer, ok |-> FALSE] /\ a # NoAnswer
                             /\ a.co = NoBuffer /\ ~a.ok
    BY <1>c, <1>d
  <2>5. answer'[n] = a
    BY <1>0, <2>1, <2>2 DEF ControlType
  <2>6. ASSUME NEW e \in Buffers PROVE lent'[e] = n <=> e \in Owes(n)'
    <3>2. e \in Owes(n)' <=> e \in Owes(n)
      BY <1>a, <1>d, <1>2, <2>2, <2>5, Constants DEF Owes
    <3> QED
      BY <1>0, <1>2, <3>2 DEF LentOK
  <2>7. lent' \in [Buffers -> Threads \cup {NoThread, Astray}]
        /\ \A e \in Buffers, m \in Threads \ {n} : lent'[e] = m <=> lent[e] = m
    BY <1>0, <1>2 DEF DataType
  <2> QED
    BY <1>e, <1>2, <2>1, <2>2, <2>6, <2>7
<1>3. CASE Serve(n) /\ asked[n].op \notin {"alloc", "palloc"}
  <2>1. answer' = [answer EXCEPT ![n] = [co |-> NoBuffer, ok |-> TRUE]]
        /\ lent' = [b \in Buffers |-> IF asked[n].op \in {"free", "pfree"} /\ b = asked[n].co
                                      THEN NoThread ELSE lent[b]]
    BY <1>3 DEF Serve
  <2>2. PICK a \in Answers : a = [co |-> NoBuffer, ok |-> TRUE] /\ a # NoAnswer
        /\ a.co = NoBuffer
    BY <1>c, <1>d
  <2>5. answer'[n] = a
    BY <1>0, <2>1, <2>2 DEF ControlType
  <2>3. asked[n].op \in {"free", "pfree"} =>
          asked[n].co \in Buffers /\ asked[n].co \in Owes(n) /\ lent[asked[n].co] = n
    BY <1>0, <1>a, <1>f, Waits DEF LentOK
  <2>6. ASSUME NEW e \in Buffers PROVE lent'[e] = n <=> e \in Owes(n)'
    <3>1. lent'[e] = n <=> lent[e] = n
          /\ ~(asked[n].op \in {"free", "pfree"} /\ e = asked[n].co)
      BY <1>f, <2>1
    <3>2. e \in Owes(n)' <=>
            e \in Owes(n) /\ ~(asked[n].op \in {"free", "pfree"} /\ e = asked[n].co)
      BY <1>a, <1>d, <1>3, <2>2, <2>5, Constants DEF Owes
    <3> QED
      BY <1>0, <3>1, <3>2 DEF LentOK
  <2>7. lent' \in [Buffers -> Threads \cup {NoThread, Astray}]
    BY <1>0, <2>1 DEF DataType
  <2>8. \A e \in Buffers, m \in Threads \ {n} : lent'[e] = m <=> lent[e] = m
    BY <2>1, <2>3, CoresThreads
  <2> QED
    BY <1>e, <1>3, <2>1, <2>2, <2>6, <2>7, <2>8
<1>4. CASE ServeWrong(n)
  <2>1. /\ asked[n].op = "palloc"
        /\ answer' = [answer EXCEPT ![n] = [co |-> NoBuffer, ok |-> FALSE]]
    BY <1>4 DEF ServeWrong
  <2>2. PICK b \in Buffers : lent[b] = NoThread /\ lent' = [lent EXCEPT ![b] = Astray]
    BY <1>4 DEF ServeWrong
  <2>3. PICK a \in Answers : a = [co |-> NoBuffer, ok |-> FALSE] /\ a # NoAnswer
                             /\ a.co = NoBuffer /\ ~a.ok
    BY <1>c, <1>d
  <2>4. answer'[n] = a
    BY <1>0, <2>1, <2>3 DEF ControlType
  <2>5. lent' \in [Buffers -> Threads \cup {NoThread, Astray}]
        /\ \A e \in Buffers, m \in Threads : lent'[e] = m <=> lent[e] = m
    BY <1>0, <2>2, CoresThreads DEF DataType
  <2>6. ASSUME NEW e \in Buffers PROVE lent'[e] = n <=> e \in Owes(n)'
    <3>1. e \in Owes(n)' <=> e \in Owes(n)
      BY <1>a, <1>d, <2>1, <2>3, <2>4, Constants DEF Owes
    <3> QED
      BY <1>0, <2>5, <3>1 DEF LentOK
  <2> QED
    BY <1>e, <2>1, <2>3, <2>5, <2>6
<1> QED
  BY <1>1, <1>2, <1>3, <1>4

\* A thread without a call owes the argument that it caches, and nothing else.
LEMMA AtRest ==
    ASSUME LoanInv, NEW n \in Threads, pc[n] \in {"free", "exit"}
    PROVE  /\ asked[n] = NoRpc /\ answer[n] = NoAnswer
           /\ rpc_arg[n] = rpc_mobj[n] /\ rpc_mobj[n] \in Bufs
           /\ shm_cache[n] = NoBuffer /\ call[n].drop = NoBuffer
           /\ \A b : b \in Owes(n) <=> b = rpc_mobj[n] /\ b # NoBuffer
           /\ ~thread_prealloc_rpc_cache => rpc_mobj[n] = NoBuffer
<1>1. asked[n] = NoRpc /\ answer[n] = NoAnswer
  BY DEF LoanInv, ControlOK, AnswerOK, AfterRpc
<1>2. /\ rpc_arg[n] = rpc_mobj[n] /\ shm_cache[n] = NoBuffer
      /\ ~thread_prealloc_rpc_cache => rpc_mobj[n] = NoBuffer
  BY DEF LoanInv, DataOK, ArgOK, OwnOK, Ends
<1>3. call[n].drop = NoBuffer /\ rpc_mobj[n] \in Bufs
  BY DEF LoanInv, DataOK, CommandOK, DataType
<1>4. \A b : b \in Owes(n) <=> b = rpc_mobj[n] /\ b # NoBuffer
  BY <1>1, <1>2, <1>3, Constants DEF Owes
<1> QED
  BY <1>1, <1>2, <1>3, <1>4

\* When no thread has a call, each is at its first place.
LEMMA IdleAtRest ==
    ASSUME LoanInv, Idle, NEW n \in Threads
    PROVE  pc[n] = "free"
BY DEF LoanInv, ControlOK, AnswerOK, Idle

\* What disabling and enabling the cache leave alone.
LEMMA IdleControl ==
    ASSUME LoanInv, UNCHANGED <<sched, x, pc, asked, answer>>
    PROVE  ControlOK' /\ \A m \in Threads : SameControl(m)
<1> USE DEF sched
<1>1. \A m \in Threads : SameControl(m)
  BY DEF SameControl
<1>2. ControlType'
  BY DEF LoanInv, ControlOK, ControlType
<1>3. \A m \in Threads : AnswerOK(m)'
  BY DEF LoanInv, ControlOK, AnswerOK
<1>4. \A c \in Cores : CoreOK(c)'
  BY DEF LoanInv, ControlOK, CoreOK
<1> QED
  BY <1>1, <1>2, <1>3, <1>4 DEF ControlOK

\* An idle thread may lose its cached argument.
LEMMA RestOK ==
    ASSUME LoanInv, Idle, NEW m \in Threads, SameControl(m),
           UNCHANGED <<shm_cache, call>>, rpc_arg'[m] = rpc_mobj'[m],
           thread_prealloc_rpc_cache' \/ rpc_mobj'[m] = NoBuffer
    PROVE  DataOK(m)' /\ \A b : b \in Owes(m)' <=> b = rpc_mobj'[m] /\ b # NoBuffer
<1>0. pc[m] = "free" /\ DataOK(m)
  BY IdleAtRest DEF LoanInv
<1>1. /\ asked'[m] = NoRpc /\ answer'[m] = NoAnswer /\ pc'[m] = "free"
      /\ shm_cache'[m] = NoBuffer /\ call'[m] = call[m] /\ call'[m].drop = NoBuffer
  BY <1>0, AtRest DEF SameControl
<1>2. DataOK(m)'
  BY <1>0, <1>1, Constants DEF DataOK, ArgOK, InLoop, CommandOK, AskedOK, OwnOK, Ends
<1>3. \A b : b \in Owes(m)' <=> b = rpc_mobj'[m] /\ b # NoBuffer
  BY <1>1, Constants DEF Owes
<1> QED
  BY <1>2, <1>3

\* OPTEE_SMC_ENABLE_SHM_CACHE asks nothing of the threads.
LEMMA EnableKeeps ==
    ASSUME LoanInv, IInv', Enable
    PROVE  LoanInv'
<1> USE DEF Enable
<1>1. ControlOK' /\ \A m \in Threads : SameControl(m)
  BY IdleControl
<1>2. \A m \in Threads : DataOK(m)' /\ \A b : b \in Owes(m)' <=> b \in Owes(m)
  <2> SUFFICES ASSUME NEW m \in Threads
               PROVE  DataOK(m)' /\ \A b : b \in Owes(m)' <=> b \in Owes(m)
    OBVIOUS
  <2>1. pc[m] = "free"
    BY IdleAtRest
  <2>2. rpc_arg'[m] = rpc_mobj'[m] /\ \A b : b \in Owes(m) <=> b = rpc_mobj[m]
        /\ b # NoBuffer
    BY <2>1, AtRest
  <2>3. DataOK(m)' /\ \A b : b \in Owes(m)' <=> b = rpc_mobj'[m] /\ b # NoBuffer
    BY <1>1, <2>2, RestOK
  <2> QED
    BY <2>2, <2>3
<1>3. DataType'
  BY DEF LoanInv, DataType
<1>4. LentOK'
  BY <1>2 DEF LoanInv, LentOK
<1> QED
  BY <1>1, <1>2, <1>3, <1>4 DEF LoanInv

\* OPTEE_SMC_DISABLE_SHM_CACHE takes one cached argument, or finds none.
LEMMA DisableKeeps ==
    ASSUME LoanInv, IInv', Disable
    PROVE  LoanInv'
<1> USE DEF Disable
<1>1. Idle /\ ControlOK' /\ \A m \in Threads : SameControl(m)
  BY IdleControl
<1>2. ASSUME NEW m \in Threads
      PROVE  /\ rpc_arg[m] = rpc_mobj[m] /\ rpc_mobj[m] \in Bufs
             /\ \A b : b \in Owes(m) <=> b = rpc_mobj[m] /\ b # NoBuffer
             /\ ~thread_prealloc_rpc_cache => rpc_mobj[m] = NoBuffer
  BY <1>1, IdleAtRest, AtRest
<1>3. CASE \A n \in Threads : rpc_arg[n] = NoBuffer /\ rpc_mobj' = rpc_mobj
           /\ thread_prealloc_rpc_cache' = FALSE /\ UNCHANGED <<rpc_arg, lent>>
  <2>1. ASSUME NEW m \in Threads
        PROVE  DataOK(m)' /\ \A b : b \in Owes(m)' <=> b \in Owes(m)
    <3>1. rpc_arg'[m] = rpc_mobj'[m] /\ rpc_mobj'[m] = NoBuffer /\ rpc_mobj[m] = NoBuffer
      BY <1>2, <1>3
    <3>2. DataOK(m)' /\ \A b : b \in Owes(m)' <=> b = rpc_mobj'[m] /\ b # NoBuffer
      BY <1>1, <3>1, RestOK
    <3> QED
      BY <1>2, <3>1, <3>2
  <2>2. DataType' /\ LentOK'
    BY <1>3, <2>1 DEF LoanInv, DataType, LentOK
  <2> QED
    BY <1>1, <2>1, <2>2 DEF LoanInv
<1>4. ASSUME NEW n \in Threads, rpc_arg[n] # NoBuffer,
             rpc_arg' = Set(rpc_arg, n, NoBuffer), rpc_mobj' = Set(rpc_mobj, n, NoBuffer),
             lent' = [b \in Buffers |-> IF b = rpc_mobj[n] THEN NoThread ELSE lent[b]],
             UNCHANGED thread_prealloc_rpc_cache
      PROVE  LoanInv'
  <2>1. /\ rpc_arg' = [rpc_arg EXCEPT ![n] = NoBuffer]
           /\ rpc_mobj' = [rpc_mobj EXCEPT ![n] = NoBuffer]
        /\ NoBuffer \in Bufs
    BY <1>4 DEF Set, Bufs
  <2>2. DataType'
    BY <1>4, <2>1 DEF LoanInv, DataType
  <2>3. ASSUME NEW m \in Threads
        PROVE  DataOK(m)' /\ \A b : b \in Owes(m)' <=> b \in Owes(m) /\ m # n
    <3>1. rpc_arg'[m] = rpc_mobj'[m]
          /\ rpc_mobj'[m] = IF m = n THEN NoBuffer ELSE rpc_mobj[m]
      BY <1>2, <2>1 DEF LoanInv, DataType
    <3>2. DataOK(m)' /\ \A b : b \in Owes(m)' <=> b = rpc_mobj'[m] /\ b # NoBuffer
      BY <1>1, <1>2, <1>4, <3>1, RestOK DEF LoanInv, DataType
    <3> QED
      BY <1>2, <3>1, <3>2
  <2>4. lent[rpc_mobj[n]] = n
    BY <1>2, <1>4 DEF LoanInv, LentOK, Bufs
  <2>5. LentOK'
    <3> SUFFICES ASSUME NEW m \in Threads, NEW b \in Buffers
                 PROVE  lent'[b] = m <=> b \in Owes(m)'
      BY DEF LentOK
    <3>1. lent[b] = m <=> b \in Owes(m)
      BY DEF LoanInv, LentOK
    <3>2. lent'[b] = IF b = rpc_mobj[n] THEN NoThread ELSE lent[b]
      BY <1>4
    <3>3. m # NoThread
      BY CoresThreads
    <3>4. CASE m = n
      BY <1>2, <2>3, <3>1, <3>2, <3>3, <3>4
    <3>5. CASE m # n
      BY <2>3, <2>4, <3>1, <3>2, <3>3, <3>5
    <3> QED
      BY <3>4, <3>5
  <2> QED
    BY <1>1, <2>2, <2>3, <2>5 DEF LoanInv
<1> QED
  <2>1. CASE \E n \in Threads :
            /\ rpc_arg[n] # NoBuffer
            /\ rpc_arg' = Set(rpc_arg, n, NoBuffer)
               /\ rpc_mobj' = Set(rpc_mobj, n, NoBuffer)
            /\ lent' = [b \in Buffers |-> IF b = rpc_mobj[n] THEN NoThread ELSE lent[b]]
            /\ UNCHANGED thread_prealloc_rpc_cache
    BY <1>4, <2>1
  <2> QED
    BY <1>3, <2>1

\* The initial state.
LEMMA LoanInit == Init => LoanInv
<1> SUFFICES ASSUME Init PROVE LoanInv
  OBVIOUS
<1> USE DEF Init
<1>1. IInv
  BY CoresThreads DEF IInv, PlaceType, CoreHasThread, ThreadOnOneCore
<1>2. ControlOK
  <2>1. ControlType
    BY Constants DEF ControlType, Pcs, Masked
  <2> QED
    BY <2>1 DEF ControlOK, CoreOK, AnswerOK, AfterRpc
<1>3. NoCall \in Locals /\ NoCall.ok = FALSE /\ NoCall.drop = NoBuffer
      /\ NoCall.saved = NoBuffer
  BY CoresThreads DEF NoCall, Locals, Bufs
<1>4. DataType
  BY <1>3 DEF DataType, Bufs
<1>5. \A n \in Threads : DataOK(n)
  BY <1>3, Constants DEF DataOK, ArgOK, InLoop, CommandOK, AskedOK, OwnOK, Ends
<1>6. \A n \in Threads : \A b : b \notin Owes(n)
  BY <1>3, Constants DEF Owes
<1>7. LentOK
  BY <1>6, CoresThreads DEF LentOK
<1> QED
  BY <1>1, <1>2, <1>4, <1>5, <1>7 DEF LoanInv

\* A step of a call keeps the invariant.
LEMMA StepKeeps ==
    ASSUME LoanInv, NEW c \in Cores, NEW n \in Threads, Step(c, n)
    PROVE  Keeps(n)
BY EntryStdKeeps, BadArgKeeps, ReplacedKeeps, WorkKeeps, AllocedKeeps, DroppedKeeps,
     SendKeeps,
   SentKeeps, OcallKeeps, OcalledKeeps, UnpreparedKeeps, ClearKeeps, ClearedKeeps,
        ExitKeeps DEF Step

\* So does every step of the system.
LEMMA LoanStep == LoanInv /\ [Next]_vars => LoanInv'
<1> SUFFICES ASSUME LoanInv, [Next]_vars PROVE LoanInv'
  OBVIOUS
<1>0. IInv'
  BY NextPlace, PlaceStepKeeps DEF LoanInv, IInv
<1>1. CASE UNCHANGED vars
  <2> USE <1>1 DEF vars, bufs, sched
  <2>1. ControlOK' /\ \A m \in Threads : SameControl(m) /\ SameData(m)
    BY IdleControl DEF SameData
  <2>2. DataType'
    BY DEF LoanInv, DataType
  <2>3. \A m \in Threads : DataOK(m)' /\ SameDebt(m)
    BY <2>1, Unconcerned DEF LoanInv
  <2>4. LentOK'
    BY <2>3 DEF LoanInv, LentOK, SameDebt
  <2> QED
    BY <1>0, <2>1, <2>2, <2>3, <2>4 DEF LoanInv
<1>2. CASE Disable
  BY <1>0, <1>2, DisableKeeps
<1>3. CASE Enable
  BY <1>0, <1>3, EnableKeeps
<1>4. CASE \E n \in Threads : Serve(n) \/ ServeWrong(n)
  BY <1>0, <1>4, ServeKeeps
<1>5. ASSUME NEW c \in Cores, Start(c) PROVE LoanInv'
  BY <1>0, <1>5, StartKeeps, KeepsAll
<1>6. ASSUME NEW c \in Cores, Continue(c) PROVE LoanInv'
  BY <1>0, <1>6, ContinueKeeps, KeepsAll
<1>7. ASSUME NEW c \in Cores, NEW n \in Threads, NEW supplied \in BOOLEAN, Call(c, n, supplied)
      PROVE  LoanInv'
  BY <1>0, <1>7, CallKeeps, KeepsAll
<1>8. ASSUME NEW c \in Cores, NEW n \in Threads, Resume(c, n) PROVE LoanInv'
  BY <1>0, <1>8, ResumeKeeps, KeepsAll
<1>9. ASSUME NEW c \in Cores, NEW n \in Threads, Preempt(c, n) PROVE LoanInv'
  BY <1>0, <1>9, PreemptKeeps, KeepsAll
<1>10. ASSUME NEW c \in Cores, NEW n \in Threads, Step(c, n) PROVE LoanInv'
  BY <1>0, <1>10, StepKeeps, KeepsAll
<1> QED
  BY <1>1, <1>2, <1>3, <1>4, <1>5, <1>6, <1>7, <1>8, <1>9, <1>10 DEF Next

\* The invariant of the buffers holds in every behaviour.
THEOREM Inductive == Spec => []LoanInv
BY LoanInit, LoanStep, PTL DEF Spec

\* What a thread reads after an RPC is the answer to that RPC, on whichever core it was
\* resumed, and the normal world finds a command where it is told to look for it:
\* thread_resume_from_rpc(), thread_rpc_cmd().
THEOREM RepliesToTheirRpc == Spec => []RpcsMatch
<1>1. LoanInv => RpcsMatch
  <2> SUFFICES ASSUME LoanInv PROVE RpcsMatch
    OBVIOUS
  <2>1. ASSUME NEW n \in Threads
        PROVE  \/ x[n] = Own /\ ((\E c \in Cores : cpu[c] = "run" /\ curr_thread[c] = n) =>
                                   pc[n] \notin AfterRpc)
               \/ x[n] = answer[n] /\ pc[n] \in AfterRpc
    BY DEF LoanInv, ControlOK, AnswerOK, CoreOK
  <2>2. ASSUME NEW n \in Threads, asked[n].op \in {"cmd", "palloc", "pfree"}
        PROVE  asked[n].arg = IF asked[n].carg = NoBuffer THEN Supplied ELSE asked[n].carg
    <3>0. DataOK(n) /\ AnswerOK(n)
      BY DEF LoanInv, ControlOK
    <3>1. pc[n] \in AfterRpc
      BY <2>2, <3>0, Constants DEF AnswerOK
    <3>2. pc[n] = "sent"
      BY <2>2, <3>0, <3>1 DEF AfterRpc, DataOK, AskedOK
    <3>3. asked[n].arg = rpc_arg[n] /\ asked[n].carg = rpc_mobj[n] /\ rpc_arg[n] # NoBuffer
      BY <3>0, <3>2 DEF DataOK, AskedOK, CommandOK
    <3>4. rpc_arg[n] = IF rpc_mobj[n] = NoBuffer THEN Supplied ELSE rpc_mobj[n]
      BY <3>0, <3>2, <3>3 DEF DataOK, ArgOK, Ends
    <3> QED
      BY <3>3, <3>4
  <2>3. RepliesIntact
    BY <2>1 DEF RepliesIntact
  <2>4. CommandWhereTold
    BY <2>2 DEF CommandWhereTold
  <2> QED
    BY <2>3, <2>4 DEF RpcsMatch
<1> QED
  BY <1>1, Inductive, PTL

\* The state is in its types, and the buffers that the normal world has lent to a thread,
\* but for the payloads that it described wrongly and get_rpc_alloc_res() forgot, are the
\* ones that the thread still knows of, at every step of call_entry_std() and of the RPCs
\* of its request.
THEOREM BuffersAccounted == Spec => []LoansExact
<1>1. LoanInv => LoansExact
  <2> SUFFICES ASSUME LoanInv PROVE LoansExact
    OBVIOUS
  <2>1. TypeOK
    BY DEF LoanInv, IInv, PlaceType, ControlOK, ControlType, DataType, Locals, TypeOK
  <2>2. ASSUME NEW n \in Threads PROVE {b \in Buffers : lent[b] = n} = Owes(n)
    <3>1. \A b : b \in Owes(n) => b \in Buffers
      <4>1. /\ rpc_mobj[n] \in Bufs /\ shm_cache[n] \in Bufs /\ call[n].drop \in Bufs
        BY Fields DEF LoanInv
      <4>2. answer[n].co \in Bufs
        <5>1. answer[n] \in Answers \/ answer[n] = NoAnswer
          BY DEF LoanInv, ControlOK, ControlType
        <5> QED
          BY <5>1, Constants DEF Answers, Bufs
      <4>3. asked[n].co \in Bufs
        <5>1. asked[n] \in Rpcs
          BY DEF LoanInv, ControlOK, ControlType
        <5> QED
          BY <5>1, Constants DEF Rpcs, Bufs
      <4> QED
        BY <4>1, <4>2, <4>3 DEF Owes, Bufs
    <3>2. \A b \in Buffers : lent[b] = n <=> b \in Owes(n)
      BY DEF LoanInv, LentOK
    <3> QED
      BY <3>1, <3>2
  <2>3. ASSUME NEW n \in Threads, asked[n].op \in {"free", "pfree"}, answer[n] = NoAnswer
        PROVE  lent[asked[n].co] = n
    <3>1. pc[n] \in AfterRpc
      BY <2>3, Constants DEF LoanInv, ControlOK, AnswerOK
    <3>2. asked[n].co \in Buffers /\ asked[n].co \in Owes(n)
      BY <2>3, <3>1, Waits
    <3> QED
      BY <3>2 DEF LoanInv, LentOK
  <2>4. BuffersExact
    BY <2>2, <2>3 DEF BuffersExact
  <2> QED
    BY <2>1, <2>4 DEF LoansExact
<1> QED
  BY <1>1, Inductive, PTL

\* What the normal world sees of the threads does not change while no call begins or ends.
LEMMA SameBusy ==
    ASSUME PlaceType, NEW c \in Cores, NEW n \in Threads, state[n] # "FREE",
           \E s \in {"ACTIVE", "SUSPENDED"} : state' = [state EXCEPT ![n] = s]
    PROVE  [m \in Threads |-> state[m] # "FREE"] = [m \in Threads |-> state[m] # "FREE"]'
<1>1. \A m \in Threads : (state'[m] # "FREE") = (state[m] # "FREE")
  BY DEF PlaceType
<1> QED
  BY <1>1

\* A step that leaves a thread with its call, and every buffer with its thread, is one
\* that the normal world does not see.
LEMMA Unseen ==
    ASSUME LoanInv, NEW c \in Cores, NEW n \in Threads,
           Resume(c, n) \/ Preempt(c, n) \/ (Step(c, n) /\ ~Exit(c, n))
    PROVE  UNCHANGED Loans!vars
<1>0. IInv /\ PlaceType
  BY DEF LoanInv, IInv
<1>1. Keeps(n)
  BY ResumeKeeps, PreemptKeeps, StepKeeps
<1>2. UNCHANGED <<lent, thread_prealloc_rpc_cache>>
  BY <1>1 DEF Keeps
<1>3. \/ UNCHANGED state
      \/ state[n] # "FREE"
         /\ \E s \in {"ACTIVE", "SUSPENDED"} : state' = [state EXCEPT ![n] = s]
  <2>1. CASE Resume(c, n)
    BY <2>1 DEF Resume
  <2>2. CASE Preempt(c, n)
    BY <1>0, <2>2 DEF Preempt, Leave, IInv, ThreadOnOneCore
  <2>3. CASE Step(c, n) /\ ~Exit(c, n)
    <3>1. CASE UNCHANGED place
      BY <3>1 DEF place
    <3>2. CASE Gives(c, n, "SUSPENDED", "rpc")
      BY <1>0, <3>2 DEF Gives, IInv, ThreadOnOneCore
    <3> QED
      BY <2>3, <3>1, <3>2, StepStays
  <2> QED
    BY <2>1, <2>2, <2>3
<1>4. [m \in Threads |-> state[m] # "FREE"] = [m \in Threads |-> state[m] # "FREE"]'
  BY <1>0, <1>3, SameBusy
<1> QED
  BY <1>2, <1>4 DEF Loans!vars

\* The other steps: a call begins, ...
LEMMA CallSeen ==
    ASSUME LoanInv, NEW c \in Cores, NEW n \in Threads, NEW supplied \in BOOLEAN,
           Call(c, n, supplied)
    PROVE  Loans!Begin(n)
<1>1. state[n] = "FREE" /\ state' = [state EXCEPT ![n] = "ACTIVE"]
      /\ UNCHANGED <<lent, thread_prealloc_rpc_cache>>
  BY DEF Call, bufs
<1>2. [m \in Threads |-> state[m] # "FREE"]'
        = [[m \in Threads |-> state[m] # "FREE"] EXCEPT ![n] = TRUE]
  BY <1>1 DEF LoanInv, IInv, PlaceType
<1> QED
  BY <1>1, <1>2 DEF Loans!Begin

\* ... or returns, with at most the argument that its thread caches, ...
LEMMA ExitSeen ==
    ASSUME LoanInv, NEW c \in Cores, NEW n \in Threads, Exit(c, n)
    PROVE  Loans!Return(n)
<1>1. /\ pc[n] = "exit" /\ state[n] = "ACTIVE" /\ state' = [state EXCEPT ![n] = "FREE"]
      /\ UNCHANGED <<lent, thread_prealloc_rpc_cache>>
  BY DEF Exit, Leave, bufs, LoanInv, IInv, ThreadOnOneCore
<1>2. [m \in Threads |-> state[m] # "FREE"]'
        = [[m \in Threads |-> state[m] # "FREE"] EXCEPT ![n] = FALSE]
  BY <1>1 DEF LoanInv, IInv, PlaceType
<1> DEFINE L == {b \in Buffers : lent[b] = n}
<1>3. \A b \in L : b = rpc_mobj[n] /\ b # NoBuffer
  BY <1>1, AtRest DEF LoanInv, LentOK
<1>4. ~thread_prealloc_rpc_cache => rpc_mobj[n] = NoBuffer
  BY <1>1, AtRest
<1>5. L = {} \/ (thread_prealloc_rpc_cache /\ L = {rpc_mobj[n]})
  BY <1>3, <1>4 DEF LoanInv, DataType
<1>6. Cardinality(L) <= IF thread_prealloc_rpc_cache THEN 1 ELSE 0
  <2>1. CASE L = {}
    <3>1. Cardinality(L) = 0
      BY <2>1, FS_EmptySet
    <3> QED
      BY <3>1
  <2>2. CASE thread_prealloc_rpc_cache /\ L = {rpc_mobj[n]}
    <3>1. Cardinality(L) = 1
      BY <2>2, FS_Singleton
    <3> QED
      BY <2>2, <3>1
  <2> QED
    BY <1>5, <2>1, <2>2
<1>9. \A S : Loans!Cardinality(S) = Cardinality(S)
  BY DEF Loans!Cardinality, Cardinality
<1>7. Loans!Cardinality(Loans!LentTo(n)) <= IF thread_prealloc_rpc_cache THEN 1 ELSE 0
  BY <1>6, <1>9, Zenon DEF Loans!LentTo
<1>8. [m \in Threads |-> state[m] # "FREE"][n]
  BY <1>1
<1> QED
  BY <1>1, <1>2, <1>7, <1>8, Zenon DEF Loans!Return

\* ... the normal world lends a buffer or gets one back, ...
LEMMA ServeSeen ==
    ASSUME LoanInv, NEW n \in Threads, Serve(n)
    PROVE  [\E b \in Buffers : Loans!Lend(n, b) \/ Loans!GiveBack(n, b)]_(Loans!vars)
<1>0. /\ UNCHANGED <<state, thread_prealloc_rpc_cache>> /\ left[n] = "rpc"
         /\ answer[n] = NoAnswer
      /\ state[n] # "FREE" /\ lent \in [Buffers -> Threads \cup {NoThread, Astray}]
  BY DEF Serve, sched, LoanInv, IInv, PlaceType, ThreadOnOneCore, DataType
<1>1. [m \in Threads |-> state[m] # "FREE"][n]
      /\ [m \in Threads |-> state[m] # "FREE"]' = [m \in Threads |-> state[m] # "FREE"]
  BY <1>0
<1>2. ASSUME NEW b \in Buffers, lent[b] = NoThread, lent' = [lent EXCEPT ![b] = n]
      PROVE  Loans!Lend(n, b)
  BY <1>0, <1>1, <1>2 DEF Loans!Lend
<1>3. ASSUME asked[n].op \notin {"alloc", "palloc"},
             lent' = [b \in Buffers |-> IF asked[n].op \in {"free", "pfree"} /\ b = asked[n].co
                                        THEN NoThread ELSE lent[b]]
      PROVE  \/ lent' = lent
             \/ \E b \in Buffers : Loans!GiveBack(n, b)
  <2>1. CASE asked[n].op \in {"free", "pfree"}
    <3>1. pc[n] \in AfterRpc
      BY <1>0, <2>1, Constants DEF LoanInv, ControlOK, AnswerOK
    <3>2. asked[n].co \in Buffers /\ lent[asked[n].co] = n
      BY <1>0, <2>1, <3>1, Waits DEF LoanInv, LentOK
    <3>3. lent' = [lent EXCEPT ![asked[n].co] = NoThread]
      BY <1>0, <1>3, <2>1, <3>2
    <3> QED
      BY <1>0, <1>1, <3>2, <3>3 DEF Loans!GiveBack
  <2>2. CASE asked[n].op \notin {"free", "pfree"}
    <3>1. lent' = [b \in Buffers |-> lent[b]]
      BY <1>3, <2>2
    <3> QED
      BY <1>0, <3>1
  <2> QED
    BY <2>1, <2>2
<1>4. lent' = lent => UNCHANGED Loans!vars
  BY <1>0, <1>1 DEF Loans!vars
<1> QED
  BY <1>2, <1>3, <1>4 DEF Serve

\* ... or loses one that it described wrongly, ...
LEMMA ServeWrongSeen ==
    ASSUME LoanInv, NEW n \in Threads, ServeWrong(n)
    PROVE  \E b \in Buffers : Loans!LendWrong(n, b)
<1>1. /\ UNCHANGED <<state, thread_prealloc_rpc_cache>> /\ state[n] # "FREE"
  BY DEF ServeWrong, sched, LoanInv, IInv, PlaceType, ThreadOnOneCore
<1>2. [m \in Threads |-> state[m] # "FREE"][n]
      /\ [m \in Threads |-> state[m] # "FREE"]' = [m \in Threads |-> state[m] # "FREE"]
  BY <1>1
<1>3. PICK b \in Buffers : lent[b] = NoThread /\ lent' = [lent EXCEPT ![b] = Astray]
  BY DEF ServeWrong
<1> QED
  BY <1>1, <1>2, <1>3 DEF Loans!LendWrong

\* ... or the cache is disabled or enabled.
LEMMA CacheSeen ==
    ASSUME LoanInv, Disable \/ Enable
    PROVE  \/ Loans!Enable \/ Loans!Disable
           \/ \E n \in Threads, b \in Buffers : Loans!GiveBack(n, b)
<1>0. Idle /\ UNCHANGED state /\ lent \in [Buffers -> Threads \cup {NoThread, Astray}]
  BY DEF Disable, Enable, sched, LoanInv, DataType
<1>1. /\ [m \in Threads |-> state[m] # "FREE"]' = [m \in Threads |-> state[m] # "FREE"]
      /\ Loans!Idle
  BY <1>0 DEF Idle, Loans!Idle
<1>2. CASE Enable
  BY <1>1, <1>2 DEF Enable, Loans!Enable
<1>3. ASSUME \A n \in Threads : rpc_arg[n] = NoBuffer,
             thread_prealloc_rpc_cache' = FALSE, lent' = lent
      PROVE  Loans!Disable
  <2>1. ASSUME NEW n \in Threads, NEW b \in Buffers PROVE lent[b] # n
    BY <1>0, <1>3, <2>1, IdleAtRest, AtRest DEF LoanInv, LentOK
  <2> QED
    BY <1>1, <1>3, <2>1 DEF Loans!Disable, Loans!LentTo
<1>4. ASSUME NEW n \in Threads, rpc_arg[n] # NoBuffer,
             lent' = [b \in Buffers |-> IF b = rpc_mobj[n] THEN NoThread ELSE lent[b]],
             UNCHANGED thread_prealloc_rpc_cache
      PROVE  \E b \in Buffers : Loans!GiveBack(n, b)
  <2>1. rpc_mobj[n] \in Buffers /\ lent[rpc_mobj[n]] = n
    BY <1>0, <1>4, IdleAtRest, AtRest DEF LoanInv, LentOK, Bufs
  <2>2. lent' = [lent EXCEPT ![rpc_mobj[n]] = NoThread]
    BY <1>0, <1>4, <2>1
  <2> QED
    BY <1>1, <1>4, <2>1, <2>2 DEF Loans!GiveBack
<1> QED
  BY <1>2, <1>3, <1>4 DEF Disable

\* The threads keep the promise of BufferLoans to the normal world: a call gives back what
\* it was lent but for one cached argument and wrongly described payloads, and OPTEE_SMC_DISABLE_SHM_CACHE says that the
\* cache is empty only when it is.
THEOREM LoansImplemented == Spec => ImplementsLoans
<1>1. Init => Loans!Init
  <2> SUFFICES ASSUME Init PROVE Loans!Init
    OBVIOUS
  <2>1. [n \in Threads |-> state[n] # "FREE"] = [n \in Threads |-> FALSE]
    BY DEF Init
  <2>2. lent = [b \in Buffers |-> NoThread] /\ thread_prealloc_rpc_cache = FALSE
    BY DEF Init
  <2> QED
    BY <2>1, <2>2 DEF Loans!Init
<1>2. LoanInv /\ [Next]_vars => [Loans!Next]_(Loans!vars)
  <2> SUFFICES ASSUME LoanInv, [Next]_vars PROVE [Loans!Next]_(Loans!vars)
    OBVIOUS
  <2>1. CASE UNCHANGED vars
    BY <2>1 DEF vars, sched, bufs, Loans!vars
  <2>2. CASE Disable \/ Enable
    BY <2>2, CacheSeen DEF Loans!Next
  <2>3. ASSUME NEW n \in Threads, Serve(n) PROVE [Loans!Next]_(Loans!vars)
    BY <2>3, ServeSeen DEF Loans!Next
  <2>8. ASSUME NEW n \in Threads, ServeWrong(n) PROVE Loans!Next
    BY <2>8, ServeWrongSeen DEF Loans!Next
  <2>4. ASSUME NEW c \in Cores, Start(c) \/ Continue(c) PROVE UNCHANGED Loans!vars
    BY <2>4 DEF Start, Continue, bufs, Loans!vars
  <2>5. ASSUME NEW c \in Cores, NEW n \in Threads, NEW supplied \in BOOLEAN, Call(c, n, supplied)
        PROVE  Loans!Next
    BY <2>5, CallSeen DEF Loans!Next
  <2>6. ASSUME NEW c \in Cores, NEW n \in Threads,
               Resume(c, n) \/ Preempt(c, n) \/ (Step(c, n) /\ ~Exit(c, n))
        PROVE  UNCHANGED Loans!vars
    BY <2>6, Unseen
  <2>7. ASSUME NEW c \in Cores, NEW n \in Threads, Exit(c, n)
        PROVE  Loans!Next
    BY <2>7, ExitSeen DEF Loans!Next
  <2> QED
    BY <2>1, <2>2, <2>3, <2>4, <2>5, <2>6, <2>7, <2>8 DEF Next
<1> QED
  BY <1>1, <1>2, Inductive, PTL DEF Spec, ImplementsLoans, Loans!Spec

=============================================================================
