------------------------------ MODULE Monitor ------------------------------
(***************************************************************************)
(* What core/include/kernel/mutex.h promises to the rest of the core: a    *)
(* monitor with shared and exclusive entry and condition variables.        *)
(* Waiting on a condition variable gives up the lock and starts to wait in *)
(* one step; only a signal or a broadcast on that variable ends the wait;  *)
(* and the thread then enters again with the kind of lock it gave up.      *)
(* No queue, no notification and no lock word appears here.                *)
(***************************************************************************)
CONSTANTS Threads, CondVars, Modes, NoCv

VARIABLES
    place,  \* "out", "entering", "in" or "waiting", for each thread
    kind,   \* the kind of lock a thread has or wants
    on      \* the condition variable a thread waits on

vars == <<place, kind, on>>

Init ==
    /\ place = [t \in Threads |-> "out"]
    /\ kind = [t \in Threads |-> "write"]
    /\ on = [t \in Threads |-> NoCv]

Compatible(k) ==
    \A u \in Threads : place[u] = "in" => (k = "read" /\ kind[u] = "read")

Call(t, k) ==
    /\ place[t] = "out"
    /\ place' = [place EXCEPT ![t] = "entering"]
    /\ kind' = [kind EXCEPT ![t] = k]
    /\ UNCHANGED on

Enter(t) ==
    /\ place[t] = "entering"
    /\ Compatible(kind[t])
    /\ place' = [place EXCEPT ![t] = "in"]
    /\ UNCHANGED <<kind, on>>

TryEnter(t, k) ==
    /\ place[t] = "out"
    /\ Compatible(k)
    /\ place' = [place EXCEPT ![t] = "in"]
    /\ kind' = [kind EXCEPT ![t] = k]
    /\ UNCHANGED on

Leave(t) ==
    /\ place[t] = "in"
    /\ place' = [place EXCEPT ![t] = "out"]
    /\ kind' = [kind EXCEPT ![t] = "write"]
    /\ UNCHANGED on

Wait(t, cv) ==
    /\ place[t] = "in"
    /\ place' = [place EXCEPT ![t] = "waiting"]
    /\ on' = [on EXCEPT ![t] = cv]
    /\ UNCHANGED kind

\* The threads in W stop waiting and enter again.
WakeUp(W) ==
    /\ place' = [u \in Threads |-> IF u \in W THEN "entering" ELSE place[u]]
    /\ on' = [u \in Threads |-> IF u \in W THEN NoCv ELSE on[u]]
    /\ UNCHANGED kind

Waiting(cv) == {u \in Threads : place[u] = "waiting" /\ on[u] = cv}

Signal(t, cv) ==
    /\ place[t] = "in"
    /\ \E u \in Waiting(cv) : WakeUp({u})

Broadcast(t, cv) ==
    /\ place[t] = "in"
    /\ WakeUp(Waiting(cv))

Next ==
    \E t \in Threads :
        \/ \E k \in Modes : Call(t, k) \/ TryEnter(t, k)
        \/ Enter(t) \/ Leave(t)
        \/ \E cv \in CondVars : Wait(t, cv) \/ Signal(t, cv) \/ Broadcast(t, cv)

Spec == Init /\ [][Next]_vars
=============================================================================
