---------------------------- MODULE BufferLoans ----------------------------
(***************************************************************************)
(* What the normal world is promised about the buffers that it lends to    *)
(* the threads of the core (optee_smc.h): it lends a buffer to a call in   *)
(* progress; a call gives back what it was lent, except for one argument   *)
(* that stays with its thread while the cache is enabled and for the       *)
(* payloads that were lent with a wrong size or attribute, which stay lent *)
(* for good; and the cache is disabled only when nothing is left in it.    *)
(***************************************************************************)
EXTENDS FiniteSets, Naturals

CONSTANTS Threads, Buffers, NoThread, Astray

VARIABLES
    busy,       \* whether the thread has a call
    lent,       \* the thread that a buffer is lent to, or Astray
    caching

vars == <<busy, lent, caching>>

Init ==
    /\ busy = [n \in Threads |-> FALSE]
    /\ lent = [b \in Buffers |-> NoThread]
    /\ caching = FALSE

LentTo(n) == {b \in Buffers : lent[b] = n}
Idle == \A n \in Threads : ~busy[n]

Begin(n) ==
    /\ ~busy[n] /\ busy' = [busy EXCEPT ![n] = TRUE]
    /\ UNCHANGED <<lent, caching>>

Lend(n, b) ==
    /\ busy[n] /\ lent[b] = NoThread
    /\ lent' = [lent EXCEPT ![b] = n]
    /\ UNCHANGED <<busy, caching>>

LendWrong(n, b) ==
    /\ busy[n] /\ lent[b] = NoThread
    /\ lent' = [lent EXCEPT ![b] = Astray]
    /\ UNCHANGED <<busy, caching>>

GiveBack(n, b) ==
    /\ lent[b] = n /\ (busy[n] \/ Idle)
    /\ lent' = [lent EXCEPT ![b] = NoThread]
    /\ UNCHANGED <<busy, caching>>

Return(n) ==
    /\ busy[n] /\ busy' = [busy EXCEPT ![n] = FALSE]
    /\ Cardinality(LentTo(n)) <= IF caching THEN 1 ELSE 0
    /\ UNCHANGED <<lent, caching>>

Enable == Idle /\ caching' = TRUE /\ UNCHANGED <<busy, lent>>

Disable ==
    /\ Idle /\ \A n \in Threads : LentTo(n) = {}
    /\ caching' = FALSE /\ UNCHANGED <<busy, lent>>

Next ==
    \/ Enable \/ Disable
    \/ \E n \in Threads :
        \/ Begin(n) \/ Return(n)
        \/ \E b \in Buffers : Lend(n, b) \/ LendWrong(n, b) \/ GiveBack(n, b)

Spec == Init /\ [][Next]_vars
=============================================================================
