---------------------------- MODULE ShmRegistry ----------------------------
(***************************************************************************)
(* What the normal world is promised about a buffer that it has registered *)
(* under a cookie (mobj.h, entry_std.c): it can be used while registered,  *)
(* and when the request to unregister it has succeeded, no request uses it *)
(* any more.                                                               *)
(***************************************************************************)
CONSTANTS Threads, Cookies

VARIABLES
    state,      \* "gone", "shared" or "leaving"
    users       \* the threads whose request uses the buffer

vars == <<state, users>>

Init ==
    /\ state = [c \in Cookies |-> "gone"]
    /\ users = [c \in Cookies |-> {}]

Moves(c, from, to) ==
    state[c] = from /\ state' = [state EXCEPT ![c] = to] /\ UNCHANGED users

Register(c) == Moves(c, "gone", "shared")

Begin(t, c) ==
    /\ state[c] = "shared"
    /\ users' = [users EXCEPT ![c] = @ \cup {t}]
    /\ UNCHANGED state

End(t, c) ==
    /\ t \in users[c]
    /\ users' = [users EXCEPT ![c] = @ \ {t}]
    /\ UNCHANGED state

Unregister(c) == Moves(c, "shared", "leaving")

Unregistered(c) == users[c] = {} /\ Moves(c, "leaving", "gone")

Next ==
    \E c \in Cookies :
        \/ Register(c) \/ Unregister(c) \/ Unregistered(c)
        \/ \E t \in Threads : Begin(t, c) \/ End(t, c)

Spec == Init /\ [][Next]_vars
=============================================================================
