---------------------------- MODULE ObjectStore ----------------------------
(***************************************************************************)
(* What the directory of secure storage promises: names that stand for     *)
(* files, changed one at a time.                                           *)
(***************************************************************************)
CONSTANTS Id, Files, None

VARIABLE objs       \* the file of each name

Used == {objs[id] : id \in Id} \ {None}

Init == objs = [id \in Id |-> None]

\* a new object, in the place of one of that name if there is one
Create(id) == \E f \in Files \ Used : objs' = [objs EXCEPT ![id] = f]

Delete(id) == objs[id] # None /\ objs' = [objs EXCEPT ![id] = None]

Rename(old, new) ==
    /\ objs[old] # None /\ objs[new] = None
    /\ objs' = [objs EXCEPT ![old] = None, ![new] = objs[old]]

Next ==
    /\ objs' # objs
    /\ \/ \E id \in Id : Create(id) \/ Delete(id)
       \/ \E old, new \in Id : Rename(old, new)

Spec == Init /\ [][Next]_objs
=============================================================================
