---------------------------- MODULE RouteRegister ----------------------------
(***************************************************************************)
(* What route::get_hosts promises its callers: the routes behave as one    *)
(* register that the check thread overwrites as a whole.  A caller looks   *)
(* at one complete snapshot of the RouteData table, which does not change  *)
(* under it, and a later call never looks at an older one.                 *)
(***************************************************************************)
EXTENDS Naturals

CONSTANTS
    Readers,
    Snapshots,  \* complete contents of RouteData: records with a field "ver"
    First,      \* the contents at startup
    None

VARIABLES
    current,  \* what a call that starts now will look at
    view      \* reader -> the snapshot it is looking at, or None

vars == <<current, view>>

Init ==
    /\ current = First
    /\ view = [r \in Readers |-> None]

Publish ==
    /\ current' \in Snapshots
    /\ current'.ver >= current.ver
    /\ UNCHANGED view

Take(r) ==
    /\ view[r] = None
    /\ view' = [view EXCEPT ![r] = current]
    /\ UNCHANGED current

Drop(r) ==
    /\ view' = [view EXCEPT ![r] = None]
    /\ UNCHANGED current

Next ==
    \/ Publish
    \/ \E r \in Readers : Take(r) \/ Drop(r)

Spec == Init /\ [][Next]_vars

==============================================================================
