----------------------------- MODULE TaskChannel -----------------------------
(***************************************************************************)
(* What event_loop::add_task promises its callers: the task they hand over *)
(* is run by the loop's thread, once, after every task handed over before  *)
(* it.  Nothing is said of wake-ups, of locks or of the eventfd.           *)
(***************************************************************************)
EXTENDS Sequences

CONSTANT Task

VARIABLES
    pending,  \* handed over, not yet started: in the order of hand-over
    done      \* started by the loop: in the order of execution

vars == <<pending, done>>

Init ==
    /\ pending = <<>>
    /\ done = <<>>

Post(task) ==
    /\ pending' = Append(pending, task)
    /\ UNCHANGED done

Execute ==
    /\ pending # <<>>
    /\ done' = Append(done, Head(pending))
    /\ pending' = Tail(pending)

Next ==
    \/ \E task \in Task : Post(task)
    \/ Execute

SafeSpec == Init /\ [][Next]_vars

Spec == SafeSpec /\ WF_vars(Execute)

==============================================================================
