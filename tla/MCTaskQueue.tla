----------------------------- MODULE MCTaskQueue -----------------------------
(***************************************************************************)
(* Two posting threads and the loop's own, two posts each: enough for two  *)
(* threads inside add() while the loop is between the read of the eventfd  *)
(* and the swap, and for a task that posts another one.                    *)
(***************************************************************************)
EXTENDS TaskQueue

==============================================================================
