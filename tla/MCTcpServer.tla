----------------------------- MODULE MCTcpServer -----------------------------
(***************************************************************************)
(* Three clients over two descriptor numbers: a number is reused while the *)
(* tasks and callbacks of its former owner are still under way.  The       *)
(* clients are interchangeable, so the safety run uses their symmetry.     *)
(***************************************************************************)
EXTENDS TcpServer, TLC

Symmetry == Permutations(Clients)

==============================================================================
