------------------------------ MODULE MCDnsPush ------------------------------
(***************************************************************************)
(* Two keys with the same cmdid, ints of four bits, and two connections.   *)
(* The encoding of all messages is evaluated on its own in RoundTrips.     *)
(***************************************************************************)
EXTENDS DnsPush, RoundTrips

MCSubKey == <<1, 2>>

MCKeys == {<<1, 2>>, <<5, 2>>}

==============================================================================
