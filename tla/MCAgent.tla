------------------------------- MODULE MCAgent -------------------------------
(***************************************************************************)
(* Two clients that ask two servers for the key that lars_dns pushes: with *)
(* the dns client's loop, three threads in the map of one route_lb.        *)
(***************************************************************************)
EXTENDS Agent

MCSubKey == <<1, 2>>

MCKeys == {MCSubKey}

==============================================================================
