----------------------------- MODULE MCRouteSwap -----------------------------
(***************************************************************************)
(* Two readers that may keep different objects while the table is loaded   *)
(* and swapped three times; five objects are the most that can be in use:  *)
(* the two maps, a copy, and one held by each reader.                      *)
(***************************************************************************)
EXTENDS RouteSwap, TLC

Symmetry == Permutations(Readers) \cup Permutations(Objects)

==============================================================================
