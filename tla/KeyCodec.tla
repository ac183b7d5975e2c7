------------------------------- MODULE KeyCodec -------------------------------
(***************************************************************************)
(* A module id and a command id, both int, as one uint64_t key, and back.  *)
(* dns_route and route_lb build the key, push_change_task splits it, and   *)
(* the subscription table uses what is left of it in an int.               *)
(*                                                                         *)
(* An int has as many values as Half, a uint64_t as Half * Half: 2^32 in   *)
(* the code, any even number here.                                         *)
(***************************************************************************)
EXTENDS Integers

CONSTANT Half

ASSUME HalfAssumption == Half \in Nat /\ Half > 0 /\ Half % 2 = 0

Int32 == {n \in Int : -Half <= 2 * n /\ 2 * n < Half}

\* conversion to uint64_t, and its arithmetic
Uint64(n) == n % (Half * Half)

\* conversion of a uint32_t to int
ToInt32(n) == IF 2 * n < Half THEN n ELSE n - Half

\* ((uint64_t)modid << 32) + cmdid: a negative cmdid is extended by its sign
Key(modid, cmdid) == Uint64(Half * modid + cmdid)

\* the upper and the lower half, as push_change_task assigns them to an int
Modid(key) == ToInt32(key \div Half)

Cmdid(key) == ToInt32(key % Half)

\* the key of an std::unordered_map<int, ...>
IntOf(key) == ToInt32(key % Half)

==============================================================================
