------------------------------ MODULE MCBuffers ------------------------------
(***************************************************************************)
(* Two sizes of buffers.  The streams are longer than the smaller size, so *)
(* that messages come in pieces and buffers are exchanged, and as long as  *)
(* the larger one or longer, so that alloc_buf finds no class.             *)
(***************************************************************************)
EXTENDS Buffers, TLC

CONSTANTS c1, c2, s1, s2, l1, l2

Small == {s1, s2}

Large == {l1, l2}

MCBufs == Small \cup Large

MCCapacity == [b \in MCBufs |-> IF b \in Small THEN 3 ELSE 6]

\* The second answer of c1 fits no buffer behind the first, so that its header is
\* taken back; the third goes behind what is left.  The second message of c2 is
\* announced longer than MESSAGE_MAX_SIZE.
MCLens == c1 :> <<3, 4, 2>> @@ c2 :> <<3, 7>>

Symmetry == Permutations(Small) \cup Permutations(Large)

==============================================================================
