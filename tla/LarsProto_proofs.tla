--------------------------- MODULE LarsProto_proofs ---------------------------
(***************************************************************************)
(* What SerializeToString writes for a message, ParseFromArray reads back  *)
(* as that message, for every message the classes can hold; and CopyFrom   *)
(* copies it.  The argument goes from the inside out:                      *)
(*   - a number is written as the groups of seven bits that add up to it,  *)
(*     and read as it whatever follows (ReadAs);                           *)
(*   - the bytes of a field take the loop over tags from a message to the  *)
(*     message with that field, whatever follows (Leads), and as many      *)
(*     bytes as were counted (Chunk);                                      *)
(*   - so do the fields of a message one after the other (MessageChunk).   *)
(* First, numbers and sequences in general.  The library's induction       *)
(* theorems take an operator; here an induction is the choice of a least   *)
(* counterexample from a set.                                              *)
(***************************************************************************)
EXTENDS LarsProto, FiniteSetsExt, SequenceTheorems, WellFoundedInduction, TLAPS

LEMMA LeastNatural ==
    ASSUME NEW S \in SUBSET Nat, S # {}
    PROVE  \E x \in S : \A y \in S : x <= y
<1>1. PICK x \in S : \A y \in S : ~(<<y, x>> \in OpToRel(<, Nat))
  BY NatLessThanWellFounded, WFMin, Zenon
<1>2. \A y \in S : ~(y < x)
  BY <1>1, Zenon DEF OpToRel
<1> QED
  BY <1>2

\* What holds of 0 and of a number's successor holds of all numbers up to n.
LEMMA UpTo ==
    ASSUME NEW n \in Nat, NEW S, 0 \in S, \A k \in 0 .. n - 1 : k \in S => k + 1 \in S
    PROVE  \A k \in 0 .. n : k \in S
<1> SUFFICES ASSUME NEW T, T = {k \in 0 .. n : k \notin S}, T # {} PROVE FALSE
  OBVIOUS
<1>1. PICK x \in T : \A y \in T : x <= y
  BY LeastNatural
<1>2. x # 0 /\ x - 1 \in 0 .. n - 1 /\ x - 1 \notin T
  BY <1>1
<1>3. x - 1 \in S
  BY <1>2
<1> QED
  BY <1>2, <1>3

LEMMA MinOfNaturals ==
    ASSUME NEW S \in SUBSET Nat, S # {}
    PROVE  Min(S) \in S /\ \A y \in S : Min(S) <= y
BY LeastNatural DEF Min

LEMMA MaxOfNaturals ==
    ASSUME NEW S \in SUBSET Nat, S # {}, NEW n \in Nat, \A x \in S : x <= n
    PROVE  Max(S) \in S /\ \A y \in S : y <= Max(S)
<1> DEFINE T == {n - x : x \in S}
<1>1. \A x \in S : x \in Nat /\ n - x \in Nat
  OBVIOUS
<1>2. T \in SUBSET Nat /\ T # {}
  BY <1>1
<1>3. PICK t \in T : \A u \in T : t <= u
  BY <1>2, LeastNatural
<1>4. PICK x \in S : t = n - x
  BY <1>3
<1>5. \A y \in S : n - x <= n - y
  BY <1>3, <1>4
<1>6. \A y \in S : x >= y
  BY <1>1, <1>5
<1> QED
  BY <1>6 DEF Max

-----------------------------------------------------------------------------
(* Parts of sequences                                                      *)

LEMMA FunctionIsSeq ==
    ASSUME NEW S, NEW n \in Nat, NEW f \in [1 .. n -> S]
    PROVE  f \in Seq(S) /\ Len(f) = n /\ DOMAIN f = 1 .. n
OBVIOUS

\* t is what comes after the first m elements, up to the n-th.
LEMMA PartOf ==
    ASSUME NEW S, NEW s \in Seq(S), NEW m \in Nat, NEW n \in Nat, m <= n, n <= Len(s),
           NEW t, t = SubSeq(s, m + 1, n)
    PROVE  /\ t \in Seq(S) /\ Len(t) = n - m
           /\ \A i \in 1 .. n - m : m + i \in 1 .. Len(s) /\ t[i] = s[m + i]
<1>1. Len(s) \in Nat /\ m + 1 \in Int /\ \A i \in m + 1 .. n : s[i] \in S
  BY LenProperties, ElementOfSeq
<1>2. t = [i \in 1 .. n - m |-> s[m + i]]
  BY <1>1
<1> QED
  BY <1>1, <1>2, FunctionIsSeq

-----------------------------------------------------------------------------
(* FlattenSeq                                                              *)

FlattenStep(s, f, i) == IF i = 1 THEN s[i] ELSE f[i - 1] \o s[i]

Agree(f, g, n) == \A i \in 1 .. n : f[i] = g[i]

\* f is the function that FlattenSeq defines by recursion, for the first n.
Flattens(s, n, f) == f = [i \in 1 .. n |-> f[i]] /\ \A i \in 1 .. n : f[i] = FlattenStep(s, f, i)

LEMMA FlattenExists ==
    ASSUME NEW T, NEW s \in Seq(Seq(T)), NEW n \in 0 .. Len(s)
    PROVE  \E f \in [1 .. n -> Seq(T)] : Flattens(s, n, f)
<1> DEFINE S == {k \in 0 .. Len(s) : \E f \in [1 .. k -> Seq(T)] : Flattens(s, k, f)}
<1>1. Len(s) \in Nat /\ \A i \in 1 .. Len(s) : s[i] \in Seq(T)
  BY LenProperties, ElementOfSeq
<1>2. 0 \in S
  <2>1. PICK f : f = [i \in 1 .. 0 |-> <<>>]
    OBVIOUS
  <2>2. f \in [1 .. 0 -> Seq(T)] /\ Flattens(s, 0, f)
    BY <2>1 DEF Flattens
  <2>3. 0 \in 0 .. Len(s) /\ \E h \in [1 .. 0 -> Seq(T)] : Flattens(s, 0, h)
    <3>1. 0 \in 0 .. Len(s)
      BY <1>1
    <3> QED
      BY <2>2, <3>1, Zenon
  <2> QED
    BY <2>3, Zenon
<1>3. ASSUME NEW k \in 0 .. Len(s) - 1, k \in S
      PROVE  k + 1 \in S
  <2>1. PICK f \in [1 .. k -> Seq(T)] : Flattens(s, k, f)
    BY <1>3
  <2>2. PICK e : e = FlattenStep(s, f, k + 1)
    OBVIOUS
  <2>3. e \in Seq(T)
    BY <1>1, <2>1, <2>2, ConcatProperties DEF FlattenStep
  <2>4. PICK g : g = [i \in 1 .. k + 1 |-> IF i = k + 1 THEN e ELSE f[i]]
    OBVIOUS
  <2>5. g \in [1 .. k + 1 -> Seq(T)]
    BY <1>1, <2>1, <2>3, <2>4
  <2>6. ASSUME NEW i \in 1 .. k + 1
        PROVE  FlattenStep(s, g, i) = FlattenStep(s, f, i)
    <3>1. i # 1 => g[i - 1] = f[i - 1]
      BY <2>4
    <3> QED
      BY <3>1 DEF FlattenStep
  <2>7. ASSUME NEW i \in 1 .. k + 1
        PROVE  g[i] = FlattenStep(s, g, i)
    <3>1. CASE i = k + 1
      BY <2>2, <2>4, <2>6, <3>1
    <3>2. CASE i # k + 1
      <4>1. i \in 1 .. k /\ g[i] = f[i]
        BY <2>4, <3>2
      <4>2. f[i] = FlattenStep(s, f, i)
        BY <2>1, <4>1 DEF Flattens
      <4> QED
        BY <2>6, <4>1, <4>2
    <3> QED
      BY <3>1, <3>2
  <2>8. Flattens(s, k + 1, g)
    BY <2>4, <2>7 DEF Flattens
  <2> QED
    BY <1>1, <2>5, <2>8
<1> HIDE DEF S
<1>4. n \in S
  BY <1>1, <1>2, <1>3, UpTo
<1> QED
  BY <1>4 DEF S

\* It is determined by the sequences flattened.
LEMMA FlattenUnique ==
    ASSUME NEW s, NEW t, NEW m \in Nat, NEW n \in Nat, NEW f, NEW g,
           n <= m, Agree(s, t, n), Flattens(s, n, f), Flattens(t, m, g)
    PROVE  Agree(f, g, n)
<1> SUFFICES ASSUME NEW i \in 1 .. n, f[i] # g[i] PROVE FALSE
  BY DEF Agree
<1>1. PICK T : T = {j \in 1 .. n : f[j] # g[j]}
  OBVIOUS
<1>2. T \in SUBSET Nat /\ T # {}
  BY <1>1
<1>3. PICK x \in T : \A y \in T : x <= y
  BY <1>2, LeastNatural
<1>4. x \in 1 .. n /\ x \in 1 .. m /\ f[x] # g[x]
  BY <1>1
<1>5. x # 1 => x - 1 \in 1 .. n /\ x - 1 \notin T
  BY <1>2, <1>3, <1>4
<1>6. x # 1 => f[x - 1] = g[x - 1]
  BY <1>1, <1>5
<1>7. FlattenStep(s, f, x) = FlattenStep(t, g, x)
  BY <1>4, <1>6 DEF FlattenStep, Agree
<1> QED
  BY <1>4, <1>7 DEF Flattens

LEMMA FlattenIs ==
    ASSUME NEW T, NEW s \in Seq(Seq(T)), s # <<>>
    PROVE  \E f \in [1 .. Len(s) -> Seq(T)] :
              Flattens(s, Len(s), f) /\ FlattenSeq(s) = f[Len(s)]
<1>1. Len(s) \in Nat /\ Len(s) # 0
  BY LenProperties, EmptySeq
<1>2. PICK g \in [1 .. Len(s) -> Seq(T)] : Flattens(s, Len(s), g)
  BY <1>1, FlattenExists, SMTT(20)
<1>3. PICK f : f = CHOOSE h : h = [i \in 1 .. Len(s) |-> FlattenStep(s, h, i)]
  OBVIOUS
<1>4. Flattens(s, Len(s), f)
  <2>1. g = [i \in 1 .. Len(s) |-> FlattenStep(s, g, i)]
    BY <1>2 DEF Flattens
  <2>2. f = [i \in 1 .. Len(s) |-> FlattenStep(s, f, i)]
    BY <1>3, <2>1, Zenon
  <2> QED
    BY <2>2 DEF Flattens
<1>5. FlattenSeq(s) = f[Len(s)]
  BY <1>1, <1>3, Zenon DEF FlattenSeq, FlattenStep
<1>6. \A i \in 1 .. Len(s) : f[i] = g[i]
  <2>1. Agree(s, s, Len(s)) /\ Len(s) <= Len(s)
    BY <1>1 DEF Agree
  <2>2. Agree(f, g, Len(s))
    BY <1>1, <1>2, <1>4, <2>1, FlattenUnique, Zenon
  <2> QED
    BY <2>2 DEF Agree
<1>7. f \in [1 .. Len(s) -> Seq(T)]
  BY <1>4, <1>6 DEF Flattens
<1> QED
  BY <1>4, <1>5, <1>7

LEMMA FlattenNone == FlattenSeq(<<>>) = <<>>
BY EmptySeq DEF FlattenSeq

LEMMA FlattenType ==
    ASSUME NEW T, NEW s \in Seq(Seq(T))
    PROVE  FlattenSeq(s) \in Seq(T)
<1>1. CASE s = <<>>
  BY <1>1, FlattenNone, EmptySeq
<1>2. CASE s # <<>>
  <2>1. PICK f \in [1 .. Len(s) -> Seq(T)] : FlattenSeq(s) = f[Len(s)]
    BY <1>2, FlattenIs
  <2>2. Len(s) \in 1 .. Len(s)
    BY <1>2, LenProperties, EmptySeq
  <2> QED
    BY <2>1, <2>2
<1> QED
  BY <1>1, <1>2

LEMMA FlattenAppend ==
    ASSUME NEW T, NEW s \in Seq(Seq(T)), NEW e \in Seq(T)
    PROVE  FlattenSeq(Append(s, e)) = FlattenSeq(s) \o e
<1>1. PICK t : t = Append(s, e)
  OBVIOUS
<1>2. /\ t \in Seq(Seq(T)) /\ Len(t) = Len(s) + 1 /\ t # <<>>
      /\ \A i \in 1 .. Len(s) : t[i] = s[i]
      /\ t[Len(s) + 1] = e
  BY <1>1, AppendProperties
<1>3. PICK g \in [1 .. Len(t) -> Seq(T)] :
         Flattens(t, Len(t), g) /\ FlattenSeq(t) = g[Len(t)]
  BY <1>2, FlattenIs
<1>4. Len(s) \in Nat
  BY LenProperties
<1>5. \A i \in 1 .. Len(t) : g[i] = FlattenStep(t, g, i)
  BY <1>3 DEF Flattens
<1>6. g[Len(t)] = IF Len(s) = 0 THEN e ELSE g[Len(s)] \o e
  <2>1. g[Len(t)] = FlattenStep(t, g, Len(t))
    BY <1>2, <1>4, <1>5
  <2> QED
    BY <1>2, <1>4, <2>1 DEF FlattenStep
<1>7. CASE s = <<>>
  <2>1. Len(s) = 0 /\ <<>> \o e = e
    BY <1>7
  <2> QED
    BY <1>1, <1>3, <1>6, <1>7, <2>1, FlattenNone
<1>8. CASE s # <<>>
  <2>1. PICK f \in [1 .. Len(s) -> Seq(T)] :
           Flattens(s, Len(s), f) /\ FlattenSeq(s) = f[Len(s)]
    BY <1>8, FlattenIs
  <2>2. Agree(f, g, Len(s))
    <3>1. Len(t) \in Nat /\ Len(s) <= Len(t) /\ Agree(s, t, Len(s))
      BY <1>2, <1>4 DEF Agree
    <3> QED
      BY <1>3, <1>4, <2>1, <3>1, FlattenUnique, Zenon
  <2>3. \A i \in 1 .. Len(s) : f[i] = g[i]
    BY <2>2 DEF Agree
  <2>4. Len(s) # 0 /\ Len(s) \in 1 .. Len(s)
    BY <1>4, <1>8, EmptySeq
  <2>5. g[Len(t)] = f[Len(s)] \o e
    BY <1>6, <2>3, <2>4
  <2> QED
    BY <1>1, <1>3, <2>1, <2>5
<1> QED
  BY <1>7, <1>8

-----------------------------------------------------------------------------
(* Varints: the recursive function is one that takes its step.             *)

\* A number is its lowest seven bits and the rest.
LEMMA DivFacts ==
    ASSUME NEW v \in Nat
    PROVE  /\ v \div 128 \in Nat /\ v % 128 \in 0 .. 127
           /\ v = 128 * (v \div 128) + (v % 128)
           /\ v >= 128 => v \div 128 < v
           /\ v < 128 => v \div 128 = 0 /\ v % 128 = v
OBVIOUS

LEMMA Shifts ==
    ASSUME NEW v \in Int
    PROVE  /\ v \div 128 \in Int /\ v % 128 \in 0 .. 127
           /\ v = 128 * (v \div 128) + (v % 128)
           /\ v \div 16384 = (v \div 128) \div 128
           /\ v \div 2097152 = (v \div 16384) \div 128
           /\ v \div 268435456 = (v \div 2097152) \div 128
OBVIOUS

\* f is the function that Varint defines by recursion, up to n.
VarintStep(f, v) == IF v < 128 THEN <<v>> ELSE <<128 + (v % 128)>> \o f[v \div 128]

Varints(n, f) == f = [v \in 0 .. n |-> f[v]] /\ \A v \in 0 .. n : f[v] = VarintStep(f, v)

LEMMA VarintsExist ==
    ASSUME NEW n \in Nat
    PROVE  \E f : Varints(n, f)
<1> DEFINE S == {k \in 0 .. n : \E f : Varints(k, f)}
<1>1. 0 \in S
  <2>1. PICK f : f = [v \in 0 .. 0 |-> <<v>>]
    OBVIOUS
  <2>2. Varints(0, f)
    BY <2>1 DEF Varints, VarintStep
  <2> QED
    BY <2>2
<1>2. ASSUME NEW k \in 0 .. n - 1, k \in S
      PROVE  k + 1 \in S
  <2>1. PICK f : Varints(k, f)
    BY <1>2
  <2>2. PICK g : g = [v \in 0 .. k + 1 |-> IF v = k + 1 THEN VarintStep(f, v) ELSE f[v]]
    OBVIOUS
  <2>3. ASSUME NEW v \in 0 .. k + 1
        PROVE  VarintStep(g, v) = VarintStep(f, v)
    <3>1. v >= 128 => v \div 128 \in 0 .. k
      BY DivFacts
    <3> QED
      BY <2>2, <3>1 DEF VarintStep
  <2>4. ASSUME NEW v \in 0 .. k + 1
        PROVE  g[v] = VarintStep(g, v)
    <3>1. CASE v = k + 1
      BY <2>2, <2>3, <3>1
    <3>2. CASE v # k + 1
      <4>1. v \in 0 .. k /\ g[v] = f[v]
        BY <2>2, <3>2
      <4> QED
        BY <2>1, <2>3, <4>1 DEF Varints
    <3> QED
      BY <3>1, <3>2
  <2>5. Varints(k + 1, g)
    BY <2>2, <2>4 DEF Varints
  <2> QED
    BY <2>5
<1> HIDE DEF S
<1>3. n \in S
  BY <1>1, <1>2, UpTo
<1> QED
  BY <1>3 DEF S

LEMMA VarintsAgree ==
    ASSUME NEW m \in Nat, NEW n \in Nat, NEW f, NEW g, Varints(m, f), Varints(n, g),
           NEW v \in Nat, v <= m, v <= n
    PROVE  f[v] = g[v]
<1> SUFFICES ASSUME f[v] # g[v] PROVE FALSE
  OBVIOUS
<1>1. PICK T : T = {x \in 0 .. v : f[x] # g[x]}
  OBVIOUS
<1>2. PICK x \in T : \A y \in T : x <= y
  BY <1>1, LeastNatural
<1>3. x \in 0 .. m /\ x \in 0 .. n /\ f[x] # g[x]
  BY <1>1, <1>2
<1>4. x >= 128 => x \div 128 \in 0 .. v /\ x \div 128 < x /\ x \div 128 \notin T
  BY <1>1, <1>2, DivFacts
<1>5. x >= 128 => f[x \div 128] = g[x \div 128]
  BY <1>1, <1>4
<1>6. VarintStep(f, x) = VarintStep(g, x)
  BY <1>3, <1>5 DEF VarintStep
<1> QED
  BY <1>3, <1>6 DEF Varints

\* The definition of Varint holds of it.
LEMMA VarintIs == \A v \in Nat : Varint[v] = VarintStep(Varint, v)
<1>1. PICK F : F = [n \in Nat |-> CHOOSE f : Varints(n, f)]
  OBVIOUS
<1>2. \A n \in Nat : Varints(n, F[n])
  BY <1>1, VarintsExist
<1>3. PICK g : g = [v \in Nat |-> F[v][v]]
  OBVIOUS
<1>4. ASSUME NEW v \in Nat
      PROVE  g[v] = VarintStep(g, v)
  <2>1. F[v][v] = VarintStep(F[v], v)
    <3>1. \A u \in 0 .. v : F[v][u] = VarintStep(F[v], u)
      BY ONLY <1>2, v \in Nat, Zenon DEF Varints
    <3>2. v \in 0 .. v
      OBVIOUS
    <3> QED
      BY <3>1, <3>2, Zenon
  <2>2. v >= 128 => v \div 128 \in Nat /\ v \div 128 <= v
    BY DivFacts
  <2>3. v >= 128 => F[v][v \div 128] = g[v \div 128]
    BY <1>2, <1>3, <2>2, VarintsAgree
  <2> QED
    BY <1>3, <2>1, <2>3 DEF VarintStep
<1>5. g = [v \in Nat |-> VarintStep(g, v)]
  BY <1>3, <1>4
<1>6. Varint = CHOOSE h : h = [v \in Nat |-> VarintStep(h, v)]
  BY Zenon DEF Varint, VarintStep
<1>7. Varint = [v \in Nat |-> VarintStep(Varint, v)]
  BY <1>5, <1>6, Zenon
<1> QED
  BY <1>7, Zenon

\* The first byte of a varint, and the bytes after it.
LEMMA VarintParts ==
    ASSUME NEW v \in Nat
    PROVE  /\ v < 128 => Varint[v] = <<v>>
           /\ v >= 128 => Varint[v] = <<128 + (v % 128)>> \o Varint[v \div 128]
<1>1. Varint[v] = VarintStep(Varint, v)
  BY VarintIs, Zenon
<1>2. v >= 128 => ~(v < 128)
  OBVIOUS
<1> QED
  BY <1>1, <1>2, Zenon DEF VarintStep

-----------------------------------------------------------------------------
(* The groups of seven bits of a number                                    *)

LEMMA Int32s ==
    /\ INT_MAX \in Nat /\ INT_MAX <= 2147483647 /\ INT_MAX >= 2147483647
BY SMT DEF INT_MAX

LEMMA PlacesAre ==
    /\ Place[1] = 1 /\ Place[2] = 128 /\ Place[3] = 16384
    /\ Place[4] = 2097152 /\ Place[5] = 268435456
BY DEF Place

\* the i-th group of seven bits
Bits(v, i) == (v \div Place[i]) % 128

LEMMA BitsAre ==
    ASSUME NEW v \in Int
    PROVE  /\ Bits(v, 1) = v % 128
           /\ \A i \in 1 .. 4 : Bits(v, i + 1) = Bits(v \div 128, i)
           /\ \A i \in 1 .. 5 : Bits(v, i) \in 0 .. 127
<1>1. Bits(v, 1) = v % 128
  BY PlacesAre DEF Bits
<1>2. ASSUME NEW i \in 1 .. 4
      PROVE  Bits(v, i + 1) = Bits(v \div 128, i)
  <2>1. v \div Place[i + 1] = (v \div 128) \div Place[i]
    BY PlacesAre
  <2> QED
    BY <2>1 DEF Bits
<1>3. ASSUME NEW i \in 1 .. 5
      PROVE  Bits(v, i) \in 0 .. 127
  BY PlacesAre DEF Bits
<1> QED
  BY <1>1, <1>2, <1>3

\* v takes n bytes.
Encodes(v, n) ==
    /\ Varint[v] \in Bytes
    /\ Len(Varint[v]) = n
    /\ \A i \in 1 .. n : Varint[v][i] = IF i < n THEN 128 + Bits(v, i) ELSE Bits(v, i)

LEMMA EncodesOne ==
    ASSUME NEW v \in 0 .. 127
    PROVE  Encodes(v, 1)
<1>1. Varint[v] = <<v>>
  <2>1. v \in Nat /\ v < 128
    OBVIOUS
  <2> QED
    BY <2>1, VarintParts, Zenon
<1>2. Bits(v, 1) = v
  BY BitsAre, DivFacts
<1> QED
  BY <1>1, <1>2 DEF Encodes, Bytes

LEMMA EncodesMore ==
    ASSUME NEW v \in Nat, v >= 128, NEW n \in 1 .. 4, Encodes(v \div 128, n)
    PROVE  Encodes(v, n + 1)
<1>1. PICK q, w, b : q = v \div 128 /\ w = Varint[q] /\ b = 128 + (v % 128)
  OBVIOUS
<1>2. /\ q \in Nat /\ b \in 128 .. 255 /\ v % 128 = Bits(v, 1)
      /\ \A i \in 1 .. n : Bits(v, i + 1) = Bits(q, i)
  <2>1. v \in Nat /\ v \div 128 \in Nat /\ v % 128 \in 0 .. 127
    BY DivFacts
  <2>2. /\ v % 128 = Bits(v, 1)
        /\ \A i \in 1 .. n : Bits(v, i + 1) = Bits(v \div 128, i)
    <3>1. v \in Int /\ \A i \in 1 .. n : i \in 1 .. 4
      OBVIOUS
    <3> QED
      BY <3>1, BitsAre, Zenon
  <2> QED
    BY <1>1, <2>1, <2>2
<1>3. w \in Bytes /\ Len(w) = n /\ \A i \in 1 .. n : w[i] = IF i < n THEN 128 + Bits(q, i) ELSE Bits(q, i)
  BY <1>1 DEF Encodes
<1>4. Varint[v] = <<b>> \o w
  BY <1>1, VarintParts
<1>5. /\ <<b>> \o w \in Bytes /\ Len(<<b>> \o w) = n + 1
      /\ (<<b>> \o w)[1] = b
      /\ \A i \in 1 .. n : (<<b>> \o w)[i + 1] = w[i]
  BY <1>2, <1>3 DEF Bytes
<1>6. ASSUME NEW i \in 1 .. n + 1
      PROVE  (<<b>> \o w)[i] = IF i < n + 1 THEN 128 + Bits(v, i) ELSE Bits(v, i)
  <2>1. CASE i = 1
    BY <1>1, <1>2, <1>5, <2>1
  <2>2. CASE i # 1
    <3>1. PICK j \in 1 .. n : i = j + 1
      BY <2>2
    <3> QED
      BY <1>2, <1>3, <1>5, <3>1
  <2> QED
    BY <2>1, <2>2
<1> QED
  BY <1>4, <1>5, <1>6 DEF Encodes

LEMMA PlacesGrow ==
    /\ Place[1] = 1
    /\ \A n \in 1 .. 5 : Place[n] \in Nat \ {0}
    /\ \A n \in 1 .. 4 : Place[n + 1] = 128 * Place[n]
BY PlacesAre, SMT

LEMMA PlacesRise ==
    \A m, n \in 1 .. 5 : m <= n => Place[m] <= Place[n]
<1>1. /\ Place[1] <= Place[2] /\ Place[2] <= Place[3]
      /\ Place[3] <= Place[4] /\ Place[4] <= Place[5]
  BY PlacesGrow
<1> QED
  BY <1>1, PlacesGrow

\* v takes n groups of seven bits
Groups(v, n) == (n = 1 \/ v >= Place[n]) /\ v < 128 * Place[n]

LEMMA SomeGroups ==
    ASSUME NEW v \in UINT32
    PROVE  \E n \in 1 .. 5 : Groups(v, n)
<1>1. v \in Nat /\ v < 128 * Place[5]
  BY PlacesAre, Int32s, SMT DEF UINT32
<1>2. CASE v >= Place[5]
  BY <1>1, <1>2 DEF Groups
<1>3. CASE v >= Place[4] /\ v < Place[5]
  BY <1>1, <1>3, PlacesGrow DEF Groups
<1>4. CASE v >= Place[3] /\ v < Place[4]
  BY <1>1, <1>4, PlacesGrow DEF Groups
<1>5. CASE v >= Place[2] /\ v < Place[3]
  BY <1>1, <1>5, PlacesGrow DEF Groups
<1>6. CASE v < Place[2]
  BY <1>1, <1>6, PlacesGrow DEF Groups
<1> QED
  BY <1>1, <1>2, <1>3, <1>4, <1>5, <1>6, PlacesGrow

\* A number of n groups is encoded by n bytes.
LEMMA GroupsEncode ==
    ASSUME NEW n \in 1 .. 5
    PROVE  \A v \in Nat : Groups(v, n) => Encodes(v, n)
<1> DEFINE S == {k \in 0 .. 4 : \A v \in Nat : Groups(v, k + 1) => Encodes(v, k + 1)}
<1>1. 0 \in S
  BY EncodesOne, PlacesGrow DEF Groups
<1>2. ASSUME NEW k \in 0 .. 4 - 1, k \in S
      PROVE  k + 1 \in S
  <2>1. ASSUME NEW v \in Nat, Groups(v, k + 2)
        PROVE  Encodes(v, k + 2)
    <3>1. PICK p \in Nat \ {0} : p = Place[k + 1] /\ Place[k + 2] = 128 * p
      BY PlacesGrow
    <3>2. v >= 128 * p /\ v < 128 * (128 * p)
      BY <2>1, <3>1 DEF Groups
    <3>3. /\ v >= 128 /\ v \div 128 \in Nat
          /\ v \div 128 >= p /\ v \div 128 < 128 * p
      BY <3>2
    <3>4. Encodes(v \div 128, k + 1)
      BY <1>2, <3>1, <3>3 DEF Groups
    <3>5. k + 1 \in 1 .. 4 /\ (k + 1) + 1 = k + 2
      OBVIOUS
    <3>6. Encodes(v, (k + 1) + 1)
      BY <3>3, <3>4, <3>5, EncodesMore
    <3> QED
      BY <3>5, <3>6
  <2> QED
    BY <2>1
<1> HIDE DEF S
<1>3. n - 1 \in S
  BY <1>1, <1>2, UpTo
<1> QED
  BY <1>3 DEF S

LEMMA EncodesSome ==
    ASSUME NEW v \in UINT32
    PROVE  \E n \in 1 .. 5 : /\ Encodes(v, n)
                             /\ n = 5 \/ v < Place[n + 1]
                             /\ n = 1 \/ v >= Place[n]
<1>1. PICK n \in 1 .. 5 : Groups(v, n)
  BY SomeGroups
<1>2. v \in Nat
  BY Int32s DEF UINT32
<1>3. Encodes(v, n)
  BY <1>1, <1>2, GroupsEncode
<1>4. n = 5 \/ v < Place[n + 1]
  BY <1>1, PlacesGrow DEF Groups
<1> QED
  BY <1>1, <1>3, <1>4 DEF Groups

\* The number of bytes is what is counted.
LEMMA SizeCounted ==
    ASSUME NEW v \in UINT32, NEW n \in 1 .. 5, n = 5 \/ v < Place[n + 1], n = 1 \/ v >= Place[n]
    PROVE  ScalarSize("uint32", v) = n
<1>1. ASSUME NEW k \in 1 .. 5, k = 5 \/ v < Place[k + 1], k = 1 \/ v >= Place[k]
      PROVE  k = n
  <2>1. v \in Nat
    BY Int32s DEF UINT32
  <2>2. CASE k < n
    <3>1. Place[k + 1] <= Place[n]
      BY <2>2, PlacesRise
    <3> QED
      BY <1>1, <2>1, <2>2, <3>1, PlacesGrow
  <2>3. CASE n < k
    <3>1. Place[n + 1] <= Place[k]
      BY <2>3, PlacesRise
    <3> QED
      BY <1>1, <2>1, <2>3, <3>1, PlacesGrow
  <2> QED
    BY <2>2, <2>3
<1>2. ScalarSize("uint32", v) = CHOOSE k \in 1 .. 5 : /\ k = 5 \/ v < Place[k + 1]
                                                      /\ k = 1 \/ v >= Place[k]
  BY DEF ScalarSize
<1> QED
  BY <1>1, <1>2

LEMMA VarintEndsAt ==
    ASSUME NEW b \in Bytes, NEW n \in 1 .. 10, n <= Len(b), b[n] < 128,
           \A i \in 1 .. n - 1 : b[i] >= 128
    PROVE  VarintLen(b) = n
<1>1. PICK ends : ends = {i \in 1 .. 10 : i <= Len(b) /\ b[i] < 128}
  OBVIOUS
<1>2. n \in ends
  BY <1>1
<1>3. ASSUME NEW j \in ends
      PROVE  n <= j
  <2> SUFFICES ASSUME j < n PROVE FALSE
    BY <1>1
  <2>1. j \in 1 .. 10 /\ b[j] < 128
    BY <1>1
  <2>2. j \in 1 .. n - 1
    BY <2>1
  <2>3. b[j] >= 128
    BY <2>2
  <2>4. j \in 1 .. Len(b)
    BY <2>2, LenProperties DEF Bytes
  <2>5. b[j] \in 0 .. 255
    BY <2>4, ElementOfSeq DEF Bytes
  <2> QED
    BY ONLY <2>1, <2>3, <2>5
<1>4. ASSUME NEW i \in ends, \A j \in ends : i <= j
      PROVE  i = n
  <2>1. i \in 1 .. 10
    BY <1>1
  <2> QED
    BY <1>2, <1>3, <1>4, <2>1
<1>5. VarintLen(b) = CHOOSE i \in ends : \A j \in ends : i <= j
  BY <1>1 DEF VarintLen
<1> QED
  BY <1>2, <1>3, <1>4, <1>5

\* The groups of seven bits, added up, are the number.
LEMMA GroupsRead ==
    ASSUME NEW v \in INT32, NEW b,
           \A i \in 1 .. 5 : (IF i <= VarintLen(b) THEN b[i] % 128 ELSE 0) = Bits(v, i)
    PROVE  ReadInt32(b) = v
<1>1. PICK a, c, d, e, f : a = Bits(v, 1) /\ c = Bits(v, 2) /\ d = Bits(v, 3) /\ e = Bits(v, 4)
                           /\ f = Bits(v, 5) % 16
  OBVIOUS
<1>2. ReadInt32(b) = (IF f < 8 THEN f ELSE f - 16) * Place[5]
                     + e * Place[4] + d * Place[3] + c * Place[2] + a
  BY <1>1 DEF ReadInt32
<1>3. /\ a = v % 128 /\ c = (v \div 128) % 128 /\ d = (v \div 16384) % 128
      /\ e = (v \div 2097152) % 128 /\ f = ((v \div 268435456) % 128) % 16
  <2>1. /\ a = (v \div Place[1]) % 128 /\ c = (v \div Place[2]) % 128
        /\ d = (v \div Place[3]) % 128 /\ e = (v \div Place[4]) % 128
        /\ f = ((v \div Place[5]) % 128) % 16
    BY <1>1 DEF Bits
  <2>2. v \in Int
    BY Int32s DEF INT32
  <2>3. v \div 1 = v
    BY <2>2
  <2> QED
    BY <2>1, <2>3, PlacesAre, SMT
<1>4. v \in Int /\ -2147483648 <= v /\ v <= 2147483647
  BY Int32s, SMT DEF INT32
<1>5. (IF f < 8 THEN f ELSE f - 16) * 268435456 + e * 2097152 + d * 16384 + c * 128 + a = v
  BY <1>3, <1>4, SMTT(20)
<1> QED
  BY <1>2, <1>5, PlacesAre, SMTT(20)

-----------------------------------------------------------------------------
(* Scalars are read back.                                                  *)

\* the values of a scalar type
ScalarValues == [int32 |-> INT32, uint32 |-> UINT32, bool |-> BOOLEAN]

\* w is read as v whatever follows it.
ReadAs(type, v, w) ==
    /\ w \in Bytes
    /\ Len(w) \in 1 .. 10
    /\ \A r \in Bytes : VarintLen(w \o r) = Len(w) /\ ReadScalar(type, w \o r) = v

LEMMA Ahead ==
    ASSUME NEW w \in Bytes, NEW r \in Bytes
    PROVE  /\ w \o r \in Bytes /\ Len(w \o r) = Len(w) + Len(r)
           /\ \A i \in 1 .. Len(w) : (w \o r)[i] = w[i]
BY DEF Bytes

LEMMA GroupsRepeat ==
    ASSUME NEW v \in INT32, NEW n \in 1 .. 10, NEW w \in Bytes, Len(w) = n,
           \A i \in 1 .. n - 1 : w[i] >= 128, w[n] < 128,
           \A i \in 1 .. 5 : (IF i <= n THEN w[i] % 128 ELSE 0) = Bits(v, i)
    PROVE  ReadAs("int32", v, w)
<1>1. ASSUME NEW r \in Bytes
      PROVE  VarintLen(w \o r) = n /\ ReadInt32(w \o r) = v
  <2>1. PICK b : b = w \o r
    OBVIOUS
  <2>2. b \in Bytes /\ n <= Len(b) /\ \A i \in 1 .. n : b[i] = w[i]
    <3>1. Len(r) \in Nat
      BY LenProperties DEF Bytes
    <3> QED
      BY <2>1, <3>1, Ahead
  <2>3. VarintLen(b) = n
    <3>1. \A i \in 1 .. n - 1 : b[i] >= 128
      <4> TAKE i \in 1 .. n - 1
      <4>1. i \in 1 .. n
        OBVIOUS
      <4>2. b[i] = w[i]
        BY <2>2, <4>1
      <4> QED
        BY <4>2
    <3>2. b[n] < 128
      BY <2>2
    <3> QED
      BY <2>2, <3>1, <3>2, VarintEndsAt, Zenon
  <2>4. \A i \in 1 .. 5 : (IF i <= VarintLen(b) THEN b[i] % 128 ELSE 0) = Bits(v, i)
    <3> TAKE i \in 1 .. 5
    <3>1. CASE i <= n
      <4>1. b[i] = w[i]
        BY <2>2, <3>1
      <4> QED
        BY <2>3, <3>1, <4>1, Zenon
    <3>2. CASE ~(i <= n)
      BY <2>3, <3>2, Zenon
    <3> QED
      BY <3>1, <3>2
  <2> QED
    BY <2>1, <2>3, <2>4, GroupsRead, Zenon
<1> QED
  BY <1>1, Zenon DEF ReadAs, ReadScalar

LEMMA Remainders == \A x \in 0 .. 127 : x % 128 = x /\ (128 + x) % 128 = x
OBVIOUS

\* A number that is not negative
LEMMA UintReads ==
    ASSUME NEW v \in UINT32
    PROVE  /\ ReadAs("int32", v, Varint[v]) /\ ReadAs("uint32", v, Varint[v])
           /\ Len(Varint[v]) = ScalarSize("uint32", v)
           /\ Len(Varint[v]) = ScalarSize("int32", v)
<1>1. PICK n \in 1 .. 5 : Encodes(v, n) /\ (n = 5 \/ v < Place[n + 1]) /\ (n = 1 \/ v >= Place[n])
  BY EncodesSome
<1>2. PICK w : w = Varint[v]
  OBVIOUS
<1>3. /\ v \in INT32 /\ v \in Int /\ 0 <= v
      /\ w \in Bytes /\ Len(w) = n
      /\ \A i \in 1 .. n : w[i] = IF i < n THEN 128 + Bits(v, i) ELSE Bits(v, i)
  <2>1. v \in INT32 /\ v \in Int /\ 0 <= v
    BY Int32s DEF UINT32, INT32
  <2> QED
    BY <1>1, <1>2, <2>1 DEF Encodes
<1>4. \A i \in 1 .. 5 : Bits(v, i) \in 0 .. 127
  BY <1>3, BitsAre
<1>5. ASSUME NEW i \in 1 .. 5
      PROVE  (IF i <= n THEN w[i] % 128 ELSE 0) = Bits(v, i)
  <2>1. CASE i <= n
    <3>1. Bits(v, i) \in 0 .. 127 /\ (w[i] = Bits(v, i) \/ w[i] = 128 + Bits(v, i))
      <4>1. i \in 1 .. n
        BY <2>1
      <4> QED
        BY <1>3, <1>4, <4>1, Zenon
    <3>2. w[i] % 128 = Bits(v, i)
      BY <3>1, Remainders, Zenon
    <3> QED
      BY <2>1, <3>2, Zenon
  <2>2. CASE i > n
    <3>1. v < Place[i]
      BY SMTT(30), <1>1, <1>3, <2>2, PlacesAre
    <3>2. v \div Place[i] = 0
      BY <1>3, <3>1, PlacesAre
    <3> QED
      BY <2>2, <3>2 DEF Bits
  <2> QED
    BY <2>1, <2>2
<1>6. ReadAs("int32", v, w)
  <2>1. \A i \in 1 .. n - 1 : w[i] >= 128
    <3> TAKE i \in 1 .. n - 1
    <3>1. i \in 1 .. n /\ i \in 1 .. 5 /\ i < n
      OBVIOUS
    <3>2. w[i] = 128 + Bits(v, i) /\ Bits(v, i) \in 0 .. 127
      BY <1>3, <1>4, <3>1, Zenon
    <3> QED
      BY <3>2
  <2>2. w[n] < 128
    <3>1. n \in 1 .. n /\ n \in 1 .. 5 /\ ~(n < n)
      OBVIOUS
    <3>2. w[n] = Bits(v, n) /\ Bits(v, n) \in 0 .. 127
      BY <1>3, <1>4, <3>1, Zenon
    <3> QED
      BY <3>2
  <2>3. n \in 1 .. 10
    OBVIOUS
  <2> QED
    BY <1>3, <1>5, <2>1, <2>2, <2>3, GroupsRepeat, Zenon
<1>7. ReadAs("uint32", v, w)
  BY <1>6 DEF ReadAs, ReadScalar
<1>8. ScalarSize("uint32", v) = n
  BY <1>1, SizeCounted
<1>9. ScalarSize("int32", v) = ScalarSize("uint32", v)
  <2>1. PICK c : c = CHOOSE k \in 1 .. 5 : /\ k = 5 \/ v < Place[k + 1]
                                           /\ k = 1 \/ v >= Place[k]
    OBVIOUS
  <2>2. ScalarSize("uint32", v) = c
    BY <2>1, SMT DEF ScalarSize
  <2>3. ScalarSize("int32", v) = c
    BY <1>3, <2>1, SMT DEF ScalarSize
  <2> QED
    BY <2>2, <2>3
<1> QED
  BY <1>2, <1>3, <1>6, <1>7, <1>8, <1>9

\* A negative number, all ten bytes of it
LEMMA NegativeReads ==
    ASSUME NEW v \in INT32, v < 0
    PROVE  /\ ReadAs("int32", v, WriteInt32(v))
           /\ Len(WriteInt32(v)) = ScalarSize("int32", v)
<1>1. PICK w : w = [i \in 1 .. 10 |-> IF i = 10 THEN 1 ELSE 128 + Group(v, i)]
  OBVIOUS
<1>2. v \in Int /\ WriteInt32(v) = w
  <2>1. v \in Int
    BY Int32s DEF INT32
  <2>2. ~(v >= 0)
    BY <2>1
  <2> QED
    BY <1>1, <2>1, <2>2, Zenon DEF WriteInt32
<1>3. \A i \in 1 .. 5 : Group(v, i) = Bits(v, i) /\ Bits(v, i) \in 0 .. 127
  BY <1>2, BitsAre DEF Group, Bits
<1>4. \A i \in 1 .. 10 : Group(v, i) \in 0 .. 127
  BY <1>3 DEF Group
<1>5. w \in [1 .. 10 -> 0 .. 255]
  BY <1>1, <1>4
<1>6. w \in Bytes /\ Len(w) = 10
  <2>1. PICK S, n : S = 0 .. 255 /\ n = 10
    OBVIOUS
  <2>2. n \in Nat /\ w \in [1 .. n -> S]
    BY <1>5, <2>1
  <2>3. w \in Seq(S) /\ Len(w) = n
    BY <2>2, FunctionIsSeq, Zenon
  <2> QED
    BY <2>1, <2>3 DEF Bytes
<1>7. (\A i \in 1 .. 9 : w[i] >= 128) /\ w[10] < 128
  BY <1>1, <1>4
<1>8. \A i \in 1 .. 5 : (IF i <= 10 THEN w[i] % 128 ELSE 0) = Bits(v, i)
  <2> TAKE i \in 1 .. 5
  <2>1. i <= 10 /\ w[i] = 128 + Bits(v, i) /\ Bits(v, i) \in 0 .. 127
    BY <1>1, <1>3
  <2> QED
    BY <2>1, Remainders, Zenon
<1>9. ReadAs("int32", v, w)
  <2>1. 10 \in 1 .. 10 /\ 10 - 1 = 9
    OBVIOUS
  <2> QED
    BY <1>6, <1>7, <1>8, <2>1, GroupsRepeat, Zenon
<1> QED
  BY <1>2, <1>6, <1>9, SMT DEF ScalarSize

\* What is written for a scalar is read as it, and has the size counted.
LEMMA ScalarReads ==
    ASSUME NEW type \in {"int32", "uint32", "bool"}, NEW v \in ScalarValues[type]
    PROVE  /\ ReadAs(type, v, WriteScalar(type, v))
           /\ Len(WriteScalar(type, v)) = ScalarSize(type, v)
<1>1. CASE type = "uint32"
  BY <1>1, UintReads, SMT DEF WriteScalar, ScalarValues
<1>2. CASE type = "int32" /\ v >= 0
  <2>1. v \in UINT32
    BY <1>2, Int32s DEF ScalarValues, INT32, UINT32
  <2>2. WriteScalar(type, v) = Varint[v]
    BY <1>2, SMT DEF WriteScalar, WriteInt32
  <2> QED
    BY <1>2, <2>1, <2>2, UintReads
<1>3. CASE type = "int32" /\ ~(v >= 0)
  <2>1. v \in INT32 /\ v < 0 /\ WriteScalar(type, v) = WriteInt32(v)
    BY <1>3, Int32s, SMT DEF ScalarValues, INT32, WriteScalar
  <2> QED
    BY <1>3, <2>1, NegativeReads
<1>4. CASE type = "bool"
  <2>1. PICK n : n = IF v THEN 1 ELSE 0
    OBVIOUS
  <2>2. n \in UINT32 /\ WriteScalar(type, v) = <<n>> /\ v \in BOOLEAN /\ (v <=> n # 0)
    BY <1>4, <2>1, Int32s, SMT DEF WriteScalar, ScalarValues, UINT32
  <2>3. Varint[n] = <<n>>
    <3>1. n \in Nat /\ n < 128
      BY <2>1
    <3> QED
      BY <3>1, VarintParts, Zenon
  <2>4. ReadAs("int32", n, <<n>>)
    BY <2>2, <2>3, UintReads
  <2>5. \A r \in Bytes : ReadInt32(<<n>> \o r) = n
    BY <2>4 DEF ReadAs, ReadScalar
  <2>6. \A r \in Bytes : ReadScalar(type, <<n>> \o r) = v
    BY <1>4, <2>2, <2>5 DEF ReadScalar
  <2> QED
    <3>1. ScalarSize(type, v) = 1
      BY <1>4, SMT DEF ScalarSize
    <3>2. Len(<<n>>) = 1
      OBVIOUS
    <3> QED
      BY <2>2, <2>4, <2>6, <3>1, <3>2, Zenon DEF ReadAs
<1> QED
  BY <1>1, <1>2, <1>3, <1>4

-----------------------------------------------------------------------------
(* The loop over tags, in parts                                            *)

LEMMA Chunks ==
    ASSUME NEW c \in Bytes, NEW d \in Bytes
    PROVE  /\ c \o d \in Bytes /\ Len(c \o d) = Len(c) + Len(d)
           /\ Len(c) \in Nat /\ Len(d) \in Nat
           /\ c \o <<>> = c /\ <<>> \o c = c
           /\ SubSeq(c \o d, 1, Len(c)) = c
           /\ SubSeq(c \o d, Len(c) + 1, Len(c \o d)) = d
<1> USE DEF Bytes
<1>1. c \o d \in Bytes /\ Len(c \o d) = Len(c) + Len(d) /\ Len(c) \in Nat /\ Len(d) \in Nat
  OBVIOUS
<1>2. c \o <<>> = c /\ <<>> \o c = c
  OBVIOUS
<1>3. SubSeq(c \o d, 1, Len(c)) = c
  OBVIOUS
<1>4. SubSeq(c \o d, Len(c) + 1, Len(c \o d)) = d
  OBVIOUS
<1> QED
  BY <1>1, <1>2, <1>3, <1>4

LEMMA ChunksAssociate ==
    ASSUME NEW c \in Bytes, NEW d \in Bytes, NEW r \in Bytes
    PROVE  (c \o d) \o r = c \o (d \o r)
BY DEF Bytes

LEMMA NoBytes == <<>> \in Bytes /\ Len(<<>>) = 0
BY EmptySeq DEF Bytes

FromStart(m, b) == [ok |-> TRUE, msg |-> m, rest |-> b]

\* k rounds of the loop over tags
Runs(sub, F, t, k, m, b, n, r) ==
    /\ t[0] = FromStart(m, b) /\ t[k] = FromStart(n, r)
    /\ \A i \in 1 .. k : t[i] = ParseField(sub, F, t[i - 1])

\* The bytes c are read in at most Len(c) rounds, whatever follows them, and turn
\* the message m into n.
Leads(sub, F, m, c, n) ==
    \A r \in Bytes : \E k \in 0 .. Len(c) : \E t : Runs(sub, F, t, k, m, c \o r, n, r)

LEMMA LeadsNowhere ==
    ASSUME NEW sub, NEW F, NEW m
    PROVE  Leads(sub, F, m, <<>>, m)
<1>1. ASSUME NEW r \in Bytes
      PROVE  \E k \in 0 .. Len(<<>>) : \E t : Runs(sub, F, t, k, m, <<>> \o r, m, r)
  <2>1. PICK t : t = [i \in 0 .. 0 |-> FromStart(m, r)]
    OBVIOUS
  <2>2. <<>> \o r = r
    BY <1>1, NoBytes, Chunks
  <2>3. Runs(sub, F, t, 0, m, <<>> \o r, m, r)
    BY <2>1, <2>2 DEF Runs
  <2>4. 0 \in 0 .. Len(<<>>)
    BY NoBytes
  <2> QED
    BY <2>3, <2>4
<1> QED
  BY <1>1 DEF Leads

LEMMA LeadsOnce ==
    ASSUME NEW sub, NEW F, NEW m, NEW n, NEW c \in Bytes, Len(c) >= 1,
           \A r \in Bytes : ParseField(sub, F, FromStart(m, c \o r)) = FromStart(n, r)
    PROVE  Leads(sub, F, m, c, n)
<1>1. ASSUME NEW r \in Bytes
      PROVE  \E k \in 0 .. Len(c) : \E t : Runs(sub, F, t, k, m, c \o r, n, r)
  <2>1. PICK t : t = [i \in 0 .. 1 |-> IF i = 0 THEN FromStart(m, c \o r) ELSE FromStart(n, r)]
    OBVIOUS
  <2>2. t[0] = FromStart(m, c \o r) /\ t[1] = FromStart(n, r)
    BY <2>1
  <2>3. \A i \in 1 .. 1 : t[i] = ParseField(sub, F, t[i - 1])
    BY <2>2
  <2>4. Runs(sub, F, t, 1, m, c \o r, n, r)
    BY <2>2, <2>3 DEF Runs
  <2>5. 1 \in 0 .. Len(c)
    BY Chunks, NoBytes
  <2> QED
    BY <2>4, <2>5
<1> QED
  BY <1>1 DEF Leads

\* Two parts of the bytes, one after the other
LEMMA LeadsThen ==
    ASSUME NEW sub, NEW F, NEW m, NEW n, NEW p, NEW c \in Bytes, NEW d \in Bytes,
           Leads(sub, F, m, c, n), Leads(sub, F, n, d, p)
    PROVE  Leads(sub, F, m, c \o d, p)
<1>1. ASSUME NEW r \in Bytes
      PROVE  \E k \in 0 .. Len(c \o d) : \E t : Runs(sub, F, t, k, m, (c \o d) \o r, p, r)
  <2>1. PICK j \in 0 .. Len(d) : \E u : Runs(sub, F, u, j, n, d \o r, p, r)
    BY DEF Leads
  <2>2. PICK u : Runs(sub, F, u, j, n, d \o r, p, r)
    BY <2>1
  <2>3. d \o r \in Bytes /\ (c \o d) \o r = c \o (d \o r) /\ Len(c \o d) = Len(c) + Len(d)
        /\ Len(c) \in Nat /\ Len(d) \in Nat
    <3>1. d \o r \in Bytes
      BY Chunks, Zenon
    <3>2. (c \o d) \o r = c \o (d \o r)
      BY ChunksAssociate, Zenon
    <3>3. Len(c \o d) = Len(c) + Len(d) /\ Len(c) \in Nat /\ Len(d) \in Nat
      BY Chunks, Zenon
    <3> QED
      BY <3>1, <3>2, <3>3
  <2>4. PICK k \in 0 .. Len(c) : \E t : Runs(sub, F, t, k, m, c \o (d \o r), n, d \o r)
    BY <2>3 DEF Leads
  <2>5. PICK t : Runs(sub, F, t, k, m, c \o (d \o r), n, d \o r)
    BY <2>4
  <2>6. PICK v : v = [i \in 0 .. k + j |-> IF i <= k THEN t[i] ELSE u[i - k]]
    OBVIOUS
  <2>7. k \in Nat /\ j \in Nat /\ k + j \in 0 .. Len(c \o d)
    BY <2>3
  <2>8. v[0] = FromStart(m, (c \o d) \o r)
    <3>1. v[0] = t[0]
      BY <2>6, <2>7
    <3> QED
      BY <2>3, <2>5, <3>1 DEF Runs
  <2>9. t[k] = u[0]
    BY <2>2, <2>5 DEF Runs
  <2>10. v[k + j] = FromStart(p, r)
    <3>1. v[k + j] = u[j]
      BY <2>6, <2>7, <2>9
    <3> QED
      BY <2>2, <3>1 DEF Runs
  <2>11. ASSUME NEW i \in 1 .. k + j
         PROVE  v[i] = ParseField(sub, F, v[i - 1])
    <3>1. CASE i <= k
      <4>1. v[i] = t[i] /\ v[i - 1] = t[i - 1] /\ i \in 1 .. k
        BY <2>6, <2>7, <3>1
      <4> QED
        BY <2>5, <4>1 DEF Runs
    <3>2. CASE i > k
      <4>1. i - k \in 1 .. j /\ (i - k) - 1 = (i - 1) - k
        BY <2>7, <3>2
      <4>2. v[i] = u[i - k]
        BY <2>6, <2>7, <3>2
      <4>3. v[i - 1] = u[(i - k) - 1]
        BY SMTT(30), <2>6, <2>7, <2>9, <3>2
      <4>4. u[i - k] = ParseField(sub, F, u[(i - k) - 1])
        BY <2>2, <4>1 DEF Runs
      <4> QED
        BY <4>2, <4>3, <4>4
    <3> QED
      BY <2>7, <3>1, <3>2
  <2>12. Runs(sub, F, v, k + j, m, (c \o d) \o r, p, r)
    BY <2>8, <2>10, <2>11 DEF Runs
  <2> QED
    BY <2>7, <2>12
<1> QED
  BY <1>1 DEF Leads

\* All of the bytes: a parse that succeeds
LEMMA LeadsParse ==
    ASSUME NEW sub, NEW F, NEW m, NEW n, NEW b \in Bytes, Leads(sub, F, m, b, n)
    PROVE  ParseFields(sub, F, m, b) = Parsed(TRUE, n)
<1> DEFINE Round(h, i) == IF i = 0 THEN FromStart(m, b) ELSE ParseField(sub, F, h[i - 1])
<1>1. PICK L : L = Len(b)
  OBVIOUS
<1>2. L \in Nat /\ b \o <<>> = b
  BY <1>1, NoBytes, Chunks
<1>3. PICK k \in 0 .. L : \E t : Runs(sub, F, t, k, m, b, n, <<>>)
  <2>1. \E k \in 0 .. Len(b) : \E t : Runs(sub, F, t, k, m, b \o <<>>, n, <<>>)
    BY NoBytes DEF Leads
  <2> QED
    BY <1>1, <1>2, <2>1
<1>4. PICK t : Runs(sub, F, t, k, m, b, n, <<>>)
  BY <1>3
<1>5. ParseField(sub, F, FromStart(n, <<>>)) = FromStart(n, <<>>)
  BY Zenon DEF ParseField, FromStart
<1>6. PICK g : g = [i \in 0 .. L |-> IF i <= k THEN t[i] ELSE FromStart(n, <<>>)]
  OBVIOUS
<1>7. ASSUME NEW i \in 0 .. L
      PROVE  g[i] = Round(g, i)
  <2>1. CASE i = 0
    BY <1>4, <1>6, <2>1 DEF Runs
  <2>2. CASE i # 0 /\ i <= k
    <3>1. g[i] = t[i] /\ g[i - 1] = t[i - 1] /\ i \in 1 .. k
      BY <1>2, <1>6, <2>2
    <3>2. t[i] = ParseField(sub, F, t[i - 1])
      BY <1>4, <3>1 DEF Runs
    <3> QED
      BY <2>2, <3>1, <3>2
  <2>3. CASE i # 0 /\ ~(i <= k)
    <3>1. g[i] = FromStart(n, <<>>)
      BY <1>6, <2>3
    <3>2. g[i - 1] = FromStart(n, <<>>)
      <4>1. CASE i - 1 = k
        BY <1>4, <1>6, <4>1 DEF Runs
      <4>2. CASE i - 1 # k
        BY <1>2, <1>6, <2>3, <4>2
      <4> QED
        BY <4>1, <4>2
    <3> QED
      BY <1>5, <2>3, <3>1, <3>2
  <2> QED
    BY <2>1, <2>2, <2>3
<1>8. g = [i \in 0 .. L |-> Round(g, i)]
  BY <1>6, <1>7
<1>9. PICK loop : loop = CHOOSE h : h = [i \in 0 .. L |-> Round(h, i)]
  OBVIOUS
<1>10. loop = [i \in 0 .. L |-> Round(loop, i)]
  BY <1>8, <1>9, Zenon
<1> DEFINE S == {i \in 0 .. L : loop[i] = g[i]}
<1>11. 0 \in S
  <2>1. loop[0] = Round(loop, 0) /\ g[0] = Round(g, 0)
    BY <1>2, <1>7, <1>10
  <2> QED
    BY <1>2, <2>1
<1>12. ASSUME NEW i \in 0 .. L - 1, i \in S
       PROVE  i + 1 \in S
  <2>1. i + 1 \in 0 .. L /\ i + 1 # 0 /\ (i + 1) - 1 = i
    BY <1>2
  <2>2. loop[i + 1] = Round(loop, i + 1) /\ g[i + 1] = Round(g, i + 1)
    BY <1>7, <1>10, <2>1
  <2>3. loop[i] = g[i]
    BY <1>12
  <2> QED
    BY <2>1, <2>2, <2>3
<1>13. L \in S
  <2> HIDE DEF S
  <2> QED
    BY <1>2, <1>11, <1>12, UpTo
<1>14. loop[L] = FromStart(n, <<>>)
  <2>1. g[L] = FromStart(n, <<>>)
    BY <1>2, <1>4, <1>6 DEF Runs
  <2> QED
    BY <1>13, <2>1
<1>15. ParseFields(sub, F, m, b) = Parsed(loop[L].ok, loop[L].msg)
  BY <1>1, <1>9, Zenon DEF ParseFields, FromStart, Outcome
<1> QED
  BY <1>14, <1>15 DEF FromStart

-----------------------------------------------------------------------------
(* One field                                                               *)

\* A tag below 128 takes a byte.
LEMMA TagReads ==
    ASSUME NEW t \in 1 .. 127, NEW r \in Bytes
    PROVE  /\ <<t>> \in Bytes /\ Len(<<t>>) = 1
           /\ <<t>> \o r \in Bytes /\ <<t>> \o r # <<>>
           /\ VarintLen(<<t>> \o r) = 1
           /\ ReadInt32(<<t>> \o r) = t
           /\ SubSeq(<<t>> \o r, 1 + 1, Len(<<t>> \o r)) = r
<1>1. t \in Nat /\ t < 128 /\ t \in UINT32
  BY Int32s DEF UINT32
<1>2. Varint[t] = <<t>>
  BY <1>1, VarintParts, Zenon
<1>3. ReadAs("int32", t, <<t>>)
  BY <1>1, <1>2, UintReads
<1>4. <<t>> \in Bytes /\ Len(<<t>>) = 1
  BY <1>3 DEF ReadAs
<1>5. VarintLen(<<t>> \o r) = 1 /\ ReadInt32(<<t>> \o r) = t
  BY <1>3, <1>4, Zenon DEF ReadAs, ReadScalar
<1>6. <<t>> \o r \in Bytes /\ Len(<<t>> \o r) = 1 + Len(r) /\ Len(r) \in Nat
  BY <1>4, Chunks
<1>7. <<t>> \o r # <<>>
  BY <1>6, NoBytes
<1>8. SubSeq(<<t>> \o r, 1 + 1, Len(<<t>> \o r)) = r
  BY <1>4, Chunks
<1> QED
  BY <1>4, <1>5, <1>6, <1>7, <1>8

\* No two fields have one tag, and a tag takes a byte.
WellNumbered(F) ==
    /\ \A i \in DOMAIN F : Tag(F[i]) \in 1 .. 127 /\ Tag(F[i]) % 8 = WireType(F[i])
    /\ \A i, j \in DOMAIN F : Tag(F[i]) = Tag(F[j]) => i = j

\* The bytes w after its tag are those of field f, which makes n of m.
FieldReads(sub, f, m, w, n) ==
    /\ w \in Bytes /\ Len(w) >= 1
    /\ \A r \in Bytes : /\ FieldLen(WireType(f), w \o r) = Len(w)
                        /\ ReadField(sub, f, m, w \o r) = Parsed(TRUE, n)

\* One round of the loop reads one field.
LEMMA FieldLeads ==
    ASSUME NEW sub, NEW F, NEW m, NEW j \in DOMAIN F, WellNumbered(F),
           NEW w, NEW n, FieldReads(sub, F[j], m, w, n)
    PROVE  /\ <<Tag(F[j])>> \o w \in Bytes
           /\ Len(<<Tag(F[j])>> \o w) = 1 + Len(w)
           /\ Leads(sub, F, m, <<Tag(F[j])>> \o w, n)
<1>1. w \in Bytes /\ Len(w) >= 1
  BY DEF FieldReads
<1>2. Tag(F[j]) \in 1 .. 127
  BY DEF WellNumbered
<1>3. <<Tag(F[j])>> \in Bytes /\ Len(<<Tag(F[j])>>) = 1
  BY <1>2, NoBytes, TagReads
<1>4. PICK c : c = <<Tag(F[j])>> \o w
  OBVIOUS
<1>5. c \in Bytes /\ Len(c) = 1 + Len(w)
  BY <1>1, <1>3, <1>4, Chunks
<1>6. Len(c) >= 1
  BY ONLY <1>1, <1>5
<1>7. ASSUME NEW r \in Bytes
      PROVE  ParseField(sub, F, FromStart(m, c \o r)) = FromStart(n, r)
  <2> /\ w \in Bytes /\ Len(w) >= 1
      /\ FieldLen(WireType(F[j]), w \o r) = Len(w)
      /\ ReadField(sub, F[j], m, w \o r) = Parsed(TRUE, n)
    BY DEF FieldReads
  <2>1. PICK t : t = Tag(F[j])
    OBVIOUS
  <2>2. t \in 1 .. 127 /\ t % 8 = WireType(F[j])
    BY <2>1 DEF WellNumbered
  <2>3. PICK rest : rest = w \o r
    OBVIOUS
  <2>4. PICK b : b = (<<t>> \o w) \o r
    OBVIOUS
  <2> c \o r = b
    BY <1>4, <2>1, <2>4
  <2>5. rest \in Bytes /\ SubSeq(rest, Len(w) + 1, Len(rest)) = r
    BY <2>3, Chunks
  <2>6. b = <<t>> \o rest
    <3>1. <<t>> \in Bytes
      BY <2>2, TagReads
    <3> QED
      BY <2>3, <2>4, <3>1, ChunksAssociate
  <2>7. b # <<>> /\ VarintLen(b) = 1 /\ ReadInt32(b) = t /\ SubSeq(b, 1 + 1, Len(b)) = rest
    BY <2>2, <2>5, <2>6, TagReads
  <2>8. PICK st : st = FromStart(m, b)
    OBVIOUS
  <2>9. st.rest = b /\ st.ok = TRUE /\ st.msg = m
    BY <2>8 DEF FromStart
  <2> DEFINE tag == IF VarintLen(st.rest) = 0 THEN 0 ELSE ReadInt32(st.rest)
             after == SubSeq(st.rest, VarintLen(st.rest) + 1, Len(st.rest))
             len == FieldLen(tag % 8, after)
             known == {i \in DOMAIN F : Tag(F[i]) = tag}
             got == IF known = {} THEN Parsed(TRUE, st.msg)
                    ELSE ReadField(sub, F[CHOOSE i \in known : TRUE], st.msg, after)
  <2>10. ParseField(sub, F, st) =
           IF ~st.ok \/ st.rest = <<>> THEN st
           ELSE IF tag = 0 \/ len = 0 THEN [st EXCEPT !.ok = FALSE]
           ELSE [ok |-> got.ok, msg |-> got.msg, rest |-> SubSeq(after, len + 1, Len(after))]
    BY Zenon DEF ParseField, Before
  <2>11. tag = t
    BY <2>7, <2>9
  <2>12. after = rest
    BY <2>7, <2>9
  <2> HIDE DEF tag, after
  <2>13. len = Len(w) /\ tag # 0 /\ len # 0
    BY <2>2, <2>3, <2>11, <2>12
  <2>14. known = {j}
    BY <2>1, <2>11 DEF WellNumbered
  <2> HIDE DEF len, known
  <2>15. known # {} /\ (CHOOSE i \in known : TRUE) = j
    BY <2>14
  <2>16. got = Parsed(TRUE, n)
    BY <2>3, <2>9, <2>12, <2>15, Zenon
  <2> HIDE DEF got
  <2>17. got.ok = TRUE /\ got.msg = n
    BY <2>16 DEF Parsed
  <2>18. ParseField(sub, F, st) = [ok |-> TRUE, msg |-> n, rest |-> r]
    BY <2>5, <2>7, <2>9, <2>10, <2>12, <2>13, <2>17, Zenon
  <2> QED
    BY <2>8, <2>18 DEF FromStart
<1>8. Leads(sub, F, m, c, n)
  BY <1>4, <1>5, <1>6, <1>7, LeadsOnce, Zenon
<1> QED
  BY <1>4, <1>5, <1>8

LEMMA ScalarIsRead ==
    ASSUME NEW sub, NEW f, NEW m, f.label = "scalar", f.type \in DOMAIN ScalarValues,
           NEW v \in ScalarValues[f.type], NEW w, w = WriteScalar(f.type, v)
    PROVE  /\ Len(w) = ScalarSize(f.type, v)
           /\ FieldReads(sub, f, m, w, [m EXCEPT ![f.name] = v])
<1>1. PICK type : type = f.type
  OBVIOUS
<1>2. type \in {"int32", "uint32", "bool"}
  BY <1>1 DEF ScalarValues
<1>3. ReadAs(type, v, w) /\ Len(w) = ScalarSize(type, v)
  BY <1>1, <1>2, ScalarReads
<1>4. w \in Bytes /\ Len(w) \in 1 .. 10 /\ Len(w) >= 1
  BY <1>3 DEF ReadAs
<1>5. ASSUME NEW r \in Bytes
      PROVE  /\ FieldLen(WireType(f), w \o r) = Len(w)
             /\ ReadField(sub, f, m, w \o r) = Parsed(TRUE, [m EXCEPT ![f.name] = v])
  <2>1. PICK b : b = w \o r
    OBVIOUS
  <2>2. VarintLen(b) = Len(w) /\ ReadScalar(type, b) = v
    BY <1>3, <2>1 DEF ReadAs
  <2>3. Len(w) \in 1 .. Len(b) /\ Len(w) # 0
    <3>1. Len(b) = Len(w) + Len(r) /\ Len(r) \in Nat
      BY <1>4, <2>1, Chunks
    <3> QED
      BY <1>4, <3>1
  <2>4. WireType(f) = 0
    BY DEF WireType
  <2>5. UnknownLen(0, b) = VarintLen(b)
    BY SMT DEF UnknownLen
  <2>6. FieldLen(WireType(f), b) = Len(w)
    BY <2>2, <2>3, <2>4, <2>5, Zenon DEF FieldLen
  <2>7. ReadField(sub, f, m, b) = Parsed(TRUE, [m EXCEPT ![f.name] = v])
    BY <1>1, <2>2, Zenon DEF ReadField
  <2> QED
    BY <2>1, <2>6, <2>7
<1> QED
  BY <1>1, <1>3, <1>4, <1>5 DEF FieldReads

LEMMA MiddleOf ==
    ASSUME NEW v \in Bytes, NEW c \in Bytes, NEW r \in Bytes
    PROVE  SubSeq((v \o c) \o r, Len(v) + 1, Len(v) + Len(c)) = c
BY DEF Bytes

LEMMA SomeMore == \A a \in 1 .. 10, n \in Nat : a + n >= 1 /\ a # 0
OBVIOUS

\* A submessage: its size, and its bytes
LEMMA SubIsRead ==
    ASSUME NEW sub, NEW f, NEW m, f.label # "scalar", NEW c \in Bytes, Len(c) \in UINT32,
           NEW x, sub.parse[f.type][Into(sub, f, m)][c] = Parsed(TRUE, x),
           NEW w, w = Varint[Len(c)] \o c
    PROVE  /\ Len(w) = ScalarSize("uint32", Len(c)) + Len(c)
           /\ FieldReads(sub, f, m, w, [m EXCEPT ![f.name] = Added(f, m, x)])
<1>1. PICK n : n = Len(c)
  OBVIOUS
<1>2. PICK v : v = Varint[n]
  OBVIOUS
<1>3. ReadAs("int32", n, v) /\ Len(v) = ScalarSize("uint32", n)
  BY <1>1, <1>2, UintReads
<1>4. v \in Bytes /\ Len(v) \in 1 .. 10
  BY <1>3 DEF ReadAs
<1>5. n \in Nat
  BY <1>1, Chunks
<1>6. w \in Bytes /\ Len(w) = Len(v) + n
  BY <1>1, <1>2, <1>4, Chunks
<1>7. Len(w) >= 1
  <2>1. Len(v) \in 1 .. 10
    BY <1>4
  <2>2. Len(w) = Len(v) + n
    BY <1>6
  <2> QED
    BY <1>5, <2>1, <2>2, SomeMore, Zenon
<1>8. ASSUME NEW r \in Bytes
      PROVE  /\ FieldLen(WireType(f), w \o r) = Len(w)
             /\ ReadField(sub, f, m, w \o r)
                  = Parsed(TRUE, [m EXCEPT ![f.name] = Added(f, m, x)])
  <2>1. PICK b : b = w \o r
    OBVIOUS
  <2>2. VarintLen(b) = Len(v) /\ ReadInt32(b) = n
    <3>1. c \o r \in Bytes
      BY Chunks, Zenon
    <3>2. (v \o c) \o r = v \o (c \o r)
      BY <1>4, ChunksAssociate, Zenon
    <3>3. b = v \o (c \o r)
      BY <1>1, <1>2, <2>1, <3>2
    <3> QED
      BY <1>3, <3>1, <3>3 DEF ReadAs, ReadScalar
  <2>3. VarintLen(b) + ReadInt32(b) = Len(w) /\ VarintLen(b) # 0
    <3>1. Len(v) \in 1 .. 10 /\ Len(w) = Len(v) + n
      BY <1>4, <1>6
    <3> QED
      BY ONLY <2>2, <3>1
  <2>4. Len(w) \in 1 .. Len(b)
    <3>1. Len(b) = Len(w) + Len(r) /\ Len(r) \in Nat /\ Len(w) \in Nat
      BY <1>6, <2>1, Chunks
    <3> QED
      BY ONLY <1>7, <3>1
  <2>5. WireType(f) = 2
    BY DEF WireType
  <2>6. UnknownLen(2, b) = VarintLen(b) + ReadInt32(b)
    BY SMT DEF UnknownLen
  <2>7. FieldLen(2, b) = Len(w)
    BY <2>3, <2>4, <2>6, Zenon DEF FieldLen
  <2>8. SubSeq(b, VarintLen(b) + 1, FieldLen(2, b)) = c
    <3>1. SubSeq((v \o c) \o r, Len(v) + 1, Len(v) + Len(c)) = c
      BY <1>4, MiddleOf, Zenon
    <3>2. b = (v \o c) \o r
      BY <1>1, <1>2, <2>1
    <3> QED
      BY <1>1, <1>6, <2>2, <2>7, <3>1, <3>2, Zenon
  <2>9. ReadField(sub, f, m, b) = Parsed(TRUE, [m EXCEPT ![f.name] = Added(f, m, x)])
    <3> DEFINE body == SubSeq(b, VarintLen(b) + 1, FieldLen(2, b))
               got == sub.parse[f.type][Into(sub, f, m)][body]
    <3>1. ReadField(sub, f, m, b) = Parsed(got.ok, [m EXCEPT ![f.name] = Added(f, m, got.msg)])
      BY Zenon DEF ReadField, Stored
    <3>2. body = c
      BY <2>8
    <3> HIDE DEF body
    <3>3. got = Parsed(TRUE, x)
      BY <3>2
    <3> HIDE DEF got
    <3>4. got.ok = TRUE /\ got.msg = x
      BY <3>3 DEF Parsed
    <3> QED
      BY <3>1, <3>4, Zenon
  <2> QED
    BY <2>1, <2>5, <2>7, <2>9
<1> QED
  BY <1>1, <1>3, <1>6, <1>7, <1>8, Zenon DEF FieldReads

-----------------------------------------------------------------------------
(* Sums of sizes, and one chunk after the other                            *)

Sums(s, f, n) ==
    f \in [0 .. n -> Nat] /\ f[0] = 0 /\ \A i \in 1 .. n : f[i] = f[i - 1] + s[i]

LEMMA SumsExist ==
    ASSUME NEW L \in Nat, NEW s \in [1 .. L -> Nat]
    PROVE  \E f : Sums(s, f, L)
<1> DEFINE S == {k \in 0 .. L : \E f : Sums(s, f, k)}
<1>1. 0 \in S
  <2>1. PICK f : f = [i \in 0 .. 0 |-> 0]
    OBVIOUS
  <2>2. Sums(s, f, 0)
    BY <2>1 DEF Sums
  <2> QED
    BY <2>2
<1>2. ASSUME NEW k \in 0 .. L - 1, k \in S
      PROVE  k + 1 \in S
  <2>1. PICK f : Sums(s, f, k)
    BY <1>2
  <2>2. PICK g : g = [i \in 0 .. k + 1 |-> IF i = k + 1 THEN f[k] + s[k + 1] ELSE f[i]]
    OBVIOUS
  <2>3. s[k + 1] \in Nat /\ f[k] \in Nat /\ f \in [0 .. k -> Nat] /\ f[0] = 0
    BY <2>1 DEF Sums
  <2>4. g \in [0 .. k + 1 -> Nat] /\ g[0] = 0
    BY <2>2, <2>3
  <2>5. ASSUME NEW i \in 1 .. k + 1
        PROVE  g[i] = g[i - 1] + s[i]
    <3>1. CASE i = k + 1
      <4>1. g[i] = f[k] + s[k + 1] /\ g[i - 1] = f[k]
        BY <2>2, <3>1
      <4> QED
        BY <3>1, <4>1
    <3>2. CASE i # k + 1
      <4>1. g[i] = f[i] /\ g[i - 1] = f[i - 1] /\ i \in 1 .. k
        BY <2>2, <3>2
      <4> QED
        BY <2>1, <4>1 DEF Sums
    <3> QED
      BY <3>1, <3>2
  <2>6. Sums(s, g, k + 1)
    BY <2>4, <2>5 DEF Sums
  <2> QED
    BY <2>6
<1> HIDE DEF S
<1>3. \A k \in 0 .. L - 1 : k \in S => k + 1 \in S
  BY <1>2
<1>4. \A k \in 0 .. L : k \in S
  BY <1>1, <1>3, UpTo, Zenon
<1>5. L \in S
  BY <1>4
<1> QED
  BY <1>5 DEF S

LEMMA SumIs ==
    ASSUME NEW s \in Seq(Nat)
    PROVE  \E f : Sums(s, f, Len(s)) /\ Sum(s) = f[Len(s)]
<1>1. PICK L : L = Len(s)
  OBVIOUS
<1>2. L \in Nat /\ s \in [1 .. L -> Nat]
  BY <1>1
<1> DEFINE Round(h, i) == IF i = 0 THEN 0 ELSE h[i - 1] + s[i]
<1>3. PICK f : Sums(s, f, L)
  BY <1>2, SumsExist
<1>4. \A i \in 0 .. L : f[i] = Round(f, i)
  BY <1>2, <1>3 DEF Sums
<1>5. f = [i \in 0 .. L |-> Round(f, i)]
  BY <1>3, <1>4 DEF Sums
<1>6. PICK sum : sum = CHOOSE h : h = [i \in 0 .. L |-> Round(h, i)]
  OBVIOUS
<1>7. sum = [i \in 0 .. L |-> Round(sum, i)]
  BY <1>5, <1>6, Zenon
<1> DEFINE S == {i \in 0 .. L : sum[i] = f[i]}
<1>8. 0 \in S
  BY <1>2, <1>4, <1>7
<1>9. ASSUME NEW i \in 0 .. L - 1, i \in S
      PROVE  i + 1 \in S
  <2>1. i + 1 \in 0 .. L /\ i + 1 # 0 /\ (i + 1) - 1 = i
    BY <1>2
  <2>2. sum[i + 1] = Round(sum, i + 1) /\ f[i + 1] = Round(f, i + 1)
    BY <1>4, <1>7, <2>1
  <2> QED
    BY <1>9, <2>1, <2>2
<1>10. L \in S
  <2> HIDE DEF S
  <2>1. \A i \in 0 .. L - 1 : i \in S => i + 1 \in S
    BY <1>9
  <2>2. \A i \in 0 .. L : i \in S
    BY <1>2, <1>8, <2>1, UpTo, Zenon
  <2> QED
    BY <1>2, <2>2
<1>11. Sum(s) = sum[L]
  BY <1>1, <1>6, Zenon DEF Sum
<1> QED
  BY <1>1, <1>3, <1>10, <1>11

\* c takes size bytes and turns m into n.
Chunk(sub, F, m, c, size, n) == c \in Bytes /\ Len(c) = size /\ Leads(sub, F, m, c, n)

LEMMA NoChunk ==
    ASSUME NEW sub, NEW F, NEW m
    PROVE  Chunk(sub, F, m, <<>>, 0, m)
BY NoBytes, LeadsNowhere DEF Chunk

LEMMA TwoChunks ==
    ASSUME NEW sub, NEW F, NEW m, NEW n, NEW p, NEW c, NEW d, NEW x, NEW y,
           Chunk(sub, F, m, c, x, n), Chunk(sub, F, n, d, y, p)
    PROVE  Chunk(sub, F, m, c \o d, x + y, p)
<1>1. c \in Bytes /\ Len(c) = x /\ Leads(sub, F, m, c, n)
  BY DEF Chunk
<1>2. d \in Bytes /\ Len(d) = y /\ Leads(sub, F, n, d, p)
  BY DEF Chunk
<1>3. c \o d \in Bytes /\ Len(c \o d) = Len(c) + Len(d)
  BY <1>1, <1>2, Chunks
<1>4. Leads(sub, F, m, c \o d, p)
  BY <1>1, <1>2, LeadsThen
<1> QED
  BY <1>1, <1>2, <1>3, <1>4 DEF Chunk

\* Any number of chunks: what FlattenSeq writes, Sum counts.
LEMMA AllChunks ==
    ASSUME NEW sub, NEW F, NEW L \in Nat, NEW cs, NEW sizes, NEW ms,
           cs = [i \in 1 .. L |-> cs[i]], sizes = [i \in 1 .. L |-> sizes[i]],
           \A i \in 1 .. L : Chunk(sub, F, ms[i - 1], cs[i], sizes[i], ms[i])
    PROVE  Chunk(sub, F, ms[0], FlattenSeq(cs), Sum(sizes), ms[L])
<1>1. \A i \in 1 .. L : cs[i] \in Bytes /\ sizes[i] \in Nat
  <2> TAKE i \in 1 .. L
  <2>1. cs[i] \in Bytes /\ Len(cs[i]) = sizes[i]
    BY DEF Chunk
  <2>2. Len(cs[i]) \in Nat
    BY <2>1, LenProperties DEF Bytes
  <2> QED
    BY <2>1, <2>2
<1>2. cs \in Seq(Bytes) /\ Len(cs) = L
  <2>1. cs \in [1 .. L -> Bytes]
    BY <1>1
  <2> QED
    BY <2>1, FunctionIsSeq
<1>3. sizes \in Seq(Nat) /\ Len(sizes) = L
  <2>1. sizes \in [1 .. L -> Nat]
    BY <1>1
  <2> QED
    BY <2>1, FunctionIsSeq
<1>4. PICK f : Sums(sizes, f, L) /\ Sum(sizes) = f[L]
  BY <1>3, SumIs
<1>5. CASE L = 0
  <2>1. cs = <<>>
    BY <1>2, <1>5, EmptySeq
  <2>2. Sum(sizes) = 0
    BY <1>4, <1>5 DEF Sums
  <2> QED
    BY <1>5, <2>1, <2>2, FlattenNone, NoChunk
<1>6. CASE L # 0
  <2>1. cs # <<>> /\ cs \in Seq(Seq(0 .. 255))
    BY <1>2, <1>6, EmptySeq DEF Bytes
  <2>2. PICK g : Flattens(cs, L, g) /\ FlattenSeq(cs) = g[L]
    <3>1. \E g \in [1 .. Len(cs) -> Seq(0 .. 255)] :
             Flattens(cs, Len(cs), g) /\ FlattenSeq(cs) = g[Len(cs)]
      BY <2>1, FlattenIs, ZenonT(40)
    <3> QED
      BY <1>2, <3>1, Zenon
  <2> DEFINE S == {k \in 0 .. L - 1 : Chunk(sub, F, ms[0], g[k + 1], f[k + 1], ms[k + 1])}
  <2>3. 0 \in S
    <3>1. 1 \in 1 .. L /\ 1 - 1 = 0
      BY <1>6
    <3>2. g[1] = cs[1]
      BY <2>2, <3>1 DEF Flattens, FlattenStep
    <3>3. f[1] = sizes[1]
      <4>1. f[1] = f[0] + sizes[1] /\ f[0] = 0
        BY <1>4, <3>1 DEF Sums
      <4>2. sizes[1] \in Nat
        BY <1>1, <3>1
      <4> QED
        BY <4>1, <4>2
    <3>4. Chunk(sub, F, ms[0], cs[1], sizes[1], ms[1])
      BY <3>1
    <3>5. 0 \in 0 .. L - 1 /\ 0 + 1 = 1
      BY <1>6
    <3> QED
      BY <3>2, <3>3, <3>4, <3>5
  <2>4. ASSUME NEW k \in 0 .. (L - 1) - 1, k \in S
        PROVE  k + 1 \in S
    <3>1. PICK j : j = k + 1
      OBVIOUS
    <3>2. /\ j \in 0 .. L - 1 /\ j + 1 \in 1 .. L /\ (j + 1) - 1 = j /\ j + 1 # 1
      BY <3>1
    <3>3. Chunk(sub, F, ms[0], g[j], f[j], ms[j])
      BY <2>4, <3>1
    <3>4. Chunk(sub, F, ms[j], cs[j + 1], sizes[j + 1], ms[j + 1])
      BY <3>2
    <3>5. g[j + 1] = g[j] \o cs[j + 1]
      BY <2>2, <3>2 DEF Flattens, FlattenStep
    <3>6. f[j + 1] = f[j] + sizes[j + 1]
      BY <1>4, <3>2 DEF Sums
    <3>7. Chunk(sub, F, ms[0], g[j] \o cs[j + 1], f[j] + sizes[j + 1], ms[j + 1])
      BY <3>3, <3>4, TwoChunks
    <3> QED
      BY <3>1, <3>2, <3>5, <3>6, <3>7
  <2>5. L - 1 \in Nat /\ (L - 1) + 1 = L /\ L - 1 \in 0 .. L - 1
    BY <1>6
  <2> HIDE DEF S
  <2>6. L - 1 \in S
    BY <2>3, <2>4, <2>5, UpTo
  <2>7. Chunk(sub, F, ms[0], g[(L - 1) + 1], f[(L - 1) + 1], ms[(L - 1) + 1])
    BY <2>6 DEF S
  <2> QED
    BY <1>4, <2>2, <2>5, <2>7
<1> QED
  BY <1>5, <1>6

-----------------------------------------------------------------------------
(* The fields of a message                                                 *)

\* The submessage x is read back from the bytes that sub writes for it.
Faithful(sub, type, x) ==
    /\ sub.bytes[type][x] \in Bytes
    /\ Len(sub.bytes[type][x]) = sub.size[type][x]
    /\ sub.size[type][x] \in UINT32
    /\ sub.parse[type][sub.clear[type]][sub.bytes[type][x]] = Parsed(TRUE, x)

\* v is a value of field f.
Writable(sub, f, v) ==
    IF f.label = "scalar" THEN f.type \in DOMAIN ScalarValues /\ v \in ScalarValues[f.type]
    ELSE /\ \E S : v \in Seq(S) /\ \A x \in S : Faithful(sub, f.type, x)
         /\ f.label = "optional" => Len(v) <= 1

Grows(v) ==
    /\ SubSeq(v, 1, 0) = <<>> /\ SubSeq(v, 1, Len(v)) = v
    /\ \A i \in 1 .. Len(v) : Append(SubSeq(v, 1, i - 1), v[i]) = SubSeq(v, 1, i)

LEMMA PrefixesGrow ==
    ASSUME NEW S, NEW v \in Seq(S)
    PROVE  Grows(v)
<1>1. SubSeq(v, 1, 0) = <<>> /\ SubSeq(v, 1, Len(v)) = v
  OBVIOUS
<1>2. ASSUME NEW i \in 1 .. Len(v)
      PROVE  Append(SubSeq(v, 1, i - 1), v[i]) = SubSeq(v, 1, i)
  OBVIOUS
<1> QED
  BY <1>1, <1>2 DEF Grows

LEMMA TagChunk ==
    ASSUME NEW sub, NEW F, NEW m, NEW j \in DOMAIN F, WellNumbered(F),
           NEW w, NEW n, FieldReads(sub, F[j], m, w, n)
    PROVE  Chunk(sub, F, m, <<Tag(F[j])>> \o w, 1 + Len(w), n)
BY FieldLeads DEF Chunk

LEMMA SubPiece ==
    ASSUME NEW sub, NEW f, NEW m, f.label # "scalar", NEW c \in Bytes, Len(c) \in UINT32,
           NEW x, sub.parse[f.type][Into(sub, f, m)][c] = Parsed(TRUE, x)
    PROVE  FieldReads(sub, f, m, Varint[Len(c)] \o c, [m EXCEPT ![f.name] = Added(f, m, x)])
BY SubIsRead

LEMMA ScalarPiece ==
    ASSUME NEW sub, NEW f, NEW m, f.label = "scalar", f.type \in DOMAIN ScalarValues,
           NEW v \in ScalarValues[f.type]
    PROVE  FieldReads(sub, f, m, WriteScalar(f.type, v), [m EXCEPT ![f.name] = v])
BY ScalarIsRead

LEMMA OneSubChunk ==
    ASSUME NEW sub, NEW F, NEW j \in DOMAIN F, WellNumbered(F), F[j].label # "scalar",
           NEW m, NEW x, Faithful(sub, F[j].type, x),
           Into(sub, F[j], m) = sub.clear[F[j].type]
    PROVE  Chunk(sub, F, m,
                 <<Tag(F[j])>> \o Varint[sub.size[F[j].type][x]] \o sub.bytes[F[j].type][x],
                 1 + ScalarSize("uint32", sub.size[F[j].type][x]) + sub.size[F[j].type][x],
                 [m EXCEPT ![F[j].name] = Added(F[j], m, x)])
<1> DEFINE f == F[j]
<1>1. PICK n : n = [m EXCEPT ![f.name] = Added(f, m, x)]
  OBVIOUS
<1>2. PICK c : c = sub.bytes[f.type][x]
  OBVIOUS
<1>3. c \in Bytes /\ Len(c) = sub.size[f.type][x] /\ Len(c) \in UINT32
  BY <1>2 DEF Faithful
<1>4. sub.parse[f.type][Into(sub, f, m)][c] = Parsed(TRUE, x)
  BY <1>2 DEF Faithful
<1>5. PICK v : v = Varint[Len(c)]
  OBVIOUS
<1>6. FieldReads(sub, F[j], m, v \o c, n)
  <2>1. FieldReads(sub, F[j], m, Varint[Len(c)] \o c, [m EXCEPT ![f.name] = Added(f, m, x)])
    BY <1>3, <1>4, SubPiece, Zenon
  <2> QED
    BY <1>1, <1>5, <2>1
<1>7. Chunk(sub, F, m, <<Tag(f)>> \o (v \o c), 1 + Len(v \o c), n)
  BY <1>6, TagChunk, Zenon
<1>8. v \in Bytes /\ <<Tag(f)>> \in Bytes
      /\ Len(v) = ScalarSize("uint32", Len(c)) /\ Len(v) \in 1 .. 10
  <2>1. ReadAs("int32", Len(c), v) /\ Len(v) = ScalarSize("uint32", Len(c))
    BY <1>3, <1>5, UintReads
  <2>2. Tag(f) \in 1 .. 127
    BY DEF WellNumbered
  <2> QED
    BY <2>1, <2>2, NoBytes, TagReads DEF ReadAs
<1>9. (<<Tag(f)>> \o v) \o c = <<Tag(f)>> \o (v \o c)
  BY <1>3, <1>8, ChunksAssociate
<1>10. 1 + Len(v \o c) = 1 + Len(v) + Len(c)
  <2>1. Len(v \o c) = Len(v) + Len(c) /\ Len(v) \in Nat /\ Len(c) \in Nat
    BY <1>3, <1>8, Chunks
  <2> QED
    BY ONLY <2>1
<1>11. Chunk(sub, F, m, (<<Tag(f)>> \o v) \o c, 1 + Len(v) + Len(c), n)
  BY <1>7, <1>9, <1>10
<1>12. v = Varint[sub.size[f.type][x]] /\ Len(v) = ScalarSize("uint32", sub.size[f.type][x])
  BY <1>3, <1>5, <1>8
<1> QED
  BY <1>1, <1>2, <1>3, <1>11, <1>12

\* All submessages of a repeated field, or the one of an optional field
LEMMA SubsChunk ==
    ASSUME NEW sub, NEW F, NEW j \in DOMAIN F, WellNumbered(F), F[j].label # "scalar",
           NEW D, NEW z, z = [x \in D |-> z[x]], F[j].name \in D, z[F[j].name] = <<>>,
           NEW m, Writable(sub, F[j], m[F[j].name])
    PROVE  Chunk(sub, F, z, WriteField(sub, F[j], m), SizeOf(sub, F[j], m),
                 [z EXCEPT ![F[j].name] = m[F[j].name]])
<1> DEFINE f == F[j]
<1>2. PICK v : v = m[f.name]
  OBVIOUS
<1>3. f.label = "optional" => Len(v) <= 1
  BY <1>2 DEF Writable
<1>4. PICK S : v \in Seq(S) /\ \A x \in S : Faithful(sub, f.type, x)
  BY <1>2 DEF Writable
<1>5. PICK L : L = Len(v)
  OBVIOUS
<1>15. /\ SubSeq(v, 1, 0) = <<>> /\ SubSeq(v, 1, L) = v
       /\ \A i \in 1 .. L : Append(SubSeq(v, 1, i - 1), v[i]) = SubSeq(v, 1, i)
  <2>1. v \in Seq(S)
    BY <1>4
  <2>2. Grows(v)
    BY <2>1, PrefixesGrow, Zenon
  <2> QED
    BY <1>5, <2>2 DEF Grows
<1>6. L \in Nat /\ DOMAIN v = 1 .. L /\ \A i \in 1 .. L : v[i] \in S
  BY <1>4, <1>5, LenProperties, ElementOfSeq
<1>7. PICK cs : cs = [i \in 1 .. L |-> <<Tag(f)>> \o Varint[sub.size[f.type][v[i]]]
                                          \o sub.bytes[f.type][v[i]]]
  OBVIOUS
<1>8. PICK sizes : sizes = [i \in 1 .. L |->
                       1 + ScalarSize("uint32", sub.size[f.type][v[i]]) + sub.size[f.type][v[i]]]
  OBVIOUS
<1>9. PICK ms : ms = [i \in 0 .. L |-> [z EXCEPT ![f.name] = SubSeq(v, 1, i)]]
  OBVIOUS
<1>10. ASSUME NEW i \in 1 .. L
       PROVE  Chunk(sub, F, ms[i - 1], cs[i], sizes[i], ms[i])
  <2>1. i - 1 \in 0 .. L /\ i \in 0 .. L
    BY <1>6
  <2>2. PICK p : p = ms[i - 1]
    OBVIOUS
  <2>3. p = [z EXCEPT ![f.name] = SubSeq(v, 1, i - 1)] /\ ms[i] = [z EXCEPT ![f.name] = SubSeq(v, 1, i)]
    BY <1>9, <2>1, <2>2
  <2>4. p[f.name] = SubSeq(v, 1, i - 1)
    BY <2>3
  <2>5. Append(SubSeq(v, 1, i - 1), v[i]) = SubSeq(v, 1, i)
    BY <1>15, Zenon
  <2>6. f.label = "optional" => p[f.name] = <<>>
    <3>1. ASSUME f.label = "optional"
          PROVE  i - 1 = 0
      BY <1>3, <1>5, <1>6, <3>1
    <3>2. SubSeq(v, 1, 0) = <<>>
      BY <1>15
    <3> QED
      BY <2>4, <3>1, <3>2
  <2>7. Into(sub, f, p) = sub.clear[f.type]
    BY <2>6, Zenon DEF Into
  <2>8. Added(f, p, v[i]) = SubSeq(v, 1, i)
    <3>1. CASE f.label = "optional"
      <4>1. Append(<<>>, v[i]) = SubSeq(v, 1, i)
        BY <2>4, <2>5, <2>6, <3>1
      <4>2. Append(<<>>, v[i]) = <<v[i]>>
        OBVIOUS
      <4> QED
        BY <3>1, <4>1, <4>2, Zenon DEF Added
    <3>2. CASE f.label # "optional"
      BY <2>4, <2>5, <3>2, Zenon DEF Added
    <3> QED
      BY <3>1, <3>2
  <2>9. ms[i] = [p EXCEPT ![f.name] = Added(f, p, v[i])]
    BY <2>3, <2>8
  <2>10. Faithful(sub, f.type, v[i])
    BY <1>4, <1>6
  <2>11. cs[i] = <<Tag(f)>> \o Varint[sub.size[f.type][v[i]]] \o sub.bytes[f.type][v[i]]
    BY <1>7
  <2>12. sizes[i] = 1 + ScalarSize("uint32", sub.size[f.type][v[i]]) + sub.size[f.type][v[i]]
    BY <1>8
  <2>13. Chunk(sub, F, p, <<Tag(f)>> \o Varint[sub.size[f.type][v[i]]] \o sub.bytes[f.type][v[i]],
              1 + ScalarSize("uint32", sub.size[f.type][v[i]]) + sub.size[f.type][v[i]],
              [p EXCEPT ![f.name] = Added(f, p, v[i])])
    BY <2>7, <2>10, OneSubChunk, Zenon
  <2> QED
    BY <2>2, <2>9, <2>11, <2>12, <2>13
<1>11. Chunk(sub, F, ms[0], FlattenSeq(cs), Sum(sizes), ms[L])
  <2>1. cs = [i \in 1 .. L |-> cs[i]] /\ sizes = [i \in 1 .. L |-> sizes[i]]
    BY <1>7, <1>8
  <2> QED
    BY <1>6, <1>10, <2>1, AllChunks, Zenon
<1>12. ms[0] = z /\ ms[L] = [z EXCEPT ![f.name] = v]
  <2>1. SubSeq(v, 1, 0) = <<>> /\ SubSeq(v, 1, L) = v
    BY <1>15, Zenon
  <2>2. ms[0] = [z EXCEPT ![f.name] = <<>>] /\ ms[L] = [z EXCEPT ![f.name] = v]
    <3>1. 0 \in 0 .. L /\ L \in 0 .. L
      BY <1>6
    <3>2. ms[0] = [z EXCEPT ![f.name] = SubSeq(v, 1, 0)] /\ ms[L] = [z EXCEPT ![f.name] = SubSeq(v, 1, L)]
      BY <1>9, <3>1, Zenon
    <3> QED
      BY <2>1, <3>2
  <2>3. [z EXCEPT ![f.name] = <<>>] = z
    OBVIOUS
  <2> QED
    BY <2>2, <2>3
<1>13. WriteField(sub, f, m) = FlattenSeq(cs)
  BY <1>2, <1>6, <1>7, Zenon DEF WriteField
<1>14. SizeOf(sub, f, m) = Sum(sizes)
  BY <1>2, <1>6, <1>8, Zenon DEF SizeOf
<1> QED
  BY <1>2, <1>11, <1>12, <1>13, <1>14

\* What WriteFields and SizeOfFields do for one field.
FieldBytes(sub, f, m) == IF Has(f, m) THEN WriteField(sub, f, m) ELSE <<>>
FieldSize(sub, f, m) == IF Has(f, m) THEN SizeOf(sub, f, m) ELSE 0

\* A field that is written or left out because it holds nothing
LEMMA FieldChunk ==
    ASSUME NEW sub, NEW F, NEW j \in DOMAIN F, WellNumbered(F),
           NEW D, NEW z, z = [x \in D |-> z[x]], F[j].name \in D, z[F[j].name] = Nothing(F[j]),
           NEW m, Writable(sub, F[j], m[F[j].name])
    PROVE  Chunk(sub, F, z, FieldBytes(sub, F[j], m), FieldSize(sub, F[j], m),
                 [z EXCEPT ![F[j].name] = m[F[j].name]])
<1> DEFINE f == F[j]
<1>2. PICK v : v = m[f.name]
  OBVIOUS
<1>3. PICK n : n = [z EXCEPT ![f.name] = v]
  OBVIOUS
<1>4. CASE ~Has(f, m)
  <2>1. v = Nothing(f)
    BY <1>2, <1>4, Zenon DEF Has
  <2>2. n = z
    BY <1>3, <2>1
  <2>3. FieldBytes(sub, f, m) = <<>> /\ FieldSize(sub, f, m) = 0
    BY <1>4, Zenon DEF FieldBytes, FieldSize
  <2>4. Chunk(sub, F, z, <<>>, 0, z)
    BY NoChunk, Zenon
  <2> QED
    BY <1>2, <1>3, <2>2, <2>3, <2>4
<1>5. CASE Has(f, m) /\ f.label = "scalar"
  <2>1. PICK w : w = WriteScalar(f.type, v)
    OBVIOUS
  <2>2. f.type \in DOMAIN ScalarValues /\ v \in ScalarValues[f.type]
    BY <1>2, <1>5 DEF Writable
  <2>3. FieldReads(sub, F[j], z, w, n)
    <3>1. FieldReads(sub, F[j], z, WriteScalar(f.type, v), [z EXCEPT ![f.name] = v])
      BY <1>5, <2>2, ScalarPiece, Zenon
    <3> QED
      BY <1>3, <2>1, <3>1
  <2>4. Chunk(sub, F, z, <<Tag(f)>> \o w, 1 + Len(w), n)
    BY <2>3, TagChunk, Zenon
  <2>5. FieldBytes(sub, f, m) = <<Tag(f)>> \o w
    BY <1>2, <1>5, <2>1, Zenon DEF FieldBytes, WriteField
  <2>6. Len(w) = ScalarSize(f.type, v)
    BY <1>5, <2>1, <2>2, ScalarIsRead
  <2>7. FieldSize(sub, f, m) = 1 + Len(w)
    BY <1>2, <1>5, <2>6, Zenon DEF FieldSize, SizeOf
  <2> QED
    BY <1>2, <1>3, <2>4, <2>5, <2>7
<1>6. CASE Has(f, m) /\ f.label # "scalar"
  <2>1. FieldBytes(sub, f, m) = WriteField(sub, f, m) /\ FieldSize(sub, f, m) = SizeOf(sub, f, m)
    BY <1>6, Zenon DEF FieldBytes, FieldSize
  <2>2. z[f.name] = <<>>
    BY <1>6 DEF Nothing
  <2> QED
    <3>1. Chunk(sub, F, z, WriteField(sub, f, m), SizeOf(sub, f, m),
                [z EXCEPT ![f.name] = m[f.name]])
      BY <1>6, <2>2, SubsChunk, Zenon
    <3> QED
      BY <2>1, <3>1
<1> QED
  BY <1>4, <1>5, <1>6

-----------------------------------------------------------------------------
(* Messages                                                                *)

\* z is the cleared message of the class with fields F.
Layout(F, z) ==
    /\ WellNumbered(F)
    /\ Len(F) \in Nat /\ DOMAIN F = 1 .. Len(F)
    /\ z = [x \in DOMAIN z |-> z[x]]
    /\ DOMAIN z = {F[i].name : i \in DOMAIN F}
    /\ \A i, j \in DOMAIN F : F[i].name = F[j].name => i = j
    /\ \A i \in DOMAIN F : z[F[i].name] = Nothing(F[i])

\* m is a message of that class.
Holds(sub, F, z, m) ==
    /\ m = [x \in DOMAIN z |-> m[x]]
    /\ \A i \in DOMAIN F : Writable(sub, F[i], m[F[i].name])

\* The message z with the first n fields of m.
FilledTo(F, z, m, n) ==
    [x \in DOMAIN z |-> IF \E i \in 1 .. n : F[i].name = x THEN m[x] ELSE z[x]]

LEMMA FilledNone ==
    ASSUME NEW F, NEW z, NEW m, z = [x \in DOMAIN z |-> z[x]]
    PROVE  FilledTo(F, z, m, 0) = z
<1>1. ~ \E i \in 1 .. 0 : TRUE
  OBVIOUS
<1> QED
  BY <1>1 DEF FilledTo

LEMMA FilledAll ==
    ASSUME NEW sub, NEW F, NEW z, NEW m, Layout(F, z), Holds(sub, F, z, m)
    PROVE  FilledTo(F, z, m, Len(F)) = m
<1>1. \A x \in DOMAIN z : \E i \in 1 .. Len(F) : F[i].name = x
  BY DEF Layout
<1> QED
  BY <1>1 DEF FilledTo, Holds

\* The n-th field is the next to be filled.
NextFilled(F, z, m, n) ==
    /\ F[n].name \in DOMAIN z
    /\ FilledTo(F, z, m, n - 1)[F[n].name] = z[F[n].name]
    /\ FilledTo(F, z, m, n) = [FilledTo(F, z, m, n - 1) EXCEPT ![F[n].name] = m[F[n].name]]

LEMMA FilledNext ==
    ASSUME NEW F, NEW z, NEW m, Layout(F, z), NEW n \in 1 .. Len(F)
    PROVE  NextFilled(F, z, m, n)
<1>1. Len(F) \in Nat /\ n \in DOMAIN F /\ F[n].name \in DOMAIN z
  BY DEF Layout
<1>2. \A i \in 1 .. n - 1 : F[i].name # F[n].name
  BY <1>1 DEF Layout
<1>3. FilledTo(F, z, m, n - 1)[F[n].name] = z[F[n].name]
  BY <1>1, <1>2 DEF FilledTo
<1>4. ASSUME NEW x \in DOMAIN z
      PROVE  FilledTo(F, z, m, n)[x]
               = IF x = F[n].name THEN m[F[n].name] ELSE FilledTo(F, z, m, n - 1)[x]
  <2>1. CASE x = F[n].name
    <3>1. \E i \in 1 .. n : F[i].name = x
      BY <1>1, <2>1
    <3> QED
      BY <2>1, <3>1 DEF FilledTo
  <2>2. CASE x # F[n].name
    <3>1. (\E i \in 1 .. n : F[i].name = x) <=> (\E i \in 1 .. n - 1 : F[i].name = x)
      BY <1>1, <2>2
    <3> QED
      BY <2>2, <3>1 DEF FilledTo
  <2> QED
    BY <2>1, <2>2
<1>5. /\ DOMAIN FilledTo(F, z, m, n) = DOMAIN z /\ DOMAIN FilledTo(F, z, m, n - 1) = DOMAIN z
      /\ FilledTo(F, z, m, n) = [x \in DOMAIN z |-> FilledTo(F, z, m, n)[x]]
      /\ FilledTo(F, z, m, n - 1) = [x \in DOMAIN z |-> FilledTo(F, z, m, n - 1)[x]]
  BY DEF FilledTo
<1>6. PICK p : p = FilledTo(F, z, m, n - 1)
  OBVIOUS
<1>7. PICK q : q = FilledTo(F, z, m, n)
  OBVIOUS
<1>8. q = [p EXCEPT ![F[n].name] = m[F[n].name]]
  BY <1>4, <1>5, <1>6, <1>7
<1> QED
  BY <1>1, <1>3, <1>6, <1>7, <1>8 DEF NextFilled

\* The bytes of a message lead from the cleared message to it.
LEMMA MessageChunk ==
    ASSUME NEW sub, NEW F, NEW z, NEW m, Layout(F, z), Holds(sub, F, z, m)
    PROVE  Chunk(sub, F, z, WriteFields(sub, F, m), SizeOfFields(sub, F, m), m)
<1>1. PICK L : L = Len(F)
  OBVIOUS
<1>2. L \in Nat /\ DOMAIN F = 1 .. L /\ WellNumbered(F)
  BY <1>1 DEF Layout
<1>3. PICK cs : cs = [i \in 1 .. L |-> FieldBytes(sub, F[i], m)]
  OBVIOUS
<1>4. PICK sizes : sizes = [i \in 1 .. L |-> FieldSize(sub, F[i], m)]
  OBVIOUS
<1>5. PICK ms : ms = [i \in 0 .. L |-> FilledTo(F, z, m, i)]
  OBVIOUS
<1>6. ASSUME NEW i \in 1 .. L
      PROVE  Chunk(sub, F, ms[i - 1], cs[i], sizes[i], ms[i])
  <2>1. i - 1 \in 0 .. L /\ i \in 0 .. L /\ i \in DOMAIN F /\ i \in 1 .. Len(F)
    BY <1>1, <1>2
  <2>2. PICK p : p = FilledTo(F, z, m, i - 1)
    OBVIOUS
  <2>3. PICK D : D = DOMAIN z
    OBVIOUS
  <2>4. p = [x \in D |-> p[x]]
    BY <2>2, <2>3 DEF FilledTo
  <2>5. /\ F[i].name \in D
        /\ p[F[i].name] = z[F[i].name]
        /\ FilledTo(F, z, m, i) = [p EXCEPT ![F[i].name] = m[F[i].name]]
    <3>1. NextFilled(F, z, m, i)
      BY <2>1, FilledNext, Zenon
    <3> QED
      BY <2>2, <2>3, <3>1 DEF NextFilled
  <2>6. p[F[i].name] = Nothing(F[i]) /\ Writable(sub, F[i], m[F[i].name])
    BY <2>1, <2>5 DEF Layout, Holds
  <2>7. Chunk(sub, F, p, FieldBytes(sub, F[i], m), FieldSize(sub, F[i], m),
              [p EXCEPT ![F[i].name] = m[F[i].name]])
    BY <1>2, <2>1, <2>4, <2>5, <2>6, FieldChunk, Zenon
  <2>8. ms[i - 1] = p /\ ms[i] = [p EXCEPT ![F[i].name] = m[F[i].name]]
    BY <1>5, <2>1, <2>2, <2>5
  <2>9. cs[i] = FieldBytes(sub, F[i], m) /\ sizes[i] = FieldSize(sub, F[i], m)
    BY <1>3, <1>4
  <2> QED
    BY <2>7, <2>8, <2>9
<1>7. Chunk(sub, F, ms[0], FlattenSeq(cs), Sum(sizes), ms[L])
  <2>1. cs = [i \in 1 .. L |-> cs[i]] /\ sizes = [i \in 1 .. L |-> sizes[i]]
    BY <1>3, <1>4
  <2> QED
    BY <1>2, <1>6, <2>1, AllChunks, Zenon
<1>8. ms[0] = z /\ ms[L] = m
  <2>1. 0 \in 0 .. L /\ L \in 0 .. L
    BY <1>2
  <2>2. z = [x \in DOMAIN z |-> z[x]]
    BY DEF Layout
  <2> QED
    BY <1>1, <1>5, <2>1, <2>2, FilledNone, FilledAll
<1>9. WriteFields(sub, F, m) = FlattenSeq(cs)
  BY <1>2, <1>3, Zenon DEF WriteFields, FieldBytes
<1>10. SizeOfFields(sub, F, m) = Sum(sizes)
  BY <1>2, <1>4, Zenon DEF SizeOfFields, FieldSize
<1> QED
  BY <1>7, <1>8, <1>9, <1>10

\* A message is read back, and takes as many bytes as were counted.
LEMMA MessageReadBack ==
    ASSUME NEW sub, NEW F, NEW z, NEW m, Layout(F, z), Holds(sub, F, z, m)
    PROVE  /\ WriteFields(sub, F, m) \in Bytes
           /\ Len(WriteFields(sub, F, m)) = SizeOfFields(sub, F, m)
           /\ ParseFields(sub, F, z, WriteFields(sub, F, m)) = Parsed(TRUE, m)
<1>1. PICK w : w = WriteFields(sub, F, m)
  OBVIOUS
<1>2. w \in Bytes /\ Len(w) = SizeOfFields(sub, F, m) /\ Leads(sub, F, z, w, m)
  BY <1>1, MessageChunk DEF Chunk
<1>3. ParseFields(sub, F, z, w) = Parsed(TRUE, m)
  BY <1>2, LeadsParse
<1> QED
  BY <1>1, <1>2, <1>3

\* Merging into a cleared message makes a copy.
LEMMA MergeCopies ==
    ASSUME NEW sub, NEW F, NEW z, NEW m, Layout(F, z), Holds(sub, F, z, m)
    PROVE  MergeFields(F, z, m) = m
<1>1. ASSUME NEW x \in DOMAIN z
      PROVE  MergeFields(F, z, m)[x] = m[x]
  <2>1. PICK i \in DOMAIN F : F[i].name = x
    BY DEF Layout
  <2>2. CASE Has(F[i], m)
    BY <2>1, <2>2 DEF MergeFields
  <2>3. CASE ~Has(F[i], m)
    <3>1. m[x] = z[x]
      BY <2>1, <2>3 DEF Has, Layout
    <3> QED
      BY <3>1 DEF MergeFields
  <2> QED
    BY <2>2, <2>3
<1>2. MergeFields(F, z, m) = [x \in DOMAIN z |-> MergeFields(F, z, m)[x]]
  BY DEF MergeFields
<1> QED
  BY <1>1, <1>2 DEF Holds

-----------------------------------------------------------------------------
(* Sizes of classes without submessages                                    *)

LEMMA SumBound ==
    ASSUME NEW L \in Nat, NEW s, NEW f, NEW c \in Nat, Sums(s, f, L), \A i \in 1 .. L : s[i] \in 0 .. c
    PROVE  f[L] \in 0 .. c * L
<1> DEFINE S == {k \in 0 .. L : f[k] \in 0 .. c * k}
<1>1. 0 \in S
  BY DEF Sums
<1>2. ASSUME NEW k \in 0 .. L - 1, k \in S
      PROVE  k + 1 \in S
  <2>1. k + 1 \in 1 .. L /\ (k + 1) - 1 = k
    OBVIOUS
  <2>2. f[k + 1] = f[k] + s[k + 1]
    BY <2>1 DEF Sums
  <2>3. f[k] \in 0 .. c * k /\ s[k + 1] \in 0 .. c
    BY <1>2, <2>1
  <2>4. c * (k + 1) = c * k + c /\ c * k \in Nat
    OBVIOUS
  <2>5. f[k + 1] \in 0 .. c * (k + 1)
    BY <2>2, <2>3, <2>4
  <2> QED
    BY <2>1, <2>5
<1> HIDE DEF S
<1>3. \A k \in 0 .. L - 1 : k \in S => k + 1 \in S
  BY <1>2
<1>4. \A k \in 0 .. L : k \in S
  BY <1>1, <1>3, UpTo, Zenon
<1>5. L \in S
  BY <1>4
<1> QED
  BY <1>5 DEF S

LEMMA ScalarsAreShort ==
    ASSUME NEW sub, NEW F, NEW z, NEW m, Layout(F, z), Holds(sub, F, z, m), Len(F) <= 5,
           \A i \in DOMAIN F : F[i].label = "scalar"
    PROVE  SizeOfFields(sub, F, m) \in UINT32
<1>1. PICK L : L = Len(F)
  OBVIOUS
<1>2. L \in 0 .. 5 /\ DOMAIN F = 1 .. L
  BY <1>1 DEF Layout
<1>3. PICK sizes : sizes = [i \in 1 .. L |-> FieldSize(sub, F[i], m)]
  OBVIOUS
<1>4. ASSUME NEW i \in 1 .. L
      PROVE  sizes[i] \in 0 .. 11
  <2>1. PICK f : f = F[i]
    OBVIOUS
  <2>2. f.label = "scalar" /\ f.type \in DOMAIN ScalarValues /\ m[f.name] \in ScalarValues[f.type]
    BY <1>2, <2>1 DEF Holds, Writable
  <2>3. f.type \in {"int32", "uint32", "bool"}
    BY <2>2 DEF ScalarValues
  <2>4. PICK n : n = ScalarSize(f.type, m[f.name])
    OBVIOUS
  <2>5. n \in 1 .. 10
    <3>1. ReadAs(f.type, m[f.name], WriteScalar(f.type, m[f.name]))
          /\ Len(WriteScalar(f.type, m[f.name])) = n
      BY <2>2, <2>3, <2>4, ScalarReads
    <3> QED
      BY <3>1 DEF ReadAs
  <2>6. FieldSize(sub, f, m) = IF Has(f, m) THEN 1 + n ELSE 0
    BY <2>2, <2>4, Zenon DEF FieldSize, SizeOf
  <2>7. sizes[i] = FieldSize(sub, f, m)
    BY <1>3, <2>1
  <2> QED
    BY <2>5, <2>6, <2>7
<1>5. sizes \in Seq(Nat) /\ Len(sizes) = L
  <2>1. L \in Nat /\ sizes \in [1 .. L -> Nat]
    BY <1>2, <1>3, <1>4
  <2> QED
    BY <2>1, FunctionIsSeq
<1>6. PICK f : Sums(sizes, f, L) /\ Sum(sizes) = f[L]
  BY <1>5, SumIs
<1>7. f[L] \in 0 .. 11 * L
  <2>1. L \in Nat /\ 11 \in Nat
    BY <1>2
  <2> QED
    BY <1>4, <1>6, <2>1, SumBound, Zenon
<1>8. SizeOfFields(sub, F, m) = Sum(sizes)
  BY <1>2, <1>3, Zenon DEF SizeOfFields, FieldSize
<1>9. \A n \in 0 .. 55 : n \in UINT32
  BY Int32s, SMT DEF UINT32
<1> QED
  <2>1. f[L] \in 0 .. 55
    <3>1. \A l \in 0 .. 5 : \A x \in 0 .. 11 * l : x \in 0 .. 55
      OBVIOUS
    <3> QED
      BY <1>2, <1>7, <3>1, Zenon
  <2> QED
    BY <1>6, <1>8, <1>9, <2>1

-----------------------------------------------------------------------------
(* The fields of each class                                                *)

LEMMA HostInfoLayout == Layout(HostInfo_Fields, HostInfo_Clear)
<1>1. PICK F : F = HostInfo_Fields
  OBVIOUS
<1>2. PICK z : z = HostInfo_Clear
  OBVIOUS
<1>3. /\ Len(F) = 2 /\ DOMAIN F = 1 .. 2
      /\ F[1] = Scalar(1, "ip", "int32")
      /\ F[2] = Scalar(2, "port", "int32")
  BY <1>1 DEF HostInfo_Fields
<1>4. /\ F[1].name = "ip" /\ WireType(F[1]) = 0 /\ Tag(F[1]) = 8
      /\ F[2].name = "port" /\ WireType(F[2]) = 0 /\ Tag(F[2]) = 16
  BY <1>3 DEF Scalar, WireType, Tag
<1>5. /\ z = [x \in DOMAIN z |-> z[x]] /\ DOMAIN z = {"ip", "port"}
      /\ z["ip"] = 0
      /\ z["port"] = 0
  BY <1>2 DEF HostInfo_Clear
<1>6. z["ip"] = Nothing(F[1]) /\ z["port"] = Nothing(F[2])
  BY <1>3, <1>5 DEF Scalar, Nothing
<1> QED
  BY <1>1, <1>2, <1>3, <1>4, <1>5, <1>6 DEF Layout, WellNumbered

LEMMA GetRouteRequestLayout == Layout(GetRouteRequest_Fields, GetRouteRequest_Clear)
<1>1. PICK F : F = GetRouteRequest_Fields
  OBVIOUS
<1>2. PICK z : z = GetRouteRequest_Clear
  OBVIOUS
<1>3. /\ Len(F) = 2 /\ DOMAIN F = 1 .. 2
      /\ F[1] = Scalar(1, "modid", "int32")
      /\ F[2] = Scalar(2, "cmdid", "int32")
  BY <1>1 DEF GetRouteRequest_Fields
<1>4. /\ F[1].name = "modid" /\ WireType(F[1]) = 0 /\ Tag(F[1]) = 8
      /\ F[2].name = "cmdid" /\ WireType(F[2]) = 0 /\ Tag(F[2]) = 16
  BY <1>3 DEF Scalar, WireType, Tag
<1>5. /\ z = [x \in DOMAIN z |-> z[x]] /\ DOMAIN z = {"modid", "cmdid"}
      /\ z["modid"] = 0
      /\ z["cmdid"] = 0
  BY <1>2 DEF GetRouteRequest_Clear
<1>6. z["modid"] = Nothing(F[1]) /\ z["cmdid"] = Nothing(F[2])
  BY <1>3, <1>5 DEF Scalar, Nothing
<1> QED
  BY <1>1, <1>2, <1>3, <1>4, <1>5, <1>6 DEF Layout, WellNumbered

LEMMA GetRouteResponseLayout == Layout(GetRouteResponse_Fields, GetRouteResponse_Clear)
<1>1. PICK F : F = GetRouteResponse_Fields
  OBVIOUS
<1>2. PICK z : z = GetRouteResponse_Clear
  OBVIOUS
<1>3. /\ Len(F) = 3 /\ DOMAIN F = 1 .. 3
      /\ F[1] = Scalar(1, "modid", "int32")
      /\ F[2] = Scalar(2, "cmdid", "int32")
      /\ F[3] = Repeated(3, "host", "HostInfo")
  BY <1>1 DEF GetRouteResponse_Fields
<1>4. /\ F[1].name = "modid" /\ WireType(F[1]) = 0 /\ Tag(F[1]) = 8
      /\ F[2].name = "cmdid" /\ WireType(F[2]) = 0 /\ Tag(F[2]) = 16
      /\ F[3].name = "host" /\ WireType(F[3]) = 2 /\ Tag(F[3]) = 26
  BY <1>3 DEF Scalar, Repeated, WireType, Tag
<1>5. /\ z = [x \in DOMAIN z |-> z[x]] /\ DOMAIN z = {"modid", "cmdid", "host"}
      /\ z["modid"] = 0
      /\ z["cmdid"] = 0
      /\ z["host"] = <<>>
  BY <1>2 DEF GetRouteResponse_Clear
<1>6. z["modid"] = Nothing(F[1]) /\ z["cmdid"] = Nothing(F[2]) /\ z["host"] = Nothing(F[3])
  BY <1>3, <1>5 DEF Scalar, Repeated, Nothing
<1> QED
  BY <1>1, <1>2, <1>3, <1>4, <1>5, <1>6 DEF Layout, WellNumbered

LEMMA HostCallResultLayout == Layout(HostCallResult_Fields, HostCallResult_Clear)
<1>1. PICK F : F = HostCallResult_Fields
  OBVIOUS
<1>2. PICK z : z = HostCallResult_Clear
  OBVIOUS
<1>3. /\ Len(F) = 5 /\ DOMAIN F = 1 .. 5
      /\ F[1] = Scalar(1, "ip", "int32")
      /\ F[2] = Scalar(2, "port", "int32")
      /\ F[3] = Scalar(3, "succ", "uint32")
      /\ F[4] = Scalar(4, "err", "uint32")
      /\ F[5] = Scalar(5, "overload", "bool")
  BY <1>1 DEF HostCallResult_Fields
<1>4. /\ F[1].name = "ip" /\ WireType(F[1]) = 0 /\ Tag(F[1]) = 8
      /\ F[2].name = "port" /\ WireType(F[2]) = 0 /\ Tag(F[2]) = 16
      /\ F[3].name = "succ" /\ WireType(F[3]) = 0 /\ Tag(F[3]) = 24
      /\ F[4].name = "err" /\ WireType(F[4]) = 0 /\ Tag(F[4]) = 32
      /\ F[5].name = "overload" /\ WireType(F[5]) = 0 /\ Tag(F[5]) = 40
  BY <1>3 DEF Scalar, WireType, Tag
<1>5. /\ z = [x \in DOMAIN z |-> z[x]] /\ DOMAIN z = {"ip", "port", "succ", "err", "overload"}
      /\ z["ip"] = 0
      /\ z["port"] = 0
      /\ z["succ"] = 0
      /\ z["err"] = 0
      /\ z["overload"] = FALSE
  BY <1>2 DEF HostCallResult_Clear
<1>6. /\ z["ip"] = Nothing(F[1])
      /\ z["port"] = Nothing(F[2])
      /\ z["succ"] = Nothing(F[3])
      /\ z["err"] = Nothing(F[4])
  BY <1>3, <1>5 DEF Scalar, Nothing
<1>7. z["overload"] = Nothing(F[5])
  <2>1. F[5].label = "scalar" /\ F[5].type = "bool"
    BY <1>3 DEF Scalar
  <2> QED
    BY <1>5, <2>1, Zenon DEF Nothing
<1> QED
  BY <1>1, <1>2, <1>3, <1>4, <1>5, <1>6, <1>7 DEF Layout, WellNumbered

LEMMA ReportStatusRequestLayout == Layout(ReportStatusRequest_Fields, ReportStatusRequest_Clear)
<1>1. PICK F : F = ReportStatusRequest_Fields
  OBVIOUS
<1>2. PICK z : z = ReportStatusRequest_Clear
  OBVIOUS
<1>3. /\ Len(F) = 5 /\ DOMAIN F = 1 .. 5
      /\ F[1] = Scalar(1, "modid", "int32")
      /\ F[2] = Scalar(2, "cmdid", "int32")
      /\ F[3] = Scalar(3, "caller", "int32")
      /\ F[4] = Repeated(4, "results", "HostCallResult")
      /\ F[5] = Scalar(5, "ts", "uint32")
  BY <1>1 DEF ReportStatusRequest_Fields
<1>4. /\ F[1].name = "modid" /\ WireType(F[1]) = 0 /\ Tag(F[1]) = 8
      /\ F[2].name = "cmdid" /\ WireType(F[2]) = 0 /\ Tag(F[2]) = 16
      /\ F[3].name = "caller" /\ WireType(F[3]) = 0 /\ Tag(F[3]) = 24
      /\ F[4].name = "results" /\ WireType(F[4]) = 2 /\ Tag(F[4]) = 34
      /\ F[5].name = "ts" /\ WireType(F[5]) = 0 /\ Tag(F[5]) = 40
  BY <1>3 DEF Scalar, Repeated, WireType, Tag
<1>5. /\ /\ z = [x \in DOMAIN z |-> z[x]]
      /\ DOMAIN z = {"modid", "cmdid", "caller", "results", "ts"}
      /\ z["modid"] = 0
      /\ z["cmdid"] = 0
      /\ z["caller"] = 0
      /\ z["results"] = <<>>
      /\ z["ts"] = 0
  BY <1>2 DEF ReportStatusRequest_Clear
<1>6. /\ z["modid"] = Nothing(F[1])
      /\ z["cmdid"] = Nothing(F[2])
      /\ z["caller"] = Nothing(F[3])
      /\ z["results"] = Nothing(F[4])
      /\ z["ts"] = Nothing(F[5])
  BY <1>3, <1>5 DEF Scalar, Repeated, Nothing
<1> QED
  BY <1>1, <1>2, <1>3, <1>4, <1>5, <1>6 DEF Layout, WellNumbered

LEMMA GetHostRequestLayout == Layout(GetHostRequest_Fields, GetHostRequest_Clear)
<1>1. PICK F : F = GetHostRequest_Fields
  OBVIOUS
<1>2. PICK z : z = GetHostRequest_Clear
  OBVIOUS
<1>3. /\ Len(F) = 3 /\ DOMAIN F = 1 .. 3
      /\ F[1] = Scalar(1, "seq", "uint32")
      /\ F[2] = Scalar(2, "modid", "int32")
      /\ F[3] = Scalar(3, "cmdid", "int32")
  BY <1>1 DEF GetHostRequest_Fields
<1>4. /\ F[1].name = "seq" /\ WireType(F[1]) = 0 /\ Tag(F[1]) = 8
      /\ F[2].name = "modid" /\ WireType(F[2]) = 0 /\ Tag(F[2]) = 16
      /\ F[3].name = "cmdid" /\ WireType(F[3]) = 0 /\ Tag(F[3]) = 24
  BY <1>3 DEF Scalar, WireType, Tag
<1>5. /\ z = [x \in DOMAIN z |-> z[x]] /\ DOMAIN z = {"seq", "modid", "cmdid"}
      /\ z["seq"] = 0
      /\ z["modid"] = 0
      /\ z["cmdid"] = 0
  BY <1>2 DEF GetHostRequest_Clear
<1>6. z["seq"] = Nothing(F[1]) /\ z["modid"] = Nothing(F[2]) /\ z["cmdid"] = Nothing(F[3])
  BY <1>3, <1>5 DEF Scalar, Nothing
<1> QED
  BY <1>1, <1>2, <1>3, <1>4, <1>5, <1>6 DEF Layout, WellNumbered

LEMMA GetHostResponseLayout == Layout(GetHostResponse_Fields, GetHostResponse_Clear)
<1>1. PICK F : F = GetHostResponse_Fields
  OBVIOUS
<1>2. PICK z : z = GetHostResponse_Clear
  OBVIOUS
<1>3. /\ Len(F) = 5 /\ DOMAIN F = 1 .. 5
      /\ F[1] = Scalar(1, "seq", "uint32")
      /\ F[2] = Scalar(2, "modid", "int32")
      /\ F[3] = Scalar(3, "cmdid", "int32")
      /\ F[4] = Scalar(4, "retcode", "int32")
      /\ F[5] = Optional(5, "host", "HostInfo")
  BY <1>1 DEF GetHostResponse_Fields
<1>4. /\ F[1].name = "seq" /\ WireType(F[1]) = 0 /\ Tag(F[1]) = 8
      /\ F[2].name = "modid" /\ WireType(F[2]) = 0 /\ Tag(F[2]) = 16
      /\ F[3].name = "cmdid" /\ WireType(F[3]) = 0 /\ Tag(F[3]) = 24
      /\ F[4].name = "retcode" /\ WireType(F[4]) = 0 /\ Tag(F[4]) = 32
      /\ F[5].name = "host" /\ WireType(F[5]) = 2 /\ Tag(F[5]) = 42
  BY <1>3 DEF Scalar, Optional, WireType, Tag
<1>5. /\ /\ z = [x \in DOMAIN z |-> z[x]]
      /\ DOMAIN z = {"seq", "modid", "cmdid", "retcode", "host"}
      /\ z["seq"] = 0
      /\ z["modid"] = 0
      /\ z["cmdid"] = 0
      /\ z["retcode"] = 0
      /\ z["host"] = <<>>
  BY <1>2 DEF GetHostResponse_Clear
<1>6. /\ z["seq"] = Nothing(F[1])
      /\ z["modid"] = Nothing(F[2])
      /\ z["cmdid"] = Nothing(F[3])
      /\ z["retcode"] = Nothing(F[4])
      /\ z["host"] = Nothing(F[5])
  BY <1>3, <1>5 DEF Scalar, Optional, Nothing
<1> QED
  BY <1>1, <1>2, <1>3, <1>4, <1>5, <1>6 DEF Layout, WellNumbered

-----------------------------------------------------------------------------
(* The classes without submessages                                         *)

LEMMA ScalarFits ==
    ASSUME NEW sub, NEW num, NEW name, NEW type \in DOMAIN ScalarValues,
           NEW v \in ScalarValues[type]
    PROVE  Writable(sub, Scalar(num, name, type), v)
BY DEF Writable, Scalar

LEMMA HostInfoFits ==
    ASSUME NEW m \in HostInfos
    PROVE  Holds(Leaf, HostInfo_Fields, HostInfo_Clear, m)
<1>1. /\ DOMAIN HostInfo_Fields = 1 .. 2
      /\ HostInfo_Fields[1] = Scalar(1, "ip", "int32")
      /\ HostInfo_Fields[2] = Scalar(2, "port", "int32")
  BY DEF HostInfo_Fields
<1>2. m = [x \in DOMAIN HostInfo_Clear |-> m[x]]
  BY DEF HostInfos, HostInfo_Clear
<1>3. Writable(Leaf, HostInfo_Fields[1], m[HostInfo_Fields[1].name])
  <2>1. HostInfo_Fields[1].name = "ip"
    BY <1>1 DEF Scalar
  <2>2. "int32" \in DOMAIN ScalarValues /\ m["ip"] \in ScalarValues["int32"]
    BY DEF HostInfos, ScalarValues
  <2>3. Writable(Leaf, Scalar(1, "ip", "int32"), m["ip"])
    BY <2>2, ScalarFits, Zenon
  <2> QED
    BY <1>1, <2>1, <2>3
<1>4. Writable(Leaf, HostInfo_Fields[2], m[HostInfo_Fields[2].name])
  <2>1. HostInfo_Fields[2].name = "port"
    BY <1>1 DEF Scalar
  <2>2. "int32" \in DOMAIN ScalarValues /\ m["port"] \in ScalarValues["int32"]
    BY DEF HostInfos, ScalarValues
  <2>3. Writable(Leaf, Scalar(2, "port", "int32"), m["port"])
    BY <2>2, ScalarFits, Zenon
  <2> QED
    BY <1>1, <2>1, <2>3
<1> QED
  BY <1>1, <1>2, <1>3, <1>4 DEF Holds

LEMMA HostCallResultFits ==
    ASSUME NEW m \in HostCallResults
    PROVE  Holds(Leaf, HostCallResult_Fields, HostCallResult_Clear, m)
<1>1. /\ DOMAIN HostCallResult_Fields = 1 .. 5
      /\ HostCallResult_Fields[1] = Scalar(1, "ip", "int32")
      /\ HostCallResult_Fields[2] = Scalar(2, "port", "int32")
      /\ HostCallResult_Fields[3] = Scalar(3, "succ", "uint32")
      /\ HostCallResult_Fields[4] = Scalar(4, "err", "uint32")
      /\ HostCallResult_Fields[5] = Scalar(5, "overload", "bool")
  BY DEF HostCallResult_Fields
<1>2. m = [x \in DOMAIN HostCallResult_Clear |-> m[x]]
  BY DEF HostCallResults, HostCallResult_Clear
<1>3. Writable(Leaf, HostCallResult_Fields[1], m[HostCallResult_Fields[1].name])
  <2>1. HostCallResult_Fields[1].name = "ip"
    BY <1>1 DEF Scalar
  <2>2. "int32" \in DOMAIN ScalarValues /\ m["ip"] \in ScalarValues["int32"]
    BY DEF HostCallResults, ScalarValues
  <2>3. Writable(Leaf, Scalar(1, "ip", "int32"), m["ip"])
    BY <2>2, ScalarFits, Zenon
  <2> QED
    BY <1>1, <2>1, <2>3
<1>4. Writable(Leaf, HostCallResult_Fields[2], m[HostCallResult_Fields[2].name])
  <2>1. HostCallResult_Fields[2].name = "port"
    BY <1>1 DEF Scalar
  <2>2. "int32" \in DOMAIN ScalarValues /\ m["port"] \in ScalarValues["int32"]
    BY DEF HostCallResults, ScalarValues
  <2>3. Writable(Leaf, Scalar(2, "port", "int32"), m["port"])
    BY <2>2, ScalarFits, Zenon
  <2> QED
    BY <1>1, <2>1, <2>3
<1>5. Writable(Leaf, HostCallResult_Fields[3], m[HostCallResult_Fields[3].name])
  <2>1. HostCallResult_Fields[3].name = "succ"
    BY <1>1 DEF Scalar
  <2>2. "uint32" \in DOMAIN ScalarValues /\ m["succ"] \in ScalarValues["uint32"]
    BY DEF HostCallResults, ScalarValues
  <2>3. Writable(Leaf, Scalar(3, "succ", "uint32"), m["succ"])
    BY <2>2, ScalarFits, Zenon
  <2> QED
    BY <1>1, <2>1, <2>3
<1>6. Writable(Leaf, HostCallResult_Fields[4], m[HostCallResult_Fields[4].name])
  <2>1. HostCallResult_Fields[4].name = "err"
    BY <1>1 DEF Scalar
  <2>2. "uint32" \in DOMAIN ScalarValues /\ m["err"] \in ScalarValues["uint32"]
    BY DEF HostCallResults, ScalarValues
  <2>3. Writable(Leaf, Scalar(4, "err", "uint32"), m["err"])
    BY <2>2, ScalarFits, Zenon
  <2> QED
    BY <1>1, <2>1, <2>3
<1>7. Writable(Leaf, HostCallResult_Fields[5], m[HostCallResult_Fields[5].name])
  <2>1. HostCallResult_Fields[5].name = "overload"
    BY <1>1 DEF Scalar
  <2>2. "bool" \in DOMAIN ScalarValues /\ m["overload"] \in ScalarValues["bool"]
    BY DEF HostCallResults, ScalarValues
  <2>3. Writable(Leaf, Scalar(5, "overload", "bool"), m["overload"])
    BY <2>2, ScalarFits, Zenon
  <2> QED
    BY <1>1, <2>1, <2>3
<1> QED
  BY <1>1, <1>2, <1>3, <1>4, <1>5, <1>6, <1>7 DEF Holds

LEMMA GetRouteRequestFits ==
    ASSUME NEW m \in GetRouteRequests
    PROVE  Holds(Leaf, GetRouteRequest_Fields, GetRouteRequest_Clear, m)
<1>1. /\ DOMAIN GetRouteRequest_Fields = 1 .. 2
      /\ GetRouteRequest_Fields[1] = Scalar(1, "modid", "int32")
      /\ GetRouteRequest_Fields[2] = Scalar(2, "cmdid", "int32")
  BY DEF GetRouteRequest_Fields
<1>2. m = [x \in DOMAIN GetRouteRequest_Clear |-> m[x]]
  BY DEF GetRouteRequests, GetRouteRequest_Clear
<1>3. Writable(Leaf, GetRouteRequest_Fields[1], m[GetRouteRequest_Fields[1].name])
  <2>1. GetRouteRequest_Fields[1].name = "modid"
    BY <1>1 DEF Scalar
  <2>2. "int32" \in DOMAIN ScalarValues /\ m["modid"] \in ScalarValues["int32"]
    BY DEF GetRouteRequests, ScalarValues
  <2>3. Writable(Leaf, Scalar(1, "modid", "int32"), m["modid"])
    BY <2>2, ScalarFits, Zenon
  <2> QED
    BY <1>1, <2>1, <2>3
<1>4. Writable(Leaf, GetRouteRequest_Fields[2], m[GetRouteRequest_Fields[2].name])
  <2>1. GetRouteRequest_Fields[2].name = "cmdid"
    BY <1>1 DEF Scalar
  <2>2. "int32" \in DOMAIN ScalarValues /\ m["cmdid"] \in ScalarValues["int32"]
    BY DEF GetRouteRequests, ScalarValues
  <2>3. Writable(Leaf, Scalar(2, "cmdid", "int32"), m["cmdid"])
    BY <2>2, ScalarFits, Zenon
  <2> QED
    BY <1>1, <2>1, <2>3
<1> QED
  BY <1>1, <1>2, <1>3, <1>4 DEF Holds

LEMMA GetHostRequestFits ==
    ASSUME NEW m \in GetHostRequests
    PROVE  Holds(Leaf, GetHostRequest_Fields, GetHostRequest_Clear, m)
<1>1. /\ DOMAIN GetHostRequest_Fields = 1 .. 3
      /\ GetHostRequest_Fields[1] = Scalar(1, "seq", "uint32")
      /\ GetHostRequest_Fields[2] = Scalar(2, "modid", "int32")
      /\ GetHostRequest_Fields[3] = Scalar(3, "cmdid", "int32")
  BY DEF GetHostRequest_Fields
<1>2. m = [x \in DOMAIN GetHostRequest_Clear |-> m[x]]
  BY DEF GetHostRequests, GetHostRequest_Clear
<1>3. Writable(Leaf, GetHostRequest_Fields[1], m[GetHostRequest_Fields[1].name])
  <2>1. GetHostRequest_Fields[1].name = "seq"
    BY <1>1 DEF Scalar
  <2>2. "uint32" \in DOMAIN ScalarValues /\ m["seq"] \in ScalarValues["uint32"]
    BY DEF GetHostRequests, ScalarValues
  <2>3. Writable(Leaf, Scalar(1, "seq", "uint32"), m["seq"])
    BY <2>2, ScalarFits, Zenon
  <2> QED
    BY <1>1, <2>1, <2>3
<1>4. Writable(Leaf, GetHostRequest_Fields[2], m[GetHostRequest_Fields[2].name])
  <2>1. GetHostRequest_Fields[2].name = "modid"
    BY <1>1 DEF Scalar
  <2>2. "int32" \in DOMAIN ScalarValues /\ m["modid"] \in ScalarValues["int32"]
    BY DEF GetHostRequests, ScalarValues
  <2>3. Writable(Leaf, Scalar(2, "modid", "int32"), m["modid"])
    BY <2>2, ScalarFits, Zenon
  <2> QED
    BY <1>1, <2>1, <2>3
<1>5. Writable(Leaf, GetHostRequest_Fields[3], m[GetHostRequest_Fields[3].name])
  <2>1. GetHostRequest_Fields[3].name = "cmdid"
    BY <1>1 DEF Scalar
  <2>2. "int32" \in DOMAIN ScalarValues /\ m["cmdid"] \in ScalarValues["int32"]
    BY DEF GetHostRequests, ScalarValues
  <2>3. Writable(Leaf, Scalar(3, "cmdid", "int32"), m["cmdid"])
    BY <2>2, ScalarFits, Zenon
  <2> QED
    BY <1>1, <2>1, <2>3
<1> QED
  BY <1>1, <1>2, <1>3, <1>4, <1>5 DEF Holds

-----------------------------------------------------------------------------
(* The submessages                                                         *)

LEMMA HostInfoFaithful ==
    \A m \in HostInfos : Faithful(Nested, "HostInfo", m)
<1> TAKE m \in HostInfos
<1>1. PICK b : b = WriteFields(Leaf, HostInfo_Fields, m)
  OBVIOUS
<1>2. /\ b \in Bytes /\ Len(b) = SizeOfFields(Leaf, HostInfo_Fields, m)
      /\ ParseFields(Leaf, HostInfo_Fields, HostInfo_Clear, b) = Parsed(TRUE, m)
  BY <1>1, HostInfoLayout, HostInfoFits, MessageReadBack
<1>3. SizeOfFields(Leaf, HostInfo_Fields, m) \in UINT32
  <2>1. /\ Len(HostInfo_Fields) <= 5
        /\ \A i \in DOMAIN HostInfo_Fields : HostInfo_Fields[i].label = "scalar"
    BY DEF HostInfo_Fields, Scalar
  <2> QED
    BY <2>1, HostInfoLayout, HostInfoFits, ScalarsAreShort
<1>4. HostInfo_Clear \in HostInfos
  BY Int32s DEF HostInfo_Clear, HostInfos, INT32, UINT32
<1>5. /\ Nested.bytes["HostInfo"][m] = b
      /\ Nested.size["HostInfo"][m] = SizeOfFields(Leaf, HostInfo_Fields, m)
      /\ Nested.clear["HostInfo"] = HostInfo_Clear
  BY <1>1 DEF Nested, SubSerialize, SubByteSize, SubClear,
       HostInfo_InternalSerialize, HostInfo_ByteSizeLong
<1>6. Nested.parse["HostInfo"][HostInfo_Clear][b]
          = ParseFields(Leaf, HostInfo_Fields, HostInfo_Clear, b)
  BY <1>2, <1>4 DEF Nested, SubParse, HostInfo_InternalParse
<1> QED
  BY <1>2, <1>3, <1>5, <1>6 DEF Faithful

LEMMA HostCallResultFaithful ==
    \A m \in HostCallResults : Faithful(Nested, "HostCallResult", m)
<1> TAKE m \in HostCallResults
<1>1. PICK b : b = WriteFields(Leaf, HostCallResult_Fields, m)
  OBVIOUS
<1>2. /\ b \in Bytes /\ Len(b) = SizeOfFields(Leaf, HostCallResult_Fields, m)
      /\ ParseFields(Leaf, HostCallResult_Fields, HostCallResult_Clear, b) = Parsed(TRUE, m)
  BY <1>1, HostCallResultLayout, HostCallResultFits, MessageReadBack
<1>3. SizeOfFields(Leaf, HostCallResult_Fields, m) \in UINT32
  <2>1. /\ Len(HostCallResult_Fields) <= 5
        /\ \A i \in DOMAIN HostCallResult_Fields : HostCallResult_Fields[i].label = "scalar"
    BY DEF HostCallResult_Fields, Scalar
  <2> QED
    BY <2>1, HostCallResultLayout, HostCallResultFits, ScalarsAreShort
<1>4. HostCallResult_Clear \in HostCallResults
  BY Int32s DEF HostCallResult_Clear, HostCallResults, INT32, UINT32
<1>5. /\ Nested.bytes["HostCallResult"][m] = b
      /\ Nested.size["HostCallResult"][m] = SizeOfFields(Leaf, HostCallResult_Fields, m)
      /\ Nested.clear["HostCallResult"] = HostCallResult_Clear
  BY <1>1 DEF Nested, SubSerialize, SubByteSize, SubClear,
       HostCallResult_InternalSerialize, HostCallResult_ByteSizeLong
<1>6. Nested.parse["HostCallResult"][HostCallResult_Clear][b]
          = ParseFields(Leaf, HostCallResult_Fields, HostCallResult_Clear, b)
  BY <1>2, <1>4 DEF Nested, SubParse, HostCallResult_InternalParse
<1> QED
  BY <1>2, <1>3, <1>5, <1>6 DEF Faithful

LEMMA SeveralFit ==
    ASSUME NEW sub, NEW num, NEW name, NEW type, NEW S, NEW v \in Seq(S),
           \A x \in S : Faithful(sub, type, x)
    PROVE  Writable(sub, Repeated(num, name, type), v)
BY DEF Writable, Repeated

LEMMA AtMostOneFits ==
    ASSUME NEW sub, NEW num, NEW name, NEW type, NEW S, NEW v \in Seq(S), Len(v) <= 1,
           \A x \in S : Faithful(sub, type, x)
    PROVE  Writable(sub, Optional(num, name, type), v)
BY DEF Writable, Optional

LEMMA GetRouteResponseFits ==
    ASSUME NEW m \in GetRouteResponses
    PROVE  Holds(Nested, GetRouteResponse_Fields, GetRouteResponse_Clear, m)
<1>1. /\ DOMAIN GetRouteResponse_Fields = 1 .. 3
      /\ GetRouteResponse_Fields[1] = Scalar(1, "modid", "int32")
      /\ GetRouteResponse_Fields[2] = Scalar(2, "cmdid", "int32")
      /\ GetRouteResponse_Fields[3] = Repeated(3, "host", "HostInfo")
  BY DEF GetRouteResponse_Fields
<1>2. m = [x \in DOMAIN GetRouteResponse_Clear |-> m[x]]
  BY DEF GetRouteResponses, GetRouteResponse_Clear
<1>3. Writable(Nested, GetRouteResponse_Fields[1], m[GetRouteResponse_Fields[1].name])
  <2>1. GetRouteResponse_Fields[1].name = "modid"
    BY <1>1 DEF Scalar
  <2>2. "int32" \in DOMAIN ScalarValues /\ m["modid"] \in ScalarValues["int32"]
    BY DEF GetRouteResponses, ScalarValues
  <2>3. Writable(Nested, Scalar(1, "modid", "int32"), m["modid"])
    BY <2>2, ScalarFits, Zenon
  <2> QED
    BY <1>1, <2>1, <2>3
<1>4. Writable(Nested, GetRouteResponse_Fields[2], m[GetRouteResponse_Fields[2].name])
  <2>1. GetRouteResponse_Fields[2].name = "cmdid"
    BY <1>1 DEF Scalar
  <2>2. "int32" \in DOMAIN ScalarValues /\ m["cmdid"] \in ScalarValues["int32"]
    BY DEF GetRouteResponses, ScalarValues
  <2>3. Writable(Nested, Scalar(2, "cmdid", "int32"), m["cmdid"])
    BY <2>2, ScalarFits, Zenon
  <2> QED
    BY <1>1, <2>1, <2>3
<1>5. Writable(Nested, GetRouteResponse_Fields[3], m[GetRouteResponse_Fields[3].name])
  <2>1. GetRouteResponse_Fields[3].name = "host"
    BY <1>1 DEF Repeated
  <2>2. m["host"] \in Seq(HostInfos)
    BY DEF GetRouteResponses
  <2>3. Writable(Nested, Repeated(3, "host", "HostInfo"), m["host"])
    BY <2>2, HostInfoFaithful, SeveralFit, Zenon
  <2> QED
    BY <1>1, <2>1, <2>3
<1> QED
  BY <1>1, <1>2, <1>3, <1>4, <1>5 DEF Holds

LEMMA ReportStatusRequestFits ==
    ASSUME NEW m \in ReportStatusRequests
    PROVE  Holds(Nested, ReportStatusRequest_Fields, ReportStatusRequest_Clear, m)
<1>1. /\ DOMAIN ReportStatusRequest_Fields = 1 .. 5
      /\ ReportStatusRequest_Fields[1] = Scalar(1, "modid", "int32")
      /\ ReportStatusRequest_Fields[2] = Scalar(2, "cmdid", "int32")
      /\ ReportStatusRequest_Fields[3] = Scalar(3, "caller", "int32")
      /\ ReportStatusRequest_Fields[4] = Repeated(4, "results", "HostCallResult")
      /\ ReportStatusRequest_Fields[5] = Scalar(5, "ts", "uint32")
  BY DEF ReportStatusRequest_Fields
<1>2. m = [x \in DOMAIN ReportStatusRequest_Clear |-> m[x]]
  BY DEF ReportStatusRequests, ReportStatusRequest_Clear
<1>3. Writable(Nested, ReportStatusRequest_Fields[1], m[ReportStatusRequest_Fields[1].name])
  <2>1. ReportStatusRequest_Fields[1].name = "modid"
    BY <1>1 DEF Scalar
  <2>2. "int32" \in DOMAIN ScalarValues /\ m["modid"] \in ScalarValues["int32"]
    BY DEF ReportStatusRequests, ScalarValues
  <2>3. Writable(Nested, Scalar(1, "modid", "int32"), m["modid"])
    BY <2>2, ScalarFits, Zenon
  <2> QED
    BY <1>1, <2>1, <2>3
<1>4. Writable(Nested, ReportStatusRequest_Fields[2], m[ReportStatusRequest_Fields[2].name])
  <2>1. ReportStatusRequest_Fields[2].name = "cmdid"
    BY <1>1 DEF Scalar
  <2>2. "int32" \in DOMAIN ScalarValues /\ m["cmdid"] \in ScalarValues["int32"]
    BY DEF ReportStatusRequests, ScalarValues
  <2>3. Writable(Nested, Scalar(2, "cmdid", "int32"), m["cmdid"])
    BY <2>2, ScalarFits, Zenon
  <2> QED
    BY <1>1, <2>1, <2>3
<1>5. Writable(Nested, ReportStatusRequest_Fields[3], m[ReportStatusRequest_Fields[3].name])
  <2>1. ReportStatusRequest_Fields[3].name = "caller"
    BY <1>1 DEF Scalar
  <2>2. "int32" \in DOMAIN ScalarValues /\ m["caller"] \in ScalarValues["int32"]
    BY DEF ReportStatusRequests, ScalarValues
  <2>3. Writable(Nested, Scalar(3, "caller", "int32"), m["caller"])
    BY <2>2, ScalarFits, Zenon
  <2> QED
    BY <1>1, <2>1, <2>3
<1>6. Writable(Nested, ReportStatusRequest_Fields[4], m[ReportStatusRequest_Fields[4].name])
  <2>1. ReportStatusRequest_Fields[4].name = "results"
    BY <1>1 DEF Repeated
  <2>2. m["results"] \in Seq(HostCallResults)
    BY DEF ReportStatusRequests
  <2>3. Writable(Nested, Repeated(4, "results", "HostCallResult"), m["results"])
    BY <2>2, HostCallResultFaithful, SeveralFit, Zenon
  <2> QED
    BY <1>1, <2>1, <2>3
<1>7. Writable(Nested, ReportStatusRequest_Fields[5], m[ReportStatusRequest_Fields[5].name])
  <2>1. ReportStatusRequest_Fields[5].name = "ts"
    BY <1>1 DEF Scalar
  <2>2. "uint32" \in DOMAIN ScalarValues /\ m["ts"] \in ScalarValues["uint32"]
    BY DEF ReportStatusRequests, ScalarValues
  <2>3. Writable(Nested, Scalar(5, "ts", "uint32"), m["ts"])
    BY <2>2, ScalarFits, Zenon
  <2> QED
    BY <1>1, <2>1, <2>3
<1> QED
  BY <1>1, <1>2, <1>3, <1>4, <1>5, <1>6, <1>7 DEF Holds

LEMMA GetHostResponseFits ==
    ASSUME NEW m \in GetHostResponses
    PROVE  Holds(Nested, GetHostResponse_Fields, GetHostResponse_Clear, m)
<1>1. /\ DOMAIN GetHostResponse_Fields = 1 .. 5
      /\ GetHostResponse_Fields[1] = Scalar(1, "seq", "uint32")
      /\ GetHostResponse_Fields[2] = Scalar(2, "modid", "int32")
      /\ GetHostResponse_Fields[3] = Scalar(3, "cmdid", "int32")
      /\ GetHostResponse_Fields[4] = Scalar(4, "retcode", "int32")
      /\ GetHostResponse_Fields[5] = Optional(5, "host", "HostInfo")
  BY DEF GetHostResponse_Fields
<1>2. m = [x \in DOMAIN GetHostResponse_Clear |-> m[x]]
  BY DEF GetHostResponses, GetHostResponse_Clear
<1>3. Writable(Nested, GetHostResponse_Fields[1], m[GetHostResponse_Fields[1].name])
  <2>1. GetHostResponse_Fields[1].name = "seq"
    BY <1>1 DEF Scalar
  <2>2. "uint32" \in DOMAIN ScalarValues /\ m["seq"] \in ScalarValues["uint32"]
    BY DEF GetHostResponses, ScalarValues
  <2>3. Writable(Nested, Scalar(1, "seq", "uint32"), m["seq"])
    BY <2>2, ScalarFits, Zenon
  <2> QED
    BY <1>1, <2>1, <2>3
<1>4. Writable(Nested, GetHostResponse_Fields[2], m[GetHostResponse_Fields[2].name])
  <2>1. GetHostResponse_Fields[2].name = "modid"
    BY <1>1 DEF Scalar
  <2>2. "int32" \in DOMAIN ScalarValues /\ m["modid"] \in ScalarValues["int32"]
    BY DEF GetHostResponses, ScalarValues
  <2>3. Writable(Nested, Scalar(2, "modid", "int32"), m["modid"])
    BY <2>2, ScalarFits, Zenon
  <2> QED
    BY <1>1, <2>1, <2>3
<1>5. Writable(Nested, GetHostResponse_Fields[3], m[GetHostResponse_Fields[3].name])
  <2>1. GetHostResponse_Fields[3].name = "cmdid"
    BY <1>1 DEF Scalar
  <2>2. "int32" \in DOMAIN ScalarValues /\ m["cmdid"] \in ScalarValues["int32"]
    BY DEF GetHostResponses, ScalarValues
  <2>3. Writable(Nested, Scalar(3, "cmdid", "int32"), m["cmdid"])
    BY <2>2, ScalarFits, Zenon
  <2> QED
    BY <1>1, <2>1, <2>3
<1>6. Writable(Nested, GetHostResponse_Fields[4], m[GetHostResponse_Fields[4].name])
  <2>1. GetHostResponse_Fields[4].name = "retcode"
    BY <1>1 DEF Scalar
  <2>2. "int32" \in DOMAIN ScalarValues /\ m["retcode"] \in ScalarValues["int32"]
    BY DEF GetHostResponses, ScalarValues
  <2>3. Writable(Nested, Scalar(4, "retcode", "int32"), m["retcode"])
    BY <2>2, ScalarFits, Zenon
  <2> QED
    BY <1>1, <2>1, <2>3
<1>7. Writable(Nested, GetHostResponse_Fields[5], m[GetHostResponse_Fields[5].name])
  <2>1. GetHostResponse_Fields[5].name = "host"
    BY <1>1 DEF Optional
  <2>2. m["host"] \in Seq(HostInfos) /\ Len(m["host"]) <= 1
    BY DEF GetHostResponses
  <2>3. Writable(Nested, Optional(5, "host", "HostInfo"), m["host"])
    BY <2>2, HostInfoFaithful, AtMostOneFits, Zenon
  <2> QED
    BY <1>1, <2>1, <2>3
<1> QED
  BY <1>1, <1>2, <1>3, <1>4, <1>5, <1>6, <1>7 DEF Holds

-----------------------------------------------------------------------------
(* What is sent is what is received                                        *)

\* A GetRouteRequest with any modid and cmdid takes as many bytes as ByteSizeLong
\* counts, and lars_dns reads from them what the agent's dns client wrote.
THEOREM GetRouteRequestReadsBack ==
    \A m \in GetRouteRequests :
        /\ Len(GetRouteRequest_InternalSerialize(m)) = GetRouteRequest_ByteSizeLong(m)
        /\ GetRouteRequest_SerializeToString(m) \in Bytes
        /\ GetRouteRequest_ParseFromArray(GetRouteRequest_SerializeToString(m))
               = Parsed(TRUE, m)
<1> TAKE m \in GetRouteRequests
<1>1. /\ WriteFields(Leaf, GetRouteRequest_Fields, m) \in Bytes
      /\ Len(WriteFields(Leaf, GetRouteRequest_Fields, m))
             = SizeOfFields(Leaf, GetRouteRequest_Fields, m)
      /\ ParseFields(Leaf, GetRouteRequest_Fields, GetRouteRequest_Clear, WriteFields(Leaf,
             GetRouteRequest_Fields, m))
           = Parsed(TRUE, m)
  BY GetRouteRequestLayout, GetRouteRequestFits, MessageReadBack
<1> QED
  BY <1>1 DEF GetRouteRequest_InternalSerialize, GetRouteRequest_ByteSizeLong,
     GetRouteRequest_SerializeToString, Sized,
       GetRouteRequest_ParseFromArray, GetRouteRequest_InternalParse

\* A GetRouteResponse with any number of hosts, cleared ones among them, is read by
\* the agent as lars_dns wrote it.
THEOREM GetRouteResponseReadsBack ==
    \A m \in GetRouteResponses :
        /\ Len(GetRouteResponse_InternalSerialize(m)) = GetRouteResponse_ByteSizeLong(m)
        /\ GetRouteResponse_SerializeToString(m) \in Bytes
        /\ GetRouteResponse_ParseFromArray(GetRouteResponse_SerializeToString(m))
               = Parsed(TRUE, m)
<1> TAKE m \in GetRouteResponses
<1>1. /\ WriteFields(Nested, GetRouteResponse_Fields, m) \in Bytes
      /\ Len(WriteFields(Nested, GetRouteResponse_Fields, m))
             = SizeOfFields(Nested, GetRouteResponse_Fields, m)
      /\ ParseFields(Nested, GetRouteResponse_Fields, GetRouteResponse_Clear,
             WriteFields(Nested, GetRouteResponse_Fields, m))
           = Parsed(TRUE, m)
  BY GetRouteResponseLayout, GetRouteResponseFits, MessageReadBack
<1> QED
  BY <1>1 DEF GetRouteResponse_InternalSerialize, GetRouteResponse_ByteSizeLong,
     GetRouteResponse_SerializeToString, Sized,
       GetRouteResponse_ParseFromArray, GetRouteResponse_InternalParse

\* A ReportStatusRequest with any number of results is read by the reporter as the
\* agent wrote it: no result is lost, joined or put in another's place.
THEOREM ReportStatusRequestReadsBack ==
    \A m \in ReportStatusRequests :
        /\ Len(ReportStatusRequest_InternalSerialize(m)) = ReportStatusRequest_ByteSizeLong(m)
        /\ ReportStatusRequest_SerializeToString(m) \in Bytes
        /\ ReportStatusRequest_ParseFromArray(ReportStatusRequest_SerializeToString(m))
               = Parsed(TRUE, m)
<1> TAKE m \in ReportStatusRequests
<1>1. /\ WriteFields(Nested, ReportStatusRequest_Fields, m) \in Bytes
      /\ Len(WriteFields(Nested, ReportStatusRequest_Fields, m))
             = SizeOfFields(Nested, ReportStatusRequest_Fields, m)
      /\ ParseFields(Nested, ReportStatusRequest_Fields, ReportStatusRequest_Clear,
             WriteFields(Nested, ReportStatusRequest_Fields, m))
           = Parsed(TRUE, m)
  BY ReportStatusRequestLayout, ReportStatusRequestFits, MessageReadBack
<1> QED
  BY <1>1 DEF ReportStatusRequest_InternalSerialize, ReportStatusRequest_ByteSizeLong,
     ReportStatusRequest_SerializeToString, Sized,
       ReportStatusRequest_ParseFromArray, ReportStatusRequest_InternalParse

\* A GetHostRequest is read by the agent as the client wrote it.
THEOREM GetHostRequestReadsBack ==
    \A m \in GetHostRequests :
        /\ Len(GetHostRequest_InternalSerialize(m)) = GetHostRequest_ByteSizeLong(m)
        /\ GetHostRequest_SerializeToString(m) \in Bytes
        /\ GetHostRequest_ParseFromArray(GetHostRequest_SerializeToString(m)) = Parsed(TRUE, m)
<1> TAKE m \in GetHostRequests
<1>1. /\ WriteFields(Leaf, GetHostRequest_Fields, m) \in Bytes
      /\ Len(WriteFields(Leaf, GetHostRequest_Fields, m))
             = SizeOfFields(Leaf, GetHostRequest_Fields, m)
      /\ ParseFields(Leaf, GetHostRequest_Fields, GetHostRequest_Clear, WriteFields(Leaf,
             GetHostRequest_Fields, m))
           = Parsed(TRUE, m)
  BY GetHostRequestLayout, GetHostRequestFits, MessageReadBack
<1> QED
  BY <1>1 DEF GetHostRequest_InternalSerialize, GetHostRequest_ByteSizeLong,
     GetHostRequest_SerializeToString, Sized,
       GetHostRequest_ParseFromArray, GetHostRequest_InternalParse

\* A GetHostResponse, with or without a host, is read by the client as the agent
\* wrote it.
THEOREM GetHostResponseReadsBack ==
    \A m \in GetHostResponses :
        /\ Len(GetHostResponse_InternalSerialize(m)) = GetHostResponse_ByteSizeLong(m)
        /\ GetHostResponse_SerializeToString(m) \in Bytes
        /\ GetHostResponse_ParseFromArray(GetHostResponse_SerializeToString(m))
               = Parsed(TRUE, m)
<1> TAKE m \in GetHostResponses
<1>1. /\ WriteFields(Nested, GetHostResponse_Fields, m) \in Bytes
      /\ Len(WriteFields(Nested, GetHostResponse_Fields, m))
             = SizeOfFields(Nested, GetHostResponse_Fields, m)
      /\ ParseFields(Nested, GetHostResponse_Fields, GetHostResponse_Clear,
             WriteFields(Nested, GetHostResponse_Fields, m))
           = Parsed(TRUE, m)
  BY GetHostResponseLayout, GetHostResponseFits, MessageReadBack
<1> QED
  BY <1>1 DEF GetHostResponse_InternalSerialize, GetHostResponse_ByteSizeLong,
     GetHostResponse_SerializeToString, Sized,
       GetHostResponse_ParseFromArray, GetHostResponse_InternalParse

\* CopyFrom makes the HostInfo it is given, although MergeFrom leaves out the fields
\* that are zero.
THEOREM HostInfoCopies == \A m \in HostInfos : HostInfo_CopyFrom(m) = m
BY HostInfoLayout, HostInfoFits, MergeCopies DEF HostInfo_CopyFrom, HostInfo_MergeFrom

\* CopyFrom makes the HostCallResult it is given, as the report client of the tests does
\* with each result.
THEOREM HostCallResultCopies == \A m \in HostCallResults : HostCallResult_CopyFrom(m) = m
BY HostCallResultLayout, HostCallResultFits, MergeCopies
   DEF HostCallResult_CopyFrom, HostCallResult_MergeFrom
==============================================================================
