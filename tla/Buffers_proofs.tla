---------------------------- MODULE Buffers_proofs ----------------------------
(***************************************************************************)
(* For any connections, buffers, sizes and streams of messages:            *)
(*   - a buffer is in the pool or held in one place, and none is lost      *)
(*     (IInv);                                                             *)
(*   - nothing is stored past the end of a buffer, and a peer gets the     *)
(*     answers whole and in order (BufsInv: the pool is clean, and what    *)
(*     each connection holds);                                             *)
(*   - the handlers get the messages of the peer whole and in order, if a  *)
(*     peer that pipelines meets tcp_client::handle_read, which takes      *)
(*     `data` anew for each message (FrameInv: where each connection is in *)
(*     the stream of its peer).                                            *)
(* Each invariant is shown connection by connection: a step of one thread  *)
(* leaves what the others hold (Same).                                     *)
(***************************************************************************)
EXTENDS Buffers, LarsProto_proofs

------------------------------------------------------------------------------
(* Who holds a buffer.                                                     *)

Places == {"poll", "room", "swap", "fill", "parse", "pop", "closed"}

\* The part of the types that the ownership of buffers needs.
OwnTypes ==
    /\ free \subseteq Bufs
    /\ m_buf \in [Slots -> Bufs \cup {None}]
    /\ at \in [Conns -> Places]
    /\ side \in [Conns -> {"in", "head", "body"}]

\* new_buf is in use only between its allocation and the exchange, and then
\* there is an old buffer to give back.
NewBufIsLocal ==
    \A c \in Conns :
        /\ m_buf[<<c, "new">>] # None <=> at[c] = "swap"
        /\ at[c] = "swap" => m_buf[Slot(c)] # None

IInv == OwnTypes /\ OneHolder /\ NewBufIsLocal

------------------------------------------------------------------------------
LEMMA SlotIsSlot ==
    ASSUME NEW c \in Conns
    PROVE  /\ Slot(c) \in Slots
           /\ <<c, "new">> \in Slots
           /\ Slot(c) # <<c, "new">>
           /\ \A d \in Conns : <<d, "new">> # Slot(c)
           /\ \A d \in Conns : d # c => Slot(d) # Slot(c)
BY DEF Slot, Slots

\* A thread's step that takes no part in an exchange moves nothing from or into
\* a new_buf.
LEMMA QuietStep ==
    ASSUME IInv, NEW c \in Conns, at[c] # "swap",
           NEW place \in Places \ {"swap"}, at' = [at EXCEPT ![c] = place],
           UNCHANGED <<free, m_buf>>,
           side' \in [Conns -> {"in", "head", "body"}],
           \A d \in Conns : d # c => side'[d] = side[d]
    PROVE  IInv'
BY DEF IInv, OwnTypes, OneHolder, NewBufIsLocal, Slot

\* buf_pool::revert of any of the two buffers of a connection
LEMMA RevertKeeps ==
    ASSUME IInv, NEW c \in Conns, at[c] # "swap",
           NEW S \in SUBSET {<<c, "in">>, <<c, "out">>}, Revert(S),
           NEW place \in Places \ {"swap"}, Go(c, place),
           UNCHANGED side
    PROVE  IInv'
<1> DEFINE bufs == {m_buf[s] : s \in S} \ {None}
<1> USE NoneAssumption
<1>1. S \subseteq Slots
  BY DEF Slots
<1>2. /\ free' = free \cup bufs
      /\ m_buf' = [s \in Slots |-> IF s \in S THEN None ELSE m_buf[s]]
  BY DEF Revert
<1>3. OwnTypes'
  BY <1>1, <1>2 DEF IInv, OwnTypes, Go
<1>4. \A s, t \in Slots : m_buf'[s] # None /\ m_buf'[s] = m_buf'[t] => s = t
  BY <1>2 DEF IInv, OneHolder
<1>5. ASSUME NEW b \in Bufs
      PROVE  b \in free' <=> \A s \in Slots : m_buf'[s] # b
  <2>1. CASE b \in bufs
    <3>1. PICK s \in S : m_buf[s] = b
      BY <2>1
    <3>2. \A t \in Slots : m_buf[t] = b => t = s
      BY <1>1, <3>1 DEF IInv, OneHolder
    <3> QED
      BY <1>2, <2>1, <3>1, <3>2
  <2>2. CASE b \notin bufs
    <3>1. \A s \in S : m_buf[s] # b
      BY <2>2
    <3> QED
      BY <1>2, <2>2, <3>1 DEF IInv, OneHolder
  <2> QED
    BY <2>1, <2>2
<1>6. OneHolder'
  BY <1>4, <1>5 DEF OneHolder
<1>7. NewBufIsLocal'
  <2> SUFFICES ASSUME NEW d \in Conns
               PROVE  /\ m_buf'[<<d, "new">>] # None <=> at'[d] = "swap"
                      /\ at'[d] = "swap" => m_buf'[Slot(d)'] # None
    BY DEF NewBufIsLocal
  <2>1. /\ <<d, "new">> \in Slots
        /\ <<d, "new">> \notin S
        /\ d # c => Slot(d) \notin S
        /\ Slot(d) \in Slots
        /\ Slot(d)' = Slot(d)
    BY DEF Slots, Slot
  <2>2. m_buf'[<<d, "new">>] = m_buf[<<d, "new">>]
    BY <1>2, <2>1
  <2>3. CASE d = c
    BY <2>2, <2>3 DEF IInv, OwnTypes, NewBufIsLocal, Go
  <2>4. CASE d # c
    <3>1. at'[d] = at[d]
      BY <2>4 DEF Go, IInv, OwnTypes
    <3>2. m_buf'[Slot(d)] = m_buf[Slot(d)]
      BY <1>2, <2>1, <2>4
    <3> QED
      BY <2>1, <2>2, <3>1, <3>2 DEF IInv, NewBufIsLocal
  <2> QED
    BY <2>3, <2>4
<1> QED
  BY <1>3, <1>6, <1>7 DEF IInv

LEMMA PopKeeps ==
    ASSUME IInv, NEW c \in Conns, at[c] # "swap",
           NEW s \in {<<c, "in">>, <<c, "out">>}, NEW n, Pop(s, n),
           NEW place \in Places \ {"swap"}, Go(c, place),
           UNCHANGED side
    PROVE  IInv'
<1>1. CASE Length(mem[m_buf[s]]) = n
  <2>1. Revert({s})
    BY <1>1 DEF Pop
  <2> QED
    BY <2>1, RevertKeeps
<1>2. CASE Length(mem[m_buf[s]]) # n
  <2>1. UNCHANGED <<free, m_buf>>
    BY <1>2 DEF Pop
  <2> QED
    BY <2>1, QuietStep DEF Go, IInv, OwnTypes
<1> QED
  BY <1>1, <1>2

LEMMA AllocFirstKeeps ==
    ASSUME IInv, NEW c \in Conns, AllocFirst(c)
    PROVE  IInv'
<1> USE NoneAssumption, SlotIsSlot
<1>1. PICK b \in Candidates(Asks(c)) : /\ free' = free \ {b}
                                       /\ m_buf' = [m_buf EXCEPT ![Slot(c)] = b]
  BY DEF AllocFirst
<1>2. /\ b \in free
      /\ m_buf[Slot(c)] = None
      /\ UNCHANGED <<at, side>>
  BY DEF Candidates, AllocFirst, job
<1>3. OwnTypes'
  BY <1>1, <1>2 DEF IInv, OwnTypes
<1>4. OneHolder'
  BY <1>1, <1>2 DEF IInv, OwnTypes, OneHolder
<1>5. NewBufIsLocal'
  <2>1. \A d \in Conns : Slot(d)' = Slot(d)
    BY <1>2 DEF Slot
  <2>2. at[c] # "swap"
    BY DEF AllocFirst, At
  <2> QED
    BY <1>1, <1>2, <2>1, <2>2 DEF IInv, OwnTypes, NewBufIsLocal
<1> QED
  BY <1>3, <1>4, <1>5 DEF IInv

LEMMA AllocMoreKeeps ==
    ASSUME IInv, NEW c \in Conns, AllocMore(c)
    PROVE  IInv'
<1> USE NoneAssumption, SlotIsSlot
<1>1. PICK b \in Candidates(Asks(c)) : /\ free' = free \ {b}
                                       /\ m_buf' = [m_buf EXCEPT ![<<c, "new">>] = b]
  BY DEF AllocMore
<1>2. /\ b \in free
      /\ m_buf[Slot(c)] # None
      /\ at[c] = "room"
      /\ at' = [at EXCEPT ![c] = "swap"]
      /\ UNCHANGED side
  BY DEF Candidates, AllocMore, At, Go, job
<1>3. m_buf[<<c, "new">>] = None
  BY <1>2 DEF IInv, NewBufIsLocal
<1>4. OwnTypes'
  BY <1>1, <1>2 DEF IInv, OwnTypes, Places
<1>5. OneHolder'
  BY <1>1, <1>2, <1>3 DEF IInv, OwnTypes, OneHolder
<1>6. NewBufIsLocal'
  <2>1. \A d \in Conns : Slot(d)' = Slot(d)
    BY <1>2 DEF Slot
  <2> QED
    BY <1>1, <1>2, <2>1 DEF IInv, OwnTypes, NewBufIsLocal
<1> QED
  BY <1>4, <1>5, <1>6 DEF IInv

LEMMA SwapKeeps ==
    ASSUME IInv, NEW c \in Conns, Swap(c)
    PROVE  IInv'
<1> USE NoneAssumption, SlotIsSlot
<1> DEFINE old == m_buf[Slot(c)]
           new == m_buf[<<c, "new">>]
<1>1. /\ free' = free \cup {old}
      /\ m_buf' = [m_buf EXCEPT ![Slot(c)] = new, ![<<c, "new">>] = None]
      /\ at[c] = "swap"
      /\ at' = [at EXCEPT ![c] = "fill"]
      /\ UNCHANGED side
  BY DEF Swap, At, Go, job
<1>2. old \in Bufs /\ new \in Bufs /\ old # new
  BY <1>1 DEF IInv, OwnTypes, OneHolder, NewBufIsLocal
<1>3. OwnTypes'
  BY <1>1, <1>2 DEF IInv, OwnTypes, Places
<1>4. \A s \in Slots :
         m_buf'[s] = IF s = <<c, "new">> THEN None ELSE IF s = Slot(c) THEN new ELSE m_buf[s]
  BY <1>1 DEF IInv, OwnTypes
<1>5. OneHolder'
  <2>1. \A s, t \in Slots : m_buf'[s] # None /\ m_buf'[s] = m_buf'[t] => s = t
    BY <1>4 DEF IInv, OneHolder
  <2>2. ASSUME NEW b \in Bufs
        PROVE  b \in free' <=> \A s \in Slots : m_buf'[s] # b
    <3>1. CASE b = old
      <4>1. \A s \in Slots : m_buf[s] = old => s = Slot(c)
        BY <1>2 DEF IInv, OneHolder
      <4>2. \A s \in Slots : m_buf'[s] # old
        BY <1>2, <1>4, <4>1
      <4> QED
        BY <1>1, <3>1, <4>2
    <3>2. CASE b = new
      <4>1. b \notin free'
        BY <1>1, <1>2, <3>2 DEF IInv, OneHolder
      <4> QED
        BY <1>4, <3>2, <4>1
    <3>3. CASE b # old /\ b # new
      <4>1. b \in free' <=> b \in free
        BY <1>1, <3>3
      <4>2. \A s \in Slots : m_buf'[s] = b <=> m_buf[s] = b
        BY <1>2, <1>4, <3>3
      <4> QED
        BY <4>1, <4>2 DEF IInv, OneHolder
    <3> QED
      BY <3>1, <3>2, <3>3
  <2> QED
    BY <2>1, <2>2 DEF OneHolder
<1>6. NewBufIsLocal'
  <2>1. \A d \in Conns : Slot(d)' = Slot(d)
    BY <1>1 DEF Slot
  <2> QED
    BY <1>1, <1>4, <2>1, ZenonT(40) DEF IInv, OwnTypes, NewBufIsLocal
<1> QED
  BY <1>3, <1>5, <1>6 DEF IInv

LEMMA InitIInv == Init => IInv
<1> SUFFICES ASSUME Init PROVE IInv
  OBVIOUS
<1> USE NoneAssumption DEF Init
<1>1. OwnTypes
  BY DEF OwnTypes, Places
<1>2. OneHolder
  BY DEF OneHolder
<1>3. NewBufIsLocal
  BY DEF NewBufIsLocal, Slots
<1> QED
  BY <1>1, <1>2, <1>3 DEF IInv

LEMMA NextIInv == IInv /\ [Next]_vars => IInv'
<1> SUFFICES ASSUME IInv, [Next]_vars PROVE IInv'
  OBVIOUS
<1>1. ASSUME UNCHANGED <<free, m_buf, at, side>>
      PROVE  IInv'
  BY <1>1 DEF IInv, OwnTypes, OneHolder, NewBufIsLocal, Slot
<1>2. CASE UNCHANGED vars
  BY <1>1, <1>2 DEF vars, job
<1>3. ASSUME NEW c \in Conns,
             \/ Arrive(c) \/ PeerCloses(c)
             \/ Room(c) \/ HandleRead(c)
             \/ Send(c) \/ Write(c) \/ WriteFails(c) \/ WriteAborts(c)
      PROVE  IInv'
  <2> USE DEF At, job
  <2>1. CASE Arrive(c) \/ PeerCloses(c) \/ AllocExits(c) \/ Write(c) \/ WriteAborts(c)
    BY <1>1, <2>1 DEF Arrive, PeerCloses, AllocExits, Write, WriteAborts
  <2>2. CASE AllocFirst(c) \/ AllocMore(c) \/ Swap(c)
    BY <2>2, AllocFirstKeeps, AllocMoreKeeps, SwapKeeps
  <2>3. CASE Readable(c)
    BY <2>3, QuietStep DEF Readable, Go, Places, IInv, OwnTypes
  <2>4. CASE ReadCells(c)
    BY <2>4, QuietStep DEF ReadCells, Ready, Go, Places, IInv, OwnTypes
  <2>5. CASE Handle(c)
    BY <2>5, QuietStep DEF Handle, Go, Places, IInv, OwnTypes
  <2>6. CASE ParseEnds(c)
    BY <2>6, QuietStep DEF ParseEnds, Go, Places, IInv, OwnTypes
  <2>7. CASE WriteHead(c)
    BY <2>7, QuietStep DEF WriteHead, Ready, Go, Places, IInv, OwnTypes
  <2>8. CASE WriteBody(c)
    BY <2>8, QuietStep DEF WriteBody, Ready, Go, Places, IInv, OwnTypes
  <2>9. CASE HeadFails(c)
    BY <2>9, QuietStep DEF HeadFails, NoClass, Go, Places, IInv, OwnTypes
  <2>10. CASE ReadFails(c) \/ ReadEof(c) \/ Refuse(c) \/ WriteFails(c)
    <3>1. Close(c) /\ at[c] # "swap" /\ UNCHANGED side
      BY <2>10 DEF ReadFails, NoClass, ReadEof, Ready, Refuse, WriteFails
    <3> QED
      BY <3>1, RevertKeeps DEF Close, Places
  <2>11. CASE PopHandled(c)
    BY <2>11, PopKeeps DEF PopHandled, Places
  <2>12. CASE BodyFails(c)
    BY <2>12, PopKeeps DEF BodyFails, NoClass, Slot, Places
  <2> QED
    BY <1>3, <2>1, <2>2, <2>3, <2>4, <2>5, <2>6, <2>7, <2>8, <2>9, <2>10, <2>11, <2>12
       DEF Room, HandleRead, Send
<1> QED
  BY <1>2, <1>3 DEF Next

LEMMA IInvHolds == Spec => []IInv
BY InitIInv, NextIInv, PTL DEF Spec

\* However the threads interleave in the pool, and however reads, sends and
\* closes fail, a buffer is in the pool or held in exactly one place.
THEOREM OneHolderCorrect == Spec => []OneHolder
<1>1. IInv => OneHolder
  BY DEF IInv
<1> QED
  BY <1>1, IInvHolds, PTL

------------------------------------------------------------------------------
(* An io_buf of cells of S.                                                *)

BufOK(r, S) == r \in [data : Seq(S), head : Nat] /\ r.head <= Len(r.data)

LEMMA ClearedBuf ==
    ASSUME NEW S
    PROVE  /\ BufOK(Cleared, S) /\ Length(Cleared) = 0 /\ Cleared.head = 0
           /\ Valid(Cleared) = <<>>
<1>1. Cleared \in [data : Seq(S), head : Nat] /\ Cleared.head = 0 /\ Len(Cleared.data) = 0
  BY EmptySeq DEF Cleared
<1>2. SubSeq(Cleared.data, 1, 0) = <<>>
  BY SubSeqEmpty
<1> QED
  BY <1>1, <1>2 DEF BufOK, Length, Valid

LEMMA BufView ==
    ASSUME NEW S, NEW r, BufOK(r, S)
    PROVE  /\ r.data \in Seq(S) /\ r.head \in Nat /\ Len(r.data) \in Nat
           /\ Length(r) \in Nat /\ Length(r) + r.head = Len(r.data)
           /\ Valid(r) \in Seq(S) /\ Len(Valid(r)) = Length(r)
           /\ \A i \in 1 .. Length(r) :
                 r.head + i \in 1 .. Len(r.data) /\ Valid(r)[i] = r.data[r.head + i]
           /\ r.head = 0 => Valid(r) = r.data
<1>1. /\ r.data \in Seq(S) /\ r.head \in Nat /\ Len(r.data) \in Nat
      /\ r.head <= Len(r.data)
  BY LenProperties DEF BufOK
<1>3. /\ Valid(r) \in Seq(S) /\ Len(Valid(r)) = Length(r) /\ Length(r) \in Nat
      /\ Length(r) + r.head = Len(r.data)
      /\ \A i \in 1 .. Length(r) : Valid(r)[i] = r.data[r.head + i]
  <2>1. PICK v : v = SubSeq(r.data, r.head + 1, Len(r.data))
    OBVIOUS
  <2>2. /\ v \in Seq(S) /\ Len(v) = Len(r.data) - r.head
        /\ \A i \in 1 .. Len(r.data) - r.head : v[i] = r.data[r.head + i]
    <3>1. PICK n : n = Len(r.data)
      OBVIOUS
    <3>2. n \in Nat /\ r.head <= n /\ n <= Len(r.data) /\ v = SubSeq(r.data, r.head + 1, n)
      BY <1>1, <2>1, <3>1
    <3>3. /\ v \in Seq(S) /\ Len(v) = n - r.head
          /\ \A i \in 1 .. n - r.head : v[i] = r.data[r.head + i]
      BY <1>1, <3>2, PartOf
    <3> QED
      BY <3>1, <3>3
  <2>3. Valid(r) = v /\ Length(r) = Len(r.data) - r.head
    BY <2>1 DEF Valid, Length
  <2> QED
    BY <1>1, <2>2, <2>3
<1>4. r.head = 0 => Valid(r) = r.data
  BY <1>1, SubSeqFull DEF Valid
<1>5. \A i \in 1 .. Length(r) : r.head + i \in 1 .. Len(r.data)
  BY <1>1, <1>3
<1> QED
  BY <1>1, <1>3, <1>4, <1>5

LEMMA AdjustedBuf ==
    ASSUME NEW S, NEW r, BufOK(r, S)
    PROVE  /\ BufOK(Adjusted(r), S) /\ Adjusted(r).head = 0 /\ Adjusted(r).data = Valid(r)
           /\ Length(Adjusted(r)) = Length(r) /\ Valid(Adjusted(r)) = Valid(r)
<1>1. Valid(r) \in Seq(S) /\ Len(Valid(r)) = Length(r) /\ Length(r) \in Nat
  BY BufView
<1>2. Adjusted(r).head = 0 /\ Adjusted(r).data = Valid(r)
  BY DEF Adjusted
<1>3. BufOK(Adjusted(r), S)
  BY <1>1 DEF BufOK, Adjusted
<1>4. Valid(Adjusted(r)) = Valid(r)
  BY <1>2, <1>3, BufView
<1> QED
  BY <1>1, <1>2, <1>3, <1>4 DEF Length

LEMMA PoppedBuf ==
    ASSUME NEW S, NEW r, BufOK(r, S), NEW n \in Nat, n <= Length(r)
    PROVE  /\ BufOK(Popped(r, n), S) /\ Popped(r, n).data = r.data
           /\ Popped(r, n).head = r.head + n
           /\ Length(Popped(r, n)) = Length(r) - n
           /\ Valid(Popped(r, n)) = SubSeq(Valid(r), n + 1, Length(r))
           /\ \A i \in 1 .. Length(r) - n : Valid(Popped(r, n))[i] = Valid(r)[n + i]
<1>1. /\ r.data \in Seq(S) /\ r.head \in Nat /\ Len(r.data) \in Nat
      /\ Length(r) \in Nat /\ Length(r) + r.head = Len(r.data)
      /\ Valid(r) \in Seq(S) /\ Len(Valid(r)) = Length(r)
      /\ \A i \in 1 .. Length(r) : Valid(r)[i] = r.data[r.head + i]
  BY BufView
<1>2. PICK p : p = Popped(r, n)
  OBVIOUS
<1>3. /\ p \in [data : Seq(S), head : Nat] /\ p.data = r.data /\ p.head = r.head + n
  BY <1>1, <1>2 DEF Popped, BufOK
<1>4. BufOK(p, S) /\ Length(p) = Length(r) - n
  BY <1>1, <1>3 DEF BufOK, Length
<1>5. /\ Valid(p) \in Seq(S) /\ Len(Valid(p)) = Length(r) - n
      /\ \A i \in 1 .. Length(r) - n : Valid(p)[i] = r.data[r.head + n + i]
  BY <1>3, <1>4, BufView
<1>6. \A i \in 1 .. Length(r) - n : Valid(p)[i] = Valid(r)[n + i]
  <2> TAKE i \in 1 .. Length(r) - n
  <2>1. n + i \in 1 .. Length(r) /\ r.head + n + i = r.head + (n + i)
    BY <1>1
  <2> QED
    BY <1>1, <1>5, <2>1
<1>7. PICK q : q = SubSeq(Valid(r), n + 1, Length(r))
  OBVIOUS
<1>8. /\ q \in Seq(S) /\ Len(q) = Length(r) - n
      /\ \A i \in 1 .. Length(r) - n : q[i] = Valid(r)[n + i]
  <2>1. \A i \in n + 1 .. Length(r) : Valid(r)[i] \in S
    BY <1>1, ElementOfSeq
  <2> QED
    BY <1>1, <1>7, <2>1, SubSeqProperties
<1>9. Valid(p) = q
  BY <1>5, <1>6, <1>8, SeqEqual
<1> QED
  BY <1>2, <1>3, <1>4, <1>6, <1>7, <1>9

LEMMA FilledBuf ==
    ASSUME NEW S, <<0, 0>> \in S, NEW r, BufOK(r, S), NEW cells \in Seq(S)
    PROVE  /\ BufOK(Filled(r, cells), S) /\ Filled(r, cells).head = r.head
           /\ Length(Filled(r, cells)) = Length(r) + Len(cells)
           /\ Len(Filled(r, cells).data) = Length(r) + Len(cells) + r.head
           /\ r.head = 0 => Valid(Filled(r, cells)) = Valid(r) \o cells
<1>1. /\ r.data \in Seq(S) /\ r.head \in Nat /\ Len(r.data) \in Nat
      /\ Length(r) \in Nat /\ Length(r) + r.head = Len(r.data)
      /\ r.head = 0 => Valid(r) = r.data
  BY BufView
<1>2. PICK front : front = SubSeq(r.data, 1, Length(r))
  OBVIOUS
<1>3. front \in Seq(S) /\ Len(front) = Length(r) /\ (r.head = 0 => front = r.data)
  <2>1. \A i \in 1 .. Length(r) : r.data[i] \in S
    BY <1>1, ElementOfSeq
  <2>2. front \in Seq(S) /\ Len(front) = Length(r)
    BY <1>1, <1>2, <2>1, SubSeqProperties
  <2>3. r.head = 0 => front = r.data
    BY <1>1, <1>2, SubSeqFull
  <2> QED
    BY <2>2, <2>3
<1>4. PICK zeros : zeros = [i \in 1 .. r.head |-> <<0, 0>>]
  OBVIOUS
<1>5. zeros \in Seq(S) /\ Len(zeros) = r.head
  <2>1. zeros \in [1 .. r.head -> S]
    BY <1>4
  <2> QED
    BY <1>1, <2>1, FunctionIsSeq
<1>6. PICK data : data = (front \o cells) \o zeros
  OBVIOUS
<1>7. Len(cells) \in Nat /\ front \o cells \in Seq(S) /\ Len(front \o cells) = Length(r) + Len(cells)
  BY <1>3, ConcatProperties, LenProperties
<1>8. /\ data \in Seq(S) /\ Len(data) = Length(r) + Len(cells) + r.head
  BY <1>5, <1>6, <1>7, ConcatProperties
<1>9. PICK f : f = Filled(r, cells)
  OBVIOUS
<1>10. f = [r EXCEPT !.data = data]
  BY <1>2, <1>4, <1>6, <1>9 DEF Filled
<1>11. f \in [data : Seq(S), head : Nat] /\ f.data = data /\ f.head = r.head
  BY <1>8, <1>10 DEF BufOK
<1>12. BufOK(f, S) /\ Length(f) = Length(r) + Len(cells)
  <2>1. f.head <= Len(f.data) /\ Len(f.data) - f.head = Length(r) + Len(cells)
    BY <1>1, <1>7, <1>8, <1>11
  <2> QED
    BY <1>11, <2>1 DEF BufOK, Length
<1>13. r.head = 0 => Valid(f) = Valid(r) \o cells
  <2> SUFFICES ASSUME r.head = 0 PROVE Valid(f) = Valid(r) \o cells
    OBVIOUS
  <2>1. Valid(f) = data
    BY <1>11, <1>12, BufView
  <2>2. zeros = <<>>
    BY <1>5, EmptySeq
  <2>3. data = front \o cells
    BY <1>6, <1>7, <2>2, ConcatEmptySeq
  <2> QED
    BY <1>1, <1>3, <2>1, <2>3
<1> QED
  BY <1>8, <1>9, <1>11, <1>12, <1>13

------------------------------------------------------------------------------
(* The stream of a peer, message by message.                               *)

Cell == Nat \X Nat

\* a cell that looks like the first of a message names one
CellOf(c) == {x \in Cell : x[2] = 1 => x[1] \in DOMAIN Lens[c]}

\* where the n-th message ends in the stream
End(c, n) == Len(Messages(c, n))

LEMMA LensOf ==
    ASSUME NEW c \in Conns
    PROVE  /\ Lens[c] \in Seq(Nat) /\ Len(Lens[c]) \in Nat
           /\ DOMAIN Lens[c] = 1 .. Len(Lens[c])
           /\ \A m \in 1 .. Len(Lens[c]) : Lens[c][m] \in Nat /\ Lens[c][m] >= 2
<1>1. Lens[c] \in Seq(Nat) /\ \A m \in DOMAIN Lens[c] : Lens[c][m] >= 2
  BY LensAssumption DEF MESSAGE_HEADER_SIZE
<1> QED
  BY <1>1, LenProperties, ElementOfSeq

LEMMA CellsOf ==
    ASSUME NEW c
    PROVE  CellOf(c) \subseteq Cell /\ <<0, 0>> \in CellOf(c) /\ <<0, 0>> \in Cell
BY DEF CellOf, Cell

LEMMA MessageIs ==
    ASSUME NEW c \in Conns, NEW m \in 1 .. Len(Lens[c])
    PROVE  /\ OnWire(c, m) \in Nat /\ OnWire(c, m) >= 2
           /\ OnWire(c, m) = IF Lens[c][m] > MaxMsg THEN 2 ELSE Lens[c][m]
           /\ Message(c, m) \in Seq(CellOf(c)) /\ Len(Message(c, m)) = OnWire(c, m)
           /\ \A i \in 1 .. OnWire(c, m) : Message(c, m)[i] = <<m, i>>
<1>1. /\ OnWire(c, m) \in Nat /\ OnWire(c, m) >= 2
      /\ OnWire(c, m) = IF Lens[c][m] > MaxMsg THEN 2 ELSE Lens[c][m]
  BY LensOf, CapacityAssumption DEF OnWire, MESSAGE_HEADER_SIZE
<1>2. \A i \in 1 .. OnWire(c, m) : <<m, i>> \in CellOf(c)
  BY <1>1, LensOf DEF CellOf, Cell
<1>3. Message(c, m) \in [1 .. OnWire(c, m) -> CellOf(c)]
  BY <1>2 DEF Message
<1>4. \A i \in 1 .. OnWire(c, m) : Message(c, m)[i] = <<m, i>>
  BY DEF Message
<1> QED
  BY <1>1, <1>3, <1>4, FunctionIsSeq

LEMMA MessagesType ==
    ASSUME NEW c \in Conns, NEW n \in 0 .. Len(Lens[c])
    PROVE  /\ Messages(c, n) \in Seq(CellOf(c)) /\ End(c, n) \in Nat
           /\ [m \in 1 .. n |-> Message(c, m)] \in Seq(Seq(CellOf(c)))
<1>1. PICK s : s = [m \in 1 .. n |-> Message(c, m)]
  OBVIOUS
<1>2. n \in Nat /\ \A m \in 1 .. n : Message(c, m) \in Seq(CellOf(c))
  BY LensOf, MessageIs
<1>3. s \in [1 .. n -> Seq(CellOf(c))]
  BY <1>1, <1>2
<1>4. s \in Seq(Seq(CellOf(c)))
  BY <1>2, <1>3, FunctionIsSeq
<1>5. FlattenSeq(s) \in Seq(CellOf(c))
  BY <1>4, FlattenType
<1>6. Messages(c, n) \in Seq(CellOf(c))
  BY <1>1, <1>5 DEF Messages
<1> QED
  BY <1>1, <1>4, <1>6, LenProperties DEF End

LEMMA MessagesNone ==
    ASSUME NEW c
    PROVE  Messages(c, 0) = <<>> /\ End(c, 0) = 0
<1>1. [m \in 1 .. 0 |-> Message(c, m)] = <<>>
  OBVIOUS
<1> QED
  BY <1>1, FlattenNone DEF Messages, End

LEMMA MessagesStep ==
    ASSUME NEW c \in Conns, NEW n \in 0 .. Len(Lens[c]) - 1
    PROVE  /\ Messages(c, n + 1) = Messages(c, n) \o Message(c, n + 1)
           /\ End(c, n + 1) = End(c, n) + OnWire(c, n + 1)
<1>1. PICK s : s = [m \in 1 .. n |-> Message(c, m)]
  OBVIOUS
<1>2. PICK t : t = [m \in 1 .. n + 1 |-> Message(c, m)]
  OBVIOUS
<1>3. PICK e : e = Message(c, n + 1)
  OBVIOUS
<1>4. n \in Nat /\ n \in 0 .. Len(Lens[c]) /\ n + 1 \in 1 .. Len(Lens[c])
  BY LensOf
<1>5. s \in Seq(Seq(CellOf(c))) /\ e \in Seq(CellOf(c)) /\ Len(e) = OnWire(c, n + 1)
  BY <1>1, <1>3, <1>4, MessagesType, MessageIs
<1>6. t = Append(s, e)
  <2>1. n + 1 \in 0 .. Len(Lens[c])
    BY <1>4, LensOf
  <2>2. t \in Seq(Seq(CellOf(c)))
    BY <1>2, <2>1, MessagesType
  <2>3. Len(s) = n /\ Len(t) = n + 1
    BY <1>1, <1>2, <1>4
  <2>4. \A i \in 1 .. n : t[i] = s[i]
    BY <1>1, <1>2, <1>4
  <2>5. t[n + 1] = e
    BY <1>2, <1>3, <1>4
  <2>6. PICK u : u = Append(s, e)
    OBVIOUS
  <2>7. /\ u \in Seq(Seq(CellOf(c))) /\ Len(u) = n + 1
        /\ \A i \in 1 .. n : u[i] = s[i]
        /\ u[n + 1] = e
    BY <1>5, <2>3, <2>6, AppendProperties
  <2>8. \A i \in 1 .. n + 1 : t[i] = u[i]
    BY <1>4, <2>4, <2>5, <2>7
  <2> QED
    BY <2>2, <2>3, <2>6, <2>7, <2>8, SeqEqual
<1>7. FlattenSeq(t) = FlattenSeq(s) \o e
  BY <1>5, <1>6, FlattenAppend
<1>8. Messages(c, n + 1) = Messages(c, n) \o Message(c, n + 1)
  BY <1>1, <1>2, <1>3, <1>7 DEF Messages
<1>9. Messages(c, n) \in Seq(CellOf(c))
  BY <1>4, MessagesType
<1> QED
  BY <1>3, <1>5, <1>8, <1>9, ConcatProperties DEF End

\* Messages do not overlap, and the first n are where the stream begins.
LEMMA MessagesBegin ==
    ASSUME NEW c \in Conns, NEW n \in 0 .. Len(Lens[c]), NEW k \in n .. Len(Lens[c])
    PROVE  /\ End(c, n) <= End(c, k) /\ (n # k => End(c, n) < End(c, k))
           /\ \A i \in 1 .. End(c, n) : Messages(c, k)[i] = Messages(c, n)[i]
<1> DEFINE Good(j) == /\ End(c, n) <= End(c, n + j)
                      /\ (j # 0 => End(c, n) < End(c, n + j))
                      /\ \A i \in 1 .. End(c, n) : Messages(c, n + j)[i] = Messages(c, n)[i]
           L == Len(Lens[c]) - n
           S == {j \in 0 .. L : Good(j)}
<1>1. Len(Lens[c]) \in Nat /\ n \in Nat /\ L \in Nat /\ k - n \in 0 .. L /\ n + (k - n) = k
  BY LensOf
<1>2. 0 \in S
  <2>1. n + 0 = n /\ End(c, n) \in Nat
    BY <1>1, MessagesType
  <2> QED
    BY <1>1, <2>1
<1>3. ASSUME NEW j \in 0 .. L - 1, j \in S
      PROVE  j + 1 \in S
  <2>1. PICK x : x = n + j
    OBVIOUS
  <2>2. /\ x \in 0 .. Len(Lens[c]) - 1 /\ x \in 0 .. Len(Lens[c]) /\ n + (j + 1) = x + 1
        /\ x + 1 \in 1 .. Len(Lens[c]) /\ j + 1 \in 0 .. L
    BY <1>1, <2>1
  <2>3. /\ Messages(c, x + 1) = Messages(c, x) \o Message(c, x + 1)
        /\ End(c, x + 1) = End(c, x) + OnWire(c, x + 1)
        /\ OnWire(c, x + 1) \in Nat /\ OnWire(c, x + 1) >= 2
        /\ End(c, x) \in Nat /\ End(c, n) \in Nat
        /\ Messages(c, x) \in Seq(CellOf(c)) /\ Message(c, x + 1) \in Seq(CellOf(c))
    BY <2>2, MessagesStep, MessageIs, MessagesType
  <2>4. /\ End(c, n) <= End(c, x)
        /\ \A i \in 1 .. End(c, n) : Messages(c, x)[i] = Messages(c, n)[i]
    BY <1>3, <2>1
  <2>5. End(c, n) < End(c, x + 1)
    BY <2>3, <2>4
  <2>6. ASSUME NEW i \in 1 .. End(c, n)
        PROVE  Messages(c, x + 1)[i] = Messages(c, n)[i]
    <3>1. i \in 1 .. Len(Messages(c, x)) /\ i <= Len(Messages(c, x))
      BY <2>3, <2>4 DEF End
    <3>2. PICK s : s = Messages(c, x)
      OBVIOUS
    <3>3. PICK t : t = Message(c, x + 1)
      OBVIOUS
    <3>4. /\ i \in 1 .. Len(s) + Len(t) /\ i <= Len(s)
          /\ s \in Seq(CellOf(c)) /\ t \in Seq(CellOf(c))
      BY <2>3, <3>1, <3>2, <3>3, LenProperties
    <3>5. (s \o t)[i] = s[i]
      BY <3>4, ConcatProperties
    <3>6. Messages(c, x + 1) = s \o t
      BY <2>3, <3>2, <3>3
    <3> QED
      BY <2>4, <3>2, <3>5, <3>6
  <2>7. Good(j + 1)
    <3>1. Messages(c, n + (j + 1)) = Messages(c, x + 1) /\ End(c, n + (j + 1)) = End(c, x + 1)
      BY <2>2
    <3>2. \A i \in 1 .. End(c, n) : Messages(c, n + (j + 1))[i] = Messages(c, n)[i]
      BY <2>6, <3>1, Zenon
    <3>3. End(c, n) <= End(c, n + (j + 1)) /\ End(c, n) < End(c, n + (j + 1))
      BY <2>3, <2>5, <3>1
    <3> QED
      BY <3>2, <3>3
  <2> QED
    BY <2>2, <2>7
<1> HIDE DEF S
<1>4. k - n \in S
  BY <1>1, <1>2, <1>3, UpTo
<1>5. Good(k - n)
  BY <1>4 DEF S
<1> QED
  BY <1>1, <1>5

\* The cells of a message in the stream.
LEMMA StreamAt ==
    ASSUME NEW c \in Conns, NEW n \in 0 .. Len(Lens[c]) - 1
    PROVE  /\ Stream(c) \in Seq(CellOf(c)) /\ End(c, n) \in Nat
           /\ End(c, n + 1) = End(c, n) + OnWire(c, n + 1)
           /\ End(c, n + 1) <= Len(Stream(c))
           /\ \A i \in 1 .. OnWire(c, n + 1) : Stream(c)[End(c, n) + i] = <<n + 1, i>>
<1>1. PICK L : L = Len(Lens[c])
  OBVIOUS
<1>2. /\ L \in Nat /\ L \in 0 .. L /\ n + 1 \in 1 .. L /\ n + 1 \in 0 .. L /\ n \in 0 .. L
      /\ L \in (n + 1) .. L
  BY <1>1, LensOf
<1>3. Stream(c) = Messages(c, L) /\ Stream(c) \in Seq(CellOf(c)) /\ Len(Stream(c)) = End(c, L)
  BY <1>1, <1>2, MessagesType DEF Stream, End
<1>4. /\ Messages(c, n + 1) = Messages(c, n) \o Message(c, n + 1)
      /\ End(c, n + 1) = End(c, n) + OnWire(c, n + 1)
  BY MessagesStep
<1>5. /\ Messages(c, n) \in Seq(CellOf(c)) /\ End(c, n) \in Nat
      /\ Message(c, n + 1) \in Seq(CellOf(c)) /\ Len(Message(c, n + 1)) = OnWire(c, n + 1)
      /\ OnWire(c, n + 1) \in Nat
      /\ \A i \in 1 .. OnWire(c, n + 1) : Message(c, n + 1)[i] = <<n + 1, i>>
  BY <1>1, <1>2, MessagesType, MessageIs
<1>6. /\ End(c, n + 1) <= End(c, L)
      /\ \A i \in 1 .. End(c, n + 1) : Messages(c, L)[i] = Messages(c, n + 1)[i]
  BY <1>1, <1>2, MessagesBegin
<1>7. ASSUME NEW i \in 1 .. OnWire(c, n + 1)
      PROVE  Stream(c)[End(c, n) + i] = <<n + 1, i>>
  <2>1. PICK j : j = End(c, n) + i
    OBVIOUS
  <2>2. /\ j \in 1 .. End(c, n + 1) /\ j \in 1 .. Len(Messages(c, n)) + Len(Message(c, n + 1))
        /\ ~(j <= Len(Messages(c, n))) /\ j - Len(Messages(c, n)) = i
    BY <1>4, <1>5, <2>1 DEF End
  <2>3. (Messages(c, n) \o Message(c, n + 1))[j] = Message(c, n + 1)[i]
    BY <1>5, <2>2, ConcatProperties
  <2> QED
    BY <1>3, <1>4, <1>5, <1>6, <2>1, <2>2, <2>3
<1> QED
  BY <1>3, <1>4, <1>5, <1>6, <1>7

LEMMA StreamIs ==
    ASSUME NEW c \in Conns
    PROVE  /\ Stream(c) \in Seq(CellOf(c)) /\ Len(Stream(c)) \in Nat
           /\ Len(Stream(c)) = End(c, Len(Lens[c]))
           /\ \A n \in 0 .. Len(Lens[c]) : End(c, n) \in Nat /\ End(c, n) <= Len(Stream(c))
<1>1. Len(Lens[c]) \in Nat
  BY LensOf
<1>2. Stream(c) \in Seq(CellOf(c)) /\ Len(Stream(c)) = End(c, Len(Lens[c]))
  BY <1>1, MessagesType DEF Stream, End
<1>3. ASSUME NEW n \in 0 .. Len(Lens[c])
      PROVE  End(c, n) \in Nat /\ End(c, n) <= Len(Stream(c))
  <2>1. Len(Lens[c]) \in n .. Len(Lens[c])
    BY <1>1
  <2> QED
    BY <1>2, <2>1, MessagesBegin, MessagesType
<1> QED
  BY <1>2, <1>3, LenProperties

\* A peer sends at most its stream; one that waits sends at most a message more
\* than those it has got an answer to.
LEMMA AllowedIs ==
    ASSUME NEW c \in Conns, Len(got[c]) \in Nat
    PROVE  /\ Allowed(c) \in Nat /\ Allowed(c) <= Len(Stream(c))
           /\ c \notin Pipelined =>
                 \E m \in 0 .. Len(Lens[c]) :
                     /\ End(c, m) <= Len(got[c])
                     /\ Allowed(c) = End(c, IF m < Len(Lens[c]) THEN m + 1 ELSE m)
<1>1. CASE c \in Pipelined
  BY <1>1, StreamIs DEF Allowed
<1>2. CASE c \notin Pipelined
  <2>1. PICK L : L = Len(Lens[c]) /\ L \in Nat
    BY LensOf
  <2>2. PICK A : A = {m \in 0 .. L : End(c, m) <= Len(got[c])}
    OBVIOUS
  <2>3. PICK m : m = Max(A)
    OBVIOUS
  <2>4. 0 \in A
    BY <2>1, <2>2, MessagesNone
  <2>5. m \in A
    <3>1. A \in SUBSET Nat /\ A # {} /\ \A x \in A : x <= L
      BY <2>1, <2>2, <2>4
    <3> QED
      BY <2>1, <2>3, <3>1, MaxOfNaturals
  <2>6. m \in 0 .. L /\ End(c, m) <= Len(got[c])
    BY <2>2, <2>5
  <2>7. PICK B : B = {m + 1, L}
    OBVIOUS
  <2>8. Min(B) \in B /\ \A y \in B : Min(B) <= y
    <3>1. B \in SUBSET Nat /\ B # {}
      BY <2>1, <2>6, <2>7
    <3> QED
      BY <3>1, MinOfNaturals
  <2>9. Min(B) = IF m < L THEN m + 1 ELSE m
    BY <2>1, <2>6, <2>7, <2>8
  <2>10. Allowed(c) = End(c, Min(B))
    BY <1>2, <2>1, <2>2, <2>3, <2>7, Zenon DEF Allowed, End
  <2>11. Allowed(c) \in Nat /\ Allowed(c) <= Len(Stream(c))
    BY <2>1, <2>6, <2>9, <2>10, StreamIs
  <2> QED
    BY <1>2, <2>1, <2>6, <2>9, <2>10, <2>11
<1> QED
  BY <1>1, <1>2

------------------------------------------------------------------------------
(* What the slots hold, and what each operation of the pool does to it.    *)

\* no buffer holds what an empty one does
Buf(s) == IF m_buf[s] = None THEN Cleared ELSE mem[m_buf[s]]

Input(c) == Buf(<<c, "in">>)

Output(c) == Buf(<<c, "out">>)

MemTypes ==
    /\ mem \in [Bufs -> [data : Seq(Cell), head : Nat]]
    /\ \A b \in Bufs : BufOK(mem[b], Cell)

\* revert clears the buffer it takes back
FreeClean == \A b \in free : mem[b] = Cleared

PoolInv == IInv /\ MemTypes /\ FreeClean

\* The slots other than those of S keep their buffers and what these hold.
KeepsAllBut(S) == \A t \in Slots \ S : m_buf'[t] = m_buf[t] /\ Buf(t)' = Buf(t)

LEMMA BufType ==
    ASSUME PoolInv, NEW s \in Slots
    PROVE  BufOK(Buf(s), Cell)
BY ClearedBuf DEF PoolInv, IInv, OwnTypes, MemTypes, Buf

LEMMA StoreDoes ==
    ASSUME PoolInv, NEW s \in Slots, m_buf[s] # None, NEW r, BufOK(r, Cell),
           mem' = [mem EXCEPT ![m_buf[s]] = r], UNCHANGED <<free, m_buf>>
    PROVE  MemTypes' /\ FreeClean' /\ Buf(s)' = r /\ KeepsAllBut({s})
<1>1. PICK b \in Bufs : b = m_buf[s]
  BY DEF PoolInv, IInv, OwnTypes
<1>2. b \notin free /\ b # None /\ \A t \in Slots : m_buf[t] = b => t = s
  BY <1>1 DEF PoolInv, IInv, OneHolder
<1>3. mem' = [mem EXCEPT ![b] = r] /\ mem'[b] = r /\ \A a \in Bufs : a # b => mem'[a] = mem[a]
  BY <1>1 DEF PoolInv, MemTypes
<1>4. MemTypes'
  BY <1>3 DEF PoolInv, MemTypes, BufOK
<1>5. FreeClean'
  BY <1>2, <1>3 DEF PoolInv, FreeClean, IInv, OwnTypes
<1>6. Buf(s)' = r
  BY <1>1, <1>2, <1>3 DEF Buf
<1>7. KeepsAllBut({s})
  BY <1>1, <1>2, <1>3 DEF KeepsAllBut, Buf, PoolInv, IInv, OwnTypes
<1> QED
  BY <1>4, <1>5, <1>6, <1>7

LEMMA RevertDoes ==
    ASSUME PoolInv, NEW S \in SUBSET Slots, Revert(S)
    PROVE  /\ MemTypes' /\ FreeClean' /\ KeepsAllBut(S)
           /\ \A s \in S : m_buf'[s] = None /\ Buf(s)' = Cleared
<1>1. PICK bufs : bufs = {m_buf[s] : s \in S} \ {None}
  OBVIOUS
<1>2. /\ free' = free \cup bufs
      /\ mem' = [b \in Bufs |-> IF b \in bufs THEN Cleared ELSE mem[b]]
      /\ m_buf' = [s \in Slots |-> IF s \in S THEN None ELSE m_buf[s]]
  BY <1>1 DEF Revert
<1>3. BufOK(Cleared, Cell) /\ bufs \subseteq Bufs
  BY <1>1, ClearedBuf DEF PoolInv, IInv, OwnTypes
<1>4. MemTypes'
  BY <1>2, <1>3 DEF PoolInv, MemTypes, BufOK
<1>5. FreeClean'
  BY <1>2, <1>3 DEF PoolInv, FreeClean, IInv, OwnTypes
<1>6. ASSUME NEW t \in Slots \ S
      PROVE  m_buf'[t] = m_buf[t] /\ Buf(t)' = Buf(t)
  <2>1. m_buf'[t] = m_buf[t]
    BY <1>2
  <2>2. CASE m_buf[t] = None
    BY <2>1, <2>2 DEF Buf
  <2>3. CASE m_buf[t] # None
    <3>1. m_buf[t] \in Bufs /\ m_buf[t] \notin bufs
      BY <1>1, <2>3 DEF PoolInv, IInv, OwnTypes, OneHolder
    <3>2. mem'[m_buf[t]] = mem[m_buf[t]]
      BY <1>2, <3>1
    <3> QED
      BY <2>1, <2>3, <3>2 DEF Buf
  <2> QED
    BY <2>2, <2>3
<1>7. \A s \in S : m_buf'[s] = None /\ Buf(s)' = Cleared
  BY <1>2 DEF Buf
<1> QED
  BY <1>4, <1>5, <1>6, <1>7 DEF KeepsAllBut

\* What reactor_buf::pop leaves.
LEMMA PopDoes ==
    ASSUME PoolInv, NEW s \in Slots, m_buf[s] # None,
           NEW n \in Nat, n <= Length(Buf(s)), Pop(s, n)
    PROVE  /\ MemTypes' /\ FreeClean' /\ KeepsAllBut({s})
           /\ \/ n = Length(Buf(s)) /\ m_buf'[s] = None /\ Buf(s)' = Cleared
              \/ /\ n < Length(Buf(s)) /\ m_buf'[s] = m_buf[s]
                 /\ Buf(s)' = Popped(Buf(s), n)
<1>1. Buf(s) = mem[m_buf[s]] /\ BufOK(Buf(s), Cell) /\ Length(Buf(s)) \in Nat
  BY BufType, BufView DEF Buf
<1>2. CASE Length(Buf(s)) = n
  <2>1. Revert({s})
    BY <1>1, <1>2 DEF Pop
  <2> QED
    BY <1>2, <2>1, RevertDoes
<1>3. CASE Length(Buf(s)) # n
  <2>1. mem' = [mem EXCEPT ![m_buf[s]] = Popped(@, n)] /\ UNCHANGED <<free, m_buf>>
    BY <1>1, <1>3 DEF Pop
  <2>2. mem' = [mem EXCEPT ![m_buf[s]] = Popped(Buf(s), n)]
    BY <1>1, <2>1
  <2>3. BufOK(Popped(Buf(s), n), Cell)
    BY <1>1, PoppedBuf
  <2>4. MemTypes' /\ FreeClean' /\ KeepsAllBut({s}) /\ Buf(s)' = Popped(Buf(s), n)
    BY <2>1, <2>2, <2>3, StoreDoes
  <2> QED
    BY <1>1, <1>3, <2>1, <2>4
<1> QED
  BY <1>2, <1>3

LEMMA AllocFirstDoes ==
    ASSUME PoolInv, NEW c \in Conns, AllocFirst(c)
    PROVE  /\ MemTypes' /\ FreeClean'
           /\ m_buf[Slot(c)] = None
           /\ \A s \in Slots : Buf(s)' = Buf(s)
           /\ \A s \in Slots \ {Slot(c)} : m_buf'[s] = m_buf[s]
           /\ m_buf'[Slot(c)] \in Bufs
           /\ Buf(Slot(c)) = Cleared
<1>1. PICK b \in Candidates(Asks(c)) : /\ free' = free \ {b}
                                       /\ m_buf' = [m_buf EXCEPT ![Slot(c)] = b]
  BY DEF AllocFirst
<1>2. b \in free /\ b \in Bufs /\ m_buf[Slot(c)] = None /\ UNCHANGED mem /\ Slot(c) \in Slots
  BY SlotIsSlot DEF Candidates, AllocFirst, PoolInv, IInv, OwnTypes
<1>3. \A s \in Slots : m_buf'[s] = IF s = Slot(c) THEN b ELSE m_buf[s]
  BY <1>1, <1>2 DEF PoolInv, IInv, OwnTypes
<1>4. mem[b] = Cleared /\ b # None
  BY <1>2, NoneAssumption DEF PoolInv, FreeClean
<1>5. \A s \in Slots : Buf(s)' = Buf(s)
  BY <1>2, <1>3, <1>4 DEF Buf
<1>6. MemTypes' /\ FreeClean'
  BY <1>1, <1>2 DEF PoolInv, MemTypes, FreeClean
<1> QED
  BY <1>2, <1>3, <1>5, <1>6 DEF Buf

LEMMA AllocMoreDoes ==
    ASSUME PoolInv, NEW c \in Conns, AllocMore(c)
    PROVE  /\ MemTypes' /\ FreeClean' /\ KeepsAllBut({<<c, "new">>})
           /\ m_buf[Slot(c)] \in Bufs
           /\ m_buf'[<<c, "new">>] \in Candidates(Asks(c))
           /\ m_buf'[<<c, "new">>] \in Bufs
           /\ Buf(<<c, "new">>)' = Adjusted(Buf(Slot(c)))
<1>1. PICK b \in Candidates(Asks(c)) :
              /\ free' = free \ {b}
              /\ m_buf' = [m_buf EXCEPT ![<<c, "new">>] = b]
              /\ mem' = [mem EXCEPT ![b] = Adjusted(mem[m_buf[Slot(c)]])]
  BY DEF AllocMore
<1>2. /\ b \in free /\ b \in Bufs /\ m_buf[Slot(c)] # None
      /\ Slot(c) \in Slots /\ <<c, "new">> \in Slots /\ m_buf[Slot(c)] \in Bufs
      /\ b # None
  BY SlotIsSlot, NoneAssumption DEF Candidates, AllocMore, PoolInv, IInv, OwnTypes
<1>3. \A s \in Slots : m_buf'[s] = IF s = <<c, "new">> THEN b ELSE m_buf[s]
  BY <1>1, <1>2 DEF PoolInv, IInv, OwnTypes
<1>4. PICK r : r = Adjusted(Buf(Slot(c)))
  OBVIOUS
<1>5. BufOK(r, Cell) /\ mem' = [mem EXCEPT ![b] = r]
  BY <1>1, <1>2, <1>4, BufType, AdjustedBuf DEF Buf
<1>6. \A a \in Bufs : mem'[a] = IF a = b THEN r ELSE mem[a]
  BY <1>2, <1>5 DEF PoolInv, MemTypes
<1>7. MemTypes' /\ FreeClean'
  BY ZenonT(40), <1>1, <1>5, <1>6 DEF PoolInv, MemTypes, FreeClean, BufOK, IInv, OwnTypes
<1>8. Buf(<<c, "new">>)' = r
  BY <1>2, <1>3, <1>6 DEF Buf
<1>9. \A s \in Slots : m_buf[s] # b
  BY <1>2 DEF PoolInv, IInv, OneHolder
<1>10. KeepsAllBut({<<c, "new">>})
  BY <1>2, <1>3, <1>6, <1>9 DEF KeepsAllBut, Buf, PoolInv, IInv, OwnTypes
<1> QED
  BY <1>1, <1>2, <1>3, <1>4, <1>7, <1>8, <1>10

LEMMA SwapDoes ==
    ASSUME PoolInv, NEW c \in Conns, Swap(c), NEW slot, slot = Slot(c)
    PROVE  /\ MemTypes' /\ FreeClean' /\ KeepsAllBut({slot, <<c, "new">>})
           /\ m_buf'[slot] = m_buf[<<c, "new">>] /\ m_buf'[slot] \in Bufs
           /\ m_buf'[<<c, "new">>] = None
           /\ Buf(slot)' = Buf(<<c, "new">>)
           /\ Buf(<<c, "new">>)' = Cleared
<1>1. PICK old : old = m_buf[slot]
  OBVIOUS
<1>2. PICK new : new = m_buf[<<c, "new">>]
  OBVIOUS
<1>3. /\ old \in Bufs /\ new \in Bufs /\ old # new /\ old # None /\ new # None
      /\ slot \in Slots /\ <<c, "new">> \in Slots /\ slot # <<c, "new">>
  BY <1>1, <1>2, SlotIsSlot, NoneAssumption
     DEF PoolInv, IInv, OwnTypes, OneHolder, NewBufIsLocal, Swap, At
<1>4. /\ free' = free \cup {old}
      /\ mem' = [mem EXCEPT ![old] = Cleared]
      /\ m_buf' = [m_buf EXCEPT ![slot] = new, ![<<c, "new">>] = None]
  BY <1>1, <1>2 DEF Swap
<1>5. \A s \in Slots :
         m_buf'[s] = IF s = <<c, "new">> THEN None ELSE IF s = slot THEN new ELSE m_buf[s]
  BY <1>4 DEF PoolInv, IInv, OwnTypes
<1>6. \A b \in Bufs : mem'[b] = IF b = old THEN Cleared ELSE mem[b]
  BY <1>4 DEF PoolInv, MemTypes
<1>7. BufOK(Cleared, Cell)
  BY ClearedBuf
<1>8. MemTypes' /\ FreeClean'
  BY <1>3, <1>4, <1>6, <1>7 DEF PoolInv, MemTypes, FreeClean, BufOK, IInv, OwnTypes
<1>9. \A s \in Slots : m_buf[s] = old => s = slot
  BY <1>1, <1>3 DEF PoolInv, IInv, OneHolder
<1>10. KeepsAllBut({slot, <<c, "new">>})
  BY <1>5, <1>6, <1>9 DEF KeepsAllBut, Buf, PoolInv, IInv, OwnTypes
<1>11. Buf(slot)' = Buf(<<c, "new">>) /\ Buf(<<c, "new">>)' = Cleared
  BY <1>2, <1>3, <1>5, <1>6 DEF Buf
<1> QED
  BY <1>2, <1>3, <1>5, <1>8, <1>10, <1>11

------------------------------------------------------------------------------
(* The invariant of one connection.                                        *)

DataTypes ==
    /\ need \in [Conns -> Nat]
    /\ msg \in [Conns -> Seq(Cell)]
    /\ arrived \in [Conns -> Nat]
    /\ taken \in [Conns -> Nat]
    /\ eof \in [Conns -> BOOLEAN]
    /\ got \in [Conns -> Seq(Cell)]
    /\ handled \in [Conns -> Seq(Seq(Cell))]
    /\ replied \in [Conns -> Seq(Cell)]
    /\ failed \in [Conns -> BOOLEAN]
    /\ exited \in BOOLEAN

\* in read_data or write_data
InCall(c) == at[c] \in {"room", "swap", "fill"}

Reading(c) == InCall(c) /\ side[c] = "in"

SendingBody(c) == InCall(c) /\ side[c] = "body"

\* what a send has stored of an answer it has not finished
Begun(c) == IF SendingBody(c) THEN SubSeq(msg[c], 1, MESSAGE_HEADER_SIZE) ELSE <<>>

Fits(s) == m_buf[s] # None => Length(Buf(s)) <= Capacity[m_buf[s]]

DataFits(s) == m_buf[s] # None => Len(Buf(s).data) <= Capacity[m_buf[s]]

\* What is read has arrived; m_head of m_ibuf is 0 when read_data stores; the
\* message a handler has is still in m_ibuf.
InputInv(c) ==
    /\ taken[c] <= arrived[c] /\ arrived[c] <= Len(Stream(c))
    /\ Reading(c) => taken[c] + need[c] <= arrived[c]
    /\ BufOK(Input(c), CellOf(c))
    /\ at[c] = "poll" \/ Reading(c) => Input(c).head = 0
    /\ InHandler(c) => 2 <= Len(msg[c]) /\ Len(msg[c]) <= Length(Input(c))
    /\ Fits(<<c, "in">>) /\ DataFits(<<c, "in">>)

OutputInv(c) ==
    /\ Fits(<<c, "out">>)
    /\ ~failed[c] => Output(c).head = 0 /\ DataFits(<<c, "out">>)
    /\ SendingBody(c) => 2 <= Length(Output(c))
    /\ at[c] # "closed" /\ ~failed[c] =>
          replied[c] \o Begun(c) = got[c] \o Valid(Output(c))

\* The larger buffer holds what the old one does and has room for the rest.
RoomInv(c) ==
    /\ at[c] = "swap" =>
          /\ Buf(<<c, "new">>) = Adjusted(Buf(Slot(c)))
          /\ Capacity[m_buf[<<c, "new">>]] >= Length(Buf(<<c, "new">>)) + Want(c)
    /\ at[c] = "fill" => HasRoom(c)

ConnInv(c) == InputInv(c) /\ OutputInv(c) /\ RoomInv(c)

BufsInv == PoolInv /\ DataTypes /\ \A c \in Conns : ConnInv(c)

\* A step leaves a connection as it is.
Same(d) ==
    /\ at'[d] = at[d] /\ side'[d] = side[d] /\ need'[d] = need[d] /\ msg'[d] = msg[d]
    /\ arrived'[d] = arrived[d] /\ taken'[d] = taken[d]
    /\ got'[d] = got[d] /\ handled'[d] = handled[d]
    /\ replied'[d] = replied[d] /\ failed'[d] = failed[d]
    /\ \A s \in {<<d, "in">>, <<d, "out">>, <<d, "new">>} :
          m_buf'[s] = m_buf[s] /\ Buf(s)' = Buf(s)

LEMMA HasRoomIs ==
    ASSUME NEW c \in Conns
    PROVE  HasRoom(c) <=> /\ m_buf[Slot(c)] # None
                          /\ Capacity[m_buf[Slot(c)]] - Length(Buf(Slot(c))) >= Want(c)
BY DEF HasRoom, Buf

LEMMA SameKeeps ==
    ASSUME NEW d \in Conns, ConnInv(d), Same(d)
    PROVE  ConnInv(d)'
<1>1. /\ at'[d] = at[d] /\ side'[d] = side[d] /\ need'[d] = need[d] /\ msg'[d] = msg[d]
      /\ arrived'[d] = arrived[d] /\ taken'[d] = taken[d]
      /\ got'[d] = got[d] /\ handled'[d] = handled[d]
      /\ replied'[d] = replied[d] /\ failed'[d] = failed[d]
  BY DEF Same
<1>2. /\ m_buf'[<<d, "in">>] = m_buf[<<d, "in">>] /\ Buf(<<d, "in">>)' = Buf(<<d, "in">>)
      /\ m_buf'[<<d, "out">>] = m_buf[<<d, "out">>] /\ Buf(<<d, "out">>)' = Buf(<<d, "out">>)
      /\ m_buf'[<<d, "new">>] = m_buf[<<d, "new">>] /\ Buf(<<d, "new">>)' = Buf(<<d, "new">>)
  BY DEF Same
<1>3. /\ InCall(d)' = InCall(d) /\ Reading(d)' = Reading(d)
      /\ SendingBody(d)' = SendingBody(d) /\ InHandler(d)' = InHandler(d)
  BY <1>1 DEF InCall, Reading, SendingBody, InHandler
<1>4. Slot(d)' = Slot(d) /\ Part(d)' = Part(d) /\ Want(d)' = Want(d) /\ Begun(d)' = Begun(d)
  BY <1>1, <1>3 DEF Slot, Part, Want, Begun
<1>5. /\ Fits(<<d, "in">>)' = Fits(<<d, "in">>) /\ DataFits(<<d, "in">>)' = DataFits(<<d, "in">>)
      /\ Fits(<<d, "out">>)' = Fits(<<d, "out">>) /\ DataFits(<<d, "out">>)' = DataFits(<<d, "out">>)
  BY <1>2 DEF Fits, DataFits
<1>6. InputInv(d)'
  BY <1>1, <1>2, <1>3, <1>5 DEF ConnInv, InputInv, Input
<1>7. OutputInv(d)'
  BY <1>1, <1>2, <1>3, <1>4, <1>5 DEF ConnInv, OutputInv, Output
<1>8. RoomInv(d)'
  <2>1. PICK slot \in {<<d, "in">>, <<d, "out">>} : slot = Slot(d) /\ slot = Slot(d)'
    BY <1>4 DEF Slot
  <2>2. m_buf'[slot] = m_buf[slot] /\ Buf(slot)' = Buf(slot)
    BY <1>2
  <2>3. HasRoom(d) <=> m_buf[slot] # None /\ Capacity[m_buf[slot]] - Length(Buf(slot)) >= Want(d)
    BY <2>1, HasRoomIs
  <2>4. HasRoom(d)' <=> m_buf'[slot] # None /\ Capacity[m_buf'[slot]] - Length(Buf(slot)') >= Want(d)'
    BY <2>1 DEF HasRoom, Buf
  <2>5. HasRoom(d)' <=> HasRoom(d)
    BY <1>4, <2>2, <2>3, <2>4
  <2>6. Buf(slot)' = Buf(Slot(d))'
    BY <2>1 DEF Buf
  <2> QED
    BY <1>1, <1>2, <1>4, <2>1, <2>2, <2>5, <2>6 DEF ConnInv, RoomInv
<1> QED
  BY <1>6, <1>7, <1>8 DEF ConnInv

------------------------------------------------------------------------------
(* What each step does to the buffers.                                     *)

\* What a thread's step assigns besides the buffers is its own.
Local(c) ==
    \A d \in Conns \ {c} :
        /\ at'[d] = at[d] /\ side'[d] = side[d] /\ need'[d] = need[d] /\ msg'[d] = msg[d]
        /\ arrived'[d] = arrived[d] /\ taken'[d] = taken[d]
        /\ got'[d] = got[d] /\ handled'[d] = handled[d]
        /\ replied'[d] = replied[d] /\ failed'[d] = failed[d]

\* What a step of a connection's thread shows of the invariant.
Keeps(c) ==
    /\ MemTypes' /\ FreeClean' /\ DataTypes'
    /\ ConnInv(c)'
    /\ \A d \in Conns \ {c} : Same(d)

LEMMA OthersSame ==
    ASSUME NEW c \in Conns, Local(c),
           NEW S \in SUBSET {<<c, "in">>, <<c, "out">>, <<c, "new">>}, KeepsAllBut(S)
    PROVE  \A d \in Conns \ {c} : Same(d)
<1> SUFFICES ASSUME NEW d \in Conns \ {c} PROVE Same(d)
  OBVIOUS
<1>1. \A s \in {<<d, "in">>, <<d, "out">>, <<d, "new">>} : s \in Slots \ S
  BY DEF Slots
<1> QED
  BY <1>1 DEF Local, KeepsAllBut, Same

LEMMA NothingMoves ==
    ASSUME PoolInv, UNCHANGED <<free, mem, m_buf>>
    PROVE  MemTypes' /\ FreeClean' /\ KeepsAllBut({})
BY DEF PoolInv, MemTypes, FreeClean, KeepsAllBut, Buf

LEMMA InputStays ==
    ASSUME NEW c \in Conns, InputInv(c),
           m_buf'[<<c, "in">>] = m_buf[<<c, "in">>], Buf(<<c, "in">>)' = Buf(<<c, "in">>),
           arrived'[c] = arrived[c], taken'[c] = taken[c], need'[c] = need[c],
           msg'[c] = msg[c], Reading(c)' => Reading(c), InHandler(c)' => InHandler(c),
           at'[c] = "poll" => at[c] = "poll"
    PROVE  InputInv(c)'
<1>1. Fits(<<c, "in">>)' = Fits(<<c, "in">>) /\ DataFits(<<c, "in">>)' = DataFits(<<c, "in">>)
  BY DEF Fits, DataFits
<1> QED
  BY <1>1 DEF InputInv, Input

LEMMA OutputStays ==
    ASSUME NEW c \in Conns, OutputInv(c),
           m_buf'[<<c, "out">>] = m_buf[<<c, "out">>], Buf(<<c, "out">>)' = Buf(<<c, "out">>),
           got'[c] = got[c], replied'[c] = replied[c], failed'[c] = failed[c],
           SendingBody(c)' = SendingBody(c), SendingBody(c) => msg'[c] = msg[c],
           at[c] = "closed" => at'[c] = "closed"
    PROVE  OutputInv(c)'
<1>1. Fits(<<c, "out">>)' = Fits(<<c, "out">>) /\ DataFits(<<c, "out">>)' = DataFits(<<c, "out">>)
  BY DEF Fits, DataFits
<1>2. Begun(c)' = Begun(c)
  BY DEF Begun
<1> QED
  BY <1>1, <1>2 DEF OutputInv, Output

LEMMA NoRoomNeeded ==
    ASSUME NEW c \in Conns, at'[c] \notin {"swap", "fill"}
    PROVE  RoomInv(c)'
BY DEF RoomInv

LEMMA ArriveStep ==
    ASSUME BufsInv, NEW c \in Conns, Arrive(c) \/ PeerCloses(c)
    PROVE  Keeps(c)
<1>1. /\ UNCHANGED <<free, mem, m_buf, at, side, need, msg, taken, got, handled, replied, failed, exited>>
      /\ PoolInv /\ DataTypes /\ ConnInv(c)
  BY DEF Arrive, PeerCloses, job, log, BufsInv
<1>2. arrived'[c] \in Nat /\ arrived[c] \in Nat /\ arrived[c] <= arrived'[c]
      /\ arrived'[c] <= Len(Stream(c)) /\ arrived' \in [Conns -> Nat]
      /\ \A d \in Conns \ {c} : arrived'[d] = arrived[d]
  <2>1. CASE PeerCloses(c)
    BY <1>1, <2>1 DEF PeerCloses, DataTypes, ConnInv, InputInv
  <2>2. CASE Arrive(c)
    <3>1. Len(got[c]) \in Nat
      BY <1>1, LenProperties DEF DataTypes
    <3>2. Allowed(c) \in Nat /\ Allowed(c) <= Len(Stream(c)) /\ Len(Stream(c)) \in Nat
      BY <3>1, AllowedIs, StreamIs
    <3>3. PICK n \in arrived[c] + 1 .. Allowed(c) : arrived' = [arrived EXCEPT ![c] = n]
      BY <2>2 DEF Arrive
    <3> QED
      BY <1>1, <3>2, <3>3 DEF DataTypes
  <2> QED
    BY <2>1, <2>2
<1>3. eof' \in [Conns -> BOOLEAN]
  BY <1>1 DEF Arrive, PeerCloses, DataTypes
<1>4. DataTypes'
  BY <1>1, <1>2, <1>3 DEF DataTypes
<1>5. MemTypes' /\ FreeClean' /\ KeepsAllBut({})
  BY <1>1, NothingMoves
<1>6. Local(c)
  BY <1>1, <1>2 DEF Local
<1>7. /\ InCall(c)' = InCall(c) /\ Reading(c)' = Reading(c)
      /\ SendingBody(c)' = SendingBody(c) /\ InHandler(c)' = InHandler(c)
      /\ Buf(<<c, "in">>)' = Buf(<<c, "in">>) /\ Buf(<<c, "out">>)' = Buf(<<c, "out">>)
  BY <1>1 DEF InCall, Reading, SendingBody, InHandler, Buf
<1>8. InputInv(c)'
  <2>1. Fits(<<c, "in">>)' = Fits(<<c, "in">>) /\ DataFits(<<c, "in">>)' = DataFits(<<c, "in">>)
    BY <1>1, <1>7 DEF Fits, DataFits
  <2>2. taken[c] \in Nat /\ need[c] \in Nat
    BY <1>1 DEF DataTypes
  <2> QED
    BY <1>1, <1>2, <1>7, <2>1, <2>2 DEF ConnInv, InputInv, Input
<1>9. OutputInv(c)'
  BY <1>1, <1>7, OutputStays DEF ConnInv
<1>10. RoomInv(c)'
  BY <1>1 DEF ConnInv, RoomInv, HasRoom, Buf, Slot, Want, Part
<1> QED
  BY <1>4, <1>5, <1>6, <1>8, <1>9, <1>10, OthersSame DEF Keeps, ConnInv

LEMMA StopStep ==
    ASSUME BufsInv, NEW c \in Conns, AllocExits(c) \/ WriteAborts(c)
    PROVE  Keeps(c)
<1>1. /\ UNCHANGED <<free, mem, m_buf, at, side, need, msg, arrived, eof, taken, got, handled,
                     replied, failed>>
      /\ exited' = TRUE
      /\ PoolInv /\ DataTypes /\ ConnInv(c)
  BY DEF AllocExits, WriteAborts, job, net, log, BufsInv
<1>2. DataTypes'
  BY <1>1 DEF DataTypes
<1>3. MemTypes' /\ FreeClean' /\ KeepsAllBut({})
  BY <1>1, NothingMoves
<1>4. Local(c)
  BY <1>1 DEF Local
<1>5. ConnInv(c)'
  BY <1>1, SameKeeps DEF Same, Buf
<1> QED
  BY <1>2, <1>3, <1>4, <1>5, OthersSame DEF Keeps

LEMMA AllocFirstStep ==
    ASSUME BufsInv, NEW c \in Conns, AllocFirst(c)
    PROVE  Keeps(c)
<1>1. /\ UNCHANGED <<at, side, need, msg, arrived, eof, taken, got, handled,
                     replied, failed, exited>>
      /\ PoolInv /\ DataTypes /\ ConnInv(c) /\ at[c] = "room"
  BY DEF AllocFirst, At, job, net, log, BufsInv
<1>2. PICK slot : slot = Slot(c)
  OBVIOUS
<1>3. /\ MemTypes' /\ FreeClean'
      /\ m_buf[slot] = None /\ m_buf'[slot] \in Bufs /\ Buf(slot) = Cleared
      /\ \A s \in Slots : Buf(s)' = Buf(s)
      /\ \A s \in Slots \ {slot} : m_buf'[s] = m_buf[s]
  BY <1>1, <1>2, AllocFirstDoes
<1>4. /\ slot \in {<<c, "in">>, <<c, "out">>}
      /\ <<c, "in">> \in Slots /\ <<c, "out">> \in Slots
  BY <1>2 DEF Slot, Slots
<1>5. KeepsAllBut({slot})
  BY <1>3 DEF KeepsAllBut
<1>6. /\ InCall(c)' = InCall(c) /\ Reading(c)' = Reading(c)
      /\ SendingBody(c)' = SendingBody(c) /\ InHandler(c)' = InHandler(c)
      /\ Begun(c)' = Begun(c)
  BY <1>1 DEF InCall, Reading, SendingBody, InHandler, Begun
<1>7. Length(Cleared) = 0 /\ Len(Cleared.data) = 0
  BY DEF Cleared, Length
<1>8. ASSUME NEW s \in {<<c, "in">>, <<c, "out">>}
      PROVE  (Fits(s) => Fits(s)') /\ (DataFits(s) => DataFits(s)')
  <2>1. CASE s = slot
    <3>1. Buf(s)' = Cleared /\ m_buf'[s] \in Bufs /\ Capacity[m_buf'[s]] \in Nat
      BY <1>3, <1>4, <2>1, CapacityAssumption
    <3> QED
      BY <1>7, <3>1 DEF Fits, DataFits
  <2>2. CASE s # slot
    BY <1>3, <1>4, <2>2 DEF Fits, DataFits
  <2> QED
    BY <2>1, <2>2
<1>9. InputInv(c)'
  BY <1>1, <1>3, <1>4, <1>6, <1>8 DEF ConnInv, InputInv, Input
<1>10. OutputInv(c)'
  BY <1>1, <1>3, <1>4, <1>6, <1>8 DEF ConnInv, OutputInv, Output
<1>11. RoomInv(c)'
  BY <1>1, NoRoomNeeded
<1>12. DataTypes'
  BY <1>1 DEF DataTypes
<1>13. Local(c)
  BY <1>1 DEF Local
<1> QED
  BY <1>3, <1>4, <1>5, <1>9, <1>10, <1>11, <1>12, <1>13, OthersSame DEF Keeps, ConnInv

\* The class asked for is large enough.
LEMMA CandidatesFit ==
    ASSUME NEW n \in Nat, ClassesFor(n) # {}, NEW b \in Candidates(n)
    PROVE  Capacity[b] >= n
<1>1. ClassesFor(n) \in SUBSET Nat
  BY CapacityAssumption DEF ClassesFor, Classes
<1>2. Min(ClassesFor(n)) \in ClassesFor(n)
  BY <1>1, MinOfNaturals
<1> QED
  BY <1>2 DEF Candidates, ClassesFor

\* What the current call stores: need_read cells, or a part of the answer.
LEMMA WantIs ==
    ASSUME BufsInv, NEW c \in Conns, InCall(c)
    PROVE  /\ Want(c) \in Nat
           /\ side[c] = "in" => Want(c) = need[c]
           /\ side[c] # "in" =>
                 /\ Part(c) \in Seq(Cell) /\ Want(c) = Len(Part(c))
                 /\ Len(msg[c]) \in Nat /\ Len(msg[c]) >= 2
           /\ side[c] = "head" =>
                 Len(Part(c)) = 2 /\ Part(c) = SubSeq(msg[c], 1, MESSAGE_HEADER_SIZE)
           /\ side[c] = "body" =>
                 /\ Len(Part(c)) = Len(msg[c]) - 2
                 /\ SubSeq(msg[c], 1, MESSAGE_HEADER_SIZE) \in Seq(Cell)
                 /\ SubSeq(msg[c], 1, MESSAGE_HEADER_SIZE) \o Part(c) = msg[c]
<1>1. PICK m : m = msg[c]
  OBVIOUS
<1>2. /\ m \in Seq(Cell) /\ Len(m) \in Nat /\ need[c] \in Nat
      /\ \A i \in 1 .. Len(m) : m[i] \in Cell
      /\ side[c] \in {"in", "head", "body"}
  BY <1>1, LenProperties, ElementOfSeq DEF BufsInv, PoolInv, IInv, OwnTypes, DataTypes
<1>3. PICK p : p = SubSeq(m, 1, 2)
  OBVIOUS
<1>4. PICK q : q = SubSeq(m, 3, Len(m))
  OBVIOUS
<1>5. CASE side[c] = "in"
  BY <1>2, <1>5 DEF Want
<1>6. CASE side[c] # "in"
  <2>1. Len(m) >= 2
    BY <1>1, <1>6 DEF BufsInv, ConnInv, InputInv, InHandler, InCall
  <2>2. p \in Seq(Cell) /\ Len(p) = 2
    <3>1. 0 \in Nat /\ 2 \in Nat /\ 0 <= 2 /\ 2 <= Len(m) /\ p = SubSeq(m, 0 + 1, 2)
      BY <1>2, <1>3, <2>1
    <3> QED
      BY <1>2, <3>1, PartOf
  <2>3. q \in Seq(Cell) /\ Len(q) = Len(m) - 2
    <3>1. PICK n : n = Len(m)
      OBVIOUS
    <3>2. 2 \in Nat /\ 2 <= n /\ n \in Nat /\ n <= Len(m) /\ q = SubSeq(m, 2 + 1, n)
      BY <1>2, <1>4, <2>1, <3>1
    <3>3. q \in Seq(Cell) /\ Len(q) = n - 2
      BY <1>2, <3>2, PartOf
    <3> QED
      BY <3>1, <3>3
  <2>4. p \o q = m
    <3>1. /\ 1 \in 1 .. Len(m) + 1 /\ 2 \in 1 - 1 .. Len(m) /\ Len(m) \in 2 .. Len(m) /\ 2 + 1 = 3
      BY <1>2, <2>1
    <3>2. SubSeq(m, 1, 2) \o SubSeq(m, 2 + 1, Len(m)) = SubSeq(m, 1, Len(m))
      BY <1>2, <3>1, ConcatAdjacentSubSeq
    <3> QED
      BY <1>2, <1>3, <1>4, <3>1, <3>2, SubSeqFull
  <2>5. side[c] = "head" => Part(c) = p
    BY <1>1, <1>3 DEF Part, MESSAGE_HEADER_SIZE
  <2>6. side[c] # "head" => Part(c) = q
    <3>1. q = SubSeq(msg[c], MESSAGE_HEADER_SIZE + 1, Len(msg[c]))
      BY <1>1, <1>4 DEF MESSAGE_HEADER_SIZE
    <3> QED
      BY <3>1, Zenon DEF Part
  <2>7. Want(c) = Len(Part(c))
    BY <1>6 DEF Want
  <2>8. SubSeq(msg[c], 1, MESSAGE_HEADER_SIZE) = p
    BY <1>1, <1>3 DEF MESSAGE_HEADER_SIZE
  <2>9. Len(msg[c]) \in Nat /\ Len(msg[c]) >= 2
    BY <1>1, <1>2, <2>1
  <2>10. CASE side[c] = "head"
    <3>1. Part(c) = p /\ Want(c) = 2
      BY <2>2, <2>5, <2>7, <2>10
    <3> QED
      BY <2>2, <2>7, <2>8, <2>9, <2>10, <3>1
  <2>11. CASE side[c] = "body"
    <3>1. Part(c) = q /\ Want(c) = Len(msg[c]) - 2
      BY <1>1, <2>3, <2>6, <2>7, <2>11
    <3>2. Want(c) \in Nat
      BY <2>9, <3>1
    <3>3. p \o Part(c) = msg[c]
      BY <1>1, <2>4, <3>1
    <3> QED
      BY <2>2, <2>3, <2>7, <2>8, <2>9, <2>11, <3>1, <3>2, <3>3
  <2> QED
    BY <1>2, <1>6, <2>10, <2>11
<1> QED
  BY <1>5, <1>6

LEMMA AllocMoreStep ==
    ASSUME BufsInv, NEW c \in Conns, AllocMore(c)
    PROVE  Keeps(c)
<1>1. /\ UNCHANGED <<side, need, msg, arrived, eof, taken, got, handled,
                     replied, failed, exited>>
      /\ PoolInv /\ DataTypes /\ ConnInv(c) /\ at[c] = "room"
      /\ at' = [at EXCEPT ![c] = "swap"]
      /\ ClassesFor(Asks(c)) # {}
  BY DEF AllocMore, At, Go, job, net, log, BufsInv
<1>2. at'[c] = "swap" /\ \A d \in Conns \ {c} : at'[d] = at[d]
  BY <1>1 DEF PoolInv, IInv, OwnTypes
<1>3. PICK slot : slot = Slot(c)
  OBVIOUS
<1>4. /\ slot = Slot(c)' /\ slot \in {<<c, "in">>, <<c, "out">>}
      /\ slot \in Slots /\ <<c, "in">> \in Slots /\ <<c, "out">> \in Slots
      /\ <<c, "in">> # <<c, "new">> /\ <<c, "out">> # <<c, "new">>
  BY <1>1, <1>3 DEF Slot, Slots
<1>5. PICK b : b = m_buf'[<<c, "new">>]
  OBVIOUS
<1>6. /\ MemTypes' /\ FreeClean' /\ KeepsAllBut({<<c, "new">>})
      /\ m_buf[slot] \in Bufs /\ b \in Candidates(Asks(c)) /\ b \in Bufs
      /\ Buf(<<c, "new">>)' = Adjusted(Buf(slot))
  BY <1>1, <1>3, <1>5, AllocMoreDoes
<1>7. /\ m_buf'[<<c, "in">>] = m_buf[<<c, "in">>] /\ Buf(<<c, "in">>)' = Buf(<<c, "in">>)
      /\ m_buf'[<<c, "out">>] = m_buf[<<c, "out">>] /\ Buf(<<c, "out">>)' = Buf(<<c, "out">>)
      /\ Buf(slot)' = Buf(slot)
  BY <1>4, <1>6 DEF KeepsAllBut
<1>8. /\ InCall(c)' = InCall(c) /\ Reading(c)' = Reading(c)
      /\ SendingBody(c)' = SendingBody(c) /\ InHandler(c)' = InHandler(c)
  BY <1>1, <1>2 DEF InCall, Reading, SendingBody, InHandler
<1>9. InputInv(c)'
  BY <1>1, <1>2, <1>7, <1>8, InputStays DEF ConnInv
<1>10. OutputInv(c)'
  BY <1>1, <1>2, <1>7, <1>8, OutputStays DEF ConnInv
<1>11. RoomInv(c)'
  <2>1. Want(c)' = Want(c) /\ Want(c) \in Nat
    BY <1>1, WantIs DEF Want, Part, InCall
  <2>2. BufOK(Buf(slot), Cell) /\ Length(Buf(slot)) \in Nat
    BY <1>1, <1>4, BufType, BufView
  <2>3. Length(Adjusted(Buf(slot))) = Length(Buf(slot))
    BY <2>2, AdjustedBuf
  <2>4. Length(Buf(slot)) <= Capacity[m_buf[slot]]
    BY <1>1, <1>4, <1>6, NoneAssumption DEF ConnInv, InputInv, OutputInv, Fits
  <2>5. Asks(c) = Capacity[m_buf[slot]] + Want(c) /\ Capacity[m_buf[slot]] \in Nat
    BY <1>3, <1>6, NoneAssumption, CapacityAssumption DEF Asks
  <2>6. Capacity[b] >= Asks(c) /\ Capacity[b] \in Nat
    BY <1>1, <1>6, <2>1, <2>5, CandidatesFit, CapacityAssumption
  <2>7. Capacity[b] >= Length(Adjusted(Buf(slot))) + Want(c)
    BY <2>1, <2>2, <2>3, <2>4, <2>5, <2>6
  <2>8. Buf(Slot(c))' = Buf(slot)
    BY <1>3, <1>4, <1>7 DEF Buf
  <2> QED
    BY <1>2, <1>5, <1>6, <2>1, <2>7, <2>8 DEF RoomInv
<1>12. DataTypes'
  BY <1>1 DEF DataTypes
<1>13. Local(c)
  BY <1>1, <1>2 DEF Local
<1> QED
  BY <1>6, <1>9, <1>10, <1>11, <1>12, <1>13, OthersSame DEF Keeps, ConnInv

LEMMA SwapStep ==
    ASSUME BufsInv, NEW c \in Conns, Swap(c)
    PROVE  Keeps(c)
<1>1. /\ UNCHANGED <<side, need, msg, arrived, eof, taken, got, handled,
                     replied, failed, exited>>
      /\ PoolInv /\ DataTypes /\ ConnInv(c) /\ at[c] = "swap"
      /\ at' = [at EXCEPT ![c] = "fill"]
  BY DEF Swap, At, Go, job, net, log, BufsInv
<1>2. at'[c] = "fill" /\ \A d \in Conns \ {c} : at'[d] = at[d]
  BY <1>1 DEF PoolInv, IInv, OwnTypes
<1>3. PICK slot : slot = Slot(c)
  OBVIOUS
<1>4. /\ slot = Slot(c)' /\ slot \in {<<c, "in">>, <<c, "out">>}
      /\ slot \in Slots /\ <<c, "in">> \in Slots /\ <<c, "out">> \in Slots
      /\ <<c, "new">> \in Slots
      /\ <<c, "in">> # <<c, "new">> /\ <<c, "out">> # <<c, "new">>
  BY <1>1, <1>3 DEF Slot, Slots
<1>5. PICK b : b = m_buf[<<c, "new">>]
  OBVIOUS
<1>6. /\ MemTypes' /\ FreeClean' /\ KeepsAllBut({slot, <<c, "new">>})
      /\ m_buf'[slot] = b /\ b \in Bufs
      /\ Buf(slot)' = Buf(<<c, "new">>)
  BY <1>1, <1>3, <1>5, SwapDoes
<1>7. /\ Buf(<<c, "new">>) = Adjusted(Buf(slot))
      /\ Capacity[b] >= Length(Buf(<<c, "new">>)) + Want(c)
  BY <1>1, <1>3, <1>5 DEF ConnInv, RoomInv
<1>8. Want(c)' = Want(c) /\ Want(c) \in Nat
  BY <1>1, WantIs DEF Want, Part, InCall
<1>9. BufOK(Buf(slot), Cell) /\ Length(Buf(slot)) \in Nat
  BY <1>1, <1>4, BufType, BufView
<1>10. PICK r : r = Adjusted(Buf(slot))
  OBVIOUS
<1>11. /\ Buf(slot)' = r /\ r.head = 0 /\ Length(r) = Length(Buf(slot))
       /\ Valid(r) = Valid(Buf(slot)) /\ Len(r.data) = Length(r)
       /\ Length(r) + Want(c) <= Capacity[b] /\ Length(r) \in Nat /\ Capacity[b] \in Nat
  BY <1>6, <1>7, <1>9, <1>10, AdjustedBuf, BufView, CapacityAssumption
<1>12. Fits(slot)' /\ DataFits(slot)'
  BY <1>6, <1>8, <1>11 DEF Fits, DataFits
<1>13. /\ InCall(c)' = InCall(c) /\ Reading(c)' = Reading(c)
       /\ SendingBody(c)' = SendingBody(c) /\ InHandler(c)' = InHandler(c)
       /\ Begun(c)' = Begun(c)
  BY <1>1, <1>2 DEF InCall, Reading, SendingBody, InHandler, Begun
<1>14. InputInv(c)'
  <2>1. CASE slot = <<c, "in">>
    <3>1. BufOK(Input(c), CellOf(c))
      BY <1>1 DEF ConnInv, InputInv
    <3>2. BufOK(r, CellOf(c)) /\ Input(c)' = r
      BY <1>10, <1>11, <2>1, <3>1, AdjustedBuf DEF Input
    <3> QED
      BY <1>1, <1>2, <1>11, <1>12, <1>13, <2>1, <3>2 DEF ConnInv, InputInv, Input
  <2>2. CASE slot # <<c, "in">>
    <3>1. m_buf'[<<c, "in">>] = m_buf[<<c, "in">>] /\ Buf(<<c, "in">>)' = Buf(<<c, "in">>)
      BY <1>4, <1>6, <2>2 DEF KeepsAllBut
    <3> QED
      BY <1>1, <1>2, <1>13, <3>1, InputStays DEF ConnInv
  <2> QED
    BY <2>1, <2>2
<1>15. OutputInv(c)'
  <2>1. CASE slot = <<c, "out">>
    BY <1>1, <1>2, <1>11, <1>12, <1>13, <2>1 DEF ConnInv, OutputInv, Output
  <2>2. CASE slot # <<c, "out">>
    <3>1. m_buf'[<<c, "out">>] = m_buf[<<c, "out">>] /\ Buf(<<c, "out">>)' = Buf(<<c, "out">>)
      BY <1>4, <1>6, <2>2 DEF KeepsAllBut
    <3> QED
      BY <1>1, <1>2, <1>13, <3>1, OutputStays DEF ConnInv
  <2> QED
    BY <2>1, <2>2
<1>16. RoomInv(c)'
  <2>1. HasRoom(c)'
    <3>1. b # None /\ mem'[b] = r /\ m_buf'[Slot(c)'] = b
      BY <1>4, <1>6, <1>11, NoneAssumption DEF Buf
    <3> QED
      BY <1>8, <1>11, <3>1 DEF HasRoom
  <2> QED
    BY <1>2, <2>1 DEF RoomInv
<1>17. DataTypes'
  BY <1>1 DEF DataTypes
<1>18. Local(c)
  BY <1>1, <1>2 DEF Local
<1>19. {slot, <<c, "new">>} \in SUBSET {<<c, "in">>, <<c, "out">>, <<c, "new">>}
  BY <1>4
<1> QED
  BY <1>6, <1>14, <1>15, <1>16, <1>17, <1>18, <1>19, OthersSame DEF Keeps, ConnInv

LEMMA InputType ==
    ASSUME BufsInv, NEW c \in Conns
    PROVE  /\ BufOK(Input(c), Cell) /\ BufOK(Input(c), CellOf(c)) /\ Length(Input(c)) \in Nat
           /\ BufOK(Output(c), Cell) /\ Length(Output(c)) \in Nat
           /\ arrived[c] \in Nat /\ taken[c] \in Nat /\ need[c] \in Nat
           /\ Length(Input(c)) > 0 => m_buf[<<c, "in">>] \in Bufs
           /\ Length(Output(c)) > 0 => m_buf[<<c, "out">>] \in Bufs
<1>1. /\ <<c, "in">> \in Slots /\ <<c, "out">> \in Slots
      /\ PoolInv /\ DataTypes /\ ConnInv(c)
  BY DEF Slots, BufsInv
<1>2. BufOK(Input(c), Cell) /\ BufOK(Output(c), Cell)
  BY <1>1, BufType DEF Input, Output
<1>3. BufOK(Input(c), CellOf(c))
  BY <1>1 DEF ConnInv, InputInv
<1>4. Length(Input(c)) > 0 => m_buf[<<c, "in">>] \in Bufs
  BY <1>1, ClearedBuf DEF Input, Buf, PoolInv, IInv, OwnTypes
<1>5. Length(Output(c)) > 0 => m_buf[<<c, "out">>] \in Bufs
  BY <1>1, ClearedBuf DEF Output, Buf, PoolInv, IInv, OwnTypes
<1> QED
  BY <1>1, <1>2, <1>3, <1>4, <1>5, BufView DEF DataTypes

\* read() or memcpy() into the buffer of the current call
LEMMA StoreInCall ==
    ASSUME BufsInv, NEW c \in Conns, Ready(c), NEW cells \in Seq(Cell), Len(cells) = Want(c),
           UNCHANGED <<free, m_buf>>,
           mem' = [mem EXCEPT ![m_buf[Slot(c)]] = Filled(@, cells)],
           NEW slot, slot = Slot(c)
    PROVE  /\ MemTypes' /\ FreeClean' /\ KeepsAllBut({slot})
           /\ Buf(slot)' = Filled(Buf(slot), cells)
           /\ Length(Filled(Buf(slot), cells)) = Length(Buf(slot)) + Want(c)
           /\ Filled(Buf(slot), cells).head = Buf(slot).head
           /\ Fits(slot)'
           /\ Buf(slot).head = 0 =>
                 /\ DataFits(slot)'
                 /\ Valid(Filled(Buf(slot), cells)) = Valid(Buf(slot)) \o cells
<1>1. PoolInv /\ DataTypes /\ ConnInv(c) /\ InCall(c)
  BY DEF BufsInv, Ready, At, InCall
<1>2. slot \in Slots
  BY DEF Slot, Slots
<1>3. HasRoom(c)
  BY <1>1 DEF Ready, At, ConnInv, RoomInv
<1>4. m_buf[slot] # None /\ Capacity[m_buf[slot]] - Length(Buf(slot)) >= Want(c)
  BY <1>3, HasRoomIs
<1>5. PICK b \in Bufs : b = m_buf[slot]
  BY <1>1, <1>2, <1>4 DEF PoolInv, IInv, OwnTypes
<1>6. PICK r : r = Filled(Buf(slot), cells)
  OBVIOUS
<1>7. Buf(slot) = mem[m_buf[slot]] /\ BufOK(Buf(slot), Cell)
  BY <1>1, <1>2, <1>4, BufType DEF Buf
<1>8. <<0, 0>> \in Cell
  BY DEF Cell
<1>9. /\ BufOK(r, Cell) /\ r.head = Buf(slot).head
      /\ Length(r) = Length(Buf(slot)) + Len(cells)
      /\ Len(r.data) = Length(Buf(slot)) + Len(cells) + Buf(slot).head
      /\ Buf(slot).head = 0 => Valid(r) = Valid(Buf(slot)) \o cells
  BY <1>6, <1>7, <1>8, FilledBuf
<1>10. mem' = [mem EXCEPT ![m_buf[slot]] = r]
  BY <1>6, <1>7
<1>11. MemTypes' /\ FreeClean' /\ KeepsAllBut({slot}) /\ Buf(slot)' = r
  BY <1>1, <1>2, <1>4, <1>9, <1>10, StoreDoes
<1>12. /\ Length(Buf(slot)) \in Nat /\ Capacity[b] \in Nat /\ Want(c) \in Nat
       /\ Length(Buf(slot)) + Want(c) <= Capacity[b]
  BY <1>1, <1>4, <1>5, <1>7, BufView, CapacityAssumption, WantIs
<1>13. Fits(slot)' /\ (Buf(slot).head = 0 => DataFits(slot)')
  BY <1>5, <1>9, <1>11, <1>12 DEF Fits, DataFits
<1> QED
  BY <1>6, <1>9, <1>11, <1>13

LEMMA ReadableStep ==
    ASSUME BufsInv, NEW c \in Conns, Readable(c)
    PROVE  Keeps(c)
<1>1. /\ UNCHANGED <<free, mem, m_buf, msg, arrived, eof, taken, got, handled,
                     replied, failed, exited>>
      /\ PoolInv /\ DataTypes /\ ConnInv(c) /\ at[c] = "poll"
      /\ at' = [at EXCEPT ![c] = "room"]
      /\ side' = [side EXCEPT ![c] = "in"]
      /\ need' = [need EXCEPT ![c] = arrived[c] - taken[c]]
  BY DEF Readable, At, Go, net, log, BufsInv
<1>2. /\ at'[c] = "room" /\ side'[c] = "in" /\ need'[c] = arrived[c] - taken[c]
      /\ \A d \in Conns \ {c} : at'[d] = at[d] /\ side'[d] = side[d] /\ need'[d] = need[d]
  BY <1>1 DEF PoolInv, IInv, OwnTypes, DataTypes
<1>3. /\ taken[c] \in Nat /\ arrived[c] \in Nat /\ taken[c] <= arrived[c]
  BY <1>1 DEF DataTypes, ConnInv, InputInv
<1>4. DataTypes'
  BY <1>1, <1>3 DEF DataTypes
<1>5. MemTypes' /\ FreeClean' /\ KeepsAllBut({})
  BY <1>1, NothingMoves
<1>6. Local(c)
  BY <1>1, <1>2 DEF Local
<1>7. Buf(<<c, "in">>)' = Buf(<<c, "in">>) /\ Buf(<<c, "out">>)' = Buf(<<c, "out">>)
  BY <1>1 DEF Buf
<1>8. /\ ~InHandler(c)' /\ ~SendingBody(c)
      /\ SendingBody(c)' = SendingBody(c)
  BY <1>1, <1>2 DEF InHandler, SendingBody, InCall
<1>9. InputInv(c)'
  <2>1. Fits(<<c, "in">>)' = Fits(<<c, "in">>) /\ DataFits(<<c, "in">>)' = DataFits(<<c, "in">>)
    BY <1>1, <1>7 DEF Fits, DataFits
  <2>2. taken'[c] + need'[c] <= arrived'[c]
    BY <1>1, <1>2, <1>3
  <2>3. Input(c)' = Input(c) /\ Input(c).head = 0
    BY <1>1, <1>7 DEF ConnInv, InputInv, Input
  <2>4. Fits(<<c, "in">>)' /\ DataFits(<<c, "in">>)' /\ BufOK(Input(c), CellOf(c))
    BY <1>1, <2>1 DEF ConnInv, InputInv
  <2>5. taken'[c] <= arrived'[c] /\ arrived'[c] <= Len(Stream(c))
    BY <1>1, <1>3 DEF ConnInv, InputInv
  <2> QED
    BY <1>8, <2>2, <2>3, <2>4, <2>5 DEF InputInv
<1>10. OutputInv(c)'
  BY <1>1, <1>2, <1>7, <1>8, OutputStays DEF ConnInv
<1>11. RoomInv(c)'
  BY <1>2, NoRoomNeeded
<1> QED
  BY <1>4, <1>5, <1>6, <1>9, <1>10, <1>11, OthersSame DEF Keeps, ConnInv

LEMMA CloseStep ==
    ASSUME BufsInv, NEW c \in Conns, ReadFails(c) \/ ReadEof(c) \/ Refuse(c) \/ WriteFails(c)
    PROVE  Keeps(c)
<1>1. /\ UNCHANGED <<side, need, msg, arrived, eof, taken, got, handled,
                     replied, failed, exited>>
      /\ PoolInv /\ DataTypes /\ ConnInv(c)
      /\ at' = [at EXCEPT ![c] = "closed"]
      /\ Revert({<<c, "in">>, <<c, "out">>})
  BY DEF ReadFails, ReadEof, Refuse, WriteFails, Close, Go, job, net, log, BufsInv
<1>2. at'[c] = "closed" /\ \A d \in Conns \ {c} : at'[d] = at[d]
  BY <1>1 DEF PoolInv, IInv, OwnTypes
<1>3. {<<c, "in">>, <<c, "out">>} \in SUBSET Slots
  BY DEF Slots
<1>4. /\ MemTypes' /\ FreeClean' /\ KeepsAllBut({<<c, "in">>, <<c, "out">>})
      /\ m_buf'[<<c, "in">>] = None /\ Buf(<<c, "in">>)' = Cleared
      /\ m_buf'[<<c, "out">>] = None /\ Buf(<<c, "out">>)' = Cleared
  BY <1>1, <1>3, RevertDoes
<1>5. ~InHandler(c)' /\ ~SendingBody(c)' /\ ~Reading(c)'
  BY <1>2 DEF InHandler, SendingBody, Reading, InCall
<1>6. BufOK(Cleared, CellOf(c)) /\ Cleared.head = 0
  BY ClearedBuf
<1>7. InputInv(c)'
  BY <1>1, <1>2, <1>4, <1>5, <1>6 DEF ConnInv, InputInv, Input, Fits, DataFits
<1>8. OutputInv(c)'
  BY <1>1, <1>2, <1>4, <1>5, <1>6 DEF ConnInv, OutputInv, Output, Fits, DataFits
<1>9. RoomInv(c)'
  BY <1>2, NoRoomNeeded
<1>10. DataTypes'
  BY <1>1 DEF DataTypes
<1>11. Local(c)
  BY <1>1, <1>2 DEF Local
<1> QED
  BY <1>4, <1>7, <1>8, <1>9, <1>10, <1>11, OthersSame DEF Keeps, ConnInv

LEMMA ReadCellsDoes ==
    ASSUME BufsInv, NEW c \in Conns, ReadCells(c)
    PROVE  \E cells \in Seq(CellOf(c)) :
             /\ Len(cells) = need[c]
             /\ \A i \in 1 .. need[c] : cells[i] = Stream(c)[taken[c] + i]
             /\ MemTypes' /\ FreeClean' /\ KeepsAllBut({<<c, "in">>})
             /\ m_buf'[<<c, "in">>] = m_buf[<<c, "in">>]
             /\ BufOK(Input(c)', CellOf(c)) /\ Input(c)'.head = 0
             /\ Length(Input(c)') = Length(Input(c)) + need[c]
             /\ Valid(Input(c)') = Valid(Input(c)) \o cells
             /\ Fits(<<c, "in">>)' /\ DataFits(<<c, "in">>)'
<1>1. /\ Ready(c) /\ side[c] = "in" /\ PoolInv /\ DataTypes /\ ConnInv(c) /\ InCall(c)
      /\ UNCHANGED <<free, m_buf, side>>
  BY DEF ReadCells, BufsInv, Ready, At, InCall, job
<1>2. PICK cells : cells = SubSeq(Stream(c), taken[c] + 1, taken[c] + need[c])
  OBVIOUS
<1>3. mem' = [mem EXCEPT ![m_buf[Slot(c)]] = Filled(@, cells)]
  BY <1>2 DEF ReadCells
<1>4. /\ taken[c] \in Nat /\ need[c] \in Nat /\ arrived[c] \in Nat
      /\ taken[c] + need[c] <= arrived[c] /\ arrived[c] <= Len(Stream(c))
      /\ Input(c).head = 0 /\ BufOK(Input(c), CellOf(c))
  BY <1>1 DEF DataTypes, ConnInv, InputInv, Reading
<1>5. PICK n : n = taken[c] + need[c]
  OBVIOUS
<1>6. /\ Stream(c) \in Seq(CellOf(c)) /\ n \in Nat /\ taken[c] <= n /\ n <= Len(Stream(c))
      /\ cells = SubSeq(Stream(c), taken[c] + 1, n) /\ n - taken[c] = need[c]
  BY <1>2, <1>4, <1>5, StreamIs
<1>7. /\ cells \in Seq(CellOf(c)) /\ Len(cells) = need[c]
      /\ \A i \in 1 .. need[c] : cells[i] = Stream(c)[taken[c] + i]
  <2>1. /\ cells \in Seq(CellOf(c)) /\ Len(cells) = n - taken[c]
        /\ \A i \in 1 .. n - taken[c] : cells[i] = Stream(c)[taken[c] + i]
    <3>1. PICK s, m : s = Stream(c) /\ m = taken[c]
      OBVIOUS
    <3>2. /\ s \in Seq(CellOf(c)) /\ m \in Nat /\ n \in Nat /\ m <= n /\ n <= Len(s)
          /\ cells = SubSeq(s, m + 1, n)
      BY <1>4, <1>6, <3>1
    <3>3. /\ cells \in Seq(CellOf(c)) /\ Len(cells) = n - m
          /\ \A i \in 1 .. n - m : cells[i] = s[m + i]
      BY ONLY <3>2, PartOf
    <3> QED
      BY <3>1, <3>3
  <2> QED
    BY <1>6, <2>1
<1>8. cells \in Seq(Cell)
  BY <1>7, CellsOf, SeqMonotonic
<1>9. PICK slot : slot = <<c, "in">>
  OBVIOUS
<1>10. slot = Slot(c) /\ Want(c) = need[c] /\ slot \in Slots
  BY <1>1, <1>9, WantIs DEF Slot, Slots
<1>11. Buf(slot) = Input(c) /\ Buf(slot)' = Input(c)'
  BY <1>9 DEF Input
<1>12. PICK r : r = Filled(Input(c), cells)
  OBVIOUS
<1>13. /\ MemTypes' /\ FreeClean' /\ KeepsAllBut({slot})
       /\ Input(c)' = r
       /\ Length(r) = Length(Input(c)) + need[c]
       /\ r.head = 0
       /\ Fits(slot)' /\ DataFits(slot)'
       /\ Valid(r) = Valid(Input(c)) \o cells
  <2>1. Len(cells) = Want(c)
    BY <1>7, <1>10
  <2> QED
    BY <1>1, <1>3, <1>4, <1>8, <1>10, <1>11, <1>12, <2>1, StoreInCall
<1>14. BufOK(r, CellOf(c))
  BY <1>4, <1>7, <1>12, CellsOf, FilledBuf
<1> QED
  BY <1>1, <1>7, <1>9, <1>13, <1>14

LEMMA ReadCellsStep ==
    ASSUME BufsInv, NEW c \in Conns, ReadCells(c)
    PROVE  Keeps(c)
<1>1. /\ UNCHANGED <<free, m_buf, side, need, msg, arrived, eof, got, handled,
                     replied, failed, exited>>
      /\ PoolInv /\ DataTypes /\ ConnInv(c) /\ InCall(c) /\ side[c] = "in"
      /\ at' = [at EXCEPT ![c] = "parse"]
      /\ taken' = [taken EXCEPT ![c] = @ + need[c]]
  BY DEF ReadCells, Go, job, net, log, BufsInv, Ready, At, InCall
<1>2. /\ at'[c] = "parse" /\ taken'[c] = taken[c] + need[c]
      /\ \A d \in Conns \ {c} : at'[d] = at[d] /\ taken'[d] = taken[d]
  BY <1>1 DEF PoolInv, IInv, OwnTypes, DataTypes
<1>3. /\ taken[c] \in Nat /\ need[c] \in Nat
      /\ taken[c] + need[c] <= arrived[c] /\ arrived[c] <= Len(Stream(c))
  BY <1>1 DEF DataTypes, ConnInv, InputInv, Reading
<1>4. DataTypes'
  BY <1>1, <1>3 DEF DataTypes
<1>5. /\ MemTypes' /\ FreeClean' /\ KeepsAllBut({<<c, "in">>})
      /\ BufOK(Input(c)', CellOf(c))
      /\ Fits(<<c, "in">>)' /\ DataFits(<<c, "in">>)'
  BY ReadCellsDoes
<1>6. Local(c)
  BY <1>1, <1>2 DEF Local
<1>7. /\ ~InHandler(c)' /\ ~Reading(c)'
      /\ SendingBody(c)' = SendingBody(c)
  BY <1>1, <1>2 DEF InHandler, SendingBody, Reading, InCall
<1>8. InputInv(c)'
  BY <1>1, <1>2, <1>3, <1>5, <1>7 DEF InputInv, Input
<1>9. OutputInv(c)'
  <2>1. m_buf'[<<c, "out">>] = m_buf[<<c, "out">>] /\ Buf(<<c, "out">>)' = Buf(<<c, "out">>)
    BY <1>5 DEF KeepsAllBut, Slots
  <2> QED
    BY <1>1, <1>2, <1>7, <2>1, OutputStays DEF ConnInv, InCall
<1>10. RoomInv(c)'
  BY <1>2, NoRoomNeeded
<1> QED
  BY <1>4, <1>5, <1>6, <1>8, <1>9, <1>10, OthersSame DEF Keeps, ConnInv

\* The handler is given as many cells as the len field says, all of them read.
LEMMA HandleDoes ==
    ASSUME BufsInv, NEW c \in Conns, Handle(c)
    PROVE  \E cells \in Seq(CellOf(c)) :
             /\ msg' = [msg EXCEPT ![c] = cells]
             /\ handled' = [handled EXCEPT ![c] = Append(@, cells)]
             /\ m_buf[<<c, "in">>] # None /\ GoodHeader(c)
             /\ HeaderCell(c) = Input(c).data[DataAt(c) + 1]
             /\ HeaderCell(c)[1] \in DOMAIN Lens[c]
             /\ Len(cells) = Lens[c][HeaderCell(c)[1]]
             /\ 2 <= Len(cells) /\ Len(cells) <= Length(Input(c))
             /\ \A i \in 1 .. Len(cells) : cells[i] = Input(c).data[DataAt(c) + i]
<1>1. m_buf[<<c, "in">>] # None /\ GoodHeader(c)
  BY DEF Handle, WholeMessage, HasHeader
<1>2. Input(c) = mem[m_buf[<<c, "in">>]]
  BY <1>1 DEF Input, Buf
<1>3. PICK n : n = Lens[c][HeaderCell(c)[1]]
  OBVIOUS
<1>4. 2 <= Length(Input(c)) /\ n <= Length(Input(c))
  BY <1>2, <1>3 DEF Handle, WholeMessage, HasHeader, MESSAGE_HEADER_SIZE
<1>5. PICK data : data = Input(c).data
  OBVIOUS
<1>6. PICK from : from = DataAt(c)
  OBVIOUS
<1>7. /\ data \in Seq(CellOf(c)) /\ Len(data) \in Nat /\ Input(c).head \in Nat
      /\ Length(Input(c)) \in Nat /\ Length(Input(c)) + Input(c).head = Len(data)
  BY <1>5, InputType, BufView
<1>8. from \in Nat /\ from + Length(Input(c)) <= Len(data)
  BY <1>2, <1>6, <1>7 DEF DataAt
<1>9. HeaderCell(c) = data[from + 1]
  BY <1>2, <1>5, <1>6 DEF HeaderCell
<1>10. HeaderCell(c) \in CellOf(c)
  <2>1. from + 1 \in 1 .. Len(data)
    BY <1>4, <1>7, <1>8
  <2> QED
    BY <1>7, <1>9, <2>1, ElementOfSeq
<1>11. HeaderCell(c)[1] \in DOMAIN Lens[c] /\ n \in Nat /\ n >= 2
  BY <1>1, <1>3, <1>10, LensOf DEF CellOf, GoodHeader
<1>12. PICK cells : cells = SubSeq(data, from + 1, from + n)
  OBVIOUS
<1>13. /\ cells \in Seq(CellOf(c)) /\ Len(cells) = n
       /\ \A i \in 1 .. n : cells[i] = data[from + i]
  <2>1. PICK m : m = from + n
    OBVIOUS
  <2>2. m \in Nat /\ from <= m /\ m <= Len(data) /\ m - from = n /\ cells = SubSeq(data, from + 1, m)
    BY <1>4, <1>7, <1>8, <1>11, <1>12, <2>1
  <2>3. /\ cells \in Seq(CellOf(c)) /\ Len(cells) = m - from
        /\ \A i \in 1 .. m - from : cells[i] = data[from + i]
    BY <1>7, <1>8, <2>2, PartOf
  <2> QED
    BY <2>2, <2>3
<1>14. /\ msg' = [msg EXCEPT ![c] = cells]
       /\ handled' = [handled EXCEPT ![c] = Append(@, cells)]
  BY <1>2, <1>3, <1>5, <1>6, <1>12 DEF Handle
<1> QED
  BY <1>1, <1>3, <1>4, <1>5, <1>6, <1>9, <1>11, <1>13, <1>14

LEMMA HandleStep ==
    ASSUME BufsInv, NEW c \in Conns, Handle(c)
    PROVE  Keeps(c)
<1>1. /\ UNCHANGED <<free, mem, m_buf, need, arrived, eof, taken, got, replied, failed, exited>>
      /\ PoolInv /\ DataTypes /\ ConnInv(c) /\ at[c] = "parse"
      /\ at' = [at EXCEPT ![c] = "room"]
      /\ side' = [side EXCEPT ![c] = "head"]
  BY DEF Handle, At, Go, net, BufsInv
<1>2. PICK cells \in Seq(CellOf(c)) :
             /\ msg' = [msg EXCEPT ![c] = cells]
             /\ handled' = [handled EXCEPT ![c] = Append(@, cells)]
             /\ 2 <= Len(cells) /\ Len(cells) <= Length(Input(c))
  BY HandleDoes
<1>3. /\ at'[c] = "room" /\ side'[c] = "head" /\ msg'[c] = cells
      /\ \A d \in Conns \ {c} :
            at'[d] = at[d] /\ side'[d] = side[d] /\ msg'[d] = msg[d] /\ handled'[d] = handled[d]
  BY <1>1, <1>2 DEF PoolInv, IInv, OwnTypes, DataTypes
<1>4. DataTypes'
  <2>1. cells \in Seq(Cell)
    BY CellsOf, SeqMonotonic
  <2>2. Append(handled[c], cells) \in Seq(Seq(Cell))
    BY <1>1, <2>1, AppendProperties DEF DataTypes
  <2> QED
    BY <1>1, <1>2, <2>1, <2>2 DEF DataTypes
<1>5. MemTypes' /\ FreeClean' /\ KeepsAllBut({})
  BY <1>1, NothingMoves
<1>6. Local(c)
  BY <1>1, <1>3 DEF Local
<1>7. /\ ~Reading(c)' /\ ~SendingBody(c)' /\ ~SendingBody(c)
      /\ SendingBody(c)' = SendingBody(c)
  BY <1>1, <1>3 DEF SendingBody, Reading, InCall
<1>8. Buf(<<c, "in">>)' = Buf(<<c, "in">>) /\ Buf(<<c, "out">>)' = Buf(<<c, "out">>)
  BY <1>1 DEF Buf
<1>9. InputInv(c)'
  <2>1. Fits(<<c, "in">>)' = Fits(<<c, "in">>) /\ DataFits(<<c, "in">>)' = DataFits(<<c, "in">>)
    BY <1>1, <1>8 DEF Fits, DataFits
  <2>2. Input(c)' = Input(c)
    BY <1>8 DEF Input
  <2> QED
    BY <1>1, <1>2, <1>3, <1>7, <2>1, <2>2 DEF ConnInv, InputInv
<1>10. OutputInv(c)'
  BY <1>1, <1>3, <1>7, <1>8, OutputStays DEF ConnInv
<1>11. RoomInv(c)'
  BY <1>3, NoRoomNeeded
<1> QED
  BY <1>4, <1>5, <1>6, <1>9, <1>10, <1>11, OthersSame DEF Keeps, ConnInv

LEMMA ParseEndsDoes ==
    ASSUME BufsInv, NEW c \in Conns, ParseEnds(c)
    PROVE  /\ MemTypes' /\ FreeClean' /\ KeepsAllBut({<<c, "in">>})
           /\ m_buf'[<<c, "in">>] = m_buf[<<c, "in">>]
           /\ BufOK(Input(c)', CellOf(c)) /\ Input(c)'.head = 0
           /\ Length(Input(c)') = Length(Input(c))
           /\ Valid(Input(c)') = Valid(Input(c))
           /\ Len(Input(c)'.data) = Length(Input(c))
<1>1. PoolInv /\ UNCHANGED <<free, m_buf>> /\ <<c, "in">> \in Slots
  BY DEF ParseEnds, BufsInv, Slots
<1>2. PICK r : r = Adjusted(Input(c))
  OBVIOUS
<1>3. /\ BufOK(r, CellOf(c)) /\ BufOK(r, Cell) /\ r.head = 0
      /\ Length(r) = Length(Input(c)) /\ Valid(r) = Valid(Input(c))
      /\ Len(r.data) = Length(Input(c))
  BY <1>2, InputType, AdjustedBuf, BufView
<1>4. CASE m_buf[<<c, "in">>] = None
  <2>1. UNCHANGED mem /\ Input(c) = Cleared /\ Input(c)' = Cleared
    BY <1>1, <1>4 DEF ParseEnds, Input, Buf
  <2>2. MemTypes' /\ FreeClean' /\ KeepsAllBut({<<c, "in">>})
    BY <1>1, <2>1, NothingMoves DEF KeepsAllBut
  <2>3. BufOK(Cleared, CellOf(c)) /\ Cleared.head = 0 /\ Length(Cleared) = 0 /\ Len(Cleared.data) = 0
    BY ClearedBuf DEF Cleared
  <2> QED
    BY <1>1, <2>1, <2>2, <2>3
<1>5. CASE m_buf[<<c, "in">>] # None
  <2>1. Input(c) = mem[m_buf[<<c, "in">>]]
    BY <1>5 DEF Input, Buf
  <2>2. mem' = [mem EXCEPT ![m_buf[<<c, "in">>]] = r]
    BY <1>2, <1>5, <2>1 DEF ParseEnds
  <2>3. MemTypes' /\ FreeClean' /\ KeepsAllBut({<<c, "in">>}) /\ Buf(<<c, "in">>)' = r
    BY <1>1, <1>3, <1>5, <2>2, StoreDoes
  <2> QED
    BY <1>1, <1>3, <2>3 DEF Input
<1> QED
  BY <1>4, <1>5

LEMMA ParseEndsStep ==
    ASSUME BufsInv, NEW c \in Conns, ParseEnds(c)
    PROVE  Keeps(c)
<1>1. /\ UNCHANGED <<free, m_buf, side, need, msg, arrived, eof, taken, got, handled,
                     replied, failed, exited>>
      /\ PoolInv /\ DataTypes /\ ConnInv(c) /\ at[c] = "parse"
      /\ at' = [at EXCEPT ![c] = "poll"]
  BY DEF ParseEnds, At, Go, job, net, log, BufsInv
<1>2. /\ at'[c] = "poll" /\ \A d \in Conns \ {c} : at'[d] = at[d]
  BY <1>1 DEF PoolInv, IInv, OwnTypes
<1>3. DataTypes'
  BY <1>1 DEF DataTypes
<1>4. /\ MemTypes' /\ FreeClean' /\ KeepsAllBut({<<c, "in">>})
      /\ m_buf'[<<c, "in">>] = m_buf[<<c, "in">>]
      /\ BufOK(Input(c)', CellOf(c)) /\ Input(c)'.head = 0
      /\ Length(Input(c)') = Length(Input(c))
      /\ Len(Input(c)'.data) = Length(Input(c))
  BY ParseEndsDoes
<1>5. Local(c)
  BY <1>1, <1>2 DEF Local
<1>6. /\ ~InHandler(c)' /\ ~Reading(c)'
      /\ SendingBody(c)' = SendingBody(c)
  BY <1>1, <1>2 DEF InHandler, SendingBody, Reading, InCall
<1>7. InputInv(c)'
  <2>1. Fits(<<c, "in">>)' /\ DataFits(<<c, "in">>)'
    BY <1>1, <1>4 DEF ConnInv, InputInv, Fits, DataFits, Input
  <2> QED
    BY <1>1, <1>4, <1>6, <2>1 DEF ConnInv, InputInv
<1>8. OutputInv(c)'
  <2>1. m_buf'[<<c, "out">>] = m_buf[<<c, "out">>] /\ Buf(<<c, "out">>)' = Buf(<<c, "out">>)
    BY <1>4 DEF KeepsAllBut, Slots
  <2> QED
    BY <1>1, <1>2, <1>6, <2>1, OutputStays DEF ConnInv, InCall, SendingBody
<1>9. RoomInv(c)'
  BY <1>2, NoRoomNeeded
<1> QED
  BY <1>3, <1>4, <1>5, <1>7, <1>8, <1>9, OthersSame DEF Keeps, ConnInv

\* A buffer popped holds what it did after its first n cells.
LEMMA PopInSlot ==
    ASSUME BufsInv, NEW c \in Conns, NEW s \in {<<c, "in">>, <<c, "out">>},
           NEW S, BufOK(Buf(s), S), S \subseteq Cell, Fits(s),
           NEW n \in Nat, 0 < n, n <= Length(Buf(s)), Pop(s, n)
    PROVE  /\ MemTypes' /\ FreeClean' /\ KeepsAllBut({s})
           /\ BufOK(Buf(s)', S) /\ Fits(s)' /\ (DataFits(s) => DataFits(s)')
           /\ Length(Buf(s)') = Length(Buf(s)) - n
           /\ \A i \in 1 .. Length(Buf(s)) - n : Valid(Buf(s)')[i] = Valid(Buf(s))[n + i]
           /\ n = Length(Buf(s)) => Buf(s)'.head = 0
<1>1. s \in Slots /\ PoolInv
  BY DEF Slots, BufsInv
<1>2. Length(Buf(s)) \in Nat
  BY BufView
<1>3. m_buf[s] # None /\ m_buf[s] \in Bufs
  <2>1. Length(Cleared) = 0
    BY ClearedBuf
  <2> QED
    BY <1>1, <1>2, <2>1 DEF Buf, PoolInv, IInv, OwnTypes
<1>4. /\ MemTypes' /\ FreeClean' /\ KeepsAllBut({s})
      /\ \/ n = Length(Buf(s)) /\ m_buf'[s] = None /\ Buf(s)' = Cleared
         \/ /\ n < Length(Buf(s)) /\ m_buf'[s] = m_buf[s]
            /\ Buf(s)' = Popped(Buf(s), n)
  BY <1>1, <1>3, PopDoes
<1>5. CASE n = Length(Buf(s)) /\ m_buf'[s] = None /\ Buf(s)' = Cleared
  <2>1. BufOK(Cleared, S) /\ Length(Cleared) = 0 /\ Cleared.head = 0
    BY ClearedBuf
  <2>2. Fits(s)' /\ DataFits(s)'
    BY <1>5 DEF Fits, DataFits
  <2> QED
    BY <1>2, <1>4, <1>5, <2>1, <2>2
<1>6. CASE n < Length(Buf(s)) /\ m_buf'[s] = m_buf[s] /\ Buf(s)' = Popped(Buf(s), n)
  <2>1. /\ BufOK(Popped(Buf(s), n), S) /\ Popped(Buf(s), n).data = Buf(s).data
        /\ Length(Popped(Buf(s), n)) = Length(Buf(s)) - n
        /\ \A i \in 1 .. Length(Buf(s)) - n : Valid(Popped(Buf(s), n))[i] = Valid(Buf(s))[n + i]
    BY PoppedBuf
  <2>2. Length(Buf(s)) <= Capacity[m_buf[s]] /\ Capacity[m_buf[s]] \in Nat
    BY <1>3, CapacityAssumption DEF Fits
  <2>3. Fits(s)'
    BY <1>2, <1>6, <2>1, <2>2 DEF Fits
  <2>4. DataFits(s) => DataFits(s)'
    BY <1>6, <2>1 DEF DataFits
  <2> QED
    BY <1>2, <1>4, <1>6, <2>1, <2>3, <2>4
<1> QED
  BY <1>4, <1>5, <1>6

LEMMA PopHandledDoes ==
    ASSUME BufsInv, NEW c \in Conns, PopHandled(c)
    PROVE  /\ MemTypes' /\ FreeClean' /\ KeepsAllBut({<<c, "in">>})
           /\ BufOK(Input(c)', CellOf(c)) /\ Fits(<<c, "in">>)' /\ DataFits(<<c, "in">>)'
           /\ Len(msg[c]) \in Nat /\ 2 <= Len(msg[c]) /\ Len(msg[c]) <= Length(Input(c))
           /\ Length(Input(c)') = Length(Input(c)) - Len(msg[c])
           /\ \A i \in 1 .. Length(Input(c)) - Len(msg[c]) :
                 Valid(Input(c)')[i] = Valid(Input(c))[Len(msg[c]) + i]
           /\ Len(msg[c]) = Length(Input(c)) => Input(c)'.head = 0
<1>1. /\ PoolInv /\ DataTypes /\ ConnInv(c) /\ at[c] = "pop"
      /\ Pop(<<c, "in">>, Len(msg[c]))
  BY DEF PopHandled, At, BufsInv
<1>2. /\ Len(msg[c]) \in Nat /\ 2 <= Len(msg[c]) /\ Len(msg[c]) <= Length(Input(c))
      /\ Fits(<<c, "in">>) /\ DataFits(<<c, "in">>)
  BY <1>1, LenProperties DEF DataTypes, ConnInv, InputInv, InHandler
<1>3. BufOK(Input(c), CellOf(c)) /\ CellOf(c) \subseteq Cell
  BY InputType, CellsOf
<1>4. PICK n : n = Len(msg[c])
  OBVIOUS
<1>5. PICK s : s = <<c, "in">>
  OBVIOUS
<1>6. Buf(s) = Input(c) /\ Buf(s)' = Input(c)'
  BY <1>5 DEF Input
<1>7. /\ s \in {<<c, "in">>, <<c, "out">>} /\ n \in Nat /\ 0 < n /\ n <= Length(Buf(s))
      /\ Pop(s, n) /\ Fits(s) /\ DataFits(s) /\ BufOK(Buf(s), CellOf(c))
  BY <1>1, <1>2, <1>3, <1>4, <1>5, <1>6
<1>8. /\ MemTypes' /\ FreeClean' /\ KeepsAllBut({s})
      /\ BufOK(Buf(s)', CellOf(c)) /\ Fits(s)' /\ DataFits(s)'
      /\ Length(Buf(s)') = Length(Buf(s)) - n
      /\ \A i \in 1 .. Length(Buf(s)) - n : Valid(Buf(s)')[i] = Valid(Buf(s))[n + i]
      /\ n = Length(Buf(s)) => Buf(s)'.head = 0
  BY <1>3, <1>7, PopInSlot
<1> QED
  BY <1>2, <1>4, <1>5, <1>6, <1>8

LEMMA PopHandledStep ==
    ASSUME BufsInv, NEW c \in Conns, PopHandled(c)
    PROVE  Keeps(c)
<1>1. /\ UNCHANGED <<side, need, msg, arrived, eof, taken, got, handled,
                     replied, failed, exited>>
      /\ PoolInv /\ DataTypes /\ ConnInv(c) /\ at[c] = "pop"
      /\ at' = [at EXCEPT ![c] = "parse"]
  BY DEF PopHandled, At, Go, job, net, log, BufsInv
<1>2. /\ at'[c] = "parse" /\ \A d \in Conns \ {c} : at'[d] = at[d]
  BY <1>1 DEF PoolInv, IInv, OwnTypes
<1>3. DataTypes'
  BY <1>1 DEF DataTypes
<1>4. /\ MemTypes' /\ FreeClean' /\ KeepsAllBut({<<c, "in">>})
      /\ BufOK(Input(c)', CellOf(c)) /\ Fits(<<c, "in">>)' /\ DataFits(<<c, "in">>)'
  BY PopHandledDoes
<1>5. Local(c)
  BY <1>1, <1>2 DEF Local
<1>6. /\ ~InHandler(c)' /\ ~Reading(c)' /\ ~SendingBody(c)
      /\ SendingBody(c)' = SendingBody(c)
  BY <1>1, <1>2 DEF InHandler, SendingBody, Reading, InCall
<1>7. InputInv(c)'
  BY <1>1, <1>2, <1>4, <1>6 DEF ConnInv, InputInv
<1>8. OutputInv(c)'
  <2>1. m_buf'[<<c, "out">>] = m_buf[<<c, "out">>] /\ Buf(<<c, "out">>)' = Buf(<<c, "out">>)
    BY <1>4 DEF KeepsAllBut, Slots
  <2> QED
    BY <1>1, <1>2, <1>6, <2>1, OutputStays DEF ConnInv
<1>9. RoomInv(c)'
  BY <1>2, NoRoomNeeded
<1> QED
  BY <1>3, <1>4, <1>5, <1>7, <1>8, <1>9, OthersSame DEF Keeps, ConnInv

LEMMA Associative ==
    ASSUME NEW S, NEW q \in Seq(S)
    PROVE  \A a \in Seq(S) : \A b \in Seq(S) : a \o (b \o q) = (a \o b) \o q
<1> SUFFICES ASSUME NEW a \in Seq(S), NEW b \in Seq(S)
             PROVE  a \o (b \o q) = (a \o b) \o q
  OBVIOUS
<1>1. (a \o b) \o q = a \o (b \o q)
  BY ConcatAssociative
<1> QED
  BY <1>1

\* r, of which p is begun, is g, which is got, and v, which is held.
Balanced(r, p, g, v) == r \o p = g \o v

LEMMA AddedToBoth ==
    ASSUME NEW S, NEW g \in Seq(S), NEW v \in Seq(S), NEW r \in Seq(S), NEW p \in Seq(S),
           NEW q \in Seq(S), Balanced(r, p, g, v)
    PROVE  Balanced(r, p \o q, g, v \o q)
<1>1. r \o (p \o q) = (r \o p) \o q
  BY Associative, ZenonT(40)
<1>2. g \o (v \o q) = (g \o v) \o q
  BY Associative, ZenonT(40)
<1> QED
  BY <1>1, <1>2, Zenon DEF Balanced

\* write_data of a part of the answer
LEMMA WritePartDoes ==
    ASSUME BufsInv, NEW c \in Conns, WriteHead(c) \/ WriteBody(c)
    PROVE  /\ MemTypes' /\ FreeClean' /\ KeepsAllBut({<<c, "out">>})
           /\ Fits(<<c, "out">>)'
           /\ Length(Output(c)') = Length(Output(c)) + Want(c)
           /\ Output(c)'.head = Output(c).head
           /\ Output(c).head = 0 =>
                 /\ DataFits(<<c, "out">>)'
                 /\ Valid(Output(c)') = Valid(Output(c)) \o Part(c)
<1>1. /\ Ready(c) /\ side[c] # "in" /\ InCall(c) /\ UNCHANGED <<free, m_buf>>
      /\ mem' = [mem EXCEPT ![m_buf[Slot(c)]] = Filled(@, Part(c))]
  BY DEF WriteHead, WriteBody, Ready, At, InCall
<1>2. Part(c) \in Seq(Cell) /\ Len(Part(c)) = Want(c)
  BY <1>1, WantIs
<1>3. PICK s : s = <<c, "out">>
  OBVIOUS
<1>4. s = Slot(c) /\ Buf(s) = Output(c) /\ Buf(s)' = Output(c)'
  BY <1>1, <1>3 DEF Slot, Output
<1>5. PICK part : part = Part(c)
  OBVIOUS
<1>6. PICK r : r = Filled(Output(c), part)
  OBVIOUS
<1>7. /\ MemTypes' /\ FreeClean' /\ KeepsAllBut({s}) /\ Fits(s)'
      /\ Output(c)' = r /\ Length(r) = Length(Output(c)) + Want(c)
      /\ r.head = Output(c).head
      /\ Output(c).head = 0 =>
            DataFits(s)' /\ Valid(r) = Valid(Output(c)) \o part
  BY <1>1, <1>2, <1>4, <1>5, <1>6, StoreInCall
<1> QED
  BY <1>3, <1>5, <1>7

LEMMA WriteHeadStep ==
    ASSUME BufsInv, NEW c \in Conns, WriteHead(c)
    PROVE  Keeps(c)
<1>1. /\ UNCHANGED <<free, m_buf, need, msg, arrived, eof, taken, got, handled,
                     replied, failed, exited>>
      /\ PoolInv /\ DataTypes /\ ConnInv(c) /\ InCall(c) /\ side[c] = "head"
      /\ at' = [at EXCEPT ![c] = "room"]
      /\ side' = [side EXCEPT ![c] = "body"]
  BY DEF WriteHead, At, Go, net, log, BufsInv, Ready, InCall
<1>2. /\ at'[c] = "room" /\ side'[c] = "body"
      /\ \A d \in Conns \ {c} : at'[d] = at[d] /\ side'[d] = side[d]
  BY <1>1 DEF PoolInv, IInv, OwnTypes
<1>3. DataTypes'
  BY <1>1 DEF DataTypes
<1>4. /\ MemTypes' /\ FreeClean' /\ KeepsAllBut({<<c, "out">>})
      /\ Fits(<<c, "out">>)'
      /\ Length(Output(c)') = Length(Output(c)) + Want(c)
      /\ Output(c)'.head = Output(c).head
      /\ Output(c).head = 0 =>
            DataFits(<<c, "out">>)' /\ Valid(Output(c)') = Valid(Output(c)) \o Part(c)
  BY WritePartDoes
<1>5. PICK p : p = SubSeq(msg[c], 1, MESSAGE_HEADER_SIZE)
  OBVIOUS
<1>6. Part(c) = p /\ p \in Seq(Cell) /\ Want(c) = 2
  BY <1>1, <1>5, WantIs
<1>7. Local(c)
  BY <1>1, <1>2 DEF Local
<1>8. /\ InHandler(c) /\ ~Reading(c)' /\ ~SendingBody(c) /\ SendingBody(c)'
      /\ Begun(c) = <<>> /\ Begun(c)' = p
  BY <1>1, <1>2, <1>5 DEF InHandler, SendingBody, Reading, InCall, Begun
<1>9. InputInv(c)'
  <2>1. m_buf'[<<c, "in">>] = m_buf[<<c, "in">>] /\ Buf(<<c, "in">>)' = Buf(<<c, "in">>)
    BY <1>4 DEF KeepsAllBut, Slots
  <2> QED
    BY <1>1, <1>2, <1>8, <2>1, InputStays DEF ConnInv
<1>10. OutputInv(c)'
  <2>1. 2 <= Length(Output(c)')
    <3>1. Length(Output(c)) \in Nat
      BY InputType
    <3> QED
      BY <1>4, <1>6, <3>1
  <2>2. ~failed'[c] => Output(c)'.head = 0 /\ DataFits(<<c, "out">>)'
    BY <1>1, <1>4 DEF ConnInv, OutputInv
  <2>3. ASSUME ~failed'[c]
        PROVE  replied'[c] \o Begun(c)' = got'[c] \o Valid(Output(c)')
    <3>1. PICK v : v = Valid(Output(c))
      OBVIOUS
    <3>2. PICK g : g = got[c]
      OBVIOUS
    <3>3. PICK r : r = replied[c]
      OBVIOUS
    <3>4. /\ v \in Seq(Cell) /\ g \in Seq(Cell) /\ r \in Seq(Cell)
          /\ Valid(Output(c)') = v \o p
      BY <1>1, <1>4, <1>6, <2>3, <3>1, <3>2, <3>3, InputType, BufView
         DEF DataTypes, ConnInv, OutputInv
    <3>5. Balanced(r, <<>>, g, v)
      BY <1>1, <1>8, <2>3, <3>1, <3>2, <3>3 DEF ConnInv, OutputInv, InCall, Balanced
    <3>6. <<>> \in Seq(Cell)
      BY EmptySeq
    <3>7. Balanced(r, <<>> \o p, g, v \o p)
      BY <1>6, <3>4, <3>5, <3>6, AddedToBoth, Zenon
    <3>8. <<>> \o p = p
      BY <1>6, ConcatEmptySeq
    <3> QED
      BY <1>1, <1>8, <3>2, <3>3, <3>4, <3>7, <3>8 DEF Balanced
  <2> QED
    BY <1>4, <2>1, <2>2, <2>3 DEF OutputInv
<1>11. RoomInv(c)'
  BY <1>2, NoRoomNeeded
<1> QED
  BY <1>3, <1>4, <1>7, <1>9, <1>10, <1>11, OthersSame DEF Keeps, ConnInv

LEMMA WriteBodyStep ==
    ASSUME BufsInv, NEW c \in Conns, WriteBody(c)
    PROVE  Keeps(c)
<1>1. /\ UNCHANGED <<free, m_buf, side, need, msg, arrived, eof, taken, got, handled, failed, exited>>
      /\ PoolInv /\ DataTypes /\ ConnInv(c) /\ InCall(c) /\ side[c] = "body"
      /\ at' = [at EXCEPT ![c] = "pop"]
      /\ replied' = [replied EXCEPT ![c] = @ \o msg[c]]
  BY DEF WriteBody, At, Go, job, net, BufsInv, Ready, InCall
<1>2. /\ at'[c] = "pop" /\ replied'[c] = replied[c] \o msg[c]
      /\ \A d \in Conns \ {c} : at'[d] = at[d] /\ replied'[d] = replied[d]
  BY <1>1 DEF PoolInv, IInv, OwnTypes, DataTypes
<1>3. DataTypes'
  <2>1. replied[c] \o msg[c] \in Seq(Cell)
    BY <1>1, ConcatProperties DEF DataTypes
  <2> QED
    BY <1>1, <2>1 DEF DataTypes
<1>4. /\ MemTypes' /\ FreeClean' /\ KeepsAllBut({<<c, "out">>})
      /\ Fits(<<c, "out">>)'
      /\ Output(c)'.head = Output(c).head
      /\ Output(c).head = 0 =>
            DataFits(<<c, "out">>)' /\ Valid(Output(c)') = Valid(Output(c)) \o Part(c)
  BY WritePartDoes
<1>5. PICK p : p = SubSeq(msg[c], 1, MESSAGE_HEADER_SIZE)
  OBVIOUS
<1>6. p \in Seq(Cell) /\ Part(c) \in Seq(Cell) /\ p \o Part(c) = msg[c]
  BY <1>1, <1>5, WantIs
<1>7. Local(c)
  BY <1>1, <1>2 DEF Local
<1>8. /\ InHandler(c) /\ ~Reading(c)' /\ SendingBody(c) /\ ~SendingBody(c)'
      /\ Begun(c) = p /\ Begun(c)' = <<>>
  BY <1>1, <1>2, <1>5 DEF InHandler, SendingBody, Reading, InCall, Begun
<1>9. InputInv(c)'
  <2>1. m_buf'[<<c, "in">>] = m_buf[<<c, "in">>] /\ Buf(<<c, "in">>)' = Buf(<<c, "in">>)
    BY <1>4 DEF KeepsAllBut, Slots
  <2> QED
    BY <1>1, <1>2, <1>8, <2>1, InputStays DEF ConnInv
<1>10. OutputInv(c)'
  <2>1. ~failed'[c] => Output(c)'.head = 0 /\ DataFits(<<c, "out">>)'
    BY <1>1, <1>4 DEF ConnInv, OutputInv
  <2>2. ASSUME ~failed'[c]
        PROVE  replied'[c] \o Begun(c)' = got'[c] \o Valid(Output(c)')
    <3>1. PICK v : v = Valid(Output(c))
      OBVIOUS
    <3>2. PICK g : g = got[c]
      OBVIOUS
    <3>3. PICK r : r = replied[c]
      OBVIOUS
    <3>4. PICK q : q = Part(c)
      OBVIOUS
    <3>5. /\ v \in Seq(Cell) /\ g \in Seq(Cell) /\ r \in Seq(Cell)
          /\ q \in Seq(Cell) /\ p \o q = msg[c]
          /\ Valid(Output(c)') = v \o q
      BY <1>1, <1>4, <1>6, <2>2, <3>1, <3>2, <3>3, <3>4, InputType, BufView
         DEF DataTypes, ConnInv, OutputInv
    <3>6. Balanced(r, p, g, v)
      BY <1>1, <1>8, <2>2, <3>1, <3>2, <3>3 DEF ConnInv, OutputInv, InCall, Balanced
    <3>7. Balanced(r, p \o q, g, v \o q)
      BY <1>6, <3>5, <3>6, AddedToBoth, Zenon
    <3>8. replied'[c] \in Seq(Cell)
      BY <1>3 DEF DataTypes
    <3>9. replied'[c] \o <<>> = replied'[c]
      BY <3>8, ConcatEmptySeq
    <3> QED
      BY <1>1, <1>2, <1>8, <3>2, <3>3, <3>5, <3>7, <3>9 DEF Balanced
  <2> QED
    BY <1>4, <1>8, <2>1, <2>2 DEF OutputInv
<1>11. RoomInv(c)'
  BY <1>2, NoRoomNeeded
<1> QED
  BY <1>3, <1>4, <1>7, <1>9, <1>10, <1>11, OthersSame DEF Keeps, ConnInv

LEMMA HeadFailsStep ==
    ASSUME BufsInv, NEW c \in Conns, HeadFails(c)
    PROVE  Keeps(c)
<1>1. /\ UNCHANGED <<free, mem, m_buf, side, need, msg, arrived, eof, taken, got, handled,
                     replied, exited>>
      /\ PoolInv /\ DataTypes /\ ConnInv(c) /\ at[c] = "room" /\ side[c] = "head"
      /\ at' = [at EXCEPT ![c] = "pop"]
      /\ failed' = [failed EXCEPT ![c] = TRUE]
  BY DEF HeadFails, NoClass, At, Go, job, net, BufsInv
<1>2. /\ at'[c] = "pop" /\ failed'[c] = TRUE
      /\ \A d \in Conns \ {c} : at'[d] = at[d] /\ failed'[d] = failed[d]
  BY <1>1 DEF PoolInv, IInv, OwnTypes, DataTypes
<1>3. DataTypes'
  BY <1>1 DEF DataTypes
<1>4. MemTypes' /\ FreeClean' /\ KeepsAllBut({})
  BY <1>1, NothingMoves
<1>5. Local(c)
  BY <1>1, <1>2 DEF Local
<1>6. InHandler(c) /\ ~Reading(c)' /\ ~SendingBody(c)'
  BY <1>1, <1>2 DEF InHandler, SendingBody, Reading, InCall
<1>7. Buf(<<c, "in">>)' = Buf(<<c, "in">>) /\ Buf(<<c, "out">>)' = Buf(<<c, "out">>)
  BY <1>1 DEF Buf
<1>8. InputInv(c)'
  BY <1>1, <1>2, <1>6, <1>7, InputStays DEF ConnInv
<1>9. OutputInv(c)'
  <2>1. Fits(<<c, "out">>)'
    BY <1>1, <1>7 DEF ConnInv, OutputInv, Fits
  <2> QED
    BY <1>2, <1>6, <2>1 DEF OutputInv
<1>10. RoomInv(c)'
  BY <1>2, NoRoomNeeded
<1> QED
  BY <1>3, <1>4, <1>5, <1>8, <1>9, <1>10, OthersSame DEF Keeps, ConnInv

LEMMA BodyFailsDoes ==
    ASSUME BufsInv, NEW c \in Conns, BodyFails(c)
    PROVE  /\ MemTypes' /\ FreeClean' /\ KeepsAllBut({<<c, "out">>})
           /\ Fits(<<c, "out">>)'
           /\ 2 <= Length(Output(c)) /\ Length(Output(c)') = Length(Output(c)) - 2
<1>1. /\ PoolInv /\ DataTypes /\ ConnInv(c) /\ InCall(c) /\ side[c] = "body"
      /\ Pop(<<c, "out">>, 2)
  BY DEF BodyFails, NoClass, At, BufsInv, InCall, Slot, MESSAGE_HEADER_SIZE
<1>2. 2 <= Length(Output(c)) /\ Fits(<<c, "out">>) /\ BufOK(Output(c), Cell)
  BY <1>1, InputType DEF ConnInv, OutputInv, SendingBody
<1>3. PICK s : s = <<c, "out">>
  OBVIOUS
<1>4. /\ Buf(s) = Output(c) /\ Buf(s)' = Output(c)' /\ s \in {<<c, "in">>, <<c, "out">>}
      /\ 2 \in Nat /\ 0 < 2 /\ 2 <= Length(Buf(s)) /\ Pop(s, 2) /\ Fits(s) /\ BufOK(Buf(s), Cell)
  BY <1>1, <1>2, <1>3 DEF Output
<1>5. /\ MemTypes' /\ FreeClean' /\ KeepsAllBut({s}) /\ Fits(s)'
      /\ Length(Buf(s)') = Length(Buf(s)) - 2
  BY <1>4, PopInSlot
<1> QED
  BY <1>2, <1>3, <1>4, <1>5

LEMMA BodyFailsStep ==
    ASSUME BufsInv, NEW c \in Conns, BodyFails(c)
    PROVE  Keeps(c)
<1>1. /\ UNCHANGED <<side, need, msg, arrived, eof, taken, got, handled, replied, exited>>
      /\ PoolInv /\ DataTypes /\ ConnInv(c) /\ at[c] = "room" /\ side[c] = "body"
      /\ at' = [at EXCEPT ![c] = "pop"]
      /\ failed' = [failed EXCEPT ![c] = TRUE]
  BY DEF BodyFails, NoClass, At, Go, job, net, BufsInv
<1>2. /\ at'[c] = "pop" /\ failed'[c] = TRUE
      /\ \A d \in Conns \ {c} : at'[d] = at[d] /\ failed'[d] = failed[d]
  BY <1>1 DEF PoolInv, IInv, OwnTypes, DataTypes
<1>3. DataTypes'
  BY <1>1 DEF DataTypes
<1>4. /\ MemTypes' /\ FreeClean' /\ KeepsAllBut({<<c, "out">>}) /\ Fits(<<c, "out">>)'
  BY BodyFailsDoes
<1>5. Local(c)
  BY <1>1, <1>2 DEF Local
<1>6. InHandler(c) /\ ~Reading(c)' /\ ~SendingBody(c)'
  BY <1>1, <1>2 DEF InHandler, SendingBody, Reading, InCall
<1>7. InputInv(c)'
  <2>1. m_buf'[<<c, "in">>] = m_buf[<<c, "in">>] /\ Buf(<<c, "in">>)' = Buf(<<c, "in">>)
    BY <1>4 DEF KeepsAllBut, Slots
  <2> QED
    BY <1>1, <1>2, <1>6, <2>1, InputStays DEF ConnInv
<1>8. OutputInv(c)'
  BY <1>2, <1>4, <1>6 DEF OutputInv
<1>9. RoomInv(c)'
  BY <1>2, NoRoomNeeded
<1> QED
  BY <1>3, <1>4, <1>5, <1>7, <1>8, <1>9, OthersSame DEF Keeps, ConnInv

\* write2fd passes on the front of what m_obuf holds.
LEMMA WriteDoes ==
    ASSUME BufsInv, NEW c \in Conns, Write(c)
    PROVE  \E n \in Nat, cells \in Seq(Cell), rest \in Seq(Cell) :
             /\ 0 < n /\ n <= Length(Output(c)) /\ Len(cells) = n
             /\ Valid(Output(c)) = cells \o rest
             /\ got' = [got EXCEPT ![c] = @ \o cells]
             /\ MemTypes' /\ FreeClean' /\ KeepsAllBut({<<c, "out">>})
             /\ Valid(Output(c)') = rest /\ Output(c)'.head = 0
             /\ Length(Output(c)') = Length(Output(c)) - n
             /\ Fits(<<c, "out">>)' /\ DataFits(<<c, "out">>)'
<1>1. PICK s : s = <<c, "out">>
  OBVIOUS
<1>2. s \in Slots /\ m_buf[s] # None /\ PoolInv /\ UNCHANGED <<free, m_buf>> /\ Fits(s)
  BY <1>1 DEF Write, Slots, BufsInv, ConnInv, OutputInv
<1>3. PICK o : o = Output(c)
  OBVIOUS
<1>4. /\ o = mem[m_buf[s]] /\ o.head = 0 /\ BufOK(o, Cell) /\ m_buf[s] \in Bufs
      /\ o = Buf(s)
  BY <1>1, <1>2, <1>3, InputType DEF Write, Output, Buf, PoolInv, IInv, OwnTypes
<1>5. PICK n \in 1 .. Length(o) :
         /\ got' = [got EXCEPT ![c] = @ \o SubSeq(o.data, 1, n)]
         /\ mem' = [mem EXCEPT ![m_buf[s]] = Written(o, n)]
  BY <1>1, <1>4 DEF Write
<1>6. /\ o.data \in Seq(Cell) /\ Length(o) \in Nat /\ Length(o) = Len(o.data)
      /\ Valid(o) = o.data /\ n \in Nat /\ n <= Length(o) /\ n <= Len(o.data)
  BY <1>4, BufView
<1>7. PICK p : p = Popped(o, n)
  OBVIOUS
<1>8. BufOK(p, Cell) /\ Length(p) = Length(o) - n /\ Valid(p) = SubSeq(o.data, n + 1, Len(o.data))
  BY <1>4, <1>6, <1>7, PoppedBuf
<1>9. PICK r : r = Adjusted(p)
  OBVIOUS
<1>10. /\ BufOK(r, Cell) /\ r.head = 0 /\ Length(r) = Length(o) - n /\ Valid(r) = Valid(p)
       /\ Len(r.data) = Length(r) /\ Valid(r) \in Seq(Cell)
  BY <1>8, <1>9, AdjustedBuf, BufView
<1>11. mem' = [mem EXCEPT ![m_buf[s]] = r]
  BY <1>5, <1>7, <1>9 DEF Written
<1>12. MemTypes' /\ FreeClean' /\ KeepsAllBut({s}) /\ Buf(s)' = r
  BY <1>2, <1>10, <1>11, StoreDoes
<1>13. Fits(s)' /\ DataFits(s)'
  <2>1. Length(o) <= Capacity[m_buf[s]] /\ Capacity[m_buf[s]] \in Nat
    BY <1>2, <1>4, CapacityAssumption DEF Fits
  <2> QED
    BY <1>2, <1>6, <1>10, <1>12, <2>1 DEF Fits, DataFits
<1>14. PICK cells : cells = SubSeq(o.data, 1, n)
  OBVIOUS
<1>15. cells \in Seq(Cell) /\ Len(cells) = n
  <2>1. 0 \in Nat /\ 0 <= n /\ cells = SubSeq(o.data, 0 + 1, n)
    BY <1>6, <1>14
  <2>2. cells \in Seq(Cell) /\ Len(cells) = n - 0
    BY <1>6, <2>1, PartOf
  <2> QED
    BY <1>6, <2>2
<1>16. PICK rest : rest = Valid(r)
  OBVIOUS
<1>17. Valid(o) = cells \o rest
  <2>1. PICK k : k = Len(o.data)
    OBVIOUS
  <2>2. /\ 1 \in 1 .. Len(o.data) + 1 /\ n \in 1 - 1 .. Len(o.data) /\ k \in n .. Len(o.data)
        /\ rest = SubSeq(o.data, n + 1, k)
    BY <1>6, <1>8, <1>10, <1>16, <2>1
  <2>3. SubSeq(o.data, 1, n) \o SubSeq(o.data, n + 1, k) = SubSeq(o.data, 1, k)
    BY <1>6, <2>2, ConcatAdjacentSubSeq
  <2>4. SubSeq(o.data, 1, k) = o.data
    BY <1>6, <2>1, SubSeqFull
  <2> QED
    BY <1>6, <1>14, <2>2, <2>3, <2>4
<1>18. Output(c)' = r
  BY <1>1, <1>12 DEF Output
<1>19. rest \in Seq(Cell) /\ n \in Nat /\ cells \in Seq(Cell)
  BY <1>6, <1>10, <1>15, <1>16
<1>20. got' = [got EXCEPT ![c] = @ \o cells]
  BY <1>5, <1>14
<1>21. 0 < n /\ n <= Length(Output(c)) /\ Valid(Output(c)) = cells \o rest
  BY <1>3, <1>6, <1>17
<1>22. /\ Valid(Output(c)') = rest /\ Output(c)'.head = 0
       /\ Length(Output(c)') = Length(Output(c)) - n
  BY <1>3, <1>10, <1>16, <1>18
<1> USE <1>19
<1> WITNESS n \in Nat, cells \in Seq(Cell), rest \in Seq(Cell)
<1> QED
  BY <1>1, <1>12, <1>13, <1>15, <1>20, <1>21, <1>22

LEMMA WriteStep ==
    ASSUME BufsInv, NEW c \in Conns, Write(c)
    PROVE  Keeps(c)
<1>1. /\ UNCHANGED <<m_buf, at, side, need, msg, arrived, eof, taken, handled,
                     replied, failed, exited>>
      /\ PoolInv /\ DataTypes /\ ConnInv(c) /\ at[c] = "poll"
  BY DEF Write, At, job, net, BufsInv
<1>2. PICK n \in Nat, cells \in Seq(Cell), rest \in Seq(Cell) :
             /\ 0 < n /\ n <= Length(Output(c)) /\ Len(cells) = n
             /\ Valid(Output(c)) = cells \o rest
             /\ got' = [got EXCEPT ![c] = @ \o cells]
             /\ MemTypes' /\ FreeClean' /\ KeepsAllBut({<<c, "out">>})
             /\ Valid(Output(c)') = rest /\ Output(c)'.head = 0
             /\ Fits(<<c, "out">>)' /\ DataFits(<<c, "out">>)'
  BY WriteDoes
<1>3. got[c] \in Seq(Cell) /\ replied[c] \in Seq(Cell)
  BY <1>1 DEF DataTypes
<1>4. got'[c] = got[c] \o cells /\ \A d \in Conns \ {c} : got'[d] = got[d]
  BY <1>1, <1>2 DEF DataTypes
<1>5. DataTypes'
  <2>1. got[c] \o cells \in Seq(Cell)
    BY <1>3, ConcatProperties
  <2> QED
    BY <1>1, <1>2, <2>1 DEF DataTypes
<1>6. Local(c)
  BY <1>1, <1>4 DEF Local
<1>7. /\ ~SendingBody(c)' /\ Begun(c) = <<>> /\ Begun(c)' = <<>>
      /\ Reading(c)' = Reading(c) /\ InHandler(c)' = InHandler(c)
  BY <1>1 DEF InHandler, SendingBody, Reading, InCall, Begun
<1>8. InputInv(c)'
  <2>1. m_buf'[<<c, "in">>] = m_buf[<<c, "in">>] /\ Buf(<<c, "in">>)' = Buf(<<c, "in">>)
    BY <1>2 DEF KeepsAllBut, Slots
  <2> QED
    BY <1>1, <1>7, <2>1, InputStays DEF ConnInv
<1>9. OutputInv(c)'
  <2>1. ASSUME ~failed'[c]
        PROVE  replied'[c] \o Begun(c)' = got'[c] \o Valid(Output(c)')
    <3>1. PICK g : g = got[c]
      OBVIOUS
    <3>2. PICK r : r = replied[c]
      OBVIOUS
    <3>3. r \o <<>> = g \o (cells \o rest)
      BY <1>1, <1>2, <1>7, <2>1, <3>1, <3>2 DEF ConnInv, OutputInv
    <3>4. g \o (cells \o rest) = (g \o cells) \o rest
      <4>1. g \in Seq(Cell)
        BY <1>3, <3>1
      <4> QED
        BY <4>1, Associative, Zenon
    <3> QED
      BY <1>1, <1>2, <1>4, <1>7, <3>1, <3>2, <3>3, <3>4
  <2> QED
    BY <1>2, <1>7, <2>1 DEF OutputInv
<1>10. RoomInv(c)'
  BY <1>1, NoRoomNeeded
<1> QED
  BY <1>2, <1>5, <1>6, <1>8, <1>9, <1>10, OthersSame DEF Keeps, ConnInv

------------------------------------------------------------------------------
(* The invariant of all connections, and what follows from it.             *)

LEMMA InitBufsInv == Init => BufsInv
<1> SUFFICES ASSUME Init PROVE BufsInv
  OBVIOUS
<1> USE NoneAssumption DEF Init
<1>1. /\ BufOK(Cleared, Cell) /\ Cleared.head = 0 /\ Valid(Cleared) = <<>> /\ Length(Cleared) = 0
      /\ Cleared \in [data : Seq(Cell), head : Nat]
  BY ClearedBuf DEF BufOK
<1>2. \A s \in Slots : m_buf[s] = None /\ Buf(s) = Cleared
  BY DEF Buf
<1>3. PoolInv
  BY <1>1, InitIInv DEF PoolInv, MemTypes, FreeClean
<1>4. <<>> \in Seq(Cell) /\ <<>> \in Seq(Seq(Cell))
  BY EmptySeq
<1>5. DataTypes
  BY <1>4 DEF DataTypes
<1>6. ASSUME NEW c \in Conns
      PROVE  ConnInv(c)
  <2>1. <<c, "in">> \in Slots /\ <<c, "out">> \in Slots
    BY DEF Slots
  <2>2. BufOK(Cleared, CellOf(c)) /\ Len(Stream(c)) \in Nat
    BY ClearedBuf, StreamIs
  <2>3. ~InHandler(c) /\ ~Reading(c) /\ ~SendingBody(c) /\ Begun(c) = <<>>
    BY DEF InHandler, Reading, SendingBody, InCall, Begun
  <2>4. InputInv(c)
    BY <1>1, <1>2, <2>1, <2>2, <2>3 DEF InputInv, Input, Fits, DataFits
  <2>5. OutputInv(c)
    BY <1>1, <1>2, <2>1, <2>3 DEF OutputInv, Output, Fits, DataFits
  <2>6. RoomInv(c)
    BY DEF RoomInv
  <2> QED
    BY <2>4, <2>5, <2>6 DEF ConnInv
<1> QED
  BY <1>3, <1>5, <1>6 DEF BufsInv

\* What a connection may do in a step.
Step(c) ==
    \/ Arrive(c) \/ PeerCloses(c)
    \/ Room(c) \/ HandleRead(c)
    \/ Send(c) \/ Write(c) \/ WriteFails(c) \/ WriteAborts(c)

LEMMA StepKeeps ==
    ASSUME BufsInv, NEW c \in Conns, Step(c)
    PROVE  Keeps(c)
<1>1. CASE Arrive(c) \/ PeerCloses(c)
  BY <1>1, ArriveStep
<1>2. CASE Room(c)
  BY <1>2, AllocFirstStep, AllocMoreStep, SwapStep, StopStep DEF Room
<1>3. CASE HandleRead(c)
  BY <1>3, ReadableStep, CloseStep, ReadCellsStep, HandleStep, PopHandledStep, ParseEndsStep
     DEF HandleRead
<1>4. CASE Send(c)
  BY <1>4, WriteHeadStep, WriteBodyStep, HeadFailsStep, BodyFailsStep DEF Send
<1>5. CASE Write(c) \/ WriteFails(c) \/ WriteAborts(c)
  BY <1>5, WriteStep, CloseStep, StopStep
<1> QED
  BY <1>1, <1>2, <1>3, <1>4, <1>5 DEF Step

LEMMA NextBufsInv == BufsInv /\ [Next]_vars => BufsInv'
<1> SUFFICES ASSUME BufsInv, [Next]_vars PROVE BufsInv'
  OBVIOUS
<1>1. IInv'
  BY NextIInv DEF BufsInv, PoolInv
<1>2. CASE UNCHANGED vars
  <2>1. /\ UNCHANGED <<free, mem, m_buf, at, side, need, msg, arrived, eof, taken, got, handled,
                       replied, failed, exited>>
        /\ PoolInv /\ DataTypes
    BY <1>2 DEF vars, job, net, log, BufsInv
  <2>2. MemTypes' /\ FreeClean'
    BY <2>1, NothingMoves
  <2>3. DataTypes'
    BY <2>1 DEF DataTypes
  <2>4. \A c \in Conns : Same(c)
    BY <2>1 DEF Same, Buf
  <2>5. \A c \in Conns : ConnInv(c)'
    BY <2>4, SameKeeps DEF BufsInv
  <2> QED
    BY <1>1, <2>2, <2>3, <2>5 DEF BufsInv, PoolInv
<1>3. CASE Next
  <2>1. PICK c \in Conns : Step(c)
    BY <1>3 DEF Next, Step
  <2>2. Keeps(c)
    BY <2>1, StepKeeps
  <2>3. \A d \in Conns : ConnInv(d)'
    BY <2>2, SameKeeps DEF Keeps, BufsInv
  <2> QED
    BY <1>1, <2>2, <2>3 DEF BufsInv, PoolInv, Keeps
<1> QED
  BY <1>2, <1>3

LEMMA BufsInvHolds == Spec => []BufsInv
BY InitBufsInv, NextBufsInv, PTL DEF Spec

\* m_head never passes the end of the data, and no more is read than has come,
\* however reads, sends and closes interleave and fail.
THEOREM TypesCorrect == Spec => []TypeOK
<1>1. ASSUME BufsInv PROVE TypeOK
  <2>1. /\ OwnTypes /\ MemTypes /\ DataTypes /\ \A c \in Conns : InputInv(c)
    BY <1>1 DEF BufsInv, PoolInv, IInv, ConnInv
  <2>2. \A b \in Bufs : mem[b].head \in 0 .. Len(mem[b].data)
    <3> SUFFICES ASSUME NEW b \in Bufs PROVE mem[b].head \in 0 .. Len(mem[b].data)
      OBVIOUS
    <3>1. BufOK(mem[b], Cell)
      BY <2>1 DEF MemTypes
    <3>2. mem[b].head \in Nat /\ Len(mem[b].data) \in Nat /\ mem[b].head <= Len(mem[b].data)
      BY <3>1, BufView DEF BufOK
    <3> QED
      BY <3>2
  <2>3. ASSUME NEW c \in Conns PROVE 0 <= taken[c] /\ taken[c] <= arrived[c]
    <3>1. taken[c] \in Nat
      BY <2>1 DEF DataTypes
    <3>2. taken[c] <= arrived[c]
      BY <2>1 DEF InputInv
    <3> QED
      BY <3>1, <3>2
  <2> QED
    BY <2>1, <2>2, <2>3 DEF TypeOK, OwnTypes, DataTypes, Places
<1> QED
  BY <1>1, BufsInvHolds, PTL

\* Nothing read or sent is stored past the end of an io_buf; only the m_obuf of
\* a connection on which a send has failed may hold data that run past it.
THEOREM WithinCapacityCorrect == Spec => []WithinCapacity
<1>1. ASSUME BufsInv PROVE WithinCapacity
  <2> SUFFICES ASSUME NEW s \in Slots, m_buf[s] # None
               PROVE  /\ Length(mem[m_buf[s]]) <= Capacity[m_buf[s]]
                      /\ (s[2] = "out" => ~failed[s[1]]) =>
                            Len(mem[m_buf[s]].data) <= Capacity[m_buf[s]]
    BY DEF WithinCapacity
  <2>1. PICK c \in Conns, x \in {"in", "out", "new"} : s = <<c, x>>
    BY DEF Slots
  <2>2. Buf(s) = mem[m_buf[s]] /\ ConnInv(c) /\ s[1] = c /\ s[2] = x
    BY <1>1, <2>1 DEF Buf, BufsInv
  <2>3. CASE x = "in"
    BY <2>1, <2>2, <2>3 DEF ConnInv, InputInv, Fits, DataFits
  <2>4. CASE x = "out"
    BY <2>1, <2>2, <2>4 DEF ConnInv, OutputInv, Fits, DataFits
  <2>5. CASE x = "new"
    <3>1. at[c] = "swap" /\ m_buf[s] \in Bufs
      BY <1>1, <2>1, <2>5 DEF BufsInv, PoolInv, IInv, OwnTypes, NewBufIsLocal
    <3>2. PICK r : r = Buf(s)
      OBVIOUS
    <3>3. PICK o : o = Buf(Slot(c))
      OBVIOUS
    <3>4. r = Adjusted(o) /\ Capacity[m_buf[s]] >= Length(r) + Want(c)
      BY <2>1, <2>2, <2>5, <3>1, <3>2, <3>3 DEF ConnInv, RoomInv
    <3>5. BufOK(o, Cell)
      BY <1>1, <3>3, BufType, SlotIsSlot DEF BufsInv
    <3>6. Length(r) \in Nat /\ Len(r.data) = Length(r)
      BY <3>4, <3>5, AdjustedBuf, BufView
    <3>7. Want(c) \in Nat /\ Capacity[m_buf[s]] \in Nat
      BY <1>1, <3>1, WantIs, CapacityAssumption DEF InCall
    <3> QED
      BY <2>2, <3>2, <3>4, <3>6, <3>7
  <2> QED
    BY <2>3, <2>4, <2>5
<1> QED
  BY <1>1, BufsInvHolds, PTL

\* What a peer has got and what m_obuf holds are together the answers in the
\* order of the send() calls, until one of them finds no buffer.
THEOREM RepliesInOrderCorrect == Spec => []RepliesInOrder
<1>1. ASSUME BufsInv PROVE RepliesInOrder
  <2> SUFFICES ASSUME NEW c \in Conns, at[c] # "closed" /\ ~failed[c]
               PROVE  LET b == m_buf[<<c, "out">>]
                          begun == IF at[c] \in {"room", "swap", "fill"} /\ side[c] = "body"
                                      THEN SubSeq(msg[c], 1, MESSAGE_HEADER_SIZE)
                                      ELSE <<>>
                      IN  replied[c] \o begun
                              = got[c] \o (IF b = None THEN <<>> ELSE Valid(mem[b]))
    BY DEF RepliesInOrder
  <2>1. replied[c] \o Begun(c) = got[c] \o Valid(Output(c))
    BY <1>1 DEF BufsInv, ConnInv, OutputInv
  <2>2. Valid(Output(c)) = IF m_buf[<<c, "out">>] = None THEN <<>>
                                                        ELSE Valid(mem[m_buf[<<c, "out">>]])
    BY ClearedBuf DEF Output, Buf
  <2> QED
    BY <2>1, <2>2 DEF Begun, SendingBody, InCall
<1> QED
  BY <1>1, BufsInvHolds, PTL

------------------------------------------------------------------------------
(* Where a connection is in the stream of its peer.                        *)

\* the messages whose cells have been popped
Done(c) == IF InHandler(c) THEN Len(handled[c]) - 1 ELSE Len(handled[c])

\* how much of the answer to the current message m_obuf may hold
Sending(c) == IF SendingBody(c) THEN 2 ELSE IF at[c] = "pop" THEN Len(msg[c]) ELSE 0

\* the message at the front of m_ibuf is there from end to end
Whole(c) ==
    /\ 2 <= Length(Input(c))
    /\ Valid(Input(c))[1][2] = 1
    /\ Lens[c][Valid(Input(c))[1][1]] <= MaxMsg
    /\ Lens[c][Valid(Input(c))[1][1]] <= Length(Input(c))

LogInv(c) ==
    /\ Len(handled[c]) <= Len(Lens[c])
    /\ \A i \in 1 .. Len(handled[c]) : handled[c][i] = Message(c, i)

\* m_ibuf continues the stream where the messages done end.
HeldInv(c) ==
    /\ InHandler(c) => 1 <= Len(handled[c]) /\ msg[c] = Message(c, Len(handled[c]))
    /\ at[c] # "closed" =>
          /\ End(c, Done(c)) + Length(Input(c)) = taken[c]
          /\ \A i \in 1 .. Length(Input(c)) :
                Valid(Input(c))[i] = Stream(c)[End(c, Done(c)) + i]

\* A peer that waits has sent no more than the message that comes next.
WaitInv(c) ==
    c \notin Pipelined /\ at[c] # "closed" =>
        /\ Done(c) < Len(Lens[c]) => arrived[c] <= End(c, Done(c) + 1)
        /\ Len(got[c]) <= End(c, Done(c))
        /\ Len(got[c]) + Length(Output(c)) <= End(c, Done(c)) + Sending(c)

\* so that for tcp_conn `data` is where the valid data begin
FrontInv(c) == c \notin Refetch /\ at[c] # "closed" => Input(c).head = 0

RestInv(c) == at[c] = "poll" => ~Whole(c)

StreamInv(c) == LogInv(c) /\ HeldInv(c) /\ WaitInv(c) /\ FrontInv(c) /\ RestInv(c)

FrameInv == BufsInv /\ \A c \in Conns : StreamInv(c)

LEMMA SameStream ==
    ASSUME NEW d \in Conns, StreamInv(d), Same(d)
    PROVE  StreamInv(d)'
<1>1. /\ at'[d] = at[d] /\ side'[d] = side[d] /\ msg'[d] = msg[d]
      /\ arrived'[d] = arrived[d] /\ taken'[d] = taken[d]
      /\ got'[d] = got[d] /\ handled'[d] = handled[d]
      /\ Input(d)' = Input(d) /\ Output(d)' = Output(d)
  BY DEF Same, Input, Output
<1>2. InHandler(d)' = InHandler(d) /\ SendingBody(d)' = SendingBody(d)
  BY <1>1 DEF InHandler, SendingBody, InCall
<1>3. Done(d)' = Done(d) /\ Sending(d)' = Sending(d) /\ Whole(d)' = Whole(d)
  BY <1>1, <1>2 DEF Done, Sending, Whole
<1> QED
  BY <1>1, <1>2, <1>3 DEF StreamInv, LogInv, HeldInv, WaitInv, FrontInv, RestInv

LEMMA PlaceIs ==
    ASSUME BufsInv, NEW c \in Conns, StreamInv(c)
    PROVE  /\ Len(handled[c]) \in Nat /\ Len(got[c]) \in Nat /\ Len(Lens[c]) \in Nat
           /\ Done(c) \in 0 .. Len(Lens[c]) /\ End(c, Done(c)) \in Nat
           /\ ~InHandler(c) => Done(c) = Len(handled[c])
           /\ InHandler(c) =>
                 /\ Done(c) + 1 = Len(handled[c]) /\ Done(c) < Len(Lens[c])
                 /\ Done(c) \in 0 .. Len(Lens[c]) - 1
                 /\ msg[c] = Message(c, Done(c) + 1)
                 /\ Len(msg[c]) \in Nat
                 /\ End(c, Done(c) + 1) = End(c, Done(c)) + Len(msg[c])
<1>1. /\ handled[c] \in Seq(Seq(Cell)) /\ got[c] \in Seq(Cell)
      /\ LogInv(c) /\ HeldInv(c)
  BY DEF BufsInv, DataTypes, StreamInv
<1>2. Len(handled[c]) \in Nat /\ Len(got[c]) \in Nat /\ Len(Lens[c]) \in Nat
  BY <1>1, LenProperties, LensOf
<1>3. CASE ~InHandler(c)
  <2>1. Done(c) = Len(handled[c]) /\ Done(c) \in 0 .. Len(Lens[c])
    BY <1>1, <1>2, <1>3 DEF Done, LogInv
  <2> QED
    BY <1>2, <1>3, <2>1, MessagesType
<1>4. CASE InHandler(c)
  <2>1. /\ Done(c) + 1 = Len(handled[c]) /\ Done(c) < Len(Lens[c])
        /\ Done(c) \in 0 .. Len(Lens[c]) - 1 /\ Done(c) \in 0 .. Len(Lens[c])
        /\ Done(c) + 1 \in 1 .. Len(Lens[c])
    BY <1>1, <1>2, <1>4 DEF Done, LogInv, HeldInv
  <2>2. msg[c] = Message(c, Done(c) + 1)
    BY <1>1, <1>4, <2>1 DEF HeldInv
  <2>3. End(c, Done(c) + 1) = End(c, Done(c)) + OnWire(c, Done(c) + 1)
    BY <2>1, MessagesStep
  <2>4. Len(Message(c, Done(c) + 1)) = OnWire(c, Done(c) + 1) /\ OnWire(c, Done(c) + 1) \in Nat
    BY <2>1, MessageIs
  <2> QED
    BY <1>2, <1>4, <2>1, <2>2, <2>3, <2>4, MessagesType
<1> QED
  BY <1>3, <1>4

\* A step that leaves what is read and handled leaves its place in the stream.
LEMMA HeldStays ==
    ASSUME NEW c \in Conns, StreamInv(c),
           handled'[c] = handled[c], msg'[c] = msg[c], taken'[c] = taken[c],
           at[c] # "closed", InHandler(c)' = InHandler(c),
           Length(Input(c)') = Length(Input(c)), Valid(Input(c)') = Valid(Input(c)),
           Input(c)'.head = Input(c).head \/ Input(c)'.head = 0
    PROVE  LogInv(c)' /\ HeldInv(c)' /\ FrontInv(c)' /\ Done(c)' = Done(c)
<1>1. Done(c)' = Done(c)
  BY DEF Done
<1>2. LogInv(c)' /\ FrontInv(c)'
  BY DEF StreamInv, LogInv, FrontInv
<1>3. HeldInv(c)'
  BY <1>1 DEF StreamInv, HeldInv
<1> QED
  BY <1>1, <1>2, <1>3

LEMMA WaitStays ==
    ASSUME NEW c \in Conns, StreamInv(c), Done(c)' = Done(c), at[c] # "closed",
           arrived'[c] = arrived[c], got'[c] = got[c],
           Length(Output(c)') = Length(Output(c)), Sending(c)' = Sending(c)
    PROVE  WaitInv(c)'
BY DEF StreamInv, WaitInv

------------------------------------------------------------------------------
(* What each step does to the place in the stream.                         *)

\* In the exchange for a larger buffer neither buffer's data change.
LEMMA SwapView ==
    ASSUME BufsInv, NEW c \in Conns, Swap(c)
    PROVE  /\ Length(Input(c)') = Length(Input(c)) /\ Valid(Input(c)') = Valid(Input(c))
           /\ Input(c)'.head = Input(c).head \/ Input(c)'.head = 0
           /\ Length(Output(c)') = Length(Output(c))
<1>1. PoolInv /\ ConnInv(c) /\ at[c] = "swap"
  BY DEF Swap, At, BufsInv
<1>2. PICK slot : slot = Slot(c)
  OBVIOUS
<1>3. /\ slot \in {<<c, "in">>, <<c, "out">>} /\ slot \in Slots
      /\ <<c, "in">> \in Slots /\ <<c, "out">> \in Slots
      /\ <<c, "in">> # <<c, "new">> /\ <<c, "out">> # <<c, "new">>
  BY <1>2 DEF Slot, Slots
<1>4. KeepsAllBut({slot, <<c, "new">>}) /\ Buf(slot)' = Adjusted(Buf(slot))
  BY <1>1, <1>2, SwapDoes DEF ConnInv, RoomInv
<1>5. PICK o : o = Buf(slot)
  OBVIOUS
<1>6. BufOK(o, Cell)
  BY <1>1, <1>3, <1>5, BufType
<1>7. /\ Length(Buf(slot)') = Length(Buf(slot)) /\ Valid(Buf(slot)') = Valid(Buf(slot))
      /\ Buf(slot)'.head = 0
  BY <1>4, <1>5, <1>6, AdjustedBuf
<1>8. \A s \in {<<c, "in">>, <<c, "out">>} :
         /\ Length(Buf(s)') = Length(Buf(s)) /\ Valid(Buf(s)') = Valid(Buf(s))
         /\ Buf(s)'.head = Buf(s).head \/ Buf(s)'.head = 0
  <2> SUFFICES ASSUME NEW s \in {<<c, "in">>, <<c, "out">>}
               PROVE  /\ Length(Buf(s)') = Length(Buf(s)) /\ Valid(Buf(s)') = Valid(Buf(s))
                      /\ Buf(s)'.head = Buf(s).head \/ Buf(s)'.head = 0
    OBVIOUS
  <2>1. CASE s = slot
    BY <1>7, <2>1
  <2>2. CASE s # slot
    <3>1. Buf(s)' = Buf(s)
      BY <1>3, <1>4, <2>2 DEF KeepsAllBut
    <3> QED
      BY <3>1
  <2> QED
    BY <2>1, <2>2
<1> QED
  BY <1>8 DEF Input, Output

LEMMA RoomStream ==
    ASSUME BufsInv, NEW c \in Conns, StreamInv(c),
           AllocFirst(c) \/ AllocMore(c) \/ Swap(c) \/ AllocExits(c) \/ WriteAborts(c)
    PROVE  StreamInv(c)'
<1>1. /\ UNCHANGED <<side, msg, arrived, taken, got, handled>>
      /\ at[c] # "closed" /\ PoolInv
  BY DEF AllocFirst, AllocMore, Swap, AllocExits, WriteAborts, At, job, net, log, BufsInv
<1>2. at'[c] # at[c] => at[c] \in {"room", "swap"} /\ at'[c] \in {"swap", "fill"}
  BY <1>1 DEF AllocFirst, AllocMore, Swap, AllocExits, WriteAborts, At, Go, PoolInv, IInv, OwnTypes
<1>3. /\ Length(Input(c)') = Length(Input(c)) /\ Valid(Input(c)') = Valid(Input(c))
      /\ Input(c)'.head = Input(c).head \/ Input(c)'.head = 0
      /\ Length(Output(c)') = Length(Output(c))
  <2>1. CASE Swap(c)
    BY <2>1, SwapView
  <2>2. ASSUME Input(c)' = Input(c), Output(c)' = Output(c)
        PROVE  /\ Length(Input(c)') = Length(Input(c)) /\ Valid(Input(c)') = Valid(Input(c))
               /\ Input(c)'.head = Input(c).head \/ Input(c)'.head = 0
               /\ Length(Output(c)') = Length(Output(c))
    BY <2>2
  <2>3. <<c, "in">> \in Slots /\ <<c, "out">> \in Slots
        /\ <<c, "in">> # <<c, "new">> /\ <<c, "out">> # <<c, "new">>
    BY DEF Slots
  <2>4. CASE AllocFirst(c)
    BY <1>1, <2>2, <2>3, <2>4, AllocFirstDoes DEF Input, Output
  <2>5. CASE AllocMore(c)
    <3>1. KeepsAllBut({<<c, "new">>})
      BY <1>1, <2>5, AllocMoreDoes
    <3> QED
      BY <2>2, <2>3, <3>1 DEF KeepsAllBut, Input, Output
  <2>6. CASE AllocExits(c) \/ WriteAborts(c)
    BY <2>2, <2>6 DEF AllocExits, WriteAborts, Input, Output, Buf
  <2> QED
    BY <2>1, <2>4, <2>5, <2>6
<1>4. /\ InHandler(c)' = InHandler(c) /\ SendingBody(c)' = SendingBody(c)
      /\ at'[c] = "pop" <=> at[c] = "pop"
      /\ at'[c] = "poll" <=> at[c] = "poll"
  BY <1>1, <1>2 DEF InHandler, SendingBody, InCall
<1>5. Sending(c)' = Sending(c) /\ Whole(c)' = Whole(c)
  BY <1>1, <1>3, <1>4 DEF Sending, Whole
<1>6. LogInv(c)' /\ HeldInv(c)' /\ FrontInv(c)' /\ Done(c)' = Done(c)
  BY <1>1, <1>3, <1>4, HeldStays
<1>7. WaitInv(c)'
  BY <1>1, <1>3, <1>5, <1>6, WaitStays
<1>8. RestInv(c)'
  BY <1>4, <1>5 DEF StreamInv, RestInv
<1> QED
  BY <1>6, <1>7, <1>8 DEF StreamInv

LEMMA ArriveStream ==
    ASSUME BufsInv, NEW c \in Conns, StreamInv(c), Arrive(c) \/ PeerCloses(c)
    PROVE  StreamInv(c)'
<1>1. /\ UNCHANGED <<mem, m_buf, at, side, msg, taken, got, handled>>
      /\ Input(c)' = Input(c) /\ Output(c)' = Output(c)
  BY DEF Arrive, PeerCloses, job, log, Input, Output, Buf
<1>2. InHandler(c)' = InHandler(c) /\ SendingBody(c)' = SendingBody(c)
  BY <1>1 DEF InHandler, SendingBody, InCall
<1>3. Done(c)' = Done(c) /\ Sending(c)' = Sending(c) /\ Whole(c)' = Whole(c)
  BY <1>1, <1>2 DEF Done, Sending, Whole
<1>4. LogInv(c)' /\ HeldInv(c)' /\ FrontInv(c)' /\ RestInv(c)'
  BY <1>1, <1>2, <1>3 DEF StreamInv, LogInv, HeldInv, FrontInv, RestInv
<1>5. WaitInv(c)'
  <2>1. CASE PeerCloses(c)
    <3>1. arrived' = arrived
      BY <2>1 DEF PeerCloses
    <3> QED
      BY <1>1, <1>3, <3>1 DEF StreamInv, WaitInv
  <2>2. CASE Arrive(c)
    <3> SUFFICES ASSUME c \notin Pipelined, at[c] # "closed", Done(c) < Len(Lens[c])
                 PROVE  arrived'[c] <= End(c, Done(c) + 1)
      BY <1>1, <1>3 DEF StreamInv, WaitInv
    <3>1. /\ Len(got[c]) \in Nat /\ Done(c) \in 0 .. Len(Lens[c]) /\ Len(Lens[c]) \in Nat
          /\ End(c, Done(c)) \in Nat
      BY PlaceIs
    <3>2. PICK m \in 0 .. Len(Lens[c]) :
              /\ End(c, m) <= Len(got[c])
              /\ Allowed(c) = End(c, IF m < Len(Lens[c]) THEN m + 1 ELSE m)
      BY <3>1, AllowedIs
    <3>3. Len(got[c]) <= End(c, Done(c))
      BY DEF StreamInv, WaitInv
    <3>4. m <= Done(c)
      <4> SUFFICES ASSUME ~(m <= Done(c)) PROVE FALSE
        OBVIOUS
      <4>1. m \in Done(c) .. Len(Lens[c]) /\ Done(c) # m
        BY <3>1
      <4>2. End(c, Done(c)) < End(c, m) /\ End(c, m) \in Nat
        BY <3>1, <4>1, MessagesBegin, MessagesType
      <4> QED
        BY <3>1, <3>2, <3>3, <4>2
    <3>5. PICK k : k = IF m < Len(Lens[c]) THEN m + 1 ELSE m
      OBVIOUS
    <3>6. k \in 0 .. Len(Lens[c]) /\ Done(c) + 1 \in k .. Len(Lens[c])
      BY <3>1, <3>4, <3>5
    <3>7. End(c, k) <= End(c, Done(c) + 1) /\ End(c, k) \in Nat
      BY <3>6, MessagesBegin, MessagesType
    <3>8. End(c, Done(c) + 1) \in Nat
      <4>1. Done(c) + 1 \in 0 .. Len(Lens[c])
        BY <3>1
      <4> QED
        BY <4>1, MessagesType
    <3>9. Allowed(c) = End(c, k)
      BY <3>2, <3>5
    <3>10. PICK n \in arrived[c] + 1 .. Allowed(c) : arrived' = [arrived EXCEPT ![c] = n]
      BY <2>2 DEF Arrive
    <3>11. arrived'[c] = n /\ arrived[c] \in Nat
      BY <3>10 DEF BufsInv, DataTypes
    <3> QED
      BY <3>7, <3>8, <3>9, <3>10, <3>11
  <2> QED
    BY <2>1, <2>2
<1> QED
  BY <1>4, <1>5 DEF StreamInv

LEMMA CloseStream ==
    ASSUME BufsInv, NEW c \in Conns, StreamInv(c),
           ReadFails(c) \/ ReadEof(c) \/ Refuse(c) \/ WriteFails(c)
    PROVE  StreamInv(c)'
<1>1. at' = [at EXCEPT ![c] = "closed"] /\ UNCHANGED handled
  BY DEF ReadFails, ReadEof, Refuse, WriteFails, Close, Go, log
<1>2. at'[c] = "closed"
  BY <1>1 DEF BufsInv, PoolInv, IInv, OwnTypes
<1>3. ~InHandler(c)'
  BY <1>2 DEF InHandler
<1> QED
  BY <1>1, <1>2, <1>3 DEF StreamInv, LogInv, HeldInv, WaitInv, FrontInv, RestInv

LEMMA ReadableStream ==
    ASSUME BufsInv, NEW c \in Conns, StreamInv(c), Readable(c)
    PROVE  StreamInv(c)'
<1>1. /\ UNCHANGED <<mem, m_buf, msg, arrived, taken, got, handled>>
      /\ Input(c)' = Input(c) /\ Output(c)' = Output(c) /\ at[c] = "poll"
      /\ at' = [at EXCEPT ![c] = "room"] /\ side' = [side EXCEPT ![c] = "in"]
  BY DEF Readable, At, Go, net, log, Input, Output, Buf
<1>2. at'[c] = "room" /\ side'[c] = "in"
  BY <1>1 DEF BufsInv, PoolInv, IInv, OwnTypes
<1>3. InHandler(c)' = InHandler(c) /\ ~SendingBody(c)' /\ ~SendingBody(c)
  BY <1>1, <1>2 DEF InHandler, SendingBody, InCall
<1>4. Sending(c)' = Sending(c)
  BY <1>1, <1>2, <1>3 DEF Sending
<1>5. LogInv(c)' /\ HeldInv(c)' /\ FrontInv(c)' /\ Done(c)' = Done(c)
  BY <1>1, <1>3, HeldStays
<1>6. WaitInv(c)'
  BY <1>1, <1>4, <1>5, WaitStays
<1>7. RestInv(c)'
  BY <1>2 DEF RestInv
<1> QED
  BY <1>5, <1>6, <1>7 DEF StreamInv

LEMMA ReadCellsStream ==
    ASSUME BufsInv, NEW c \in Conns, StreamInv(c), ReadCells(c)
    PROVE  StreamInv(c)'
<1>1. /\ UNCHANGED <<msg, side, arrived, got, handled>>
      /\ at[c] \in {"room", "fill"} /\ side[c] = "in"
      /\ at' = [at EXCEPT ![c] = "parse"]
      /\ taken' = [taken EXCEPT ![c] = @ + need[c]]
  BY DEF ReadCells, Ready, At, Go, job, net, log
<1>2. at'[c] = "parse" /\ taken'[c] = taken[c] + need[c] /\ need[c] \in Nat /\ taken[c] \in Nat
  BY <1>1 DEF BufsInv, PoolInv, IInv, OwnTypes, DataTypes
<1>3. PICK cells \in Seq(CellOf(c)) :
             /\ Len(cells) = need[c]
             /\ \A i \in 1 .. need[c] : cells[i] = Stream(c)[taken[c] + i]
             /\ KeepsAllBut({<<c, "in">>})
             /\ Input(c)'.head = 0
             /\ Length(Input(c)') = Length(Input(c)) + need[c]
             /\ Valid(Input(c)') = Valid(Input(c)) \o cells
  BY ReadCellsDoes
<1>4. Output(c)' = Output(c)
  BY <1>3 DEF KeepsAllBut, Slots, Output
<1>5. /\ ~InHandler(c) /\ ~InHandler(c)' /\ ~SendingBody(c) /\ ~SendingBody(c)'
      /\ InHandler(c)' = InHandler(c)
  BY <1>1, <1>2 DEF InHandler, SendingBody, InCall
<1>6. Done(c)' = Done(c) /\ Sending(c)' = Sending(c)
  BY <1>1, <1>2, <1>5 DEF Done, Sending
<1>7. LogInv(c)' /\ FrontInv(c)' /\ RestInv(c)'
  BY <1>1, <1>2, <1>3 DEF StreamInv, LogInv, FrontInv, RestInv
<1>8. WaitInv(c)'
  BY <1>1, <1>4, <1>6, WaitStays
<1>9. HeldInv(c)'
  <2>1. PICK v : v = Valid(Input(c))
    OBVIOUS
  <2>2. PICK e : e = End(c, Done(c))
    OBVIOUS
  <2>3. /\ v \in Seq(CellOf(c)) /\ Len(v) = Length(Input(c)) /\ Len(v) \in Nat /\ e \in Nat
        /\ e + Len(v) = taken[c]
        /\ \A i \in 1 .. Len(v) : v[i] = Stream(c)[e + i]
    BY <1>1, <2>1, <2>2, InputType, BufView, PlaceIs, ZenonT(40) DEF StreamInv, HeldInv
  <2>4. ASSUME NEW i \in 1 .. Len(v) + need[c]
        PROVE  (v \o cells)[i] = Stream(c)[e + i]
    <3>1. i \in 1 .. Len(v) + Len(cells)
      BY <1>3
    <3>2. (v \o cells)[i] = IF i <= Len(v) THEN v[i] ELSE cells[i - Len(v)]
      BY <2>3, <3>1, ConcatProperties
    <3>3. CASE i <= Len(v)
      BY <2>3, <3>2, <3>3
    <3>4. CASE ~(i <= Len(v))
      <4>1. PICK k : k = i - Len(v)
        OBVIOUS
      <4>2. k \in 1 .. need[c] /\ taken[c] + k = e + i
        <5>1. /\ e \in Nat /\ Len(v) \in Nat /\ taken[c] = e + Len(v) /\ need[c] \in Nat
              /\ i \in 1 .. Len(v) + need[c] /\ i > Len(v)
          BY <1>2, <2>3, <3>4
        <5> QED
          BY ONLY <4>1, <5>1
      <4>3. cells[k] = Stream(c)[taken[c] + k]
        BY <1>3, <4>2
      <4> QED
        BY <3>2, <3>4, <4>1, <4>2, <4>3
    <3> QED
      BY <3>3, <3>4
  <2>5. e + Length(Input(c)') = taken'[c]
    BY <1>2, <1>3, <2>3
  <2>6. \A i \in 1 .. Length(Input(c)') : Valid(Input(c)')[i] = Stream(c)[e + i]
    BY <1>3, <2>1, <2>3, <2>4
  <2> QED
    BY <1>5, <1>6, <2>2, <2>5, <2>6 DEF HeldInv
<1> QED
  BY <1>7, <1>8, <1>9 DEF StreamInv

\* What handle_read takes for the header is the first of the valid cells.
LEMMA HeaderIs ==
    ASSUME BufsInv, NEW c \in Conns, FrontInv(c), at[c] # "closed", m_buf[<<c, "in">>] # None
    PROVE  /\ DataAt(c) = Input(c).head
           /\ 2 <= Length(Input(c)) => HeaderCell(c) = Valid(Input(c))[1]
           /\ WholeMessage(c) <=> Whole(c)
<1>1. Input(c) = mem[m_buf[<<c, "in">>]]
  BY DEF Input, Buf
<1>2. DataAt(c) = Input(c).head
  BY <1>1 DEF DataAt, FrontInv
<1>3. Length(Input(c)) \in Nat /\ BufOK(Input(c), Cell)
  BY InputType
<1>4. 2 <= Length(Input(c)) => HeaderCell(c) = Valid(Input(c))[1]
  <2> SUFFICES ASSUME 2 <= Length(Input(c)) PROVE HeaderCell(c) = Valid(Input(c))[1]
    OBVIOUS
  <2>1. 1 \in 1 .. Length(Input(c))
    BY <1>3
  <2>2. Valid(Input(c))[1] = Input(c).data[Input(c).head + 1]
    BY <1>3, <2>1, BufView
  <2> QED
    BY <1>1, <1>2, <2>2 DEF HeaderCell
<1>5. HasHeader(c) <=> 2 <= Length(Input(c))
  BY <1>1, <1>3 DEF HasHeader, MESSAGE_HEADER_SIZE
<1>6. WholeMessage(c) <=> Whole(c)
  BY <1>1, <1>3, <1>4, <1>5 DEF WholeMessage, Whole, GoodHeader
<1> QED
  BY <1>2, <1>4, <1>6

\* While m_ibuf is not empty the stream has a next message.
LEMMA NextMessage ==
    ASSUME BufsInv, NEW c \in Conns, StreamInv(c), at[c] # "closed", ~InHandler(c),
           0 < Length(Input(c))
    PROVE  /\ Done(c) = Len(handled[c]) /\ Done(c) \in 0 .. Len(Lens[c]) - 1
           /\ Done(c) + 1 \in 1 .. Len(Lens[c])
           /\ \A i \in 1 .. Length(Input(c)) :
                 i <= OnWire(c, Done(c) + 1) => Valid(Input(c))[i] = <<Done(c) + 1, i>>
<1>1. /\ Len(handled[c]) \in Nat /\ Len(Lens[c]) \in Nat /\ Done(c) \in 0 .. Len(Lens[c])
      /\ Done(c) = Len(handled[c]) /\ End(c, Done(c)) \in Nat
  BY PlaceIs
<1>2. /\ End(c, Done(c)) + Length(Input(c)) = taken[c] /\ Length(Input(c)) \in Nat
      /\ \A i \in 1 .. Length(Input(c)) :
            Valid(Input(c))[i] = Stream(c)[End(c, Done(c)) + i]
  BY InputType DEF StreamInv, HeldInv
<1>3. taken[c] <= Len(Stream(c)) /\ Len(Stream(c)) = End(c, Len(Lens[c])) /\ taken[c] \in Nat
      /\ Len(Stream(c)) \in Nat
  <2>1. taken[c] \in Nat /\ arrived[c] \in Nat
    BY InputType
  <2>2. taken[c] <= arrived[c] /\ arrived[c] <= Len(Stream(c))
    BY DEF BufsInv, ConnInv, InputInv
  <2>3. Len(Stream(c)) = End(c, Len(Lens[c])) /\ Len(Stream(c)) \in Nat
    BY StreamIs
  <2> QED
    BY <2>1, <2>2, <2>3
<1>4. Done(c) # Len(Lens[c])
  BY <1>1, <1>2, <1>3
<1>5. Done(c) \in 0 .. Len(Lens[c]) - 1 /\ Done(c) + 1 \in 1 .. Len(Lens[c])
  BY <1>1, <1>4
<1>6. \A i \in 1 .. OnWire(c, Done(c) + 1) :
         Stream(c)[End(c, Done(c)) + i] = <<Done(c) + 1, i>>
  BY <1>5, StreamAt
<1>7. OnWire(c, Done(c) + 1) \in Nat
  BY <1>5, MessageIs
<1> QED
  BY <1>1, <1>2, <1>5, <1>6, <1>7

LEMMA HandleStream ==
    ASSUME BufsInv, NEW c \in Conns, StreamInv(c), Handle(c)
    PROVE  StreamInv(c)'
<1>1. /\ UNCHANGED <<mem, m_buf, arrived, taken, got>> /\ at[c] = "parse"
      /\ at' = [at EXCEPT ![c] = "room"] /\ side' = [side EXCEPT ![c] = "head"]
      /\ Input(c)' = Input(c) /\ Output(c)' = Output(c)
  BY DEF Handle, At, Go, net, Input, Output, Buf
<1>2. PICK cells \in Seq(CellOf(c)) :
             /\ msg' = [msg EXCEPT ![c] = cells]
             /\ handled' = [handled EXCEPT ![c] = Append(@, cells)]
             /\ m_buf[<<c, "in">>] # None /\ GoodHeader(c)
             /\ Len(cells) = Lens[c][HeaderCell(c)[1]]
             /\ 2 <= Len(cells) /\ Len(cells) <= Length(Input(c))
             /\ \A i \in 1 .. Len(cells) : cells[i] = Input(c).data[DataAt(c) + i]
  BY HandleDoes
<1>3. /\ at'[c] = "room" /\ side'[c] = "head" /\ msg'[c] = cells
      /\ handled'[c] = Append(handled[c], cells) /\ handled[c] \in Seq(Seq(Cell))
      /\ Len(cells) \in Nat /\ cells \in Seq(Cell)
  BY <1>1, <1>2, LenProperties, CellsOf, SeqMonotonic DEF BufsInv, PoolInv, IInv, OwnTypes, DataTypes
<1>4. /\ ~InHandler(c) /\ InHandler(c)' /\ ~SendingBody(c) /\ ~SendingBody(c)'
      /\ Sending(c) = 0 /\ Sending(c)' = 0
  BY <1>1, <1>3 DEF InHandler, SendingBody, InCall, Sending
<1>5. /\ Length(Input(c)) \in Nat /\ 2 <= Length(Input(c)) /\ BufOK(Input(c), Cell)
  <2>1. Length(Input(c)) \in Nat /\ BufOK(Input(c), Cell)
    BY InputType
  <2>2. 2 <= Length(Input(c))
    BY <1>2, <1>3, <2>1
  <2> QED
    BY <2>1, <2>2
<1>6. PICK n : n = Done(c)
  OBVIOUS
<1>7. /\ n = Len(handled[c]) /\ n \in Nat /\ n + 1 \in 1 .. Len(Lens[c])
      /\ \A i \in 1 .. Length(Input(c)) :
            i <= OnWire(c, n + 1) => Valid(Input(c))[i] = <<n + 1, i>>
  BY <1>1, <1>4, <1>5, <1>6, NextMessage
<1>8. /\ OnWire(c, n + 1) \in Nat /\ OnWire(c, n + 1) >= 2
      /\ OnWire(c, n + 1) = IF Lens[c][n + 1] > MaxMsg THEN 2 ELSE Lens[c][n + 1]
      /\ Message(c, n + 1) \in Seq(CellOf(c)) /\ Len(Message(c, n + 1)) = OnWire(c, n + 1)
      /\ \A i \in 1 .. OnWire(c, n + 1) : Message(c, n + 1)[i] = <<n + 1, i>>
  BY <1>7, MessageIs
<1>9. HeaderCell(c) = Valid(Input(c))[1] /\ DataAt(c) = Input(c).head
  BY <1>1, <1>2, <1>5, HeaderIs DEF StreamInv
<1>10. HeaderCell(c) = <<n + 1, 1>>
  BY <1>5, <1>7, <1>8, <1>9
<1>11. Len(cells) = OnWire(c, n + 1)
  <2>1. Lens[c][n + 1] <= MaxMsg /\ Len(cells) = Lens[c][n + 1]
    BY <1>2, <1>10 DEF GoodHeader
  <2>2. Lens[c][n + 1] \in Nat /\ MaxMsg \in Nat
    BY <1>7, LensOf, CapacityAssumption
  <2> QED
    BY <1>8, <2>1, <2>2
<1>12. cells = Message(c, n + 1)
  <2>1. ASSUME NEW i \in 1 .. Len(cells)
        PROVE  cells[i] = Message(c, n + 1)[i]
    <3>1. i \in 1 .. Length(Input(c)) /\ i \in 1 .. OnWire(c, n + 1) /\ i <= OnWire(c, n + 1)
      BY <1>2, <1>3, <1>5, <1>8, <1>11
    <3>2. Valid(Input(c))[i] = Input(c).data[Input(c).head + i]
      BY <1>5, <3>1, BufView
    <3>3. cells[i] = Input(c).data[DataAt(c) + i]
      BY <1>2
    <3> QED
      BY <1>7, <1>8, <1>9, <3>1, <3>2, <3>3
  <2> QED
    BY <1>8, <1>11, <2>1, SeqEqual
<1>13. /\ Len(handled'[c]) = n + 1
       /\ \A i \in 1 .. n : handled'[c][i] = handled[c][i]
       /\ handled'[c][n + 1] = cells
  BY <1>3, <1>7, AppendProperties
<1>14. LogInv(c)'
  <2>1. Len(handled'[c]) <= Len(Lens[c])
    BY <1>7, <1>13
  <2>2. \A i \in 1 .. n + 1 : handled'[c][i] = Message(c, i)
    <3> SUFFICES ASSUME NEW i \in 1 .. n + 1 PROVE handled'[c][i] = Message(c, i)
      OBVIOUS
    <3>1. CASE i = n + 1
      BY <1>12, <1>13, <3>1
    <3>2. CASE i # n + 1
      <4>1. i \in 1 .. n
        BY <1>7, <3>2
      <4> QED
        BY <1>7, <1>13, <4>1 DEF StreamInv, LogInv
    <3> QED
      BY <3>1, <3>2
  <2> QED
    BY <1>13, <2>1, <2>2 DEF LogInv
<1>15. Done(c)' = Done(c)
  BY <1>4, <1>6, <1>7, <1>13 DEF Done
<1>16. HeldInv(c)'
  <2>1. 1 <= Len(handled'[c]) /\ msg'[c] = Message(c, Len(handled'[c]))
    BY <1>3, <1>7, <1>12, <1>13
  <2> QED
    BY <1>1, <1>3, <1>15, <2>1 DEF StreamInv, HeldInv
<1>17. WaitInv(c)'
  BY <1>1, <1>4, <1>15, WaitStays
<1>18. FrontInv(c)' /\ RestInv(c)'
  BY <1>1, <1>3 DEF StreamInv, FrontInv, RestInv
<1> QED
  BY <1>14, <1>16, <1>17, <1>18 DEF StreamInv

\* The loop ends when the next message is not there from end to end, and
\* adjust() does not change that.
LEMMA ParseEndsStream ==
    ASSUME BufsInv, NEW c \in Conns, StreamInv(c), ParseEnds(c)
    PROVE  StreamInv(c)'
<1>1. /\ UNCHANGED <<side, msg, arrived, taken, got, handled>> /\ at[c] = "parse"
      /\ at' = [at EXCEPT ![c] = "poll"] /\ ~WholeMessage(c)
  BY DEF ParseEnds, At, Go, job, net, log
<1>2. at'[c] = "poll"
  BY <1>1 DEF BufsInv, PoolInv, IInv, OwnTypes
<1>3. /\ KeepsAllBut({<<c, "in">>})
      /\ Input(c)'.head = 0
      /\ Length(Input(c)') = Length(Input(c))
      /\ Valid(Input(c)') = Valid(Input(c))
  BY ParseEndsDoes
<1>4. Output(c)' = Output(c)
  BY <1>3 DEF KeepsAllBut, Slots, Output
<1>5. /\ InHandler(c)' = InHandler(c) /\ ~SendingBody(c) /\ ~SendingBody(c)'
  BY <1>1, <1>2 DEF InHandler, SendingBody, InCall
<1>6. Sending(c)' = Sending(c)
  BY <1>1, <1>2, <1>5 DEF Sending
<1>7. LogInv(c)' /\ HeldInv(c)' /\ FrontInv(c)' /\ Done(c)' = Done(c)
  BY <1>1, <1>3, <1>5, HeldStays
<1>8. WaitInv(c)'
  BY <1>1, <1>4, <1>6, <1>7, WaitStays
<1>9. ~Whole(c)
  <2>1. CASE m_buf[<<c, "in">>] = None
    <3>1. Length(Input(c)) = 0
      BY <2>1, ClearedBuf DEF Input, Buf
    <3> QED
      BY <3>1 DEF Whole
  <2>2. CASE m_buf[<<c, "in">>] # None
    BY <1>1, <2>2, HeaderIs DEF StreamInv
  <2> QED
    BY <2>1, <2>2
<1>10. Whole(c)' = Whole(c)
  BY <1>3 DEF Whole
<1>11. RestInv(c)'
  BY <1>9, <1>10 DEF RestInv
<1> QED
  BY <1>7, <1>8, <1>11 DEF StreamInv

LEMMA PopHandledStream ==
    ASSUME BufsInv, NEW c \in Conns, StreamInv(c), PopHandled(c), Pipelined \subseteq Refetch
    PROVE  StreamInv(c)'
<1>1. /\ UNCHANGED <<side, msg, arrived, taken, got, handled>> /\ at[c] = "pop"
      /\ at' = [at EXCEPT ![c] = "parse"]
  BY DEF PopHandled, At, Go, job, net, log
<1>2. at'[c] = "parse"
  BY <1>1 DEF BufsInv, PoolInv, IInv, OwnTypes
<1>3. PICK k : k = Len(msg[c])
  OBVIOUS
<1>4. /\ KeepsAllBut({<<c, "in">>})
      /\ k \in Nat /\ k <= Length(Input(c))
      /\ Length(Input(c)') = Length(Input(c)) - k
      /\ \A i \in 1 .. Length(Input(c)) - k : Valid(Input(c)')[i] = Valid(Input(c))[k + i]
      /\ k = Length(Input(c)) => Input(c)'.head = 0
  BY <1>3, PopHandledDoes
<1>5. Output(c)' = Output(c)
  BY <1>4 DEF KeepsAllBut, Slots, Output
<1>6. /\ InHandler(c) /\ ~InHandler(c)' /\ ~SendingBody(c) /\ ~SendingBody(c)'
      /\ Sending(c) = k /\ Sending(c)' = 0
  BY <1>1, <1>2, <1>3 DEF InHandler, SendingBody, InCall, Sending
<1>7. PICK n : n = Done(c)
  OBVIOUS
<1>8. /\ n + 1 = Len(handled[c]) /\ n \in Nat /\ n < Len(Lens[c]) /\ Len(Lens[c]) \in Nat
      /\ n + 1 \in 0 .. Len(Lens[c])
      /\ End(c, n) \in Nat /\ End(c, n + 1) = End(c, n) + k /\ Len(got[c]) \in Nat
  BY <1>3, <1>6, <1>7, PlaceIs
<1>9. Done(c)' = n + 1
  BY <1>1, <1>6, <1>8 DEF Done
<1>10. /\ Length(Input(c)) \in Nat /\ Length(Output(c)) \in Nat /\ taken[c] \in Nat
       /\ arrived[c] \in Nat /\ taken[c] <= arrived[c]
  BY InputType DEF BufsInv, ConnInv, InputInv
<1>11. /\ End(c, n) + Length(Input(c)) = taken[c]
       /\ \A i \in 1 .. Length(Input(c)) : Valid(Input(c))[i] = Stream(c)[End(c, n) + i]
  BY <1>1, <1>7 DEF StreamInv, HeldInv
<1>12. LogInv(c)' /\ RestInv(c)'
  BY <1>1, <1>2 DEF StreamInv, LogInv, RestInv
<1>13. HeldInv(c)'
  <2>1. End(c, n + 1) + Length(Input(c)') = taken[c]
    BY <1>4, <1>8, <1>10, <1>11
  <2>2. ASSUME NEW i \in 1 .. Length(Input(c)')
        PROVE  Valid(Input(c)')[i] = Stream(c)[End(c, n + 1) + i]
    <3>1. i \in 1 .. Length(Input(c)) - k
      BY <1>4
    <3>2. PICK j : j = k + i
      OBVIOUS
    <3>3. j \in 1 .. Length(Input(c)) /\ End(c, n) + j = End(c, n + 1) + i
      BY <1>4, <1>8, <1>10, <3>1, <3>2
    <3>4. Valid(Input(c)')[i] = Valid(Input(c))[j]
      BY <1>4, <3>1, <3>2
    <3>5. Valid(Input(c))[j] = Stream(c)[End(c, n) + j]
      BY <1>11, <3>3
    <3> QED
      BY <3>3, <3>4, <3>5
  <2> QED
    BY <1>1, <1>6, <1>9, <2>1, <2>2 DEF HeldInv
<1>14. ASSUME c \notin Pipelined
       PROVE  /\ arrived[c] <= End(c, n + 1) /\ Len(got[c]) <= End(c, n)
              /\ Len(got[c]) + Length(Output(c)) <= End(c, n) + k
  BY <1>1, <1>6, <1>7, <1>8, <1>14 DEF StreamInv, WaitInv
<1>15. WaitInv(c)'
  <2> SUFFICES ASSUME c \notin Pipelined
               PROVE  /\ n + 1 < Len(Lens[c]) => arrived[c] <= End(c, n + 1 + 1)
                      /\ Len(got[c]) <= End(c, n + 1)
                      /\ Len(got[c]) + Length(Output(c)) <= End(c, n + 1) + 0
    BY <1>1, <1>5, <1>6, <1>9 DEF WaitInv
  <2>1. n + 1 < Len(Lens[c]) => arrived[c] <= End(c, n + 1 + 1)
    <3> SUFFICES ASSUME n + 1 < Len(Lens[c]) PROVE arrived[c] <= End(c, n + 1 + 1)
      OBVIOUS
    <3>1. PICK m : m = n + 1 + 1
      OBVIOUS
    <3>2. m \in (n + 1) .. Len(Lens[c]) /\ m \in 0 .. Len(Lens[c])
      BY <1>8, <3>1
    <3>3. End(c, n + 1) <= End(c, m) /\ End(c, m) \in Nat
      BY <1>8, <3>2, MessagesBegin, MessagesType
    <3> QED
      BY <1>4, <1>8, <1>10, <1>14, <3>1, <3>3
  <2> QED
    BY <1>4, <1>8, <1>10, <1>14, <2>1
<1>16. FrontInv(c)'
  <2> SUFFICES ASSUME c \notin Refetch PROVE Input(c)'.head = 0
    BY DEF FrontInv
  <2>1. arrived[c] <= End(c, n + 1)
    BY <1>14
  <2>2. k = Length(Input(c))
    BY <1>4, <1>8, <1>10, <1>11, <2>1
  <2> QED
    BY <1>4, <2>2
<1> QED
  BY <1>12, <1>13, <1>15, <1>16 DEF StreamInv

\* What the steps of send() have in common: they leave m_ibuf and the place in
\* the stream.
LEMMA SendLeaves ==
    ASSUME BufsInv, NEW c \in Conns, StreamInv(c), Send(c)
    PROVE  /\ UNCHANGED <<msg, arrived, taken, got, handled>>
           /\ at[c] \in {"room", "fill"} /\ side[c] \in {"head", "body"}
           /\ LogInv(c)' /\ HeldInv(c)' /\ FrontInv(c)' /\ Done(c)' = Done(c)
           /\ at'[c] \in {"room", "pop"}
<1>1. /\ UNCHANGED <<msg, arrived, taken, got, handled>>
      /\ at[c] \in {"room", "fill"} /\ side[c] \in {"head", "body"}
  <2>1. CASE WriteHead(c) \/ WriteBody(c)
    BY <2>1 DEF WriteHead, WriteBody, Ready, At, job, net, log
  <2>2. CASE HeadFails(c) \/ BodyFails(c)
    BY <2>2 DEF HeadFails, BodyFails, NoClass, At, job, net
  <2> QED
    BY <2>1, <2>2 DEF Send
<1>2. /\ at'[c] \in {"room", "pop"}
      /\ at'[c] = "room" => side'[c] = "body"
  BY DEF Send, WriteHead, WriteBody, HeadFails, BodyFails, Go, BufsInv, PoolInv, IInv, OwnTypes
<1>3. Input(c)' = Input(c)
  <2>1. <<c, "in">> \in Slots /\ <<c, "in">> # <<c, "out">>
    BY DEF Slots
  <2>2. CASE WriteHead(c) \/ WriteBody(c)
    <3>1. KeepsAllBut({<<c, "out">>})
      BY <2>2, WritePartDoes
    <3> QED
      BY <2>1, <3>1 DEF KeepsAllBut, Input
  <2>3. CASE HeadFails(c)
    BY <2>3 DEF HeadFails, Input, Buf
  <2>4. CASE BodyFails(c)
    <3>1. KeepsAllBut({<<c, "out">>})
      BY <2>4, BodyFailsDoes
    <3> QED
      BY <2>1, <3>1 DEF KeepsAllBut, Input
  <2> QED
    BY <2>2, <2>3, <2>4 DEF Send
<1>4. InHandler(c) /\ InHandler(c)'
  BY <1>1, <1>2 DEF InHandler
<1>5. InHandler(c)' = InHandler(c)
  BY <1>4
<1>6. LogInv(c)' /\ HeldInv(c)' /\ FrontInv(c)' /\ Done(c)' = Done(c)
  BY <1>1, <1>3, <1>5, HeldStays
<1> QED
  BY <1>1, <1>2, <1>6

LEMMA SendStream ==
    ASSUME BufsInv, NEW c \in Conns, StreamInv(c), Send(c)
    PROVE  StreamInv(c)'
<1>1. /\ UNCHANGED <<msg, arrived, taken, got, handled>>
      /\ at[c] \in {"room", "fill"} /\ side[c] \in {"head", "body"}
      /\ LogInv(c)' /\ HeldInv(c)' /\ FrontInv(c)' /\ Done(c)' = Done(c)
      /\ at'[c] \in {"room", "pop"}
  BY SendLeaves
<1>2. /\ InHandler(c) /\ InCall(c)
      /\ InputInv(c)
  BY <1>1 DEF InHandler, InCall, BufsInv, ConnInv
<1>3. /\ 2 <= Len(msg[c]) /\ Len(msg[c]) \in Nat
      /\ Length(Output(c)) \in Nat /\ Len(got[c]) \in Nat /\ End(c, Done(c)) \in Nat
  <2>1. 2 <= Len(msg[c])
    BY <1>2 DEF InputInv
  <2>2. Len(msg[c]) \in Nat /\ Len(got[c]) \in Nat /\ End(c, Done(c)) \in Nat
    BY <1>2, PlaceIs
  <2>3. Length(Output(c)) \in Nat
    BY InputType
  <2> QED
    BY <2>1, <2>2, <2>3
<1>4. /\ Length(Output(c)') \in Int
      /\ Length(Output(c)') + Sending(c) <= Length(Output(c)) + Sending(c)'
  <2>1. CASE WriteHead(c)
    <3>1. side[c] = "head" /\ side'[c] = "body" /\ at'[c] = "room"
      BY <2>1 DEF WriteHead, Go, BufsInv, PoolInv, IInv, OwnTypes
    <3>2. Length(Output(c)') = Length(Output(c)) + Want(c)
      BY <2>1, WritePartDoes
    <3>3. Want(c) = 2
      BY <1>2, <3>1, WantIs
    <3>4. Sending(c) = 0 /\ Sending(c)' = 2
      BY <1>1, <3>1 DEF Sending, SendingBody, InCall
    <3> QED
      BY <1>3, <3>2, <3>3, <3>4
  <2>2. CASE WriteBody(c)
    <3>1. side[c] = "body" /\ at'[c] = "pop"
      BY <2>2 DEF WriteBody, Go, BufsInv, PoolInv, IInv, OwnTypes
    <3>2. Length(Output(c)') = Length(Output(c)) + Want(c)
      BY <2>2, WritePartDoes
    <3>3. Want(c) = Len(msg[c]) - 2
      BY <1>2, <3>1, WantIs
    <3>4. Sending(c) = 2 /\ Sending(c)' = Len(msg[c])
      BY <1>1, <1>2, <3>1 DEF Sending, SendingBody, InCall
    <3> QED
      BY <1>3, <3>2, <3>3, <3>4
  <2>3. CASE HeadFails(c)
    <3>1. /\ side[c] = "head" /\ at'[c] = "pop" /\ Output(c)' = Output(c)
      BY <2>3 DEF HeadFails, Go, Output, Buf, BufsInv, PoolInv, IInv, OwnTypes
    <3>2. Sending(c) = 0 /\ Sending(c)' = Len(msg[c])
      BY <1>1, <3>1 DEF Sending, SendingBody, InCall
    <3> QED
      BY <1>3, <3>1, <3>2
  <2>4. CASE BodyFails(c)
    <3>1. side[c] = "body" /\ at'[c] = "pop"
      BY <2>4 DEF BodyFails, Go, BufsInv, PoolInv, IInv, OwnTypes
    <3>2. Length(Output(c)') = Length(Output(c)) - 2
      BY <2>4, BodyFailsDoes
    <3>3. Sending(c) = 2 /\ Sending(c)' = Len(msg[c])
      BY <1>1, <1>2, <3>1 DEF Sending, SendingBody, InCall
    <3> QED
      BY <1>3, <3>2, <3>3
  <2> QED
    BY <2>1, <2>2, <2>3, <2>4 DEF Send
<1>5. Sending(c) \in Nat /\ Sending(c)' \in Nat
  BY <1>1, <1>3 DEF Sending
<1>6. WaitInv(c)'
  <2> SUFFICES ASSUME c \notin Pipelined
               PROVE  /\ Done(c) < Len(Lens[c]) => arrived[c] <= End(c, Done(c) + 1)
                      /\ Len(got[c]) <= End(c, Done(c))
                      /\ Len(got[c]) + Length(Output(c)') <= End(c, Done(c)) + Sending(c)'
    BY <1>1 DEF WaitInv
  <2>1. /\ Done(c) < Len(Lens[c]) => arrived[c] <= End(c, Done(c) + 1)
        /\ Len(got[c]) <= End(c, Done(c))
        /\ Len(got[c]) + Length(Output(c)) <= End(c, Done(c)) + Sending(c)
    BY <1>1 DEF StreamInv, WaitInv
  <2> QED
    BY <1>3, <1>4, <1>5, <2>1
<1>7. RestInv(c)'
  BY <1>1 DEF RestInv
<1> QED
  BY <1>1, <1>6, <1>7 DEF StreamInv

LEMMA WriteStream ==
    ASSUME BufsInv, NEW c \in Conns, StreamInv(c), Write(c)
    PROVE  StreamInv(c)'
<1>1. /\ UNCHANGED <<at, side, msg, arrived, taken, handled>> /\ at[c] = "poll"
  BY DEF Write, At, job, net
<1>2. PICK n \in Nat, cells \in Seq(Cell), rest \in Seq(Cell) :
             /\ n <= Length(Output(c)) /\ Len(cells) = n
             /\ got' = [got EXCEPT ![c] = @ \o cells]
             /\ KeepsAllBut({<<c, "out">>})
             /\ Length(Output(c)') = Length(Output(c)) - n
  BY WriteDoes
<1>3. Input(c)' = Input(c)
  BY <1>2 DEF KeepsAllBut, Slots, Input
<1>4. InHandler(c)' = InHandler(c) /\ ~SendingBody(c) /\ ~SendingBody(c)'
  BY <1>1 DEF InHandler, SendingBody, InCall
<1>5. Sending(c) = 0 /\ Sending(c)' = 0 /\ Whole(c)' = Whole(c)
  BY <1>1, <1>3, <1>4 DEF Sending, Whole
<1>6. LogInv(c)' /\ HeldInv(c)' /\ FrontInv(c)' /\ Done(c)' = Done(c)
  BY <1>1, <1>3, <1>4, HeldStays
<1>7. RestInv(c)'
  BY <1>1, <1>5 DEF StreamInv, RestInv
<1>8. /\ Len(got'[c]) = Len(got[c]) + n /\ Len(got[c]) \in Nat
  <2>1. got[c] \in Seq(Cell) /\ got'[c] = got[c] \o cells
    BY <1>2 DEF BufsInv, DataTypes
  <2>2. Len(got[c] \o cells) = Len(got[c]) + Len(cells)
    BY <2>1, ConcatProperties
  <2> QED
    BY <1>2, <2>1, <2>2, LenProperties
<1>9. Length(Output(c)) \in Nat /\ End(c, Done(c)) \in Nat
  BY InputType, PlaceIs
<1>10. WaitInv(c)'
  <2> SUFFICES ASSUME c \notin Pipelined
               PROVE  /\ Done(c) < Len(Lens[c]) => arrived[c] <= End(c, Done(c) + 1)
                      /\ Len(got'[c]) <= End(c, Done(c))
                      /\ Len(got'[c]) + Length(Output(c)') <= End(c, Done(c)) + 0
    BY <1>1, <1>5, <1>6 DEF WaitInv
  <2>1. /\ Done(c) < Len(Lens[c]) => arrived[c] <= End(c, Done(c) + 1)
        /\ Len(got[c]) <= End(c, Done(c))
        /\ Len(got[c]) + Length(Output(c)) <= End(c, Done(c)) + 0
    BY <1>1, <1>5 DEF StreamInv, WaitInv
  <2> QED
    BY <1>2, <1>8, <1>9, <2>1
<1> QED
  BY <1>6, <1>7, <1>10 DEF StreamInv

LEMMA InitStream == Init => \A c \in Conns : StreamInv(c)
<1> SUFFICES ASSUME Init, NEW c \in Conns PROVE StreamInv(c)
  OBVIOUS
<1>1. /\ at[c] = "poll" /\ side[c] = "in" /\ handled[c] = <<>> /\ got[c] = <<>>
      /\ arrived[c] = 0 /\ taken[c] = 0
      /\ Input(c) = Cleared /\ Output(c) = Cleared
  <2>1. <<c, "in">> \in Slots /\ <<c, "out">> \in Slots
    BY DEF Slots
  <2> QED
    BY <2>1 DEF Init, Input, Output, Buf
<1>2. ~InHandler(c) /\ ~SendingBody(c)
  BY <1>1 DEF InHandler, SendingBody, InCall
<1>3. Len(Lens[c]) \in Nat /\ Len(handled[c]) = 0 /\ Len(got[c]) = 0
  BY <1>1, LensOf, EmptySeq
<1>4. Done(c) = 0 /\ Sending(c) = 0
  BY <1>1, <1>2, <1>3 DEF Done, Sending
<1>5. Length(Input(c)) = 0 /\ Length(Output(c)) = 0 /\ Input(c).head = 0
  BY <1>1, ClearedBuf
<1>6. End(c, 0) = 0 /\ \A m \in 0 .. Len(Lens[c]) : End(c, m) \in Nat
  BY MessagesNone, MessagesType
<1>7. LogInv(c) /\ HeldInv(c) /\ FrontInv(c)
  BY <1>1, <1>2, <1>3, <1>4, <1>5, <1>6 DEF LogInv, HeldInv, FrontInv
<1>8. RestInv(c)
  BY <1>5 DEF RestInv, Whole
<1>9. WaitInv(c)
  <2>1. 0 < Len(Lens[c]) => 0 <= End(c, 0 + 1)
    <3> SUFFICES ASSUME 0 < Len(Lens[c]) PROVE 0 <= End(c, 1)
      OBVIOUS
    <3>1. 1 \in 0 .. Len(Lens[c])
      BY <1>3
    <3>2. End(c, 1) \in Nat
      BY <1>6, <3>1
    <3> QED
      BY <3>2
  <2> QED
    BY <1>1, <1>3, <1>4, <1>5, <1>6, <2>1 DEF WaitInv
<1> QED
  BY <1>7, <1>8, <1>9 DEF StreamInv

LEMMA StepStream ==
    ASSUME Pipelined \subseteq Refetch, BufsInv, NEW c \in Conns, StreamInv(c), Step(c)
    PROVE  StreamInv(c)'
<1>1. CASE Arrive(c) \/ PeerCloses(c)
  BY <1>1, ArriveStream
<1>2. CASE Room(c)
  BY <1>2, RoomStream DEF Room
<1>3. CASE HandleRead(c)
  BY <1>3, ReadableStream, CloseStream, ReadCellsStream, HandleStream, PopHandledStream,
     ParseEndsStream DEF HandleRead
<1>4. CASE Send(c)
  BY <1>4, SendStream
<1>5. CASE Write(c) \/ WriteFails(c) \/ WriteAborts(c)
  BY <1>5, WriteStream, CloseStream, RoomStream
<1> QED
  BY <1>1, <1>2, <1>3, <1>4, <1>5 DEF Step

LEMMA NextFrameInv ==
    ASSUME Pipelined \subseteq Refetch
    PROVE  FrameInv /\ [Next]_vars => FrameInv'
<1> SUFFICES ASSUME FrameInv, [Next]_vars PROVE FrameInv'
  OBVIOUS
<1>1. BufsInv /\ BufsInv' /\ \A c \in Conns : StreamInv(c)
  BY NextBufsInv DEF FrameInv
<1>2. CASE UNCHANGED vars
  <2>1. \A c \in Conns : Same(c)
    BY <1>2 DEF vars, job, net, log, Same, Buf
  <2> QED
    BY <1>1, <2>1, SameStream DEF FrameInv
<1>3. CASE Next
  <2>1. PICK c \in Conns : Step(c)
    BY <1>3 DEF Next, Step
  <2>2. StreamInv(c)'
    BY <1>1, <2>1, StepStream
  <2>3. \A d \in Conns \ {c} : Same(d)
    BY <1>1, <2>1, StepKeeps DEF Keeps
  <2>4. \A d \in Conns \ {c} : StreamInv(d)'
    BY <1>1, <2>3, SameStream
  <2> QED
    BY <1>1, <2>2, <2>4 DEF FrameInv
<1> QED
  BY <1>2, <1>3

LEMMA FrameInvHolds ==
    ASSUME Pipelined \subseteq Refetch
    PROVE  Spec => []FrameInv
<1>1. Init => FrameInv
  BY InitBufsInv, InitStream DEF FrameInv
<1>2. FrameInv /\ [Next]_vars => FrameInv'
  BY NextFrameInv
<1> QED
  BY <1>1, <1>2, PTL DEF Spec

------------------------------------------------------------------------------
(* What the handlers get.                                                  *)

\* The handlers get the peer's messages in order, each once and with its own
\* body.  A peer of tcp_conn::handle_read must wait for the answers: run
\* buffers_frame shows what happens to one that does not.
THEOREM HandledInOrderCorrect ==
    ASSUME Pipelined \subseteq Refetch
    PROVE  Spec => []HandledInOrder
<1>1. ASSUME FrameInv PROVE HandledInOrder
  <2> SUFFICES ASSUME NEW c \in Conns, NEW i \in DOMAIN handled[c]
               PROVE  i <= Len(Lens[c]) /\ handled[c][i] = Message(c, i)
    BY DEF HandledInOrder
  <2>1. LogInv(c) /\ handled[c] \in Seq(Seq(Cell))
    BY <1>1 DEF FrameInv, StreamInv, BufsInv, DataTypes
  <2>2. Len(handled[c]) \in Nat /\ i \in 1 .. Len(handled[c]) /\ Len(Lens[c]) \in Nat
    BY <2>1, LenProperties, LensOf
  <2> QED
    BY <2>1, <2>2 DEF LogInv
<1> QED
  BY <1>1, FrameInvHolds, PTL

\* What the handlers are done with is the beginning of the stream.
LEMMA DoneIs ==
    ASSUME FrameInv, NEW c \in Conns
    PROVE  FlattenSeq(IF InHandler(c) THEN Front(handled[c]) ELSE handled[c])
              = Messages(c, Done(c))
<1>1. PICK h : h = handled[c]
  OBVIOUS
<1>2. PICK n : n = Done(c)
  OBVIOUS
<1>3. PICK s : s = IF InHandler(c) THEN Front(h) ELSE h
  OBVIOUS
<1>4. PICK t : t = [m \in 1 .. n |-> Message(c, m)]
  OBVIOUS
<1>5. /\ h \in Seq(Seq(Cell)) /\ Len(h) \in Nat /\ n \in 0 .. Len(Lens[c])
      /\ ~InHandler(c) => n = Len(h)
      /\ InHandler(c) => n + 1 = Len(h)
      /\ \A i \in 1 .. Len(h) : h[i] = Message(c, i)
  <2>1. BufsInv /\ StreamInv(c) /\ h \in Seq(Seq(Cell))
    BY <1>1 DEF FrameInv, BufsInv, DataTypes
  <2>2. \A i \in 1 .. Len(h) : h[i] = Message(c, i)
    BY <1>1, <2>1 DEF StreamInv, LogInv
  <2> QED
    BY <1>1, <1>2, <2>1, <2>2, PlaceIs
<1>6. n \in Nat /\ Len(Lens[c]) \in Nat
  BY <1>5, LensOf
<1>7. t \in Seq(Seq(Cell)) /\ Len(t) = n /\ \A i \in 1 .. n : t[i] = Message(c, i)
  <2>1. t \in Seq(Seq(CellOf(c)))
    BY <1>4, <1>5, MessagesType
  <2>2. Seq(CellOf(c)) \subseteq Seq(Cell)
    BY CellsOf, SeqMonotonic
  <2>3. t \in Seq(Seq(Cell))
    BY <2>1, <2>2, SeqMonotonic
  <2> QED
    BY <1>4, <1>6, <2>3
<1>8. s \in Seq(Seq(Cell)) /\ Len(s) = n /\ \A i \in 1 .. n : s[i] = h[i]
  <2>1. CASE ~InHandler(c)
    BY <1>3, <1>5, <2>1
  <2>2. CASE InHandler(c)
    <3>1. h # <<>> /\ Front(h) = SubSeq(h, 1, n)
      <4>1. Len(h) # 0 /\ Len(h) - 1 = n
        BY <1>5, <1>6, <2>2
      <4> QED
        BY <1>5, <4>1, EmptySeq DEF Front
    <3>2. s = SubSeq(h, 0 + 1, n) /\ 0 \in Nat /\ 0 <= n /\ n <= Len(h)
      BY <1>3, <1>5, <1>6, <2>2, <3>1
    <3>3. /\ s \in Seq(Seq(Cell)) /\ Len(s) = n - 0
          /\ \A i \in 1 .. n - 0 : s[i] = h[0 + i]
      BY <1>5, <1>6, <3>2, PartOf
    <3> QED
      BY <1>6, <3>3
  <2> QED
    BY <2>1, <2>2
<1>9. s = t
  <2>1. \A i \in 1 .. Len(s) : s[i] = t[i]
    <3> SUFFICES ASSUME NEW i \in 1 .. Len(s) PROVE s[i] = t[i]
      OBVIOUS
    <3>1. i \in 1 .. n /\ i \in 1 .. Len(h)
      BY <1>5, <1>6, <1>8
    <3> QED
      BY <1>5, <1>7, <1>8, <3>1
  <2> QED
    BY <1>7, <1>8, <2>1, SeqEqual
<1> QED
  BY <1>1, <1>2, <1>3, <1>4, <1>9 DEF Messages

\* Under the same condition the messages handled and what m_ibuf holds are what
\* has been read, at every point of every call.
THEOREM InputKeptCorrect ==
    ASSUME Pipelined \subseteq Refetch
    PROVE  Spec => []InputKept
<1>1. ASSUME FrameInv PROVE InputKept
  <2> SUFFICES ASSUME NEW c \in Conns, at[c] # "closed"
               PROVE  LET b == m_buf[<<c, "in">>]
                          done == FlattenSeq(IF InHandler(c) THEN Front(handled[c])
                                                             ELSE handled[c])
                      IN  SubSeq(Stream(c), 1, taken[c])
                              = done \o (IF b = None THEN <<>> ELSE Valid(mem[b]))
    BY DEF InputKept
  <2>1. BufsInv /\ StreamInv(c) /\ ConnInv(c)
    BY <1>1 DEF FrameInv, BufsInv
  <2>2. PICK v : v = Valid(Input(c))
    OBVIOUS
  <2>3. v = IF m_buf[<<c, "in">>] = None THEN <<>> ELSE Valid(mem[m_buf[<<c, "in">>]])
    BY <2>2, ClearedBuf DEF Input, Buf
  <2>4. PICK n : n = Done(c)
    OBVIOUS
  <2>5. PICK d : d = Messages(c, n)
    OBVIOUS
  <2>6. PICK s : s = Stream(c)
    OBVIOUS
  <2>7. PICK k : k = taken[c]
    OBVIOUS
  <2>8. PICK p : p = SubSeq(s, 0 + 1, k)
    OBVIOUS
  <2>9. /\ v \in Seq(CellOf(c)) /\ Len(v) \in Nat /\ Len(v) = Length(Input(c))
    BY <2>1, <2>2, InputType, BufView
  <2>10. n \in 0 .. Len(Lens[c]) /\ Len(Lens[c]) \in Nat
    BY <2>1, <2>4, PlaceIs
  <2>11. d \in Seq(CellOf(c)) /\ Len(d) \in Nat /\ Len(d) = End(c, n)
    BY <2>5, <2>10, MessagesType DEF End
  <2>12. /\ Len(d) + Len(v) = k
         /\ \A i \in 1 .. Len(v) : v[i] = s[Len(d) + i]
    BY <2>1, <2>2, <2>4, <2>6, <2>7, <2>9, <2>11 DEF StreamInv, HeldInv
  <2>13. \A i \in 1 .. Len(d) : s[i] = d[i]
    <3>1. Len(Lens[c]) \in n .. Len(Lens[c])
      BY <2>10
    <3> QED
      BY <2>5, <2>6, <2>10, <2>11, <3>1, MessagesBegin DEF Stream
  <2>14. s \in Seq(CellOf(c)) /\ k \in Nat /\ k <= Len(s)
    <3>1. s \in Seq(CellOf(c)) /\ Len(s) \in Nat
      BY <2>6, StreamIs
    <3>2. taken[c] \in Nat /\ arrived[c] \in Nat
      BY <2>1, InputType
    <3>3. taken[c] <= arrived[c] /\ arrived[c] <= Len(s)
      BY <2>1, <2>6 DEF ConnInv, InputInv
    <3> QED
      BY <2>7, <3>1, <3>2, <3>3
  <2>15. p \in Seq(CellOf(c)) /\ Len(p) = k /\ \A i \in 1 .. k : p[i] = s[i]
    <3>1. 0 \in Nat /\ 0 <= k
      BY <2>14
    <3>2. /\ p \in Seq(CellOf(c)) /\ Len(p) = k - 0
          /\ \A i \in 1 .. k - 0 : p[i] = s[0 + i]
      BY <2>8, <2>14, <3>1, PartOf
    <3> QED
      BY <2>14, <3>2
  <2>16. PICK q : q = d \o v
    OBVIOUS
  <2>17. /\ q \in Seq(CellOf(c)) /\ Len(q) = k
         /\ \A i \in 1 .. k : q[i] = IF i <= Len(d) THEN d[i] ELSE v[i - Len(d)]
    BY <2>9, <2>11, <2>12, <2>16, ConcatProperties
  <2>18. ASSUME NEW i \in 1 .. k PROVE p[i] = q[i]
    <3>1. p[i] = s[i] /\ q[i] = IF i <= Len(d) THEN d[i] ELSE v[i - Len(d)]
      BY <2>15, <2>17
    <3>2. CASE i <= Len(d)
      <4>1. i \in 1 .. Len(d)
        BY <2>11, <3>2
      <4> QED
        BY <2>13, <3>1, <3>2, <4>1
    <3>3. CASE ~(i <= Len(d))
      <4>1. PICK j : j = i - Len(d)
        OBVIOUS
      <4>2. j \in 1 .. Len(v) /\ Len(d) + j = i
        BY <2>9, <2>11, <2>12, <2>14, <3>3, <4>1
      <4>3. v[j] = s[Len(d) + j]
        BY <2>12, <4>2
      <4> QED
        BY <3>1, <3>3, <4>1, <4>2, <4>3
    <3> QED
      BY <3>2, <3>3
  <2>19. p = q
    BY <2>15, <2>17, <2>18, SeqEqual
  <2>20. p = SubSeq(Stream(c), 1, taken[c])
    BY <2>6, <2>7, <2>8
  <2>21. d = FlattenSeq(IF InHandler(c) THEN Front(handled[c]) ELSE handled[c])
    BY <1>1, <2>4, <2>5, DoneIs
  <2> QED
    BY <2>3, <2>16, <2>19, <2>20, <2>21
<1> QED
  BY <1>1, FrameInvHolds, PTL

\* Under the same condition handle_read returns only when m_ibuf holds no whole
\* message.
THEOREM NoMessageLeftCorrect ==
    ASSUME Pipelined \subseteq Refetch
    PROVE  Spec => []NoMessageLeft
<1>1. ASSUME FrameInv PROVE NoMessageLeft
  <2> SUFFICES ASSUME NEW c \in Conns, at[c] = "poll", WholeMessage(c) PROVE FALSE
    BY DEF NoMessageLeft
  <2>1. BufsInv /\ FrontInv(c) /\ ~Whole(c)
    BY <1>1 DEF FrameInv, StreamInv, RestInv
  <2>2. m_buf[<<c, "in">>] # None /\ at[c] # "closed"
    BY DEF WholeMessage, HasHeader
  <2> QED
    BY <2>1, <2>2, HeaderIs
<1> QED
  BY <1>1, FrameInvHolds, PTL

==============================================================================
