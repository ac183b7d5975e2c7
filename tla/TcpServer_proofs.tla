----------------------------- MODULE TcpServer_proofs -----------------------------
(***************************************************************************)
(* For any number of clients, loops and descriptors: the life of a         *)
(* tcp_conn.  Who may hold a reference to it at which stage, and that the  *)
(* tables, the queues and the callbacks under way agree on the owner of a  *)
(* descriptor from accept to the close callback.                           *)
(***************************************************************************)
EXTENDS TcpServer, FiniteSetTheorems, SequenceTheorems, TLAPS

-----------------------------------------------------------------------------
(* Sequences that grow at the end and shrink at the front.                 *)

LEMMA AppendedTo ==
    ASSUME NEW S, NEW s \in Seq(S), NEW e \in S, NEW t, t = Append(s, e)
    PROVE  /\ t \in Seq(S) /\ t # <<>>
           /\ \A i \in DOMAIN s : i \in DOMAIN t /\ t[i] = s[i] /\ i # Len(s) + 1
           /\ \A i \in DOMAIN t : i \in DOMAIN s \/ i = Len(s) + 1
           /\ Len(s) + 1 \in DOMAIN t /\ t[Len(s) + 1] = e
<1>1. /\ t \in Seq(S) /\ t # <<>> /\ Len(t) = Len(s) + 1
      /\ \A i \in 1 .. Len(s) : t[i] = s[i]
      /\ t[Len(s) + 1] = e
  BY AppendProperties
<1>2. Len(s) \in Nat /\ DOMAIN s = 1 .. Len(s) /\ DOMAIN t = 1 .. Len(t)
  BY <1>1, LenProperties
<1> QED
  BY <1>1, <1>2

LEMMA TakenFrom ==
    ASSUME NEW S, NEW s \in Seq(S), s # <<>>, NEW t, t = Tail(s)
    PROVE  /\ Head(s) \in S /\ Head(s) = s[1] /\ 1 \in DOMAIN s /\ DOMAIN s \subseteq Nat
           /\ t \in Seq(S)
           /\ \A i \in DOMAIN t : i + 1 \in DOMAIN s /\ t[i] = s[i + 1] /\ i + 1 # 1 /\ i >= 1
           /\ \A i \in DOMAIN s : i # 1 => i - 1 \in DOMAIN t /\ t[i - 1] = s[i]
           /\ \A i, j \in DOMAIN t : i + 1 = j + 1 => i = j
<1>1. /\ Head(s) \in S /\ t \in Seq(S) /\ Len(t) = Len(s) - 1
      /\ \A i \in 1 .. Len(t) : t[i] = s[i + 1]
  BY HeadTailProperties
<1>2. /\ Len(s) \in Nat /\ Len(s) # 0
      /\ DOMAIN s = 1 .. Len(s) /\ DOMAIN t = 1 .. Len(t)
  BY <1>1, LenProperties, EmptySeq
<1>3. Head(s) = s[1]
  OBVIOUS
<1> QED
  BY <1>1, <1>2, <1>3

Waits(x, s) == \E i \in DOMAIN s : s[i] = x

Once(x, s) == \A i, j \in DOMAIN s : s[i] = x /\ s[j] = x => i = j

LEMMA WaitsTaken ==
    ASSUME NEW S, NEW s \in Seq(S), s # <<>>, NEW t, t = Tail(s)
    PROVE  /\ t \in Seq(S) /\ Head(s) \in S /\ Waits(Head(s), s)
           /\ \A x : Waits(x, t) => Waits(x, s)
           /\ \A x : Waits(x, s) /\ x # Head(s) => Waits(x, t)
           /\ \A x : Once(x, s) => Once(x, t)
           /\ Once(Head(s), s) => ~Waits(Head(s), t)
<1>1. /\ t \in Seq(S) /\ Head(s) \in S /\ Head(s) = s[1] /\ 1 \in DOMAIN s
      /\ \A i \in DOMAIN t : i + 1 \in DOMAIN s /\ t[i] = s[i + 1] /\ i + 1 # 1
      /\ \A i \in DOMAIN s : i # 1 => i - 1 \in DOMAIN t /\ t[i - 1] = s[i]
      /\ \A i, j \in DOMAIN t : i + 1 = j + 1 => i = j
  BY TakenFrom
<1>2. \A x : (Waits(x, t) => Waits(x, s)) /\ (Waits(x, s) /\ x # Head(s) => Waits(x, t))
  <2>1. ASSUME NEW i \in DOMAIN t
        PROVE  Waits(t[i], s)
    BY <1>1 DEF Waits
  <2>2. ASSUME NEW i \in DOMAIN s, s[i] # Head(s)
        PROVE  Waits(s[i], t)
    <3>1. i - 1 \in DOMAIN t /\ t[i - 1] = s[i]
      BY <1>1, <2>2
    <3> QED
      BY <3>1 DEF Waits
  <2>3. ASSUME NEW x, Waits(x, t)
        PROVE  Waits(x, s)
    BY <2>1, <2>3 DEF Waits
  <2>4. ASSUME NEW x, Waits(x, s), x # Head(s)
        PROVE  Waits(x, t)
    <3>1. PICK i \in DOMAIN s : s[i] = x
      BY <2>4 DEF Waits
    <3> QED
      BY <2>2, <2>4, <3>1
  <2> QED
    BY <2>3, <2>4
<1>3. ASSUME NEW x, Once(x, s), NEW i \in DOMAIN t, NEW j \in DOMAIN t, t[i] = x, t[j] = x
      PROVE  i = j
  <2>1. i + 1 = j + 1
    BY <1>1, <1>3 DEF Once
  <2> QED
    BY <1>1, <2>1
<1>4. ASSUME Once(Head(s), s), NEW i \in DOMAIN t, t[i] = Head(s)
      PROVE  FALSE
  <2>1. s[i + 1] = s[1] /\ i + 1 \in DOMAIN s /\ 1 \in DOMAIN s
    BY <1>1, <1>4
  <2>2. i + 1 = 1
    BY <1>1, <1>4, <2>1 DEF Once
  <2> QED
    BY <1>1, <2>2
<1>5. \A x : Once(x, s) => Once(x, t)
  BY <1>3 DEF Once
<1>6. Once(Head(s), s) => ~Waits(Head(s), t)
  BY <1>4 DEF Waits
<1>7. Waits(Head(s), s)
  BY <1>1 DEF Waits
<1> QED
  BY <1>1, <1>2, <1>5, <1>6, <1>7

LEMMA TaskKinds ==
    /\ Push \in Task
    /\ \A c \in Clients : ListenRead(c) \in Task /\ ListenRead(c) # Push
    /\ \A f \in Fds : DeleteConn(f) \in Task /\ DeleteConn(f) # Push
    /\ \A c \in Clients : \A f \in Fds : ListenRead(c) # DeleteConn(f)
    /\ \A c, d : ListenRead(c) = ListenRead(d) => c = d
    /\ \A f, g : DeleteConn(f) = DeleteConn(g) => f = g
<1>1. \A c, d : ListenRead(c) = ListenRead(d) => c = d
  BY DEF ListenRead
<1>2. \A f, g : DeleteConn(f) = DeleteConn(g) => f = g
  BY DEF DeleteConn
<1>3. \A c, f : /\ ListenRead(c).kind = "listen_read" /\ DeleteConn(f).kind = "delete_conn"
               /\ Push.kind = "push"
  BY DEF ListenRead, DeleteConn, Push
<1> QED
  BY <1>1, <1>2, <1>3 DEF Task

\* The kernel has a lowest free descriptor to give as long as one is free.
LEMMA LowestIsFree ==
    ASSUME openFds \subseteq Fds, openFds # Fds
    PROVE  LowestFree \in Fds \ openFds
<1>1. ASSUME NEW S \in SUBSET Nat, S # {}
      PROVE  \E x \in S : \A y \in S : x <= y
  <2>1. PICK x \in S : \A y \in S : ~(<<y, x>> \in OpToRel(<, Nat))
    BY <1>1, NatLessThanWellFounded, WFMin, Zenon
  <2>2. \A y \in S : ~(y < x)
    BY <2>1, Zenon DEF OpToRel
  <2> QED
    BY <2>2
<1>2. PICK x \in Fds \ openFds : \A y \in Fds \ openFds : x <= y
  BY <1>1, FdsAssumption
<1> QED
  BY <1>2, Zenon DEF LowestFree

-----------------------------------------------------------------------------
(* The inductive invariant.                                                *)

\* the server's own reference to a connection
Held(c) == accepted = c \/ m_conns[conn[c].fd] = c

\* a client in the backlog has no tcp_conn yet, and waits there once
ClientInv ==
    /\ \A c \in Clients : inbox[c] <= asked[c]
    /\ \A c \in Clients : peer[c] = "absent" => conn[c].st = "none"
    /\ \A i \in DOMAIN backlog : peer[backlog[i]] # "absent" /\ conn[backlog[i]].st = "none"
    /\ \A i, j \in DOMAIN backlog : backlog[i] = backlog[j] => i = j
    /\ mainAt = "accept" => backlog # <<>>

\* nobody refers to an object that does not exist, and the descriptors in use
\* are those of the objects, one each
ObjectInv ==
    /\ \A c \in Clients : conn[c].st # "none" => conn[c].fd \in Fds
    /\ \A c \in alive : conn[c].st # "none"
    /\ \A c \in Clients : Referenced(c) => c \in alive
    /\ openFds = {conn[c].fd : c \in alive}
    /\ OneOwner
    /\ IsFiniteSet(alive) /\ s_conn_nums = Cardinality(alive)

\* the server holds a connection from accept until it reports the close
HoldInv ==
    /\ mainAt = "store" <=> accepted # None
    /\ \A f \in Fds : m_conns[f] # None => accepted # m_conns[f] /\ conn[m_conns[f]].fd = f
    /\ \A c \in Clients : conn[c].st = "kConnected" => Held(c)
    /\ \A c \in Clients : onClose[c] = IF conn[c].st # "none" /\ ~Held(c) THEN 1 ELSE 0

\* a delete task is the only one for its descriptor, and that descriptor is
\* still the one of a closed connection the server holds
DeleteInv ==
    \A f \in Fds :
        /\ Waits(DeleteConn(f), queue[Main]) =>
              \E c \in Clients : conn[c].st = "kDisconnected" /\ conn[c].fd = f /\ Held(c)
        /\ Once(DeleteConn(f), queue[Main])

OpenAt(c, l, f) == conn[c].st = "kConnected" /\ conn[c].loop = l /\ conn[c].fd = f

\* an io event has the read callback of an open connection, and the write
\* callback of the same
EntryOK(e, l, f) ==
    \/ e = NoEntry
    \/ /\ e.rcb # None /\ OpenAt(e.rcb, l, f)
       /\ e.wcb \in {None, e.rcb}
       /\ "IN" \in e.armed
       /\ "OUT" \in e.armed => e.wcb = e.rcb

TableInv ==
    /\ \A l \in Loops : \A f \in Fds :
          loopConns[l][f] = ioEvs[l][f].rcb /\ EntryOK(ioEvs[l][f], l, f)
    /\ OutputIsArmed
    /\ \A c \in Clients : conn[c].st # "kConnected" => conn[c].obuf = 0

\* a connection waits once to be registered, in its own loop, and is open
TaskInv ==
    \A l \in Loops : \A c \in Clients :
        /\ Waits(ListenRead(c), queue[l]) =>
              /\ conn[c].st = "kConnected" /\ conn[c].loop = l
              /\ ioEvs[l][conn[c].fd].rcb = None
              /\ ev[l].rcb # c
        /\ Once(ListenRead(c), queue[l])

\* the callbacks under way are those of one connection; a read that is not the
\* first callback, or comes after the close, finds nothing more to read
EvOK(e, l) ==
    IF ~e.on
        THEN e = NoEv
        ELSE /\ e.rcb \in Clients /\ e.wcb \in {None, e.rcb} /\ conn[e.rcb].loop = l
             /\ conn[e.rcb].st = "kConnected" => ioEvs[l][conn[e.rcb].fd].rcb = e.rcb
             /\ \A i \in DOMAIN e.calls :
                  /\ e.calls[i] = "write" => e.wcb = e.rcb
                  /\ e.calls[i] = "read" /\ (i # 1 \/ conn[e.rcb].st # "kConnected") =>
                        /\ peer[e.rcb] = "gone"
                        /\ e.calls[1] = "write" \/ conn[e.rcb].st # "kConnected" =>
                              inbox[e.rcb] = 0

EvInv == \A l \in Loops : EvOK(ev[l], l)

ServerInv ==
    TypeOK /\ ClientInv /\ ObjectInv /\ HoldInv /\ DeleteInv /\ TableInv /\ TaskInv /\ EvInv

-----------------------------------------------------------------------------
(* Types and references, taken apart.                                      *)

ConnState == [st : {"none", "kConnected", "kDisconnected"}, fd : Fds \cup {None},
              loop : IO, obuf : Nat]

Entry == [rcb : OptConn, wcb : OptConn, armed : SUBSET {"IN", "OUT"}]

IoEvent == [rcb : OptConn, wcb : OptConn, on : BOOLEAN, calls : Seq({"read", "write"})]

LEMMA Types ==
    ASSUME TypeOK
    PROVE  /\ conn \in [Clients -> ConnState]
           /\ ioEvs \in [Loops -> [Fds -> Entry]]
           /\ loopConns \in [Loops -> [Fds -> OptConn]]
           /\ ev \in [Loops -> IoEvent]
           /\ queue \in [Loops -> Seq(Task)]
           /\ \A c \in Clients :
                 /\ conn[c].st \in {"none", "kConnected", "kDisconnected"}
                 /\ conn[c].loop \in IO /\ conn[c].loop \in Loops /\ conn[c].loop # Main
                 /\ conn[c].obuf \in Nat
           /\ \A l \in Loops : queue[l] \in Seq(Task)
           /\ Main \in Loops
  BY LoopsAssumption, SMTT(20) DEF TypeOK, ConnState, Entry, IoEvent, Loops, IO, Main

\* What waits in a queue after a task was posted to it, or taken from it.
LEMMA TaskPosted ==
    ASSUME TypeOK, NEW l \in Loops, NEW task \in Task, queue'[l] = Append(queue[l], task)
    PROVE  /\ queue'[l] \in Seq(Task)
           /\ \A x : Waits(x, queue'[l]) <=> Waits(x, queue[l]) \/ x = task
           /\ \A x : Once(x, queue[l]) /\ (x = task => ~Waits(x, queue[l])) => Once(x, queue'[l])
<1> DEFINE s == queue[l]
           t == queue'[l]
<1>1. s \in Seq(Task) /\ t = Append(s, task)
  BY Types
<1> HIDE DEF s, t
<1>2. /\ t \in Seq(Task)
      /\ \A x : Waits(x, t) <=> Waits(x, s) \/ x = task
      /\ \A x : Once(x, s) /\ (x = task => ~Waits(x, s)) => Once(x, t)
  <2>1. /\ t \in Seq(Task)
        /\ \A i \in DOMAIN s : i \in DOMAIN t /\ t[i] = s[i] /\ i # Len(s) + 1
        /\ \A i \in DOMAIN t : i \in DOMAIN s \/ i = Len(s) + 1
        /\ Len(s) + 1 \in DOMAIN t /\ t[Len(s) + 1] = task
    BY <1>1, AppendedTo
  <2> QED
    BY <2>1 DEF Waits, Once
<1> QED
  BY <1>2 DEF s, t

LEMMA TaskTaken ==
    ASSUME TypeOK, NEW l \in Loops, queue[l] # <<>>, queue'[l] = Tail(queue[l])
    PROVE  LET task == Head(queue[l])
           IN  /\ queue'[l] \in Seq(Task) /\ task \in Task /\ Waits(task, queue[l])
               /\ \A x : Waits(x, queue'[l]) => Waits(x, queue[l])
               /\ \A x : Waits(x, queue[l]) /\ x # task => Waits(x, queue'[l])
               /\ \A x : Once(x, queue[l]) => Once(x, queue'[l])
               /\ Once(task, queue[l]) => ~Waits(task, queue'[l])
<1> DEFINE s == queue[l]
           t == queue'[l]
<1>1. s \in Seq(Task) /\ t = Tail(s) /\ s # <<>>
  BY Types
<1> HIDE DEF s, t
<1>2. /\ t \in Seq(Task) /\ Head(s) \in Task /\ Waits(Head(s), s)
      /\ \A x : Waits(x, t) => Waits(x, s)
      /\ \A x : Waits(x, s) /\ x # Head(s) => Waits(x, t)
      /\ \A x : Once(x, s) => Once(x, t)
      /\ Once(Head(s), s) => ~Waits(Head(s), t)
  BY <1>1, WaitsTaken
<1> QED
  BY <1>2 DEF s, t

AtMain(c) == accepted = c \/ \E f \in Fds : m_conns[f] = c

InQueue(c) == \E l \in Loops : Waits(ListenRead(c), queue[l])

InTables(c) ==
    \E l \in Loops : \E f \in Fds :
        c = ioEvs[l][f].rcb \/ c = ioEvs[l][f].wcb \/ c = loopConns[l][f]

InEv(c) == \E l \in Loops : c = ev[l].rcb \/ c = ev[l].wcb

LEMMA References ==
    ASSUME NEW c
    PROVE  /\ Referenced(c) <=> AtMain(c) \/ InQueue(c) \/ InTables(c) \/ InEv(c)
           /\ Referenced(c)' <=> AtMain(c)' \/ InQueue(c)' \/ InTables(c)' \/ InEv(c)'
  BY DEF Referenced, AtMain, InQueue, InTables, InEv, Waits

LEMMA InitServerInv == Init => ServerInv
<1> SUFFICES ASSUME Init PROVE ServerInv
  OBVIOUS
<1> USE DEF Init
<1>1. TypeOK
  <2>1. /\ backlog \in Seq(Clients) /\ queue \in [Loops -> Seq(Task)]
        /\ NoEv \in IoEvent
    BY EmptySeq DEF NoEv, IoEvent, OptConn
  <2>2. 1 \in IO /\ 0 \in 0 .. IOLoops
    BY LoopsAssumption DEF IO
  <2>3. conn \in [Clients -> ConnState]
    BY <2>2 DEF ConnState
  <2>4. ioEvs \in [Loops -> [Fds -> Entry]]
    BY DEF Entry, NoEntry, OptConn
  <2>5. /\ inbox \in [Clients -> 0 .. MaxMsgs] /\ asked \in [Clients -> 0 .. MaxMsgs]
        /\ pushes \in 0 .. MaxPushes
    BY BoundsAssumption
  <2>6. /\ m_conns \in [Fds -> OptConn] /\ accepted \in OptConn
        /\ loopConns \in [Loops -> [Fds -> OptConn]]
    BY DEF OptConn
  <2> QED
    BY <2>1, <2>2, <2>3, <2>4, <2>5, <2>6 DEF TypeOK, ConnState, Entry, IoEvent
<1>2. ClientInv
  BY BoundsAssumption DEF ClientInv
<1>3. ObjectInv
  <2>1. \A c \in Clients : ~Referenced(c)
    BY NoneAssumption, References DEF AtMain, InQueue, InTables, InEv, NoEntry, NoEv, Waits
  <2> QED
    BY <2>1, FS_EmptySet DEF ObjectInv, OneOwner
<1>4. HoldInv /\ DeleteInv /\ TaskInv /\ EvInv
  BY NoneAssumption DEF HoldInv, DeleteInv, TaskInv, EvInv, EvOK, Loops, NoEv, Waits, Once
<1>5. TableInv
  BY DEF TableInv, EntryOK, OutputIsArmed, NoEntry
<1> QED
  BY <1>1, <1>2, <1>3, <1>4, <1>5 DEF ServerInv

-----------------------------------------------------------------------------
(* What steps have in common.                                              *)

SameOwners ==
    \A c \in Clients :
        /\ conn'[c].fd = conn[c].fd /\ conn'[c].loop = conn[c].loop
        /\ conn'[c].st = "none" <=> conn[c].st = "none"
        /\ conn[c].st = "kDisconnected" => conn'[c].st = "kDisconnected"

\* ~tcp_conn and ~csocket: the objects that nobody refers to any more, with their
\* descriptors and their share of s_conn_nums.
LEMMA Destroyed ==
    ASSUME TypeOK, ObjectInv, SameOwners, Destructors,
           \A c \in Clients : Referenced(c)' => c \in alive
    PROVE  /\ ObjectInv'
           /\ alive' = {c \in alive : Referenced(c)'}
           /\ openFds' \subseteq openFds
           /\ s_conn_nums' \in Nat /\ s_conn_nums' <= s_conn_nums
<1> DEFINE dead == {c \in alive : ~Referenced(c)'}
<1>1. /\ alive' = alive \ dead
      /\ s_conn_nums' = s_conn_nums - Cardinality(dead)
      /\ openFds' = openFds \ {conn[c].fd : c \in dead}
  BY DEF Destructors
<1>2. alive \subseteq Clients /\ dead \subseteq alive
  BY DEF TypeOK
<1>3. /\ IsFiniteSet(alive) /\ s_conn_nums = Cardinality(alive)
      /\ openFds = {conn[c].fd : c \in alive}
      /\ \A c, d \in alive : conn[c].fd = conn[d].fd => c = d
  BY DEF ObjectInv, OneOwner
<1>4. alive' = {c \in alive : Referenced(c)'}
  BY <1>1
<1>5. IsFiniteSet(alive') /\ s_conn_nums' = Cardinality(alive')
  <2> HIDE DEF dead
  <2>1. alive \cap dead = dead
    BY <1>2
  <2> QED
    BY <1>1, <1>3, <2>1, FS_Difference
<1>6. s_conn_nums' \in Nat /\ s_conn_nums' <= s_conn_nums
  <2> HIDE DEF dead
  <2>1. Cardinality(dead) \in Nat /\ Cardinality(alive') \in Nat /\ Cardinality(alive) \in Nat
    BY <1>2, <1>3, <1>5, FS_CardinalityType, FS_Subset
  <2> QED
    BY <1>1, <1>3, <1>5, <2>1
<1>7. openFds' = {conn[c].fd : c \in alive'}
  BY <1>1, <1>2, <1>3
<1>8. {conn[c].fd : c \in alive'} = {conn'[c].fd : c \in alive'}
  BY <1>2, <1>4 DEF SameOwners
<1>9. OneOwner'
  BY <1>2, <1>3, <1>4 DEF OneOwner, SameOwners
<1>10. \A c \in Clients : Referenced(c)' => c \in alive'
  BY <1>4
<1>11. /\ \A c \in Clients : conn'[c].st # "none" => conn'[c].fd \in Fds
       /\ \A c \in alive' : conn'[c].st # "none"
  BY <1>2, <1>4 DEF ObjectInv, SameOwners
<1>12. ObjectInv'
  BY <1>5, <1>7, <1>8, <1>9, <1>10, <1>11 DEF ObjectInv
<1> QED
  BY <1>1, <1>4, <1>6, <1>12

\* A step that drops no object.
LEMMA NoneDestroyed ==
    ASSUME TypeOK, ObjectInv, SameOwners, UNCHANGED objects,
           \A c \in Clients : Referenced(c)' => c \in alive
    PROVE  ObjectInv'
<1>1. alive \subseteq Clients /\ UNCHANGED <<openFds, alive, s_conn_nums>>
  BY DEF TypeOK, objects
<1>2. {conn[c].fd : c \in alive} = {conn'[c].fd : c \in alive}
  BY <1>1 DEF SameOwners
<1> QED
  BY <1>1, <1>2 DEF ObjectInv, OneOwner, SameOwners

\* A step that leaves the server's own references alone: connections may close.
LEMMA HoldKept ==
    ASSUME TypeOK, HoldInv, SameOwners, UNCHANGED <<server, onClose>>
    PROVE  /\ HoldInv'
           /\ \A c \in Clients : Held(c)' <=> Held(c)
<1>1. \A c \in Clients : Held(c)' <=> Held(c)
  BY DEF Held, SameOwners, server
<1>2. \A f \in Fds : m_conns[f] # None =>
         accepted # m_conns[f] /\ conn'[m_conns[f]].fd = f
  BY DEF HoldInv, SameOwners, TypeOK, OptConn
<1>3. \A c \in Clients : conn'[c].st = "kConnected" => conn[c].st = "kConnected"
  BY Types DEF SameOwners
<1>4. /\ mainAt = "store" <=> accepted # None
      /\ \A c \in Clients : conn'[c].st = "kConnected" => Held(c)'
      /\ \A c \in Clients : onClose[c] = IF conn'[c].st # "none" /\ ~Held(c)' THEN 1 ELSE 0
  BY <1>1, <1>3 DEF HoldInv, SameOwners
<1>5. UNCHANGED <<m_conns, mainAt, accepted, onClose>>
  BY DEF server
<1> QED
  BY <1>1, <1>2, <1>4, <1>5 DEF HoldInv

-----------------------------------------------------------------------------
(* The clients, and the steps of the main loop that touch no connection.   *)

\* What a client has sent and whether it is there matters to the callbacks under
\* way only when it has left, and then it sends no more.
LEMMA ConnsKept ==
    ASSUME ServerInv,
           UNCHANGED <<objects, conn, m_conns, accepted, queue, tables, ev, onClose>>,
           mainAt' = mainAt \/ {mainAt, mainAt'} \subseteq {"wait", "accept"},
           \A c \in Clients : peer[c] = "gone" => peer'[c] = "gone" /\ inbox'[c] = inbox[c]
    PROVE  ObjectInv' /\ HoldInv' /\ DeleteInv' /\ TableInv' /\ TaskInv' /\ EvInv'
<1> USE DEF ServerInv
<1>1. ObjectInv'
  <2>1. \A c \in Clients : Referenced(c)' <=> Referenced(c)
    BY References DEF AtMain, InQueue, InTables, InEv, tables
  <2> QED
    BY <2>1 DEF ObjectInv, OneOwner, objects
<1>2. HoldInv' /\ DeleteInv'
  BY DEF HoldInv, DeleteInv, Held
<1>3. TableInv' /\ TaskInv'
  BY DEF TableInv, TaskInv, EntryOK, OpenAt, OutputIsArmed, tables
<1>4. EvInv'
  <2>1. ASSUME NEW l \in Loops PROVE EvOK(ev[l], l)'
    <3>1. EvOK(ev[l], l)
      BY DEF EvInv
    <3> QED
      BY <3>1 DEF EvOK, tables
  <2> QED
    BY <2>1 DEF EvInv
<1> QED
  BY <1>1, <1>2, <1>3, <1>4

LEMMA WorldStep ==
    ASSUME ServerInv, NEW c \in Clients, Connect(c) \/ Ask(c) \/ Leave(c)
    PROVE  ServerInv'
<1> USE DEF ServerInv
<1>1. UNCHANGED <<objects, conn, server, queue, tables, ev, onClose, pushes>>
  BY DEF Connect, Ask, Leave
<1>2. \A d \in Clients : peer[d] = "gone" => peer'[d] = "gone" /\ inbox'[d] = inbox[d]
  BY DEF Connect, Ask, Leave, TypeOK
<1>3. ObjectInv' /\ HoldInv' /\ DeleteInv' /\ TableInv' /\ TaskInv' /\ EvInv'
  BY <1>1, <1>2, ConnsKept DEF server
<1>4. /\ peer' \in [Clients -> {"absent", "up", "gone"}]
      /\ inbox' \in [Clients -> 0 .. MaxMsgs] /\ asked' \in [Clients -> 0 .. MaxMsgs]
      /\ backlog' \in Seq(Clients)
      /\ \A d \in Clients : inbox'[d] <= asked'[d]
  <2>1. CASE Connect(c)
    BY <2>1, AppendedTo DEF Connect, TypeOK, ClientInv
  <2>2. CASE Ask(c)
    <3>1. inbox[c] + 1 \in 0 .. MaxMsgs /\ asked[c] + 1 \in 0 .. MaxMsgs
      <4>1. /\ inbox[c] \in 0 .. MaxMsgs /\ asked[c] \in 0 .. MaxMsgs
            /\ asked[c] < MaxMsgs /\ inbox[c] <= asked[c] /\ MaxMsgs \in Nat
        BY <2>2, BoundsAssumption DEF Ask, TypeOK, ClientInv
      <4> QED
        BY <4>1
    <3>2. inbox'[c] = inbox[c] + 1 /\ asked'[c] = asked[c] + 1
      BY <2>2 DEF Ask, TypeOK
    <3> QED
      BY <2>2, <3>1, <3>2, SMTT(20) DEF Ask, TypeOK, ClientInv
  <2>3. CASE Leave(c)
    BY <2>3 DEF Leave, TypeOK, ClientInv
  <2> QED
    BY <2>1, <2>2, <2>3
<1>5. TypeOK'
  BY <1>1, <1>4 DEF TypeOK, objects, server, tables
<1>6. ClientInv'
  <2>1. CASE Connect(c)
    <3>1. /\ peer'[c] = "up" /\ \A d \in Clients : d # c => peer'[d] = peer[d]
          /\ backlog' = Append(backlog, c) /\ backlog \in Seq(Clients)
          /\ conn[c].st = "none" /\ peer[c] = "absent"
      BY <2>1 DEF Connect, TypeOK, ClientInv
    <3>2. \A i \in DOMAIN backlog : backlog[i] \in Clients /\ backlog[i] # c
      BY <3>1, ElementOfSeq, LenProperties DEF ClientInv
    <3>3. /\ backlog' # <<>>
          /\ \A i \in DOMAIN backlog' : i \in DOMAIN backlog \/ i = Len(backlog) + 1
          /\ \A i \in DOMAIN backlog : backlog'[i] = backlog[i]
          /\ backlog'[Len(backlog) + 1] = c
      BY <3>1, AppendedTo
    <3>4. \A i, j \in DOMAIN backlog' : backlog'[i] = backlog'[j] => i = j
      BY <3>2, <3>3 DEF ClientInv
    <3>5. \A i \in DOMAIN backlog' :
            peer'[backlog'[i]] # "absent" /\ conn[backlog'[i]].st = "none"
      BY <3>1, <3>2, <3>3 DEF ClientInv
    <3>6. \A d \in Clients : peer'[d] = "absent" => conn[d].st = "none"
      BY <3>1 DEF ClientInv
    <3>7. UNCHANGED <<conn, mainAt>>
      BY <1>1 DEF server
    <3> QED
      BY <1>4, <3>3, <3>4, <3>5, <3>6, <3>7 DEF ClientInv
  <2>2. CASE Ask(c) \/ Leave(c)
    <3>1. UNCHANGED <<backlog, conn, mainAt>>
      BY <1>1, <2>2 DEF Ask, Leave, server
    <3>2. \A d \in Clients : peer'[d] = "absent" <=> peer[d] = "absent"
      BY <2>2 DEF Ask, Leave, TypeOK
    <3>3. \A i \in DOMAIN backlog : backlog[i] \in Clients
      BY ElementOfSeq, LenProperties DEF TypeOK
    <3> QED
      BY <1>4, <3>1, <3>2, <3>3 DEF ClientInv
  <2> QED
    BY <2>1, <2>2
<1> QED
  BY <1>3, <1>5, <1>6

LEMMA ListenReadableStep ==
    ASSUME ServerInv, ListenReadable
    PROVE  ServerInv'
<1> USE DEF ServerInv
<1>1. /\ UNCHANGED <<world, objects, conn, m_conns, m_next, accepted, queue, tables, ev,
                     onClose, pushes>>
      /\ mainAt = "wait" /\ mainAt' = "accept" /\ backlog # <<>>
  BY DEF ListenReadable
<1>2. ObjectInv' /\ HoldInv' /\ DeleteInv' /\ TableInv' /\ TaskInv' /\ EvInv'
  BY <1>1, ConnsKept DEF world
<1>3. TypeOK' /\ ClientInv'
  BY <1>1 DEF TypeOK, ClientInv, world, objects, tables
<1> QED
  BY <1>2, <1>3

\* The first in the backlog is taken from it; the others wait on.
LEMMA BacklogTaken ==
    ASSUME TypeOK, ClientInv, mainAt = "accept", backlog' = Tail(backlog)
    PROVE  /\ Head(backlog) \in Clients /\ conn[Head(backlog)].st = "none"
           /\ peer[Head(backlog)] # "absent"
           /\ backlog' \in Seq(Clients)
           /\ \A i \in DOMAIN backlog' : /\ backlog'[i] \in Clients /\ backlog'[i] # Head(backlog)
                                         /\ peer[backlog'[i]] # "absent"
                                         /\ conn[backlog'[i]].st = "none"
           /\ \A i, j \in DOMAIN backlog' : backlog'[i] = backlog'[j] => i = j
<1>1. backlog \in Seq(Clients) /\ backlog # <<>>
  BY DEF TypeOK, ClientInv
<1>2. /\ Head(backlog) \in Clients /\ Head(backlog) = backlog[1] /\ 1 \in DOMAIN backlog
      /\ backlog' \in Seq(Clients)
      /\ \A i \in DOMAIN backlog' :
            i + 1 \in DOMAIN backlog /\ backlog'[i] = backlog[i + 1] /\ i + 1 # 1
      /\ \A i, j \in DOMAIN backlog' : i + 1 = j + 1 => i = j
  BY <1>1, TakenFrom
<1>3. \A i \in DOMAIN backlog' : backlog'[i] \in Clients
  BY <1>2, ElementOfSeq, LenProperties
<1> QED
  BY <1>2, <1>3 DEF ClientInv

LEMMA AcceptTooManyStep ==
    ASSUME ServerInv, AcceptTooMany
    PROVE  ServerInv'
<1> USE DEF ServerInv
<1>1. /\ mainAt = "accept" /\ mainAt' = "wait" /\ backlog' = Tail(backlog)
      /\ UNCHANGED <<peer, inbox, asked, objects, conn, m_conns, m_next, accepted, queue,
                     tables, ev, onClose, pushes>>
  BY DEF AcceptTooMany
<1>2. ObjectInv' /\ HoldInv' /\ DeleteInv' /\ TableInv' /\ TaskInv' /\ EvInv'
  BY <1>1, ConnsKept
<1>3. TypeOK' /\ ClientInv'
  BY <1>1, BacklogTaken DEF TypeOK, ClientInv, objects, tables
<1> QED
  BY <1>2, <1>3

\* A push for every loop is a task of its own kind.
LEMMA SendTaskStep ==
    ASSUME ServerInv, SendTask
    PROVE  ServerInv'
<1> USE DEF ServerInv
<1>1. /\ UNCHANGED <<world, objects, conn, server, tables, ev, onClose>>
      /\ pushes' = pushes + 1 /\ pushes < MaxPushes
      /\ queue' = [l \in Loops |-> Append(queue[l], Push)]
  BY DEF SendTask
<1>2. \A l \in Loops :
        /\ queue'[l] \in Seq(Task)
        /\ \A x : Waits(x, queue'[l]) <=> Waits(x, queue[l]) \/ x = Push
        /\ \A x : Once(x, queue[l]) /\ x # Push => Once(x, queue'[l])
  <2>1. ASSUME NEW l \in Loops
        PROVE  /\ queue'[l] \in Seq(Task)
               /\ \A x : Waits(x, queue'[l]) <=> Waits(x, queue[l]) \/ x = Push
               /\ \A x : Once(x, queue[l]) /\ x # Push => Once(x, queue'[l])
    <3>1. Push \in Task
      BY TaskKinds
    <3>2. queue'[l] = Append(queue[l], Push)
      BY <1>1
    <3> QED
      BY <3>1, <3>2, TaskPosted
  <2> QED
    BY <2>1
<1>3. TypeOK'
  <2>1. pushes' \in 0 .. MaxPushes
    BY <1>1, BoundsAssumption DEF TypeOK
  <2>2. queue' \in [Loops -> Seq(Task)]
    BY <1>1, <1>2
  <2> QED
    BY <1>1, <2>1, <2>2 DEF TypeOK, world, objects, server, tables
<1>4. ClientInv' /\ HoldInv' /\ TableInv' /\ EvInv'
  <2>1. ClientInv' /\ HoldInv' /\ TableInv'
    BY <1>1 DEF ClientInv, HoldInv, Held, TableInv, EntryOK, OpenAt, OutputIsArmed,
                world, server, tables
  <2>2. EvInv'
    <3>1. ASSUME NEW l \in Loops PROVE EvOK(ev[l], l)'
      <4>1. EvOK(ev[l], l)
        BY DEF EvInv
      <4> QED
        BY <1>1, <4>1 DEF EvOK, tables, world
    <3> QED
      BY <3>1 DEF EvInv
  <2> QED
    BY <2>1, <2>2
<1>5. ObjectInv'
  <2>1. \A c \in Clients : Referenced(c)' => Referenced(c)
    BY <1>1, <1>2, TaskKinds, References DEF AtMain, InQueue, InTables, InEv, server, tables
  <2> QED
    BY <1>1, <2>1, NoneDestroyed DEF ObjectInv, SameOwners
<1>6. DeleteInv' /\ TaskInv'
  BY <1>1, <1>2, Types, TaskKinds DEF DeleteInv, TaskInv, Held, server, tables
<1> QED
  BY <1>3, <1>4, <1>5, <1>6

-----------------------------------------------------------------------------
(* The main loop: a connection is accepted, stored and deleted.            *)

\* An object that does not exist is in none of the places that hold references.
LEMMA Unreferenced ==
    ASSUME ObjectInv, NEW c \in Clients, c \notin alive
    PROVE  /\ accepted # c /\ \A f \in Fds : m_conns[f] # c
           /\ \A l \in Loops : ~Waits(ListenRead(c), queue[l]) /\ ev[l].rcb # c /\ ev[l].wcb # c
           /\ \A l \in Loops : \A f \in Fds :
                 ioEvs[l][f].rcb # c /\ ioEvs[l][f].wcb # c /\ loopConns[l][f] # c
  BY References DEF ObjectInv, AtMain, InQueue, InTables, InEv

LEMMA AcceptConnStep ==
    ASSUME ServerInv, AcceptConn
    PROVE  ServerInv'
<1> USE DEF ServerInv
<1>0. PICK c, l, f : c = Head(backlog) /\ l = NextLoop + 1 /\ f = LowestFree
  OBVIOUS
<1>1. /\ mainAt = "accept" /\ mainAt' = "store" /\ accepted' = c
      /\ openFds # Fds /\ openFds' = openFds \cup {f} /\ alive' = alive \cup {c}
      /\ s_conn_nums' = s_conn_nums + 1 /\ m_next' = l /\ backlog' = Tail(backlog)
      /\ conn' = [conn EXCEPT ![c] = [st |-> "kConnected", fd |-> f, loop |-> l, obuf |-> 0]]
      /\ queue' = [queue EXCEPT ![l] = Append(@, ListenRead(c))]
      /\ UNCHANGED <<peer, inbox, asked, m_conns, tables, ev, onClose, pushes>>
  BY <1>0 DEF AcceptConn, AcceptAny
<1>2. /\ c \in Clients /\ conn[c].st = "none" /\ peer[c] # "absent"
      /\ backlog' \in Seq(Clients)
      /\ \A i \in DOMAIN backlog' : /\ backlog'[i] \in Clients /\ backlog'[i] # c
                                    /\ peer[backlog'[i]] # "absent" /\ conn[backlog'[i]].st = "none"
      /\ \A i, j \in DOMAIN backlog' : backlog'[i] = backlog'[j] => i = j
  BY <1>0, <1>1, BacklogTaken
<1>3. l \in IO /\ l \in Loops /\ l # Main
  BY <1>0, LoopsAssumption DEF NextLoop, IO, Loops, Main, TypeOK
<1>4. f \in Fds /\ f \notin openFds
  BY <1>0, <1>1, LowestIsFree DEF TypeOK
<1>5. c \notin alive /\ c # None /\ accepted = None
  BY <1>1, <1>2, NoneAssumption DEF ObjectInv, HoldInv
<1>6. /\ conn' \in [Clients -> ConnState]
      /\ conn'[c] = [st |-> "kConnected", fd |-> f, loop |-> l, obuf |-> 0]
      /\ \A d \in Clients : d # c => conn'[d] = conn[d]
  <2>1. [st |-> "kConnected", fd |-> f, loop |-> l, obuf |-> 0] \in ConnState
    BY <1>3, <1>4 DEF ConnState
  <2> QED
    BY <1>1, <1>2, <2>1, Types
<1>7. /\ queue' \in [Loops -> Seq(Task)]
      /\ \A m \in Loops : m # l => queue'[m] = queue[m]
      /\ \A x : Waits(x, queue'[l]) <=> Waits(x, queue[l]) \/ x = ListenRead(c)
      /\ \A x : Once(x, queue[l]) /\ (x = ListenRead(c) => ~Waits(x, queue[l]))
                => Once(x, queue'[l])
  <2>1. queue'[l] = Append(queue[l], ListenRead(c)) /\ ListenRead(c) \in Task
    BY <1>1, <1>2, <1>3, Types, TaskKinds
  <2>2. queue'[l] \in Seq(Task)
    BY <1>3, <2>1, TaskPosted
  <2> QED
    BY <1>1, <1>3, <2>1, <2>2, TaskPosted, Types
<1>8. /\ \A g \in Fds : m_conns[g] # c
      /\ \A m \in Loops : ~Waits(ListenRead(c), queue[m]) /\ ev[m].rcb # c /\ ev[m].wcb # c
      /\ \A m \in Loops : \A g \in Fds :
            ioEvs[m][g].rcb # c /\ ioEvs[m][g].wcb # c /\ loopConns[m][g] # c
  BY <1>2, <1>5, Unreferenced
<1>9. TypeOK'
  <2>1. l \in 0 .. IOLoops
    BY <1>3, LoopsAssumption DEF IO
  <2>2. openFds' \subseteq Fds /\ alive' \subseteq Clients /\ accepted' \in OptConn
    BY <1>1, <1>2, <1>4 DEF TypeOK, OptConn
  <2>3. s_conn_nums' \in Nat
    BY <1>1 DEF TypeOK
  <2> QED
    BY <1>1, <1>2, <1>6, <1>7, <2>1, <2>2, <2>3 DEF TypeOK, ConnState, tables
<1>10. ClientInv'
  BY <1>1, <1>2, <1>6 DEF ClientInv
<1>11. ObjectInv'
  <2>1. \A d \in Clients : Referenced(d)' => d \in alive'
    <3>1. ASSUME NEW d \in Clients, Referenced(d)', d # c PROVE Referenced(d)
      <4>1. AtMain(d)' => AtMain(d)
        BY <1>1, <3>1 DEF AtMain
      <4>2. InQueue(d)' => InQueue(d)
        BY <1>7, <3>1, TaskKinds DEF InQueue
      <4>3. (InTables(d)' => InTables(d)) /\ (InEv(d)' => InEv(d))
        BY <1>1 DEF InTables, InEv, tables
      <4> QED
        BY <3>1, <4>1, <4>2, <4>3, References
    <3> QED
      BY <1>1, <3>1 DEF ObjectInv
  <2>2. IsFiniteSet(alive') /\ s_conn_nums' = Cardinality(alive')
    BY <1>1, <1>5, FS_AddElement DEF ObjectInv
  <2>3. \A d \in alive : d \in Clients /\ d # c /\ conn'[d] = conn[d] /\ conn[d].fd # f
    BY <1>4, <1>5, <1>6 DEF ObjectInv, TypeOK
  <2>4. openFds' = {conn'[d].fd : d \in alive'}
    BY <1>1, <1>6, <2>3 DEF ObjectInv
  <2>5. OneOwner'
    BY <1>1, <1>6, <2>3 DEF ObjectInv, OneOwner
  <2>6. /\ \A d \in Clients : conn'[d].st # "none" => conn'[d].fd \in Fds
        /\ \A d \in alive' : conn'[d].st # "none"
    BY <1>1, <1>4, <1>6, <2>3 DEF ObjectInv
  <2> QED
    BY <2>1, <2>2, <2>4, <2>5, <2>6 DEF ObjectInv
<1>12. /\ accepted' = c /\ m_conns' = m_conns /\ onClose' = onClose /\ mainAt' = "store"
       /\ Held(c)' /\ \A d \in Clients : d # c => (Held(d)' <=> Held(d))
  <2>1. accepted' = c /\ m_conns' = m_conns /\ onClose' = onClose /\ mainAt' = "store"
    BY <1>1
  <2>2. \A d \in Clients : d # c => (Held(d)' <=> Held(d))
    <3>1. \A d \in Clients : d # c => accepted # d /\ conn'[d].fd = conn[d].fd
      BY <1>5, <1>6, NoneAssumption
    <3> QED
      BY <2>1, <3>1 DEF Held
  <2> QED
    BY <2>1, <2>2 DEF Held
<1>13. HoldInv'
  <2>1. \A g \in Fds : m_conns[g] # None => accepted' # m_conns[g] /\ conn'[m_conns[g]].fd = g
    <3>1. ASSUME NEW g \in Fds, m_conns[g] # None
          PROVE  m_conns[g] \in Clients /\ m_conns[g] # c /\ conn[m_conns[g]].fd = g
      BY <1>8, <3>1 DEF HoldInv, TypeOK, OptConn
    <3> QED
      BY <1>6, <1>12, <3>1
  <2>2. \A d \in Clients : conn'[d].st = "kConnected" => Held(d)'
    <3>1. \A d \in Clients : d # c /\ conn'[d].st = "kConnected" => Held(d)
      BY <1>6 DEF HoldInv
    <3> QED
      BY <1>12, <3>1
  <2>3. \A d \in Clients : onClose[d] = IF conn'[d].st # "none" /\ ~Held(d)' THEN 1 ELSE 0
    <3>1. \A d \in Clients : onClose[d] = IF conn[d].st # "none" /\ ~Held(d) THEN 1 ELSE 0
      BY DEF HoldInv
    <3>2. onClose[c] = 0
      BY <1>2, <3>1
    <3> QED
      BY <1>6, <1>12, <3>1, <3>2
  <2> QED
    BY <1>5, <1>12, <2>1, <2>2, <2>3 DEF HoldInv
<1>14. DeleteInv'
  <2>1. queue'[Main] = queue[Main]
    BY <1>3, <1>7, Types
  <2>2. \A d \in Clients : conn[d].st = "kDisconnected" => d # c
    BY <1>2
  <2> QED
    BY <1>6, <1>12, <2>1, <2>2 DEF DeleteInv
<1>15. TableInv'
  <2>1. ASSUME NEW m \in Loops, NEW g \in Fds PROVE EntryOK(ioEvs[m][g], m, g)'
    <3>1. EntryOK(ioEvs[m][g], m, g) /\ ioEvs[m][g].rcb # c /\ ioEvs[m][g].rcb \in OptConn
      BY <1>8, Types DEF TableInv, Entry
    <3> QED
      BY <1>1, <1>6, <3>1 DEF EntryOK, OpenAt, tables, OptConn
  <2>2. OutputIsArmed'
    BY <1>1, <1>6 DEF TableInv, OutputIsArmed, tables
  <2>3. \A d \in Clients : conn'[d].st # "kConnected" => conn'[d].obuf = 0
    BY <1>6 DEF TableInv
  <2> QED
    BY <1>1, <2>1, <2>2, <2>3 DEF TableInv, tables
<1>16. TaskInv'
  <2>1. ASSUME NEW m \in Loops, NEW d \in Clients, d # c \/ m # l
        PROVE  /\ Waits(ListenRead(d), queue'[m]) <=> Waits(ListenRead(d), queue[m])
               /\ Once(ListenRead(d), queue[m]) => Once(ListenRead(d), queue'[m])
    BY <1>7, <2>1, TaskKinds
  <2>2. ASSUME NEW m \in Loops, NEW d \in Clients, d # c
        PROVE  /\ Waits(ListenRead(d), queue'[m]) =>
                    /\ conn'[d].st = "kConnected" /\ conn'[d].loop = m
                    /\ ioEvs[m][conn'[d].fd].rcb = None /\ ev[m].rcb # d
               /\ Once(ListenRead(d), queue'[m])
    BY <1>6, <2>1, <2>2 DEF TaskInv
  <2>3. ioEvs[l][f].rcb = None
    <3>1. ioEvs[l][f] # NoEntry => ioEvs[l][f].rcb \in Clients /\ conn[ioEvs[l][f].rcb].fd = f
      BY <1>3, <1>4, Types DEF TableInv, EntryOK, OpenAt, Entry, OptConn
    <3>2. ioEvs[l][f] # NoEntry => ioEvs[l][f].rcb \in alive
      BY <1>3, <1>4, <3>1, Unreferenced
    <3> QED
      BY <1>4, <3>1, <3>2 DEF ObjectInv, NoEntry
  <2>4. ASSUME NEW m \in Loops
        PROVE  /\ Waits(ListenRead(c), queue'[m]) =>
                    /\ conn'[c].st = "kConnected" /\ conn'[c].loop = m
                    /\ ioEvs[m][conn'[c].fd].rcb = None /\ ev[m].rcb # c
               /\ Once(ListenRead(c), queue'[m])
    <3>1. Once(ListenRead(c), queue[m]) /\ ~Waits(ListenRead(c), queue[m])
      BY <1>2, <1>8 DEF TaskInv
    <3> QED
      BY <1>6, <1>7, <1>8, <2>3, <3>1
  <2> QED
    BY <1>1, <2>2, <2>4 DEF TaskInv, tables
<1>17. EvInv'
  <2>1. ASSUME NEW m \in Loops PROVE EvOK(ev[m], m)'
    <3>1. EvOK(ev[m], m) /\ ev[m].rcb # c
      BY <1>8 DEF EvInv
    <3> QED
      BY <1>1, <1>6, <3>1 DEF EvOK, tables
  <2> QED
    BY <2>1 DEF EvInv
<1> QED
  BY <1>9, <1>10, <1>11, <1>13, <1>14, <1>15, <1>16, <1>17

\* A step of the main loop that leaves the loops' tables, their callbacks and the
\* connections alone, and posts no connection to them.
LEMMA LoopsKept ==
    ASSUME ServerInv, UNCHANGED <<world, conn, tables, ev>>,
           \A l \in Loops : \A c \in Clients :
              /\ Waits(ListenRead(c), queue'[l]) => Waits(ListenRead(c), queue[l])
              /\ Once(ListenRead(c), queue[l]) => Once(ListenRead(c), queue'[l])
    PROVE  TableInv' /\ TaskInv' /\ EvInv'
<1> USE DEF ServerInv
<1>1. UNCHANGED <<peer, inbox, ioEvs, loopConns>>
  BY DEF world, tables
<1>2. TableInv'
  BY <1>1 DEF TableInv, EntryOK, OpenAt, OutputIsArmed
<1>3. TaskInv'
  BY <1>1 DEF TaskInv
<1>4. EvInv'
  <2>1. ASSUME NEW l \in Loops PROVE EvOK(ev[l], l)'
    <3>1. EvOK(ev[l], l)
      BY DEF EvInv
    <3> QED
      BY <1>1, <3>1 DEF EvOK
  <2> QED
    BY <2>1 DEF EvInv
<1> QED
  BY <1>2, <1>3, <1>4

LEMMA StoreConnStep ==
    ASSUME ServerInv, StoreConn
    PROVE  ServerInv'
<1> USE DEF ServerInv
<1>0. PICK c, f : c = accepted /\ f = conn[c].fd
  OBVIOUS
<1>1. /\ mainAt = "store" /\ mainAt' = "wait" /\ accepted = c /\ accepted' = None
      /\ m_conns' = [m_conns EXCEPT ![f] = c]
      /\ UNCHANGED <<world, conn, m_next, queue, tables, ev, onClose, pushes>>
      /\ Destructors
  BY <1>0 DEF StoreConn
<1>2. c \in Clients /\ c \in alive /\ conn[c].st # "none" /\ f \in Fds /\ c # None
  <2>1. c \in Clients /\ c # None
    BY <1>1 DEF HoldInv, TypeOK, OptConn
  <2>2. c \in alive
    BY <1>1, <2>1, Unreferenced
  <2> QED
    BY <1>0, <2>1, <2>2 DEF ObjectInv
<1>3. m_conns[f] = None
  <2>1. SUFFICES ASSUME m_conns[f] # None PROVE FALSE
    OBVIOUS
  <2>2. m_conns[f] \in Clients /\ m_conns[f] # c /\ conn[m_conns[f]].fd = f
    BY <1>1, <1>2, <2>1 DEF HoldInv, TypeOK, OptConn
  <2>3. m_conns[f] \in alive
    BY <1>2, <2>2, Unreferenced
  <2> QED
    BY <1>0, <1>2, <2>2, <2>3 DEF ObjectInv, OneOwner
<1>4. /\ m_conns' \in [Fds -> OptConn] /\ m_conns'[f] = c
      /\ \A g \in Fds : g # f => m_conns'[g] = m_conns[g]
  BY <1>1, <1>2 DEF TypeOK, OptConn
<1>5. \A d \in Clients : conn[d].st # "none" => (Held(d)' <=> Held(d))
  <2>1. ASSUME NEW d \in Clients, conn[d].st # "none"
        PROVE  Held(d)' <=> Held(d)
    <3>1. conn[d].fd \in Fds /\ conn' = conn /\ d # None
      BY <1>1, <2>1, NoneAssumption DEF ObjectInv
    <3> QED
      BY <1>0, <1>1, <1>3, <1>4, <3>1 DEF Held
  <2> QED
    BY <2>1
<1>6. ObjectInv' /\ alive' \subseteq alive /\ openFds' \subseteq openFds /\ s_conn_nums' \in Nat
  <2>1. SameOwners
    BY <1>1 DEF SameOwners
  <2>2. ASSUME NEW d \in Clients, Referenced(d)' PROVE d \in alive
    <3>1. AtMain(d)' => AtMain(d)
      BY <1>1, <1>2, <1>4, NoneAssumption DEF AtMain
    <3>2. /\ InQueue(d)' => InQueue(d)
          /\ InTables(d)' => InTables(d)
          /\ InEv(d)' => InEv(d)
      BY <1>1 DEF InQueue, InTables, InEv, tables
    <3> QED
      BY <2>2, <3>1, <3>2, References DEF ObjectInv
  <2> QED
    BY <1>1, <2>1, <2>2, Destroyed
<1>7. TypeOK'
  <2>1. /\ openFds' \subseteq Fds /\ alive' \subseteq Clients /\ s_conn_nums' \in Nat
        /\ accepted' \in OptConn /\ mainAt' \in {"wait", "accept", "store"}
    BY <1>1, <1>6 DEF TypeOK, OptConn
  <2> QED
    BY <1>1, <1>4, <2>1 DEF TypeOK, world, tables
<1>8. ClientInv'
  BY <1>1 DEF ClientInv, world
<1>9. HoldInv'
  <2>1. \A g \in Fds : m_conns'[g] # None => accepted' # m_conns'[g] /\ conn[m_conns'[g]].fd = g
    BY <1>0, <1>1, <1>2, <1>4 DEF HoldInv
  <2>2. \A d \in Clients : conn[d].st = "kConnected" => Held(d)'
    BY <1>5 DEF HoldInv
  <2>3. \A d \in Clients : onClose[d] = IF conn[d].st # "none" /\ ~Held(d)' THEN 1 ELSE 0
    BY <1>5 DEF HoldInv
  <2>4. mainAt' # "store" /\ accepted' = None /\ conn' = conn /\ onClose' = onClose
    BY <1>1
  <2> QED
    BY <2>1, <2>2, <2>3, <2>4 DEF HoldInv
<1>10. DeleteInv'
  BY <1>1, <1>5 DEF DeleteInv
<1>11. TableInv' /\ TaskInv' /\ EvInv'
  BY <1>1, LoopsKept
<1> QED
  BY <1>6, <1>7, <1>8, <1>9, <1>10, <1>11

LEMMA RunDeleteStep ==
    ASSUME ServerInv, RunDelete
    PROVE  ServerInv'
<1> USE DEF ServerInv
<1>0. PICK task, f, c : task = Head(queue[Main]) /\ f = task.fd /\ c = m_conns[f]
  OBVIOUS
<1>1. /\ mainAt = "wait" /\ queue[Main] # <<>> /\ task.kind = "delete_conn"
      /\ onClose' = [d \in Clients |-> IF d = c THEN onClose[d] + 1 ELSE onClose[d]]
      /\ m_conns' = [m_conns EXCEPT ![f] = None]
      /\ queue' = [queue EXCEPT ![Main] = Tail(@)]
      /\ UNCHANGED <<world, conn, m_next, mainAt, accepted, tables, ev, pushes>>
      /\ Destructors
  BY <1>0 DEF RunDelete
<1>2. /\ queue' \in [Loops -> Seq(Task)] /\ queue'[Main] = Tail(queue[Main])
      /\ \A l \in Loops : l # Main => queue'[l] = queue[l]
  BY <1>1, Types, TaskTaken
<1>3. /\ task \in Task /\ Waits(task, queue[Main])
      /\ \A x : Waits(x, queue'[Main]) => Waits(x, queue[Main])
      /\ \A x : Once(x, queue[Main]) => Once(x, queue'[Main])
      /\ Once(task, queue[Main]) => ~Waits(task, queue'[Main])
  BY <1>0, <1>1, <1>2, Types, TaskTaken
<1>4. f \in Fds /\ task = DeleteConn(f)
  BY <1>0, <1>1, <1>3 DEF Task, ListenRead, Push, DeleteConn
<1>5. ~Waits(DeleteConn(f), queue'[Main])
  BY <1>3, <1>4 DEF DeleteInv
<1>6. accepted = None
  BY <1>1 DEF HoldInv
<1>7. /\ c \in Clients /\ c # None /\ conn[c].st = "kDisconnected" /\ conn[c].fd = f
      /\ m_conns[f] = c
  <2>1. PICK d \in Clients : conn[d].st = "kDisconnected" /\ conn[d].fd = f /\ Held(d)
    BY <1>3, <1>4 DEF DeleteInv
  <2> QED
    BY <1>0, <1>6, <2>1, NoneAssumption DEF Held
<1>8. /\ m_conns' \in [Fds -> OptConn] /\ m_conns'[f] = None
      /\ \A g \in Fds : g # f => m_conns'[g] = m_conns[g]
  BY <1>1, <1>4 DEF TypeOK, OptConn
<1>9. \A d \in Clients : d # c /\ conn[d].st # "none" => (Held(d)' <=> Held(d))
  <2>1. ASSUME NEW d \in Clients, d # c, conn[d].st # "none"
        PROVE  Held(d)' <=> Held(d)
    <3>1. conn[d].fd \in Fds /\ conn' = conn /\ accepted' = accepted /\ d # None
      BY <1>1, <2>1, NoneAssumption DEF ObjectInv
    <3> QED
      BY <1>7, <1>8, <2>1, <3>1 DEF Held
  <2> QED
    BY <2>1
<1>10. Held(c) /\ ~Held(c)'
  <2>1. conn' = conn /\ accepted' = None
    BY <1>1, <1>6
  <2> QED
    BY <1>7, <1>8, <2>1 DEF Held
<1>11. ObjectInv' /\ alive' \subseteq alive /\ openFds' \subseteq openFds /\ s_conn_nums' \in Nat
  <2>1. SameOwners
    BY <1>1 DEF SameOwners
  <2>2. ASSUME NEW d \in Clients, Referenced(d)' PROVE d \in alive
    <3>1. AtMain(d)' => AtMain(d)
      BY <1>1, <1>4, <1>8, NoneAssumption DEF AtMain
    <3>2. InQueue(d)' => InQueue(d)
      BY <1>2, <1>3 DEF InQueue
    <3>3. /\ InTables(d)' => InTables(d)
          /\ InEv(d)' => InEv(d)
      BY <1>1 DEF InTables, InEv, tables
    <3> QED
      BY <2>2, <3>1, <3>2, <3>3, References DEF ObjectInv
  <2> QED
    BY <1>1, <2>1, <2>2, Destroyed
<1>12. \A d \in Clients : onClose'[d] = IF d = c THEN onClose[d] + 1 ELSE onClose[d]
  BY <1>1
<1>13. TypeOK'
  <2>1. openFds' \subseteq Fds /\ alive' \subseteq Clients /\ s_conn_nums' \in Nat
    BY <1>11 DEF TypeOK
  <2>2. onClose' \in [Clients -> Nat]
    BY <1>1 DEF TypeOK
  <2> QED
    BY <1>1, <1>2, <1>8, <2>1, <2>2 DEF TypeOK, world, tables
<1>14. ClientInv'
  BY <1>1 DEF ClientInv, world
<1>15. HoldInv'
  <2>1. \A g \in Fds : m_conns'[g] # None => accepted # m_conns'[g] /\ conn[m_conns'[g]].fd = g
    BY <1>8 DEF HoldInv
  <2>2. \A d \in Clients : conn[d].st = "kConnected" => Held(d)'
    BY <1>7, <1>9 DEF HoldInv
  <2>3. \A d \in Clients : onClose'[d] = IF conn[d].st # "none" /\ ~Held(d)' THEN 1 ELSE 0
    <3>1. \A d \in Clients : onClose[d] = IF conn[d].st # "none" /\ ~Held(d) THEN 1 ELSE 0
      BY DEF HoldInv
    <3>2. onClose'[c] = 1
      BY <1>7, <1>10, <1>12, <3>1
    <3>3. \A d \in Clients : d # c => onClose'[d] = onClose[d]
      BY <1>12
    <3> QED
      BY <1>7, <1>9, <1>10, <3>1, <3>2, <3>3
  <2>4. mainAt' # "store" /\ accepted' = None /\ accepted = None /\ conn' = conn
    BY <1>1, <1>6
  <2> QED
    BY <2>1, <2>2, <2>3, <2>4 DEF HoldInv
<1>16. DeleteInv'
  <2>1. ASSUME NEW g \in Fds, Waits(DeleteConn(g), queue'[Main])
        PROVE  \E d \in Clients : conn[d].st = "kDisconnected" /\ conn[d].fd = g /\ Held(d)'
    <3>1. PICK d \in Clients : conn[d].st = "kDisconnected" /\ conn[d].fd = g /\ Held(d)
      BY <1>3, <2>1 DEF DeleteInv
    <3>2. g # f /\ d # c
      BY <1>5, <1>7, <2>1, <3>1
    <3> QED
      BY <1>9, <3>1, <3>2
  <2>2. conn' = conn /\ \A g \in Fds : Once(DeleteConn(g), queue'[Main])
    BY <1>1, <1>3 DEF DeleteInv
  <2> QED
    BY <2>1, <2>2 DEF DeleteInv
<1>17. TableInv' /\ TaskInv' /\ EvInv'
  <2>1. \A l \in Loops : \A d \in Clients :
          /\ Waits(ListenRead(d), queue'[l]) => Waits(ListenRead(d), queue[l])
          /\ Once(ListenRead(d), queue[l]) => Once(ListenRead(d), queue'[l])
    BY <1>2, <1>3
  <2> QED
    BY <1>1, <2>1, LoopsKept
<1> QED
  BY <1>11, <1>13, <1>14, <1>15, <1>16, <1>17

-----------------------------------------------------------------------------
(* The IO loops: their tasks.                                              *)

\* An entry of the table of a loop is replaced.
LEMMA EntryReplaced ==
    ASSUME TypeOK, NEW l \in Loops, NEW f \in Fds, NEW e \in Entry,
           ioEvs' = [ioEvs EXCEPT ![l] = [ioEvs[l] EXCEPT ![f] = e]]
    PROVE  /\ ioEvs' \in [Loops -> [Fds -> Entry]]
           /\ ioEvs'[l][f] = e
           /\ \A m \in Loops : \A g \in Fds : m # l \/ g # f => ioEvs'[m][g] = ioEvs[m][g]
  BY Types

LEMMA ConnReplaced ==
    ASSUME TypeOK, NEW l \in Loops, NEW f \in Fds, NEW c \in OptConn,
           loopConns' = [loopConns EXCEPT ![l][f] = c]
    PROVE  /\ loopConns' \in [Loops -> [Fds -> OptConn]]
           /\ loopConns'[l][f] = c
           /\ \A m \in Loops : \A g \in Fds :
                 m # l \/ g # f => loopConns'[m][g] = loopConns[m][g]
  BY Types

\* The connections that are open or known to a loop are alive.
LEMMA Alive ==
    ASSUME ServerInv, NEW c \in Clients,
           \/ conn[c].st = "kConnected"
           \/ \E l \in Loops : Waits(ListenRead(c), queue[l]) \/ ev[l].rcb = c
           \/ \E l \in Loops : \E f \in Fds : ioEvs[l][f].rcb = c
    PROVE  c \in alive /\ conn[c].st # "none" /\ conn[c].fd \in Fds /\ c # None
<1> USE DEF ServerInv
<1>1. c # None
  BY NoneAssumption
<1>2. c \in alive
  <2>1. conn[c].st = "kConnected" => accepted = c \/ \E f \in Fds : m_conns[f] = c
    BY DEF HoldInv, Held, ObjectInv
  <2> QED
    BY <2>1, Unreferenced
<1> QED
  BY <1>1, <1>2 DEF ObjectInv

LEMMA RunListenReadStep ==
    ASSUME ServerInv, NEW l \in IO, RunListenRead(l)
    PROVE  ServerInv'
<1> USE DEF ServerInv
<1>0. PICK task, f, c : task = Head(queue[l]) /\ c = task.conn /\ f = conn[c].fd
  OBVIOUS
<1>1. /\ ~ev[l].on /\ queue[l] # <<>> /\ task.kind = "listen_read"
      /\ ioEvs' = [ioEvs EXCEPT ![l] = AddIoEvent(@, f, "IN", c)]
      /\ loopConns' = [loopConns EXCEPT ![l][f] = c]
      /\ queue' = [queue EXCEPT ![l] = Tail(@)]
      /\ UNCHANGED <<world, conn, server, ev, onClose, pushes>>
      /\ Destructors
  BY <1>0 DEF RunListenRead, Idle
<1>2. l \in Loops /\ l # Main
  BY LoopsAssumption DEF Loops, IO, Main
<1>3. /\ queue' \in [Loops -> Seq(Task)] /\ queue'[l] = Tail(queue[l])
      /\ \A m \in Loops : m # l => queue'[m] = queue[m]
  BY <1>1, <1>2, Types, TaskTaken
<1>4. /\ task \in Task /\ Waits(task, queue[l])
      /\ \A x : Waits(x, queue'[l]) => Waits(x, queue[l])
      /\ \A x : Once(x, queue[l]) => Once(x, queue'[l])
      /\ Once(task, queue[l]) => ~Waits(task, queue'[l])
  BY <1>0, <1>1, <1>2, <1>3, TaskTaken
<1>5. c \in Clients /\ task = ListenRead(c)
  BY <1>0, <1>1, <1>4 DEF Task, ListenRead, Push, DeleteConn
<1>6. /\ conn[c].st = "kConnected" /\ conn[c].loop = l /\ ioEvs[l][f].rcb = None
      /\ ~Waits(ListenRead(c), queue'[l])
  BY <1>0, <1>2, <1>4, <1>5 DEF TaskInv
<1>7. c \in alive /\ f \in Fds /\ c # None
  BY <1>0, <1>5, <1>6, Alive
<1>8. ioEvs[l][f] = NoEntry
  BY <1>2, <1>6, <1>7 DEF TableInv, EntryOK
<1>9. /\ ioEvs' \in [Loops -> [Fds -> Entry]]
      /\ ioEvs'[l][f] = [rcb |-> c, wcb |-> None, armed |-> {"IN"}]
      /\ \A m \in Loops : \A g \in Fds : m # l \/ g # f => ioEvs'[m][g] = ioEvs[m][g]
  <2> DEFINE e == [rcb |-> c, wcb |-> None, armed |-> {"IN"}]
  <2>1. e \in Entry
    BY <1>5 DEF Entry, OptConn
  <2>2. ioEvs' = [ioEvs EXCEPT ![l] = [ioEvs[l] EXCEPT ![f] = e]]
    BY <1>1, <1>2, <1>7, <1>8, Types DEF AddIoEvent, NoEntry
  <2> HIDE DEF e
  <2>3. /\ ioEvs' \in [Loops -> [Fds -> Entry]]
        /\ ioEvs'[l][f] = e
        /\ \A m \in Loops : \A g \in Fds : m # l \/ g # f => ioEvs'[m][g] = ioEvs[m][g]
    BY <1>2, <1>7, <2>1, <2>2, EntryReplaced, ZenonT(40)
  <2> QED
    BY <2>3 DEF e
<1>10. /\ loopConns' \in [Loops -> [Fds -> OptConn]]
       /\ loopConns'[l][f] = c
       /\ \A m \in Loops : \A g \in Fds : m # l \/ g # f => loopConns'[m][g] = loopConns[m][g]
  BY <1>1, <1>2, <1>5, <1>7, ConnReplaced, ZenonT(40) DEF OptConn
<1>11. SameOwners
  BY <1>1 DEF SameOwners
<1>12. ObjectInv' /\ alive' \subseteq alive /\ openFds' \subseteq openFds /\ s_conn_nums' \in Nat
  <2>1. ASSUME NEW d \in Clients, Referenced(d)' PROVE d \in alive
    <3>1. AtMain(d)' => AtMain(d)
      BY <1>1 DEF AtMain, server
    <3>2. InQueue(d)' => InQueue(d)
      BY <1>3, <1>4 DEF InQueue
    <3>3. InTables(d)' => InTables(d) \/ d = c
      BY <1>9, <1>10, NoneAssumption, SMTT(20) DEF InTables
    <3>4. InEv(d)' => InEv(d)
      BY <1>1 DEF InEv
    <3> QED
      BY <1>7, <2>1, <3>1, <3>2, <3>3, <3>4, References DEF ObjectInv
  <2> QED
    BY <1>1, <1>11, <2>1, Destroyed
<1>13. TypeOK'
  <2>1. openFds' \subseteq Fds /\ alive' \subseteq Clients /\ s_conn_nums' \in Nat
    BY <1>12 DEF TypeOK
  <2> QED
    BY <1>1, <1>3, <1>9, <1>10, <2>1 DEF TypeOK, world, server, Entry
<1>14. ClientInv'
  BY <1>1 DEF ClientInv, world, server
<1>15. HoldInv' /\ \A d \in Clients : Held(d)' <=> Held(d)
  BY <1>1, <1>11, HoldKept
<1>16. DeleteInv'
  <2>1. queue'[Main] = queue[Main] /\ conn' = conn
    BY <1>1, <1>2, <1>3, Types
  <2> QED
    BY <1>15, <2>1 DEF DeleteInv
<1>17. TableInv'
  <2>1. ASSUME NEW m \in Loops, NEW g \in Fds
        PROVE  loopConns'[m][g] = ioEvs'[m][g].rcb /\ EntryOK(ioEvs'[m][g], m, g)
    <3>1. CASE m = l /\ g = f
      <4>1. /\ ioEvs'[m][g].rcb = c /\ ioEvs'[m][g].wcb = None /\ ioEvs'[m][g].armed = {"IN"}
            /\ loopConns'[m][g] = c /\ c # None
        BY <1>7, <1>9, <1>10, <3>1
      <4>2. OpenAt(c, m, g)
        BY <1>0, <1>6, <3>1 DEF OpenAt
      <4> QED
        BY <4>1, <4>2 DEF EntryOK
    <3>2. CASE m # l \/ g # f
      BY <1>9, <1>10, <3>2 DEF TableInv
    <3> QED
      BY <3>1, <3>2
  <2>2. ASSUME NEW d \in Clients, conn[d].st = "kConnected", conn[d].obuf > 0
        PROVE  "OUT" \in ioEvs'[conn[d].loop][conn[d].fd].armed
    <3>1. conn[d].loop \in Loops /\ conn[d].fd \in Fds
      BY <2>2, Types, Alive
    <3>2. "OUT" \in ioEvs[conn[d].loop][conn[d].fd].armed
      BY <2>2 DEF TableInv, OutputIsArmed
    <3> QED
      BY <1>8, <1>9, <3>1, <3>2 DEF NoEntry
  <2>3. conn' = conn /\ \A d \in Clients : conn[d].st # "kConnected" => conn[d].obuf = 0
    BY <1>1 DEF TableInv
  <2>4. \A m \in Loops : \A g \in Fds : EntryOK(ioEvs[m][g], m, g)'
    BY <2>1, <2>3 DEF EntryOK, OpenAt
  <2>5. OutputIsArmed'
    BY <2>2, <2>3 DEF OutputIsArmed
  <2> QED
    BY <2>1, <2>3, <2>4, <2>5 DEF TableInv
<1>18. TaskInv'
  <2>1. ASSUME NEW m \in Loops, NEW d \in Clients, Waits(ListenRead(d), queue'[m])
        PROVE  /\ conn[d].st = "kConnected" /\ conn[d].loop = m
               /\ ioEvs'[m][conn[d].fd].rcb = None /\ ev[m].rcb # d
    <3>1. Waits(ListenRead(d), queue[m])
      BY <1>3, <1>4, <2>1
    <3>2. /\ conn[d].st = "kConnected" /\ conn[d].loop = m
          /\ ioEvs[m][conn[d].fd].rcb = None /\ ev[m].rcb # d
      BY <3>1 DEF TaskInv
    <3>3. d # c
      BY <1>6, <2>1, <3>2
    <3>4. conn[d].fd \in Fds /\ conn[d].fd # f
      BY <1>0, <1>7, <3>2, <3>3, Alive DEF ObjectInv, OneOwner
    <3> QED
      BY <1>9, <3>2, <3>4
  <2>2. \A m \in Loops : \A d \in Clients : Once(ListenRead(d), queue'[m])
    BY <1>3, <1>4 DEF TaskInv
  <2>3. conn' = conn /\ ev' = ev
    BY <1>1
  <2> QED
    BY <2>1, <2>2, <2>3 DEF TaskInv
<1>19. EvInv'
  <2>1. ASSUME NEW m \in Loops PROVE EvOK(ev[m], m)'
    <3>1. EvOK(ev[m], m) /\ UNCHANGED <<conn, ev, peer, inbox>>
      BY <1>1 DEF EvInv, world
    <3>2. CASE m = l
      BY <1>1, <3>1, <3>2 DEF EvOK
    <3>3. CASE m # l
      <4>1. ev[m].on => ev[m].rcb \in Clients
        BY <3>1 DEF EvOK
      <4>2. ev[m].on => conn[ev[m].rcb].fd \in Fds
        BY <4>1, Alive
      <4>3. \A g \in Fds : ioEvs'[m][g] = ioEvs[m][g]
        BY <1>9, <3>3
      <4> QED
        BY <3>1, <4>2, <4>3 DEF EvOK
    <3> QED
      BY <3>2, <3>3
  <2> QED
    BY <2>1 DEF EvInv
<1> QED
  BY <1>12, <1>13, <1>14, <1>15, <1>16, <1>17, <1>18, <1>19

\* A step that changes the output of connections only, and their write callbacks.
SameStates ==
    \A c \in Clients :
        conn'[c].st = conn[c].st /\ conn'[c].fd = conn[c].fd /\ conn'[c].loop = conn[c].loop

LEMMA TasksKept ==
    ASSUME ServerInv, SameStates, \A l \in Loops : ev'[l].rcb = ev[l].rcb,
           \A l \in Loops : \A f \in Fds : ioEvs'[l][f].rcb = ioEvs[l][f].rcb,
           \A l \in Loops : \A x :
              /\ Waits(x, queue'[l]) => Waits(x, queue[l])
              /\ Once(x, queue[l]) => Once(x, queue'[l])
    PROVE  TaskInv'
<1> USE DEF ServerInv
<1>1. ASSUME NEW l \in Loops, NEW c \in Clients, Waits(ListenRead(c), queue'[l])
      PROVE  /\ conn'[c].st = "kConnected" /\ conn'[c].loop = l
             /\ ioEvs'[l][conn'[c].fd].rcb = None /\ ev'[l].rcb # c
  <2>1. Waits(ListenRead(c), queue[l])
    BY <1>1
  <2>2. conn[c].fd \in Fds
    BY <2>1, Alive
  <2> QED
    BY <2>1, <2>2 DEF TaskInv, SameStates
<1> QED
  BY <1>1 DEF TaskInv

LEMMA RunPushStep ==
    ASSUME ServerInv, NEW l \in Loops, RunPush(l)
    PROVE  ServerInv'
<1> USE DEF ServerInv
<1>1. PICK to \in SUBSET ({loopConns[l][f] : f \in Fds} \ {None}) :
        /\ ioEvs' = [ioEvs EXCEPT ![l] = [f \in Fds |->
                IF loopConns[l][f] \in to THEN Sent(@, loopConns[l][f], 1)[f] ELSE @[f]]]
        /\ conn' = [c \in Clients |->
                IF c \in to THEN [conn[c] EXCEPT !.obuf = @ + 1] ELSE conn[c]]
  BY DEF RunPush
<1>2. /\ ~ev[l].on /\ queue[l] # <<>>
      /\ queue' = [queue EXCEPT ![l] = Tail(@)]
      /\ UNCHANGED <<world, objects, server, loopConns, ev, onClose, pushes>>
  BY DEF RunPush, Idle
<1>3. /\ queue' \in [Loops -> Seq(Task)]
      /\ \A m \in Loops : \A x :
            /\ Waits(x, queue'[m]) => Waits(x, queue[m])
            /\ Once(x, queue[m]) => Once(x, queue'[m])
  <2>1. queue'[l] = Tail(queue[l]) /\ \A m \in Loops : m # l => queue'[m] = queue[m]
    BY <1>2, Types
  <2>2. queue'[l] \in Seq(Task)
    BY <1>2, <2>1, TaskTaken
  <2>3. queue' \in [Loops -> Seq(Task)]
    BY <1>2, <2>1, <2>2, Types
  <2> QED
    BY <1>2, <2>1, <2>3, TaskTaken
<1>4. ASSUME NEW f \in Fds, loopConns[l][f] \in to
      PROVE  /\ loopConns[l][f] \in Clients /\ loopConns[l][f] # None
             /\ OpenAt(loopConns[l][f], l, f)
             /\ ioEvs[l][f].rcb = loopConns[l][f]
             /\ ioEvs'[l][f] \in Entry
             /\ ioEvs'[l][f].rcb = loopConns[l][f] /\ ioEvs'[l][f].wcb = loopConns[l][f]
             /\ ioEvs'[l][f].armed = ioEvs[l][f].armed \cup {"OUT"}
  <2> DEFINE d == loopConns[l][f]
             e == ioEvs[l][f]
  <2>1. /\ e.rcb = d /\ d # None /\ e \in Entry /\ EntryOK(e, l, f)
    BY <1>4, Types DEF TableInv
  <2>2. d \in Clients /\ OpenAt(d, l, f) /\ e.wcb \in {None, d} /\ ("OUT" \in e.armed => e.wcb = d)
    BY <2>1 DEF EntryOK, NoEntry, Entry, OptConn
  <2>3. ioEvs'[l][f] = Sent(ioEvs[l], d, 1)[f]
    BY <1>1, <1>4, Types
  <2>4. conn[d].obuf \in Nat /\ conn[d].fd = f
    BY <2>2, Types DEF OpenAt
  <2>5. ASSUME conn[d].obuf = 0
        PROVE  ioEvs'[l][f] = [rcb |-> d, wcb |-> d, armed |-> e.armed \cup {"OUT"}]
    <3>1. ioEvs'[l][f] = AddIoEvent(ioEvs[l], f, "OUT", d)[f]
      BY <2>3, <2>4, <2>5 DEF Sent
    <3>2. ioEvs[l] \in [Fds -> Entry]
      BY Types
    <3>3. AddIoEvent(ioEvs[l], f, "OUT", d)[f] =
             [rcb |-> e.rcb, wcb |-> d, armed |-> e.armed \cup {"OUT"}]
      BY <3>2 DEF AddIoEvent
    <3> QED
      BY <2>1, <3>1, <3>3
  <2>6. ASSUME conn[d].obuf # 0
        PROVE  ioEvs'[l][f] = [rcb |-> d, wcb |-> d, armed |-> e.armed \cup {"OUT"}]
    <3>1. ioEvs'[l][f] = e
      BY <2>3, <2>6 DEF Sent
    <3>2. "OUT" \in e.armed
      BY <2>2, <2>4, <2>6 DEF TableInv, OutputIsArmed, OpenAt
    <3>3. e.wcb = d /\ e.armed = e.armed \cup {"OUT"}
      BY <2>2, <3>2
    <3> QED
      BY <2>1, <2>2, <3>1, <3>3 DEF Entry
  <2>7. ioEvs'[l][f] = [rcb |-> d, wcb |-> d, armed |-> e.armed \cup {"OUT"}]
    BY <2>5, <2>6
  <2>8. e.armed \cup {"OUT"} \in SUBSET {"IN", "OUT"}
    BY <2>1 DEF Entry
  <2> HIDE DEF e
  <2>9. ioEvs'[l][f] \in Entry
    BY <2>2, <2>7, <2>8 DEF Entry, OptConn
  <2> QED
    BY <2>1, <2>2, <2>7, <2>9 DEF e
<1>5. /\ \A f \in Fds : loopConns[l][f] \notin to => ioEvs'[l][f] = ioEvs[l][f]
      /\ \A m \in Loops : m # l => ioEvs'[m] = ioEvs[m]
  BY <1>1, Types
<1>6. /\ ioEvs' \in [Loops -> [Fds -> Entry]]
      /\ \A m \in Loops : \A f \in Fds :
            /\ ioEvs'[m][f].rcb = ioEvs[m][f].rcb
            /\ ioEvs[m][f].armed \subseteq ioEvs'[m][f].armed
  <2>1. ASSUME NEW f \in Fds
        PROVE  /\ ioEvs'[l][f] \in Entry /\ ioEvs'[l][f].rcb = ioEvs[l][f].rcb
               /\ ioEvs[l][f].armed \subseteq ioEvs'[l][f].armed
    <3>1. ioEvs[l][f] \in Entry
      BY Types
    <3> QED
      BY <1>4, <1>5, <3>1 DEF Entry, OptConn
  <2>2. ioEvs'[l] \in [Fds -> Entry]
    <3>1. ioEvs'[l] = [f \in Fds |-> ioEvs'[l][f]]
      BY <1>1, Types
    <3> QED
      BY <2>1, <3>1
  <2>3. ioEvs' \in [Loops -> [Fds -> Entry]]
    BY <1>1, <2>2, Types
  <2> QED
    BY <1>5, <2>1, <2>3
<1>7. /\ conn' \in [Clients -> ConnState] /\ SameStates
      /\ \A c \in Clients : c \notin to => conn'[c] = conn[c]
  <2>1. ASSUME NEW c \in Clients
        PROVE  /\ conn'[c] \in ConnState /\ conn'[c].st = conn[c].st
               /\ conn'[c].fd = conn[c].fd /\ conn'[c].loop = conn[c].loop
               /\ c \notin to => conn'[c] = conn[c]
    <3>1. conn[c] \in ConnState
      BY Types
    <3>2. CASE c \in to
      <4>1. conn'[c] = [conn[c] EXCEPT !.obuf = @ + 1]
        BY <1>1, <3>2
      <4> QED
        BY <3>1, <3>2, <4>1 DEF ConnState
    <3>3. CASE c \notin to
      BY <1>1, <3>1, <3>3
    <3> QED
      BY <3>2, <3>3
  <2>2. conn' = [c \in Clients |-> conn'[c]]
    BY <1>1
  <2> QED
    BY <2>1, <2>2 DEF SameStates
<1>8. \A c \in to : \E f \in Fds : loopConns[l][f] = c
  BY <1>1
<1>9. SameOwners
  BY <1>7 DEF SameStates, SameOwners
<1>10. TypeOK'
  BY <1>2, <1>3, <1>6, <1>7 DEF TypeOK, Entry, ConnState, world, objects, server
<1>11. ClientInv'
  <2>1. \A i \in DOMAIN backlog : backlog[i] \in Clients
    BY ElementOfSeq, LenProperties DEF TypeOK
  <2> QED
    BY <1>2, <1>7, <2>1 DEF ClientInv, SameStates, world, server
<1>12. ObjectInv'
  <2>1. ASSUME NEW d \in Clients, Referenced(d)' PROVE d \in alive
    <3>1. AtMain(d)' => AtMain(d)
      BY <1>2 DEF AtMain, server
    <3>2. InQueue(d)' => InQueue(d)
      BY <1>3 DEF InQueue
    <3>3. InTables(d)' => InTables(d)
      <4>1. ASSUME NEW m \in Loops, NEW f \in Fds, d = ioEvs'[m][f].wcb
            PROVE  d = ioEvs[m][f].wcb \/ d = ioEvs[m][f].rcb
        BY <1>4, <1>5, <4>1
      <4> QED
        BY <1>2, <1>6, <4>1 DEF InTables
    <3>4. InEv(d)' => InEv(d)
      BY <1>2 DEF InEv
    <3> QED
      BY <2>1, <3>1, <3>2, <3>3, <3>4, References DEF ObjectInv
  <2> QED
    BY <1>2, <1>9, <2>1, NoneDestroyed
<1>13. HoldInv' /\ \A d \in Clients : Held(d)' <=> Held(d)
  BY <1>2, <1>9, HoldKept
<1>14. DeleteInv'
  <2>1. \A x : /\ Waits(x, queue'[Main]) => Waits(x, queue[Main])
               /\ Once(x, queue[Main]) => Once(x, queue'[Main])
    BY <1>3, Types
  <2> QED
    BY <1>7, <1>13, <2>1 DEF DeleteInv, SameStates
<1>15. TableInv'
  <2>1. ASSUME NEW m \in Loops, NEW f \in Fds
        PROVE  EntryOK(ioEvs'[m][f], m, f)
    <3>1. EntryOK(ioEvs[m][f], m, f)
      BY DEF TableInv
    <3>2. CASE m = l /\ loopConns[l][f] \in to
      <4>1. /\ ioEvs'[l][f].rcb = ioEvs[l][f].rcb /\ ioEvs'[l][f].wcb = ioEvs[l][f].rcb
            /\ ioEvs'[l][f].armed = ioEvs[l][f].armed \cup {"OUT"}
            /\ ioEvs[l][f].rcb # None
        BY <1>4, <3>2
      <4> QED
        BY <3>1, <3>2, <4>1 DEF EntryOK, NoEntry
    <3>3. CASE ~(m = l /\ loopConns[l][f] \in to)
      BY <1>5, <3>1, <3>3
    <3> QED
      BY <3>2, <3>3
  <2>2. ASSUME NEW m \in Loops, NEW f \in Fds
        PROVE  EntryOK(ioEvs[m][f], m, f)'
    <3>1. ioEvs'[m][f] # NoEntry => ioEvs'[m][f].rcb \in Clients
      BY <1>6, <2>1 DEF EntryOK, Entry, OptConn
    <3> QED
      BY <1>7, <2>1, <3>1 DEF EntryOK, OpenAt, SameStates
  <2>3. ASSUME NEW d \in Clients, conn[d].st = "kConnected", conn'[d].obuf > 0
        PROVE  "OUT" \in ioEvs'[conn[d].loop][conn[d].fd].armed
    <3>1. CASE d \in to
      <4>1. PICK f \in Fds : loopConns[l][f] = d
        BY <1>8, <3>1
      <4>2. conn[d].loop = l /\ conn[d].fd = f
        BY <1>4, <3>1, <4>1 DEF OpenAt
      <4> QED
        BY <1>4, <3>1, <4>1, <4>2
    <3>2. CASE d \notin to
      <4>1. conn[d].loop \in Loops /\ conn[d].fd \in Fds
        BY <2>3, Types, Alive
      <4>2. "OUT" \in ioEvs[conn[d].loop][conn[d].fd].armed
        BY <1>7, <2>3, <3>2 DEF TableInv, OutputIsArmed
      <4> QED
        BY <1>6, <4>1, <4>2
    <3> QED
      BY <3>1, <3>2
  <2>4. OutputIsArmed'
    BY <1>7, <2>3 DEF OutputIsArmed, SameStates
  <2>5. ASSUME NEW d \in Clients, conn'[d].st # "kConnected" PROVE conn'[d].obuf = 0
    <3>1. d \notin to
      BY <1>4, <1>7, <1>8, <2>5 DEF OpenAt, SameStates
    <3> QED
      BY <1>7, <2>5, <3>1 DEF TableInv
  <2>6. \A m \in Loops : \A f \in Fds : loopConns'[m][f] = ioEvs'[m][f].rcb
    BY <1>2, <1>6 DEF TableInv
  <2> QED
    BY <2>2, <2>4, <2>5, <2>6 DEF TableInv
<1>16. TaskInv'
  BY <1>2, <1>3, <1>6, <1>7, TasksKept
<1>17. EvInv'
  <2>1. ASSUME NEW m \in Loops PROVE EvOK(ev[m], m)'
    <3>1. EvOK(ev[m], m) /\ UNCHANGED <<ev, peer, inbox>>
      BY <1>2 DEF EvInv, world
    <3>2. ev[m].on => ev[m].rcb \in Clients
      BY <3>1 DEF EvOK
    <3>3. ev[m].on => conn[ev[m].rcb].fd \in Fds
      BY <3>2, Alive
    <3> QED
      BY <1>6, <1>7, <3>1, <3>2, <3>3 DEF EvOK, SameStates
  <2> QED
    BY <2>1 DEF EvInv
<1> QED
  BY <1>10, <1>11, <1>12, <1>13, <1>14, <1>15, <1>16, <1>17

-----------------------------------------------------------------------------
(* The IO loops: a descriptor is reported, and its callbacks end.          *)

\* Steps that only change the callbacks under way of a loop.
LEMMA OnlyEv ==
    ASSUME ServerInv, UNCHANGED <<world, conn, server, queue, tables, onClose>>
    PROVE  SameOwners /\ ClientInv' /\ HoldInv' /\ DeleteInv' /\ TableInv'
<1> USE DEF ServerInv
<1>1. SameOwners
  BY DEF SameOwners
<1>2. ClientInv'
  BY DEF ClientInv, world, server
<1>3. HoldInv' /\ \A d \in Clients : Held(d)' <=> Held(d)
  BY <1>1, HoldKept
<1>4. DeleteInv'
  BY <1>3 DEF DeleteInv
<1>5. TableInv'
  BY DEF TableInv, EntryOK, OpenAt, OutputIsArmed, tables
<1> QED
  BY <1>1, <1>2, <1>3, <1>4, <1>5

LEMMA Joined ==
    ASSUME NEW S, NEW s \in Seq(S), NEW t \in Seq(S), NEW u, u = s \o t
    PROVE  /\ u \in Seq(S)
           /\ \A i \in DOMAIN u :
                 \/ i \in DOMAIN s /\ u[i] = s[i]
                 \/ i \notin DOMAIN s /\ i - Len(s) \in DOMAIN t /\ u[i] = t[i - Len(s)]
           /\ \A i \in DOMAIN s : i \in DOMAIN u /\ u[i] = s[i]
<1>1. /\ u \in Seq(S) /\ Len(u) = Len(s) + Len(t)
      /\ \A i \in 1 .. Len(s) + Len(t) :
            u[i] = IF i <= Len(s) THEN s[i] ELSE t[i - Len(s)]
  BY ConcatProperties
<1>2. /\ Len(s) \in Nat /\ DOMAIN s = 1 .. Len(s)
      /\ Len(t) \in Nat /\ DOMAIN t = 1 .. Len(t)
      /\ DOMAIN u = 1 .. Len(u)
  BY <1>1, LenProperties
<1> QED
  BY <1>1, <1>2

\* The callbacks that one report of epoll_wait leads to: a read that is not the
\* first of them is due to the peer's leaving.
CallsFor(events, hup, rcb, wcb) ==
    LET onRead == IF rcb # None THEN <<"read">> ELSE <<>>
        onWrite == IF wcb # None THEN <<"write">> ELSE <<>>
    IN  (IF "IN" \in events THEN onRead ELSE <<>>)
        \o (IF "OUT" \in events THEN onWrite ELSE <<>>)
        \o (IF hup THEN onRead \o onWrite ELSE <<>>)

LEMMA CallsOf ==
    ASSUME NEW events, NEW hup \in BOOLEAN, NEW rcb, NEW wcb, rcb # None,
           hup => "IN" \in events,
           NEW calls, calls = CallsFor(events, hup, rcb, wcb)
    PROVE  /\ calls \in Seq({"read", "write"})
           /\ \A i \in DOMAIN calls : calls[i] = "write" => wcb # None
           /\ \A i \in DOMAIN calls : calls[i] = "read" /\ i # 1 => hup /\ calls[1] = "read"
<1> DEFINE S == {"read", "write"}
           onRead == IF rcb # None THEN <<"read">> ELSE <<>>
           onWrite == IF wcb # None THEN <<"write">> ELSE <<>>
<1>1. PICK r, w, a, b, d, c :
        /\ r = onRead /\ w = onWrite
        /\ a = IF "IN" \in events THEN r ELSE <<>>
        /\ b = IF "OUT" \in events THEN w ELSE <<>>
        /\ d = r \o w
        /\ c = IF hup THEN d ELSE <<>>
  OBVIOUS
<1>2. calls = (a \o b) \o c
  BY <1>1 DEF CallsFor
<1>3. r \in Seq(S) /\ w \in Seq(S)
  <2>1. r = <<"read">> /\ (w = <<"write">> \/ w = <<>>)
    BY <1>1
  <2>2. <<"read">> \in Seq(S) /\ <<"write">> \in Seq(S) /\ <<>> \in Seq(S)
    OBVIOUS
  <2> QED
    BY <2>1, <2>2
<1>4. r = <<"read">> /\ DOMAIN r = {1} /\ r[1] = "read"
  BY <1>1
<1>5. \A i \in DOMAIN w : w[i] = "write" /\ wcb # None
  <2>1. CASE wcb # None
    BY <1>1, <2>1
  <2>2. CASE wcb = None
    BY <1>1, <2>2
  <2> QED
    BY <2>1, <2>2
<1>6. <<>> \in Seq(S) /\ DOMAIN <<>> = {}
  OBVIOUS
<1> HIDE DEF S, onRead, onWrite
<1>7. /\ d \in Seq(S)
      /\ \A i \in DOMAIN d : d[i] = "write" => wcb # None
  <2>1. /\ d \in Seq(S)
        /\ \A i \in DOMAIN d : \/ i \in DOMAIN r /\ d[i] = r[i]
                               \/ i - Len(r) \in DOMAIN w
    BY <1>1, <1>3, Joined
  <2> QED
    BY <1>4, <1>5, <2>1
<1>8. /\ a \in Seq(S) /\ b \in Seq(S) /\ c \in Seq(S)
      /\ \A i \in DOMAIN a : i = 1 /\ a[i] = "read"
      /\ "IN" \in events => 1 \in DOMAIN a /\ a[1] = "read"
      /\ \A i \in DOMAIN b : b[i] = "write" /\ wcb # None
      /\ \A i \in DOMAIN c : hup /\ (c[i] = "write" => wcb # None)
  BY <1>1, <1>3, <1>4, <1>5, <1>6, <1>7
<1>9. PICK t : t = a \o b
  OBVIOUS
<1>10. /\ t \in Seq(S)
       /\ \A i \in DOMAIN t : \/ i \in DOMAIN a /\ t[i] = a[i]
                              \/ i - Len(a) \in DOMAIN b /\ t[i] = b[i - Len(a)]
       /\ \A i \in DOMAIN a : i \in DOMAIN t /\ t[i] = a[i]
  BY <1>8, <1>9, Joined
<1>11. /\ \A i \in DOMAIN t : \/ i = 1 /\ t[i] = "read"
                              \/ t[i] = "write" /\ wcb # None
       /\ "IN" \in events => 1 \in DOMAIN t /\ t[1] = "read"
  BY <1>8, <1>10
<1>12. /\ calls \in Seq(S)
       /\ \A i \in DOMAIN calls : \/ i \in DOMAIN t /\ calls[i] = t[i]
                                  \/ i - Len(t) \in DOMAIN c /\ calls[i] = c[i - Len(t)]
       /\ \A i \in DOMAIN t : i \in DOMAIN calls /\ calls[i] = t[i]
  <2>1. calls = t \o c
    BY <1>2, <1>9
  <2> QED
    BY <1>8, <1>10, <2>1, Joined, SMTT(20)
<1>13. /\ \A i \in DOMAIN calls : calls[i] = "write" => wcb # None
       /\ \A i \in DOMAIN calls : calls[i] = "read" /\ i # 1 => hup /\ calls[1] = "read"
  BY <1>8, <1>11, <1>12
<1> QED
  BY <1>12, <1>13 DEF S

LEMMA DispatchStep ==
    ASSUME ServerInv, NEW l \in IO, NEW fd \in Fds, Dispatch(l, fd)
    PROVE  ServerInv'
<1> USE DEF ServerInv
<1> DEFINE e == ioEvs[l][fd]
           owner == CHOOSE c \in alive : conn[c].fd = fd
<1>1. /\ ~ev[l].on /\ e.armed # {}
      /\ UNCHANGED <<world, objects, conn, server, queue, tables, onClose, pushes>>
  BY DEF Dispatch, Idle
<1>2. PICK events \in SUBSET e.armed, hup \in BOOLEAN :
        /\ "IN" \in events => inbox[owner] > 0 \/ peer[owner] = "gone"
        /\ peer[owner] = "gone" => "IN" \in events \/ "IN" \notin e.armed
        /\ hup => peer[owner] = "gone"
        /\ LET onRead == IF e.rcb # None THEN <<"read">> ELSE <<>>
               onWrite == IF e.wcb # None THEN <<"write">> ELSE <<>>
           IN ev' = [ev EXCEPT ![l] =
                 [rcb |-> e.rcb, wcb |-> e.wcb, on |-> TRUE,
                  calls |-> (IF "IN" \in events THEN onRead ELSE <<>>)
                            \o (IF "OUT" \in events THEN onWrite ELSE <<>>)
                            \o (IF hup THEN onRead \o onWrite ELSE <<>>)]]
  BY DEF Dispatch
<1>3. l \in Loops
  BY DEF Loops
<1>4. PICK c : c = e.rcb
  OBVIOUS
<1>5. /\ c \in Clients /\ c # None /\ OpenAt(c, l, fd) /\ e.wcb \in {None, c} /\ "IN" \in e.armed
  <2>1. EntryOK(e, l, fd) /\ e \in Entry
    BY <1>3, Types DEF TableInv
  <2> QED
    BY <1>1, <1>4, <2>1 DEF EntryOK, NoEntry, Entry, OptConn
<1>6. c \in alive
  BY <1>3, <1>4, <1>5, Alive
<1>7. owner = c
  <2>1. \A d \in alive : conn[d].fd = fd => d = c
    BY <1>5, <1>6 DEF ObjectInv, OneOwner, OpenAt
  <2>2. conn[c].fd = fd
    BY <1>5 DEF OpenAt
  <2> QED
    BY <1>6, <2>1, <2>2
<1>8. /\ ev'[l].rcb = c /\ ev'[l].wcb = e.wcb /\ ev'[l].on = TRUE
      /\ ev'[l].calls \in Seq({"read", "write"})
      /\ \A i \in DOMAIN ev'[l].calls : ev'[l].calls[i] = "write" => e.wcb = c
      /\ \A i \in DOMAIN ev'[l].calls :
            ev'[l].calls[i] = "read" /\ i # 1 => peer[c] = "gone" /\ ev'[l].calls[1] = "read"
      /\ \A m \in Loops : m # l => ev'[m] = ev[m]
      /\ ev' \in [Loops -> IoEvent]
  <2>1. PICK calls, w : w = e.wcb /\ calls = CallsFor(events, hup, c, w)
    OBVIOUS
  <2>2. ev' = [ev EXCEPT ![l] = [rcb |-> c, wcb |-> e.wcb, on |-> TRUE, calls |-> calls]]
    BY <1>2, <1>4, <2>1 DEF CallsFor
  <2>3. (hup => "IN" \in events /\ peer[c] = "gone") /\ e.rcb # None
    BY <1>2, <1>4, <1>5, <1>7
  <2>4. /\ calls \in Seq({"read", "write"})
        /\ \A i \in DOMAIN calls : calls[i] = "write" => e.wcb # None
        /\ \A i \in DOMAIN calls : calls[i] = "read" /\ i # 1 => hup /\ calls[1] = "read"
    <3>1. /\ calls \in Seq({"read", "write"})
          /\ \A i \in DOMAIN calls : calls[i] = "write" => w # None
          /\ \A i \in DOMAIN calls : calls[i] = "read" /\ i # 1 => hup /\ calls[1] = "read"
      <4>1. hup \in BOOLEAN /\ c # None /\ (hup => "IN" \in events)
        BY <1>5, <2>3
      <4>2. calls = CallsFor(events, hup, c, w)
        BY <2>1
      <4> QED
        BY <4>1, <4>2, CallsOf, Zenon
    <3> QED
      BY <2>1, <3>1
  <2>5. [rcb |-> c, wcb |-> e.wcb, on |-> TRUE, calls |-> calls] \in IoEvent
    BY <1>5, <2>4 DEF IoEvent, OptConn
  <2>6. /\ ev'[l] = [rcb |-> c, wcb |-> e.wcb, on |-> TRUE, calls |-> calls]
        /\ \A m \in Loops : m # l => ev'[m] = ev[m]
        /\ ev' \in [Loops -> IoEvent]
    BY <1>3, <2>2, <2>5, Types
  <2> QED
    BY <1>5, <2>3, <2>4, <2>6
<1> HIDE DEF owner
<1>9. TypeOK'
  BY <1>1, <1>8 DEF TypeOK, IoEvent, world, objects, server, tables
<1>10. SameOwners /\ ClientInv' /\ HoldInv' /\ DeleteInv' /\ TableInv'
  BY <1>1, OnlyEv
<1>11. ObjectInv'
  <2>1. ASSUME NEW d \in Clients, Referenced(d)' PROVE d \in alive
    <3>1. AtMain(d)' => AtMain(d)
      BY <1>1 DEF AtMain, server
    <3>2. /\ InQueue(d)' => InQueue(d)
          /\ InTables(d)' => InTables(d)
      BY <1>1 DEF InQueue, InTables, tables
    <3>3. InEv(d)' => InEv(d) \/ d = c
      BY <1>5, <1>8, NoneAssumption DEF InEv
    <3> QED
      BY <1>6, <2>1, <3>1, <3>2, <3>3, References DEF ObjectInv
  <2> QED
    BY <1>1, <1>10, <2>1, NoneDestroyed
<1>12. TaskInv'
  <2>1. ASSUME NEW m \in Loops, NEW d \in Clients, Waits(ListenRead(d), queue[m])
        PROVE  ev'[m].rcb # d
    <3>1. ioEvs[m][conn[d].fd].rcb = None /\ ev[m].rcb # d
      BY <2>1 DEF TaskInv
    <3> QED
      BY <1>4, <1>5, <1>8, <3>1 DEF OpenAt
  <2>2. UNCHANGED <<conn, queue, ioEvs>>
    BY <1>1 DEF tables
  <2> QED
    BY <2>1, <2>2 DEF TaskInv
<1>13. EvInv'
  <2>1. ASSUME NEW m \in Loops PROVE EvOK(ev[m], m)'
    <3>1. UNCHANGED <<conn, ioEvs, peer, inbox>> /\ EvOK(ev[m], m)
      BY <1>1 DEF tables, world, EvInv
    <3>2. CASE m = l
      <4>1. conn[c].loop = l /\ conn[c].fd = fd /\ conn[c].st = "kConnected"
        BY <1>5 DEF OpenAt
      <4>2. ioEvs[l][conn[c].fd].rcb = c
        BY <1>4, <4>1
      <4> QED
        BY <1>5, <1>8, <3>1, <3>2, <4>1, <4>2 DEF EvOK
    <3>3. CASE m # l
      BY <1>8, <3>1, <3>3 DEF EvOK
    <3> QED
      BY <3>2, <3>3
  <2> QED
    BY <2>1 DEF EvInv
<1> QED
  BY <1>9, <1>10, <1>11, <1>12, <1>13

LEMMA DispatchedStep ==
    ASSUME ServerInv, NEW l \in IO, Dispatched(l)
    PROVE  ServerInv'
<1> USE DEF ServerInv
<1>1. /\ ev' = [ev EXCEPT ![l] = NoEv]
      /\ UNCHANGED <<world, conn, server, queue, tables, onClose, pushes>>
      /\ Destructors
  BY DEF Dispatched
<1>2. /\ ev' \in [Loops -> IoEvent] /\ l \in Loops /\ ev'[l] = NoEv
      /\ \A m \in Loops : m # l => ev'[m] = ev[m]
  <2>1. NoEv \in IoEvent /\ l \in Loops
    BY EmptySeq DEF NoEv, IoEvent, OptConn, Loops
  <2> QED
    BY <1>1, <2>1, Types
<1>3. SameOwners /\ ClientInv' /\ HoldInv' /\ DeleteInv' /\ TableInv'
  BY <1>1, OnlyEv
<1>4. ObjectInv' /\ alive' \subseteq alive /\ openFds' \subseteq openFds /\ s_conn_nums' \in Nat
  <2>1. ASSUME NEW d \in Clients, Referenced(d)' PROVE d \in alive
    <3>1. AtMain(d)' => AtMain(d)
      BY <1>1 DEF AtMain, server
    <3>2. /\ InQueue(d)' => InQueue(d)
          /\ InTables(d)' => InTables(d)
      BY <1>1 DEF InQueue, InTables, tables
    <3>3. InEv(d)' => InEv(d)
      BY <1>2, NoneAssumption DEF InEv, NoEv
    <3> QED
      BY <2>1, <3>1, <3>2, <3>3, References DEF ObjectInv
  <2> QED
    BY <1>1, <1>3, <2>1, Destroyed
<1>5. TypeOK'
  <2>1. openFds' \subseteq Fds /\ alive' \subseteq Clients /\ s_conn_nums' \in Nat
    BY <1>4 DEF TypeOK
  <2> QED
    BY <1>1, <1>2, <2>1 DEF TypeOK, IoEvent, world, server, tables
<1>6. TaskInv'
  <2>1. ASSUME NEW m \in Loops, NEW d \in Clients, Waits(ListenRead(d), queue[m])
        PROVE  ev'[m].rcb # d
    BY <1>2, <2>1, NoneAssumption DEF TaskInv, NoEv
  <2>2. UNCHANGED <<conn, queue, ioEvs>>
    BY <1>1 DEF tables
  <2> QED
    BY <2>1, <2>2 DEF TaskInv
<1>7. EvInv'
  <2>1. ASSUME NEW m \in Loops PROVE EvOK(ev[m], m)'
    <3>1. UNCHANGED <<conn, ioEvs, peer, inbox>> /\ EvOK(ev[m], m)
      BY <1>1 DEF tables, world, EvInv
    <3>2. CASE m = l
      BY <1>2, <3>2 DEF EvOK, NoEv
    <3>3. CASE m # l
      BY <1>2, <3>1, <3>3 DEF EvOK
    <3> QED
      BY <3>2, <3>3
  <2> QED
    BY <2>1 DEF EvInv
<1> QED
  BY <1>3, <1>4, <1>5, <1>6, <1>7

-----------------------------------------------------------------------------
(* The IO loops: the callbacks.                                            *)

\* The connection whose callbacks a loop runs, and what is left to call.
LEMMA CallbackOf ==
    ASSUME ServerInv, NEW l \in IO, NEW call, NextCall(l, call), NEW c, c = ev[l].rcb
    PROVE  /\ l \in Loops /\ l # Main
           /\ c \in Clients /\ c \in alive /\ c # None
           /\ conn[c].loop = l /\ conn[c].fd \in Fds /\ conn[c].st # "none"
           /\ call = "write" => ev[l].wcb = c
           /\ conn[c].st = "kConnected" => ioEvs[l][conn[c].fd].rcb = c
           /\ call = "read" /\ conn[c].st # "kConnected" => peer[c] = "gone" /\ inbox[c] = 0
<1> USE DEF ServerInv
<1>1. /\ ev[l].on /\ ev[l].calls # <<>> /\ Head(ev[l].calls) = call
      /\ ev' = [ev EXCEPT ![l].calls = Tail(@)]
  BY DEF NextCall
<1>2. l \in Loops /\ l # Main /\ ev[l] \in IoEvent
  BY LoopsAssumption, Types DEF Loops, IO, Main
<1>3. EvOK(ev[l], l)
  BY <1>2 DEF EvInv
<1>4. /\ c \in Clients /\ conn[c].loop = l
      /\ conn[c].st = "kConnected" => ioEvs[l][conn[c].fd].rcb = c
      /\ \A i \in DOMAIN ev[l].calls :
           /\ ev[l].calls[i] = "write" => ev[l].wcb = c
           /\ ev[l].calls[i] = "read" /\ (i # 1 \/ conn[c].st # "kConnected") =>
                 /\ peer[c] = "gone"
                 /\ ev[l].calls[1] = "write" \/ conn[c].st # "kConnected" => inbox[c] = 0
  BY <1>1, <1>3 DEF EvOK
<1>5. c \in alive /\ c # None /\ conn[c].fd \in Fds /\ conn[c].st # "none"
  BY <1>2, <1>4, Alive
<1>6. 1 \in DOMAIN ev[l].calls /\ ev[l].calls[1] = call
  <2>1. ev[l].calls \in Seq({"read", "write"})
    BY <1>2 DEF IoEvent
  <2> QED
    BY <1>1, <2>1, TakenFrom
<1>7. /\ call = "write" => ev[l].wcb = c
      /\ call = "read" /\ conn[c].st # "kConnected" => peer[c] = "gone" /\ inbox[c] = 0
  BY <1>4, <1>6
<1> QED
  BY <1>2, <1>4, <1>5, <1>7

LEMMA CallsLeft ==
    ASSUME ServerInv, NEW l \in IO, NEW call, NextCall(l, call)
    PROVE  /\ ev' \in [Loops -> IoEvent]
           /\ \A m \in Loops : m # l => ev'[m] = ev[m]
           /\ \A m \in Loops : ev'[m].rcb = ev[m].rcb /\ ev'[m].wcb = ev[m].wcb
           /\ ev'[l].on = TRUE /\ ev[l].wcb \in {None, ev[l].rcb}
           /\ \A i \in DOMAIN ev'[l].calls :
                 /\ ev'[l].calls[i] = "write" => ev[l].wcb = ev[l].rcb
                 /\ ev'[l].calls[i] = "read" => peer[ev[l].rcb] = "gone"
                 /\ ev'[l].calls[i] = "read" /\ call = "write" => inbox[ev[l].rcb] = 0
<1> USE DEF ServerInv
<1>1. /\ ev[l].on /\ ev[l].calls # <<>> /\ Head(ev[l].calls) = call
      /\ ev' = [ev EXCEPT ![l].calls = Tail(@)]
  BY DEF NextCall
<1>2. l \in Loops /\ ev[l] \in IoEvent
  BY Types DEF Loops
<1>3. EvOK(ev[l], l)
  BY <1>2 DEF EvInv
<1>4. PICK c, t : c = ev[l].rcb /\ t = Tail(ev[l].calls)
  OBVIOUS
<1>5. /\ ev[l].wcb \in {None, c}
      /\ \A i \in DOMAIN ev[l].calls :
           /\ ev[l].calls[i] = "write" => ev[l].wcb = c
           /\ ev[l].calls[i] = "read" /\ i # 1 =>
                 peer[c] = "gone" /\ (ev[l].calls[1] = "write" => inbox[c] = 0)
  BY <1>1, <1>3, <1>4 DEF EvOK
<1>6. /\ t \in Seq({"read", "write"})
      /\ 1 \in DOMAIN ev[l].calls /\ ev[l].calls[1] = call
      /\ \A i \in DOMAIN t : /\ i + 1 \in DOMAIN ev[l].calls /\ t[i] = ev[l].calls[i + 1]
                             /\ i + 1 # 1
  <2>1. ev[l].calls \in Seq({"read", "write"})
    BY <1>2 DEF IoEvent
  <2> QED
    BY <1>1, <1>4, <2>1, TakenFrom
<1>7. /\ ev'[l].rcb = c /\ ev'[l].wcb = ev[l].wcb /\ ev'[l].on = TRUE
      /\ ev'[l].calls = t /\ ev'[l] \in IoEvent
  <2>1. ev'[l] = [ev[l] EXCEPT !.calls = t] /\ ev[l].on = TRUE
    BY <1>1, <1>2, <1>4, Types DEF IoEvent
  <2>2. ev'[l].rcb = c /\ ev'[l].wcb = ev[l].wcb /\ ev'[l].on = TRUE /\ ev'[l].calls = t
    BY <1>2, <1>4, <2>1 DEF IoEvent
  <2>3. ev'[l] \in IoEvent
    BY <1>2, <1>6, <2>1 DEF IoEvent
  <2> QED
    BY <2>2, <2>3
<1>8. ev' \in [Loops -> IoEvent] /\ \A m \in Loops : m # l => ev'[m] = ev[m]
  BY <1>1, <1>2, <1>7, Types
<1>9. \A m \in Loops : ev'[m].rcb = ev[m].rcb /\ ev'[m].wcb = ev[m].wcb
  BY <1>4, <1>7, <1>8
<1>10. \A i \in DOMAIN t : /\ t[i] = "write" => ev[l].wcb = c
                           /\ t[i] = "read" => peer[c] = "gone"
                           /\ t[i] = "read" /\ call = "write" => inbox[c] = 0
  BY <1>5, <1>6
<1> QED
  BY <1>4, <1>5, <1>7, <1>8, <1>9, <1>10

\* Reading leaves nothing in the inbox, so a callback called after another finds
\* what the invariant says of it.
LEMMA CallbackEv ==
    ASSUME ServerInv, NEW l \in IO, NEW call, NextCall(l, call), NEW c, c = ev[l].rcb,
           peer' = peer, \A d \in Clients : d # c => inbox'[d] = inbox[d],
           inbox'[c] = 0 \/ (call = "write" /\ inbox'[c] = inbox[c]),
           \A d \in Clients : conn'[d].fd = conn[d].fd /\ conn'[d].loop = conn[d].loop,
           \A d \in Clients : d # c => conn'[d].st = conn[d].st,
           conn'[c].st = "kConnected" =>
              conn[c].st = "kConnected" /\ ioEvs'[l][conn[c].fd].rcb = ioEvs[l][conn[c].fd].rcb,
           \A m \in Loops : \A g \in Fds : m # l => ioEvs'[m][g] = ioEvs[m][g]
    PROVE  EvInv'
<1> USE DEF ServerInv
<1>1. /\ l \in Loops /\ c \in Clients /\ conn[c].loop = l
      /\ conn[c].st = "kConnected" => ioEvs[l][conn[c].fd].rcb = c
      /\ \A m \in Loops : m # l => ev'[m] = ev[m]
      /\ ev'[l].rcb = c /\ ev'[l].wcb = ev[l].wcb /\ ev'[l].on = TRUE
      /\ ev[l].wcb \in {None, c}
      /\ \A i \in DOMAIN ev'[l].calls : /\ ev'[l].calls[i] = "write" => ev[l].wcb = c
                                        /\ ev'[l].calls[i] = "read" => peer[c] = "gone"
                                        /\ ev'[l].calls[i] = "read" /\ call = "write"
                                              => inbox[c] = 0
  <2>1. /\ l \in Loops /\ c \in Clients /\ conn[c].loop = l
        /\ conn[c].st = "kConnected" => ioEvs[l][conn[c].fd].rcb = c
    BY CallbackOf
  <2> QED
    BY <2>1, CallsLeft, ZenonT(40)
<1>2. \A i \in DOMAIN ev'[l].calls : ev'[l].calls[i] = "read" => inbox'[c] = 0
  BY <1>1
<1>3. EvOK(ev[l], l)'
  <2>1. conn'[c].loop = l /\ conn'[c].fd = conn[c].fd
    BY <1>1
  <2>2. conn'[c].st = "kConnected" => ioEvs'[l][conn'[c].fd].rcb = c
    BY <1>1, <2>1
  <2> QED
    BY <1>1, <1>2, <2>1, <2>2 DEF EvOK
<1>4. ASSUME NEW m \in Loops, m # l PROVE EvOK(ev[m], m)'
  <2>1. EvOK(ev[m], m) /\ ev'[m] = ev[m]
    BY <1>1, <1>4 DEF EvInv
  <2>2. CASE ~ev[m].on
    BY <2>1, <2>2 DEF EvOK
  <2>3. CASE ev[m].on
    <3>1. PICK d : d = ev[m].rcb
      OBVIOUS
    <3>2. d \in Clients /\ conn[d].loop = m
      BY <2>1, <2>3, <3>1 DEF EvOK
    <3>3. d # c /\ conn[d].fd \in Fds
      BY <1>1, <1>4, <3>1, <3>2, Alive
    <3>4. /\ conn'[d].st = conn[d].st /\ conn'[d].fd = conn[d].fd /\ conn'[d].loop = conn[d].loop
          /\ inbox'[d] = inbox[d] /\ peer'[d] = peer[d]
          /\ ioEvs'[m][conn[d].fd] = ioEvs[m][conn[d].fd]
      BY <1>4, <3>2, <3>3
    <3>5. PICK e : e = ev[m]
      OBVIOUS
    <3>6. /\ e.wcb \in {None, d}
          /\ conn[d].st = "kConnected" => ioEvs[m][conn[d].fd].rcb = d
          /\ \A i \in DOMAIN e.calls :
               /\ e.calls[i] = "write" => e.wcb = d
               /\ e.calls[i] = "read" /\ (i # 1 \/ conn[d].st # "kConnected") =>
                     /\ peer[d] = "gone"
                     /\ e.calls[1] = "write" \/ conn[d].st # "kConnected" => inbox[d] = 0
      BY <2>1, <2>3, <3>1, <3>5, Zenon DEF EvOK
    <3>7. /\ conn'[d].st = "kConnected" => ioEvs'[m][conn'[d].fd].rcb = d
          /\ \A i \in DOMAIN e.calls :
               /\ e.calls[i] = "write" => e.wcb = d
               /\ e.calls[i] = "read" /\ (i # 1 \/ conn'[d].st # "kConnected") =>
                     /\ peer'[d] = "gone"
                     /\ e.calls[1] = "write" \/ conn'[d].st # "kConnected" => inbox'[d] = 0
      BY ONLY <3>4, <3>6, SMT
    <3>8. ev'[m] = e /\ e.on /\ e.rcb = d
      BY <2>1, <2>3, <3>1, <3>5
    <3>9. conn'[d].loop = m
      BY <3>2, <3>4
    <3> QED
      BY <3>2, <3>6, <3>7, <3>8, <3>9, Zenon DEF EvOK
  <2> QED
    BY <2>2, <2>3
<1> QED
  BY <1>3, <1>4 DEF EvInv

\* What the clients are to the main loop is not touched by a callback.
LEMMA CallbackClients ==
    ASSUME ServerInv, SameOwners, UNCHANGED <<peer, asked, backlog, server>>,
           inbox' \in [Clients -> 0 .. MaxMsgs], \A c \in Clients : inbox'[c] <= inbox[c]
    PROVE  ClientInv'
<1> USE DEF ServerInv
<1>1. \A i \in DOMAIN backlog : backlog[i] \in Clients
  BY ElementOfSeq, LenProperties DEF TypeOK
<1>2. \A c \in Clients : inbox'[c] <= asked[c]
  <2>1. ASSUME NEW c \in Clients PROVE inbox'[c] <= asked[c]
    <3>1. inbox'[c] \in Nat /\ inbox[c] \in Nat /\ asked[c] \in Nat
      BY DEF TypeOK
    <3> QED
      BY <3>1 DEF ClientInv
  <2> QED
    BY <2>1
<1> QED
  BY <1>1, <1>2 DEF ClientInv, SameOwners, server

\* The connection whose callback runs gets or loses output, and EPOLLOUT with it.
LEMMA OutputChanged ==
    ASSUME ServerInv, NEW c \in Clients, NEW l \in Loops, NEW f \in Fds,
           c \in alive, l = conn[c].loop, f = conn[c].fd,
           SameStates, \A d \in Clients : d # c => conn'[d] = conn[d],
           \A m \in Loops : \A g \in Fds : m # l \/ g # f => ioEvs'[m][g] = ioEvs[m][g],
           ioEvs' \in [Loops -> [Fds -> Entry]],
           ioEvs'[l][f].rcb = ioEvs[l][f].rcb, EntryOK(ioEvs'[l][f], l, f),
           loopConns' = loopConns,
           conn[c].st = "kConnected" /\ conn'[c].obuf > 0 => "OUT" \in ioEvs'[l][f].armed,
           conn[c].st # "kConnected" => conn'[c].obuf = 0
    PROVE  TableInv'
<1> USE DEF ServerInv
<1>1. ASSUME NEW m \in Loops, NEW g \in Fds
      PROVE  loopConns'[m][g] = ioEvs'[m][g].rcb /\ EntryOK(ioEvs[m][g], m, g)'
  <2>1. loopConns[m][g] = ioEvs[m][g].rcb /\ EntryOK(ioEvs[m][g], m, g)
    BY DEF TableInv
  <2>2. EntryOK(ioEvs'[m][g], m, g) /\ ioEvs'[m][g].rcb = ioEvs[m][g].rcb
    BY <2>1
  <2>3. ioEvs'[m][g].rcb \in OptConn
    BY DEF Entry
  <2> QED
    BY <2>1, <2>2, <2>3 DEF EntryOK, OpenAt, SameStates, OptConn
<1>2. ASSUME NEW d \in Clients, conn[d].st = "kConnected", conn'[d].obuf > 0
      PROVE  "OUT" \in ioEvs'[conn[d].loop][conn[d].fd].armed
  <2>1. CASE d # c
    <3>1. conn[d].loop \in Loops /\ conn[d].fd \in Fds /\ d \in alive
      BY <1>2, Types, Alive
    <3>2. conn[d].fd # f
      BY <2>1, <3>1 DEF ObjectInv, OneOwner
    <3>3. "OUT" \in ioEvs[conn[d].loop][conn[d].fd].armed
      BY <1>2, <2>1 DEF TableInv, OutputIsArmed
    <3> QED
      BY <3>1, <3>2, <3>3
  <2>2. CASE d = c
    BY <1>2, <2>2
  <2> QED
    BY <2>1, <2>2
<1>3. OutputIsArmed'
  BY <1>2 DEF OutputIsArmed, SameStates
<1>4. \A d \in Clients : conn'[d].st # "kConnected" => conn'[d].obuf = 0
  BY DEF TableInv, SameStates
<1> QED
  BY <1>1, <1>3, <1>4 DEF TableInv

LEMMA ReadRequestsStep ==
    ASSUME ServerInv, NEW l \in IO, ReadRequests(l)
    PROVE  ServerInv'
<1> USE DEF ServerInv
<1>0. PICK c, f : c = ev[l].rcb /\ f = conn[c].fd
  OBVIOUS
<1>1. /\ NextCall(l, "read") /\ inbox[c] > 0
      /\ inbox' = [inbox EXCEPT ![c] = 0]
      /\ UNCHANGED <<peer, asked, backlog, objects, server, queue, loopConns, onClose, pushes>>
  BY <1>0 DEF ReadRequests
<1>2. PICK n \in 0 .. inbox[c] : /\ conn' = [conn EXCEPT ![c].obuf = @ + n]
                                 /\ ioEvs' = [ioEvs EXCEPT ![l] = Sent(@, c, n)]
  BY <1>0 DEF ReadRequests
<1>3. /\ l \in Loops /\ l # Main /\ c \in Clients /\ c \in alive /\ c # None
      /\ conn[c].loop = l /\ f \in Fds
      /\ conn[c].st = "kConnected" => ioEvs[l][f].rcb = c
      /\ conn[c].st # "kConnected" => inbox[c] = 0
      /\ ev' \in [Loops -> IoEvent]
      /\ \A m \in Loops : ev'[m].rcb = ev[m].rcb /\ ev'[m].wcb = ev[m].wcb
  <2>1. c = ev[l].rcb /\ NextCall(l, "read") /\ f = conn[c].fd
    BY <1>0, <1>1
  <2>2. /\ l \in Loops /\ l # Main /\ c \in Clients /\ c \in alive /\ c # None
        /\ conn[c].loop = l /\ f \in Fds
        /\ conn[c].st = "kConnected" => ioEvs[l][f].rcb = c
        /\ conn[c].st # "kConnected" => inbox[c] = 0
    BY <2>1, CallbackOf
  <2>3. /\ ev' \in [Loops -> IoEvent]
        /\ \A m \in Loops : ev'[m].rcb = ev[m].rcb /\ ev'[m].wcb = ev[m].wcb
    BY <2>1, CallsLeft, ZenonT(40)
  <2> QED
    BY <2>2, <2>3
<1>4. conn[c].st = "kConnected" /\ ioEvs[l][f].rcb = c
  BY <1>1, <1>3
<1>5. /\ inbox'[c] = 0 /\ \A d \in Clients : d # c => inbox'[d] = inbox[d]
      /\ inbox' \in [Clients -> 0 .. MaxMsgs]
      /\ \A d \in Clients : inbox'[d] <= inbox[d]
  <2>1. 0 \in 0 .. MaxMsgs
    BY BoundsAssumption
  <2>2. /\ inbox'[c] = 0 /\ \A d \in Clients : d # c => inbox'[d] = inbox[d]
        /\ inbox' \in [Clients -> 0 .. MaxMsgs]
    BY <1>1, <1>3, <2>1 DEF TypeOK
  <2>3. \A d \in Clients : inbox[d] \in Nat
    BY DEF TypeOK
  <2> QED
    BY <2>2, <2>3
<1>6. conn[c].obuf \in Nat /\ n \in Nat
  <2>1. inbox[c] \in Nat
    BY <1>3 DEF TypeOK
  <2> QED
    BY <1>3, <2>1, Types
<1>7. /\ conn' \in [Clients -> ConnState] /\ SameStates
      /\ conn'[c].obuf = conn[c].obuf + n /\ \A d \in Clients : d # c => conn'[d] = conn[d]
  <2>1. conn'[c] = [conn[c] EXCEPT !.obuf = @ + n] /\ \A d \in Clients : d # c => conn'[d] = conn[d]
    BY <1>2, <1>3, Types
  <2>2. conn[c] \in ConnState
    BY <1>3, Types
  <2>3. /\ conn'[c].st = conn[c].st /\ conn'[c].fd = conn[c].fd /\ conn'[c].loop = conn[c].loop
        /\ conn'[c].obuf = conn[c].obuf + n
    BY <2>1, <2>2 DEF ConnState
  <2>4. conn'[c] \in ConnState
    BY <1>6, <2>1, <2>2 DEF ConnState
  <2> QED
    BY <1>2, <1>3, <2>1, <2>3, <2>4, Types DEF SameStates
<1>8. PICK e : e = ioEvs[l][f]
  OBVIOUS
<1>9. /\ e \in Entry /\ EntryOK(e, l, f) /\ e.rcb = c /\ OpenAt(c, l, f)
      /\ "IN" \in e.armed /\ e.wcb \in {None, c}
  <2>1. e \in Entry /\ EntryOK(e, l, f) /\ e.rcb = c
    BY <1>3, <1>4, <1>8, Types DEF TableInv
  <2> QED
    BY <1>3, <2>1 DEF EntryOK, NoEntry
<1>10. /\ ioEvs' \in [Loops -> [Fds -> Entry]]
       /\ \A m \in Loops : \A g \in Fds : m # l \/ g # f => ioEvs'[m][g] = ioEvs[m][g]
       /\ ioEvs'[l][f].rcb = c /\ EntryOK(ioEvs'[l][f], l, f)
       /\ ioEvs'[l][f].wcb \in {None, c}
       /\ conn'[c].obuf > 0 => "OUT" \in ioEvs'[l][f].armed
  <2>1. CASE conn[c].obuf = 0 /\ n > 0
    <3>1. PICK x : x = [rcb |-> c, wcb |-> c, armed |-> e.armed \cup {"OUT"}]
      OBVIOUS
    <3>2. x \in Entry
      <4>1. e.armed \cup {"OUT"} \in SUBSET {"IN", "OUT"}
        BY <1>9 DEF Entry
      <4> QED
        BY <1>3, <3>1, <4>1 DEF Entry, OptConn
    <3>3. ioEvs' = [ioEvs EXCEPT ![l] = [ioEvs[l] EXCEPT ![f] = x]]
      <4>1. ioEvs' = [ioEvs EXCEPT ![l] = AddIoEvent(@, f, "OUT", c)]
        BY <1>0, <1>2, <2>1 DEF Sent
      <4>2. ioEvs[l] \in [Fds -> Entry]
        BY <1>3, Types
      <4>3. AddIoEvent(ioEvs[l], f, "OUT", c) = [ioEvs[l] EXCEPT ![f] = x]
        BY <1>3, <1>8, <1>9, <3>1, <4>2 DEF AddIoEvent
      <4>4. ioEvs' = [ioEvs EXCEPT ![l] = AddIoEvent(ioEvs[l], f, "OUT", c)]
        BY <1>3, <4>1, Types
      <4> QED
        BY <4>3, <4>4
    <3>4. /\ ioEvs' \in [Loops -> [Fds -> Entry]] /\ ioEvs'[l][f] = x
          /\ \A m \in Loops : \A g \in Fds : m # l \/ g # f => ioEvs'[m][g] = ioEvs[m][g]
      <4>1. l \in Loops /\ f \in Fds /\ x \in Entry
        BY <1>3, <3>2
      <4> QED
        BY <3>3, <4>1, EntryReplaced, ZenonT(40)
    <3>5. EntryOK(x, l, f)
      BY <1>3, <1>9, <3>1 DEF EntryOK
    <3> QED
      BY <3>1, <3>4, <3>5
  <2>2. CASE ~(conn[c].obuf = 0 /\ n > 0)
    <3>1. ioEvs' = ioEvs
      BY <1>2, <1>3, <2>2, Types DEF Sent
    <3>2. conn'[c].obuf > 0 => conn[c].obuf > 0
      BY <1>6, <1>7, <2>2
    <3>3. conn[c].obuf > 0 => "OUT" \in e.armed
      BY <1>0, <1>3, <1>4, <1>8 DEF TableInv, OutputIsArmed
    <3> QED
      BY <1>8, <1>9, <3>1, <3>2, <3>3, Types
  <2> QED
    BY <2>1, <2>2
<1>11. SameOwners
  BY <1>7 DEF SameStates, SameOwners
<1>12. TypeOK'
  BY <1>1, <1>3, <1>5, <1>7, <1>10 DEF TypeOK, Entry, ConnState, IoEvent, objects, server
<1>13. ClientInv'
  BY <1>1, <1>5, <1>11, CallbackClients
<1>14. ObjectInv'
  <2>1. ASSUME NEW d \in Clients, Referenced(d)' PROVE d \in alive
    <3>1. AtMain(d)' => AtMain(d)
      BY <1>1 DEF AtMain, server
    <3>2. InQueue(d)' => InQueue(d)
      BY <1>1 DEF InQueue
    <3>3. InTables(d)' => InTables(d) \/ d = c
      BY <1>1, <1>10, NoneAssumption DEF InTables
    <3>4. InEv(d)' => InEv(d)
      BY <1>3 DEF InEv
    <3> QED
      BY <1>3, <2>1, <3>1, <3>2, <3>3, <3>4, References DEF ObjectInv
  <2> QED
    BY <1>1, <1>11, <2>1, NoneDestroyed
<1>15. HoldInv' /\ \A d \in Clients : Held(d)' <=> Held(d)
  BY <1>1, <1>11, HoldKept
<1>16. DeleteInv'
  BY <1>1, <1>7, <1>15 DEF DeleteInv, SameStates
<1>17. TableInv'
  <2>1. ioEvs'[l][f].rcb = ioEvs[l][f].rcb
    BY <1>4, <1>10
  <2> QED
    BY <1>0, <1>1, <1>3, <1>4, <1>7, <1>10, <2>1, OutputChanged
<1>18. TaskInv'
  <2>1. \A m \in Loops : \A g \in Fds : ioEvs'[m][g].rcb = ioEvs[m][g].rcb
    BY <1>4, <1>10
  <2> QED
    BY <1>1, <1>3, <1>7, <2>1, TasksKept
<1>19. EvInv'
  <2>1. ioEvs'[l][conn[c].fd].rcb = ioEvs[l][conn[c].fd].rcb
    BY <1>0, <1>4, <1>10
  <2>2. /\ NextCall(l, "read") /\ c = ev[l].rcb /\ peer' = peer
        /\ \A d \in Clients : d # c => inbox'[d] = inbox[d]
        /\ inbox'[c] = 0
    BY <1>0, <1>1, <1>5
  <2>3. /\ \A d \in Clients : conn'[d].fd = conn[d].fd /\ conn'[d].loop = conn[d].loop
        /\ \A d \in Clients : d # c => conn'[d].st = conn[d].st
        /\ \A m \in Loops : \A g \in Fds : m # l => ioEvs'[m][g] = ioEvs[m][g]
    BY <1>7, <1>10 DEF SameStates
  <2> QED
    BY <1>4, <2>1, <2>2, <2>3, CallbackEv
<1> QED
  BY <1>12, <1>13, <1>14, <1>15, <1>16, <1>17, <1>18, <1>19

\* handle_write sends output of an open connection; on one that is closed already
\* it finds none, and no other connection's entry at the descriptor to disarm.
LEMMA WriteSomeStep ==
    ASSUME ServerInv, NEW l \in IO, WriteSome(l)
    PROVE  ServerInv'
<1> USE DEF ServerInv
<1>0. PICK c, f : c = ev[l].rcb /\ f = conn[c].fd
  OBVIOUS
<1>1. /\ NextCall(l, "write")
      /\ UNCHANGED <<world, server, queue, loopConns, onClose, pushes>>
      /\ Destructors
  BY DEF WriteSome
<1>2. /\ l \in Loops /\ l # Main /\ c \in Clients /\ c \in alive /\ c # None
      /\ conn[c].loop = l /\ f \in Fds /\ ev[l].wcb = c
      /\ conn[c].st = "kConnected" => ioEvs[l][f].rcb = c
  <2>1. c = ev[l].rcb /\ f = conn[c].fd
    BY <1>0
  <2> QED
    BY <1>1, <2>1, CallbackOf
<1>3. /\ ev' \in [Loops -> IoEvent]
      /\ \A m \in Loops : ev'[m].rcb = ev[m].rcb /\ ev'[m].wcb = ev[m].wcb
  BY <1>1, CallsLeft
<1>4. PICK left \in 0 .. conn[c].obuf :
        /\ conn' = [conn EXCEPT ![c].obuf = left]
        /\ ioEvs' = IF left = 0 THEN [ioEvs EXCEPT ![l] = DisarmOut(@, f)] ELSE ioEvs
  BY <1>0, <1>2 DEF WriteSome
<1>5. conn[c].obuf \in Nat /\ left \in Nat /\ left <= conn[c].obuf
  BY <1>2, Types
<1>6. /\ conn' \in [Clients -> ConnState] /\ SameStates
      /\ conn'[c].obuf = left /\ \A d \in Clients : d # c => conn'[d] = conn[d]
  <2>1. conn'[c] = [conn[c] EXCEPT !.obuf = left] /\ \A d \in Clients : d # c => conn'[d] = conn[d]
    BY <1>2, <1>4, Types
  <2>2. conn[c] \in ConnState
    BY <1>2, Types
  <2>3. /\ conn'[c].st = conn[c].st /\ conn'[c].fd = conn[c].fd /\ conn'[c].loop = conn[c].loop
        /\ conn'[c].obuf = left
    BY <2>1, <2>2 DEF ConnState
  <2>4. conn'[c] \in ConnState
    BY <1>5, <2>1, <2>2 DEF ConnState
  <2> QED
    BY <1>2, <1>4, <2>1, <2>3, <2>4, Types DEF SameStates
<1>7. conn[c].st # "kConnected" => conn[c].obuf = 0
  BY <1>2 DEF TableInv
<1>8. PICK e : e = ioEvs[l][f]
  OBVIOUS
<1>9. e \in Entry /\ EntryOK(e, l, f)
  BY <1>2, <1>8, Types DEF TableInv
<1>10. PICK x : x = IF left = 0 THEN [e EXCEPT !.armed = @ \ {"OUT"}] ELSE e
  OBVIOUS
<1>11. x \in Entry /\ x.rcb = e.rcb /\ x.wcb = e.wcb
       /\ x.armed = IF left = 0 THEN e.armed \ {"OUT"} ELSE e.armed
  <2>1. e.armed \ {"OUT"} \in SUBSET {"IN", "OUT"}
    BY <1>9 DEF Entry
  <2> QED
    BY <1>9, <1>10, <2>1 DEF Entry
<1>12. EntryOK(x, l, f)
  <2>1. CASE e = NoEntry
    <3>1. x = NoEntry
      BY <1>10, <2>1 DEF NoEntry
    <3> QED
      BY <3>1 DEF EntryOK
  <2>2. CASE e # NoEntry
    <3>1. /\ e.rcb # None /\ OpenAt(e.rcb, l, f) /\ e.wcb \in {None, e.rcb} /\ "IN" \in e.armed
          /\ "OUT" \in e.armed => e.wcb = e.rcb
      BY <1>9, <2>2 DEF EntryOK
    <3> QED
      BY <1>11, <3>1 DEF EntryOK
  <2> QED
    BY <2>1, <2>2
<1>13. ioEvs' = [ioEvs EXCEPT ![l] = [ioEvs[l] EXCEPT ![f] = x]]
  <2>1. ioEvs[l] \in [Fds -> Entry] /\ ioEvs \in [Loops -> [Fds -> Entry]]
    BY <1>2, Types
  <2>2. CASE left = 0
    <3>1. DisarmOut(ioEvs[l], f) = [ioEvs[l] EXCEPT ![f] = x]
      <4>1. CASE e = NoEntry
        <5>1. x = NoEntry /\ e.armed \ {"OUT"} = {}
          BY <1>10, <4>1 DEF NoEntry
        <5> QED
          BY <1>8, <5>1 DEF DisarmOut, DelIoEvent
      <4>2. CASE e # NoEntry
        <5>1. e.armed \ {"OUT"} # {}
          BY <1>9, <4>2 DEF EntryOK
        <5>2. DisarmOut(ioEvs[l], f) = [ioEvs[l] EXCEPT ![f].armed = @ \ {"OUT"}]
          BY <1>8, <5>1 DEF DisarmOut
        <5> QED
          BY <1>2, <1>8, <1>10, <2>1, <2>2, <5>2
      <4> QED
        BY <4>1, <4>2
    <3>2. ioEvs' = [ioEvs EXCEPT ![l] = DisarmOut(ioEvs[l], f)]
      BY <1>2, <1>4, <2>1, <2>2
    <3> QED
      BY <3>1, <3>2
  <2>3. CASE left # 0
    <3>1. x = ioEvs[l][f] /\ ioEvs' = ioEvs
      BY <1>4, <1>8, <1>10, <2>3
    <3> QED
      BY <1>2, <2>1, <3>1
  <2> QED
    BY <2>2, <2>3
<1>14. /\ ioEvs' \in [Loops -> [Fds -> Entry]] /\ ioEvs'[l][f] = x
       /\ \A m \in Loops : \A g \in Fds : m # l \/ g # f => ioEvs'[m][g] = ioEvs[m][g]
  <2>1. l \in Loops /\ f \in Fds /\ x \in Entry
    BY <1>2, <1>11
  <2> QED
    BY <1>13, <2>1, EntryReplaced, ZenonT(40)
<1>15. \A m \in Loops : \A g \in Fds :
          ioEvs'[m][g].rcb = ioEvs[m][g].rcb /\ ioEvs'[m][g].wcb = ioEvs[m][g].wcb
  BY <1>8, <1>11, <1>14
<1>16. SameOwners
  BY <1>6 DEF SameStates, SameOwners
<1>17. ObjectInv' /\ alive' \subseteq alive /\ openFds' \subseteq openFds /\ s_conn_nums' \in Nat
  <2>1. ASSUME NEW d \in Clients, Referenced(d)' PROVE d \in alive
    <3>1. AtMain(d)' => AtMain(d)
      BY <1>1 DEF AtMain, server
    <3>2. InQueue(d)' => InQueue(d)
      BY <1>1 DEF InQueue
    <3>3. InTables(d)' => InTables(d)
      BY <1>1, <1>15 DEF InTables
    <3>4. InEv(d)' => InEv(d)
      BY <1>3 DEF InEv
    <3> QED
      BY <2>1, <3>1, <3>2, <3>3, <3>4, References DEF ObjectInv
  <2> QED
    BY <1>1, <1>16, <2>1, Destroyed
<1>18. TypeOK'
  <2>1. openFds' \subseteq Fds /\ alive' \subseteq Clients /\ s_conn_nums' \in Nat
    BY <1>17 DEF TypeOK
  <2> QED
    BY <1>1, <1>3, <1>6, <1>14, <2>1 DEF TypeOK, Entry, ConnState, IoEvent, world, server
<1>19. ClientInv'
  <2>1. inbox' \in [Clients -> 0 .. MaxMsgs] /\ \A d \in Clients : inbox'[d] <= inbox[d]
    BY <1>1 DEF TypeOK, world
  <2> QED
    BY <1>1, <1>16, <2>1, CallbackClients DEF world
<1>20. HoldInv' /\ \A d \in Clients : Held(d)' <=> Held(d)
  BY <1>1, <1>16, HoldKept
<1>21. DeleteInv'
  BY <1>1, <1>6, <1>20 DEF DeleteInv, SameStates
<1>22. TableInv'
  <2>1. ioEvs'[l][f].rcb = ioEvs[l][f].rcb /\ EntryOK(ioEvs'[l][f], l, f)
    BY <1>8, <1>11, <1>12, <1>14
  <2>2. conn[c].st # "kConnected" => conn'[c].obuf = 0
    BY <1>5, <1>6, <1>7
  <2>3. conn[c].st = "kConnected" /\ conn'[c].obuf > 0 => "OUT" \in ioEvs'[l][f].armed
    <3>1. SUFFICES ASSUME conn[c].st = "kConnected", conn'[c].obuf > 0
                   PROVE  "OUT" \in ioEvs'[l][f].armed
      OBVIOUS
    <3>2. left # 0 /\ conn[c].obuf > 0
      BY <1>5, <1>6, <3>1
    <3>3. "OUT" \in e.armed
      BY <1>0, <1>2, <1>8, <3>1, <3>2 DEF TableInv, OutputIsArmed
    <3> QED
      BY <1>11, <1>14, <3>2, <3>3
  <2> QED
    BY <1>0, <1>1, <1>2, <1>6, <1>14, <2>1, <2>2, <2>3, OutputChanged
<1>23. TaskInv'
  BY <1>1, <1>3, <1>6, <1>15, TasksKept
<1>24. EvInv'
  <2>1. ioEvs'[l][conn[c].fd].rcb = ioEvs[l][conn[c].fd].rcb
    BY <1>0, <1>2, <1>15
  <2>2. /\ NextCall(l, "write") /\ c = ev[l].rcb /\ peer' = peer /\ inbox' = inbox
    BY <1>0, <1>1 DEF world
  <2>3. /\ \A d \in Clients : conn'[d].fd = conn[d].fd /\ conn'[d].loop = conn[d].loop
        /\ \A d \in Clients : conn'[d].st = conn[d].st
        /\ \A m \in Loops : \A g \in Fds : m # l => ioEvs'[m][g] = ioEvs[m][g]
    BY <1>6, <1>14 DEF SameStates
  <2>4. /\ ServerInv /\ l \in IO /\ (\A d \in Clients : inbox'[d] = inbox[d])
        /\ conn'[c].st = conn[c].st
    BY <1>0, <1>2, <2>2, <2>3
  <2> QED
    BY ONLY <2>1, <2>2, <2>3, <2>4, CallbackEv
<1> QED
  BY <1>17, <1>18, <1>19, <1>20, <1>21, <1>22, <1>23, <1>24

\* tcp_conn::close on an open connection: what it does to its own connection, entry
\* and queue, and that it leaves the others alone.
LEMMA Closed ==
    ASSUME TypeOK, NEW c \in Clients, NEW l \in Loops, NEW f \in Fds,
           l = conn[c].loop, f = conn[c].fd, conn[c].st = "kConnected", Close(c)
    PROVE  /\ conn' \in [Clients -> ConnState]
           /\ conn'[c].st = "kDisconnected" /\ conn'[c].obuf = 0
           /\ \A d \in Clients : conn'[d].fd = conn[d].fd /\ conn'[d].loop = conn[d].loop
           /\ \A d \in Clients : d # c => conn'[d] = conn[d]
           /\ ioEvs' \in [Loops -> [Fds -> Entry]] /\ ioEvs'[l][f] = NoEntry
           /\ \A m \in Loops : \A g \in Fds : m # l \/ g # f => ioEvs'[m][g] = ioEvs[m][g]
           /\ loopConns' \in [Loops -> [Fds -> OptConn]] /\ loopConns'[l][f] = None
           /\ \A m \in Loops : \A g \in Fds :
                 m # l \/ g # f => loopConns'[m][g] = loopConns[m][g]
           /\ queue' \in [Loops -> Seq(Task)]
           /\ queue'[Main] = Append(queue[Main], DeleteConn(f))
           /\ \A m \in Loops : m # Main => queue'[m] = queue[m]
<1>1. /\ conn' = [conn EXCEPT ![c].st = "kDisconnected", ![c].obuf = 0]
      /\ ioEvs' = [ioEvs EXCEPT ![l] = DelIoEvent(@, f)]
      /\ loopConns' = [loopConns EXCEPT ![l][f] = None]
      /\ queue' = [queue EXCEPT ![Main] = Append(@, DeleteConn(f))]
  BY DEF Close
<1>2. /\ conn' \in [Clients -> ConnState]
      /\ conn'[c].st = "kDisconnected" /\ conn'[c].obuf = 0
      /\ conn'[c].fd = conn[c].fd /\ conn'[c].loop = conn[c].loop
      /\ \A d \in Clients : d # c => conn'[d] = conn[d]
  <2>1. /\ conn'[c] = [conn[c] EXCEPT !.st = "kDisconnected", !.obuf = 0]
        /\ \A d \in Clients : d # c => conn'[d] = conn[d]
    BY <1>1, Types
  <2>2. conn[c] \in ConnState
    BY Types
  <2>3. /\ conn'[c].st = "kDisconnected" /\ conn'[c].obuf = 0
        /\ conn'[c].fd = conn[c].fd /\ conn'[c].loop = conn[c].loop
    BY <2>1, <2>2 DEF ConnState
  <2>4. conn'[c] \in ConnState
    <3>1. conn'[c] = [st |-> "kDisconnected", fd |-> conn[c].fd, loop |-> conn[c].loop, obuf |-> 0]
      BY <2>1, <2>2 DEF ConnState
    <3>2. conn[c].fd \in Fds \cup {None} /\ conn[c].loop \in IO
      BY <2>2 DEF ConnState
    <3> QED
      BY <3>1, <3>2 DEF ConnState
  <2> QED
    BY <1>1, <2>1, <2>3, <2>4, Types
<1>3. PICK e, n : e = NoEntry /\ n = None
  OBVIOUS
<1>4. /\ ioEvs' \in [Loops -> [Fds -> Entry]] /\ ioEvs'[l][f] = NoEntry
      /\ \A m \in Loops : \A g \in Fds : m # l \/ g # f => ioEvs'[m][g] = ioEvs[m][g]
  <2>1. e \in Entry
    BY <1>3 DEF NoEntry, Entry, OptConn
  <2>2. ioEvs' = [ioEvs EXCEPT ![l] = [ioEvs[l] EXCEPT ![f] = e]]
    BY <1>1, <1>3, Types DEF DelIoEvent
  <2>3. /\ ioEvs' \in [Loops -> [Fds -> Entry]] /\ ioEvs'[l][f] = e
        /\ \A m \in Loops : \A g \in Fds : m # l \/ g # f => ioEvs'[m][g] = ioEvs[m][g]
    BY <2>1, <2>2, Types
  <2> QED
    BY <1>3, <2>3
<1>5. /\ loopConns' \in [Loops -> [Fds -> OptConn]] /\ loopConns'[l][f] = None
      /\ \A m \in Loops : \A g \in Fds : m # l \/ g # f => loopConns'[m][g] = loopConns[m][g]
  <2>1. n \in OptConn /\ loopConns' = [loopConns EXCEPT ![l][f] = n]
    BY <1>1, <1>3 DEF OptConn
  <2>2. /\ loopConns' \in [Loops -> [Fds -> OptConn]] /\ loopConns'[l][f] = n
        /\ \A m \in Loops : \A g \in Fds :
              m # l \/ g # f => loopConns'[m][g] = loopConns[m][g]
    BY <2>1, Types
  <2> QED
    BY <1>3, <2>2
<1>6. /\ queue' \in [Loops -> Seq(Task)]
      /\ queue'[Main] = Append(queue[Main], DeleteConn(f))
      /\ \A m \in Loops : m # Main => queue'[m] = queue[m]
  <2>1. /\ queue'[Main] = Append(queue[Main], DeleteConn(f))
        /\ \A m \in Loops : m # Main => queue'[m] = queue[m]
    BY <1>1, Types
  <2>2. queue'[Main] \in Seq(Task)
    BY <2>1, Types, TaskKinds, TaskPosted
  <2> QED
    BY <1>1, <2>1, <2>2, Types
<1> QED
  BY <1>2, <1>4, <1>5, <1>6

\* The callback of an open connection closes it.
LEMMA CloseStep ==
    ASSUME ServerInv, NEW l \in IO, NEW call, NextCall(l, call), NEW c, c = ev[l].rcb,
           conn[c].st = "kConnected", Close(c), Destructors,
           UNCHANGED <<peer, asked, backlog, server, onClose, pushes>>,
           inbox' \in [Clients -> 0 .. MaxMsgs],
           \A d \in Clients : d # c => inbox'[d] = inbox[d],
           inbox'[c] = 0 \/ (call = "write" /\ inbox'[c] = inbox[c])
    PROVE  ServerInv'
<1> USE DEF ServerInv
<1>1. PICK f : f = conn[c].fd
  OBVIOUS
<1>2. /\ l \in Loops /\ l # Main /\ c \in Clients /\ c \in alive /\ c # None
      /\ conn[c].loop = l /\ f \in Fds
  BY <1>1, CallbackOf
<1>3. /\ ev' \in [Loops -> IoEvent]
      /\ \A m \in Loops : ev'[m].rcb = ev[m].rcb /\ ev'[m].wcb = ev[m].wcb
  BY CallsLeft
<1>4. /\ conn' \in [Clients -> ConnState]
      /\ conn'[c].st = "kDisconnected" /\ conn'[c].obuf = 0
      /\ \A d \in Clients : conn'[d].fd = conn[d].fd /\ conn'[d].loop = conn[d].loop
      /\ \A d \in Clients : d # c => conn'[d] = conn[d]
  BY <1>1, <1>2, Closed
<1>5. /\ ioEvs' \in [Loops -> [Fds -> Entry]] /\ ioEvs'[l][f] = NoEntry
      /\ \A m \in Loops : \A g \in Fds : m # l \/ g # f => ioEvs'[m][g] = ioEvs[m][g]
  BY <1>1, <1>2, Closed
<1>6. /\ loopConns' \in [Loops -> [Fds -> OptConn]] /\ loopConns'[l][f] = None
      /\ \A m \in Loops : \A g \in Fds : m # l \/ g # f => loopConns'[m][g] = loopConns[m][g]
  BY <1>1, <1>2, Closed
<1>7. /\ queue' \in [Loops -> Seq(Task)]
      /\ queue'[Main] = Append(queue[Main], DeleteConn(f))
      /\ \A m \in Loops : m # Main => queue'[m] = queue[m]
  BY <1>1, <1>2, Closed
<1>8. /\ \A x : Waits(x, queue'[Main]) <=> Waits(x, queue[Main]) \/ x = DeleteConn(f)
      /\ \A x : Once(x, queue[Main]) /\ (x = DeleteConn(f) => ~Waits(x, queue[Main]))
                   => Once(x, queue'[Main])
  BY <1>2, <1>7, Types, TaskKinds, TaskPosted
<1>9. SameOwners
  <2>1. \A d \in Clients : d # c => conn'[d].st = conn[d].st
    BY <1>4
  <2> QED
    BY <1>4, <2>1 DEF SameOwners
<1>10. \A m \in Loops : \A d \in Clients :
          /\ Waits(ListenRead(d), queue'[m]) <=> Waits(ListenRead(d), queue[m])
          /\ Once(ListenRead(d), queue[m]) => Once(ListenRead(d), queue'[m])
  BY <1>2, <1>7, <1>8, TaskKinds
<1>11. ObjectInv' /\ alive' \subseteq alive /\ openFds' \subseteq openFds /\ s_conn_nums' \in Nat
  <2>1. ASSUME NEW d \in Clients, Referenced(d)' PROVE d \in alive
    <3>1. AtMain(d)' => AtMain(d)
      BY DEF AtMain, server
    <3>2. InQueue(d)' => InQueue(d)
      BY <1>10 DEF InQueue
    <3>3. InTables(d)' => InTables(d)
      BY <1>5, <1>6, NoneAssumption DEF InTables, NoEntry
    <3>4. InEv(d)' => InEv(d)
      BY <1>3 DEF InEv
    <3> QED
      BY <2>1, <3>1, <3>2, <3>3, <3>4, References DEF ObjectInv
  <2> QED
    BY <1>9, <2>1, Destroyed
<1>12. TypeOK'
  <2>1. openFds' \subseteq Fds /\ alive' \subseteq Clients /\ s_conn_nums' \in Nat
    BY <1>11 DEF TypeOK
  <2> QED
    BY <1>3, <1>4, <1>5, <1>6, <1>7, <2>1 DEF TypeOK, Entry, ConnState, IoEvent, server
<1>13. ClientInv'
  <2>1. \A d \in Clients : inbox'[d] <= inbox[d]
    <3>1. \A d \in Clients : inbox[d] \in Nat
      BY DEF TypeOK
    <3> QED
      BY <3>1
  <2> QED
    BY <1>9, <2>1, CallbackClients
<1>14. HoldInv' /\ \A d \in Clients : Held(d)' <=> Held(d)
  BY <1>9, HoldKept
<1>15. DeleteInv'
  <2>1. ~Waits(DeleteConn(f), queue[Main])
    <3>1. SUFFICES ASSUME Waits(DeleteConn(f), queue[Main]) PROVE FALSE
      OBVIOUS
    <3>2. PICK d \in Clients : conn[d].st = "kDisconnected" /\ conn[d].fd = f /\ Held(d)
      BY <1>2, <3>1 DEF DeleteInv
    <3>3. d \in alive
      BY <1>2, <3>2, Unreferenced DEF Held
    <3> QED
      BY <1>1, <1>2, <3>2, <3>3 DEF ObjectInv, OneOwner
  <2>2. ASSUME NEW g \in Fds
        PROVE  /\ Waits(DeleteConn(g), queue'[Main]) =>
                     \E d \in Clients : conn'[d].st = "kDisconnected" /\ conn'[d].fd = g /\ Held(d)'
               /\ Once(DeleteConn(g), queue'[Main])
    <3>1. CASE g = f
      <4>1. Held(c)'
        BY <1>2, <1>14 DEF HoldInv
      <4>2. Once(DeleteConn(f), queue[Main])
        BY <1>2 DEF DeleteInv
      <4> QED
        BY <1>1, <1>2, <1>4, <1>8, <2>1, <3>1, <4>1, <4>2
    <3>2. CASE g # f
      <4>1. DeleteConn(g) # DeleteConn(f)
        BY <3>2, TaskKinds
      <4>2. Once(DeleteConn(g), queue'[Main])
        BY <1>8, <4>1 DEF DeleteInv
      <4>3. ASSUME Waits(DeleteConn(g), queue'[Main])
            PROVE  \E d \in Clients : conn'[d].st = "kDisconnected" /\ conn'[d].fd = g /\ Held(d)'
        <5>1. PICK d \in Clients : conn[d].st = "kDisconnected" /\ conn[d].fd = g /\ Held(d)
          BY <1>8, <4>1, <4>3 DEF DeleteInv
        <5>2. conn'[d].st = "kDisconnected" /\ conn'[d].fd = g
          BY <1>4, <5>1
        <5> QED
          BY <1>14, <5>1, <5>2
      <4> QED
        BY <4>2, <4>3
    <3> QED
      BY <3>1, <3>2
  <2> QED
    BY <2>2 DEF DeleteInv
<1>16. TableInv'
  <2>1. ASSUME NEW m \in Loops, NEW g \in Fds
        PROVE  loopConns'[m][g] = ioEvs'[m][g].rcb /\ EntryOK(ioEvs[m][g], m, g)'
    <3>1. CASE m = l /\ g = f
      BY <1>5, <1>6, <3>1 DEF EntryOK, NoEntry
    <3>2. CASE m # l \/ g # f
      <4>1. /\ ioEvs'[m][g] = ioEvs[m][g] /\ loopConns'[m][g] = loopConns[m][g]
            /\ loopConns[m][g] = ioEvs[m][g].rcb /\ EntryOK(ioEvs[m][g], m, g)
            /\ ioEvs[m][g] \in Entry
        BY <1>5, <1>6, <3>2, Types DEF TableInv
      <4>2. CASE ioEvs[m][g] = NoEntry
        BY <4>1, <4>2 DEF EntryOK
      <4>3. CASE ioEvs[m][g] # NoEntry
        <5>1. PICK d : d = ioEvs[m][g].rcb
          OBVIOUS
        <5>2. d \in Clients /\ OpenAt(d, m, g)
          BY <4>1, <4>3, <5>1 DEF EntryOK, Entry, OptConn
        <5>3. d # c
          BY <1>1, <1>2, <3>2, <5>2 DEF OpenAt
        <5>4. conn'[d] = conn[d]
          BY <1>4, <5>2, <5>3
        <5> QED
          BY <4>1, <5>1, <5>4 DEF EntryOK, OpenAt
      <4> QED
        BY <4>2, <4>3
    <3> QED
      BY <3>1, <3>2
  <2>2. ASSUME NEW d \in Clients, conn'[d].st = "kConnected", conn'[d].obuf > 0
        PROVE  "OUT" \in ioEvs'[conn'[d].loop][conn'[d].fd].armed
    <3>1. d # c /\ conn'[d] = conn[d]
      BY <1>4, <2>2
    <3>2. conn[d].loop \in Loops /\ conn[d].fd \in Fds /\ d \in alive
      BY <2>2, <3>1, Types, Alive
    <3>3. conn[d].fd # f
      BY <1>1, <1>2, <3>1, <3>2 DEF ObjectInv, OneOwner
    <3>4. "OUT" \in ioEvs[conn[d].loop][conn[d].fd].armed
      BY <2>2, <3>1 DEF TableInv, OutputIsArmed
    <3> QED
      BY <1>5, <3>1, <3>2, <3>3, <3>4
  <2>3. OutputIsArmed'
    BY <2>2 DEF OutputIsArmed
  <2>4. \A d \in Clients : conn'[d].st # "kConnected" => conn'[d].obuf = 0
    BY <1>4 DEF TableInv
  <2> QED
    BY <2>1, <2>3, <2>4 DEF TableInv
<1>17. TaskInv'
  <2>1. ASSUME NEW m \in Loops, NEW d \in Clients, Waits(ListenRead(d), queue'[m])
        PROVE  /\ conn'[d].st = "kConnected" /\ conn'[d].loop = m
               /\ ioEvs'[m][conn'[d].fd].rcb = None /\ ev'[m].rcb # d
    <3>1. Waits(ListenRead(d), queue[m])
      BY <1>10, <2>1
    <3>2. /\ conn[d].st = "kConnected" /\ conn[d].loop = m
          /\ ioEvs[m][conn[d].fd].rcb = None /\ ev[m].rcb # d
      BY <3>1 DEF TaskInv
    <3>3. d # c
      BY <1>2, <3>2
    <3>4. conn'[d] = conn[d] /\ conn[d].fd \in Fds
      BY <1>4, <3>2, <3>3, Alive
    <3>5. ioEvs'[m][conn[d].fd].rcb = None
      BY <1>5, <3>2, <3>4 DEF NoEntry
    <3> QED
      BY <1>3, <3>2, <3>4, <3>5
  <2>2. \A m \in Loops : \A d \in Clients : Once(ListenRead(d), queue'[m])
    BY <1>10 DEF TaskInv
  <2> QED
    BY <2>1, <2>2 DEF TaskInv
<1>18. EvInv'
  <2>1. /\ \A d \in Clients : conn'[d].fd = conn[d].fd /\ conn'[d].loop = conn[d].loop
        /\ \A d \in Clients : d # c => conn'[d].st = conn[d].st
        /\ conn'[c].st # "kConnected"
        /\ \A m \in Loops : \A g \in Fds : m # l => ioEvs'[m][g] = ioEvs[m][g]
    BY <1>4, <1>5
  <2>2. peer' = peer
    OBVIOUS
  <2> QED
    BY <2>1, <2>2, CallbackEv
<1> QED
  BY <1>11, <1>12, <1>13, <1>14, <1>15, <1>16, <1>17, <1>18

\* A callback that finds its connection closed already.
LEMMA NothingClosed ==
    ASSUME ServerInv, NEW l \in IO, NEW call, NextCall(l, call), NEW c, c = ev[l].rcb,
           inbox[c] = 0,
           UNCHANGED <<world, conn, tables, queue, server, onClose, pushes>>, Destructors
    PROVE  ServerInv'
<1> USE DEF ServerInv
<1>1. /\ ev' \in [Loops -> IoEvent]
      /\ \A m \in Loops : ev'[m].rcb = ev[m].rcb /\ ev'[m].wcb = ev[m].wcb
  BY CallsLeft
<1>2. SameOwners /\ ClientInv' /\ HoldInv' /\ DeleteInv' /\ TableInv'
  BY OnlyEv
<1>3. ObjectInv' /\ alive' \subseteq alive /\ openFds' \subseteq openFds /\ s_conn_nums' \in Nat
  <2>1. ASSUME NEW d \in Clients, Referenced(d)' PROVE d \in alive
    <3>1. AtMain(d)' => AtMain(d)
      BY DEF AtMain, server
    <3>2. /\ InQueue(d)' => InQueue(d)
          /\ InTables(d)' => InTables(d)
      BY DEF InQueue, InTables, tables
    <3>3. InEv(d)' => InEv(d)
      BY <1>1 DEF InEv
    <3> QED
      BY <2>1, <3>1, <3>2, <3>3, References DEF ObjectInv
  <2> QED
    BY <1>2, <2>1, Destroyed
<1>4. TypeOK'
  <2>1. openFds' \subseteq Fds /\ alive' \subseteq Clients /\ s_conn_nums' \in Nat
    BY <1>3 DEF TypeOK
  <2> QED
    BY <1>1, <2>1 DEF TypeOK, IoEvent, world, server, tables
<1>5. TaskInv'
  BY <1>1, TasksKept DEF SameStates, tables
<1>6. EvInv'
  <2>1. UNCHANGED <<peer, inbox, ioEvs, conn>>
    BY DEF world, tables
  <2> QED
    BY <2>1, CallbackEv
<1> QED
  BY <1>2, <1>3, <1>4, <1>5, <1>6

LEMMA ReadClosesStep ==
    ASSUME ServerInv, NEW l \in IO, ReadCloses(l)
    PROVE  ServerInv'
<1> USE DEF ServerInv
<1>0. PICK c : c = ev[l].rcb
  OBVIOUS
<1>1. /\ NextCall(l, "read") /\ inbox' = [inbox EXCEPT ![c] = 0] /\ Close(c)
      /\ UNCHANGED <<peer, asked, backlog, server, onClose, pushes>>
      /\ Destructors
  BY <1>0 DEF ReadCloses
<1>2. c \in Clients /\ (conn[c].st # "kConnected" => inbox[c] = 0)
  BY <1>0, <1>1, CallbackOf
<1>3. /\ inbox'[c] = 0 /\ \A d \in Clients : d # c => inbox'[d] = inbox[d]
      /\ inbox' \in [Clients -> 0 .. MaxMsgs]
  <2>1. 0 \in 0 .. MaxMsgs
    BY BoundsAssumption
  <2> QED
    BY <1>1, <1>2, <2>1 DEF TypeOK
<1>4. CASE conn[c].st = "kConnected"
  BY <1>0, <1>1, <1>3, <1>4, CloseStep
<1>5. CASE conn[c].st # "kConnected"
  <2>1. UNCHANGED <<conn, tables, queue>>
    BY <1>1, <1>5 DEF Close
  <2>2. inbox' = inbox
    <3>1. \A d \in Clients : inbox'[d] = inbox[d]
      BY <1>2, <1>3, <1>5
    <3> QED
      BY <1>3, <3>1 DEF TypeOK
  <2> QED
    <3>1. UNCHANGED <<world, conn, tables, queue, server, onClose, pushes>>
      BY <1>1, <2>1, <2>2 DEF world
    <3> QED
      BY <1>0, <1>1, <1>2, <1>5, <3>1, NothingClosed
<1> QED
  BY <1>4, <1>5

LEMMA WriteClosesStep ==
    ASSUME ServerInv, NEW l \in IO, WriteCloses(l)
    PROVE  ServerInv'
<1> USE DEF ServerInv
<1>0. PICK c : c = ev[l].rcb
  OBVIOUS
<1>1. /\ NextCall(l, "write") /\ UNCHANGED <<world, server, onClose, pushes>> /\ Destructors
  BY DEF WriteCloses
<1>2. c \in Clients /\ ev[l].wcb = c
  BY <1>0, <1>1, CallbackOf
<1>3. conn[c].obuf > 0 /\ Close(c)
  BY <1>2 DEF WriteCloses
<1>4. conn[c].st = "kConnected"
  BY <1>2, <1>3 DEF TableInv
<1>5. /\ UNCHANGED <<peer, asked, backlog, inbox>>
      /\ inbox' \in [Clients -> 0 .. MaxMsgs]
  BY <1>1 DEF world, TypeOK
<1> QED
  BY <1>0, <1>1, <1>3, <1>4, <1>5, CloseStep

-----------------------------------------------------------------------------
(* The theorems.                                                           *)

LEMMA NextServerInv == ServerInv /\ [Next]_vars => ServerInv'
<1> SUFFICES ASSUME ServerInv, [Next]_vars PROVE ServerInv'
  OBVIOUS
<1>1. CASE World
  BY <1>1, WorldStep DEF World
<1>2. CASE ListenReadable
  BY <1>2, ListenReadableStep
<1>3. CASE AcceptTooMany
  BY <1>3, AcceptTooManyStep
<1>4. CASE AcceptConn
  BY <1>4, AcceptConnStep
<1>5. CASE StoreConn
  BY <1>5, StoreConnStep
<1>6. CASE RunDelete
  BY <1>6, RunDeleteStep
<1>7. CASE SendTask
  BY <1>7, SendTaskStep
<1>8. ASSUME NEW l \in Loops, RunPush(l) PROVE ServerInv'
  BY <1>8, RunPushStep
<1>9. ASSUME NEW l \in IO, RunListenRead(l) PROVE ServerInv'
  BY <1>9, RunListenReadStep
<1>10. ASSUME NEW l \in IO, Callback(l) PROVE ServerInv'
  BY <1>10, ReadRequestsStep, ReadClosesStep, WriteSomeStep, WriteClosesStep, DispatchedStep
     DEF Callback
<1>11. ASSUME NEW l \in IO, NEW fd \in Fds, Dispatch(l, fd) PROVE ServerInv'
  BY <1>11, DispatchStep
<1>12. CASE UNCHANGED vars
  <2>1. UNCHANGED <<world, objects, conn, server, queue, tables, ev, onClose, pushes>>
    BY <1>12 DEF vars
  <2>2. ClientInv' /\ TypeOK'
    BY <2>1 DEF ServerInv, ClientInv, TypeOK, world, objects, server, tables
  <2>3. ObjectInv' /\ HoldInv' /\ DeleteInv' /\ TableInv' /\ TaskInv' /\ EvInv'
    BY <2>1, ConnsKept DEF server, world
  <2> QED
    BY <2>2, <2>3 DEF ServerInv
<1> QED
  BY <1>1, <1>2, <1>3, <1>4, <1>5, <1>6, <1>7, <1>8, <1>9, <1>10, <1>11, <1>12
     DEF Next, AcceptEmfile

LEMMA SpecServerInv == Spec => []ServerInv
BY InitServerInv, NextServerInv, PTL DEF Spec

\* Every variable keeps its type, for any number of clients, loops and
\* descriptors: m_conns and the loops' tables hold connections, the queues tasks.
THEOREM ServerTypeCorrect == Spec => []TypeOK
<1>1. ServerInv => TypeOK
  BY DEF ServerInv
<1> QED
  BY <1>1, SpecServerInv, PTL

\* A loop calls back only live, open connections of its own that still own the
\* descriptor: whatever closes, is deleted and is accepted meanwhile.
THEOREM LoopsCallTheLiving == Spec => []TablesAreLive
<1>1. ServerInv => TablesAreLive
  <2> SUFFICES ASSUME ServerInv, NEW l \in Loops, NEW f \in Fds
               PROVE  LET e == ioEvs[l][f]
                      IN  /\ loopConns[l][f] = e.rcb
                          /\ \A c \in {e.rcb, e.wcb} \ {None} :
                                /\ c \in alive /\ conn[c].st = "kConnected"
                                /\ conn[c].fd = f /\ conn[c].loop = l
    BY DEF TablesAreLive
  <2>1. PICK e : e = ioEvs[l][f]
    OBVIOUS
  <2>2. loopConns[l][f] = e.rcb /\ EntryOK(e, l, f) /\ e \in Entry
    BY <2>1, Types DEF ServerInv, TableInv
  <2>3. ASSUME NEW c \in {e.rcb, e.wcb} \ {None}
        PROVE  c \in Clients /\ c = e.rcb /\ OpenAt(c, l, f)
    BY <2>2, <2>3 DEF EntryOK, NoEntry, Entry, OptConn
  <2>4. ASSUME NEW c \in {e.rcb, e.wcb} \ {None}
        PROVE  /\ c \in alive /\ conn[c].st = "kConnected"
               /\ conn[c].fd = f /\ conn[c].loop = l
    <3>1. c \in Clients /\ conn[c].st = "kConnected" /\ conn[c].fd = f /\ conn[c].loop = l
      BY <2>3 DEF OpenAt
    <3> QED
      BY <3>1, Alive
  <2> QED
    BY <2>1, <2>2, <2>4
<1> QED
  BY <1>1, SpecServerInv, PTL

\* A descriptor number is that of one tcp_conn at a time.
THEOREM DescriptorsHaveOneOwner == Spec => []OneOwner
<1>1. ServerInv => OneOwner
  BY DEF ServerInv, ObjectInv
<1> QED
  BY <1>1, SpecServerInv, PTL

\* ~tcp_conn never finds its connection open: m_conns or accept_callback holds it
\* until it is closed.
THEOREM OpenConnectionsAreHeld == Spec => []OpenIsHeld
<1>1. ServerInv => OpenIsHeld
  BY Alive DEF OpenIsHeld
<1> QED
  BY <1>1, SpecServerInv, PTL

\* The bare descriptor of a delete_conn task still means the connection that
\* posted it when the main loop runs it, and is deleted once.
THEOREM DeletesFindTheirOwn == Spec => []DeletesItsOwn
<1>1. ServerInv => DeletesItsOwn
  <2> SUFFICES ASSUME ServerInv, NEW i \in DOMAIN queue[Main],
                      queue[Main][i].kind = "delete_conn"
               PROVE  LET f == queue[Main][i].fd
                      IN  /\ \E c \in alive :
                              /\ conn[c].fd = f /\ conn[c].st = "kDisconnected"
                              /\ m_conns[f] = c \/ accepted = c
                          /\ \A j \in DOMAIN queue[Main] :
                                queue[Main][j] = queue[Main][i] => j = i
    BY DEF DeletesItsOwn
  <2>1. PICK task, f : task = queue[Main][i] /\ f = task.fd
    OBVIOUS
  <2>2. task \in Task
    <3>1. queue[Main] \in Seq(Task)
      BY Types DEF ServerInv
    <3> QED
      BY <2>1, <3>1, ElementOfSeq, LenProperties
  <2>3. f \in Fds /\ task = DeleteConn(f)
    BY <2>1, <2>2 DEF Task, ListenRead, Push, DeleteConn
  <2>4. Waits(DeleteConn(f), queue[Main])
    BY <2>1, <2>3 DEF Waits
  <2>5. PICK c \in Clients : conn[c].st = "kDisconnected" /\ conn[c].fd = f /\ Held(c)
    BY <2>3, <2>4 DEF ServerInv, DeleteInv
  <2>6. c \in alive /\ (m_conns[f] = c \/ accepted = c)
    BY <2>3, <2>5, Unreferenced DEF ServerInv, Held
  <2>7. \A j \in DOMAIN queue[Main] : queue[Main][j] = task => j = i
    BY ZenonT(40), <2>1, <2>3 DEF ServerInv, DeleteInv, Once
  <2> QED
    BY <2>1, <2>5, <2>6, <2>7
<1> QED
  BY <1>1, SpecServerInv, PTL

\* The close callback is called once for every connection, when it is closed and
\* before its object goes.
THEOREM CloseIsReportedOnce == Spec => []CloseReportedOnce
<1>1. ServerInv => CloseReportedOnce
  <2> SUFFICES ASSUME ServerInv, NEW c \in Clients
               PROVE  /\ onClose[c] <= 1
                      /\ onClose[c] = 1 => conn[c].st = "kDisconnected"
                      /\ conn[c].st # "none" /\ c \notin alive => onClose[c] = 1
    BY DEF CloseReportedOnce
  <2>1. onClose[c] = IF conn[c].st # "none" /\ ~Held(c) THEN 1 ELSE 0
    BY DEF ServerInv, HoldInv
  <2>2. conn[c].st = "kConnected" => Held(c)
    BY DEF ServerInv, HoldInv
  <2>3. conn[c].st \in {"none", "kConnected", "kDisconnected"}
    BY Types DEF ServerInv
  <2>4. conn[c].st # "none" /\ Held(c) => c \in alive
    <3>1. conn[c].st # "none" => conn[c].fd \in Fds
      BY DEF ServerInv, ObjectInv
    <3> QED
      BY <3>1, Unreferenced DEF ServerInv, Held
  <2> QED
    BY <2>1, <2>2, <2>3, <2>4
<1> QED
  BY <1>1, SpecServerInv, PTL

\* Unsent output of an open connection always has EPOLLOUT armed.
THEOREM OutputIsNeverStranded == Spec => []OutputIsArmed
<1>1. ServerInv => OutputIsArmed
  BY DEF ServerInv, TableInv
<1> QED
  BY <1>1, SpecServerInv, PTL

LEMMA CountFalls ==
    ASSUME ServerInv, Destructors
    PROVE  s_conn_nums \in Nat /\ s_conn_nums' \in Int /\ s_conn_nums' <= s_conn_nums
<1> DEFINE dead == {c \in alive : ~Referenced(c)'}
<1>1. s_conn_nums' = s_conn_nums - Cardinality(dead)
  BY DEF Destructors
<1>2. IsFiniteSet(alive) /\ dead \subseteq alive /\ s_conn_nums \in Nat
  BY DEF ServerInv, ObjectInv, TypeOK
<1> HIDE DEF dead
<1>3. Cardinality(dead) \in Nat
  BY <1>2, FS_Subset, FS_CardinalityType
<1> QED
  BY <1>1, <1>2, <1>3

\* With `>` for the test, accept_callback lets in one connection more than
\* maxConn, and never another.
THEOREM ConnectionsAreLimited == Spec => []ConnLimit
<1>1. MaxConn \in Nat
  BY BoundsAssumption
<1>2. Init => ConnLimit
  BY <1>1 DEF Init, ConnLimit
<1>3. ServerInv /\ ConnLimit /\ [Next]_vars => ConnLimit'
  <2> SUFFICES ASSUME ServerInv, ConnLimit, [Next]_vars PROVE ConnLimit'
    OBVIOUS
  <2>1. s_conn_nums \in Nat
    BY DEF ServerInv, TypeOK
  <2>2. CASE AcceptConn
    <3>1. s_conn_nums <= MaxConn /\ s_conn_nums' = s_conn_nums + 1
      BY <2>2 DEF AcceptConn, AcceptAny
    <3> QED
      BY <1>1, <2>1, <3>1 DEF ConnLimit
  <2>3. CASE Destructors
    BY <1>1, <2>3, CountFalls DEF ConnLimit
  <2>4. CASE UNCHANGED objects
    BY <2>4 DEF ConnLimit, objects
  <2>5. Next => AcceptConn \/ Destructors \/ UNCHANGED objects
    <3>1. World \/ ListenReadable \/ AcceptEmfile \/ AcceptTooMany \/ SendTask
             => UNCHANGED objects
      BY DEF World, Connect, Ask, Leave, ListenReadable, AcceptEmfile, AcceptTooMany,
             SendTask, vars
    <3>2. StoreConn \/ RunDelete => Destructors
      BY DEF StoreConn, RunDelete
    <3>3. \A l \in Loops : RunPush(l) => UNCHANGED objects
      BY DEF RunPush
    <3>4. \A l \in IO : RunListenRead(l) => Destructors
      BY DEF RunListenRead
    <3>5. \A l \in IO : Callback(l) => Destructors \/ UNCHANGED objects
      BY DEF Callback, ReadRequests, ReadCloses, WriteSome, WriteCloses, Dispatched
    <3>6. \A l \in IO : \A fd \in Fds : Dispatch(l, fd) => UNCHANGED objects
      BY DEF Dispatch
    <3> QED
      BY <3>1, <3>2, <3>3, <3>4, <3>5, <3>6 DEF Next
  <2>6. UNCHANGED vars => UNCHANGED objects
    BY DEF vars
  <2> QED
    BY <2>2, <2>3, <2>4, <2>5, <2>6
<1> QED
  BY <1>2, <1>3, SpecServerInv, PTL DEF Spec

================================================================================
