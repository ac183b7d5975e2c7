----------------------------- MODULE DnsPush_proofs -----------------------------
(***************************************************************************)
(* For any keys, connections, loops and descriptors, and however often the *)
(* routes change and queries fail: the types; that no answer or push goes  *)
(* back; that no push meets a missing connection; and, while no query      *)
(* fails, that the routes are loaded before they are published and that no *)
(* change is deleted before it is published.  First, for any width of an   *)
(* integer, what a key keeps of the two numbers it is made of.             *)
(***************************************************************************)
EXTENDS DnsPush, LarsProto_proofs, FiniteSetTheorems

-----------------------------------------------------------------------------
(* Division with remainder, by a number that is not a literal.             *)

LEMMA Multiples ==
    ASSUME NEW w \in Nat, w > 0, NEW a \in Int
    PROVE  /\ a >= 1 => w * a >= w
           /\ a <= -1 => w * a <= -w
  BY SMT

LEMMA Division ==
    ASSUME NEW w \in Nat, w > 0, NEW n \in Int
    PROVE  /\ n \div w \in Int
           /\ n % w \in 0 .. w - 1
           /\ n = w * (n \div w) + (n % w)
  BY SMT

\* A quotient and a remainder that fit are the quotient and the remainder.
LEMMA QuotientOf ==
    ASSUME NEW w \in Nat, w > 0, NEW q \in Int, NEW r \in 0 .. w - 1
    PROVE  /\ (w * q + r) \div w = q
           /\ (w * q + r) % w = r
<1> DEFINE n == w * q + r
           d == n \div w
           m == n % w
<1>1. n \in Int
  BY SMT
<1>2. d \in Int /\ m \in 0 .. w - 1 /\ n = w * d + m
  BY <1>1, Division
<1>3. w * (q - d) = m - r
  BY <1>1, <1>2, SMT
<1>4. q - d \in Int /\ m - r < w /\ m - r > -w
  BY <1>2, SMT
<1>5. q - d = 0
  BY <1>3, <1>4, Multiples, SMT
<1>6. q = d /\ m = r
  BY <1>2, <1>3, <1>5, SMT
<1> QED
  BY <1>6

-----------------------------------------------------------------------------
(* The halves of a key: the lower one is cmdid, the upper one modid or, as *)
(* a negative cmdid borrows from it, the number before modid; both as      *)
(* numbers without a sign.                                                 *)

Unsigned(n) == IF n >= 0 THEN n ELSE n + Half

Upper(modid, cmdid) == IF cmdid >= 0 THEN modid ELSE modid - 1

LEMMA KeyParts ==
    ASSUME NEW modid \in Int32, NEW cmdid \in Int32
    PROVE  /\ Key(modid, cmdid) \div Half = Unsigned(Upper(modid, cmdid))
           /\ Key(modid, cmdid) % Half = Unsigned(cmdid)
<1> DEFINE lo == Unsigned(cmdid)
           up == Upper(modid, cmdid)
           hi == Unsigned(up)
           k == IF up >= 0 THEN 0 ELSE -1
<1>1. Half \in Nat /\ Half >= 2
  BY HalfAssumption, SMT
<1>2. /\ modid \in Int /\ -Half <= 2 * modid /\ 2 * modid < Half
      /\ cmdid \in Int /\ -Half <= 2 * cmdid /\ 2 * cmdid < Half
  BY DEF Int32
<1>3. up \in Int /\ -Half - 2 <= 2 * up /\ 2 * up < Half
  BY <1>1, <1>2, SMT DEF Upper
<1>4. lo \in 0 .. Half - 1 /\ hi \in 0 .. Half - 1
  BY <1>1, <1>2, <1>3, SMT DEF Unsigned
<1>5. Half * modid + cmdid = Half * up + lo
  BY <1>1, <1>2, SMT DEF Upper, Unsigned
<1>6. Half * up = (Half * Half) * k + Half * hi
  <2>1. CASE up >= 0
    BY <2>1, <1>1, <1>3, SMT DEF Unsigned
  <2>2. CASE up < 0
    <3>1. k = -1 /\ hi = up + Half
      BY <2>2, <1>3 DEF Unsigned
    <3>2. Half * (up + Half) = Half * up + Half * Half
      BY <1>1, <1>3, SMT
    <3> QED
      BY <3>1, <3>2, <1>1, <1>3, SMT
  <2> QED
    BY <2>1, <2>2, <1>3
<1>7. Half * modid + cmdid = (Half * Half) * k + (Half * hi + lo)
  <2>1. Half * up \in Int /\ (Half * Half) * k \in Int /\ Half * hi \in Int
    BY <1>1, <1>3, <1>4, SMT
  <2> QED
    BY <1>5, <1>6, <2>1, <1>4, SMT
<1>8. Half * Half \in Nat /\ Half * Half > 0 /\ Half * hi + lo \in 0 .. Half * Half - 1
  <2>1. Half * hi >= 0 /\ Half * hi <= Half * (Half - 1)
    BY <1>1, <1>4, SMT
  <2>2. Half * (Half - 1) = Half * Half - Half /\ Half * Half > 0
    BY <1>1, SMT
  <2> QED
    BY <1>1, <1>4, <2>1, <2>2, SMT
<1>9. Key(modid, cmdid) = Half * hi + lo
  BY <1>7, <1>8, QuotientOf DEF Key, Uint64
<1>10. (Half * hi + lo) \div Half = hi /\ (Half * hi + lo) % Half = lo
  <2>1. Half > 0 /\ hi \in Int
    BY <1>1, <1>4, SMT
  <2> HIDE DEF lo, hi
  <2> QED
    BY <1>1, <1>4, <2>1, QuotientOf
<1> QED
  BY <1>9, <1>10

LEMMA UnsignedIsInverse ==
    ASSUME NEW n \in Int32
    PROVE  ToInt32(Unsigned(n)) = n
  BY HalfAssumption, SMT DEF Int32, ToInt32, Unsigned

-----------------------------------------------------------------------------
(* Keys                                                                    *)

\* No two pairs have one key, whatever their signs: the maps of dns_route and
\* route_lb never mix up the hosts of two modules.
THEOREM KeysAreUnique ==
    ASSUME NEW modid \in Int32, NEW cmdid \in Int32,
           NEW modid2 \in Int32, NEW cmdid2 \in Int32,
           Key(modid, cmdid) = Key(modid2, cmdid2)
    PROVE  modid = modid2 /\ cmdid = cmdid2
<1>1. Unsigned(cmdid) = Unsigned(cmdid2)
  BY KeyParts
<1>2. cmdid = cmdid2
  BY <1>1, UnsignedIsInverse
<1>3. Unsigned(Upper(modid, cmdid)) = Unsigned(Upper(modid2, cmdid))
  BY KeyParts, <1>2
<1>4. modid = modid2
  BY <1>3, HalfAssumption, SMT DEF Unsigned, Upper, Int32
<1> QED
  BY <1>2, <1>4

\* push_change_task gets back the pair that a key was made of, as long as cmdid
\* is not negative.
THEOREM SplitIsInverse ==
    ASSUME NEW modid \in Int32, NEW cmdid \in Int32, cmdid >= 0
    PROVE  /\ Modid(Key(modid, cmdid)) = modid
           /\ Cmdid(Key(modid, cmdid)) = cmdid
  BY KeyParts, UnsignedIsInverse DEF Modid, Cmdid, Upper

\* With a negative cmdid it gets another module id, and pushes the routes of a key
\* that has not changed.
THEOREM SplitBorrows ==
    ASSUME NEW modid \in Int32, NEW cmdid \in Int32, cmdid < 0
    PROVE  /\ Modid(Key(modid, cmdid)) # modid
           /\ Cmdid(Key(modid, cmdid)) = cmdid
<1>1. Upper(modid, cmdid) = modid - 1
  BY DEF Upper, Int32
<1>2. Modid(Key(modid, cmdid)) = ToInt32(Unsigned(modid - 1))
  BY <1>1, KeyParts DEF Modid
<1>3. ToInt32(Unsigned(modid - 1)) # modid
  BY HalfAssumption, SMT DEF ToInt32, Unsigned, Int32
<1>4. Cmdid(Key(modid, cmdid)) = cmdid
  BY KeyParts, UnsignedIsInverse DEF Cmdid
<1> QED
  BY <1>2, <1>3, <1>4

\* In the subscription table, which is keyed by int, nothing of the module id is
\* left: all modules that use a command id share one entry.
THEOREM SubscriptionsForgetModid ==
    ASSUME NEW modid \in Int32, NEW cmdid \in Int32
    PROVE  IntOf(Key(modid, cmdid)) = cmdid
  BY KeyParts, UnsignedIsInverse DEF IntOf

-----------------------------------------------------------------------------
(* The latest version of a key, and the pair a key is split into.          *)

\* RoutesAt is the last version up to ver at which the key changed, or 0.
LEMMA RoutesAtIsLatest ==
    ASSUME NEW key, NEW ver \in Nat
    PROVE  /\ RoutesAt(key, ver) \in 0 .. ver
           /\ RoutesAt(key, ver) # 0 => hist[RoutesAt(key, ver)] = key
           /\ \A v \in 1 .. ver : hist[v] = key => v <= RoutesAt(key, ver)
<1> DEFINE S == {0} \cup {v \in 1 .. ver : hist[v] = key}
<1>1. S \in SUBSET Nat /\ S # {} /\ \A x \in S : x <= ver
  OBVIOUS
<1>2. Max(S) \in S /\ \A y \in S : y <= Max(S)
  BY <1>1, MaxOfNaturals
<1> QED
  BY <1>2 DEF RoutesAt

\* push_change_task looks up the pair the key was made of.
LEMMA SplitIsKey ==
    ASSUME NEW k \in Keys
    PROVE  Split(k) = k
<1>1. k = <<k[1], k[2]>> /\ k[1] \in Int32 /\ k[2] \in Int32 /\ k[2] >= 0
  BY KeysAssumption
<1> QED
  BY <1>1, SplitIsInverse DEF Split

-----------------------------------------------------------------------------
(* The inductive invariant.                                                *)

IsOpen(c) == conn[c].st = "open"

\* the check thread has no version the database has not had, and a connection
\* was sent for a key, or is owed, a version at which that key changed
VersionInv ==
    /\ m_version <= DbVer /\ dataVer <= DbVer
    /\ rows \subseteq 1 .. DbVer
    /\ \A c \in Conns : \A k \in Keys :
          sent[c][k] <= dataVer /\ (sent[c][k] # 0 => hist[sent[c][k]] = k)
    /\ \A c \in Conns : owed[c] <= DbVer /\ (owed[c] # 0 => hist[owed[c]] = SubKey)

\* an open connection has a descriptor to itself, subscribed in its loop; a
\* descriptor that a loop listens on belongs to a connection of the loop
ConnInv ==
    /\ \A c \in Conns : IsOpen(c) =>
          /\ conn[c].loop \in Loops /\ conn[c].fd \in Fds
          /\ conn[c].fd \in subs[conn[c].loop][IntKey(SubKey)]
    /\ \A c, d \in Conns : IsOpen(c) /\ IsOpen(d) /\ conn[c].fd = conn[d].fd => c = d
    /\ \A l \in Loops : \A f \in listening[l] : Here(l, f) # {}
    /\ ~nullSend

\* between the load and the end of the round the routes are those of the
\* version to be published
LoadInv ==
    faults = 0 =>
        /\ check \in {"changes", "publish", "remove"} => m_version <= dataVer
        /\ \A l \in Loops : \A i \in DOMAIN queue[l] : queue[l][i].upto <= dataVer

Pending(c) == IsOpen(c) /\ sent[c][SubKey] < owed[c]

Announces(task, ver) == SubKey \in task.keys /\ ver <= task.upto

Announced(c) ==
    \E i \in DOMAIN queue[conn[c].loop] : Announces(queue[conn[c].loop][i], owed[c])

\* the change owed is still a row of the table, or announced by a task; a row
\* that is to be deleted at the end of the round is among the changes to be
\* published before, and announced after
OwedInv ==
    /\ \A c \in Conns :
          conn[c].st = "none" \/ check \in {"build", "version", "clean"} => owed[c] = 0
    /\ faults = 0 => \A c \in Conns : Pending(c) =>
          /\ owed[c] \in rows \/ Announced(c)
          /\ check = "publish" /\ owed[c] <= m_version => SubKey \in changes \/ Announced(c)
          /\ check = "remove" => owed[c] > m_version \/ Announced(c)

PushInv == TypeOK /\ VersionInv /\ ConnInv /\ LoadInv /\ OwedInv

LEMMA Ranges ==
    ASSUME TypeOK
    PROVE  /\ MaxVer \in Nat /\ Wait \in Nat /\ MaxFaults \in Nat
           /\ DbVer \in 0 .. MaxVer /\ m_version \in 0 .. MaxVer /\ dataVer \in 0 .. MaxVer
           /\ since \in 0 .. Wait /\ faults \in 0 .. MaxFaults
           /\ \A v \in 1 .. DbVer : hist[v] \in Keys
  BY BoundsAssumption, LenProperties, ElementOfSeq DEF TypeOK, DbVer

LEMMA InitPushInv == Init => PushInv
<1> SUFFICES ASSUME Init PROVE PushInv
  OBVIOUS
<1> USE DEF Init
<1>1. TypeOK
  <2>1. /\ hist \in Seq(Keys) /\ Len(hist) = 0
        /\ queue \in [Loops -> Seq([keys : SUBSET Keys, upto : 0 .. MaxVer])]
    BY EmptySeq
  <2>2. conn \in [Conns -> [st : {"none", "open", "closed"}, loop : Loops \cup {None},
                            fd : Fds \cup {None}]]
    OBVIOUS
  <2>3. /\ {m_version, dataVer} \subseteq 0 .. MaxVer /\ since \in 0 .. Wait
        /\ faults \in 0 .. MaxFaults /\ Len(hist) <= MaxVer
    BY <2>1, BoundsAssumption
  <2>4. sent \in [Conns -> [Keys -> 0 .. MaxVer]] /\ owed \in [Conns -> 0 .. MaxVer]
    BY BoundsAssumption
  <2>5. /\ listening \in [Loops -> SUBSET Fds]
        /\ subs \in [Loops -> [IntKeys -> SUBSET Fds]]
        /\ pub \in [Loops -> [Fds -> SUBSET Keys]]
    OBVIOUS
  <2> QED
    BY <2>1, <2>2, <2>3, <2>4, <2>5 DEF TypeOK
<1>2. VersionInv
  BY EmptySeq DEF VersionInv, DbVer
<1>3. ConnInv
  BY DEF ConnInv, IsOpen
<1>4. LoadInv /\ OwedInv
  BY DEF LoadInv, OwedInv, Pending, IsOpen
<1> QED
  BY <1>1, <1>2, <1>3, <1>4 DEF PushInv

-----------------------------------------------------------------------------
(* The administrator.                                                      *)

LEMMA ChangeStep ==
    ASSUME PushInv, NEW key \in Keys, Change(key)
    PROVE  PushInv'
<1> USE DEF PushInv
<1>1. /\ hist \in Seq(Keys) /\ Len(hist) \in Nat
      /\ hist' \in Seq(Keys) /\ Len(hist') = Len(hist) + 1
      /\ \A v \in 1 .. Len(hist) : hist'[v] = hist[v]
      /\ hist'[Len(hist) + 1] = key
  BY AppendProperties, LenProperties DEF Change, TypeOK, DbVer
<1>2. /\ UNCHANGED <<m_version, dataVer, check, since, changes, faults, conn, listening,
                    subs, pub, queue, sent, pushed, nullSend>>
      /\ rows' = rows \cup {Len(hist) + 1} /\ Len(hist) < MaxVer
  BY DEF Change, thread, loop, DbVer
<1>3. \A c \in Conns :
        \/ owed'[c] = owed[c]
        \/ /\ owed'[c] = Len(hist) + 1 /\ key = SubKey /\ IsOpen(c)
           /\ check \notin {"build", "version", "clean"}
  BY DEF Change, DbVer, IsOpen
<1>4. TypeOK'
  <2>1. owed' \in [Conns -> 0 .. MaxVer]
    BY <1>1, <1>2, BoundsAssumption DEF Change, TypeOK, DbVer
  <2>2. Len(hist') <= MaxVer /\ rows' \subseteq 1 .. MaxVer
    <3>1. rows \subseteq 1 .. MaxVer /\ MaxVer \in Nat
      BY Ranges DEF TypeOK
    <3>2. Len(hist) + 1 \in 1 .. MaxVer
      BY <1>1, <1>2, <3>1
    <3>3. rows' \subseteq 1 .. MaxVer
      BY <1>2, <3>1, <3>2
    <3>4. Len(hist') \in 1 .. MaxVer
      BY <1>1, <3>2
    <3> QED
      BY <3>1, <3>3, <3>4
  <2> QED
    BY <1>1, <1>2, <2>1, <2>2 DEF TypeOK
<1>5. VersionInv'
  <2>1. \A c \in Conns : \A k \in Keys : sent[c][k] \in Nat /\ sent[c][k] <= Len(hist)
    BY <1>1 DEF TypeOK, VersionInv, DbVer
  <2>2. \A c \in Conns : \A k \in Keys :
          sent[c][k] <= dataVer /\ (sent[c][k] # 0 => hist'[sent[c][k]] = k)
    BY <1>1, <2>1 DEF VersionInv
  <2>3. \A c \in Conns : owed'[c] <= Len(hist') /\ (owed'[c] # 0 => hist'[owed'[c]] = SubKey)
    <3>1. \A c \in Conns : owed[c] \in Nat
      BY DEF TypeOK
    <3> QED
      BY <1>1, <1>3, <3>1 DEF VersionInv, DbVer
  <2>4. m_version <= Len(hist') /\ dataVer <= Len(hist') /\ rows' \subseteq 1 .. Len(hist')
    <3>1. m_version <= Len(hist) /\ dataVer <= Len(hist) /\ rows \subseteq 1 .. Len(hist)
      BY DEF VersionInv, DbVer
    <3>2. m_version \in Nat /\ dataVer \in Nat
      BY Ranges
    <3>3. 1 .. Len(hist) \subseteq 1 .. Len(hist') /\ Len(hist) + 1 \in 1 .. Len(hist')
      BY <1>1
    <3>4. rows' \subseteq 1 .. Len(hist')
      BY <1>2, <3>1, <3>3
    <3> QED
      BY <1>1, <3>1, <3>2, <3>4
  <2> QED
    BY <1>2, <2>2, <2>3, <2>4 DEF VersionInv, DbVer
<1>6. ConnInv'
  BY <1>2 DEF ConnInv, IsOpen, Here
<1>7. LoadInv'
  BY <1>2 DEF LoadInv
<1>8. OwedInv'
  <2>1. \A c \in Conns :
          owed'[c] = owed[c] => (Pending(c)' <=> Pending(c)) /\ (Announced(c)' <=> Announced(c))
    BY <1>2 DEF Pending, Announced, Announces, IsOpen
  <2>2. m_version < Len(hist) + 1
    BY <1>1 DEF VersionInv, TypeOK, DbVer
  <2>3. ASSUME NEW c \in Conns, owed'[c] = owed[c]
        PROVE  Pending(c)' /\ faults = 0 =>
                 /\ owed'[c] \in rows' \/ Announced(c)'
                 /\ check = "publish" /\ owed'[c] <= m_version =>
                       SubKey \in changes \/ Announced(c)'
                 /\ check = "remove" => owed'[c] > m_version \/ Announced(c)'
    BY <1>2, <2>1, <2>3 DEF OwedInv
  <2>4. ASSUME NEW c \in Conns, owed'[c] = Len(hist) + 1
        PROVE  owed'[c] \in rows' /\ owed'[c] > m_version /\ ~(owed'[c] <= m_version)
    BY <1>1, <1>2, <2>2, <2>4 DEF TypeOK
  <2>5. \A c \in Conns :
          conn[c].st = "none" \/ check \in {"build", "version", "clean"} => owed'[c] = 0
    BY <1>3 DEF OwedInv, IsOpen
  <2> QED
    BY <1>2, <1>3, <2>3, <2>4, <2>5 DEF OwedInv
<1> QED
  BY <1>4, <1>5, <1>6, <1>7, <1>8

-----------------------------------------------------------------------------
(* The check thread: what its steps have in common.                        *)

\* No query changes the loops, the history or what is owed; a version read is
\* not older than the one before.
LEMMA CheckFrame ==
    ASSUME PushInv, CheckStep
    PROVE  /\ UNCHANGED <<hist, conn, listening, subs, pub, sent, pushed, nullSend, owed>>
           /\ m_version' \in 0 .. DbVer /\ m_version <= m_version'
           /\ dataVer' \in 0 .. DbVer /\ dataVer <= dataVer'
           /\ rows' \subseteq rows
           /\ faults' \in 0 .. MaxFaults /\ (faults' = 0 => faults = 0)
           /\ changes' \subseteq Keys
           /\ since' \in 0 .. Wait
           /\ \A l \in Loops : queue'[l] = queue[l] \/ PostPublish
<1> USE DEF PushInv, Goes, Works, Fails, db, loop
<1>1. /\ rows \subseteq 1 .. DbVer /\ changes \subseteq Keys
      /\ m_version <= DbVer /\ dataVer <= DbVer
  BY DEF TypeOK, VersionInv
<1>2. CASE BuildMaps \/ FirstVersion \/ RemoveAll
  BY <1>1, <1>2, Ranges DEF BuildMaps, FirstVersion, RemoveAll
<1>3. CASE Sleep
  <2>1. Min({since + 1, Wait}) = IF since + 1 <= Wait THEN since + 1 ELSE Wait
    BY Ranges DEF Min
  <2> QED
    BY <1>1, <1>3, <2>1, Ranges DEF Sleep
<1>4. CASE NewVersion \/ NoNewVersion
  BY <1>1, <1>4, Ranges DEF NewVersion, NoNewVersion
<1>5. CASE Load \/ Reload
  BY <1>1, <1>5, Ranges DEF Load, Reload, LoadRoutes
<1>6. CASE LoadChanges
  <2>1. changes' \subseteq Keys
    BY <1>1, <1>6, Ranges DEF LoadChanges
  <2> QED
    BY <1>1, <1>6, <2>1, Ranges DEF LoadChanges
<1>7. CASE PostPublish \/ RemoveChanges
  BY <1>1, <1>7, Ranges DEF PostPublish, RemoveChanges
<1> QED
  BY <1>2, <1>3, <1>4, <1>5, <1>6, <1>7 DEF CheckStep

Tasks == [keys : SUBSET Keys, upto : 0 .. MaxVer]

NewTask == [keys |-> changes, upto |-> m_version]

LEMMA QueuedTasks ==
    ASSUME TypeOK, NEW l \in Loops
    PROVE  /\ queue[l] \in Seq(Tasks)
           /\ DOMAIN queue[l] = 1 .. Len(queue[l]) /\ Len(queue[l]) \in Nat
           /\ \A i \in DOMAIN queue[l] :
                 queue[l][i].keys \subseteq Keys /\ queue[l][i].upto \in 0 .. MaxVer
<1>1. queue[l] \in Seq(Tasks)
  BY DEF TypeOK, Tasks
<1>2. \A i \in DOMAIN queue[l] : queue[l][i] \in Tasks
  BY <1>1, ElementOfSeq, LenProperties
<1> QED
  BY <1>1, <1>2, LenProperties DEF Tasks

\* send_task puts the new task behind those that are waiting, in every loop.
LEMMA Posted ==
    ASSUME TypeOK, PostPublish, NEW l \in Loops
    PROVE  /\ queue'[l] \in Seq(Tasks)
           /\ \A i \in DOMAIN queue[l] : i \in DOMAIN queue'[l] /\ queue'[l][i] = queue[l][i]
           /\ \A i \in DOMAIN queue'[l] : i \in DOMAIN queue[l] \/ queue'[l][i] = NewTask
           /\ \E i \in DOMAIN queue'[l] : queue'[l][i] = NewTask
<1>1. queue[l] \in Seq(Tasks)
  BY QueuedTasks
<1>2. NewTask \in Tasks
  BY Ranges DEF TypeOK, NewTask, Tasks
<1>3. queue'[l] = Append(queue[l], NewTask)
  BY DEF PostPublish, NewTask
<1>4. /\ queue'[l] \in Seq(Tasks) /\ Len(queue'[l]) = Len(queue[l]) + 1
      /\ \A i \in 1 .. Len(queue[l]) : queue'[l][i] = queue[l][i]
      /\ queue'[l][Len(queue[l]) + 1] = NewTask
  BY <1>1, <1>2, <1>3, AppendProperties
<1>5. /\ DOMAIN queue[l] = 1 .. Len(queue[l]) /\ DOMAIN queue'[l] = 1 .. Len(queue'[l])
      /\ Len(queue[l]) \in Nat
  BY <1>4, QueuedTasks, LenProperties
<1> QED
  BY <1>4, <1>5

-----------------------------------------------------------------------------
(* The check thread, one part of the invariant after the other.            *)

LEMMA CheckTypes ==
    ASSUME PushInv, CheckStep
    PROVE  TypeOK' /\ VersionInv' /\ ConnInv'
<1> USE DEF PushInv
<1>1. queue' \in [Loops -> Seq(Tasks)]
  <2>1. CASE PostPublish
    BY <2>1, Posted DEF PostPublish
  <2>2. CASE queue' = queue
    BY <2>2 DEF TypeOK, Tasks
  <2> QED
    BY <2>1, <2>2 DEF CheckStep, BuildMaps, FirstVersion, RemoveAll, Sleep, NewVersion,
                      NoNewVersion, Load, Reload, LoadChanges, RemoveChanges, loop
<1>2. check' \in {"build", "version", "clean", "sleep", "poll", "load", "changes",
                  "publish", "remove", "reload"}
  BY DEF CheckStep, BuildMaps, FirstVersion, RemoveAll, Sleep, NewVersion, NoNewVersion,
         Load, Reload, LoadChanges, PostPublish, RemoveChanges, Goes
<1>3. TypeOK'
  <2>1. {m_version', dataVer'} \subseteq 0 .. MaxVer
    BY CheckFrame, Ranges
  <2>2. rows' \subseteq 1 .. MaxVer
    BY CheckFrame DEF TypeOK
  <2> QED
    BY <1>1, <1>2, <2>1, <2>2, CheckFrame DEF TypeOK, Tasks
<1>4. VersionInv'
  <2>1. UNCHANGED <<DbVer, hist, sent, owed>> /\ rows' \subseteq 1 .. DbVer
    BY CheckFrame DEF VersionInv, DbVer
  <2>2. \A c \in Conns : \A k \in Keys : sent[c][k] <= dataVer'
    <3>1. \A c \in Conns : \A k \in Keys : sent[c][k] \in Nat /\ sent[c][k] <= dataVer
      BY DEF TypeOK, VersionInv
    <3> QED
      BY <3>1, CheckFrame, Ranges
  <2>3. m_version' <= DbVer /\ dataVer' <= DbVer
    BY CheckFrame, Ranges
  <2> QED
    BY <2>1, <2>2, <2>3 DEF VersionInv
<1>5. ConnInv'
  BY CheckFrame DEF ConnInv, IsOpen, Here
<1> QED
  BY <1>3, <1>4, <1>5

LEMMA CheckLoads ==
    ASSUME PushInv, CheckStep
    PROVE  LoadInv'
<1> SUFFICES ASSUME faults' = 0 PROVE LoadInv'
  BY DEF LoadInv
<1> USE DEF PushInv
<1>1. faults = 0 /\ LoadInv
  BY CheckFrame
<1>2. check' \in {"changes", "publish", "remove"} => m_version' <= dataVer'
  <2>1. CASE Load
    BY <1>1, <2>1, Ranges DEF Load, LoadRoutes, Goes, Works, Fails, VersionInv
  <2>2. CASE LoadChanges \/ PostPublish
    BY <1>1, <2>2 DEF LoadChanges, PostPublish, Goes, LoadInv
  <2>3. CASE check' \notin {"changes", "publish", "remove"}
    BY <2>3
  <2> QED
    BY <2>1, <2>2, <2>3 DEF CheckStep, BuildMaps, FirstVersion, RemoveAll, Sleep, NewVersion,
                            NoNewVersion, Reload, RemoveChanges, Goes
<1>3. \A l \in Loops : \A i \in DOMAIN queue'[l] : queue'[l][i].upto <= dataVer'
  <2>1. CASE PostPublish
    <3>1. m_version <= dataVer /\ dataVer' = dataVer
      BY <1>1, <2>1 DEF LoadInv, PostPublish, Goes
    <3> QED
      BY <1>1, <2>1, <3>1, Posted DEF LoadInv, NewTask
  <2>2. CASE ~PostPublish
    <3>1. ASSUME NEW l \in Loops, NEW i \in DOMAIN queue'[l]
          PROVE  queue'[l][i].upto <= dataVer'
      <4>1. queue'[l] = queue[l] /\ queue[l][i].upto <= dataVer
        BY <1>1, <2>2, <3>1, CheckFrame DEF LoadInv
      <4>2. queue[l][i].upto \in Nat
        BY <3>1, <4>1, QueuedTasks, Ranges
      <4>3. dataVer \in Nat /\ dataVer' \in Nat /\ dataVer <= dataVer'
        BY CheckFrame, Ranges
      <4> QED
        BY <4>1, <4>2, <4>3
    <3> QED
      BY <3>1
  <2> QED
    BY <2>1, <2>2
<1> QED
  BY <1>2, <1>3 DEF LoadInv

\* what is owed is neither forgotten when the rows are deleted nor missing from
\* the changes that are published
LEMMA CheckOwes ==
    ASSUME PushInv, CheckStep
    PROVE  OwedInv'
<1> USE DEF PushInv
<1>1. ASSUME NEW c \in Conns, conn'[c].st = "none" \/ check' \in {"build", "version", "clean"}
      PROVE  owed'[c] = 0
  BY <1>1, CheckFrame DEF OwedInv, CheckStep, BuildMaps, FirstVersion, RemoveAll, Sleep, NewVersion,
         NoNewVersion, Load, Reload, LoadChanges, PostPublish, RemoveChanges, Goes
<1>2. ASSUME faults' = 0, NEW c \in Conns, Pending(c)'
      PROVE  /\ owed'[c] \in rows' \/ Announced(c)'
             /\ check' = "publish" /\ owed'[c] <= m_version' => SubKey \in changes' \/ Announced(c)'
             /\ check' = "remove" => owed'[c] > m_version' \/ Announced(c)'
  <2>1. /\ faults = 0 /\ Pending(c) /\ owed'[c] = owed[c] /\ owed[c] \in Nat /\ owed[c] # 0
        /\ conn[c].loop \in Loops
    <3>1. faults = 0 /\ Pending(c) /\ owed' = owed
      BY <1>2, CheckFrame DEF Pending, IsOpen
    <3>2. sent[c][SubKey] \in Nat /\ owed[c] \in Nat
      BY KeysAssumption DEF TypeOK
    <3> QED
      BY <3>1, <3>2 DEF Pending, ConnInv
  <2>2. /\ owed[c] \in rows \/ Announced(c)
        /\ check = "publish" /\ owed[c] <= m_version => SubKey \in changes \/ Announced(c)
        /\ check = "remove" => owed[c] > m_version \/ Announced(c)
        /\ check \notin {"build", "version", "clean"}
    BY <1>2, <2>1 DEF OwedInv
  <2>3. Announced(c) => Announced(c)'
    <3>1. CASE PostPublish
      BY <2>1, <3>1, Posted, CheckFrame, ZenonT(40) DEF Announced, Announces
    <3>2. CASE ~PostPublish
      BY <2>1, <3>2, CheckFrame DEF Announced, Announces
    <3> QED
      BY <3>1, <3>2
  <2>4. CASE Sleep \/ NewVersion \/ NoNewVersion \/ Load \/ Reload
    BY <2>1, <2>2, <2>3, <2>4 DEF Sleep, NewVersion, NoNewVersion, Load, Reload, Goes, db
  <2>5. CASE LoadChanges
    <3>1. owed[c] \in rows /\ owed[c] <= m_version => SubKey \in changes'
      <4>1. hist[owed[c]] = SubKey
        BY <2>1 DEF VersionInv
      <4> QED
        BY <1>2, <2>1, <2>5, <4>1 DEF LoadChanges, Works, Fails
    <3> QED
      BY <2>1, <2>2, <2>3, <2>5, <3>1 DEF LoadChanges, Goes, db
  <2>6. CASE PostPublish
    <3>1. owed[c] <= m_version => Announced(c)'
      <4>1. SUFFICES ASSUME owed[c] <= m_version, SubKey \in changes PROVE Announced(c)'
        BY <2>2, <2>3, <2>6 DEF PostPublish, Goes
      <4>2. PICK i \in DOMAIN queue'[conn[c].loop] : queue'[conn[c].loop][i] = NewTask
        BY <2>1, <2>6, Posted
      <4> QED
        BY <2>1, <4>1, <4>2, CheckFrame DEF Announced, Announces, NewTask
    <3> QED
      BY <2>1, <2>2, <2>3, <2>6, <3>1, Ranges DEF PostPublish, Goes, db
  <2>7. CASE RemoveChanges
    BY <1>2, <2>1, <2>2, <2>3, <2>7 DEF RemoveChanges, Goes, Works, Fails
  <2> QED
    BY <2>2, <2>4, <2>5, <2>6, <2>7 DEF CheckStep, BuildMaps, FirstVersion, RemoveAll, Goes
<1> QED
  BY <1>1, <1>2 DEF OwedInv

-----------------------------------------------------------------------------
(* The loops.                                                              *)

\* The routes a loop looks up are at least as new as those it has sent.
LEMMA RoutesNotOlder ==
    ASSUME PushInv, NEW c \in Conns, NEW k \in Keys
    PROVE  /\ sent[c][k] \in 0 .. MaxVer /\ RoutesAt(k, dataVer) \in 0 .. MaxVer
           /\ sent[c][k] <= RoutesAt(k, dataVer) /\ RoutesAt(k, dataVer) <= dataVer
           /\ RoutesAt(k, dataVer) # 0 => hist[RoutesAt(k, dataVer)] = k
<1> DEFINE r == RoutesAt(k, dataVer)
<1>1. /\ dataVer \in 0 .. MaxVer /\ MaxVer \in Nat
      /\ sent[c][k] \in 0 .. MaxVer /\ sent[c][k] <= dataVer
      /\ sent[c][k] # 0 => hist[sent[c][k]] = k
  BY Ranges DEF PushInv, VersionInv, TypeOK
<1>2. /\ r \in 0 .. dataVer /\ (r # 0 => hist[r] = k)
      /\ \A v \in 1 .. dataVer : hist[v] = k => v <= r
  BY <1>1, RoutesAtIsLatest
<1> QED
  BY <1>1, <1>2

\* An answer or a push: what it sends is not older than what was sent before.
LEMMA SendStep ==
    ASSUME PushInv, UNCHANGED <<hist, rows, m_version, dataVer, owed>>,
           sent' = [c \in Conns |-> [k \in Keys |-> sent'[c][k]]],
           \A c \in Conns : \A k \in Keys :
              sent'[c][k] \in {sent[c][k], RoutesAt(k, dataVer)}
    PROVE  /\ sent' \in [Conns -> [Keys -> 0 .. MaxVer]]
           /\ \A c \in Conns : \A k \in Keys : sent[c][k] <= sent'[c][k]
           /\ VersionInv'
<1>1. \A c \in Conns : \A k \in Keys :
        /\ sent'[c][k] \in 0 .. MaxVer
        /\ sent[c][k] <= sent'[c][k] /\ sent'[c][k] <= dataVer
        /\ sent'[c][k] # 0 => hist[sent'[c][k]] = k
  <2>1. \A c \in Conns : \A k \in Keys :
          sent[c][k] <= dataVer /\ (sent[c][k] # 0 => hist[sent[c][k]] = k)
    BY DEF PushInv, VersionInv
  <2> QED
    BY <2>1, RoutesNotOlder
<1>2. VersionInv'
  BY <1>1 DEF PushInv, VersionInv, DbVer
<1> QED
  BY <1>1, <1>2

\* A step that leaves the tasks alone owes no more than before, if it leaves the
\* open connections alone or opens one that is owed nothing.
LEMMA OwedUnlessRun ==
    ASSUME PushInv, UNCHANGED <<rows, m_version, check, changes, faults, queue, owed>>,
           \A c \in Conns : IsOpen(c)' /\ owed[c] # 0 => IsOpen(c) /\ conn'[c] = conn[c],
           \A c \in Conns : sent'[c][SubKey] \in 0 .. MaxVer /\ sent[c][SubKey] <= sent'[c][SubKey],
           \A c \in Conns : conn'[c].st = "none" => conn[c].st = "none"
    PROVE  OwedInv'
<1>1. ASSUME NEW c \in Conns, Pending(c)'
      PROVE  Pending(c) /\ (Announced(c) => Announced(c)')
  <2>1. /\ sent[c][SubKey] \in Nat /\ sent'[c][SubKey] \in Nat /\ owed[c] \in Nat
        /\ sent'[c][SubKey] < owed[c] /\ IsOpen(c)'
    BY <1>1, KeysAssumption DEF PushInv, TypeOK, Pending
  <2>2. IsOpen(c) /\ conn'[c] = conn[c] /\ sent[c][SubKey] < owed[c]
    BY <2>1
  <2> QED
    BY <2>2 DEF Pending, Announced, Announces
<1> QED
  BY <1>1 DEF PushInv, OwedInv

LEMMA OpenStep ==
    ASSUME PushInv, NEW c \in Conns, NEW l \in Loops, Open(c, l)
    PROVE  PushInv'
<1> USE DEF PushInv
<1>1. PICK f \in Fds \ UsedFds :
        /\ conn' = [conn EXCEPT ![c] = [st |-> "open", loop |-> l, fd |-> f]]
        /\ listening' = [listening EXCEPT ![l] = @ \cup {f}]
        /\ subs' = [subs EXCEPT ![l][IntKey(SubKey)] = @ \cup {f}]
  BY DEF Open
<1>2. /\ conn[c].st = "none" /\ check \notin {"build", "version"}
      /\ UNCHANGED <<db, thread, pub, queue, sent, pushed, nullSend, owed>>
  BY DEF Open
<1>3. IntKey(SubKey) \in IntKeys
  BY KeysAssumption DEF IntKeys
<1>4. TypeOK'
  <2>1. conn' \in [Conns -> [st : {"none", "open", "closed"}, loop : Loops \cup {None},
                            fd : Fds \cup {None}]]
    BY <1>1, ZenonT(40) DEF TypeOK
  <2>2. listening' \in [Loops -> SUBSET Fds] /\ subs' \in [Loops -> [IntKeys -> SUBSET Fds]]
    BY <1>1, <1>3 DEF TypeOK
  <2> QED
    BY <1>2, <2>1, <2>2 DEF TypeOK, db, thread
<1>5. VersionInv' /\ LoadInv'
  BY <1>2 DEF VersionInv, LoadInv, DbVer, db, thread
<1>6. \A d \in Conns : IF d = c THEN conn'[d] = [st |-> "open", loop |-> l, fd |-> f]
                                ELSE conn'[d] = conn[d]
  BY <1>1 DEF TypeOK
<1>7. ConnInv'
  <2>1. \A d \in Conns : IsOpen(d) => conn[d].fd # f
    BY DEF UsedFds, IsOpen
  <2>2. \A d \in Conns : IsOpen(d)' => IsOpen(d) \/ d = c
    BY <1>6 DEF IsOpen
  <2>3. ASSUME NEW d \in Conns, IsOpen(d)'
        PROVE  /\ conn'[d].loop \in Loops /\ conn'[d].fd \in Fds
               /\ conn'[d].fd \in subs'[conn'[d].loop][IntKey(SubKey)]
    <3>1. \A m \in Loops : subs[m][IntKey(SubKey)] \subseteq subs'[m][IntKey(SubKey)]
      BY <1>1, <1>3 DEF TypeOK
    <3>2. f \in subs'[l][IntKey(SubKey)]
      BY <1>1, <1>3 DEF TypeOK
    <3>3. CASE d = c
      BY <1>6, <3>2, <3>3
    <3>4. CASE d # c
      BY <1>6, <2>2, <2>3, <3>1, <3>4 DEF ConnInv
    <3> QED
      BY <3>3, <3>4
  <2>4. ASSUME NEW d \in Conns, NEW e \in Conns, IsOpen(d)', IsOpen(e)', conn'[d].fd = conn'[e].fd
        PROVE  d = e
    BY <1>6, <2>1, <2>2, <2>4 DEF ConnInv
  <2>5. ASSUME NEW m \in Loops, NEW g \in listening'[m]
        PROVE  Here(m, g)' # {}
    <3>1. g \in listening[m] \/ (m = l /\ g = f)
      BY <1>1, <2>5 DEF TypeOK
    <3>2. CASE g \in listening[m]
      <4>1. PICK d \in Conns : d \in Here(m, g)
        BY <3>2 DEF ConnInv, Here
      <4>2. conn'[d] = conn[d]
        BY <1>2, <1>6, <4>1 DEF Here
      <4> QED
        BY <4>1, <4>2 DEF Here
    <3>3. CASE m = l /\ g = f
      <4>1. c \in Here(m, g)'
        BY <1>6, <3>3 DEF Here
      <4> QED
        BY <4>1
    <3> QED
      BY <3>1, <3>2, <3>3
  <2> QED
    BY <1>2, <2>3, <2>4, <2>5 DEF ConnInv
<1>8. OwedInv'
  <2>1. owed[c] = 0
    BY <1>2 DEF OwedInv
  <2>2. \A d \in Conns : IsOpen(d)' /\ owed[d] # 0 => IsOpen(d) /\ conn'[d] = conn[d]
    BY <1>6, <2>1 DEF IsOpen
  <2>3. \A d \in Conns : conn'[d].st = "none" => conn[d].st = "none"
    BY <1>6
  <2>4. \A d \in Conns : sent'[d][SubKey] \in 0 .. MaxVer /\ sent[d][SubKey] <= sent'[d][SubKey]
    BY <1>2, KeysAssumption DEF TypeOK
  <2>5. UNCHANGED <<rows, m_version, check, changes, faults, queue, owed>>
    BY <1>2 DEF db, thread
  <2> QED
    BY <2>2, <2>3, <2>4, <2>5, OwedUnlessRun
<1> QED
  BY <1>4, <1>5, <1>7, <1>8

LEMMA CloseConnStep ==
    ASSUME PushInv, NEW c \in Conns, CloseConn(c)
    PROVE  PushInv'
<1> USE DEF PushInv
<1>1. /\ IsOpen(c)
      /\ conn' = [conn EXCEPT ![c].st = "closed"]
      /\ listening' = [listening EXCEPT ![conn[c].loop] = @ \ {conn[c].fd}]
      /\ UNCHANGED <<db, thread, subs, pub, queue, sent, pushed, nullSend, owed>>
  BY DEF CloseConn, IsOpen
<1>2. TypeOK'
  <2>1. conn' \in [Conns -> [st : {"none", "open", "closed"}, loop : Loops \cup {None},
                            fd : Fds \cup {None}]]
    BY <1>1, ZenonT(40) DEF TypeOK
  <2>2. listening' \in [Loops -> SUBSET Fds]
    BY <1>1 DEF TypeOK
  <2> QED
    BY <1>1, <2>1, <2>2 DEF TypeOK, db, thread
<1>3. VersionInv' /\ LoadInv'
  BY <1>1 DEF VersionInv, LoadInv, DbVer, db, thread
<1>4. conn'[c].st = "closed" /\ \A d \in Conns : d # c => conn'[d] = conn[d]
  BY <1>1 DEF TypeOK
<1>5. \A d \in Conns : IsOpen(d)' => IsOpen(d) /\ d # c
  BY <1>4 DEF IsOpen
<1>6. ConnInv'
  <2>1. ASSUME NEW m \in Loops, NEW g \in listening'[m]
        PROVE  Here(m, g)' # {}
    <3>1. g \in listening[m] /\ ~(m = conn[c].loop /\ g = conn[c].fd)
      BY <1>1, <2>1 DEF TypeOK
    <3>2. PICK d \in Conns : d \in Here(m, g)
      BY <3>1 DEF ConnInv, Here
    <3>3. d # c
      BY <3>1, <3>2 DEF Here
    <3> QED
      BY <1>4, <3>2, <3>3 DEF Here
  <2> QED
    BY <1>1, <1>4, <1>5, <2>1 DEF ConnInv
<1>7. OwedInv'
  <2>1. \A d \in Conns : IsOpen(d)' /\ owed[d] # 0 => IsOpen(d) /\ conn'[d] = conn[d]
    BY <1>4, <1>5
  <2>2. \A d \in Conns : conn'[d].st = "none" => conn[d].st = "none"
    BY <1>4
  <2>3. \A d \in Conns : sent'[d][SubKey] \in 0 .. MaxVer /\ sent[d][SubKey] <= sent'[d][SubKey]
    BY <1>1, KeysAssumption DEF TypeOK
  <2>4. UNCHANGED <<rows, m_version, check, changes, faults, queue, owed>>
    BY <1>1 DEF db, thread
  <2> QED
    BY <2>1, <2>2, <2>3, <2>4, OwedUnlessRun
<1> QED
  BY <1>2, <1>3, <1>6, <1>7

LEMMA GetRouteStep ==
    ASSUME PushInv, NEW c \in Conns, NEW key \in Keys, GetRoute(c, key)
    PROVE  PushInv' /\ \A d \in Conns : \A k \in Keys : sent[d][k] <= sent'[d][k]
<1> USE DEF PushInv
<1>1. /\ sent' = [sent EXCEPT ![c][key] = RoutesAt(key, dataVer)]
      /\ UNCHANGED <<db, thread, conn, listening, subs, pub, queue, pushed, nullSend, owed>>
  BY DEF GetRoute
<1>2. /\ sent' \in [Conns -> [Keys -> 0 .. MaxVer]]
      /\ \A d \in Conns : \A k \in Keys : sent[d][k] <= sent'[d][k]
      /\ VersionInv'
  <2>1. \A d \in Conns : \A k \in Keys :
           sent'[d][k] \in {sent[d][k], RoutesAt(k, dataVer)}
    BY <1>1 DEF TypeOK
  <2>2. sent' = [d \in Conns |-> [k \in Keys |-> sent'[d][k]]]
    BY <1>1 DEF TypeOK
  <2>3. UNCHANGED <<hist, rows, m_version, dataVer, owed>>
    BY <1>1 DEF db, thread
  <2> QED
    BY <2>1, <2>2, <2>3, SendStep
<1>3. TypeOK'
  BY <1>1, <1>2 DEF TypeOK, db, thread
<1>4. ConnInv' /\ LoadInv'
  BY <1>1 DEF ConnInv, LoadInv, IsOpen, Here, db, thread
<1>5. OwedInv'
  <2>1. \A d \in Conns : sent'[d][SubKey] \in 0 .. MaxVer /\ sent[d][SubKey] <= sent'[d][SubKey]
    BY <1>2, KeysAssumption
  <2>2. UNCHANGED <<rows, m_version, check, changes, faults, queue, owed, conn>>
    BY <1>1 DEF db, thread
  <2>3. \A d \in Conns : IsOpen(d)' => IsOpen(d)
    BY <2>2 DEF IsOpen
  <2> QED
    BY <2>1, <2>2, <2>3, OwedUnlessRun
<1> QED
  BY <1>2, <1>3, <1>4, <1>5

\* The task at the head of the queue goes; those behind it move up.
LEMMA TaskTaken ==
    ASSUME TypeOK, NEW l \in Loops, queue[l] # <<>>,
           queue' = [queue EXCEPT ![l] = Tail(@)]
    PROVE  /\ queue' \in [Loops -> Seq(Tasks)]
           /\ Head(queue[l]) = queue[l][1] /\ 1 \in DOMAIN queue[l]
           /\ \A i \in DOMAIN queue'[l] :
                 i + 1 \in DOMAIN queue[l] /\ queue'[l][i] = queue[l][i + 1]
           /\ \A i \in DOMAIN queue[l] : i # 1 =>
                 i - 1 \in DOMAIN queue'[l] /\ queue'[l][i - 1] = queue[l][i]
           /\ \A m \in Loops \ {l} : queue'[m] = queue[m]
<1>1. /\ queue[l] \in Seq(Tasks) /\ DOMAIN queue[l] = 1 .. Len(queue[l])
      /\ Len(queue[l]) \in Nat /\ Len(queue[l]) # 0
  BY QueuedTasks, EmptySeq
<1>2. queue'[l] = Tail(queue[l]) /\ \A m \in Loops \ {l} : queue'[m] = queue[m]
  BY DEF TypeOK
<1>3. /\ queue'[l] \in Seq(Tasks) /\ Len(queue'[l]) = Len(queue[l]) - 1
      /\ \A i \in 1 .. Len(queue'[l]) : queue'[l][i] = queue[l][i + 1]
  <2>1. /\ Tail(queue[l]) \in Seq(Tasks) /\ Len(Tail(queue[l])) = Len(queue[l]) - 1
        /\ \A i \in 1 .. Len(Tail(queue[l])) : Tail(queue[l])[i] = queue[l][i + 1]
    BY <1>1, HeadTailProperties
  <2> QED
    BY <1>2, <2>1
<1>4. DOMAIN queue'[l] = 1 .. Len(queue[l]) - 1
  BY <1>3, LenProperties
<1>5. queue' \in [Loops -> Seq(Tasks)]
  BY <1>2, <1>3 DEF TypeOK, Tasks
<1> QED
  BY <1>1, <1>2, <1>3, <1>4, <1>5

LEMMA RunPublishStep ==
    ASSUME PushInv, NEW l \in Loops, RunPublish(l)
    PROVE  PushInv' /\ \A c \in Conns : \A k \in Keys : sent[c][k] <= sent'[c][k]
<1> DEFINE task == Head(queue[l])
           all == [f \in Fds |-> pub[l][f] \cup {k \in task.keys : f \in subs[l][IntKey(k)]}]
           need(c) == IF conn[c].st = "open" /\ conn[c].loop = l
                          THEN {Split(k) : k \in all[conn[c].fd]} ELSE {}
<1> USE DEF PushInv
<1>1. /\ queue[l] # <<>> /\ queue' = [queue EXCEPT ![l] = Tail(@)]
      /\ UNCHANGED <<db, thread, conn, listening, subs, owed>>
  BY DEF RunPublish
<1>2. /\ pub' = [pub EXCEPT ![l] = [f \in Fds |-> IF f \in Online(l) THEN {} ELSE all[f]]]
      /\ sent' = [c \in Conns |-> [k \in Keys |->
             IF k \in need(c) THEN RoutesAt(k, dataVer) ELSE sent[c][k]]]
      /\ pushed' = [c \in Conns |-> pushed[c] \cup need(c)]
      /\ nullSend' = (nullSend \/ \E f \in Online(l) : all[f] # {} /\ Here(l, f) = {})
  BY DEF RunPublish
<1>3. /\ task = queue[l][1] /\ 1 \in DOMAIN queue[l] /\ task.keys \subseteq Keys
      /\ queue' \in [Loops -> Seq(Tasks)]
  BY <1>1, TaskTaken, QueuedTasks
<1>4. \A f \in Fds : all[f] \subseteq Keys
  BY <1>3 DEF TypeOK
<1>5. \A c \in Conns : need(c) \subseteq Keys
  BY <1>4, SplitIsKey, ZenonT(40) DEF ConnInv, IsOpen
<1> HIDE DEF task
<1>6. /\ sent' \in [Conns -> [Keys -> 0 .. MaxVer]]
      /\ \A c \in Conns : \A k \in Keys : sent[c][k] <= sent'[c][k]
      /\ VersionInv'
  <2> HIDE DEF all, need
  <2>1. \A c \in Conns : \A k \in Keys : sent'[c][k] \in {sent[c][k], RoutesAt(k, dataVer)}
    BY <1>2
  <2>2. sent' = [c \in Conns |-> [k \in Keys |-> sent'[c][k]]]
    BY <1>2
  <2>3. UNCHANGED <<hist, rows, m_version, dataVer, owed>>
    BY <1>1 DEF db, thread
  <2> QED
    BY <2>1, <2>2, <2>3, SendStep
<1>7. TypeOK'
  <2>1. pub' \in [Loops -> [Fds -> SUBSET Keys]]
    <3> HIDE DEF all
    <3> QED
      BY <1>2, <1>4 DEF TypeOK
  <2>2. pushed' \in [Conns -> SUBSET Keys]
    <3> HIDE DEF need
    <3> QED
      BY <1>2, <1>5 DEF TypeOK
  <2>3. nullSend' \in BOOLEAN
    BY <1>2 DEF TypeOK
  <2> QED
    BY <1>1, <1>3, <1>6, <2>1, <2>2, <2>3 DEF TypeOK, Tasks, db, thread
<1>8. ConnInv'
  <2>1. \A f \in Online(l) : Here(l, f) # {}
    BY DEF ConnInv, Online
  <2>2. ~nullSend'
    BY <1>2, <2>1 DEF ConnInv
  <2> QED
    BY <1>1, <2>2 DEF ConnInv, IsOpen, Here
<1>9. LoadInv'
  <2>1. ASSUME faults = 0, NEW m \in Loops, NEW i \in DOMAIN queue'[m]
        PROVE  queue'[m][i].upto <= dataVer
    <3>1. \A j \in DOMAIN queue[m] : queue[m][j].upto <= dataVer
      BY <2>1 DEF LoadInv
    <3>2. \E j \in DOMAIN queue[m] : queue'[m][i] = queue[m][j]
      <4>1. CASE m = l
        <5>1. i + 1 \in DOMAIN queue[l] /\ queue'[l][i] = queue[l][i + 1]
          BY <1>1, <2>1, <4>1, TaskTaken
        <5> QED
          BY <4>1, <5>1
      <4>2. CASE m # l
        BY <1>1, <2>1, <4>2, TaskTaken
      <4> QED
        BY <4>1, <4>2
    <3> QED
      BY <3>1, <3>2
  <2> QED
    BY <1>1, <2>1 DEF LoadInv, thread
<1>10. OwedInv'
  <2>1. UNCHANGED <<rows, m_version, dataVer, check, changes, faults, conn, owed>>
    BY <1>1 DEF db, thread
  <2>2. ASSUME faults = 0, NEW c \in Conns, Pending(c)'
        PROVE  Pending(c) /\ (Announced(c) => Announced(c)')
    <3>1. /\ sent[c][SubKey] \in Nat /\ sent'[c][SubKey] \in Nat /\ owed[c] \in Nat
          /\ sent[c][SubKey] <= sent'[c][SubKey] /\ sent'[c][SubKey] < owed[c] /\ IsOpen(c)
      BY <2>1, <2>2, <1>6, KeysAssumption DEF TypeOK, Pending, IsOpen
    <3>2. SUFFICES ASSUME NEW i \in DOMAIN queue[conn[c].loop],
                          Announces(queue[conn[c].loop][i], owed[c])
                   PROVE  Announced(c)'
      BY <3>1 DEF Pending, Announced
    <3>3. CASE conn[c].loop # l
      BY <2>1, <3>1, <3>2, <3>3, <1>1, TaskTaken DEF Announced, Announces, ConnInv
    <3>4. CASE conn[c].loop = l /\ i # 1
      <4>1. i - 1 \in DOMAIN queue'[l] /\ queue'[l][i - 1] = queue[l][i]
        BY <1>1, <3>2, <3>4, TaskTaken, ZenonT(40)
      <4> QED
        BY <2>1, <3>2, <3>4, <4>1 DEF Announced
    <3>5. CASE conn[c].loop = l /\ i = 1
      <4>1. SubKey \in task.keys /\ owed[c] <= task.upto /\ task.upto <= dataVer
        BY <1>3, <2>2, <3>2, <3>5 DEF Announces, LoadInv
      <4>2. SubKey \in need(c)
        BY <3>1, <3>5, <4>1, SplitIsKey, KeysAssumption DEF ConnInv, IsOpen
      <4>3. sent'[c][SubKey] = RoutesAt(SubKey, dataVer)
        BY <1>2, <4>2, KeysAssumption
      <4>4. owed[c] \in 1 .. dataVer /\ hist[owed[c]] = SubKey
        <5>1. task.upto \in Nat /\ dataVer \in Nat
          BY <1>3, QueuedTasks, Ranges
        <5> QED
          BY <3>1, <4>1, <5>1 DEF VersionInv
      <4>5. owed[c] <= sent'[c][SubKey]
        BY <4>3, <4>4, RoutesAtIsLatest, Ranges
      <4> QED
        BY <3>1, <4>5
    <3> QED
      BY <3>3, <3>4, <3>5
  <2> QED
    BY <2>1, <2>2 DEF OwedInv
<1> QED
  BY <1>6, <1>7, <1>8, <1>9, <1>10

-----------------------------------------------------------------------------
(* All steps together.                                                     *)

LEMMA NextPushInv ==
    ASSUME PushInv, [Next]_vars
    PROVE  PushInv' /\ \A c \in Conns, k \in Keys : sent'[c][k] >= sent[c][k]
<1>1. \A c \in Conns, k \in Keys : sent[c][k] \in 0 .. MaxVer
  BY DEF PushInv, TypeOK
<1>2. sent' = sent => \A c \in Conns, k \in Keys : sent'[c][k] >= sent[c][k]
  BY <1>1, BoundsAssumption
<1>3. CASE UNCHANGED vars
  <2> USE <1>3 DEF vars, db, thread, loop, PushInv
  <2>1. TypeOK'
    BY DEF TypeOK
  <2>2. VersionInv' /\ LoadInv'
    BY DEF VersionInv, LoadInv, DbVer
  <2>3. ConnInv'
    BY DEF ConnInv, IsOpen, Here
  <2>4. OwedInv'
    BY DEF OwedInv, IsOpen, Pending, Announced, Announces
  <2> QED
    BY <1>2, <2>1, <2>2, <2>3, <2>4
<1>4. CASE \E k \in Keys : Change(k)
  BY <1>2, <1>4, ChangeStep DEF Change, loop
<1>5. CASE CheckStep
  BY <1>2, <1>5, CheckFrame, CheckTypes, CheckLoads, CheckOwes DEF PushInv
<1>6. ASSUME NEW c \in Conns, (\E l \in Loops : Open(c, l)) \/ CloseConn(c)
      PROVE  PushInv' /\ sent' = sent
  BY <1>6, OpenStep, CloseConnStep DEF Open, CloseConn
<1>7. ASSUME PushInv' /\ \A c \in Conns : \A k \in Keys : sent[c][k] <= sent'[c][k]
      PROVE  \A c \in Conns, k \in Keys : sent'[c][k] >= sent[c][k]
  BY <1>1, <1>7, BoundsAssumption DEF PushInv, TypeOK
<1>8. CASE \E c \in Conns : \E k \in Keys : GetRoute(c, k)
  BY <1>7, <1>8, GetRouteStep
<1>9. CASE \E l \in Loops : RunPublish(l)
  BY <1>7, <1>9, RunPublishStep
<1> QED
  BY <1>2, <1>3, <1>4, <1>5, <1>6, <1>8, <1>9 DEF Next

LEMMA PushInvariant == Spec => []PushInv
  BY InitPushInv, NextPushInv, PTL DEF Spec

-----------------------------------------------------------------------------
(* Theorems                                                                *)

\* Every variable keeps its type: in particular no version exceeds those the
\* database has had, and push_change_task is only asked for keys in use.
THEOREM PushTypeCorrect == Spec => []TypeOK
<1>1. PushInv => TypeOK
  BY DEF PushInv
<1> QED
  BY PushInvariant, <1>1, PTL

\* For any number of loops and connections: as long as no query has failed, a
\* publish task never finds routes older than the version it announces.
THEOREM DataComesBeforePush == Spec => []DataBeforePush
<1>1. PushInv => DataBeforePush
  BY DEF PushInv, LoadInv, DataBeforePush
<1> QED
  BY PushInvariant, <1>1, PTL

\* As long as no query has failed, no row of RouteChange is deleted before the
\* change is in the task queues of all the loops that have to push it.
THEOREM ChangesAreNotForgotten == Spec => []NoChangeForgotten
<1>1. ASSUME PushInv PROVE NoChangeForgotten
  <2>1. SUFFICES ASSUME faults = 0, NEW c \in Conns, Pending(c)
                 PROVE  \/ \E v \in rows : hist[v] = SubKey /\ v >= owed[c]
                        \/ Announced(c)
    <3>1. \A c \in Conns : Announced(c) /\ Pending(c) =>
             \E i \in DOMAIN queue[conn[c].loop] :
                SubKey \in queue[conn[c].loop][i].keys /\ queue[conn[c].loop][i].upto >= owed[c]
      <4>1. ASSUME NEW c \in Conns, Pending(c), NEW i \in DOMAIN queue[conn[c].loop],
                   Announces(queue[conn[c].loop][i], owed[c])
            PROVE  SubKey \in queue[conn[c].loop][i].keys /\ queue[conn[c].loop][i].upto >= owed[c]
        <5>1. queue[conn[c].loop][i].upto \in Nat /\ owed[c] \in Nat
          <6>1. conn[c].loop \in Loops /\ owed[c] \in Nat
            BY <1>1, <4>1 DEF PushInv, ConnInv, Pending, TypeOK
          <6> QED
            BY <1>1, <4>1, <6>1, QueuedTasks, Ranges DEF PushInv
        <5> QED
          BY <4>1, <5>1 DEF Announces
      <4> QED
        BY <4>1 DEF Announced
    <3> QED
      BY <3>1 DEF NoChangeForgotten, Pending, IsOpen
  <2>2. owed[c] \in rows \/ Announced(c)
    BY <1>1, <2>1 DEF PushInv, OwedInv
  <2>3. owed[c] \in Nat /\ sent[c][SubKey] \in Nat /\ owed[c] # 0
    BY <1>1, <2>1, KeysAssumption DEF PushInv, TypeOK, Pending
  <2>4. hist[owed[c]] = SubKey
    BY <1>1, <2>3 DEF PushInv, VersionInv
  <2> QED
    BY <2>2, <2>3, <2>4
<1> QED
  BY PushInvariant, <1>1, PTL

\* For any reuse of descriptors, which stay subscribed when their connection has
\* closed: no loop pushes to a connection that is not there.
THEOREM NoPushToNull == Spec => []NoNullConnection
<1>1. PushInv => NoNullConnection
  BY DEF PushInv, ConnInv, NoNullConnection
<1> QED
  BY PushInvariant, <1>1, PTL

\* However many queries fail, and however answers and pushes alternate, no
\* connection is sent routes older than those it was sent before.
THEOREM SendsNeverGoBack == Spec => SentNeverOlder
<1>1. PushInv /\ [Next]_vars => [\A c \in Conns, k \in Keys : sent'[c][k] >= sent[c][k]]_vars
  BY NextPushInv
<1> QED
  BY PushInvariant, <1>1, PTL DEF Spec, SentNeverOlder

================================================================================
