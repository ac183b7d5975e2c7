--------------------------- MODULE RouteSwap_proofs ---------------------------
(***************************************************************************)
(* For any number of readers, rows, objects and changes: the map being     *)
(* filled is private, what a reader holds is frozen, no reader goes back,  *)
(* and the pair of maps implements RouteRegister.                          *)
(***************************************************************************)
EXTENDS RouteSwap, TLAPS

\* Whatever a reader may look at is a complete table.
ServedIsComplete ==
    /\ heap[m_data].rows = Rows
    /\ \A r \in Readers : held[r] # None => heap[held[r]].rows = Rows

\* A reader's past answers are no newer than what it holds, and that is no
\* newer than what is served, which the database has reached.
ReadsAreOrdered ==
    /\ heap[m_data].ver <= dbVer
    /\ \A r \in Readers :
        /\ result[r] <= heap[m_data].ver
        /\ held[r] # None =>
            /\ result[r] <= heap[held[r]].ver
            /\ heap[held[r]].ver <= heap[m_data].ver

\* What is being loaded is no older than what is served, and it is complete
\* by the time swap() starts.
LoadIsNewer ==
    /\ check = "insert" => /\ heap[m_data].ver <= loading
                           /\ loading <= dbVer
    /\ check \in {"lock", "locked", "swap"} =>
        /\ heap[m_tmp].rows = Rows
        /\ heap[m_data].ver <= heap[m_tmp].ver
        /\ heap[m_tmp].ver <= dbVer

\* The pointers are exchanged only while no reader holds the object served.
SwapIsUnique == check = "swap" => Unique

IInv ==
    /\ TypeOK
    /\ TmpIsPrivate
    /\ ServedIsComplete
    /\ ReadsAreOrdered
    /\ LoadIsNewer
    /\ SwapIsUnique

LEMMA InitIInv == Init => IInv
<1> SUFFICES ASSUME Init PROVE IInv
  OBVIOUS
<1> USE RowsAssumption, MaxVerAssumption DEF Init, Empty
<1>1. TypeOK
  BY DEF TypeOK, Contents, Places
<1>2. TmpIsPrivate
  BY NoneAssumption DEF TmpIsPrivate
<1>3. heap[m_data] = [ver |-> 0, rows |-> Rows]
  OBVIOUS
<1>4. ServedIsComplete
  BY <1>3 DEF ServedIsComplete
<1>5. ReadsAreOrdered
  BY <1>3 DEF ReadsAreOrdered
<1>6. LoadIsNewer /\ SwapIsUnique
  BY DEF LoadIsNewer, SwapIsUnique
<1> QED
  BY <1>1, <1>2, <1>4, <1>5, <1>6 DEF IInv

LEMMA NextIInv == IInv /\ [Next]_vars => IInv'
<1> SUFFICES ASSUME IInv, [Next]_vars PROVE IInv'
  OBVIOUS
<1> USE RowsAssumption, MaxVerAssumption, NoneAssumption
<1> USE DEF IInv, TypeOK, TmpIsPrivate, ServedIsComplete, ReadsAreOrdered, LoadIsNewer,
            SwapIsUnique, Contents, Places
<1>1. CASE Change
  BY <1>1 DEF Change, Unique
<1>2. CASE Clear
  BY <1>2 DEF Clear, Empty
<1>3. CASE Query
  BY <1>3 DEF Query
<1>4. CASE QueryFails
  BY <1>4 DEF QueryFails
<1>5. CASE Insert
  BY <1>5 DEF Insert
<1>6. CASE Loaded
  BY <1>6 DEF Loaded
<1>7. CASE Lock
  BY <1>7 DEF Lock
<1>8. CASE CheckUnique
  BY <1>8 DEF CheckUnique, Unique
<1>9. CASE CopyData
  BY <1>9 DEF CopyData, Unique, Free
<1>10. CASE Swap
  BY <1>10 DEF Swap, Unique
<1>11. ASSUME NEW r \in Readers, Take(r) PROVE IInv'
  BY <1>11 DEF Take, MutexFree
<1>12. ASSUME NEW r \in Readers, Find(r) PROVE IInv'
  BY <1>12 DEF Find, Unique
<1>13. ASSUME NEW r \in Readers, Drop(r) PROVE IInv'
  BY <1>13 DEF Drop, Unique
<1>14. CASE UNCHANGED vars
  BY <1>14 DEF vars, Unique
<1> QED
  BY <1>1, <1>2, <1>3, <1>4, <1>5, <1>6, <1>7, <1>8, <1>9, <1>10, <1>11, <1>12,
     <1>13, <1>14 DEF Next, Load, SwapPointers

LEMMA IInvCorrect == Spec => []IInv
  BY InitIInv, NextIInv, PTL DEF Spec

\* Every variable keeps its type.
THEOREM TypeCorrect == Spec => []TypeOK
<1>1. IInv => TypeOK
  BY DEF IInv
<1> QED
  BY IInvCorrect, <1>1, PTL

\* The check thread may clear and fill m_tmp_pointer's map with no lock: no
\* reader can hold it.
THEOREM TmpPrivate == Spec => []TmpIsPrivate
<1>1. IInv => TmpIsPrivate
  BY DEF IInv
<1> QED
  BY IInvCorrect, <1>1, PTL

------------------------------------------------------------------------------
LEMMA StepFreezes ==
    ASSUME IInv, [Next]_vars, NEW r \in Readers, held[r] # None
    PROVE  heap'[held[r]] = heap[held[r]]
<1> USE DEF IInv, TypeOK, TmpIsPrivate
<1>1. CASE Clear \/ Insert \/ Loaded
  \* these write the private map
  BY <1>1 DEF Clear, Insert, Loaded
<1>2. CASE CopyData
  \* this writes an object nobody holds
  BY <1>2 DEF CopyData, Free
<1>3. CASE UNCHANGED heap
  BY <1>3
<1> QED
  BY <1>1, <1>2, <1>3
  DEF Next, vars, Load, SwapPointers, Change, Query, QueryFails, Lock, CheckUnique, Swap,
      Take, Find, Drop

\* A reader that keeps its pointer keeps its contents.
THEOREM HeldFrozen == Spec => HeldIsFrozen
<1>1. IInv /\ [Next]_vars =>
        [\A r \in Readers : held[r] # None /\ held'[r] = held[r]
                                => heap'[held[r]] = heap[held[r]]]_vars
  BY StepFreezes
<1> QED
  BY IInvCorrect, <1>1, PTL DEF Spec, HeldIsFrozen

\* The versions a reader gets never decrease.
THEOREM ReadsNeverOlder == Spec => NeverOlder
<1>1. IInv /\ [Next]_vars => [\A r \in Readers : result'[r] >= result[r]]_vars
  <2> SUFFICES ASSUME IInv, [Next]_vars, NEW r \in Readers PROVE result'[r] >= result[r]
    OBVIOUS
  <2> USE DEF IInv, TypeOK, ReadsAreOrdered, Contents
  <2>1. ASSUME NEW q \in Readers, Find(q) PROVE result'[r] >= result[r]
    BY <2>1 DEF Find
  <2>2. CASE UNCHANGED result
    BY <2>2
  <2> QED
    BY <2>1, <2>2
    DEF Next, vars, Load, SwapPointers, Change, Clear, Query, QueryFails, Insert, Loaded,
        Lock, CheckUnique, CopyData, Swap, Take, Drop
<1> QED
  BY IInvCorrect, <1>1, PTL DEF Spec, NeverOlder

------------------------------------------------------------------------------
LEMMA RegisterStep == IInv /\ [Next]_vars => [Register!Next]_(Register!vars)
<1> SUFFICES ASSUME IInv, [Next]_vars PROVE [Register!Next]_(Register!vars)
  OBVIOUS
<1> DEFINE view == [r \in Readers |-> IF held[r] = None THEN None ELSE heap[held[r]]]
           current == heap[m_data]
<1> USE DEF IInv, TypeOK
<1>1. view' = [r \in Readers |-> IF held'[r] = None THEN None ELSE heap'[held'[r]]]
  OBVIOUS
<1>2. CASE UNCHANGED held /\ current' = current
  <2>1. view' = view
    BY <1>2, StepFreezes
  <2> QED
    BY <1>2, <2>1 DEF Register!vars
<1>3. CASE Change \/ Query \/ QueryFails \/ Lock \/ CheckUnique
  BY <1>2, <1>3 DEF Change, Query, QueryFails, Lock, CheckUnique
<1>4. CASE Clear \/ Insert \/ Loaded
  BY <1>2, <1>4 DEF Clear, Insert, Loaded, TmpIsPrivate
<1>5. CASE CopyData
  <2>1. PICK o \in Free : heap' = [heap EXCEPT ![o] = heap[m_data]] /\ m_data' = o
    BY <1>5 DEF CopyData
  <2>2. heap'[o] = heap[m_data]
    BY <2>1 DEF Free
  <2> QED
    BY <1>2, <1>5, <2>1, <2>2 DEF CopyData
<1>6. CASE Swap
  \* the complete map that was filled becomes the one served
  <2>1. view' = view
    BY <1>6, StepFreezes DEF Swap
  <2>2. current' \in Complete /\ current'.ver >= current.ver
    BY <1>6 DEF Swap, LoadIsNewer, Complete, Contents
  <2> QED
    BY <2>1, <2>2 DEF Register!Next, Register!Publish
<1>7. ASSUME NEW r \in Readers, Take(r) PROVE Register!Take(r)
  BY <1>7, NoneAssumption DEF Take, Register!Take
<1>8. ASSUME NEW r \in Readers, Find(r) PROVE UNCHANGED Register!vars
  BY <1>2, <1>8 DEF Find, Register!vars
<1>9. ASSUME NEW r \in Readers, Drop(r) PROVE Register!Drop(r)
  BY <1>9 DEF Drop, Register!Drop
<1>10. CASE UNCHANGED vars
  BY <1>2, <1>10 DEF vars
<1> QED
  BY <1>3, <1>4, <1>5, <1>6, <1>7, <1>8, <1>9, <1>10
  DEF Next, Load, SwapPointers, Register!Next

\* The pair of maps implements the register: readers only ever see complete
\* snapshots, each at least as new as the one before.
THEOREM RegisterCorrect == Spec => IsRegister
<1>1. Init => Register!Init
  BY DEF Init, Register!Init
<1> QED
  BY IInvCorrect, RegisterStep, <1>1, PTL DEF Spec, IsRegister, Register!Spec

==============================================================================
