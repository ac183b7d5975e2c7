------------------------------ MODULE RouteSwap ------------------------------
(***************************************************************************)
(* route's two maps: m_data_pointer, which the IO loops read, and          *)
(* m_tmp_pointer, which only the check thread fills.  Both are shared      *)
(* pointers to map objects.  A reader copies m_data_pointer under the lock *)
(* and reads the object after it has released the lock; the check thread   *)
(* clears and fills the object of m_tmp_pointer with no lock at all, and   *)
(* swap() exchanges the pointers.                                          *)
(*                                                                         *)
(* The contents of a map are abstracted to the version of RouteData the    *)
(* query returned and how many of its rows have been inserted.             *)
(***************************************************************************)
EXTENDS Naturals

CONSTANTS
    Readers,  \* threads that call get_hosts: the IO loops
    Objects,  \* map objects the heap can hold
    Rows,     \* rows of RouteData
    MaxVer,   \* bound: times the table changes
    None

ASSUME RowsAssumption == Rows \in Nat

ASSUME MaxVerAssumption == MaxVer \in Nat

ASSUME NoneAssumption == None \notin Objects

Contents == [ver : Nat, rows : 0 .. Rows]

Complete == [ver : Nat, rows : {Rows}]

\* which no map equals: what a thread that reads nothing is looking at
ASSUME NoneIsNoContents == None \notin Contents

Empty == [ver |-> 0, rows |-> 0]

VARIABLES
    dbVer,   \* version of the RouteData table
    heap,    \* object -> its contents
    m_data,  \* m_data_pointer
    m_tmp,   \* m_tmp_pointer
    held,    \* reader -> the object its tmp_data points to, or None
    result,  \* reader -> version of the hosts it last got
    check,   \* where the check thread is
    loading  \* the version its query has returned

vars == <<dbVer, heap, m_data, m_tmp, held, result, check, loading>>

\* "locked" and "swap" are the places where swap() holds m_data_pointer_mutex
Places == {"idle", "query", "insert", "lock", "locked", "swap"}

TypeOK ==
    /\ dbVer \in 0 .. MaxVer
    /\ heap \in [Objects -> Contents]
    /\ m_data \in Objects
    /\ m_tmp \in Objects
    /\ held \in [Readers -> Objects \cup {None}]
    /\ result \in [Readers -> Nat]
    /\ check \in Places
    /\ loading \in 0 .. MaxVer

\* after build_maps
Init ==
    /\ dbVer = 0
    /\ m_data \in Objects
    /\ m_tmp \in Objects \ {m_data}
    /\ heap = [o \in Objects |-> IF o = m_data THEN [ver |-> 0, rows |-> Rows] ELSE Empty]
    /\ held = [r \in Readers |-> None]
    /\ result = [r \in Readers |-> 0]
    /\ check = "idle"
    /\ loading = 0

\* use_count() == 1 for m_data_pointer
Unique == \A r \in Readers : held[r] # m_data

\* a reader that does not take the lock
NoMutex == TRUE

MutexFree == check \notin {"locked", "swap"}

Free == {o \in Objects \ {m_data, m_tmp} : \A r \in Readers : held[r] # o}

------------------------------------------------------------------------------
\* the administrator's program changes the table
Change ==
    /\ dbVer < MaxVer
    /\ dbVer' = dbVer + 1
    /\ UNCHANGED <<heap, m_data, m_tmp, held, result, check, loading>>

------------------------------------------------------------------------------
\* load_route_data

Clear ==
    /\ check = "idle"
    /\ heap' = [heap EXCEPT ![m_tmp] = Empty]
    /\ check' = "query"
    /\ UNCHANGED <<dbVer, m_data, m_tmp, held, result, loading>>

Query ==
    /\ check = "query"
    /\ loading' = dbVer
    /\ check' = "insert"
    /\ UNCHANGED <<dbVer, heap, m_data, m_tmp, held, result>>

\* the result -1 ignored: the empty map is swapped in
QueryFailsIgnored ==
    /\ check = "query"
    /\ check' = "lock"
    /\ UNCHANGED <<dbVer, heap, m_data, m_tmp, held, result, loading>>

\* returns -1: the swap is skipped
QueryFails ==
    /\ check = "query"
    /\ check' = "idle"
    /\ UNCHANGED <<dbVer, heap, m_data, m_tmp, held, result, loading>>

Insert ==
    /\ check = "insert"
    /\ heap[m_tmp].rows < Rows
    /\ heap' = [heap EXCEPT ![m_tmp] = [ver |-> loading, rows |-> @.rows + 1]]
    /\ UNCHANGED <<dbVer, m_data, m_tmp, held, result, check, loading>>

\* the map handed over before all rows are in
LoadedEarly ==
    /\ check = "insert"
    /\ heap' = [heap EXCEPT ![m_tmp].ver = loading]
    /\ check' = "lock"
    /\ UNCHANGED <<dbVer, m_data, m_tmp, held, result, loading>>

\* the version of a table without rows is that of the query
Loaded ==
    /\ check = "insert"
    /\ heap[m_tmp].rows = Rows
    /\ heap' = [heap EXCEPT ![m_tmp].ver = loading]
    /\ check' = "lock"
    /\ UNCHANGED <<dbVer, m_data, m_tmp, held, result, loading>>

------------------------------------------------------------------------------
\* swap

Lock ==
    /\ check = "lock"
    /\ check' = "locked"
    /\ UNCHANGED <<dbVer, heap, m_data, m_tmp, held, result, loading>>

\* without the test of unique()
CheckNothing ==
    /\ check = "locked"
    /\ check' = "swap"
    /\ UNCHANGED <<dbVer, heap, m_data, m_tmp, held, result, loading>>

\* nobody else uses the object of m_data_pointer, and nobody can get it while
\* the lock is held
CheckUnique ==
    /\ check = "locked"
    /\ Unique
    /\ check' = "swap"
    /\ UNCHANGED <<dbVer, heap, m_data, m_tmp, held, result, loading>>

\* a reader uses it: m_data_pointer gets a copy, the original stays with the
\* reader and dies with its reference
CopyData ==
    /\ check = "locked"
    /\ ~Unique
    /\ \E o \in Free :
        /\ heap' = [heap EXCEPT ![o] = heap[m_data]]
        /\ m_data' = o
    /\ check' = "swap"
    /\ UNCHANGED <<dbVer, m_tmp, held, result, loading>>

\* m_data_pointer = std::move(m_tmp_pointer)
SwapMoves ==
    /\ check = "swap"
    /\ m_data' = m_tmp
    /\ m_tmp' = None
    /\ check' = "idle"
    /\ UNCHANGED <<dbVer, heap, held, result, loading>>

\* m_data_pointer.swap(m_tmp_pointer), and the lock is released
Swap ==
    /\ check = "swap"
    /\ m_data' = m_tmp
    /\ m_tmp' = m_data
    /\ check' = "idle"
    /\ UNCHANGED <<dbVer, heap, held, result, loading>>

------------------------------------------------------------------------------
\* get_hosts

\* get_data_pointer
Take(r) ==
    /\ held[r] = None
    /\ MutexFree
    /\ held' = [held EXCEPT ![r] = m_data]
    /\ UNCHANGED <<dbVer, heap, m_data, m_tmp, result, check, loading>>

\* the look-up in *tmp_data
Find(r) ==
    /\ held[r] # None
    /\ result' = [result EXCEPT ![r] = heap[held[r]].ver]
    /\ UNCHANGED <<dbVer, heap, m_data, m_tmp, held, check, loading>>

\* tmp_data goes out of scope
Drop(r) ==
    /\ held[r] # None
    /\ held' = [held EXCEPT ![r] = None]
    /\ UNCHANGED <<dbVer, heap, m_data, m_tmp, result, check, loading>>

------------------------------------------------------------------------------
Load == Clear \/ Query \/ QueryFails \/ Insert \/ Loaded

SwapPointers == Lock \/ CheckUnique \/ CopyData \/ Swap

Next ==
    \/ Change
    \/ Load
    \/ SwapPointers
    \/ \E r \in Readers : Take(r) \/ Find(r) \/ Drop(r)

Spec == Init /\ [][Next]_vars

------------------------------------------------------------------------------
\* Properties

\* The map that is being cleared and filled, with no lock, is out of every
\* reader's reach, however long a reader keeps the object it took.
TmpIsPrivate ==
    /\ m_tmp # m_data
    /\ \A r \in Readers : held[r] # m_tmp

\* The object a reader looks at does not change while it looks, whatever
\* load_route_data and swap() do meanwhile.
HeldIsFrozen ==
    [][\A r \in Readers :
          held[r] # None /\ held'[r] = held[r] => heap'[held[r]] = heap[held[r]]]_vars

\* No caller gets routes older than those it got before.
NeverOlder == [][\A r \in Readers : result'[r] >= result[r]]_vars

Register ==
    INSTANCE RouteRegister
        WITH Snapshots <- Complete,
             First <- [ver |-> 0, rows |-> Rows],
             current <- heap[m_data],
             view <- [r \in Readers |-> IF held[r] = None THEN None ELSE heap[held[r]]]

\* To its readers the pair of maps is one register of complete snapshots: no
\* reader ever sees a map that is empty, half filled, or changed as it reads.
IsRegister == Register!Spec

==============================================================================
