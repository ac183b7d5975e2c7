------------------------------- MODULE DnsPush -------------------------------
(***************************************************************************)
(* lars_dns: a check thread polls the database for a new route version,    *)
(* loads the routes, and posts a publish task to every IO loop; each loop  *)
(* pushes the changed routes to those of its connections that subscribed.  *)
(* Routes are read through RouteRegister (RouteSwap implements it), loops  *)
(* run their tasks through TaskChannel (TaskQueue implements it).          *)
(*                                                                         *)
(* The database is external: a program outside the repository changes the  *)
(* routes of one key and, in the same transaction, the version and the     *)
(* RouteChange table, as the queries of dns_route.cc suppose.  The value   *)
(* of a key is the version at which it last changed.  A key is the pair of *)
(* its module and command id: DnsPush_proofs shows that the uint64_t of   *)
(* the code is as good a name, unless a command id is negative.            *)
(***************************************************************************)
EXTENDS KeyCodec, Sequences, FiniteSetsExt

CONSTANTS
    Keys,      \* <<modid, cmdid>> pairs in use
    SubKey,    \* the key to which on_build subscribes every connection
    Conns,     \* bound: connections, each used once
    Loops,     \* IO loops
    Fds,       \* descriptor numbers
    Wait,      \* wait_time, in rounds of the check thread
    MaxVer,    \* bound: changes of the routes
    MaxFaults, \* bound: queries that fail
    None

ASSUME KeysAssumption ==
    /\ SubKey \in Keys
    /\ Keys \subseteq Int32 \X {n \in Int32 : n >= 0}

ASSUME BoundsAssumption == {Wait, MaxVer, MaxFaults} \subseteq Nat

VARIABLES
    hist,       \* database: hist[v] is the key whose routes changed at version v
    rows,       \* database: the versions with a row in RouteChange
    m_version,
    dataVer,    \* version of the routes in m_data_pointer's map
    check,      \* where the check thread is
    since,      \* rounds since last_load_time, up to Wait
    changes,    \* the keys load_changes returned
    faults,
    conn,       \* connection -> state, loop and descriptor
    listening,  \* loop -> descriptors in its m_listen_fds
    subs,       \* loop -> int -> descriptors (s_t_subscribe_map)
    pub,        \* loop -> descriptor -> keys (s_t_publish_map)
    queue,      \* loop -> publish tasks
    sent,       \* connection -> key -> version of the routes last sent for it
    pushed,     \* connection -> keys it was ever sent without asking
    nullSend,   \* a loop has called send on a null connection
    owed        \* connection -> version it must be pushed for SubKey

db == <<hist, rows>>
thread == <<m_version, dataVer, check, since, changes, faults>>
loop == <<conn, listening, subs, pub, queue, sent, pushed, nullSend>>
vars == <<db, thread, loop, owed>>

\* s_t_subscribe_map is keyed by int
IntKey(key) == IntOf(Key(key[1], key[2]))

\* the pair whose routes push_change_task looks up for a key
Split(key) == <<Modid(Key(key[1], key[2])), Cmdid(Key(key[1], key[2]))>>

IntKeys == {IntKey(k) : k \in Keys}

DbVer == Len(hist)

\* the routes of a key in the table as of a version
RoutesAt(key, ver) == Max({0} \cup {v \in 1 .. ver : hist[v] = key})

TypeOK ==
    /\ hist \in Seq(Keys) /\ Len(hist) <= MaxVer
    /\ rows \subseteq 1 .. MaxVer
    /\ {m_version, dataVer} \subseteq 0 .. MaxVer
    /\ check \in {"build", "version", "clean", "sleep", "poll", "load", "changes",
                  "publish", "remove", "reload"}
    /\ since \in 0 .. Wait
    /\ changes \subseteq Keys
    /\ faults \in 0 .. MaxFaults
    /\ conn \in [Conns -> [st : {"none", "open", "closed"}, loop : Loops \cup {None},
                           fd : Fds \cup {None}]]
    /\ listening \in [Loops -> SUBSET Fds]
    /\ subs \in [Loops -> [IntKeys -> SUBSET Fds]]
    /\ pub \in [Loops -> [Fds -> SUBSET Keys]]
    /\ queue \in [Loops -> Seq([keys : SUBSET Keys, upto : 0 .. MaxVer])]
    /\ sent \in [Conns -> [Keys -> 0 .. MaxVer]]
    /\ pushed \in [Conns -> SUBSET Keys]
    /\ nullSend \in BOOLEAN
    /\ owed \in [Conns -> 0 .. MaxVer]

Init ==
    /\ hist = <<>>
    /\ rows = {}
    /\ m_version = 0
    /\ dataVer = 0
    /\ check = "build"
    /\ since = 0
    /\ changes = {}
    /\ faults = 0
    /\ conn = [c \in Conns |-> [st |-> "none", loop |-> None, fd |-> None]]
    /\ listening = [l \in Loops |-> {}]
    /\ subs = [l \in Loops |-> [i \in IntKeys |-> {}]]
    /\ pub = [l \in Loops |-> [f \in Fds |-> {}]]
    /\ queue = [l \in Loops |-> <<>>]
    /\ sent = [c \in Conns |-> [k \in Keys |-> 0]]
    /\ pushed = [c \in Conns |-> {}]
    /\ nullSend = FALSE
    /\ owed = [c \in Conns |-> 0]

------------------------------------------------------------------------------
\* The administrator's transaction.  A connection open at that time is owed a
\* push of a change of its key, unless the check thread is still to empty
\* RouteChange at its start.
Change(key) ==
    /\ DbVer < MaxVer
    /\ hist' = Append(hist, key)
    /\ rows' = rows \cup {DbVer + 1}
    /\ owed' = [c \in Conns |->
          IF conn[c].st = "open" /\ key = SubKey /\ check \notin {"build", "version", "clean"}
              THEN DbVer + 1
              ELSE owed[c]]
    /\ UNCHANGED <<thread, loop>>

------------------------------------------------------------------------------
\* Queries of the check thread: each may fail, and then says so on stderr

Goes(from, to) == check = from /\ check' = to

Works == UNCHANGED faults

Fails == faults < MaxFaults /\ faults' = faults + 1

\* the constructor: build_maps (which exits when its query fails)
BuildMaps ==
    /\ Goes("build", "version")
    /\ dataVer' = DbVer
    /\ UNCHANGED <<db, m_version, since, changes, faults, loop, owed>>

\* the error code of load_version stored as the version
FirstVersionStoresError ==
    /\ Goes("version", "clean")
    /\ \/ Works /\ m_version' = DbVer
       \/ Fails /\ m_version' = -1
    /\ UNCHANGED <<db, dataVer, since, changes, loop, owed>>

\* the constructor: load_version, whose result is ignored
FirstVersion ==
    /\ Goes("version", "clean")
    /\ \/ Works /\ m_version' = DbVer
       \/ Fails /\ UNCHANGED m_version
    /\ UNCHANGED <<db, dataVer, since, changes, loop, owed>>

\* check_route_changes: remove_changes(true)
RemoveAll ==
    /\ Goes("clean", "sleep")
    /\ \/ Works /\ rows' = {}
       \/ Fails /\ UNCHANGED rows
    /\ UNCHANGED <<hist, m_version, dataVer, since, changes, loop, owed>>

Sleep ==
    /\ Goes("sleep", "poll")
    /\ since' = Min({since + 1, Wait})
    /\ UNCHANGED <<db, m_version, dataVer, changes, faults, loop, owed>>

\* load_version returns 1
NewVersion ==
    /\ Goes("poll", "load")
    /\ Works
    /\ DbVer # m_version
    /\ m_version' = DbVer
    /\ UNCHANGED <<db, dataVer, since, changes, loop, owed>>

\* the timer ignored: routes are loaded for a new version only
NeverReload ==
    /\ Goes("poll", "sleep")
    /\ \/ Works /\ DbVer = m_version
       \/ Fails
    /\ UNCHANGED <<db, m_version, dataVer, since, changes, loop, owed>>

\* load_version returns 0 or -1
NoNewVersion ==
    /\ Goes("poll", IF since >= Wait THEN "reload" ELSE "sleep")
    /\ \/ Works /\ DbVer = m_version
       \/ Fails
    /\ UNCHANGED <<db, m_version, dataVer, since, changes, loop, owed>>

\* the result of load_route_data ignored: swap serves the map it has cleared
LoadRoutesUnchecked ==
    /\ \/ Works /\ dataVer' = DbVer
       \/ Fails /\ dataVer' = 0
    /\ since' = 0

\* load_route_data and, when it returns 0, swap
LoadRoutes ==
    \/ Works /\ dataVer' = DbVer /\ since' = 0
    \/ Fails /\ UNCHANGED <<dataVer, since>>

\* the load left to the timer
LoadLater ==
    /\ Goes("load", "changes")
    /\ UNCHANGED <<db, m_version, dataVer, since, faults, changes, loop, owed>>

Load ==
    /\ Goes("load", "changes")
    /\ LoadRoutes
    /\ UNCHANGED <<db, m_version, changes, loop, owed>>

Reload ==
    /\ Goes("reload", "sleep")
    /\ LoadRoutes
    /\ UNCHANGED <<db, m_version, changes, loop, owed>>

\* the `=` that the comment of load_changes considers
LoadChangesOfVersion ==
    /\ Goes("changes", "publish")
    /\ \/ Works /\ changes' = {hist[v] : v \in {w \in rows : w = m_version}}
       \/ Fails /\ changes' = {}
    /\ UNCHANGED <<db, m_version, dataVer, since, loop, owed>>

LoadChanges ==
    /\ Goes("changes", "publish")
    /\ \/ Works /\ changes' = {hist[v] : v \in {w \in rows : w <= m_version}}
       \/ Fails /\ changes' = {}
    /\ UNCHANGED <<db, m_version, dataVer, since, loop, owed>>

\* send_task: one task for every loop (the main loop's has no effect: it has
\* no connection and no subscription)
PostPublish ==
    /\ Goes("publish", "remove")
    /\ queue' = [l \in Loops |-> Append(queue[l], [keys |-> changes, upto |-> m_version])]
    /\ UNCHANGED <<db, m_version, dataVer, since, changes, faults, conn, listening, subs, pub,
                   sent, pushed, nullSend, owed>>

\* remove_changes without the condition on the version
RemoveEveryChange ==
    /\ Goes("remove", "sleep")
    /\ \/ Works /\ rows' = {}
       \/ Fails /\ UNCHANGED rows
    /\ UNCHANGED <<hist, m_version, dataVer, since, changes, loop, owed>>

RemoveChanges ==
    /\ Goes("remove", "sleep")
    /\ \/ Works /\ rows' = {v \in rows : v > m_version}
       \/ Fails /\ UNCHANGED rows
    /\ UNCHANGED <<hist, m_version, dataVer, since, changes, loop, owed>>

------------------------------------------------------------------------------
\* The IO loops, which start after the constructor of route

UsedFds == {conn[c].fd : c \in {d \in Conns : conn[d].st = "open"}}

\* listen_read: the connection joins a loop, on_build subscribes it
Open(c, l) ==
    /\ check \notin {"build", "version"}
    /\ conn[c].st = "none"
    /\ \E f \in Fds \ UsedFds :
        /\ conn' = [conn EXCEPT ![c] = [st |-> "open", loop |-> l, fd |-> f]]
        /\ listening' = [listening EXCEPT ![l] = @ \cup {f}]
        /\ subs' = [subs EXCEPT ![l][IntKey(SubKey)] = @ \cup {f}]
    /\ UNCHANGED <<db, thread, pub, queue, sent, pushed, nullSend, owed>>

\* tcp_conn::close; nobody calls unsubscribe
CloseConn(c) ==
    /\ conn[c].st = "open"
    /\ conn' = [conn EXCEPT ![c].st = "closed"]
    /\ listening' = [listening EXCEPT ![conn[c].loop] = @ \ {conn[c].fd}]
    /\ UNCHANGED <<db, thread, subs, pub, queue, sent, pushed, nullSend, owed>>

\* get_route answers a request
GetRoute(c, key) ==
    /\ conn[c].st = "open"
    /\ sent' = [sent EXCEPT ![c][key] = RoutesAt(key, dataVer)]
    /\ UNCHANGED <<db, thread, conn, listening, subs, pub, queue, pushed, nullSend, owed>>

\* the loop's connection with a descriptor (t_event_loop_conns)
Here(l, fd) == {c \in Conns : conn[c].st = "open" /\ conn[c].loop = l /\ conn[c].fd = fd}

\* make_publish_map without the test of online_fds
Everyone(l) == Fds

\* make_publish_map: the descriptors that are to be pushed to, among those the
\* loop listens on
Online(l) == listening[l]

\* publish, then push_change_task
RunPublish(l) ==
    /\ queue[l] # <<>>
    /\ queue' = [queue EXCEPT ![l] = Tail(@)]
    /\ LET task == Head(queue[l])
           all == [f \in Fds |->
                      pub[l][f] \cup {k \in task.keys : f \in subs[l][IntKey(k)]}]
           need(c) == IF conn[c].st = "open" /\ conn[c].loop = l
                          THEN {Split(k) : k \in all[conn[c].fd]} ELSE {}
       IN  /\ pub' = [pub EXCEPT ![l] =
                  [f \in Fds |-> IF f \in Online(l) THEN {} ELSE all[f]]]
           /\ sent' = [c \in Conns |-> [k \in Keys |->
                  IF k \in need(c) THEN RoutesAt(k, dataVer) ELSE sent[c][k]]]
           /\ pushed' = [c \in Conns |-> pushed[c] \cup need(c)]
           /\ nullSend' = (nullSend \/ \E f \in Online(l) : all[f] # {} /\ Here(l, f) = {})
    /\ UNCHANGED <<db, thread, conn, listening, subs, owed>>

------------------------------------------------------------------------------
CheckStep ==
    \/ BuildMaps
    \/ FirstVersion
    \/ RemoveAll
    \/ Sleep
    \/ NewVersion
    \/ NoNewVersion
    \/ Load
    \/ Reload
    \/ LoadChanges
    \/ PostPublish
    \/ RemoveChanges

Next ==
    \/ \E k \in Keys : Change(k)
    \/ CheckStep
    \/ \E c \in Conns :
        \/ \E l \in Loops : Open(c, l)
        \/ CloseConn(c)
        \/ \E k \in Keys : GetRoute(c, k)
    \/ \E l \in Loops : RunPublish(l)

\* The check thread wakes from sleep and its queries return; loops run their
\* tasks.  The administrator and the clients need not do anything.
Fairness ==
    /\ WF_vars(CheckStep)
    /\ \A l \in Loops : WF_vars(RunPublish(l))

Spec == Init /\ [][Next]_vars

FairSpec == Spec /\ Fairness

------------------------------------------------------------------------------
\* Properties

\* The routes are loaded before they are published: when no query has failed, a
\* publish task in a loop's queue never finds routes older than the version it
\* announces.
DataBeforePush ==
    faults = 0 =>
        \A l \in Loops : \A i \in DOMAIN queue[l] : queue[l][i].upto <= dataVer

\* A change is not deleted from RouteChange before it has been handed to the
\* loops: what a connection is owed is in a row of the table or in a publish
\* task of its loop (rows that a later transaction adds between the queries of
\* a round, or that fall between two versions polled, included).
NoChangeForgotten ==
    faults = 0 =>
        \A c \in Conns :
            conn[c].st = "open" /\ sent[c][SubKey] < owed[c] =>
                \/ \E v \in rows : hist[v] = SubKey /\ v >= owed[c]
                \/ \E i \in DOMAIN queue[conn[c].loop] :
                      LET task == queue[conn[c].loop][i]
                      IN  SubKey \in task.keys /\ task.upto >= owed[c]

\* Answers and pushes together never go back: a connection is never sent
\* routes older than those it was sent before, even when queries fail.
SentNeverOlder ==
    [][\A c \in Conns, k \in Keys : sent'[c][k] >= sent[c][k]]_vars

\* Descriptors stay subscribed after their connection has closed, and yet no
\* push dereferences the missing connection.
NoNullConnection == ~nullSend

\* While no query fails: a change of its key reaches every connection that was
\* open when the change was made, unless the connection closes.
ChangesArePushed ==
    \A c \in Conns :
        (conn[c].st = "open" /\ sent[c][SubKey] < owed[c]) ~>
            (conn[c].st # "open" \/ sent[c][SubKey] >= owed[c] \/ faults > 0)

\* What comments of check_route_changes and of dns_route.h say without that
\* condition: the subscribers of a changed key are found and pushed to.
ChangesAreAlwaysPushed ==
    \A c \in Conns :
        (conn[c].st = "open" /\ sent[c][SubKey] < owed[c]) ~>
            (conn[c].st # "open" \/ sent[c][SubKey] >= owed[c])

\* The routes served catch up with the database, whatever queries failed and
\* even if the change slipped in between the two queries of the constructor.
ServedCatchesUp ==
    \A v \in 1 .. MaxVer : (DbVer >= v) ~> (dataVer >= v)

\* subscribe.h: "modid/cmdid : fd set".  A connection is only pushed the key it
\* has subscribed to.
OnlySubscribed == \A c \in Conns : pushed[c] \subseteq {SubKey}

==============================================================================
