------------------------------ MODULE TcpServer ------------------------------
(***************************************************************************)
(* tcp_server and tcp_conn: the main loop accepts, each connection lives   *)
(* in one IO loop, and a tcp_conn is a shared object held by the server's  *)
(* m_conns, by the callbacks in an event_loop's m_io_evs_map, by           *)
(* t_event_loop_conns, by a queued task and by the io_event copy of a      *)
(* callback being run.  Whoever drops the last reference closes the        *)
(* descriptor, whose number the kernel may then give to another client.    *)
(*                                                                         *)
(* The task queues of the loops are TaskChannel's (TaskQueue implements    *)
(* it): first-in first-out, run by the loop's thread.                      *)
(***************************************************************************)
EXTENDS Naturals, Sequences, FiniteSets

CONSTANTS
    Clients,   \* bound: each connects at most once; also names its tcp_conn
    IOLoops,   \* number of IO loops, 1 .. IOLoops
    Fds,       \* descriptor numbers the process has left for connections
    MaxConn,   \* config "maxConn"
    MaxMsgs,   \* bound: requests of one client
    MaxPushes, \* bound: calls of send_task
    None

ASSUME LoopsAssumption == IOLoops \in Nat \ {0}

ASSUME FdsAssumption == Fds \subseteq Nat /\ IsFiniteSet(Fds)

ASSUME BoundsAssumption == {MaxConn, MaxMsgs, MaxPushes} \subseteq Nat

ASSUME NoneAssumption == None \notin Clients \cup Fds

Main == 0

IO == 1 .. IOLoops

Loops == {Main} \cup IO

VARIABLES
    peer,         \* client -> "absent", "up" (it has connected), "gone"
    inbox,        \* client -> its requests the kernel holds unread
    asked,        \* client -> requests it has sent
    backlog,      \* clients waiting for accept4
    openFds,      \* descriptors of accepted connections
    conn,         \* client -> state, descriptor, loop and m_obuf of its tcp_conn
    alive,        \* clients whose tcp_conn object exists
    s_conn_nums,
    m_conns,      \* descriptor -> tcp_conn or None; main loop only
    m_next,       \* event_loop_thread_pool::m_next
    mainAt,       \* main thread: "wait", "accept", "store"
    accepted,     \* the local `conn` of accept_callback
    queue,        \* loop -> tasks to run
    ioEvs,        \* loop -> descriptor -> its io_event (m_io_evs_map)
    loopConns,    \* loop -> descriptor -> tcp_conn (t_event_loop_conns)
    ev,           \* loop -> the io_event copy and the callbacks left to call
    onClose,      \* client -> calls of m_on_close_callback for it
    pushes

world == <<peer, inbox, asked, backlog>>
server == <<m_conns, m_next, mainAt, accepted>>
tables == <<ioEvs, loopConns>>
objects == <<openFds, alive, s_conn_nums>>
vars == <<world, objects, conn, server, queue, tables, ev, onClose, pushes>>

NoEntry == [rcb |-> None, wcb |-> None, armed |-> {}]

NoEv == [rcb |-> None, wcb |-> None, calls |-> <<>>, on |-> FALSE]

ListenRead(c) == [kind |-> "listen_read", conn |-> c]
DeleteConn(fd) == [kind |-> "delete_conn", fd |-> fd]
Push == [kind |-> "push"]

Task == {ListenRead(c) : c \in Clients} \cup {DeleteConn(f) : f \in Fds} \cup {Push}

OptConn == Clients \cup {None}

TypeOK ==
    /\ peer \in [Clients -> {"absent", "up", "gone"}]
    /\ inbox \in [Clients -> 0 .. MaxMsgs]
    /\ asked \in [Clients -> 0 .. MaxMsgs]
    /\ backlog \in Seq(Clients)
    /\ openFds \subseteq Fds
    /\ conn \in [Clients -> [st : {"none", "kConnected", "kDisconnected"},
                             fd : Fds \cup {None}, loop : IO, obuf : Nat]]
    /\ alive \subseteq Clients
    /\ s_conn_nums \in Nat
    /\ m_conns \in [Fds -> OptConn]
    /\ m_next \in 0 .. IOLoops
    /\ mainAt \in {"wait", "accept", "store"}
    /\ accepted \in OptConn
    /\ queue \in [Loops -> Seq(Task)]
    /\ ioEvs \in [Loops -> [Fds -> [rcb : OptConn, wcb : OptConn,
                                    armed : SUBSET {"IN", "OUT"}]]]
    /\ loopConns \in [Loops -> [Fds -> OptConn]]
    /\ ev \in [Loops -> [rcb : OptConn, wcb : OptConn, on : BOOLEAN,
                         calls : Seq({"read", "write"})]]
    /\ onClose \in [Clients -> Nat]
    /\ pushes \in 0 .. MaxPushes

Init ==
    /\ peer = [c \in Clients |-> "absent"]
    /\ inbox = [c \in Clients |-> 0]
    /\ asked = [c \in Clients |-> 0]
    /\ backlog = <<>>
    /\ openFds = {}
    /\ conn = [c \in Clients |-> [st |-> "none", fd |-> None, loop |-> 1, obuf |-> 0]]
    /\ alive = {}
    /\ s_conn_nums = 0
    /\ m_conns = [f \in Fds |-> None]
    /\ m_next = 0
    /\ mainAt = "wait"
    /\ accepted = None
    /\ queue = [l \in Loops |-> <<>>]
    /\ ioEvs = [l \in Loops |-> [f \in Fds |-> NoEntry]]
    /\ loopConns = [l \in Loops |-> [f \in Fds |-> None]]
    /\ ev = [l \in Loops |-> NoEv]
    /\ onClose = [c \in Clients |-> 0]
    /\ pushes = 0

------------------------------------------------------------------------------
\* References to a tcp_conn, and what happens when the last one is dropped

Referenced(c) ==
    \/ accepted = c
    \/ \E f \in Fds : m_conns[f] = c
    \/ \E l \in Loops :
        \/ \E i \in DOMAIN queue[l] : queue[l][i] = ListenRead(c)
        \/ \E f \in Fds : c \in {ioEvs[l][f].rcb, ioEvs[l][f].wcb, loopConns[l][f]}
        \/ c \in {ev[l].rcb, ev[l].wcb}

\* the descriptor closed by close(), not by the destructor
DestructorsEager ==
    LET dead == {c \in alive : ~Referenced(c)'}
    IN  /\ alive' = alive \ dead
        /\ s_conn_nums' = s_conn_nums - Cardinality(dead)
        /\ openFds' = openFds \ {conn[c].fd : c \in {d \in alive : conn'[d].st = "kDisconnected"}}

\* Last conjunct of every step that drops references: ~tcp_conn and ~csocket
\* of the objects nobody holds any more.  (~tcp_conn calls close(), which does
\* nothing unless the object is still kConnected: see OpenIsHeld.)
Destructors ==
    LET dead == {c \in alive : ~Referenced(c)'}
    IN  /\ alive' = alive \ dead
        /\ s_conn_nums' = s_conn_nums - Cardinality(dead)
        /\ openFds' = openFds \ {conn[c].fd : c \in dead}

------------------------------------------------------------------------------
\* event_loop's table of io events, as operators on the table of one loop

\* EPOLL_CTL_MOD with the new event alone
AddIoEventReplaces(evs, fd, event, c) ==
    [evs EXCEPT ![fd] = [rcb   |-> IF event = "IN" THEN c ELSE @.rcb,
                         wcb   |-> IF event = "OUT" THEN c ELSE @.wcb,
                         armed |-> {event}]]

AddIoEvent(evs, fd, event, c) ==
    [evs EXCEPT ![fd] = [rcb   |-> IF event = "IN" THEN c ELSE @.rcb,
                         wcb   |-> IF event = "OUT" THEN c ELSE @.wcb,
                         armed |-> @.armed \cup {event}]]

DelIoEvent(evs, fd) == [evs EXCEPT ![fd] = NoEntry]

\* del_io_event(fd, EPOLLOUT): the entry goes when nothing is left armed, and
\* keeps its write callback otherwise
DisarmOut(evs, fd) ==
    IF evs[fd].armed \ {"OUT"} = {}
        THEN DelIoEvent(evs, fd)
        ELSE [evs EXCEPT ![fd].armed = @ \ {"OUT"}]

\* tcp_conn::send, n times, by the loop that owns the connection: EPOLLOUT is
\* armed by the first message put into an empty buffer
Sent(evs, c, n) ==
    IF conn[c].obuf = 0 /\ n > 0
        THEN AddIoEvent(evs, conn[c].fd, "OUT", c)
        ELSE evs

\* close() that leaves the io event registered
CloseKeepsEvent(c) ==
    IF conn[c].st # "kConnected"
        THEN UNCHANGED <<conn, tables, queue>>
        ELSE LET l == conn[c].loop
                 fd == conn[c].fd
             IN  /\ conn' = [conn EXCEPT ![c].st = "kDisconnected", ![c].obuf = 0]
                 /\ loopConns' = [loopConns EXCEPT ![l][fd] = None]
                 /\ queue' = [queue EXCEPT ![Main] = Append(@, DeleteConn(fd))]
                 /\ UNCHANGED ioEvs

\* close() that forgets to set m_state
CloseKeepsState(c) ==
    IF conn[c].st # "kConnected"
        THEN UNCHANGED <<conn, tables, queue>>
        ELSE LET l == conn[c].loop
                 fd == conn[c].fd
             IN  /\ conn' = [conn EXCEPT ![c].obuf = 0]
                 /\ ioEvs' = [ioEvs EXCEPT ![l] = DelIoEvent(@, fd)]
                 /\ loopConns' = [loopConns EXCEPT ![l][fd] = None]
                 /\ queue' = [queue EXCEPT ![Main] = Append(@, DeleteConn(fd))]

\* close() without the test of m_state
CloseAlways(c) ==
    LET l == conn[c].loop
        fd == conn[c].fd
    IN  /\ conn' = [conn EXCEPT ![c].st = "kDisconnected", ![c].obuf = 0]
        /\ ioEvs' = [ioEvs EXCEPT ![l] = DelIoEvent(@, fd)]
        /\ loopConns' = [loopConns EXCEPT ![l][fd] = None]
        /\ queue' = [queue EXCEPT ![Main] = Append(@, DeleteConn(fd))]

\* tcp_conn::close
Close(c) ==
    IF conn[c].st # "kConnected"
        THEN UNCHANGED <<conn, tables, queue>>
        ELSE LET l == conn[c].loop
                 fd == conn[c].fd
             IN  /\ conn' = [conn EXCEPT ![c].st = "kDisconnected", ![c].obuf = 0]
                 /\ ioEvs' = [ioEvs EXCEPT ![l] = DelIoEvent(@, fd)]
                 /\ loopConns' = [loopConns EXCEPT ![l][fd] = None]
                 /\ queue' = [queue EXCEPT ![Main] = Append(@, DeleteConn(fd))]

------------------------------------------------------------------------------
\* The clients

Connect(c) ==
    /\ peer[c] = "absent"
    /\ peer' = [peer EXCEPT ![c] = "up"]
    /\ backlog' = Append(backlog, c)
    /\ UNCHANGED <<inbox, asked, objects, conn, server, queue, tables, ev, onClose, pushes>>

Ask(c) ==
    /\ peer[c] = "up"
    /\ asked[c] < MaxMsgs
    /\ asked' = [asked EXCEPT ![c] = @ + 1]
    /\ inbox' = [inbox EXCEPT ![c] = @ + 1]
    /\ UNCHANGED <<peer, backlog, objects, conn, server, queue, tables, ev, onClose, pushes>>

Leave(c) ==
    /\ peer[c] = "up"
    /\ peer' = [peer EXCEPT ![c] = "gone"]
    /\ UNCHANGED <<inbox, asked, backlog, objects, conn, server, queue, tables, ev,
                   onClose, pushes>>

------------------------------------------------------------------------------
\* The main loop: accept_callback and delete_conn_inloop

ListenReadable ==
    /\ mainAt = "wait"
    /\ backlog # <<>>
    /\ mainAt' = "accept"
    /\ UNCHANGED <<world, objects, conn, m_conns, m_next, accepted, queue, tables, ev,
                   onClose, pushes>>

\* accept4 fails with EMFILE: no `break`, `while (true)` calls it again.  After an
\* error that is none of EINTR, EMFILE, EAGAIN the code ends the process: there is
\* no state after it.
AcceptEmfile ==
    /\ mainAt = "accept"
    /\ openFds = Fds
    /\ UNCHANGED vars

AcceptTooMany ==
    /\ mainAt = "accept"
    /\ openFds # Fds
    /\ s_conn_nums > MaxConn
    /\ backlog' = Tail(backlog)   \* accept4, then close(connfd)
    /\ mainAt' = "wait"
    /\ UNCHANGED <<peer, inbox, asked, objects, conn, m_conns, m_next, accepted, queue,
                   tables, ev, onClose, pushes>>

\* get_next_loop that does not go back to the first loop
NextLoopNoWrap == m_next

\* get_next_loop: index of the loop in m_loops, counted from 0
NextLoop == IF m_next >= IOLoops THEN 0 ELSE m_next

\* the kernel gives the lowest free descriptor
LowestFree == CHOOSE f \in Fds \ openFds : \A g \in Fds \ openFds : f <= g

\* the limit check, without it
AcceptAny ==
    /\ mainAt = "accept"
    /\ openFds # Fds
    /\ LET c == Head(backlog)
           l == NextLoop + 1
       IN  /\ conn' = [conn EXCEPT ![c] = [st |-> "kConnected", fd |-> LowestFree,
                                           loop |-> l, obuf |-> 0]]
           /\ alive' = alive \cup {c}
           /\ openFds' = openFds \cup {LowestFree}
           /\ queue' = [queue EXCEPT ![l] = Append(@, ListenRead(c))]
           /\ accepted' = c
    /\ s_conn_nums' = s_conn_nums + 1
    /\ m_next' = NextLoop + 1
    /\ backlog' = Tail(backlog)
    /\ mainAt' = "store"
    /\ UNCHANGED <<peer, inbox, asked, m_conns, tables, ev, onClose, pushes>>

\* up to add_task, after which the IO loop may already use the connection
AcceptConn ==
    /\ s_conn_nums <= MaxConn
    /\ AcceptAny

\* the entry of m_conns is the server's only reference: without it
ForgetConn ==
    /\ mainAt = "store"
    /\ accepted' = None
    /\ mainAt' = "wait"
    /\ UNCHANGED <<world, conn, m_conns, m_next, queue, tables, ev, onClose, pushes>>
    /\ Destructors

\* m_conns[connfd] = conn, and the local goes out of scope
StoreConn ==
    /\ mainAt = "store"
    /\ m_conns' = [m_conns EXCEPT ![conn[accepted].fd] = accepted]
    /\ accepted' = None
    /\ mainAt' = "wait"
    /\ UNCHANGED <<world, conn, m_next, queue, tables, ev, onClose, pushes>>
    /\ Destructors

\* delete_conn_inloop
RunDelete ==
    /\ mainAt = "wait"
    /\ queue[Main] # <<>>
    /\ LET task == Head(queue[Main])
       IN  /\ task.kind = "delete_conn"
           /\ onClose' = [c \in Clients |->
                  IF c = m_conns[task.fd] THEN onClose[c] + 1 ELSE onClose[c]]
           /\ m_conns' = [m_conns EXCEPT ![task.fd] = None]
    /\ queue' = [queue EXCEPT ![Main] = Tail(@)]
    /\ UNCHANGED <<world, conn, m_next, mainAt, accepted, tables, ev, pushes>>
    /\ Destructors

\* another thread calls tcp_server::send_task: one task for every loop
SendTask ==
    /\ pushes < MaxPushes
    /\ pushes' = pushes + 1
    /\ queue' = [l \in Loops |-> Append(queue[l], Push)]
    /\ UNCHANGED <<world, objects, conn, server, tables, ev, onClose>>

------------------------------------------------------------------------------
\* An IO loop (the main loop too runs pushes; it has no connections)

Idle(l) == ~ev[l].on /\ (l = Main => mainAt = "wait")

RunListenRead(l) ==
    /\ Idle(l)
    /\ queue[l] # <<>>
    /\ LET task == Head(queue[l])
       IN  /\ task.kind = "listen_read"
           /\ LET c == task.conn
              IN  /\ ioEvs' = [ioEvs EXCEPT ![l] = AddIoEvent(@, conn[c].fd, "IN", c)]
                  /\ loopConns' = [loopConns EXCEPT ![l][conn[c].fd] = c]
    /\ queue' = [queue EXCEPT ![l] = Tail(@)]
    /\ UNCHANGED <<world, conn, server, ev, onClose, pushes>>
    /\ Destructors

\* a pushed task sends to some of the loop's connections
RunPush(l) ==
    /\ Idle(l)
    /\ queue[l] # <<>>
    /\ Head(queue[l]).kind = "push"
    /\ \E to \in SUBSET ({loopConns[l][f] : f \in Fds} \ {None}) :
        /\ ioEvs' = [ioEvs EXCEPT ![l] = [f \in Fds |->
                IF loopConns[l][f] \in to THEN Sent(@, loopConns[l][f], 1)[f] ELSE @[f]]]
        /\ conn' = [c \in Clients |->
                IF c \in to THEN [conn[c] EXCEPT !.obuf = @ + 1] ELSE conn[c]]
    /\ queue' = [queue EXCEPT ![l] = Tail(@)]
    /\ UNCHANGED <<world, objects, server, loopConns, ev, onClose, pushes>>

\* epoll_wait reports a descriptor: the io_event is copied, and its callbacks
\* called in the order of event_loop::loop.  A peer that has left makes the
\* descriptor readable, and once it is reset also EPOLLHUP and EPOLLERR.
Dispatch(l, fd) ==
    /\ Idle(l)
    /\ LET e == ioEvs[l][fd]
           owner == CHOOSE c \in alive : conn[c].fd = fd
       IN  /\ e.armed # {}
           /\ \E events \in SUBSET e.armed, hup \in BOOLEAN :
               /\ "IN" \in events => inbox[owner] > 0 \/ peer[owner] = "gone"
               /\ peer[owner] = "gone" => "IN" \in events \/ "IN" \notin e.armed
               /\ hup => peer[owner] = "gone"
               /\ events # {} \/ hup
               /\ LET onRead == IF e.rcb # None THEN <<"read">> ELSE <<>>
                      onWrite == IF e.wcb # None THEN <<"write">> ELSE <<>>
                  IN ev' = [ev EXCEPT ![l] =
                        [rcb |-> e.rcb, wcb |-> e.wcb, on |-> TRUE,
                         calls |-> (IF "IN" \in events THEN onRead ELSE <<>>)
                                   \o (IF "OUT" \in events THEN onWrite ELSE <<>>)
                                   \o (IF hup THEN onRead \o onWrite ELSE <<>>)]]
    /\ UNCHANGED <<world, objects, conn, server, queue, tables, onClose, pushes>>

NextCall(l, call) ==
    /\ ev[l].on
    /\ ev[l].calls # <<>>
    /\ Head(ev[l].calls) = call
    /\ ev' = [ev EXCEPT ![l].calls = Tail(@)]

\* handle_read gets requests: handlers reply to some of them
ReadRequests(l) ==
    /\ NextCall(l, "read")
    /\ LET c == ev[l].rcb
       IN  /\ inbox[c] > 0
           /\ inbox' = [inbox EXCEPT ![c] = 0]
           /\ \E n \in 0 .. inbox[c] :
               /\ conn' = [conn EXCEPT ![c].obuf = @ + n]
               /\ ioEvs' = [ioEvs EXCEPT ![l] = Sent(@, c, n)]
    /\ UNCHANGED <<peer, asked, backlog, objects, server, queue, loopConns, onClose, pushes>>

\* handle_read: end of file, a read error, or a header with a bad length
ReadCloses(l) ==
    /\ NextCall(l, "read")
    /\ LET c == ev[l].rcb
       IN  /\ inbox[c] > 0 \/ peer[c] = "gone"
           /\ inbox' = [inbox EXCEPT ![c] = 0]
           /\ Close(c)
    /\ UNCHANGED <<peer, asked, backlog, server, onClose, pushes>>
    /\ Destructors

\* EPOLLOUT disarmed although output is left
WriteSomeDisarms(l) ==
    /\ NextCall(l, "write")
    /\ LET c == ev[l].wcb
       IN  \E left \in 0 .. conn[c].obuf :
            /\ conn' = [conn EXCEPT ![c].obuf = left]
            /\ ioEvs' = [ioEvs EXCEPT ![l] = DisarmOut(@, conn[c].fd)]
    /\ UNCHANGED <<world, server, queue, loopConns, onClose, pushes>>
    /\ Destructors

\* handle_write sends some or all of m_obuf; EPOLLOUT is disarmed when all of it
WriteSome(l) ==
    /\ NextCall(l, "write")
    /\ LET c == ev[l].wcb
       IN  \E left \in 0 .. conn[c].obuf :
            /\ conn' = [conn EXCEPT ![c].obuf = left]
            /\ ioEvs' = IF left = 0
                            THEN [ioEvs EXCEPT ![l] = DisarmOut(@, conn[c].fd)]
                            ELSE ioEvs
    /\ UNCHANGED <<world, server, queue, loopConns, onClose, pushes>>
    /\ Destructors

\* handle_write: the write fails (close() has removed the io event already)
WriteCloses(l) ==
    /\ NextCall(l, "write")
    /\ LET c == ev[l].wcb
       IN  /\ conn[c].obuf > 0
           /\ peer[c] = "gone"
           /\ Close(c)
    /\ UNCHANGED <<world, server, onClose, pushes>>
    /\ Destructors

\* end of the iteration: the io_event copy goes out of scope
Dispatched(l) ==
    /\ ev[l].on
    /\ ev[l].calls = <<>>
    /\ ev' = [ev EXCEPT ![l] = NoEv]
    /\ UNCHANGED <<world, conn, server, queue, tables, onClose, pushes>>
    /\ Destructors

------------------------------------------------------------------------------
World == \E c \in Clients : Connect(c) \/ Ask(c) \/ Leave(c)

MainStep ==
    ListenReadable \/ AcceptEmfile \/ AcceptTooMany \/ AcceptConn \/ StoreConn

RunTask(l) == RunListenRead(l) \/ RunPush(l) \/ (l = Main /\ RunDelete)

Callback(l) ==
    ReadRequests(l) \/ ReadCloses(l) \/ WriteSome(l) \/ WriteCloses(l) \/ Dispatched(l)

Next ==
    \/ World
    \/ ListenReadable
    \/ AcceptEmfile
    \/ AcceptTooMany
    \/ AcceptConn
    \/ StoreConn
    \/ RunDelete
    \/ SendTask
    \/ \E l \in Loops : RunPush(l)
    \/ \E l \in IO : RunListenRead(l) \/ Callback(l)
    \/ \E l \in IO, fd \in Fds : Dispatch(l, fd)

\* Threads are scheduled and callbacks return; epoll reports every ready
\* descriptor in turn, the eventfd of the task queue among them.  Clients do
\* what they like, and need not do anything.
Fairness ==
    /\ WF_vars(MainStep)
    /\ \A l \in Loops : SF_vars(RunTask(l))
    /\ \A l \in IO : WF_vars(Callback(l))
    /\ \A l \in IO, fd \in Fds : SF_vars(Dispatch(l, fd))

Spec == Init /\ [][Next]_vars

FairSpec == Spec /\ Fairness

------------------------------------------------------------------------------
\* Properties

\* An event_loop never calls back a connection that is not its own, is closed,
\* or has lost its descriptor to another client: an entry of m_io_evs_map or of
\* t_event_loop_conns is that of a live, open connection of this loop with this
\* descriptor, and the two tables agree.
TablesAreLive ==
    \A l \in Loops, f \in Fds :
        LET e == ioEvs[l][f]
        IN  /\ loopConns[l][f] = e.rcb
            /\ \A c \in {e.rcb, e.wcb} \ {None} :
                /\ c \in alive
                /\ conn[c].st = "kConnected"
                /\ conn[c].fd = f
                /\ conn[c].loop = l

\* A descriptor has one owner.
OneOwner == \A c, d \in alive : conn[c].fd = conn[d].fd => c = d

\* ~tcp_conn never has to close: an open connection is always referenced by
\* someone.  (close() from the destructor would edit the tables of a loop from
\* another thread and post a delete for a descriptor that is free already.)
OpenIsHeld == \A c \in Clients : conn[c].st = "kConnected" => c \in alive

\* A delete_conn task carries a bare descriptor.  When it runs it finds the
\* connection that posted it: that one is closed, nobody else has got the
\* number meanwhile, and no second delete for it is waiting.
DeletesItsOwn ==
    \A i \in DOMAIN queue[Main] :
        queue[Main][i].kind = "delete_conn" =>
            LET f == queue[Main][i].fd
            IN  /\ \E c \in alive :
                    /\ conn[c].fd = f
                    /\ conn[c].st = "kDisconnected"
                    /\ m_conns[f] = c \/ accepted = c
                /\ \A j \in DOMAIN queue[Main] :
                    queue[Main][j] = queue[Main][i] => j = i

\* The close callback is called exactly once for every connection that is
\* gone, and never before the connection is closed.
CloseReportedOnce ==
    \A c \in Clients :
        /\ onClose[c] <= 1
        /\ onClose[c] = 1 => conn[c].st = "kDisconnected"
        /\ conn[c].st # "none" /\ c \notin alive => onClose[c] = 1

\* Output is never stranded: an open connection with unsent output has
\* EPOLLOUT armed, whichever of its callbacks and pushes interleave.
OutputIsArmed ==
    \A c \in Clients :
        conn[c].st = "kConnected" /\ conn[c].obuf > 0 =>
            "OUT" \in ioEvs[conn[c].loop][conn[c].fd].armed

\* accept_callback tests `>` before it counts the new connection: there are
\* never more than maxConn + 1 connections.
ConnLimit == s_conn_nums <= MaxConn + 1

\* Every connection whose peer has left is destroyed in the end: its
\* descriptor is free again.
GoneIsReleased ==
    \A c \in Clients : (c \in alive /\ peer[c] = "gone") ~> (c \notin alive)

\* EMFILE is an expected error of accept, "too many connections, not enough
\* resources": when every client that held a descriptor has left, the main loop
\* gets out of accept_callback.
EmfilePasses ==
    (mainAt = "accept" /\ \A c \in alive : peer[c] = "gone") ~> (mainAt = "wait")

==============================================================================
