-------------------------------- MODULE Agent --------------------------------
(***************************************************************************)
(* lars_agent: UDP servers answer clients that ask for a host of a key,    *)
(* and post a pull of the routes of an unknown key to the loop of the dns  *)
(* client, a TCP client that is also pushed the routes of SubKey by        *)
(* lars_dns.  All of these threads use the maps of route_lb and the one    *)
(* handler_map of the process without a lock; the main thread starts the   *)
(* dns client after the UDP servers are in service.                        *)
(*                                                                         *)
(* Two accesses of one map at once, one of them a write, may crash the     *)
(* process, as may the use of a deleted or uninitialised load_balance; a   *)
(* null pointer does.  No load_balance ever has a host (update() is        *)
(* empty), so choice_one_host is never called.  update_host is modelled    *)
(* with the host list its header declares (the .cc does not compile).      *)
(* The clients are on the same machine, and so few that no socket is full: *)
(* datagrams are neither reordered nor duplicated, and lost only when the  *)
(* server is not there yet.  lars_dns and the kernel's TCP are external.   *)
(***************************************************************************)
EXTENDS LarsProto, FiniteSets

CONSTANTS
    Clients,
    Servers,   \* UDP servers that run, by the index of their route_lb
    Keys,      \* <<modid, cmdid>> pairs that clients ask for: two pairs never have
               \* one key of m_lb_map (DnsPush_proofs, KeysAreUnique)
    SubKey,    \* the key lars_dns pushes
    MaxPush,   \* bound: pushes
    MaxLb,     \* bound: load_balances
    Dns,       \* the dns client's loop thread
    None

RouteLbs == 0 .. 2

ASSUME ServersAssumption == Servers \subseteq RouteLbs /\ Dns \notin Servers

\* numbers that are not negative, and whose sum is an int that is not negative for
\* the key that is pushed: the array of route_lbs is indexed by its remainder, and
\* another sum overflows, or indexes in front of the array
ASSUME KeysAssumption ==
    /\ SubKey \in Keys /\ Keys \subseteq UINT32 \X UINT32
    /\ SubKey[1] + SubKey[2] \in UINT32

ASSUME BoundsAssumption ==
    /\ IsFiniteSet(Clients) /\ Cardinality(Clients) \in UINT32
    /\ {MaxPush, MaxLb} \subseteq Nat

Threads == Servers \cup {Dns}

LbIds == 1 .. MaxLb

MaxReq == Cardinality(Clients)

VARIABLES
    mainAt,         \* what the main thread does next
    handlers,       \* m_handler_map: message id -> route_lb bound to the handler
    dgrams,         \* server -> datagrams in its socket, with their senders
    m_client_addr,  \* server -> client
    work,           \* thread -> where it is in get_host or update_host, on what
    m_lb_map,       \* route_lb -> key -> load_balance or None
    status,         \* load_balance -> its status
    posted,         \* load_balances whose pull() has posted its task, with their key
    tasks,          \* pull tasks of the dns client's loop
    tcp,            \* the dns client's socket: "none", "syn", "up", "closed", "failed"
    events,         \* events registered for it
    m_connected,
    m_obuf,         \* requests in m_obuf
    pushes,         \* frames from lars_dns not yet read
    pushed,         \* frames from lars_dns so far
    asked,          \* requests sent: client and message
    answered,       \* answers that have reached a client: client and message
    exited          \* exit(1), abort or a crash

client == <<asked, answered>>
udp == <<dgrams, m_client_addr>>
lbs == <<m_lb_map, status, posted, tasks>>
conn == <<tcp, events, m_connected, m_obuf, pushes, pushed>>
vars == <<mainAt, handlers, udp, work, lbs, conn, client, exited>>

------------------------------------------------------------------------------
\* Messages, and what is read back from the bytes written for them

Requests == {GetHostRequest_Of(n, key[1], key[2]) : n \in 1 .. MaxReq, key \in Keys}

Routes == {GetRouteResponse_Of(SubKey[1], SubKey[2], hosts) :
              hosts \in {<<>>, <<HostInfo_Of(1, 1)>>}}

MESSAGE_HEADER_SIZE == 8
MESSAGE_MAX_SIZE == 65535 - MESSAGE_HEADER_SIZE

\* a datagram: send() puts the length of the whole in its header
Datagram(id, body) == [id |-> id, len |-> MESSAGE_HEADER_SIZE + Len(body), body |-> body]

RequestFrame ==
    [m \in Requests |-> Datagram(ID_GetHostRequest, GetHostRequest_SerializeToString(m))]

RequestOf ==
    [f \in {RequestFrame[m] : m \in Requests} |-> GetHostRequest_ParseFromArray(f.body).msg]

RouteFrame == [m \in Routes |-> GetRouteResponse_SerializeToString(m)]

RouteOf == [f \in {RouteFrame[m] : m \in Routes} |-> GetRouteResponse_ParseFromArray(f).msg]

\* get_host_handler's response; the host it copies is only filled in for RET_SUCC
Response(seq, key, ret) ==
    GetHostResponse_Of(seq, key[1], key[2], ret, HostInfo_CopyFrom(HostInfo_Clear))

Responses == {Response(m.seq, <<m.modid, m.cmdid>>, RET_NOEXIST) : m \in Requests}

ResponseOf ==
    [m \in Responses |->
        GetHostResponse_ParseFromArray(GetHostResponse_SerializeToString(m)).msg]

------------------------------------------------------------------------------
Idle(at) == [at |-> at, rl |-> 0, key |-> SubKey, lb |-> 0, seq |-> 0, hosts |-> FALSE]

MapPlaces == {"find", "insert", "pull", "erase"}

TypeOK ==
    /\ mainAt \in {"thread", "client", "connect", "done"}
    /\ handlers \in [{ID_GetHostRequest, ID_GetRouteResponse} -> Servers \cup {Dns, None}]
    /\ dgrams \in [Servers -> Seq([from : Clients, frame : {RequestFrame[m] : m \in Requests}])]
    /\ m_client_addr \in [Servers -> Clients \cup {None}]
    /\ work \in [Threads -> [at : {"start", "register", "idle", "check", "status", "reply",
                                   "delete"} \cup MapPlaces,
                             rl : RouteLbs, key : Keys, lb : 0 .. MaxLb, seq : 0 .. MaxReq,
                             hosts : BOOLEAN]]
    /\ m_lb_map \in [RouteLbs -> [Keys -> LbIds \cup {None}]]
    /\ status \in [LbIds -> {"free", "uninit", "PULLING", "deleted"}]
    /\ posted \subseteq LbIds \X Keys
    /\ tasks \in Seq(LbIds)
    /\ tcp \in {"none", "syn", "up", "closed", "failed"}
    /\ events \subseteq {"IN", "OUT"}
    /\ m_connected \in BOOLEAN
    /\ m_obuf \in Nat
    /\ pushes \in Seq({RouteFrame[m] : m \in Routes})
    /\ Len(pushes) <= pushed /\ pushed \in 0 .. MaxPush
    /\ asked \subseteq Clients \X Requests /\ answered \subseteq Clients \X Responses
    /\ exited \in BOOLEAN

Init ==
    /\ mainAt = "thread"
    /\ handlers = [id \in {ID_GetHostRequest, ID_GetRouteResponse} |-> None]
    /\ dgrams = [u \in Servers |-> <<>>]
    /\ m_client_addr = [u \in Servers |-> None]
    /\ work = [t \in Threads |-> Idle(IF t = Dns THEN "idle" ELSE "start")]
    /\ m_lb_map = [r \in RouteLbs |-> [k \in Keys |-> None]]
    /\ status = [i \in LbIds |-> "free"]
    /\ posted = {}
    /\ tasks = <<>>
    /\ tcp = "none"
    /\ events = {}
    /\ m_connected = FALSE
    /\ m_obuf = 0
    /\ pushes = <<>>
    /\ pushed = 0
    /\ asked = {}
    /\ answered = {}
    /\ exited = FALSE

Exit == exited' = TRUE

Moves(t, from, to) ==
    /\ work[t].at = from
    /\ work' = [work EXCEPT ![t] = IF to = "idle" THEN Idle(to) ELSE [@ EXCEPT !.at = to]]

------------------------------------------------------------------------------
\* Clients: udp_client::send, to the port of one of the servers.  A datagram is
\* lost when the server's socket is not there yet.  Bound: a client asks once.
ClientSend(c, u, key) ==
    /\ ~ \E q \in Requests : <<c, q>> \in asked
    /\ LET m == GetHostRequest_Of(Cardinality(asked) + 1, key[1], key[2])
       IN  /\ asked' = asked \cup {<<c, m>>}
           /\ dgrams' = [dgrams EXCEPT ![u] =
                  IF work[u].at = "start" THEN @
                  ELSE Append(@, [from |-> c, frame |-> RequestFrame[m]])]
    /\ UNCHANGED <<mainAt, handlers, m_client_addr, work, lbs, conn, answered, exited>>

------------------------------------------------------------------------------
\* run_udp_server

\* the constructor of udp_server: socket and bind
BindServer(u) ==
    /\ Moves(u, "start", "register")
    /\ UNCHANGED <<mainAt, handlers, udp, lbs, conn, client, exited>>

\* the route_lb taken by its id, which counts from 1
AddRouterById(u) ==
    /\ Moves(u, "register", "idle")
    /\ handlers' = [handlers EXCEPT ![ID_GetHostRequest] = u + 1]
    /\ UNCHANGED <<mainAt, udp, lbs, conn, client, exited>>

\* add_router writes the handler_map of the process: the last one to register
\* has bound its route_lb for all servers
AddRouter(u) ==
    /\ Moves(u, "register", "idle")
    /\ handlers' = [handlers EXCEPT ![ID_GetHostRequest] = u]
    /\ UNCHANGED <<mainAt, udp, lbs, conn, client, exited>>

\* the header of a datagram agrees with what was received
WellFormed(frame) ==
    /\ frame.len \in 1 .. MESSAGE_MAX_SIZE
    /\ frame.len = MESSAGE_HEADER_SIZE + Len(frame.body)

\* do_read that takes the first client for the only one
DoReadOnce(u) ==
    /\ work[u].at = "idle"
    /\ dgrams[u] # <<>>
    /\ dgrams' = [dgrams EXCEPT ![u] = Tail(@)]
    /\ m_client_addr' = [m_client_addr EXCEPT ![u] = IF @ = None THEN Head(dgrams[u]).from ELSE @]
    /\ LET frame == Head(dgrams[u]).frame
           req == RequestOf[frame]
       IN  work' = [work EXCEPT ![u] =
               [Idle("find") EXCEPT !.rl = handlers[frame.id], !.key = <<req.modid, req.cmdid>>,
                                    !.seq = req.seq]]
    /\ UNCHANGED <<mainAt, handlers, lbs, conn, client, exited>>

\* do_read: recvfrom sets m_client_addr; get_host_handler parses the request
DoRead(u) ==
    /\ work[u].at = "idle"
    /\ dgrams[u] # <<>>
    /\ dgrams' = [dgrams EXCEPT ![u] = Tail(@)]
    /\ m_client_addr' = [m_client_addr EXCEPT ![u] = Head(dgrams[u]).from]
    /\ LET frame == Head(dgrams[u]).frame
           req == RequestOf[frame]
       IN  IF WellFormed(frame) /\ handlers[frame.id] # None
           THEN work' = [work EXCEPT ![u] =
                    [Idle("find") EXCEPT !.rl = handlers[frame.id],
                                         !.key = <<req.modid, req.cmdid>>, !.seq = req.seq]]
           ELSE UNCHANGED work
    /\ UNCHANGED <<mainAt, handlers, lbs, conn, client, exited>>

------------------------------------------------------------------------------
\* get_host and update_host, by the servers and by the dns client's loop

Entry(t) == m_lb_map[work[t].rl][work[t].key]

Continues(t) == IF t = Dns THEN "idle" ELSE "reply"

\* m_lb_map.find: what is there has no host (yet), and is looked at by get_host;
\* update_host deletes it when the routes pushed have no host either
Find(t) ==
    /\ work[t].at = "find"
    /\ work' = [work EXCEPT ![t] =
           IF Entry(t) = None THEN [@ EXCEPT !.at = "insert"]
           ELSE IF t # Dns THEN [@ EXCEPT !.at = "check", !.lb = Entry(t)]
           ELSE IF ~work[t].hosts THEN [@ EXCEPT !.at = "delete", !.lb = Entry(t)]
           ELSE Idle("idle")]
    /\ UNCHANGED <<mainAt, handlers, udp, lbs, conn, client, exited>>

\* assert(lb->status == PULLING), of a status nobody may have set yet
CheckStatus(u) ==
    /\ Moves(u, "check", "reply")
    /\ UNCHANGED <<mainAt, handlers, udp, lbs, conn, client, exited>>

\* an insertion that takes the answer for given and leaves the pull to others
InsertOnly(t) ==
    /\ Moves(t, "insert", Continues(t))
    /\ \E i \in LbIds :
        /\ status[i] = "free" /\ \A j \in 1 .. i - 1 : status[j] # "free"
        /\ status' = [status EXCEPT ![i] = "uninit"]
        /\ m_lb_map' = [m_lb_map EXCEPT ![work[t].rl][work[t].key] = i]
    /\ UNCHANGED <<mainAt, handlers, udp, posted, tasks, conn, client, exited>>

\* a new load_balance in the map; one that another thread has put there is lost
Insert(t) ==
    /\ Moves(t, "insert", "pull")
    /\ \E i \in LbIds :
        /\ status[i] = "free" /\ \A j \in 1 .. i - 1 : status[j] # "free"
        /\ status' = [status EXCEPT ![i] = "uninit"]
        /\ m_lb_map' = [m_lb_map EXCEPT ![work[t].rl][work[t].key] = i]
    /\ UNCHANGED <<mainAt, handlers, udp, posted, tasks, conn, client, exited>>

\* m_lb_map[mod_cmd]->pull(): the entry is looked up again, and is null if it has
\* been erased; the task goes to m_loop, null until the dns client has started
PostPull(t) ==
    /\ work[t].at = "pull"
    /\ IF Entry(t) = None \/ mainAt = "thread"
           THEN Exit /\ UNCHANGED <<work, posted, tasks>>
           ELSE /\ tasks' = Append(tasks, Entry(t))
                /\ posted' = posted \cup {<<Entry(t), work[t].key>>}
                /\ work' = [work EXCEPT ![t].at = "status", ![t].lb = Entry(t)]
                /\ UNCHANGED exited
    /\ UNCHANGED <<mainAt, handlers, udp, m_lb_map, status, conn, client>>

\* pull() sets the status of an object that update_host may have deleted
SetStatus(t) ==
    /\ Moves(t, "status", Continues(t))
    /\ status' = [status EXCEPT ![work[t].lb] = IF @ = "deleted" THEN @ ELSE "PULLING"]
    /\ UNCHANGED <<mainAt, handlers, udp, m_lb_map, posted, tasks, conn, client, exited>>

\* get_host_handler: the response goes to m_client_addr
Reply(u) ==
    /\ Moves(u, "reply", "idle")
    /\ LET m == ResponseOf[Response(work[u].seq, work[u].key, RET_NOEXIST)]
       IN  answered' = answered \cup {<<m_client_addr[u], m>>}
    /\ UNCHANGED <<mainAt, handlers, udp, lbs, conn, asked, exited>>

\* update_host: delete lb, then erase
DeleteLb ==
    /\ Moves(Dns, "delete", "erase")
    /\ status' = [status EXCEPT ![work[Dns].lb] = "deleted"]
    /\ UNCHANGED <<mainAt, handlers, udp, m_lb_map, posted, tasks, conn, client, exited>>

EraseLb ==
    /\ Moves(Dns, "erase", "idle")
    /\ m_lb_map' = [m_lb_map EXCEPT ![work[Dns].rl][work[Dns].key] = None]
    /\ UNCHANGED <<mainAt, handlers, udp, status, posted, tasks, conn, client, exited>>

------------------------------------------------------------------------------
\* start_dns_client, in the main thread

\* m_loop is set once the thread has started
StartDnsThread ==
    /\ mainAt = "thread" /\ mainAt' = "client"
    /\ UNCHANGED <<handlers, udp, work, lbs, conn, client, exited>>

\* m_client is set, then add_router
MakeDnsClient ==
    /\ mainAt = "client" /\ mainAt' = "connect"
    /\ handlers' = [handlers EXCEPT ![ID_GetRouteResponse] = Dns]
    /\ UNCHANGED <<udp, work, lbs, conn, client, exited>>

\* tcp_client::do_connect.  EINPROGRESS: EPOLLOUT is registered with the loop by
\* this thread, while the loop may be looking up the event of its task queue.
\* Another error: exit(1).  0: connected at once, and nothing is registered.
DoConnect ==
    /\ mainAt = "connect" /\ mainAt' = "done"
    /\ \/ tcp' = "syn" /\ events' = {"OUT"} /\ UNCHANGED exited
       \/ tcp' = "failed" /\ Exit /\ UNCHANGED events
       \/ tcp' = "up" /\ UNCHANGED <<events, exited>>
    /\ UNCHANGED <<handlers, udp, work, lbs, m_connected, m_obuf, pushes, pushed, client>>

------------------------------------------------------------------------------
\* The kernel's TCP, and lars_dns: it pushes on what it has accepted, and closes

Tcp(from, to) ==
    /\ tcp = from /\ tcp' = to
    /\ UNCHANGED <<mainAt, handlers, udp, work, lbs, events, m_connected, m_obuf, pushes,
                   pushed, client, exited>>

PushRoutes(m) ==
    /\ tcp = "up"
    /\ pushed < MaxPush
    /\ pushes' = Append(pushes, RouteFrame[m])
    /\ pushed' = pushed + 1
    /\ UNCHANGED <<mainAt, handlers, udp, work, lbs, tcp, events, m_connected, m_obuf,
                   client, exited>>

------------------------------------------------------------------------------
\* The dns client's loop

\* a task of pull() that is kept until the connection has been made
RunPullWhenConnected ==
    /\ work[Dns].at = "idle"
    /\ tasks # <<>>
    /\ m_connected
    /\ tasks' = Tail(tasks)
    /\ m_obuf' = m_obuf + 1 /\ events' = events \cup {"OUT"}
    /\ UNCHANGED <<mainAt, handlers, udp, work, m_lb_map, status, posted, tcp, m_connected,
                   pushes, pushed, client, exited>>

\* the task of pull() reads the load_balance it was posted for, then m_client:
\* null while main is between the two.  What cannot be sent is not sent later;
\* what is sent is a message for which lars_dns has no handler.
RunPull ==
    /\ work[Dns].at = "idle"
    /\ tasks # <<>>
    /\ tasks' = Tail(tasks)
    /\ IF mainAt = "client" THEN Exit ELSE UNCHANGED exited
    /\ IF m_connected THEN m_obuf' = m_obuf + 1 /\ events' = events \cup {"OUT"}
                      ELSE UNCHANGED <<m_obuf, events>>
    /\ UNCHANGED <<mainAt, handlers, udp, work, m_lb_map, status, posted, tcp, m_connected,
                   pushes, pushed, client>>

\* handle_connect: SO_ERROR says whether the connection was made
HandleConnect ==
    /\ work[Dns].at = "idle"
    /\ "OUT" \in events /\ ~m_connected
    /\ tcp \in {"up", "closed", "failed"}
    /\ events' = IF tcp = "failed" THEN {} ELSE {"IN"}
    /\ m_connected' = (tcp # "failed")
    /\ exited' = (tcp = "failed")
    /\ UNCHANGED <<mainAt, handlers, udp, work, lbs, tcp, m_obuf, pushes, pushed, client>>

\* handle_write, to the end; a connection that is gone is left to HandleClose
HandleWrite ==
    /\ work[Dns].at = "idle"
    /\ "OUT" \in events /\ m_connected
    /\ m_obuf' = 0
    /\ events' = events \ {"OUT"}
    /\ UNCHANGED <<mainAt, handlers, udp, work, lbs, tcp, m_connected, pushes, pushed, client,
                   exited>>

\* deal_recv_route: update_host of the route_lb of the routes' key, with their hosts
UpdateHost(m) ==
    [Idle("find") EXCEPT !.rl = (m.modid + m.cmdid) % 3, !.key = <<m.modid, m.cmdid>>,
                         !.hosts = m.host # <<>>]

\* handle_read: a message, given to deal_recv_route
HandleRead ==
    /\ work[Dns].at = "idle"
    /\ "IN" \in events
    /\ pushes # <<>>
    /\ pushes' = Tail(pushes)
    /\ work' = [work EXCEPT ![Dns] = UpdateHost(RouteOf[Head(pushes)])]
    /\ exited' = ~m_connected
    /\ UNCHANGED <<mainAt, handlers, udp, lbs, tcp, events, m_connected, m_obuf, pushed, client>>

\* handle_read: the peer has closed.  clean_conn connects the same socket again:
\* the kernel says that it is connected, which do_connect ignores, or refuses
HandleClose ==
    /\ work[Dns].at = "idle"
    /\ "IN" \in events
    /\ tcp = "closed" /\ pushes = <<>>
    /\ m_connected' = FALSE
    /\ m_obuf' = 0
    /\ events' = {}
    /\ exited' \in BOOLEAN
    /\ UNCHANGED <<mainAt, handlers, udp, work, lbs, tcp, pushes, pushed, client>>

------------------------------------------------------------------------------
\* What the language leaves undefined: maps accessed by several threads at once,
\* load_balances used after they were deleted or before their status was set.

\* threads that are writing the handler map: servers, and main for the dns client
Registering == {u \in Servers : work[u].at = "register"}
               \cup IF mainAt = "client" THEN {None} ELSE {}

\* two threads are in the map of one route_lb, and one of them writes
MapRace ==
    \E t, o \in Threads :
        /\ t # o /\ work[t].rl = work[o].rl
        /\ work[t].at \in {"insert", "erase"} /\ work[o].at \in MapPlaces

Undefined ==
    \/ Cardinality(Registering) > 1
    \/ /\ Registering # {}
       /\ \/ \E u \in Servers : work[u].at = "idle" /\ dgrams[u] # <<>>
          \/ work[Dns].at = "idle" /\ "IN" \in events /\ pushes # <<>>
    \/ MapRace
    \/ \E u \in Servers : work[u].at = "check" /\ status[work[u].lb] # "PULLING"
    \/ \E t \in Threads : work[t].at = "status" /\ status[work[t].lb] = "deleted"
    \/ tasks # <<>> /\ work[Dns].at = "idle" /\ status[Head(tasks)] = "deleted"
    \/ tasks # <<>> /\ mainAt = "connect"

Crash ==
    /\ Undefined
    /\ Exit
    /\ UNCHANGED <<mainAt, handlers, udp, work, lbs, conn, client>>

------------------------------------------------------------------------------
MainStep == ~exited /\ (StartDnsThread \/ MakeDnsClient \/ DoConnect)

HostStep(t) == Find(t) \/ Insert(t) \/ PostPull(t) \/ SetStatus(t)

ServerStep(u) ==
    /\ ~exited
    /\ \/ BindServer(u) \/ AddRouter(u)
       \/ DoRead(u) \/ HostStep(u) \/ CheckStatus(u) \/ Reply(u)

DnsStep ==
    /\ ~exited
    /\ \/ HostStep(Dns) \/ DeleteLb \/ EraseLb
       \/ RunPull \/ HandleConnect \/ HandleWrite \/ HandleRead \/ HandleClose

Network ==
    /\ ~exited
    /\ \/ Tcp("syn", "up") \/ Tcp("syn", "failed") \/ Tcp("up", "closed")
       \/ \E m \in Routes : PushRoutes(m)

Next ==
    \/ ~exited /\ \E c \in Clients, u \in Servers, k \in Keys : ClientSend(c, u, k)
    \/ \E u \in Servers : ServerStep(u)
    \/ MainStep
    \/ DnsStep
    \/ Network
    \/ ~exited /\ Crash

\* All threads are scheduled.  Clients, the network and lars_dns owe nothing.
Fairness ==
    /\ WF_vars(MainStep)
    /\ \A u \in Servers : WF_vars(ServerStep(u))
    /\ WF_vars(DnsStep)

Spec == Init /\ [][Next]_vars

FairSpec == Spec /\ Fairness

------------------------------------------------------------------------------
\* Properties

InMap(i) == \E r \in RouteLbs, k \in Keys : m_lb_map[r][k] = i

\* pull() has posted the task of load_balance i, and no such task waits
Pulled(i) ==
    /\ \E k \in Keys : <<i, k>> \in posted
    /\ \A n \in DOMAIN tasks : tasks[n] # i

\* An answer reaches the client that asked, and repeats the number and the key of
\* what it asked: though the sender is kept in a member of the server, and all
\* servers run the handler that registered last.
AnswersReachAsker ==
    \A a \in answered :
        \E q \in Requests :
            /\ <<a[1], q>> \in asked
            /\ q.seq = a[2].seq /\ q.modid = a[2].modid /\ q.cmdid = a[2].cmdid

\* NOEXIST is answered on the strength of a pull: while a key has a load_balance,
\* the pull of that object is posted, or a thread is about to post it, whichever
\* threads created, overwrote or erased entries of the key before.
NoexistIsPulled ==
    \A r \in RouteLbs, k \in Keys :
        m_lb_map[r][k] # None =>
            \/ exited
            \/ <<m_lb_map[r][k], k>> \in posted
            \/ \E t \in Threads : work[t].at = "pull" /\ work[t].rl = r /\ work[t].key = k

\* A load_balance that stays in a map does not wait for its pull: the dns client's
\* loop runs the task posted for that very object, unless the process ends.  Other
\* threads may overwrite, delete or erase the entry meanwhile, and the connection
\* to lars_dns may never be made.
EntryIsPulled ==
    \A i \in LbIds :
        InMap(i) ~> exited \/ ~InMap(i) \/ Pulled(i)

==============================================================================
